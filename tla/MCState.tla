------------------------------- MODULE MCState -------------------------------
(***************************************************************************)
(* Two sets of fourteen events.  The events of one kernel: two nested      *)
(* domains and a denied third one, a ruleset with rules whose order of     *)
(* application matters, frees and enforcements.  Events that contradict    *)
(* each other: equal and decreasing timestamps, counts that go down, two   *)
(* parents, creators and rulesets for one domain, uses after a free.       *)
(***************************************************************************)
EXTENDS StateFacts

CONSTANTS d1, d2, d3, r1, r2

NewR ==
  [variant |-> "CreateRuleset", timestamp |-> 1, ruleset_id |-> r1, ruleset_version |-> 0,
   handled |-> "masks"]

PathRule(timestamp, version, right) ==
  [variant |-> "AddRulePathBeneath", timestamp |-> timestamp, ruleset_id |-> r1,
   ruleset_version |-> version, target |-> "inode", access_rights |-> {right},
   pathname |-> right]

PortRule(timestamp, version, right) ==
  [variant |-> "AddRuleNetPort", timestamp |-> timestamp, ruleset_id |-> r1,
   ruleset_version |-> version, port |-> 80, access_rights |-> {right}]

Create(domain, parent, timestamp, ruleset, version) ==
  [variant |-> "CreateDomain", timestamp |-> timestamp, domain_id |-> domain,
   parent_id |-> parent, creator_tgid |-> "p", creator_comm |-> "c",
   ruleset_id |-> ruleset, ruleset_version |-> version]

Denial(variant, timestamp, domain, parent, creator, target, count) ==
  [variant |-> variant, timestamp |-> timestamp, target_domain |-> target,
   domain_id |-> domain, parent_id |-> parent, creator_tgid |-> creator[1],
   creator_comm |-> creator[2], cumulative_denial_count |-> count]

Enforce(timestamp, domain, tid, wide) ==
  [variant |-> "EnforceDomain", timestamp |-> timestamp, domain_id |-> domain,
   enforcing_tid |-> tid, process_wide |-> wide, no_new_privs |-> ~wide]

FreeD(timestamp, domain, count) ==
  [variant |-> "FreeDomain", timestamp |-> timestamp, domain_id |-> domain,
   denial_count |-> count]

FreeR(timestamp, version) ==
  [variant |-> "FreeRuleset", timestamp |-> timestamp, ruleset_id |-> r1,
   ruleset_version |-> version]

Consistent ==
  {NewR, PathRule(2, 1, "old"), PathRule(3, 2, "new"), PortRule(2, 3, "bind"),
   PortRule(3, 4, "connect"), Create(d1, Root, 4, r1, 1), Create(d2, d1, 5, r1, 4),
   Denial("DenyAccessFs", 6, d2, d1, <<"p", "c">>, Unsandboxed, 2),
   Denial("DenyPtrace", 7, d2, d1, <<"p", "c">>, d3, 1),
   Enforce(5, d2, 1, TRUE), Enforce(6, d2, 1, FALSE), Enforce(7, d2, 2, FALSE),
   FreeD(8, d2, 2), FreeR(9, 3)}

Contradictory ==
  {NewR, PathRule(2, 1, "read"), PathRule(1, 1, "write"), PortRule(1, 2, "bind"),
   Create(d1, d2, 1, r1, 2), Create(d1, Root, 1, r2, 0),
   Denial("DenyScopeSignal", 1, d1, d3, <<"q", "b">>, d2, 2),
   Denial("DenyScopeSignal", 1, d1, Root, <<"q", "b">>, Unsandboxed, 0),
   Enforce(2, d1, 1, TRUE), Enforce(1, d1, 1, FALSE),
   FreeD(2, d1, 1), FreeD(1, d1, 3), FreeR(2, 1), FreeR(1, 3)}

MCEvents == Consistent \cup Contradictory

\* The events of one set, each any number of times and in any order.
MCSpec ==
  Init /\ [][\E story \in {Consistent, Contradictory} :
               applied \subseteq story /\ \E event \in story : Apply(event)]_vars

ASSUME ConsistentAssumption == OneStory(Consistent)
=============================================================================
