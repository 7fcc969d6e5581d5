-------------------------------- MODULE State --------------------------------
(***************************************************************************)
(* State::apply of src/state.rs: partial ruleset and domain state rebuilt  *)
(* from events that may be missing, repeated or out of order.              *)
(*                                                                         *)
(* An event is a record with its `variant`, its timestamp and a field per  *)
(* observation; an access mask is a set of rights.                         *)
(***************************************************************************)
EXTENDS Naturals

CONSTANTS
  Events,   \* the events callers apply
  None,     \* Option::None
  Root,     \* DomainParent::Root; in an event, a null parent ID
  Unsandboxed  \* DomainMembership::Unsandboxed

VARIABLES
  rulesets,  \* HashMap<RulesetId, RulesetState>
  domains,   \* HashMap<DomainId, DomainState>
  applied    \* history: the events applied so far

vars == <<rulesets, domains, applied>>

-----------------------------------------------------------------------------
(* Maps and options.                                                        *)

EmptyMap == [k \in {} |-> None]

\* HashMap::insert
Put(map, key, value) ==
  [k \in DOMAIN map \cup {key} |-> IF k = key THEN value ELSE map[k]]

\* entry(key).or_insert(value), as a lookup and as an update for several keys.
Lookup(map, key, value) == IF key \in DOMAIN map THEN map[key] ELSE value

Ensure(map, keys, value) == [k \in DOMAIN map \cup keys |-> Lookup(map, k, value)]

Max2(a, b) == IF a >= b THEN a ELSE b

\* is_none_or(|value| candidate >= value)
Replaces(candidate, current) == current = None \/ candidate >= current

update_max_Last(current, candidate) == candidate

\* update_max and update_latest_timestamp
update_max(current, candidate) ==
  IF current = None THEN candidate ELSE Max2(candidate, current)

\* Deallocated is terminal.
mark_allocated(state) ==
  [state EXCEPT !.lifecycle = IF @ # "Deallocated" THEN "Allocated" ELSE @]

-----------------------------------------------------------------------------
(* Rulesets.                                                                *)

NewRuleset(lifecycle, version) ==
  [lifecycle |-> lifecycle, creation_timestamp |-> None, handled |-> None,
   max_observed_version |-> version, final_version |-> None, free_timestamp |-> None,
   filesystem_rules |-> EmptyMap, network_rules |-> EmptyMap]

update_version(state, version) == [state EXCEPT !.max_observed_version = Max2(@, version)]

\* The ruleset an event uses: inserted if unknown, allocated, version noted.
UsedRuleset(event) ==
  update_version(
    mark_allocated(Lookup(rulesets, event.ruleset_id,
                          NewRuleset("Allocated", event.ruleset_version))),
    event.ruleset_version)

\* handled_fs, handled_net and scoped are set together, here as `handled`.
CreateRuleset(event) ==
  LET state == UsedRuleset(event)
  IN /\ event.variant = "CreateRuleset"
     /\ rulesets' = Put(rulesets, event.ruleset_id,
          IF Replaces(event.timestamp, state.creation_timestamp)
          THEN [state EXCEPT !.creation_timestamp = event.timestamp, !.handled = event.handled]
          ELSE state)
     /\ UNCHANGED domains

MergedPathRule_LastApplied(rules, event) ==
  [access_rights |-> event.access_rights
     \cup (IF event.target \in DOMAIN rules THEN rules[event.target].access_rights ELSE {}),
   pathname |-> event.pathname, pathname_timestamp |-> event.timestamp]

\* Masks of one target are joined; its path is the latest one.
MergedPathRule(rules, event) ==
  LET rule == rules[event.target]
      new == [access_rights |-> event.access_rights, pathname |-> event.pathname,
              pathname_timestamp |-> event.timestamp]
  IN IF event.target \notin DOMAIN rules THEN new
     ELSE IF event.timestamp >= rule.pathname_timestamp
     THEN [new EXCEPT !.access_rights = @ \cup rule.access_rights]
     ELSE [rule EXCEPT !.access_rights = @ \cup event.access_rights]

AddRulePathBeneath(event) ==
  LET state == UsedRuleset(event)
  IN /\ event.variant = "AddRulePathBeneath"
     /\ rulesets' = Put(rulesets, event.ruleset_id,
          [state EXCEPT !.filesystem_rules = Put(@, event.target, MergedPathRule(@, event))])
     /\ UNCHANGED domains

AddRuleNetPort(event) ==
  LET state == UsedRuleset(event)
  IN /\ event.variant = "AddRuleNetPort"
     /\ rulesets' = Put(rulesets, event.ruleset_id,
          [state EXCEPT !.network_rules =
             Put(@, event.port, Lookup(@, event.port, {}) \cup event.access_rights)])
     /\ UNCHANGED domains

FreeRuleset(event) ==
  LET state == Lookup(rulesets, event.ruleset_id,
                      NewRuleset("Deallocated", event.ruleset_version))
      freed == [state EXCEPT
                  !.lifecycle = "Deallocated",
                  !.free_timestamp = update_max(@, event.timestamp),
                  !.final_version = update_max(@, event.ruleset_version)]
  IN /\ event.variant = "FreeRuleset"
     /\ rulesets' = Put(rulesets, event.ruleset_id,
                        update_version(freed, event.ruleset_version))
     /\ UNCHANGED domains

-----------------------------------------------------------------------------
(* Domains.                                                                 *)

NewDomain(lifecycle) ==
  [lifecycle |-> lifecycle, creation_timestamp |-> None, parent |-> None,
   creator_tgid |-> None, creator_comm |-> None, ruleset |-> None,
   cumulative_denial_count |-> None, final_denial_count |-> None, free_timestamp |-> None,
   enforcement_events |-> EmptyMap, any_process_wide_enforcement |-> FALSE]

ParentIds_Forgotten(event) == {}

\* The parent, if any, is materialized too.
ParentIds(event) == IF event.parent_id = Root THEN {} ELSE {event.parent_id}

\* RulesetVersion::new
RulesetVersion(event) ==
  [ruleset_id |-> event.ruleset_id, ruleset_version |-> event.ruleset_version]

\* The latest creation event decides, over what denials made known.
CreatedDomain(state, event) ==
  IF Replaces(event.timestamp, state.creation_timestamp)
  THEN [state EXCEPT !.creation_timestamp = event.timestamp,
                     !.parent = event.parent_id,
                     !.creator_tgid = event.creator_tgid,
                     !.creator_comm = event.creator_comm,
                     !.ruleset = RulesetVersion(event)]
  ELSE state

CreateDomain(event) ==
  LET materialized == Ensure(domains, ParentIds(event), NewDomain("Allocated"))
      state == mark_allocated(Lookup(materialized, event.domain_id, NewDomain("Allocated")))
      counted == [state EXCEPT !.cumulative_denial_count = update_max(@, 0)]
  IN /\ event.variant = "CreateDomain"
     /\ rulesets' = Put(rulesets, event.ruleset_id, UsedRuleset(event))
     /\ domains' = Put(materialized, event.domain_id, CreatedDomain(counted, event))

DenialVariants == {"DenyAccessFs", "DenyAccessNet", "DenyPtrace", "DenyScopeSignal",
                   "DenyScopeAbstractUnixSocket"}

\* DomainMembership::Sandboxed of the denied target; filesystem and network
\* denials have no target domain.
OtherIds(event) ==
  IF event.variant \in {"DenyAccessFs", "DenyAccessNet"} \/ event.target_domain = Unsandboxed
  THEN {} ELSE {event.target_domain}

\* apply_denial: the hierarchy fills in what is unknown.
ApplyDenial(event) ==
  LET state == mark_allocated(Lookup(domains, event.domain_id, NewDomain("Allocated")))
      creatorUnknown == state.creator_tgid = None /\ state.creator_comm = None
      denied == [state EXCEPT
        !.parent = IF @ = None THEN event.parent_id ELSE @,
        !.creator_tgid = IF creatorUnknown THEN event.creator_tgid ELSE @,
        !.creator_comm = IF creatorUnknown THEN event.creator_comm ELSE @,
        !.cumulative_denial_count = update_max(@, event.cumulative_denial_count)]
  IN /\ event.variant \in DenialVariants
     /\ domains' = Ensure(Put(domains, event.domain_id, denied),
                          ParentIds(event) \cup OtherIds(event), NewDomain("Allocated"))
     /\ UNCHANGED rulesets

FreeDomain(event) ==
  LET state == Lookup(domains, event.domain_id, NewDomain("Deallocated"))
  IN /\ event.variant = "FreeDomain"
     /\ domains' = Put(domains, event.domain_id,
          [state EXCEPT
             !.lifecycle = "Deallocated",
             !.free_timestamp = update_max(@, event.timestamp),
             !.final_denial_count = update_max(@, event.denial_count),
             !.cumulative_denial_count = update_max(@, event.denial_count)])
     /\ UNCHANGED rulesets

\* One enforcement per thread, the latest; process-wide is sticky.
EnforceDomain(event) ==
  LET state == mark_allocated(Lookup(domains, event.domain_id, NewDomain("Allocated")))
      current == Lookup(state.enforcement_events, event.enforcing_tid, event)
      selected == IF event.timestamp >= current.timestamp THEN event ELSE current
  IN /\ event.variant = "EnforceDomain"
     /\ domains' = Put(domains, event.domain_id,
          [state EXCEPT
             !.any_process_wide_enforcement = @ \/ event.process_wide,
             !.enforcement_events = Put(@, event.enforcing_tid, selected)])
     /\ UNCHANGED rulesets

\* What the types of event.rs say of the fields that are applied.
ASSUME EventsAssumption ==
  /\ None \notin Nat /\ Root # None
  /\ \A event \in Events :
       /\ event.timestamp \in Nat
       /\ event.variant \in {"CreateRuleset", "AddRulePathBeneath", "AddRuleNetPort",
                            "FreeRuleset", "CreateDomain"} => event.ruleset_version \in Nat
       /\ event.variant \in {"CreateDomain"} \cup DenialVariants =>
            None \notin {event.parent_id, event.creator_tgid, event.creator_comm}
       /\ event.variant = "CreateRuleset" => event.handled # None
       /\ event.variant = "CreateDomain" => RulesetVersion(event) # None
       /\ event.variant \in DenialVariants => event.cumulative_denial_count \in Nat
       /\ event.variant = "FreeDomain" => event.denial_count \in Nat

-----------------------------------------------------------------------------

\* State::apply
Apply(event) ==
  /\ applied' = applied \cup {event}
  /\ \/ CreateRuleset(event)
     \/ AddRulePathBeneath(event)
     \/ AddRuleNetPort(event)
     \/ CreateDomain(event)
     \/ ApplyDenial(event)
     \/ FreeDomain(event)
     \/ FreeRuleset(event)
     \/ EnforceDomain(event)

Init == rulesets = EmptyMap /\ domains = EmptyMap /\ applied = {}

Next == \E event \in Events : Apply(event)

Spec == Init /\ [][Next]_vars
-----------------------------------------------------------------------------

\* Deallocation is known exactly together with its final facts, whichever
\* events came before or after the free event, and a final version or count
\* never exceeds the greatest one observed.
TombstonesComplete ==
  /\ \A r \in DOMAIN rulesets :
       LET state == rulesets[r]
       IN IF state.lifecycle = "Deallocated"
          THEN /\ state.free_timestamp # None
               /\ state.final_version # None
               /\ state.final_version <= state.max_observed_version
          ELSE state.free_timestamp = None /\ state.final_version = None
  /\ \A d \in DOMAIN domains :
       LET state == domains[d]
       IN IF state.lifecycle = "Deallocated"
          THEN /\ state.free_timestamp # None
               /\ state.final_denial_count # None
               /\ state.cumulative_denial_count # None
               /\ state.final_denial_count <= state.cumulative_denial_count
          ELSE state.free_timestamp = None /\ state.final_denial_count = None

\* What becomes known together is known together: final facts with their
\* deallocation (TombstonesComplete), a parent with the creator, a ruleset with
\* the creation; and every parent and ruleset a domain refers to is retained,
\* the ruleset with at least the version the domain froze (apply, apply_denial).
FactsTogether ==
  /\ TombstonesComplete
  /\ \A d \in DOMAIN domains :
       LET state == domains[d]
       IN /\ state.parent \in DOMAIN domains \cup {None, Root}
          /\ state.parent = None <=> state.creator_tgid = None
          /\ state.parent = None <=> state.creator_comm = None
          /\ state.ruleset = None <=> state.creation_timestamp = None
          /\ state.ruleset # None =>
               /\ state.parent # None
               /\ state.ruleset.ruleset_id \in DOMAIN rulesets
               /\ state.ruleset.ruleset_version
                    <= rulesets[state.ruleset.ruleset_id].max_observed_version

\* An option that is known stays known and its value does not go back.
NotLost(old, new) == old # None => new # None /\ new >= old

PathRulesKept(old, new) ==
  \A t \in DOMAIN old :
    /\ t \in DOMAIN new
    /\ old[t].access_rights \subseteq new[t].access_rights
    /\ old[t].pathname_timestamp <= new[t].pathname_timestamp

PortRulesKept(old, new) == \A t \in DOMAIN old : t \in DOMAIN new /\ old[t] \subseteq new[t]

RulesetGrows(old, new) ==
  /\ old.lifecycle = "Deallocated" => new.lifecycle = "Deallocated"
  /\ NotLost(old.creation_timestamp, new.creation_timestamp)
  /\ old.handled # None => new.handled # None
  /\ NotLost(old.max_observed_version, new.max_observed_version)
  /\ NotLost(old.final_version, new.final_version)
  /\ NotLost(old.free_timestamp, new.free_timestamp)
  /\ PathRulesKept(old.filesystem_rules, new.filesystem_rules)
  /\ PortRulesKept(old.network_rules, new.network_rules)

EnforcementsKept(old, new) ==
  \A t \in DOMAIN old : t \in DOMAIN new /\ new[t].timestamp >= old[t].timestamp

DomainGrows(old, new) ==
  /\ old.lifecycle = "Deallocated" => new.lifecycle = "Deallocated"
  /\ NotLost(old.creation_timestamp, new.creation_timestamp)
  /\ old.parent # None => new.parent # None
  /\ old.ruleset # None => new.ruleset # None
  /\ NotLost(old.cumulative_denial_count, new.cumulative_denial_count)
  /\ NotLost(old.final_denial_count, new.final_denial_count)
  /\ NotLost(old.free_timestamp, new.free_timestamp)
  /\ old.any_process_wide_enforcement => new.any_process_wide_enforcement
  /\ EnforcementsKept(old.enforcement_events, new.enforcement_events)

KnowledgeKept ==
  /\ \A r \in DOMAIN rulesets : r \in DOMAIN rulesets' /\ RulesetGrows(rulesets[r], rulesets'[r])
  /\ \A d \in DOMAIN domains : d \in DOMAIN domains' /\ DomainGrows(domains[d], domains'[d])

\* "Updates are infallible and retain stronger facts already learned from
\* other event orderings" (State::apply): no event makes an object, a rule, an
\* enforced thread or a known fact disappear or become weaker.
KnowledgeGrows == [][KnowledgeKept]_vars
=============================================================================
