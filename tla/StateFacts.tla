----------------------------- MODULE StateFacts -----------------------------
(***************************************************************************)
(* What the reconstructed state says, as a function of the set of events   *)
(* applied: their order and repetitions do not matter, provided they tell  *)
(* one story, as the events of one kernel do.                              *)
(***************************************************************************)
EXTENDS State, FiniteSetsExt

\* Applied events of these variants about a ruleset or a domain.
About(variants, id) ==
  {e \in applied : e.variant \in variants /\ (IF e.variant \in {"CreateRuleset",
     "AddRulePathBeneath", "AddRuleNetPort", "FreeRuleset"}
     THEN e.ruleset_id = id ELSE e.domain_id = id)}

\* Domain creation is also a use of its ruleset.
UsesOf(r) ==
  About({"CreateRuleset", "AddRulePathBeneath", "AddRuleNetPort", "FreeRuleset"}, r)
    \cup {e \in applied : e.variant = "CreateDomain" /\ e.ruleset_id = r}

Greatest(numbers) == IF numbers = {} THEN None ELSE Max(numbers)

Latest(events) == CHOOSE e \in events : \A f \in events : f.timestamp <= e.timestamp

Union(events) == UNION {e.access_rights : e \in events}

\* A field of the latest creation event, or of any denial, or unknown.
FromCreation(d, field) ==
  LET creates == About({"CreateDomain"}, d)  denials == About(DenialVariants, d)
  IN IF creates # {} THEN Latest(creates)[field]
     ELSE IF denials # {} THEN (CHOOSE e \in denials : TRUE)[field]
     ELSE None

RulesetFacts(r) ==
  LET creates == About({"CreateRuleset"}, r)
      frees == About({"FreeRuleset"}, r)
      paths == About({"AddRulePathBeneath"}, r)
      ports == About({"AddRuleNetPort"}, r)
      Rules(t) == {e \in paths : e.target = t}
  IN [lifecycle |-> IF frees = {} THEN "Allocated" ELSE "Deallocated",
      creation_timestamp |-> Greatest({e.timestamp : e \in creates}),
      handled |-> IF creates = {} THEN None ELSE Latest(creates).handled,
      max_observed_version |-> Max({e.ruleset_version : e \in UsesOf(r)}),
      final_version |-> Greatest({e.ruleset_version : e \in frees}),
      free_timestamp |-> Greatest({e.timestamp : e \in frees}),
      filesystem_rules |->
        [t \in {e.target : e \in paths} |->
           [access_rights |-> Union(Rules(t)), pathname |-> Latest(Rules(t)).pathname,
            pathname_timestamp |-> Latest(Rules(t)).timestamp]],
      network_rules |->
        [p \in {e.port : e \in ports} |-> Union({e \in ports : e.port = p})]]

DomainFacts(d) ==
  LET creates == About({"CreateDomain"}, d)
      denials == About(DenialVariants, d)
      frees == About({"FreeDomain"}, d)
      enforcements == About({"EnforceDomain"}, d)
  IN [lifecycle |-> IF frees = {} THEN "Allocated" ELSE "Deallocated",
      creation_timestamp |-> Greatest({e.timestamp : e \in creates}),
      parent |-> FromCreation(d, "parent_id"),
      creator_tgid |-> FromCreation(d, "creator_tgid"),
      creator_comm |-> FromCreation(d, "creator_comm"),
      ruleset |-> IF creates = {} THEN None
                  ELSE [ruleset_id |-> Latest(creates).ruleset_id,
                        ruleset_version |-> Latest(creates).ruleset_version],
      cumulative_denial_count |->
        Greatest({0 : e \in creates} \cup {e.cumulative_denial_count : e \in denials}
                   \cup {e.denial_count : e \in frees}),
      final_denial_count |-> Greatest({e.denial_count : e \in frees}),
      free_timestamp |-> Greatest({e.timestamp : e \in frees}),
      enforcement_events |->
        [t \in {e.enforcing_tid : e \in enforcements} |->
           Latest({e \in enforcements : e.enforcing_tid = t})],
      any_process_wide_enforcement |-> \E e \in enforcements : e.process_wide]

MentionedDomains ==
  LET about == {e \in applied : e.variant \in DenialVariants
                                  \cup {"CreateDomain", "FreeDomain", "EnforceDomain"}}
      hierarchies == {e \in about : e.variant \in DenialVariants \cup {"CreateDomain"}}
      denials == {e \in about : e.variant \in DenialVariants}
  IN {e.domain_id : e \in about} \cup (UNION {ParentIds(e) : e \in hierarchies})
       \cup (UNION {OtherIds(e) : e \in denials})

MentionedRulesets ==
  {e.ruleset_id : e \in {f \in applied : f.variant \in
     {"CreateRuleset", "AddRulePathBeneath", "AddRuleNetPort", "FreeRuleset", "CreateDomain"}}}

\* One story: the events about a domain agree on its parent and creator, and
\* creations, paths and enforcements of one object have distinct timestamps.
OneStory(events) ==
  /\ \A e, f \in {g \in events : g.variant \in DenialVariants \cup {"CreateDomain"}} :
       e.domain_id = f.domain_id =>
         /\ e.parent_id = f.parent_id
         /\ e.creator_tgid = f.creator_tgid
         /\ e.creator_comm = f.creator_comm
  /\ \A e, f \in events : (e.variant = f.variant /\ e.timestamp = f.timestamp) => e = f

\* As long as the applied events tell one story, the reconstructed state is
\* exactly what their set says, whatever their order and however often each
\* was applied (State::apply).
FactsExact ==
  OneStory(applied) =>
    /\ domains = [d \in MentionedDomains |-> DomainFacts(d)]
    /\ rulesets = [r \in MentionedRulesets |-> RulesetFacts(r)]
=============================================================================
