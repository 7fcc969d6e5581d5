----------------------------- MODULE StateProofs ------------------------------
(***************************************************************************)
(* Theorems about State for every set of events, applied in any order and  *)
(* any number of times.                                                    *)
(***************************************************************************)
EXTENDS State, TLAPS

LEMMA UpdateMaxFacts ==
  ASSUME NEW current \in Nat \cup {None}, NEW candidate \in Nat
  PROVE  /\ update_max(current, candidate) \in Nat
         /\ update_max(current, candidate) >= candidate
         /\ current # None => update_max(current, candidate) >= current
  BY DEF update_max, Max2

-----------------------------------------------------------------------------
(* Rulesets.                                                                *)

Option == Nat \cup {None}

\* RulesetState, with handled masks and rules from some set.
RulesetState(V) ==
  [lifecycle : {"Allocated", "Deallocated"}, creation_timestamp : Option, handled : V,
   max_observed_version : Nat, final_version : Option, free_timestamp : Option,
   filesystem_rules : V, network_rules : V]

\* TombstonesComplete, of one ruleset.
RulesetComplete(s) ==
  IF s.lifecycle = "Deallocated"
  THEN /\ s.free_timestamp # None
       /\ s.final_version # None
       /\ s.final_version <= s.max_observed_version
  ELSE s.free_timestamp = None /\ s.final_version = None

RulesetGood(s) == (\E V : s \in RulesetState(V)) /\ RulesetComplete(s)

RulesetsGood == \A r \in DOMAIN rulesets : RulesetGood(rulesets[r])

LEMMA NewRulesetGood ==
  ASSUME NEW version \in Nat
  PROVE  /\ RulesetGood(NewRuleset("Allocated", version))
         /\ NewRuleset("Allocated", version).max_observed_version = version
<1> DEFINE new == NewRuleset("Allocated", version)
<1>1. new \in RulesetState({None, EmptyMap})
  BY DEF NewRuleset, RulesetState, Option
<1> QED
  BY <1>1 DEF RulesetGood, RulesetComplete, NewRuleset

\* What a ruleset's use does to it.
LEMMA UseGood ==
  ASSUME NEW s, RulesetGood(s), NEW version \in Nat
  PROVE  /\ RulesetGood(update_version(mark_allocated(s), version))
         /\ update_version(mark_allocated(s), version).max_observed_version
              >= s.max_observed_version
         /\ update_version(mark_allocated(s), version).max_observed_version >= version
<1>1. PICK V : s \in RulesetState(V)
  BY DEF RulesetGood
<1>2. mark_allocated(s) = s
  BY <1>1 DEF mark_allocated, RulesetState
<1> DEFINE used == update_version(s, version)
<1>3. used = [s EXCEPT !.max_observed_version = Max2(s.max_observed_version, version)]
  BY DEF update_version
<1>4. /\ Max2(s.max_observed_version, version) \in Nat
      /\ Max2(s.max_observed_version, version) >= s.max_observed_version
      /\ Max2(s.max_observed_version, version) >= version
  BY <1>1 DEF Max2, RulesetState
<1> HIDE DEF used
<1>5. /\ used \in RulesetState(V)
      /\ used.max_observed_version = Max2(s.max_observed_version, version)
      /\ used.lifecycle = s.lifecycle
      /\ used.free_timestamp = s.free_timestamp
      /\ used.final_version = s.final_version
  BY <1>1, <1>3, <1>4 DEF RulesetState
<1>6. RulesetComplete(used)
  BY <1>1, <1>4, <1>5, EventsAssumption DEF RulesetGood, RulesetComplete, RulesetState, Option
<1>7. RulesetGood(used)
  BY <1>5, <1>6 DEF RulesetGood
<1> QED
  BY <1>2, <1>4, <1>5, <1>7 DEF used

\* The fields that no final fact depends on.
LEMMA DescribeGood ==
  ASSUME NEW s, RulesetGood(s), NEW t \in Nat, NEW x
  PROVE  /\ RulesetGood([s EXCEPT !.creation_timestamp = t, !.handled = x])
         /\ [s EXCEPT !.creation_timestamp = t, !.handled = x].max_observed_version
              = s.max_observed_version
         /\ RulesetGood([s EXCEPT !.filesystem_rules = x])
         /\ [s EXCEPT !.filesystem_rules = x].max_observed_version = s.max_observed_version
         /\ RulesetGood([s EXCEPT !.network_rules = x])
         /\ [s EXCEPT !.network_rules = x].max_observed_version = s.max_observed_version
<1>1. PICK V : s \in RulesetState(V)
  BY DEF RulesetGood
<1> DEFINE W == V \cup {x}
           created == [s EXCEPT !.creation_timestamp = t, !.handled = x]
           paths == [s EXCEPT !.filesystem_rules = x]
           ports == [s EXCEPT !.network_rules = x]
<1>2. ASSUME NEW n \in RulesetState(W), n.max_observed_version = s.max_observed_version,
             n.lifecycle = s.lifecycle, n.free_timestamp = s.free_timestamp,
             n.final_version = s.final_version
      PROVE  RulesetGood(n)
  <2>1. RulesetComplete(n)
    BY <1>2 DEF RulesetGood, RulesetComplete
  <2> QED
    BY <1>2, <2>1 DEF RulesetGood
<1>3. /\ created \in RulesetState(W) /\ created.max_observed_version = s.max_observed_version
      /\ created.lifecycle = s.lifecycle /\ created.free_timestamp = s.free_timestamp
      /\ created.final_version = s.final_version
  BY Zenon, <1>1 DEF RulesetState, Option
<1>4. /\ paths \in RulesetState(W) /\ paths.max_observed_version = s.max_observed_version
      /\ paths.lifecycle = s.lifecycle /\ paths.free_timestamp = s.free_timestamp
      /\ paths.final_version = s.final_version
  BY <1>1 DEF RulesetState, Option
<1>5. /\ ports \in RulesetState(W) /\ ports.max_observed_version = s.max_observed_version
      /\ ports.lifecycle = s.lifecycle /\ ports.free_timestamp = s.free_timestamp
      /\ ports.final_version = s.final_version
  BY <1>1 DEF RulesetState, Option
<1> HIDE DEF W, created, paths, ports
<1>6. RulesetGood(created) /\ RulesetGood(paths) /\ RulesetGood(ports)
  BY <1>2, <1>3, <1>4, <1>5
<1> QED
  BY <1>3, <1>4, <1>5, <1>6 DEF created, paths, ports

\* A free event leaves a complete tombstone, whatever was known before.
LEMMA FreedGood ==
  ASSUME NEW s, \E V : s \in RulesetState(V),
         RulesetComplete(s) \/ (s.free_timestamp = None /\ s.final_version = None),
         NEW timestamp \in Nat, NEW version \in Nat
  PROVE  LET freed == [s EXCEPT !.lifecycle = "Deallocated",
                                !.free_timestamp = update_max(@, timestamp),
                                !.final_version = update_max(@, version)]
         IN /\ RulesetGood(update_version(freed, version))
            /\ update_version(freed, version).max_observed_version >= s.max_observed_version
<1>1. PICK V : s \in RulesetState(V)
  OBVIOUS
<1> DEFINE free == update_max(s.free_timestamp, timestamp)
           final == update_max(s.final_version, version)
           max == Max2(s.max_observed_version, version)
           freed == [s EXCEPT !.lifecycle = "Deallocated", !.free_timestamp = free,
                              !.final_version = final]
           result == [freed EXCEPT !.max_observed_version = max]
<1>2. free \in Nat /\ final \in Nat
  BY Zenon, <1>1, UpdateMaxFacts DEF RulesetState, Option
<1>3. max \in Nat /\ max >= s.max_observed_version
  BY <1>1 DEF Max2, RulesetState
<1>4. final <= max
  BY <1>1, EventsAssumption
  DEF Max2, update_max, RulesetState, RulesetComplete, Option
<1> HIDE DEF free, final, max
<1>5. /\ freed \in RulesetState(V) /\ freed.lifecycle = "Deallocated"
      /\ freed.free_timestamp = free /\ freed.final_version = final
      /\ freed.max_observed_version = s.max_observed_version
  BY Zenon, <1>1, <1>2 DEF RulesetState, Option
<1> HIDE DEF freed
<1>6. /\ result \in RulesetState(V) /\ result.lifecycle = "Deallocated"
      /\ result.free_timestamp = free /\ result.final_version = final
      /\ result.max_observed_version = max
  BY <1>3, <1>5 DEF RulesetState
<1>7. result = update_version(freed, version)
  BY <1>5 DEF update_version, max
<1> HIDE DEF result
<1>8. RulesetGood(result)
  BY <1>2, <1>4, <1>6, EventsAssumption DEF RulesetGood, RulesetComplete
<1> QED
  BY <1>3, <1>6, <1>7, <1>8 DEF freed, free, final

\* No ruleset is forgotten and no observed version goes back.
RulesetsKept ==
  \A r \in DOMAIN rulesets :
    /\ r \in DOMAIN rulesets'
    /\ rulesets'[r].max_observed_version >= rulesets[r].max_observed_version

LEMMA PutRuleset ==
  ASSUME RulesetsGood, NEW id, NEW s, RulesetGood(s), rulesets' = Put(rulesets, id, s),
         id \in DOMAIN rulesets => s.max_observed_version >= rulesets[id].max_observed_version
  PROVE  RulesetsGood' /\ RulesetsKept
<1>1. /\ DOMAIN rulesets' = DOMAIN rulesets \cup {id}
      /\ rulesets'[id] = s
      /\ \A k \in DOMAIN rulesets : k # id => rulesets'[k] = rulesets[k]
  <2> DEFINE new == Put(rulesets, id, s)
  <2>1. /\ DOMAIN new = DOMAIN rulesets \cup {id}
        /\ new[id] = s
        /\ \A k \in DOMAIN rulesets : k # id => new[k] = rulesets[k]
    BY DEF Put
  <2>2. rulesets' = new
    OBVIOUS
  <2> HIDE DEF new
  <2> QED
    BY <2>1, <2>2
<1>2. \A k \in DOMAIN rulesets : rulesets[k].max_observed_version \in Nat
  BY DEF RulesetsGood, RulesetGood, RulesetState
<1>3. RulesetsGood'
  BY <1>1 DEF RulesetsGood
<1>4. RulesetsKept
  BY <1>1, <1>2 DEF RulesetsKept
<1> QED
  BY <1>3, <1>4

LEMMA UsedRulesetGood ==
  ASSUME RulesetsGood, NEW event, event.ruleset_version \in Nat
  PROVE  /\ RulesetGood(UsedRuleset(event))
         /\ UsedRuleset(event).max_observed_version >= event.ruleset_version
         /\ event.ruleset_id \in DOMAIN rulesets =>
              UsedRuleset(event).max_observed_version
                >= rulesets[event.ruleset_id].max_observed_version
<1> DEFINE s == Lookup(rulesets, event.ruleset_id,
                       NewRuleset("Allocated", event.ruleset_version))
<1>1. RulesetGood(s)
  BY NewRulesetGood DEF RulesetsGood, Lookup
<1>2. event.ruleset_id \in DOMAIN rulesets => s = rulesets[event.ruleset_id]
  BY DEF Lookup
<1>3. UsedRuleset(event) = update_version(mark_allocated(s), event.ruleset_version)
  BY DEF UsedRuleset
<1> HIDE DEF s
<1> QED
  BY <1>1, <1>2, <1>3, UseGood

\* Every event keeps what is known of rulesets complete.
LEMMA RulesetsStep ==
  ASSUME RulesetsGood, NEW event \in Events, Apply(event)
  PROVE  RulesetsGood' /\ RulesetsKept
<1> DEFINE used == UsedRuleset(event)
<1>1. event.timestamp \in Nat
  BY EventsAssumption
<1>2. ASSUME event.ruleset_version \in Nat
      PROVE  /\ RulesetGood(used)
             /\ event.ruleset_id \in DOMAIN rulesets =>
                  used.max_observed_version >= rulesets[event.ruleset_id].max_observed_version
  BY <1>2, UsedRulesetGood
<1> HIDE DEF used
<1>3. CASE CreateRuleset(event)
  <2>1. event.ruleset_version \in Nat
    BY <1>3, EventsAssumption DEF CreateRuleset
  <2> DEFINE s == IF Replaces(event.timestamp, used.creation_timestamp)
                  THEN [used EXCEPT !.creation_timestamp = event.timestamp,
                                    !.handled = event.handled]
                  ELSE used
  <2>2. RulesetGood(s) /\ s.max_observed_version = used.max_observed_version
    <3> DEFINE new == [used EXCEPT !.creation_timestamp = event.timestamp,
                                   !.handled = event.handled]
    <3>1. RulesetGood(used)
      BY <1>2, <2>1
    <3>2. RulesetGood(new) /\ new.max_observed_version = used.max_observed_version
      BY ZenonT(40), <1>1, <3>1, DescribeGood
    <3>3. s = new \/ s = used
      OBVIOUS
    <3> HIDE DEF s, new
    <3> QED
      BY <3>1, <3>2, <3>3
  <2>3. rulesets' = Put(rulesets, event.ruleset_id, s)
    BY <1>3 DEF CreateRuleset, used
  <2> HIDE DEF s
  <2> QED
    BY <1>2, <2>1, <2>2, <2>3, PutRuleset
<1>4. CASE AddRulePathBeneath(event)
  <2>1. event.ruleset_version \in Nat
    BY <1>4, EventsAssumption DEF AddRulePathBeneath
  <2>2. PICK x : rulesets' = Put(rulesets, event.ruleset_id,
                                 [used EXCEPT !.filesystem_rules = x])
    BY <1>4 DEF AddRulePathBeneath, used
  <2> DEFINE s == [used EXCEPT !.filesystem_rules = x]
  <2>3. RulesetGood(s) /\ s.max_observed_version = used.max_observed_version
    BY Zenon, <1>1, <1>2, <2>1, DescribeGood
  <2> HIDE DEF s
  <2> QED
    BY Zenon, <1>2, <2>1, <2>2, <2>3, PutRuleset DEF s
<1>5. CASE AddRuleNetPort(event)
  <2>1. event.ruleset_version \in Nat
    BY <1>5, EventsAssumption DEF AddRuleNetPort
  <2>2. PICK x : rulesets' = Put(rulesets, event.ruleset_id,
                                 [used EXCEPT !.network_rules = x])
    BY Zenon, <1>5 DEF AddRuleNetPort, used
  <2> DEFINE s == [used EXCEPT !.network_rules = x]
  <2>3. RulesetGood(s) /\ s.max_observed_version = used.max_observed_version
    BY Zenon, <1>1, <1>2, <2>1, DescribeGood
  <2> HIDE DEF s
  <2> QED
    BY Zenon, <1>2, <2>1, <2>2, <2>3, PutRuleset DEF s
<1>6. CASE CreateDomain(event)
  <2>1. event.ruleset_version \in Nat
    BY <1>6, EventsAssumption DEF CreateDomain
  <2>2. rulesets' = Put(rulesets, event.ruleset_id, used)
    BY <1>6 DEF CreateDomain, used
  <2> QED
    BY <1>2, <2>1, <2>2, PutRuleset
<1>7. CASE FreeRuleset(event)
  <2>1. event.ruleset_version \in Nat
    BY <1>7, EventsAssumption DEF FreeRuleset
  <2> DEFINE s == Lookup(rulesets, event.ruleset_id,
                         NewRuleset("Deallocated", event.ruleset_version))
             freed == [s EXCEPT !.lifecycle = "Deallocated",
                                !.free_timestamp = update_max(@, event.timestamp),
                                !.final_version = update_max(@, event.ruleset_version)]
             result == update_version(freed, event.ruleset_version)
  <2>2. /\ \E V : s \in RulesetState(V)
        /\ RulesetComplete(s) \/ (s.free_timestamp = None /\ s.final_version = None)
        /\ event.ruleset_id \in DOMAIN rulesets => s = rulesets[event.ruleset_id]
    <3>1. CASE event.ruleset_id \in DOMAIN rulesets
      BY <3>1 DEF Lookup, RulesetsGood, RulesetGood
    <3>2. CASE event.ruleset_id \notin DOMAIN rulesets
      <4>1. s = NewRuleset("Deallocated", event.ruleset_version)
        BY <3>2 DEF Lookup
      <4>2. s \in RulesetState({None, EmptyMap}) /\ s.free_timestamp = None
            /\ s.final_version = None
        BY <2>1, <4>1 DEF NewRuleset, RulesetState, Option
      <4> QED
        BY <3>2, <4>2
    <3> QED
      BY <3>1, <3>2
  <2>3. rulesets' = Put(rulesets, event.ruleset_id, result)
    BY <1>7 DEF FreeRuleset
  <2> HIDE DEF s
  <2>4. RulesetGood(result) /\ result.max_observed_version >= s.max_observed_version
    BY Zenon, <1>1, <2>1, <2>2, FreedGood
  <2> HIDE DEF result
  <2> QED
    BY <2>2, <2>3, <2>4, PutRuleset
<1>8. CASE UNCHANGED rulesets
  BY <1>8 DEF RulesetsGood, RulesetGood, RulesetsKept, RulesetState
<1> QED
  BY <1>3, <1>4, <1>5, <1>6, <1>7, <1>8 DEF Apply, ApplyDenial, FreeDomain, EnforceDomain

-----------------------------------------------------------------------------
(* Domains.                                                                 *)

\* DomainState, with the facts no comparison is made of from some set.
DomainState(V) ==
  [lifecycle : {"Allocated", "Deallocated"}, creation_timestamp : Option, parent : V,
   creator_tgid : V, creator_comm : V, ruleset : V, cumulative_denial_count : Option,
   final_denial_count : Option, free_timestamp : Option, enforcement_events : V,
   any_process_wide_enforcement : V]

\* TombstonesComplete, of one domain.
DomainTombstone(s) ==
  IF s.lifecycle = "Deallocated"
  THEN /\ s.free_timestamp # None
       /\ s.final_denial_count # None
       /\ s.cumulative_denial_count # None
       /\ s.final_denial_count <= s.cumulative_denial_count
  ELSE s.free_timestamp = None /\ s.final_denial_count = None

\* What of a domain becomes known together.
DomainTogether(s) ==
  /\ s.parent = None <=> s.creator_tgid = None
  /\ s.parent = None <=> s.creator_comm = None
  /\ s.ruleset = None <=> s.creation_timestamp = None
  /\ s.ruleset # None => s.parent # None

DomainGood(s) ==
  (\E V : s \in DomainState(V)) /\ DomainTombstone(s) /\ DomainTogether(s)

DomainsGood == \A d \in DOMAIN domains : DomainGood(domains[d])

Fields == {None, FALSE, EmptyMap}

LEMMA NewDomainTyped ==
  ASSUME NEW l \in {"Allocated", "Deallocated"}
  PROVE  /\ NewDomain(l) \in DomainState(Fields)
         /\ NewDomain(l).free_timestamp = None /\ NewDomain(l).final_denial_count = None
         /\ NewDomain(l).parent = None /\ NewDomain(l).ruleset = None
         /\ NewDomain(l).lifecycle = l
         /\ DomainTogether(NewDomain(l))
<1>1. NewDomain(l) \in DomainState(Fields)
  BY DEF NewDomain, DomainState, Option, Fields
<1> QED
  BY <1>1 DEF NewDomain, DomainTogether

LEMMA NewDomainGood == DomainGood(NewDomain("Allocated"))
<1> DEFINE new == NewDomain("Allocated")
<1>1. /\ new \in DomainState(Fields) /\ new.free_timestamp = None
      /\ new.final_denial_count = None /\ new.lifecycle = "Allocated" /\ DomainTogether(new)
  BY NewDomainTyped
<1> HIDE DEF new
<1>2. DomainTombstone(new)
  BY <1>1 DEF DomainTombstone
<1> QED
  BY <1>1, <1>2 DEF DomainGood, new

LEMMA MarkAllocated ==
  ASSUME NEW s, DomainGood(s) PROVE mark_allocated(s) = s
<1>1. PICK V : s \in DomainState(V)
  BY DEF DomainGood
<1> QED
  BY <1>1 DEF mark_allocated, DomainState

\* A denial count that was observed is kept or raised.
LEMMA CountGood ==
  ASSUME NEW s, DomainGood(s), NEW count \in Nat
  PROVE  LET new == [s EXCEPT !.cumulative_denial_count = update_max(@, count)]
         IN DomainGood(new) /\ new.parent = s.parent /\ new.ruleset = s.ruleset
<1>1. PICK V : s \in DomainState(V)
  BY DEF DomainGood
<1> DEFINE max == update_max(s.cumulative_denial_count, count)
           new == [s EXCEPT !.cumulative_denial_count = max]
<1>2. /\ max \in Nat
      /\ s.cumulative_denial_count # None => max >= s.cumulative_denial_count
  BY Zenon, <1>1, UpdateMaxFacts DEF DomainState, Option
<1> HIDE DEF max
<1>3. /\ new \in DomainState(V) /\ new.cumulative_denial_count = max
      /\ new.lifecycle = s.lifecycle /\ new.free_timestamp = s.free_timestamp
      /\ new.final_denial_count = s.final_denial_count
      /\ new.parent = s.parent /\ new.ruleset = s.ruleset
      /\ new.creator_tgid = s.creator_tgid /\ new.creator_comm = s.creator_comm
      /\ new.creation_timestamp = s.creation_timestamp
  BY <1>1, <1>2 DEF DomainState, Option
<1> HIDE DEF new
<1>4. DomainTombstone(new)
  BY <1>1, <1>2, <1>3, EventsAssumption DEF DomainGood, DomainTombstone, DomainState, Option
<1>5. DomainTogether(new)
  BY <1>3 DEF DomainGood, DomainTogether
<1>6. DomainGood(new)
  BY <1>3, <1>4, <1>5 DEF DomainGood
<1> QED
  BY <1>3, <1>6 DEF new, max

LEMMA CreatedGood ==
  ASSUME NEW s, DomainGood(s), NEW event \in Events, event.variant = "CreateDomain"
  PROVE  /\ DomainGood(CreatedDomain(s, event))
         /\ CreatedDomain(s, event).parent \in {s.parent, event.parent_id}
         /\ CreatedDomain(s, event).ruleset \in {s.ruleset, RulesetVersion(event)}
<1>1. PICK V : s \in DomainState(V)
  BY DEF DomainGood
<1> DEFINE frozen == RulesetVersion(event)
           W == V \cup {event.parent_id, event.creator_tgid, event.creator_comm, frozen}
           new == [s EXCEPT !.creation_timestamp = event.timestamp,
                            !.parent = event.parent_id,
                            !.creator_tgid = event.creator_tgid,
                            !.creator_comm = event.creator_comm,
                            !.ruleset = frozen]
<1>2. CASE Replaces(event.timestamp, s.creation_timestamp)
  <2>1. CreatedDomain(s, event) = new
    BY <1>2 DEF CreatedDomain
  <2>2. /\ event.timestamp \in Nat /\ frozen # None
        /\ None \notin {event.parent_id, event.creator_tgid, event.creator_comm}
    BY EventsAssumption
  <2> HIDE DEF frozen
  <2>3. /\ new \in DomainState(W)
        /\ new.creation_timestamp = event.timestamp /\ new.ruleset = frozen
        /\ new.parent = event.parent_id /\ new.creator_tgid = event.creator_tgid
        /\ new.creator_comm = event.creator_comm
        /\ new.lifecycle = s.lifecycle /\ new.free_timestamp = s.free_timestamp
        /\ new.final_denial_count = s.final_denial_count
        /\ new.cumulative_denial_count = s.cumulative_denial_count
    BY Zenon, <1>1, <2>2 DEF DomainState, Option
  <2> HIDE DEF new, W
  <2>4. DomainTombstone(new)
    BY <2>3 DEF DomainGood, DomainTombstone
  <2>5. DomainTogether(new)
    BY <2>2, <2>3, EventsAssumption DEF DomainTogether
  <2>6. DomainGood(new)
    BY <2>3, <2>4, <2>5 DEF DomainGood
  <2> QED
    BY <2>1, <2>3, <2>6 DEF frozen
<1>3. CASE ~Replaces(event.timestamp, s.creation_timestamp)
  BY <1>3 DEF CreatedDomain
<1> QED
  BY <1>2, <1>3

\* What a denial says of the hierarchy, where nothing was known.
LEMMA HierarchyGood ==
  ASSUME NEW s, DomainGood(s), NEW parent, NEW tgid, NEW comm,
         None \notin {parent, tgid, comm}
  PROVE  LET unknown == s.creator_tgid = None /\ s.creator_comm = None
             new == [s EXCEPT !.parent = IF @ = None THEN parent ELSE @,
                              !.creator_tgid = IF unknown THEN tgid ELSE @,
                              !.creator_comm = IF unknown THEN comm ELSE @]
         IN /\ DomainGood(new) /\ new.parent \in {s.parent, parent}
            /\ new.ruleset = s.ruleset
<1>1. PICK V : s \in DomainState(V)
  BY DEF DomainGood
<1> DEFINE unknown == s.creator_tgid = None /\ s.creator_comm = None
           p == IF s.parent = None THEN parent ELSE s.parent
           t == IF unknown THEN tgid ELSE s.creator_tgid
           c == IF unknown THEN comm ELSE s.creator_comm
           W == V \cup {p, t, c}
           new == [s EXCEPT !.parent = p, !.creator_tgid = t, !.creator_comm = c]
<1>2. p # None /\ t # None /\ c # None /\ p \in {s.parent, parent}
  BY DEF DomainGood, DomainTogether
<1> HIDE DEF p, t, c
<1>3. /\ new \in DomainState(W) /\ new.parent = p /\ new.creator_tgid = t
      /\ new.creator_comm = c /\ new.ruleset = s.ruleset
      /\ new.creation_timestamp = s.creation_timestamp
      /\ new.lifecycle = s.lifecycle /\ new.free_timestamp = s.free_timestamp
      /\ new.final_denial_count = s.final_denial_count
      /\ new.cumulative_denial_count = s.cumulative_denial_count
  BY Zenon, <1>1 DEF DomainState
<1> HIDE DEF new, W
<1>4. DomainTombstone(new)
  BY <1>3 DEF DomainGood, DomainTombstone
<1>5. DomainTogether(new)
  BY <1>2, <1>3 DEF DomainGood, DomainTogether
<1>6. DomainGood(new)
  BY <1>3, <1>4, <1>5 DEF DomainGood
<1> QED
  BY <1>2, <1>3, <1>6 DEF new, p, t, c

\* A free event leaves a complete tombstone, whatever was known before.
LEMMA FreedDomainGood ==
  ASSUME NEW s, \E V : s \in DomainState(V), DomainTogether(s),
         DomainTombstone(s) \/ (s.free_timestamp = None /\ s.final_denial_count = None),
         NEW timestamp \in Nat, NEW count \in Nat
  PROVE  LET new == [s EXCEPT !.lifecycle = "Deallocated",
                              !.free_timestamp = update_max(@, timestamp),
                              !.final_denial_count = update_max(@, count),
                              !.cumulative_denial_count = update_max(@, count)]
         IN DomainGood(new) /\ new.parent = s.parent /\ new.ruleset = s.ruleset
<1>1. PICK V : s \in DomainState(V)
  OBVIOUS
<1> DEFINE free == update_max(s.free_timestamp, timestamp)
           final == update_max(s.final_denial_count, count)
           total == update_max(s.cumulative_denial_count, count)
           new == [s EXCEPT !.lifecycle = "Deallocated", !.free_timestamp = free,
                            !.final_denial_count = final, !.cumulative_denial_count = total]
<1>2. free \in Nat /\ final \in Nat /\ total \in Nat
  BY Zenon, <1>1, UpdateMaxFacts DEF DomainState, Option
<1>3. final <= total
  BY <1>1, EventsAssumption DEF update_max, Max2, DomainState, DomainTombstone, Option
<1> HIDE DEF free, final, total
<1>4. /\ new \in DomainState(V) /\ new.lifecycle = "Deallocated" /\ new.free_timestamp = free
      /\ new.final_denial_count = final /\ new.cumulative_denial_count = total
      /\ new.parent = s.parent /\ new.ruleset = s.ruleset
      /\ new.creator_tgid = s.creator_tgid /\ new.creator_comm = s.creator_comm
      /\ new.creation_timestamp = s.creation_timestamp
  BY Zenon, <1>1, <1>2 DEF DomainState, Option
<1> HIDE DEF new
<1>5. DomainTombstone(new)
  BY <1>2, <1>3, <1>4, EventsAssumption DEF DomainTombstone
<1>6. DomainTogether(new)
  BY <1>4 DEF DomainTogether
<1>7. DomainGood(new)
  BY <1>4, <1>5, <1>6 DEF DomainGood
<1> QED
  BY <1>4, <1>7 DEF new, free, final, total

LEMMA EnforcedGood ==
  ASSUME NEW s, DomainGood(s), NEW wide, NEW enforcements
  PROVE  LET new == [s EXCEPT !.any_process_wide_enforcement = wide,
                              !.enforcement_events = enforcements]
         IN DomainGood(new) /\ new.parent = s.parent /\ new.ruleset = s.ruleset
<1>1. PICK V : s \in DomainState(V)
  BY DEF DomainGood
<1> DEFINE W == V \cup {wide, enforcements}
           new == [s EXCEPT !.any_process_wide_enforcement = wide,
                            !.enforcement_events = enforcements]
<1>2. /\ new \in DomainState(W) /\ new.lifecycle = s.lifecycle
      /\ new.free_timestamp = s.free_timestamp
      /\ new.final_denial_count = s.final_denial_count
      /\ new.cumulative_denial_count = s.cumulative_denial_count
      /\ new.parent = s.parent /\ new.ruleset = s.ruleset
      /\ new.creator_tgid = s.creator_tgid /\ new.creator_comm = s.creator_comm
      /\ new.creation_timestamp = s.creation_timestamp
  BY Zenon, <1>1 DEF DomainState
<1> HIDE DEF new, W
<1>3. DomainTombstone(new) /\ DomainTogether(new)
  BY <1>2 DEF DomainGood, DomainTombstone, DomainTogether
<1>4. DomainGood(new)
  BY <1>2, <1>3 DEF DomainGood
<1> QED
  BY <1>2, <1>4 DEF new

\* Where what a domain refers to comes from: it is unknown, it was known
\* before, or `event` says so.
ParentFrom(d, parent) ==
  \/ parent = None
  \/ d \in DOMAIN domains /\ parent = domains[d].parent
  \/ parent \in {Root} \cup DOMAIN domains'

RulesetFrom(event, d, ruleset) ==
  \/ ruleset = None
  \/ d \in DOMAIN domains /\ ruleset = domains[d].ruleset
  \/ event.variant = "CreateDomain" /\ ruleset = RulesetVersion(event)

DomainFrom(event, d, s) ==
  DomainGood(s) /\ ParentFrom(d, s.parent) /\ RulesetFrom(event, d, s.ruleset)

DomainsFrom(event) ==
  /\ DOMAIN domains \subseteq DOMAIN domains'
  /\ \A d \in DOMAIN domains' : DomainFrom(event, d, domains'[d])

LEMMA OldDomainFrom ==
  ASSUME DomainsGood, NEW event, NEW d \in DOMAIN domains
  PROVE  DomainFrom(event, d, domains[d])
  BY DEF DomainsGood, DomainFrom, ParentFrom, RulesetFrom

LEMMA NewDomainFrom ==
  ASSUME NEW event, NEW d
  PROVE  DomainFrom(event, d, NewDomain("Allocated"))
  BY NewDomainGood, NewDomainTyped DEF DomainFrom, ParentFrom, RulesetFrom

\* The entry an event changes, as it was or new.
LEMMA LookupFrom ==
  ASSUME DomainsGood, NEW event, NEW d
  PROVE  /\ DomainFrom(event, d, Lookup(domains, d, NewDomain("Allocated")))
         /\ DomainGood(Lookup(domains, d, NewDomain("Allocated")))
  BY OldDomainFrom, NewDomainFrom, NewDomainGood DEF Lookup, DomainsGood

\* Events that change one domain and materialize others.
LEMMA PutDomain ==
  ASSUME DomainsGood, NEW event, NEW id, NEW s, DomainFrom(event, id, s), NEW ids,
         DOMAIN domains' = DOMAIN domains \cup {id} \cup ids,
         \A d \in DOMAIN domains' :
           domains'[d] = IF d = id THEN s
                         ELSE Lookup(domains, d, NewDomain("Allocated"))
  PROVE  DomainsFrom(event)
<1> SUFFICES ASSUME NEW d \in DOMAIN domains'
             PROVE  DomainFrom(event, d, domains'[d])
  BY DEF DomainsFrom
<1>1. CASE d = id
  BY <1>1
<1>2. CASE d # id
  BY <1>2, LookupFrom
<1> QED
  BY <1>1, <1>2

LEMMA PutOneDomain ==
  ASSUME DomainsGood, NEW event, NEW id, NEW s, DomainFrom(event, id, s),
         domains' = Put(domains, id, s)
  PROVE  DomainsFrom(event)
<1> DEFINE new == Put(domains, id, s)
<1>1. /\ DOMAIN new = DOMAIN domains \cup {id} \cup {}
      /\ \A d \in DOMAIN new :
           new[d] = IF d = id THEN s ELSE Lookup(domains, d, NewDomain("Allocated"))
  BY DEF Put, Lookup
<1>2. domains' = new
  OBVIOUS
<1> HIDE DEF new
<1> QED
  BY <1>1, <1>2, PutDomain

\* Every event keeps what is known of domains together.
LEMMA DomainsStep ==
  ASSUME DomainsGood, NEW event \in Events, Apply(event)
  PROVE  DomainsFrom(event)
<1> DEFINE id == event.domain_id
           old == Lookup(domains, id, NewDomain("Allocated"))
<1>1. /\ DomainFrom(event, id, old) /\ DomainGood(old)
      /\ mark_allocated(old) = old
  BY LookupFrom, MarkAllocated
<1>2. CASE CreateDomain(event)
  <2> DEFINE ids == ParentIds(event)
             materialized == Ensure(domains, ids, NewDomain("Allocated"))
             counted == [old EXCEPT !.cumulative_denial_count = update_max(@, 0)]
             s == CreatedDomain(counted, event)
  <2>1. event.variant = "CreateDomain"
    BY <1>2 DEF CreateDomain
  <2>2. Lookup(materialized, id, NewDomain("Allocated")) = old
    BY DEF Ensure, Lookup
  <2>3. domains' = Put(materialized, id, s)
    BY <1>1, <1>2, <2>2 DEF CreateDomain
  <2> HIDE DEF old
  <2>4. DomainGood(counted) /\ counted.parent = old.parent /\ counted.ruleset = old.ruleset
    BY <1>1, CountGood
  <2> HIDE DEF counted
  <2>5. /\ DomainGood(s) /\ s.parent \in {old.parent, event.parent_id}
        /\ s.ruleset \in {old.ruleset, RulesetVersion(event)}
    BY <2>1, <2>4, CreatedGood
  <2> HIDE DEF s
  <2>6. /\ DOMAIN domains' = DOMAIN domains \cup {id} \cup ids
        /\ \A d \in DOMAIN domains' :
             domains'[d] = IF d = id THEN s ELSE Lookup(domains, d, NewDomain("Allocated"))
    <3> DEFINE new == Put(materialized, id, s)
    <3>1. /\ DOMAIN new = DOMAIN domains \cup {id} \cup ids
          /\ \A d \in DOMAIN new :
               new[d] = IF d = id THEN s ELSE Lookup(domains, d, NewDomain("Allocated"))
      BY DEF Put, Ensure
    <3> HIDE DEF new
    <3> QED
      BY <2>3, <3>1 DEF new
  <2>7. event.parent_id \in {Root} \cup DOMAIN domains'
    BY <2>6 DEF ParentIds
  <2>8. DomainFrom(event, id, s)
    BY <1>1, <2>1, <2>5, <2>7 DEF DomainFrom, ParentFrom, RulesetFrom
  <2> HIDE DEF ids
  <2> QED
    BY <2>6, <2>8, PutDomain
<1>3. CASE ApplyDenial(event)
  <2> DEFINE ids == ParentIds(event) \cup OtherIds(event)
             count == event.cumulative_denial_count
             unknown == old.creator_tgid = None /\ old.creator_comm = None
             hierarchy == [old EXCEPT
               !.parent = IF @ = None THEN event.parent_id ELSE @,
               !.creator_tgid = IF unknown THEN event.creator_tgid ELSE @,
               !.creator_comm = IF unknown THEN event.creator_comm ELSE @]
             s == [old EXCEPT
               !.parent = IF @ = None THEN event.parent_id ELSE @,
               !.creator_tgid = IF unknown THEN event.creator_tgid ELSE @,
               !.creator_comm = IF unknown THEN event.creator_comm ELSE @,
               !.cumulative_denial_count = update_max(@, count)]
  <2>1. count \in Nat /\ None \notin {event.parent_id, event.creator_tgid, event.creator_comm}
    BY <1>3, EventsAssumption DEF ApplyDenial
  <2>2. domains' = Ensure(Put(domains, id, s), ids, NewDomain("Allocated"))
    BY Zenon, <1>1, <1>3 DEF ApplyDenial
  <2> HIDE DEF old
  <2>3. /\ DomainGood(hierarchy) /\ hierarchy.parent \in {old.parent, event.parent_id}
        /\ hierarchy.ruleset = old.ruleset
    BY ZenonT(30), <1>1, <2>1, HierarchyGood
  <2>4. s = [hierarchy EXCEPT !.cumulative_denial_count = update_max(@, count)]
    <3>1. PICK V : old \in DomainState(V)
      BY <1>1 DEF DomainGood
    <3> QED
      BY <3>1 DEF DomainState
  <2> HIDE DEF hierarchy, s, count
  <2>5. /\ DomainGood(s) /\ s.parent \in {old.parent, event.parent_id}
        /\ s.ruleset = old.ruleset
    BY <2>1, <2>3, <2>4, CountGood
  <2>6. /\ DOMAIN domains' = DOMAIN domains \cup {id} \cup ids
        /\ \A d \in DOMAIN domains' :
             domains'[d] = IF d = id THEN s ELSE Lookup(domains, d, NewDomain("Allocated"))
    <3> DEFINE new == Ensure(Put(domains, id, s), ids, NewDomain("Allocated"))
    <3>1. /\ DOMAIN new = DOMAIN domains \cup {id} \cup ids
          /\ \A d \in DOMAIN new :
               new[d] = IF d = id THEN s ELSE Lookup(domains, d, NewDomain("Allocated"))
      BY DEF Put, Ensure, Lookup
    <3> HIDE DEF new
    <3> QED
      BY <2>2, <3>1 DEF new
  <2>7. event.parent_id \in {Root} \cup DOMAIN domains'
    BY <2>6 DEF ParentIds
  <2>8. DomainFrom(event, id, s)
    BY <1>1, <2>5, <2>7 DEF DomainFrom, ParentFrom, RulesetFrom
  <2> HIDE DEF ids
  <2> QED
    BY <2>6, <2>8, PutDomain
<1>4. CASE FreeDomain(event)
  <2> DEFINE state == Lookup(domains, id, NewDomain("Deallocated"))
             s == [state EXCEPT
                     !.lifecycle = "Deallocated",
                     !.free_timestamp = update_max(@, event.timestamp),
                     !.final_denial_count = update_max(@, event.denial_count),
                     !.cumulative_denial_count = update_max(@, event.denial_count)]
  <2>1. event.timestamp \in Nat /\ event.denial_count \in Nat
    BY <1>4, EventsAssumption DEF FreeDomain
  <2>2. domains' = Put(domains, id, s)
    BY <1>4 DEF FreeDomain
  <2>3. /\ \E V : state \in DomainState(V)
        /\ DomainTogether(state)
        /\ \/ DomainTombstone(state)
           \/ state.free_timestamp = None /\ state.final_denial_count = None
        /\ ParentFrom(id, state.parent) /\ RulesetFrom(event, id, state.ruleset)
    <3>1. CASE id \in DOMAIN domains
      BY <3>1 DEF Lookup, DomainsGood, DomainGood, ParentFrom, RulesetFrom
    <3>2. CASE id \notin DOMAIN domains
      <4>1. state = NewDomain("Deallocated")
        BY <3>2 DEF Lookup
      <4> HIDE DEF state
      <4> QED
        BY <4>1, NewDomainTyped DEF ParentFrom, RulesetFrom
    <3> QED
      BY <3>1, <3>2
  <2> HIDE DEF state
  <2>4. DomainGood(s) /\ s.parent = state.parent /\ s.ruleset = state.ruleset
    BY ZenonT(40), <2>1, <2>3, FreedDomainGood
  <2> HIDE DEF s
  <2>5. DomainFrom(event, id, s)
    BY <2>3, <2>4 DEF DomainFrom
  <2> QED
    BY <2>2, <2>5, PutOneDomain
<1>5. CASE EnforceDomain(event)
  <2>1. PICK wide, enforcements :
          domains' = Put(domains, id, [old EXCEPT !.any_process_wide_enforcement = wide,
                                                  !.enforcement_events = enforcements])
    BY <1>1, <1>5 DEF EnforceDomain
  <2> DEFINE s == [old EXCEPT !.any_process_wide_enforcement = wide,
                              !.enforcement_events = enforcements]
  <2> HIDE DEF old
  <2>2. DomainGood(s) /\ s.parent = old.parent /\ s.ruleset = old.ruleset
    BY ZenonT(40), <1>1, EnforcedGood
  <2>3. DomainFrom(event, id, s)
    BY <1>1, <2>2 DEF DomainFrom
  <2> HIDE DEF s
  <2> QED
    BY <2>1, <2>3, PutOneDomain DEF s
<1>6. CASE UNCHANGED domains
  BY <1>6, OldDomainFrom DEF DomainsFrom
<1> QED
  BY <1>2, <1>3, <1>4, <1>5, <1>6
  DEF Apply, CreateRuleset, AddRulePathBeneath, AddRuleNetPort, FreeRuleset

-----------------------------------------------------------------------------
(* The theorem.                                                             *)

\* A ruleset a domain refers to is known, with the version it froze.
Retained(map, ruleset) ==
  /\ ruleset.ruleset_version \in Nat
  /\ ruleset.ruleset_id \in DOMAIN map
  /\ ruleset.ruleset_version <= map[ruleset.ruleset_id].max_observed_version

References ==
  \A d \in DOMAIN domains :
    /\ domains[d].parent \in DOMAIN domains \cup {None, Root}
    /\ domains[d].ruleset # None => Retained(rulesets, domains[d].ruleset)

KnownInv == RulesetsGood /\ DomainsGood /\ References

LEMMA RetainedKept ==
  ASSUME RulesetsGood, RulesetsGood', RulesetsKept, NEW ruleset, Retained(rulesets, ruleset)
  PROVE  Retained(rulesets', ruleset)
<1> DEFINE id == ruleset.ruleset_id
<1>1. /\ rulesets[id].max_observed_version \in Nat /\ id \in DOMAIN rulesets'
      /\ rulesets'[id].max_observed_version \in Nat
      /\ rulesets'[id].max_observed_version >= rulesets[id].max_observed_version
  BY DEF RulesetsGood, RulesetGood, RulesetState, RulesetsKept, Retained
<1> QED
  BY <1>1 DEF Retained

LEMMA FrozenRetained ==
  ASSUME RulesetsGood, NEW event \in Events, Apply(event), event.variant = "CreateDomain"
  PROVE  Retained(rulesets', RulesetVersion(event))
<1> DEFINE used == UsedRuleset(event)
<1>1. event.ruleset_version \in Nat
  BY EventsAssumption
<1>2. used.max_observed_version >= event.ruleset_version
  BY <1>1, UsedRulesetGood
<1>3. rulesets' = Put(rulesets, event.ruleset_id, used)
  BY DEF Apply, CreateRuleset, AddRulePathBeneath, AddRuleNetPort, CreateDomain,
         ApplyDenial, DenialVariants, FreeDomain, FreeRuleset, EnforceDomain
<1> DEFINE new == Put(rulesets, event.ruleset_id, used)
<1> HIDE DEF used
<1>4. event.ruleset_id \in DOMAIN new /\ new[event.ruleset_id] = used
  BY DEF Put
<1> HIDE DEF new
<1>5. event.ruleset_id \in DOMAIN rulesets' /\ rulesets'[event.ruleset_id] = used
  BY <1>3, <1>4 DEF new
<1>6. /\ RulesetVersion(event).ruleset_version = event.ruleset_version
      /\ RulesetVersion(event).ruleset_id = event.ruleset_id
  BY DEF RulesetVersion
<1>7. used.max_observed_version \in Nat
  BY <1>1, UsedRulesetGood DEF used, RulesetGood, RulesetState
<1> QED
  BY <1>1, <1>2, <1>5, <1>6, <1>7 DEF Retained

LEMMA KnownStep ==
  ASSUME KnownInv, NEW event \in Events, Apply(event)
  PROVE  KnownInv'
<1>1. RulesetsGood' /\ RulesetsKept
  BY RulesetsStep DEF KnownInv
<1>2. DomainsFrom(event)
  BY DomainsStep DEF KnownInv
<1>3. DomainsGood'
  BY <1>2 DEF DomainsFrom, DomainFrom, DomainsGood
<1>4. ASSUME NEW d \in DOMAIN domains'
      PROVE  domains'[d].parent \in DOMAIN domains' \cup {None, Root}
  BY <1>2 DEF DomainsFrom, DomainFrom, ParentFrom, KnownInv, References
<1>5. ASSUME NEW d \in DOMAIN domains', domains'[d].ruleset # None
      PROVE  Retained(rulesets', domains'[d].ruleset)
  <2> DEFINE ruleset == domains'[d].ruleset
  <2>1. RulesetFrom(event, d, ruleset)
    BY <1>2 DEF DomainsFrom, DomainFrom
  <2>2. CASE d \in DOMAIN domains /\ ruleset = domains[d].ruleset
    <3>1. Retained(rulesets, domains[d].ruleset)
      BY <1>5, <2>2 DEF KnownInv, References
    <3>2. Retained(rulesets', domains[d].ruleset)
      BY <1>1, <3>1, RetainedKept DEF KnownInv
    <3> QED
      BY <2>2, <3>2
  <2>3. CASE event.variant = "CreateDomain" /\ ruleset = RulesetVersion(event)
    BY <2>3, FrozenRetained DEF KnownInv
  <2> QED
    BY <1>5, <2>1, <2>2, <2>3 DEF RulesetFrom
<1>6. References'
  BY <1>4, <1>5 DEF References
<1> QED
  BY <1>1, <1>3, <1>6 DEF KnownInv

\* State::apply keeps together what becomes known together, for every set of
\* events and however they are ordered, repeated or lost: final facts with
\* deallocation, a parent with the creator, a ruleset with the creation; and
\* what a domain refers to is in the state.
THEOREM KnownTogether == Spec => []FactsTogether
<1>1. Init => KnownInv
  BY DEF Init, EmptyMap, KnownInv, RulesetsGood, DomainsGood, References
<1>2. KnownInv /\ [Next]_vars => KnownInv'
  <2> SUFFICES ASSUME KnownInv, [Next]_vars
               PROVE  KnownInv'
    OBVIOUS
  <2>1. CASE Next
    BY <2>1, KnownStep DEF Next
  <2>2. CASE UNCHANGED vars
    BY <2>2 DEF vars, KnownInv, RulesetsGood, DomainsGood, References, Retained
  <2> QED
    BY <2>1, <2>2
<1>3. KnownInv => FactsTogether
  <2> SUFFICES ASSUME KnownInv
               PROVE  FactsTogether
    OBVIOUS
  <2>1. TombstonesComplete
    BY DEF KnownInv, RulesetsGood, RulesetGood, RulesetComplete, DomainsGood, DomainGood,
           DomainTombstone, TombstonesComplete
  <2> QED
    BY <2>1 DEF KnownInv, DomainsGood, DomainGood, DomainTogether, References, Retained,
                FactsTogether
<1> QED
  BY <1>1, <1>2, <1>3, PTL DEF Spec

-----------------------------------------------------------------------------
(* Nothing known becomes weaker.  The timestamps that decide between two     *)
(* paths or two enforcements are numbers.                                    *)

PathRulesGood(rules) ==
  \A t \in DOMAIN rules :
    \E V : rules[t] \in [access_rights : V, pathname : V, pathname_timestamp : Nat]

EnforcementsGood(events) == \A t \in DOMAIN events : events[t].timestamp \in Nat

LEMMA SameRulesKept ==
  ASSUME NEW paths, PathRulesGood(paths), NEW ports
  PROVE  PathRulesKept(paths, paths) /\ PortRulesKept(ports, ports)
<1>1. \A t \in DOMAIN paths : paths[t].pathname_timestamp \in Nat
  BY DEF PathRulesGood
<1> QED
  BY <1>1 DEF PathRulesKept, PortRulesKept

LEMMA SameEnforcementsKept ==
  ASSUME NEW events, EnforcementsGood(events) PROVE EnforcementsKept(events, events)
  BY DEF EnforcementsGood, EnforcementsKept

LEMMA EmptyGood == PathRulesGood(EmptyMap) /\ EnforcementsGood(EmptyMap)
  BY DEF EmptyMap, PathRulesGood, EnforcementsGood

\* Merging a rule into a target's joins the masks and keeps the later path.
LEMMA MergedKept ==
  ASSUME NEW rules, PathRulesGood(rules), NEW event, event.timestamp \in Nat
  PROVE  LET new == Put(rules, event.target, MergedPathRule(rules, event))
         IN PathRulesKept(rules, new) /\ PathRulesGood(new)
<1> DEFINE t == event.target
           merged == MergedPathRule(rules, event)
           new == Put(rules, t, merged)
           first == [access_rights |-> event.access_rights, pathname |-> event.pathname,
                     pathname_timestamp |-> event.timestamp]
<1>1. \A k \in DOMAIN rules : rules[k].pathname_timestamp \in Nat
  BY DEF PathRulesGood
<1>2. /\ \E V : merged \in [access_rights : V, pathname : V, pathname_timestamp : Nat]
      /\ t \in DOMAIN rules =>
           /\ rules[t].access_rights \subseteq merged.access_rights
           /\ rules[t].pathname_timestamp <= merged.pathname_timestamp
  <2>1. CASE t \notin DOMAIN rules
    <3>1. merged = first
      BY <2>1 DEF MergedPathRule
    <3>2. first \in [access_rights : {event.access_rights, event.pathname},
                     pathname : {event.access_rights, event.pathname}, pathname_timestamp : Nat]
      OBVIOUS
    <3> QED
      BY Zenon, <2>1, <3>1, <3>2
  <2>2. CASE t \in DOMAIN rules /\ event.timestamp >= rules[t].pathname_timestamp
    <3> DEFINE rights == event.access_rights \cup rules[t].access_rights
               rule == [access_rights |-> rights, pathname |-> event.pathname,
                        pathname_timestamp |-> event.timestamp]
    <3>1. merged = rule
      BY Zenon, <2>2 DEF MergedPathRule
    <3>2. rule \in [access_rights : {rights, event.pathname},
                    pathname : {rights, event.pathname}, pathname_timestamp : Nat]
      OBVIOUS
    <3>3. rule.access_rights = rights /\ rule.pathname_timestamp = event.timestamp
      OBVIOUS
    <3> HIDE DEF merged, rule
    <3>4. rules[t].access_rights \subseteq rights
      OBVIOUS
    <3> QED
      BY Zenon, <1>1, <2>2, <3>1, <3>2, <3>3, <3>4
  <2>3. CASE t \in DOMAIN rules /\ ~(event.timestamp >= rules[t].pathname_timestamp)
    <3> DEFINE rule == rules[t]
               rights == rule.access_rights \cup event.access_rights
               kept == [rule EXCEPT !.access_rights = rights]
    <3>1. merged = kept
      BY <2>3 DEF MergedPathRule
    <3>2. PICK V : rule \in [access_rights : V, pathname : V, pathname_timestamp : Nat]
      BY <2>3 DEF PathRulesGood
    <3> HIDE DEF rule
    <3>3. /\ kept \in [access_rights : V \cup {rights}, pathname : V \cup {rights},
                       pathname_timestamp : Nat]
          /\ kept.access_rights = rights
          /\ kept.pathname_timestamp = rule.pathname_timestamp
      BY <3>2
    <3>4. rule.access_rights \subseteq rights /\ rule.pathname_timestamp \in Nat
      BY <3>2
    <3> HIDE DEF merged, kept, rights
    <3>5. \E W : merged \in [access_rights : W, pathname : W, pathname_timestamp : Nat]
      BY Zenon, <3>1, <3>3
    <3>6. /\ rule.access_rights \subseteq merged.access_rights
          /\ rule.pathname_timestamp <= merged.pathname_timestamp
      BY <3>1, <3>3, <3>4
    <3> QED
      BY <3>5, <3>6 DEF rule
  <2> QED
    BY <2>1, <2>2, <2>3
<1> HIDE DEF merged
<1>3. /\ DOMAIN new = DOMAIN rules \cup {t} /\ new[t] = merged
      /\ \A k \in DOMAIN rules : k # t => new[k] = rules[k]
  BY DEF Put
<1> HIDE DEF new
<1>4. PathRulesKept(rules, new)
  BY <1>1, <1>2, <1>3 DEF PathRulesKept
<1>5. PathRulesGood(new)
  <2> SUFFICES ASSUME NEW k \in DOMAIN new
               PROVE  \E V : new[k] \in [access_rights : V, pathname : V, pathname_timestamp : Nat]
    BY DEF PathRulesGood
  <2>1. CASE k = t
    BY <1>2, <1>3, <2>1
  <2>2. CASE k # t
    BY <1>3, <2>2 DEF PathRulesGood
  <2> QED
    BY <2>1, <2>2
<1> QED
  BY <1>4, <1>5 DEF new, merged

LEMMA PortKept ==
  ASSUME NEW rules, NEW port, NEW rights
  PROVE  PortRulesKept(rules, Put(rules, port, Lookup(rules, port, {}) \cup rights))
<1> DEFINE value == Lookup(rules, port, {}) \cup rights
           new == Put(rules, port, value)
<1>1. port \in DOMAIN rules => rules[port] \subseteq value
  BY DEF Lookup
<1> HIDE DEF value
<1>2. /\ DOMAIN new = DOMAIN rules \cup {port} /\ new[port] = value
      /\ \A k \in DOMAIN rules : k # port => new[k] = rules[k]
  BY DEF Put
<1> HIDE DEF new
<1>3. PortRulesKept(rules, new)
  BY <1>1, <1>2 DEF PortRulesKept
<1> QED
  BY <1>3 DEF new, value

RulesGood == \A r \in DOMAIN rulesets : PathRulesGood(rulesets[r].filesystem_rules)

RulesetsGrow ==
  \A r \in DOMAIN rulesets : r \in DOMAIN rulesets' /\ RulesetGrows(rulesets[r], rulesets'[r])

\* What is put in the place of what was known is well formed and no weaker.
Stronger(id, s) ==
  /\ PathRulesGood(s.filesystem_rules)
  /\ id \in DOMAIN rulesets => RulesetGrows(rulesets[id], s)

LEMMA SameRuleset ==
  ASSUME RulesetsGood, RulesGood, NEW r \in DOMAIN rulesets
  PROVE  RulesetGrows(rulesets[r], rulesets[r])
<1>1. PICK V : rulesets[r] \in RulesetState(V)
  BY DEF RulesetsGood, RulesetGood
<1>2. /\ PathRulesKept(rulesets[r].filesystem_rules, rulesets[r].filesystem_rules)
      /\ PortRulesKept(rulesets[r].network_rules, rulesets[r].network_rules)
  BY SameRulesKept DEF RulesGood
<1> QED
  BY <1>1, <1>2, EventsAssumption DEF RulesetGrows, NotLost, RulesetState, Option

LEMMA PutStronger ==
  ASSUME RulesetsGood, RulesGood, NEW id, NEW s, Stronger(id, s),
         rulesets' = Put(rulesets, id, s)
  PROVE  RulesGood' /\ RulesetsGrow
<1>1. /\ DOMAIN rulesets' = DOMAIN rulesets \cup {id}
      /\ rulesets'[id] = s
      /\ \A k \in DOMAIN rulesets : k # id => rulesets'[k] = rulesets[k]
  <2> DEFINE new == Put(rulesets, id, s)
  <2>1. /\ DOMAIN new = DOMAIN rulesets \cup {id}
        /\ new[id] = s
        /\ \A k \in DOMAIN rulesets : k # id => new[k] = rulesets[k]
    BY DEF Put
  <2>2. rulesets' = new
    OBVIOUS
  <2> HIDE DEF new
  <2> QED
    BY <2>1, <2>2
<1>3. RulesetsGrow
  BY <1>1, SameRuleset DEF RulesetsGrow, Stronger
<1>4. RulesGood'
  BY <1>1 DEF RulesGood, Stronger
<1> QED
  BY <1>3, <1>4

\* A use changes nothing but the greatest version, upwards.
LEMMA UsedFields ==
  ASSUME RulesetsGood, RulesGood, NEW event, event.ruleset_version \in Nat
  PROVE  LET used == UsedRuleset(event)
             old == rulesets[event.ruleset_id]
         IN /\ \E V : used \in RulesetState(V)
            /\ PathRulesGood(used.filesystem_rules)
            /\ event.ruleset_id \in DOMAIN rulesets =>
                 /\ \E V : old \in RulesetState(V)
                 /\ used.lifecycle = old.lifecycle
                 /\ used.creation_timestamp = old.creation_timestamp
                 /\ used.handled = old.handled
                 /\ used.max_observed_version >= old.max_observed_version
                 /\ used.final_version = old.final_version
                 /\ used.free_timestamp = old.free_timestamp
                 /\ used.filesystem_rules = old.filesystem_rules
                 /\ used.network_rules = old.network_rules
<1> DEFINE id == event.ruleset_id
           version == event.ruleset_version
           s == Lookup(rulesets, id, NewRuleset("Allocated", version))
           used == UsedRuleset(event)
<1>1. RulesetGood(s) /\ PathRulesGood(s.filesystem_rules)
  <2>1. CASE id \in DOMAIN rulesets
    BY <2>1 DEF RulesetsGood, RulesGood, Lookup
  <2>2. CASE id \notin DOMAIN rulesets
    <3>1. s = NewRuleset("Allocated", version)
      BY <2>2 DEF Lookup
    <3>2. NewRuleset("Allocated", version).filesystem_rules = EmptyMap
      BY DEF NewRuleset
    <3> QED
      BY <3>1, <3>2, NewRulesetGood, EmptyGood
  <2> QED
    BY <2>1, <2>2
<1>2. id \in DOMAIN rulesets => s = rulesets[id]
  BY DEF Lookup
<1>3. PICK V : s \in RulesetState(V)
  BY <1>1 DEF RulesetGood
<1>4. used = update_version(mark_allocated(s), version)
  BY DEF UsedRuleset
<1> HIDE DEF s, used
<1>5. mark_allocated(s) = s
  BY <1>3 DEF mark_allocated, RulesetState
<1> DEFINE max == Max2(s.max_observed_version, version)
<1>6. used = [s EXCEPT !.max_observed_version = max]
  BY <1>4, <1>5 DEF update_version
<1>7. max \in Nat /\ max >= s.max_observed_version
  BY <1>3 DEF Max2, RulesetState
<1> HIDE DEF max
<1>8. /\ used \in RulesetState(V)
      /\ used.lifecycle = s.lifecycle
      /\ used.creation_timestamp = s.creation_timestamp
      /\ used.handled = s.handled
      /\ used.max_observed_version = max
      /\ used.final_version = s.final_version
      /\ used.free_timestamp = s.free_timestamp
      /\ used.filesystem_rules = s.filesystem_rules
      /\ used.network_rules = s.network_rules
  BY <1>3, <1>6, <1>7 DEF RulesetState
<1> QED
  BY <1>1, <1>2, <1>3, <1>7, <1>8, Zenon DEF used

\* Every event leaves what is known of rulesets as strong as it was.
LEMMA RulesetsGrowStep ==
  ASSUME RulesetsGood, RulesGood, NEW event \in Events, Apply(event)
  PROVE  RulesGood' /\ RulesetsGrow
<1> DEFINE id == event.ruleset_id
           used == UsedRuleset(event)
           old == rulesets[id]
<1>1. event.timestamp \in Nat
  BY EventsAssumption
<1>2. ASSUME event.ruleset_version \in Nat
      PROVE  /\ \E V : used \in RulesetState(V)
             /\ PathRulesGood(used.filesystem_rules)
             /\ id \in DOMAIN rulesets =>
                  /\ \E V : old \in RulesetState(V)
                  /\ used.lifecycle = old.lifecycle
                  /\ used.creation_timestamp = old.creation_timestamp
                  /\ used.handled = old.handled
                  /\ used.max_observed_version >= old.max_observed_version
                  /\ used.final_version = old.final_version
                  /\ used.free_timestamp = old.free_timestamp
                  /\ used.filesystem_rules = old.filesystem_rules
                  /\ used.network_rules = old.network_rules
  BY <1>2, UsedFields
\* The options a use leaves alone, and the rules as the case at hand says.
<1>3. ASSUME event.ruleset_version \in Nat, NEW s, PathRulesGood(s.filesystem_rules),
             s.lifecycle = used.lifecycle,
             s.creation_timestamp = used.creation_timestamp
               \/ /\ s.creation_timestamp = event.timestamp
                  /\ Replaces(event.timestamp, used.creation_timestamp),
             s.handled = used.handled \/ s.handled # None,
             s.max_observed_version = used.max_observed_version,
             s.final_version = used.final_version, s.free_timestamp = used.free_timestamp,
             PathRulesKept(used.filesystem_rules, s.filesystem_rules),
             PortRulesKept(used.network_rules, s.network_rules)
      PROVE  Stronger(id, s)
  <2> HIDE DEF used, old
  <2> SUFFICES ASSUME id \in DOMAIN rulesets PROVE RulesetGrows(old, s)
    BY <1>3 DEF Stronger, old
  <2>1. PICK V : old \in RulesetState(V)
    BY <1>2, <1>3
  <2>2. PICK U : used \in RulesetState(U)
    BY <1>2, <1>3
  <2>3. /\ NotLost(old.max_observed_version, s.max_observed_version)
        /\ NotLost(old.final_version, s.final_version)
        /\ NotLost(old.free_timestamp, s.free_timestamp)
    BY <1>2, <1>3, <2>1, <2>2, EventsAssumption DEF NotLost, RulesetState, Option
  <2>4. NotLost(old.creation_timestamp, s.creation_timestamp)
    BY <1>1, <1>2, <1>3, <2>1, EventsAssumption DEF NotLost, RulesetState, Option, Replaces
  <2> QED
    BY <1>2, <1>3, <2>3, <2>4 DEF RulesetGrows
<1>4. CASE CreateRuleset(event)
  <2>1. event.ruleset_version \in Nat /\ event.handled # None
    BY <1>4, EventsAssumption DEF CreateRuleset
  <2> DEFINE created == [used EXCEPT !.creation_timestamp = event.timestamp,
                                     !.handled = event.handled]
             s == IF Replaces(event.timestamp, used.creation_timestamp) THEN created ELSE used
  <2>2. rulesets' = Put(rulesets, id, s)
    BY <1>4 DEF CreateRuleset
  <2> HIDE DEF used, old
  <2>3. PICK V : used \in RulesetState(V)
    BY <1>2, <2>1
  <2>4. /\ created.lifecycle = used.lifecycle
        /\ created.creation_timestamp = event.timestamp
        /\ created.handled = event.handled
        /\ created.max_observed_version = used.max_observed_version
        /\ created.final_version = used.final_version
        /\ created.free_timestamp = used.free_timestamp
        /\ created.filesystem_rules = used.filesystem_rules
        /\ created.network_rules = used.network_rules
    BY <2>3 DEF RulesetState
  <2> HIDE DEF created
  <2>5. /\ PathRulesKept(used.filesystem_rules, used.filesystem_rules)
        /\ PortRulesKept(used.network_rules, used.network_rules)
        /\ PathRulesGood(used.filesystem_rules)
    BY <1>2, <2>1, SameRulesKept
  <2>6. Stronger(id, s)
    <3>1. CASE Replaces(event.timestamp, used.creation_timestamp)
      <4>1. s = created
        BY <3>1
      <4> HIDE DEF s
      <4> QED
        BY <1>3, <2>1, <2>4, <2>5, <3>1, <4>1
    <3>2. CASE ~Replaces(event.timestamp, used.creation_timestamp)
      <4>1. s = used
        BY <3>2
      <4> HIDE DEF s
      <4> QED
        BY <1>3, <2>1, <2>5, <4>1
    <3> QED
      BY <3>1, <3>2
  <2> HIDE DEF s
  <2> QED
    BY <2>2, <2>6, PutStronger
<1>5. CASE AddRulePathBeneath(event)
  <2>1. event.ruleset_version \in Nat
    BY <1>5, EventsAssumption DEF AddRulePathBeneath
  <2> DEFINE files == Put(used.filesystem_rules, event.target,
                          MergedPathRule(used.filesystem_rules, event))
             s == [used EXCEPT !.filesystem_rules = files]
  <2>2. rulesets' = Put(rulesets, id, s)
    BY <1>5 DEF AddRulePathBeneath
  <2> HIDE DEF used, old
  <2>3. PICK V : used \in RulesetState(V)
    BY <1>2, <2>1
  <2>4. PathRulesKept(used.filesystem_rules, files) /\ PathRulesGood(files)
    BY <1>1, <1>2, <2>1, MergedKept
  <2> HIDE DEF files
  <2>5. /\ s.lifecycle = used.lifecycle
        /\ s.creation_timestamp = used.creation_timestamp
        /\ s.handled = used.handled
        /\ s.max_observed_version = used.max_observed_version
        /\ s.final_version = used.final_version
        /\ s.free_timestamp = used.free_timestamp
        /\ s.filesystem_rules = files
        /\ s.network_rules = used.network_rules
    BY <2>3 DEF RulesetState
  <2> HIDE DEF s
  <2>6. PortRulesKept(used.network_rules, used.network_rules)
    BY <1>2, <2>1, SameRulesKept
  <2>7. Stronger(id, s)
    BY <1>3, <2>1, <2>4, <2>5, <2>6
  <2> QED
    BY <2>2, <2>7, PutStronger
<1>6. CASE AddRuleNetPort(event)
  <2>1. event.ruleset_version \in Nat
    BY <1>6, EventsAssumption DEF AddRuleNetPort
  <2> DEFINE ports == Put(used.network_rules, event.port,
                          Lookup(used.network_rules, event.port, {}) \cup event.access_rights)
             s == [used EXCEPT !.network_rules = ports]
  <2>2. rulesets' = Put(rulesets, id, s)
    BY <1>6 DEF AddRuleNetPort
  <2> HIDE DEF used, old
  <2>3. PICK V : used \in RulesetState(V)
    BY <1>2, <2>1
  <2>4. PortRulesKept(used.network_rules, ports)
    BY PortKept
  <2> HIDE DEF ports
  <2>5. /\ s.lifecycle = used.lifecycle
        /\ s.creation_timestamp = used.creation_timestamp
        /\ s.handled = used.handled
        /\ s.max_observed_version = used.max_observed_version
        /\ s.final_version = used.final_version
        /\ s.free_timestamp = used.free_timestamp
        /\ s.filesystem_rules = used.filesystem_rules
        /\ s.network_rules = ports
    BY <2>3 DEF RulesetState
  <2> HIDE DEF s
  <2>6. /\ PathRulesKept(used.filesystem_rules, used.filesystem_rules)
        /\ PathRulesGood(used.filesystem_rules)
    BY <1>2, <2>1, SameRulesKept
  <2>7. Stronger(id, s)
    BY <1>3, <2>1, <2>4, <2>5, <2>6
  <2> QED
    BY <2>2, <2>7, PutStronger
<1>7. CASE CreateDomain(event)
  <2>1. event.ruleset_version \in Nat
    BY <1>7, EventsAssumption DEF CreateDomain
  <2>2. rulesets' = Put(rulesets, id, used)
    BY <1>7 DEF CreateDomain
  <2> HIDE DEF used, old
  <2>3. /\ PathRulesKept(used.filesystem_rules, used.filesystem_rules)
        /\ PortRulesKept(used.network_rules, used.network_rules)
        /\ PathRulesGood(used.filesystem_rules)
    BY <1>2, <2>1, SameRulesKept
  <2>4. Stronger(id, used)
    BY <1>3, <2>1, <2>3
  <2> QED
    BY <2>2, <2>4, PutStronger
<1>8. CASE FreeRuleset(event)
  <2>1. event.ruleset_version \in Nat
    BY <1>8, EventsAssumption DEF FreeRuleset
  <2> DEFINE version == event.ruleset_version
             before == Lookup(rulesets, id, NewRuleset("Deallocated", version))
             free == update_max(before.free_timestamp, event.timestamp)
             final == update_max(before.final_version, version)
             freed == [before EXCEPT !.lifecycle = "Deallocated", !.free_timestamp = free,
                                     !.final_version = final]
             max == Max2(before.max_observed_version, version)
             s == [freed EXCEPT !.max_observed_version = max]
  <2>2. /\ \E V : before \in RulesetState(V)
        /\ PathRulesGood(before.filesystem_rules)
        /\ id \in DOMAIN rulesets => before = old
    <3>1. CASE id \in DOMAIN rulesets
      BY <3>1 DEF Lookup, RulesetsGood, RulesetGood, RulesGood
    <3>2. CASE id \notin DOMAIN rulesets
      <4>1. before = NewRuleset("Deallocated", version)
        BY <3>2 DEF Lookup
      <4>2. before \in RulesetState({None, EmptyMap}) /\ before.filesystem_rules = EmptyMap
        BY SMTT(30), <2>1, <4>1 DEF NewRuleset, RulesetState, Option
      <4> QED
        BY <3>2, <4>2, EmptyGood
    <3> QED
      BY <3>1, <3>2
  <2>3. PICK V : before \in RulesetState(V)
    BY <2>2
  <2>4. rulesets' = Put(rulesets, id, update_version(freed, version))
    BY <1>8 DEF FreeRuleset
  <2> HIDE DEF before, used, old
  <2>5. /\ free \in Nat /\ final \in Nat
        /\ before.free_timestamp # None => free >= before.free_timestamp
        /\ before.final_version # None => final >= before.final_version
    BY Zenon, <1>1, <2>1, <2>3, UpdateMaxFacts DEF RulesetState, Option
  <2>6. max \in Nat /\ max >= before.max_observed_version
    BY <2>1, <2>3 DEF Max2, RulesetState
  <2> HIDE DEF free, final
  <2>7. /\ freed \in RulesetState(V)
        /\ freed.lifecycle = "Deallocated"
        /\ freed.free_timestamp = free
        /\ freed.final_version = final
        /\ freed.creation_timestamp = before.creation_timestamp
        /\ freed.handled = before.handled
        /\ freed.max_observed_version = before.max_observed_version
        /\ freed.filesystem_rules = before.filesystem_rules
        /\ freed.network_rules = before.network_rules
    BY ZenonT(30), <2>3, <2>5 DEF RulesetState, Option
  <2> HIDE DEF freed
  <2>8. s = update_version(freed, version)
    BY <2>7 DEF update_version
  <2> HIDE DEF max
  <2>9. /\ s.lifecycle = "Deallocated"
        /\ s.free_timestamp = free
        /\ s.final_version = final
        /\ s.creation_timestamp = before.creation_timestamp
        /\ s.handled = before.handled
        /\ s.max_observed_version = max
        /\ s.filesystem_rules = before.filesystem_rules
        /\ s.network_rules = before.network_rules
    BY <2>7 DEF RulesetState
  <2> HIDE DEF s
  <2>10. /\ NotLost(before.max_observed_version, s.max_observed_version)
         /\ NotLost(before.final_version, s.final_version)
         /\ NotLost(before.free_timestamp, s.free_timestamp)
         /\ NotLost(before.creation_timestamp, s.creation_timestamp)
    BY <2>3, <2>5, <2>6, <2>9, EventsAssumption DEF NotLost, RulesetState, Option
  <2>11. RulesetGrows(before, s)
    BY <2>2, <2>9, <2>10, SameRulesKept DEF RulesetGrows
  <2>12. Stronger(id, s)
    BY <2>2, <2>9, <2>11 DEF Stronger, old
  <2> QED
    BY <2>4, <2>8, <2>12, PutStronger
<1>9. CASE UNCHANGED rulesets
  BY <1>9, SameRuleset DEF RulesGood, RulesetsGrow
<1> QED
  BY <1>4, <1>5, <1>6, <1>7, <1>8, <1>9 DEF Apply, ApplyDenial, FreeDomain, EnforceDomain

ThreadsGood == \A d \in DOMAIN domains : EnforcementsGood(domains[d].enforcement_events)

DomainsGrow ==
  \A d \in DOMAIN domains : d \in DOMAIN domains' /\ DomainGrows(domains[d], domains'[d])

DomainStronger(id, s) ==
  /\ EnforcementsGood(s.enforcement_events)
  /\ id \in DOMAIN domains => DomainGrows(domains[id], s)

LEMMA SameDomain ==
  ASSUME DomainsGood, ThreadsGood, NEW d \in DOMAIN domains
  PROVE  DomainGrows(domains[d], domains[d])
<1>1. PICK V : domains[d] \in DomainState(V)
  BY DEF DomainsGood, DomainGood
<1>2. EnforcementsKept(domains[d].enforcement_events, domains[d].enforcement_events)
  BY SameEnforcementsKept DEF ThreadsGood
<1> QED
  BY <1>1, <1>2, EventsAssumption DEF DomainGrows, NotLost, DomainState, Option

\* The entry an event changes, as it was or new.
LEMMA LookupStronger ==
  ASSUME DomainsGood, ThreadsGood, NEW id, NEW l \in {"Allocated", "Deallocated"}
  PROVE  LET old == Lookup(domains, id, NewDomain(l))
         IN /\ \E V : old \in DomainState(V)
            /\ EnforcementsGood(old.enforcement_events)
            /\ DomainTogether(old)
            /\ id \in DOMAIN domains => old = domains[id]
<1> DEFINE old == Lookup(domains, id, NewDomain(l))
<1>1. CASE id \in DOMAIN domains
  BY <1>1 DEF Lookup, DomainsGood, DomainGood, ThreadsGood
<1>2. CASE id \notin DOMAIN domains
  <2>1. old = NewDomain(l)
    BY <1>2 DEF Lookup
  <2>2. NewDomain(l).enforcement_events = EmptyMap
    BY DEF NewDomain
  <2> HIDE DEF old
  <2>3. /\ old \in DomainState(Fields) /\ EnforcementsGood(old.enforcement_events)
        /\ DomainTogether(old)
    BY <2>1, <2>2, NewDomainTyped, EmptyGood
  <2> QED
    BY <1>2, <2>3 DEF old
<1> QED
  BY <1>1, <1>2

LEMMA PutDomainStronger ==
  ASSUME DomainsGood, ThreadsGood, NEW id, NEW s, DomainStronger(id, s), NEW ids,
         DOMAIN domains' = DOMAIN domains \cup {id} \cup ids,
         \A d \in DOMAIN domains' :
           domains'[d] = IF d = id THEN s
                         ELSE Lookup(domains, d, NewDomain("Allocated"))
  PROVE  ThreadsGood' /\ DomainsGrow
<1>1. ASSUME NEW d \in DOMAIN domains' PROVE EnforcementsGood(domains'[d].enforcement_events)
  <2>1. CASE d = id
    BY <2>1 DEF DomainStronger
  <2>2. CASE d # id
    BY <2>2, LookupStronger
  <2> QED
    BY <2>1, <2>2
<1>2. ASSUME NEW d \in DOMAIN domains
      PROVE  d \in DOMAIN domains' /\ DomainGrows(domains[d], domains'[d])
  <2>1. CASE d = id
    BY <2>1 DEF DomainStronger
  <2>2. CASE d # id
    <3>1. domains'[d] = domains[d]
      BY <2>2 DEF Lookup
    <3> QED
      BY <3>1, SameDomain
  <2> QED
    BY <2>1, <2>2
<1> QED
  BY <1>1, <1>2 DEF ThreadsGood, DomainsGrow

LEMMA PutOneStronger ==
  ASSUME DomainsGood, ThreadsGood, NEW id, NEW s, DomainStronger(id, s),
         domains' = Put(domains, id, s)
  PROVE  ThreadsGood' /\ DomainsGrow
<1> DEFINE new == Put(domains, id, s)
<1>1. /\ DOMAIN new = DOMAIN domains \cup {id} \cup {}
      /\ \A d \in DOMAIN new :
           new[d] = IF d = id THEN s ELSE Lookup(domains, d, NewDomain("Allocated"))
  BY DEF Put, Lookup
<1>2. domains' = new
  OBVIOUS
<1> HIDE DEF new
<1> QED
  BY <1>1, <1>2, PutDomainStronger

\* A domain's facts before and after, where its threads are as before.
LEMMA GrowsFrom ==
  ASSUME NEW V, NEW old \in DomainState(V), EnforcementsGood(old.enforcement_events), NEW s,
         s.enforcement_events = old.enforcement_events,
         s.any_process_wide_enforcement = old.any_process_wide_enforcement,
         s.lifecycle = old.lifecycle \/ s.lifecycle = "Deallocated",
         NotLost(old.creation_timestamp, s.creation_timestamp),
         old.parent # None => s.parent # None,
         old.ruleset # None => s.ruleset # None,
         NotLost(old.cumulative_denial_count, s.cumulative_denial_count),
         NotLost(old.final_denial_count, s.final_denial_count),
         NotLost(old.free_timestamp, s.free_timestamp)
  PROVE  DomainGrows(old, s) /\ EnforcementsGood(s.enforcement_events)
<1>1. EnforcementsKept(old.enforcement_events, s.enforcement_events)
  BY SameEnforcementsKept
<1> QED
  BY <1>1 DEF DomainGrows

LEMMA CreatedStronger ==
  ASSUME NEW V, NEW old \in DomainState(V), EnforcementsGood(old.enforcement_events),
         NEW event \in Events, event.variant = "CreateDomain"
  PROVE  LET counted == [old EXCEPT !.cumulative_denial_count = update_max(@, 0)]
             s == CreatedDomain(counted, event)
         IN DomainGrows(old, s) /\ EnforcementsGood(s.enforcement_events)
<1> DEFINE max == update_max(old.cumulative_denial_count, 0)
           counted == [old EXCEPT !.cumulative_denial_count = max]
           frozen == RulesetVersion(event)
           created == [counted EXCEPT !.creation_timestamp = event.timestamp,
                                      !.parent = event.parent_id,
                                      !.creator_tgid = event.creator_tgid,
                                      !.creator_comm = event.creator_comm,
                                      !.ruleset = frozen]
           s == CreatedDomain(counted, event)
<1>1. /\ max \in Nat
      /\ old.cumulative_denial_count # None => max >= old.cumulative_denial_count
  BY ZenonT(30), UpdateMaxFacts DEF DomainState, Option
<1>2. event.timestamp \in Nat /\ event.parent_id # None /\ frozen # None
  BY EventsAssumption
<1> HIDE DEF max, frozen
<1>3. /\ counted \in DomainState(V)
      /\ counted.cumulative_denial_count = max
      /\ counted.lifecycle = old.lifecycle
      /\ counted.creation_timestamp = old.creation_timestamp
      /\ counted.parent = old.parent
      /\ counted.ruleset = old.ruleset
      /\ counted.final_denial_count = old.final_denial_count
      /\ counted.free_timestamp = old.free_timestamp
      /\ counted.enforcement_events = old.enforcement_events
      /\ counted.any_process_wide_enforcement = old.any_process_wide_enforcement
  BY <1>1 DEF DomainState, Option
<1> HIDE DEF counted
<1>4. /\ created.cumulative_denial_count = counted.cumulative_denial_count
      /\ created.lifecycle = counted.lifecycle
      /\ created.creation_timestamp = event.timestamp
      /\ created.parent = event.parent_id
      /\ created.ruleset = frozen
      /\ created.final_denial_count = counted.final_denial_count
      /\ created.free_timestamp = counted.free_timestamp
      /\ created.enforcement_events = counted.enforcement_events
      /\ created.any_process_wide_enforcement = counted.any_process_wide_enforcement
  BY <1>3 DEF DomainState
<1>5. /\ Replaces(event.timestamp, counted.creation_timestamp) => s = created
      /\ ~Replaces(event.timestamp, counted.creation_timestamp) => s = counted
  BY DEF CreatedDomain, frozen
<1> HIDE DEF created, s
<1>6. /\ NotLost(old.creation_timestamp, s.creation_timestamp)
      /\ NotLost(old.cumulative_denial_count, s.cumulative_denial_count)
      /\ NotLost(old.final_denial_count, s.final_denial_count)
      /\ NotLost(old.free_timestamp, s.free_timestamp)
  BY <1>1, <1>2, <1>3, <1>4, <1>5, EventsAssumption DEF NotLost, Replaces, DomainState, Option
<1>7. DomainGrows(old, s) /\ EnforcementsGood(s.enforcement_events)
  BY ZenonT(30), <1>2, <1>3, <1>4, <1>5, <1>6, GrowsFrom
<1> QED
  BY <1>7 DEF s, counted, max

LEMMA DeniedStronger ==
  ASSUME NEW V, NEW old \in DomainState(V), EnforcementsGood(old.enforcement_events),
         NEW parent, NEW tgid, NEW comm, NEW count \in Nat, parent # None
  PROVE  LET s == [old EXCEPT !.parent = IF @ = None THEN parent ELSE @,
                              !.creator_tgid = tgid,
                              !.creator_comm = comm,
                              !.cumulative_denial_count = update_max(@, count)]
         IN DomainGrows(old, s) /\ EnforcementsGood(s.enforcement_events)
<1> DEFINE max == update_max(old.cumulative_denial_count, count)
           p == IF old.parent = None THEN parent ELSE old.parent
           s == [old EXCEPT !.parent = p, !.creator_tgid = tgid, !.creator_comm = comm,
                            !.cumulative_denial_count = max]
<1>1. /\ max \in Nat
      /\ old.cumulative_denial_count # None => max >= old.cumulative_denial_count
  BY Zenon, UpdateMaxFacts DEF DomainState, Option
<1>2. p # None
  OBVIOUS
<1> HIDE DEF max, p
<1>3. /\ s.cumulative_denial_count = max
      /\ s.lifecycle = old.lifecycle
      /\ s.creation_timestamp = old.creation_timestamp
      /\ s.parent = p
      /\ s.ruleset = old.ruleset
      /\ s.final_denial_count = old.final_denial_count
      /\ s.free_timestamp = old.free_timestamp
      /\ s.enforcement_events = old.enforcement_events
      /\ s.any_process_wide_enforcement = old.any_process_wide_enforcement
  BY DEF DomainState
<1> HIDE DEF s
<1>4. /\ NotLost(old.creation_timestamp, s.creation_timestamp)
      /\ NotLost(old.cumulative_denial_count, s.cumulative_denial_count)
      /\ NotLost(old.final_denial_count, s.final_denial_count)
      /\ NotLost(old.free_timestamp, s.free_timestamp)
  BY <1>1, <1>3, EventsAssumption DEF NotLost, DomainState, Option
<1>5. DomainGrows(old, s) /\ EnforcementsGood(s.enforcement_events)
  BY <1>2, <1>3, <1>4, GrowsFrom
<1> QED
  BY <1>5 DEF s, p, max

LEMMA FreedStronger ==
  ASSUME NEW V, NEW old \in DomainState(V), EnforcementsGood(old.enforcement_events),
         NEW timestamp \in Nat, NEW count \in Nat
  PROVE  LET s == [old EXCEPT !.lifecycle = "Deallocated",
                              !.free_timestamp = update_max(@, timestamp),
                              !.final_denial_count = update_max(@, count),
                              !.cumulative_denial_count = update_max(@, count)]
         IN DomainGrows(old, s) /\ EnforcementsGood(s.enforcement_events)
<1> DEFINE free == update_max(old.free_timestamp, timestamp)
           final == update_max(old.final_denial_count, count)
           max == update_max(old.cumulative_denial_count, count)
           s == [old EXCEPT !.lifecycle = "Deallocated", !.free_timestamp = free,
                            !.final_denial_count = final, !.cumulative_denial_count = max]
<1>1. /\ free \in Nat /\ final \in Nat /\ max \in Nat
      /\ old.free_timestamp # None => free >= old.free_timestamp
      /\ old.final_denial_count # None => final >= old.final_denial_count
      /\ old.cumulative_denial_count # None => max >= old.cumulative_denial_count
  BY Zenon, UpdateMaxFacts DEF DomainState, Option
<1> HIDE DEF free, final, max
<1>2. /\ s.cumulative_denial_count = max
      /\ s.lifecycle = "Deallocated"
      /\ s.creation_timestamp = old.creation_timestamp
      /\ s.parent = old.parent
      /\ s.ruleset = old.ruleset
      /\ s.final_denial_count = final
      /\ s.free_timestamp = free
      /\ s.enforcement_events = old.enforcement_events
      /\ s.any_process_wide_enforcement = old.any_process_wide_enforcement
  BY DEF DomainState
<1> HIDE DEF s
<1>3. /\ NotLost(old.creation_timestamp, s.creation_timestamp)
      /\ NotLost(old.cumulative_denial_count, s.cumulative_denial_count)
      /\ NotLost(old.final_denial_count, s.final_denial_count)
      /\ NotLost(old.free_timestamp, s.free_timestamp)
  BY <1>1, <1>2, EventsAssumption DEF NotLost, DomainState, Option
<1>4. DomainGrows(old, s) /\ EnforcementsGood(s.enforcement_events)
  BY <1>2, <1>3, GrowsFrom
<1> QED
  BY <1>4 DEF s, free, final, max

\* The enforcement kept for a thread is the later of the two.
LEMMA EnforcedStronger ==
  ASSUME NEW V, NEW old \in DomainState(V), EnforcementsGood(old.enforcement_events),
         NEW event, event.timestamp \in Nat
  PROVE  LET current == Lookup(old.enforcement_events, event.enforcing_tid, event)
             selected == IF event.timestamp >= current.timestamp THEN event ELSE current
             s == [old EXCEPT
                     !.any_process_wide_enforcement = @ \/ event.process_wide,
                     !.enforcement_events = Put(@, event.enforcing_tid, selected)]
         IN DomainGrows(old, s) /\ EnforcementsGood(s.enforcement_events)
<1> DEFINE tid == event.enforcing_tid
           threads == old.enforcement_events
           current == Lookup(threads, tid, event)
           selected == IF event.timestamp >= current.timestamp THEN event ELSE current
           new == Put(threads, tid, selected)
           wide == old.any_process_wide_enforcement \/ event.process_wide
           s == [old EXCEPT !.any_process_wide_enforcement = wide, !.enforcement_events = new]
<1>1. /\ current.timestamp \in Nat
      /\ tid \in DOMAIN threads => current = threads[tid]
  BY DEF Lookup, EnforcementsGood
<1>2. selected.timestamp \in Nat /\ selected.timestamp >= current.timestamp
  BY <1>1
<1> HIDE DEF current, selected
<1>3. /\ DOMAIN new = DOMAIN threads \cup {tid} /\ new[tid] = selected
      /\ \A t \in DOMAIN threads : t # tid => new[t] = threads[t]
  BY DEF Put
<1> HIDE DEF new
<1>4. EnforcementsGood(new) /\ EnforcementsKept(threads, new)
  BY <1>1, <1>2, <1>3 DEF EnforcementsGood, EnforcementsKept
<1>5. old.any_process_wide_enforcement => wide
  OBVIOUS
<1> HIDE DEF wide
<1>6. /\ s.cumulative_denial_count = old.cumulative_denial_count
      /\ s.lifecycle = old.lifecycle
      /\ s.creation_timestamp = old.creation_timestamp
      /\ s.parent = old.parent
      /\ s.ruleset = old.ruleset
      /\ s.final_denial_count = old.final_denial_count
      /\ s.free_timestamp = old.free_timestamp
      /\ s.enforcement_events = new
      /\ s.any_process_wide_enforcement = wide
  BY DEF DomainState
<1> HIDE DEF s
<1>7. /\ NotLost(old.creation_timestamp, s.creation_timestamp)
      /\ NotLost(old.cumulative_denial_count, s.cumulative_denial_count)
      /\ NotLost(old.final_denial_count, s.final_denial_count)
      /\ NotLost(old.free_timestamp, s.free_timestamp)
  BY <1>6, EventsAssumption DEF NotLost, DomainState, Option
<1>8. old.any_process_wide_enforcement => s.any_process_wide_enforcement
  BY <1>5, <1>6, Zenon
<1>9. DomainGrows(old, s) /\ EnforcementsGood(s.enforcement_events)
  BY <1>4, <1>6, <1>7, <1>8, Zenon DEF DomainGrows
<1> QED
  BY <1>9 DEF s, new, selected, current, wide

\* Every event leaves what is known of domains as strong as it was.
LEMMA DomainsGrowStep ==
  ASSUME DomainsGood, ThreadsGood, NEW event \in Events, Apply(event)
  PROVE  ThreadsGood' /\ DomainsGrow
<1> DEFINE id == event.domain_id
           old == Lookup(domains, id, NewDomain("Allocated"))
<1>1. /\ \E V : old \in DomainState(V)
      /\ EnforcementsGood(old.enforcement_events)
      /\ id \in DOMAIN domains => old = domains[id]
      /\ mark_allocated(old) = old
  BY ZenonT(30), LookupStronger, LookupFrom, MarkAllocated
<1>2. PICK V : old \in DomainState(V)
  BY ZenonT(30), <1>1
<1>3. event.timestamp \in Nat
  BY EventsAssumption
<1>4. CASE CreateDomain(event)
  <2> DEFINE ids == ParentIds(event)
             materialized == Ensure(domains, ids, NewDomain("Allocated"))
             counted == [old EXCEPT !.cumulative_denial_count = update_max(@, 0)]
             s == CreatedDomain(counted, event)
  <2>1. event.variant = "CreateDomain"
    BY <1>4 DEF CreateDomain
  <2>2. Lookup(materialized, id, NewDomain("Allocated")) = old
    BY DEF Ensure, Lookup
  <2>3. domains' = Put(materialized, id, s)
    BY <1>1, <1>4, <2>2 DEF CreateDomain
  <2> HIDE DEF old
  <2>4. DomainGrows(old, s) /\ EnforcementsGood(s.enforcement_events)
    BY <1>1, <1>2, <2>1, CreatedStronger
  <2> HIDE DEF s, ids
  <2>5. DomainStronger(id, s)
    BY <1>1, <2>4 DEF DomainStronger
  <2>6. /\ DOMAIN domains' = DOMAIN domains \cup {id} \cup ids
        /\ \A d \in DOMAIN domains' :
             domains'[d] = IF d = id THEN s ELSE Lookup(domains, d, NewDomain("Allocated"))
    <3> DEFINE new == Put(materialized, id, s)
    <3>1. /\ DOMAIN new = DOMAIN domains \cup {id} \cup ids
          /\ \A d \in DOMAIN new :
               new[d] = IF d = id THEN s ELSE Lookup(domains, d, NewDomain("Allocated"))
      BY DEF Put, Ensure
    <3> HIDE DEF new
    <3> QED
      BY <2>3, <3>1 DEF new
  <2> QED
    BY <2>5, <2>6, PutDomainStronger
<1>5. CASE ApplyDenial(event)
  <2> DEFINE ids == ParentIds(event) \cup OtherIds(event)
             count == event.cumulative_denial_count
             unknown == old.creator_tgid = None /\ old.creator_comm = None
             tgid == IF unknown THEN event.creator_tgid ELSE old.creator_tgid
             comm == IF unknown THEN event.creator_comm ELSE old.creator_comm
             s == [old EXCEPT !.parent = IF @ = None THEN event.parent_id ELSE @,
                              !.creator_tgid = tgid,
                              !.creator_comm = comm,
                              !.cumulative_denial_count = update_max(@, count)]
  <2>1. count \in Nat /\ event.parent_id # None
    BY <1>5, EventsAssumption DEF ApplyDenial
  <2>2. domains' = Ensure(Put(domains, id, s), ids, NewDomain("Allocated"))
    BY ZenonT(30), <1>1, <1>5 DEF ApplyDenial
  <2> HIDE DEF old, tgid, comm, count
  <2>3. DomainGrows(old, s) /\ EnforcementsGood(s.enforcement_events)
    BY Zenon, <1>1, <1>2, <2>1, DeniedStronger
  <2> HIDE DEF s, ids
  <2>4. DomainStronger(id, s)
    BY <1>1, <2>3 DEF DomainStronger
  <2>5. /\ DOMAIN domains' = DOMAIN domains \cup {id} \cup ids
        /\ \A d \in DOMAIN domains' :
             domains'[d] = IF d = id THEN s ELSE Lookup(domains, d, NewDomain("Allocated"))
    <3> DEFINE new == Ensure(Put(domains, id, s), ids, NewDomain("Allocated"))
    <3>1. /\ DOMAIN new = DOMAIN domains \cup {id} \cup ids
          /\ \A d \in DOMAIN new :
               new[d] = IF d = id THEN s ELSE Lookup(domains, d, NewDomain("Allocated"))
      BY DEF Put, Ensure, Lookup
    <3> HIDE DEF new
    <3> QED
      BY <2>2, <3>1 DEF new
  <2> QED
    BY <2>4, <2>5, PutDomainStronger
<1>6. CASE FreeDomain(event)
  <2> DEFINE state == Lookup(domains, id, NewDomain("Deallocated"))
             s == [state EXCEPT
                     !.lifecycle = "Deallocated",
                     !.free_timestamp = update_max(@, event.timestamp),
                     !.final_denial_count = update_max(@, event.denial_count),
                     !.cumulative_denial_count = update_max(@, event.denial_count)]
  <2>1. event.denial_count \in Nat
    BY <1>6, EventsAssumption DEF FreeDomain
  <2>2. domains' = Put(domains, id, s)
    BY <1>6 DEF FreeDomain
  <2>3. /\ \E W : state \in DomainState(W)
        /\ EnforcementsGood(state.enforcement_events)
        /\ id \in DOMAIN domains => state = domains[id]
    BY LookupStronger
  <2> HIDE DEF state
  <2>4. DomainGrows(state, s) /\ EnforcementsGood(s.enforcement_events)
    BY Zenon, <1>3, <2>1, <2>3, FreedStronger
  <2> HIDE DEF s
  <2>5. DomainStronger(id, s)
    BY <2>3, <2>4 DEF DomainStronger
  <2> QED
    BY <2>2, <2>5, PutOneStronger
<1>7. CASE EnforceDomain(event)
  <2> DEFINE current == Lookup(old.enforcement_events, event.enforcing_tid, event)
             selected == IF event.timestamp >= current.timestamp THEN event ELSE current
             s == [old EXCEPT
                     !.any_process_wide_enforcement = @ \/ event.process_wide,
                     !.enforcement_events = Put(@, event.enforcing_tid, selected)]
  <2>1. domains' = Put(domains, id, s)
    BY Zenon, <1>1, <1>7 DEF EnforceDomain
  <2> HIDE DEF old
  <2>2. DomainGrows(old, s) /\ EnforcementsGood(s.enforcement_events)
    BY Zenon, <1>1, <1>2, <1>3, EnforcedStronger
  <2> HIDE DEF s
  <2>3. DomainStronger(id, s)
    BY <1>1, <2>2 DEF DomainStronger
  <2> QED
    BY <2>1, <2>3, PutOneStronger
<1>8. CASE UNCHANGED domains
  BY <1>8, SameDomain DEF ThreadsGood, DomainsGrow
<1> QED
  BY <1>4, <1>5, <1>6, <1>7, <1>8
  DEF Apply, CreateRuleset, AddRulePathBeneath, AddRuleNetPort, FreeRuleset

GrowInv == KnownInv /\ RulesGood /\ ThreadsGood

\* No event makes an object, a rule, an enforced thread or a known fact
\* disappear or become weaker, whatever was applied before it (State::apply,
\* "retain stronger facts already learned from other event orderings").
THEOREM NothingForgotten == Spec => KnowledgeGrows
<1>1. Init => GrowInv
  BY DEF Init, EmptyMap, GrowInv, KnownInv, RulesetsGood, DomainsGood, References, RulesGood,
         ThreadsGood
<1>2. ASSUME GrowInv, [Next]_vars PROVE GrowInv' /\ [KnowledgeKept]_vars
  <2>1. ASSUME NEW event \in Events, Apply(event) PROVE GrowInv' /\ [KnowledgeKept]_vars
    <3>1. RulesetsGood /\ DomainsGood
      BY <1>2 DEF GrowInv, KnownInv
    <3>2. KnownInv'
      BY <1>2, <2>1, KnownStep DEF GrowInv
    <3>3. RulesGood' /\ RulesetsGrow
      BY <1>2, <2>1, <3>1, RulesetsGrowStep DEF GrowInv
    <3>4. ThreadsGood' /\ DomainsGrow
      BY <1>2, <2>1, <3>1, DomainsGrowStep DEF GrowInv
    <3>5. KnowledgeKept
      BY <3>3, <3>4 DEF KnowledgeKept, RulesetsGrow, DomainsGrow
    <3> QED
      BY <3>2, <3>3, <3>4, <3>5 DEF GrowInv
  <2>2. CASE UNCHANGED vars
    BY <1>2, <2>2 DEF vars, GrowInv, KnownInv, RulesetsGood, DomainsGood, References, Retained,
                      RulesGood, ThreadsGood
  <2> QED
    BY <1>2, <2>1, <2>2 DEF Next
<1> QED
  BY <1>1, <1>2, PTL DEF Spec, KnowledgeGrows
=============================================================================
