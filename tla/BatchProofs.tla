----------------------------- MODULE BatchProofs ------------------------------
(***************************************************************************)
(* Theorems about lltop's batch mode for every set of events, applied in   *)
(* any order and any number of times, and every capacity of the aggregator.*)
(***************************************************************************)
EXTENDS Batch, StateProofs, FiniteSetTheorems, SequenceTheorems, WellFoundedInduction

-----------------------------------------------------------------------------
(* Sorting.                                                                 *)

LEMMA SmallestId ==
  ASSUME NEW S, S \subseteq Nat, S # {}
  PROVE  \E n \in S : \A j \in S : n <= j
<1> DEFINE R == OpToRel(<, Nat)
<1>1. \A i, j \in Nat : i < j => <<i, j>> \in R
  BY DEF OpToRel
<1>2. IsWellFoundedOn(R, Nat)
  BY NatLessThanWellFounded
<1> HIDE DEF R
<1>3. PICK n \in S : \A j \in S : ~(<<j, n>> \in R)
  BY Zenon, <1>2, WFMin
<1>4. ASSUME NEW j \in S PROVE n <= j
  <2>1. n \in Nat /\ j \in Nat /\ ~(<<j, n>> \in R)
    BY <1>3
  <2>2. ~(j < n)
    BY <1>1, <2>1
  <2> QED
    BY <2>1, <2>2
<1> QED
  BY <1>4

\* Lists n numbers of S in ascending order.
Sorts(seq, n, S) == seq \in [1 .. n -> S] /\ \A i, j \in 1 .. n : i < j => seq[i] < seq[j]

\* Every finite set of IDs can be sorted: the smallest comes first, then the
\* others in the order a set with one less has.
LEMMA Sortable ==
  ASSUME NEW ids, ids \subseteq Nat, IsFiniteSet(ids)
  PROVE  \E seq : Sorts(seq, Cardinality(ids), ids)
<1> DEFINE Can(n) == \A S \in SUBSET Nat :
                       (IsFiniteSet(S) /\ Cardinality(S) = n) => \E seq : Sorts(seq, n, S)
           Bad == {n \in Nat : ~Can(n)}
<1>1. ASSUME Bad # {} PROVE FALSE
  <2>1. PICK n \in Bad : \A j \in Bad : n <= j
    BY ZenonT(30), <1>1, SmallestId
  <2>2. PICK S \in SUBSET Nat : /\ IsFiniteSet(S) /\ Cardinality(S) = n
                                /\ ~\E seq : Sorts(seq, n, S)
    BY <2>1
  <2>3. n \in Nat
    OBVIOUS
  <2>4. CASE n = 0
    <3>1. Sorts([i \in 1 .. 0 |-> 0], 0, S)
      BY DEF Sorts
    <3> QED
      BY <2>2, <2>4, <3>1
  <2>5. CASE n # 0
    <3>1. S # {}
      BY <2>2, <2>5, FS_EmptySet
    <3>2. PICK m \in S : \A j \in S : m <= j
      BY ZenonT(30), <3>1, SmallestId
    <3> DEFINE T == S \ {m}
    <3>3. T \in SUBSET Nat /\ IsFiniteSet(T) /\ Cardinality(T) = n - 1
      BY <2>2, FS_RemoveElement
    <3>4. n - 1 \in Nat /\ ~(n <= n - 1)
      BY <2>3, <2>5
    <3>5. Can(n - 1)
      BY <2>1, <3>4
    <3>6. PICK tail : Sorts(tail, n - 1, T)
      BY <3>3, <3>5
    <3> HIDE DEF Can, Bad
    <3> DEFINE seq == [i \in 1 .. n |-> IF i = 1 THEN m ELSE tail[i - 1]]
    <3>7. \A i \in 1 .. n : i # 1 => i - 1 \in 1 .. n - 1 /\ tail[i - 1] \in T
      BY <2>3, <3>6 DEF Sorts
    <3>8. \A i \in 1 .. n : seq[i] \in S
      BY <3>7
    <3>9. ASSUME NEW i \in 1 .. n, NEW j \in 1 .. n, i < j PROVE seq[i] < seq[j]
      <4>1. j # 1 /\ tail[j - 1] \in T /\ seq[j] = tail[j - 1] /\ j - 1 \in 1 .. n - 1
        BY <3>7, <3>9, <2>3
      <4>2. CASE i = 1
        <5>1. seq[i] = m /\ m <= tail[j - 1] /\ m # tail[j - 1] /\ m \in Nat /\ tail[j - 1] \in Nat
          BY ZenonT(30), <3>2, <4>1, <4>2
        <5> QED
          BY <4>1, <5>1
      <4>3. CASE i # 1
        <5>1. i - 1 \in 1 .. n - 1 /\ seq[i] = tail[i - 1] /\ i - 1 < j - 1
          BY <2>3, <3>7, <3>9, <4>3
        <5> QED
          BY <3>6, <4>1, <5>1 DEF Sorts
      <4> QED
        BY <4>2, <4>3
    <3>10. Sorts(seq, n, S)
      BY <3>8, <3>9 DEF Sorts
    <3> QED
      BY <2>2, <3>10
  <2> QED
    BY <2>4, <2>5
<1>2. Cardinality(ids) \in Nat
  BY FS_CardinalityType
<1>3. Can(Cardinality(ids))
  BY <1>1, <1>2
<1> QED
  BY <1>3

\* Ascending lists each of the IDs once.
LEMMA AscendingFacts ==
  ASSUME NEW ids, ids \subseteq Nat, IsFiniteSet(ids)
  PROVE  /\ Ascending(ids) \in [1 .. Cardinality(ids) -> ids] /\ Cardinality(ids) \in Nat
         /\ \A i, j \in 1 .. Cardinality(ids) : Ascending(ids)[i] = Ascending(ids)[j] => i = j
         /\ \A id \in ids : \E i \in 1 .. Cardinality(ids) : Ascending(ids)[i] = id
<1> DEFINE n == Cardinality(ids)
           seq == Ascending(ids)
<1>1. n \in Nat
  BY FS_CardinalityType
<1>2. \E s \in [1 .. n -> ids] : \A i, j \in 1 .. n : i < j => s[i] < s[j]
  BY Zenon, Sortable DEF Sorts
<1>3. seq \in [1 .. n -> ids] /\ \A i, j \in 1 .. n : i < j => seq[i] < seq[j]
  BY ZenonT(30), <1>2 DEF Ascending
<1> HIDE DEF seq, n
<1>4. ASSUME NEW i \in 1 .. n, NEW j \in 1 .. n, seq[i] = seq[j] PROVE i = j
  <2>1. seq[i] \in Nat /\ ~(i < j) /\ ~(j < i)
    <3>1. seq[i] \in Nat /\ seq[j] \in Nat
      BY ZenonT(30), <1>3
    <3> QED
      BY <1>3, <1>4, <3>1
  <2> QED
    BY <1>1, <2>1
<1> DEFINE image == {seq[i] : i \in 1 .. n}
<1>5. image \subseteq ids
  BY <1>3
<1>6. ExistsBijection(1 .. n, image)
  <2>1. seq \in [1 .. n -> image]
    BY <1>3
  <2>2. seq \in Bijection(1 .. n, image)
    BY <1>4, <2>1 DEF Bijection, Injection, Surjection, IsInjective
  <2> QED
    BY <2>2 DEF ExistsBijection
<1>7. IsFiniteSet(1 .. n) /\ Cardinality(1 .. n) = n
  BY <1>1, FS_Interval
<1>8. IsFiniteSet(image) /\ Cardinality(image) = n
  BY <1>6, <1>7, FS_Bijection
<1>9. image = ids
  BY <1>5, <1>8, FS_Subset DEF n
<1> QED
  BY <1>1, <1>3, <1>4, <1>9 DEF seq, n

-----------------------------------------------------------------------------
(* What an event changes of the state.                                      *)

LEMMA AffectedAre ==
  ASSUME NEW event
  PROVE  /\ event.variant = "CreateDomain" =>
              affected_domain_ids(event) = {event.domain_id} \cup ParentIds(event)
         /\ event.variant \in {"FreeDomain", "EnforceDomain"} =>
              affected_domain_ids(event) = {event.domain_id}
         /\ event.variant \in DenialVariants =>
              affected_domain_ids(event)
                = {event.domain_id} \cup (ParentIds(event) \cup OtherIds(event))
         /\ event.variant \notin DenialVariants
                 \cup {"CreateDomain", "FreeDomain", "EnforceDomain"} =>
              affected_domain_ids(event) = {}
<1>1. CASE event.variant = "CreateDomain"
  BY <1>1 DEF affected_domain_ids, DenialVariants
<1>2. CASE event.variant \in {"FreeDomain", "EnforceDomain"}
  BY <1>2 DEF affected_domain_ids, DenialVariants
<1>3. CASE event.variant \in DenialVariants
  BY <1>3 DEF affected_domain_ids, DenialVariants
<1>4. CASE event.variant \notin DenialVariants \cup {"CreateDomain", "FreeDomain", "EnforceDomain"}
  BY <1>4 DEF affected_domain_ids
<1> QED
  BY <1>1, <1>2, <1>3, <1>4

LEMMA AffectedIds ==
  ASSUME NEW event \in Events
  PROVE  /\ affected_domain_ids(event) \subseteq Nat
         /\ IsFiniteSet(affected_domain_ids(event))
<1>1. CASE event.variant = "CreateDomain"
  <2>1. affected_domain_ids(event) = {event.domain_id} \cup ParentIds(event)
    BY <1>1, AffectedAre
  <2>2. ParentIds(event) \subseteq Nat /\ IsFiniteSet(ParentIds(event)) /\ event.domain_id \in Nat
    BY ZenonT(30), <1>1, DomainIdsAssumption, FS_EmptySet, FS_Singleton DEF ParentIds
  <2>3. IsFiniteSet({event.domain_id})
    BY Zenon, FS_Singleton
  <2> QED
    BY ZenonT(30), <2>1, <2>2, <2>3, FS_Union
<1>2. CASE event.variant \in {"FreeDomain", "EnforceDomain"}
  <2>1. affected_domain_ids(event) = {event.domain_id}
    BY <1>2, AffectedAre
  <2> QED
    BY ZenonT(30), <1>2, <2>1, DomainIdsAssumption, FS_Singleton
<1>3. CASE event.variant \in DenialVariants
  <2>1. affected_domain_ids(event) = {event.domain_id} \cup (ParentIds(event) \cup OtherIds(event))
    BY <1>3, AffectedAre
  <2>2. ParentIds(event) \subseteq Nat /\ IsFiniteSet(ParentIds(event)) /\ event.domain_id \in Nat
    BY ZenonT(30), <1>3, DomainIdsAssumption, FS_EmptySet, FS_Singleton DEF ParentIds
  <2>3. OtherIds(event) \subseteq Nat /\ IsFiniteSet(OtherIds(event))
    BY ZenonT(30), <1>3, DomainIdsAssumption, FS_EmptySet, FS_Singleton DEF OtherIds
  <2>4. IsFiniteSet(ParentIds(event) \cup OtherIds(event)) /\ IsFiniteSet({event.domain_id})
    BY ZenonT(30), <2>2, <2>3, FS_Singleton, FS_Union
  <2> QED
    BY ZenonT(30), <2>1, <2>2, <2>3, <2>4, FS_Union
<1>4. CASE event.variant \notin {"CreateDomain", "FreeDomain", "EnforceDomain"} \cup DenialVariants
  <2>1. affected_domain_ids(event) = {}
    BY <1>4, AffectedAre
  <2> QED
    BY <2>1, FS_EmptySet
<1> QED
  BY <1>1, <1>2, <1>3, <1>4

\* Only the domains that affected_domain_ids names are added or changed.
LEMMA AffectedOnly ==
  ASSUME NEW event \in Events, Apply(event)
  PROVE  /\ DOMAIN domains \subseteq DOMAIN domains'
         /\ DOMAIN domains' \subseteq DOMAIN domains \cup affected_domain_ids(event)
         /\ \A id \in DOMAIN domains : id \notin affected_domain_ids(event) =>
              domains'[id] = domains[id]
<1> DEFINE affected == affected_domain_ids(event)
<1>1. CASE CreateDomain(event)
  <2>1. affected = {event.domain_id} \cup ParentIds(event)
    BY <1>1, AffectedAre DEF CreateDomain
  <2> DEFINE materialized == Ensure(domains, ParentIds(event), NewDomain("Allocated"))
  <2>2. PICK s : domains' = Put(materialized, event.domain_id, s)
    BY <1>1 DEF CreateDomain
  <2>3. /\ DOMAIN materialized = DOMAIN domains \cup ParentIds(event)
        /\ \A id \in DOMAIN domains : materialized[id] = domains[id]
    BY DEF Ensure, Lookup
  <2> HIDE DEF materialized
  <2> DEFINE new == Put(materialized, event.domain_id, s)
  <2>4. /\ DOMAIN new = DOMAIN materialized \cup {event.domain_id}
        /\ \A id \in DOMAIN materialized : id # event.domain_id => new[id] = materialized[id]
    BY DEF Put
  <2> HIDE DEF new, affected
  <2>5. domains' = new
    BY <2>2 DEF new
  <2> QED
    BY <2>1, <2>3, <2>4, <2>5 DEF affected
<1>2. CASE ApplyDenial(event)
  <2>1. affected = {event.domain_id} \cup (ParentIds(event) \cup OtherIds(event))
    BY <1>2, AffectedAre DEF ApplyDenial
  <2>2. PICK s : domains' = Ensure(Put(domains, event.domain_id, s),
                                   ParentIds(event) \cup OtherIds(event), NewDomain("Allocated"))
    BY <1>2 DEF ApplyDenial
  <2> DEFINE denied == Put(domains, event.domain_id, s)
             others == ParentIds(event) \cup OtherIds(event)
             new == Ensure(denied, others, NewDomain("Allocated"))
  <2>3. /\ DOMAIN denied = DOMAIN domains \cup {event.domain_id}
        /\ \A id \in DOMAIN domains : id # event.domain_id => denied[id] = domains[id]
    BY DEF Put
  <2> HIDE DEF denied
  <2>4. /\ DOMAIN new = DOMAIN denied \cup others
        /\ \A id \in DOMAIN denied : new[id] = denied[id]
    BY DEF Ensure, Lookup
  <2> HIDE DEF new, affected
  <2>5. domains' = new
    BY <2>2 DEF new, denied
  <2> QED
    BY <2>1, <2>3, <2>4, <2>5 DEF affected
<1>3. CASE FreeDomain(event) \/ EnforceDomain(event)
  <2>1. affected = {event.domain_id}
    BY <1>3, AffectedAre DEF FreeDomain, EnforceDomain
  <2>2. PICK s : domains' = Put(domains, event.domain_id, s)
    BY <1>3 DEF FreeDomain, EnforceDomain
  <2> DEFINE new == Put(domains, event.domain_id, s)
  <2>3. /\ DOMAIN new = DOMAIN domains \cup {event.domain_id}
        /\ \A id \in DOMAIN domains : id # event.domain_id => new[id] = domains[id]
    BY DEF Put
  <2> HIDE DEF new, affected
  <2>4. domains' = new
    BY <2>2 DEF new
  <2> QED
    BY <2>1, <2>3, <2>4 DEF affected
<1>4. CASE UNCHANGED domains
  BY <1>4
<1> QED
  BY <1>1, <1>2, <1>3, <1>4
  DEF Apply, CreateRuleset, AddRulePathBeneath, AddRuleNetPort, FreeRuleset

\* The lifecycle and the final version of a ruleset change only when it is freed.
LEMMA FreedOnly ==
  ASSUME RulesetsGood, NEW event \in Events, Apply(event)
  PROVE  /\ \A r \in DOMAIN rulesets :
              /\ r \in DOMAIN rulesets'
              /\ (event.variant = "FreeRuleset" /\ event.ruleset_id = r)
                   \/ (/\ rulesets'[r].lifecycle = rulesets[r].lifecycle
                       /\ rulesets'[r].final_version = rulesets[r].final_version)
         /\ \A r \in DOMAIN rulesets' \ DOMAIN rulesets :
              \/ event.variant = "FreeRuleset" /\ event.ruleset_id = r
              \/ rulesets'[r].lifecycle = "Allocated"
         /\ event.variant = "FreeRuleset" =>
              /\ event.ruleset_id \in DOMAIN rulesets'
              /\ rulesets'[event.ruleset_id].lifecycle = "Deallocated"
<1> DEFINE id == event.ruleset_id
           used == UsedRuleset(event)
           Uses == {"CreateRuleset", "AddRulePathBeneath", "AddRuleNetPort", "CreateDomain"}
\* What a use puts in the place of a ruleset.
<1>1. ASSUME event.variant \in Uses
      PROVE  /\ \E V : used \in RulesetState(V)
             /\ id \in DOMAIN rulesets =>
                  /\ used.lifecycle = rulesets[id].lifecycle
                  /\ used.final_version = rulesets[id].final_version
             /\ id \notin DOMAIN rulesets => used.lifecycle = "Allocated"
  <2>0. event.ruleset_version \in Nat
    BY <1>1, EventsAssumption
  <2> DEFINE s == Lookup(rulesets, id, NewRuleset("Allocated", event.ruleset_version))
  <2>1. RulesetGood(s)
    BY <2>0, NewRulesetGood DEF Lookup, RulesetsGood
  <2>2. PICK V : s \in RulesetState(V)
    BY <2>1 DEF RulesetGood
  <2>3. used = update_version(mark_allocated(s), event.ruleset_version)
    BY DEF UsedRuleset
  <2>4. /\ id \in DOMAIN rulesets => s = rulesets[id]
        /\ id \notin DOMAIN rulesets => s.lifecycle = "Allocated"
    BY DEF Lookup, NewRuleset
  <2> HIDE DEF s
  <2>5. mark_allocated(s) = s
    BY <2>2 DEF mark_allocated, RulesetState
  <2>6. used = [s EXCEPT !.max_observed_version = Max2(s.max_observed_version, event.ruleset_version)]
    BY <2>3, <2>5 DEF update_version
  <2>7. Max2(s.max_observed_version, event.ruleset_version) \in Nat
    BY <2>0, <2>2 DEF RulesetState, Max2
  <2> HIDE DEF used
  <2>8. used \in RulesetState(V) /\ used.lifecycle = s.lifecycle /\ used.final_version = s.final_version
    BY <2>2, <2>6, <2>7 DEF RulesetState
  <2> QED
    BY <2>4, <2>8
<1>2. ASSUME NEW s, rulesets' = Put(rulesets, id, s)
      PROVE  /\ DOMAIN rulesets' = DOMAIN rulesets \cup {id}
             /\ rulesets'[id] = s
             /\ \A r \in DOMAIN rulesets : r # id => rulesets'[r] = rulesets[r]
  <2> DEFINE new == Put(rulesets, id, s)
  <2>1. /\ DOMAIN new = DOMAIN rulesets \cup {id}
        /\ new[id] = s
        /\ \A r \in DOMAIN rulesets : r # id => new[r] = rulesets[r]
    BY DEF Put
  <2>2. rulesets' = new
    BY <1>2
  <2> HIDE DEF new
  <2> QED
    BY <2>1, <2>2
<1>3. CASE event.variant \in Uses
  <2>0. PICK V : used \in RulesetState(V)
    BY <1>1, <1>3
  <2>1. \E s : /\ rulesets' = Put(rulesets, id, s)
               /\ s.lifecycle = used.lifecycle /\ s.final_version = used.final_version
    <3>1. CASE CreateRuleset(event)
      <4> DEFINE created == [used EXCEPT !.creation_timestamp = event.timestamp,
                                         !.handled = event.handled]
      <4>1. rulesets' = Put(rulesets, id, created) \/ rulesets' = Put(rulesets, id, used)
        BY <3>1 DEF CreateRuleset
      <4> HIDE DEF used
      <4>2. created.lifecycle = used.lifecycle /\ created.final_version = used.final_version
        BY <2>0 DEF RulesetState
      <4> HIDE DEF created
      <4> QED
        BY <4>1, <4>2
    <3>2. CASE AddRulePathBeneath(event)
      <4>1. PICK rules : rulesets' = Put(rulesets, id, [used EXCEPT !.filesystem_rules = rules])
        BY <3>2 DEF AddRulePathBeneath
      <4> DEFINE s == [used EXCEPT !.filesystem_rules = rules]
      <4> HIDE DEF used
      <4>2. s.lifecycle = used.lifecycle /\ s.final_version = used.final_version
        BY <2>0 DEF RulesetState
      <4> HIDE DEF s
      <4> QED
        BY Zenon, <4>1, <4>2 DEF s
    <3>3. CASE AddRuleNetPort(event)
      <4>1. PICK rules : rulesets' = Put(rulesets, id, [used EXCEPT !.network_rules = rules])
        BY Zenon, <3>3 DEF AddRuleNetPort
      <4> DEFINE s == [used EXCEPT !.network_rules = rules]
      <4> HIDE DEF used
      <4>2. s.lifecycle = used.lifecycle /\ s.final_version = used.final_version
        BY <2>0 DEF RulesetState
      <4> HIDE DEF s
      <4> QED
        BY Zenon, <4>1, <4>2 DEF s
    <3>4. CASE CreateDomain(event)
      BY <3>4 DEF CreateDomain
    <3> QED
      BY <1>3, <3>1, <3>2, <3>3, <3>4
      DEF Apply, ApplyDenial, DenialVariants, FreeDomain, FreeRuleset, EnforceDomain
  <2>2. PICK s : /\ rulesets' = Put(rulesets, id, s)
                 /\ s.lifecycle = used.lifecycle /\ s.final_version = used.final_version
    BY <2>1
  <2> HIDE DEF used
  <2>3. event.variant # "FreeRuleset"
    BY <1>3
  <2> QED
    BY <1>1, <1>2, <1>3, <2>2, <2>3
<1>4. CASE FreeRuleset(event)
  <2>0. event.ruleset_version \in Nat /\ event.variant = "FreeRuleset"
    BY <1>4, EventsAssumption DEF FreeRuleset
  <2> DEFINE old == Lookup(rulesets, id, NewRuleset("Deallocated", event.ruleset_version))
  <2>1. PICK V : old \in RulesetState(V)
    <3>1. NewRuleset("Deallocated", event.ruleset_version) \in RulesetState({None, EmptyMap})
      BY <2>0 DEF NewRuleset, RulesetState, Option
    <3> QED
      BY <3>1 DEF Lookup, RulesetsGood, RulesetGood
  <2>2. PICK time, final :
          rulesets' = Put(rulesets, id,
            update_version([old EXCEPT !.lifecycle = "Deallocated", !.free_timestamp = time,
                                       !.final_version = final], event.ruleset_version))
    BY ZenonT(30), <1>4 DEF FreeRuleset
  <2> HIDE DEF old
  <2> DEFINE freed == [old EXCEPT !.lifecycle = "Deallocated", !.free_timestamp = time,
                                  !.final_version = final]
             s == update_version(freed, event.ruleset_version)
  <2>3. /\ freed.lifecycle = "Deallocated" /\ DOMAIN freed = DOMAIN old
        /\ "lifecycle" \in DOMAIN old
    BY <2>1 DEF RulesetState
  <2> HIDE DEF freed
  <2>4. s.lifecycle = "Deallocated"
    BY <2>3 DEF update_version
  <2>5. rulesets' = Put(rulesets, id, s)
    BY <2>2 DEF freed
  <2> HIDE DEF s
  <2> QED
    BY <1>2, <2>0, <2>4, <2>5
<1>5. CASE ApplyDenial(event) \/ FreeDomain(event) \/ EnforceDomain(event)
  BY <1>5 DEF ApplyDenial, DenialVariants, FreeDomain, EnforceDomain
<1> QED
  BY <1>3, <1>4, <1>5
  DEF Apply, CreateRuleset, AddRulePathBeneath, AddRuleNetPort, CreateDomain

-----------------------------------------------------------------------------
(* The number of allocated domains.                                         *)

LEMMA CountDifference ==
  ASSUME NEW A, IsFiniteSet(A), NEW F, F \subseteq A, NEW N, IsFiniteSet(N), N \cap A = {}
  PROVE  /\ IsFiniteSet((A \ F) \cup N)
         /\ Cardinality((A \ F) \cup N) = Monus(Cardinality(A), Cardinality(F)) + Cardinality(N)
<1> DEFINE a == Cardinality(A)
           f == Cardinality(F)
           n == Cardinality(N)
           sum == Cardinality((A \ F) \cup N)
<1>1. /\ IsFiniteSet(F) /\ f <= a
      /\ a \in Nat /\ f \in Nat /\ n \in Nat
  BY FS_Subset, FS_CardinalityType
<1>2. IsFiniteSet(A \ F) /\ Cardinality(A \ F) = Cardinality(A) - Cardinality(A \cap F)
  BY ZenonT(30), FS_Difference
<1>3. A \cap F = F /\ (A \ F) \cap N = {}
  OBVIOUS
<1>4. Cardinality((A \ F) \cap N) = 0
  BY <1>3, FS_EmptySet
<1>5. /\ IsFiniteSet((A \ F) \cup N)
      /\ Cardinality((A \ F) \cup N)
           = Cardinality(A \ F) + Cardinality(N) - Cardinality((A \ F) \cap N)
  BY <1>2, FS_Union
<1>6. Cardinality(A \ F) = a - f
  BY <1>2, <1>3
<1>7. sum = Cardinality(A \ F) + n - 0
  BY <1>4, <1>5
<1> HIDE DEF a, f, n, sum
<1>8. sum = Monus(a, f) + n
  BY <1>1, <1>6, <1>7 DEF Monus
<1> QED
  BY <1>5, <1>8 DEF a, f, n, sum

Alive(map) == {id \in DOMAIN map : Allocated(map, id)}

Counted ==
  /\ IsFiniteSet(DOMAIN domains)
  /\ allocated_domains = Cardinality(Alive(domains))

LEMMA CountStep ==
  ASSUME Counted, NEW event \in Events, Apply(event), UpdateAllocated(event)
  PROVE  Counted'
<1> DEFINE affected == affected_domain_ids(event)
           A == Alive(domains)
           F == NewlyFreed(event)
           N == NewlyAllocated(event)
<1>1. /\ DOMAIN domains \subseteq DOMAIN domains'
      /\ DOMAIN domains' \subseteq DOMAIN domains \cup affected
      /\ \A id \in DOMAIN domains : id \notin affected => domains'[id] = domains[id]
      /\ IsFiniteSet(affected)
  BY AffectedOnly, AffectedIds
<1>2. IsFiniteSet(DOMAIN domains')
  <2>1. IsFiniteSet(DOMAIN domains \cup affected)
    BY ZenonT(30), <1>1, FS_Union DEF Counted
  <2> QED
    BY <1>1, <2>1, FS_Subset
<1>3. F \subseteq A /\ N \cap A = {} /\ N \subseteq affected
  BY DEF NewlyFreed, NewlyAllocated, Alive, Allocated
<1>4. Alive(domains') = (A \ F) \cup N
  <2>1. ASSUME NEW id \in Alive(domains') PROVE id \in (A \ F) \cup N
    BY <1>1, <2>1 DEF Alive, Allocated, NewlyFreed, NewlyAllocated
  <2>2. ASSUME NEW id \in (A \ F) \cup N PROVE id \in Alive(domains')
    BY <1>1, <2>2 DEF Alive, Allocated, NewlyFreed, NewlyAllocated
  <2> QED
    BY <2>1, <2>2
<1>5. IsFiniteSet(A) /\ IsFiniteSet(N)
  <2>1. A \subseteq DOMAIN domains
    BY DEF Alive
  <2> QED
    BY <1>1, <1>3, <2>1, FS_Subset DEF Counted
<1>6. allocated_domains' = Monus(Cardinality(A), Cardinality(F)) + Cardinality(N)
  BY DEF Counted, UpdateAllocated
<1> HIDE DEF A, F, N
<1>7. Cardinality((A \ F) \cup N) = Monus(Cardinality(A), Cardinality(F)) + Cardinality(N)
  BY <1>3, <1>5, CountDifference
<1>8. allocated_domains' = Cardinality(Alive(domains'))
  BY <1>4, <1>6, <1>7
<1> QED
  BY <1>2, <1>8 DEF Counted

LEMMA CountedAlways == BatchSpec => []Counted
<1>1. BatchInit => Counted
  <2> SUFFICES ASSUME BatchInit PROVE Counted
    OBVIOUS
  <2>1. domains = EmptyMap /\ allocated_domains = 0
    BY DEF BatchInit, Init
  <2>2. DOMAIN domains = {} /\ Alive(domains) = {}
    BY <2>1 DEF EmptyMap, Alive
  <2> QED
    BY <2>1, <2>2, FS_EmptySet DEF Counted
<1>2. Counted /\ [BatchNext]_all_vars => Counted'
  <2> SUFFICES ASSUME Counted, [BatchNext]_all_vars PROVE Counted'
    OBVIOUS
  <2>1. CASE ReceiveEvent
    BY <2>1, CountStep DEF ReceiveEvent, Process
  <2>2. CASE UNCHANGED <<domains, allocated_domains>>
    BY <2>2 DEF Counted
  <2> QED
    BY <2>1, <2>2
    DEF BatchNext, Ready, ReceiveError, WriteRecord, Flush, WriteFails, quiet, vars, all_vars, batch_vars
<1> QED
  BY <1>1, <1>2, PTL DEF BatchSpec

\* The counter that `process` keeps by differences is the number of allocated
\* domains, for every order, repetition and loss of events.
THEOREM AllocatedAlwaysCounted == BatchSpec => []AllocatedCounted
<1>1. Counted => AllocatedCounted
  BY DEF Counted, AllocatedCounted, Alive
<1> QED
  BY <1>1, CountedAlways, PTL

-----------------------------------------------------------------------------
(* The waiting lines and what a reader knows.                               *)

DomainLine(id) == format_domain(id, domains[id])

Freed == {r \in DOMAIN rulesets : rulesets[r].lifecycle = "Deallocated"}

CurrentStats ==
  format_stats(allocated_domains, Cardinality(DOMAIN domains), total_denials, denials)

\* A line about the object is among the lines.
DomainWaits(lines, id) == \E line \in Range(lines) : line.record = "DOMAIN" /\ line.domain = id
DropWaits(lines, r) ==
  \E line \in Range(lines) : line.record = "DROP_RULESET" /\ line.ruleset = r
DenialWaits(lines, kind) == \E line \in Range(lines) : line.record = "DENIAL" /\ line.kind = kind

\* No two lines are about the same object.
SameObject(a, b) == a.record = b.record /\ (a.record = "DOMAIN" => a.domain = b.domain)

Distinct(lines) == \A i, j \in DOMAIN lines : SameObject(lines[i], lines[j]) => i = j

\* The line says what is current.
LineCurrent(line) ==
  /\ line.record \in {"DOMAIN", "DROP_RULESET", "DENIAL", "STATS"}
  /\ line.record = "DOMAIN" => line.domain \in DOMAIN domains /\ line = DomainLine(line.domain)
  /\ line.record = "DROP_RULESET" =>
       line.ruleset \in Freed /\ line.version = rulesets[line.ruleset].final_version
  /\ line.record = "DENIAL" => line.kind \in DenialVariants
  /\ line.record = "STATS" => line = CurrentStats

StatsLast(lines) == \A i \in DOMAIN lines : lines[i].record = "STATS" <=> i = Len(lines)

ViewTyped ==
  /\ \E U : view \in [domains : U, dropped : U, denials : U, stats : U]
  /\ view.domains = [id \in DOMAIN view.domains |-> view.domains[id]]
  /\ view.dropped = [r \in DOMAIN view.dropped |-> view.dropped[r]]
  /\ view.denials = [kind \in DenialVariants |-> view.denials[kind]]
  /\ denials = [kind \in DenialVariants |-> denials[kind]]

\* A reader knows everything but what the waiting lines are about.
DomainsTold ==
  /\ DOMAIN view.domains \subseteq DOMAIN domains
  /\ \A id \in DOMAIN domains :
       Told(view.domains, id, DomainLine(id)) <=> ~DomainWaits(records, id)

DropsTold ==
  /\ DOMAIN view.dropped \subseteq Freed
  /\ \A r \in Freed : Told(view.dropped, r, rulesets[r].final_version) <=> ~DropWaits(records, r)

DenialsTold ==
  \A kind \in DenialVariants :
    denials[kind] = IF DenialWaits(records, kind)
                    THEN Denials!SaturatingAdd1(view.denials[kind], MaxCount)
                    ELSE view.denials[kind]

StatsTold == records = <<>> => view.stats = CurrentStats

\* The entries of the aggregator hold their latest event.
EntriesShaped == \A key \in DOMAIN entries : "latest_event" \in DOMAIN entries[key]

ReaderInv ==
  /\ KnownInv /\ EntriesShaped /\ ViewTyped
  /\ records \in Seq(Range(records)) /\ Distinct(records) /\ StatsLast(records)
  /\ \A line \in Range(records) : LineCurrent(line)
  /\ mode \in {"starting", "receiving"} => records = <<>>
  /\ DomainsTold /\ DropsTold /\ DenialsTold /\ StatsTold

LEMMA NoLine ==
  /\ <<>> \in Seq(Range(<<>>)) /\ Range(<<>>) = {} /\ Distinct(<<>>)
  /\ \A x : ~DomainWaits(<<>>, x) /\ ~DropWaits(<<>>, x) /\ ~DenialWaits(<<>>, x)
  BY DEF Range, Distinct, DomainWaits, DropWaits, DenialWaits

LEMMA OneLine ==
  ASSUME NEW line
  PROVE  /\ <<line>> \in Seq(Range(<<line>>)) /\ Range(<<line>>) = {line} /\ Distinct(<<line>>)
         /\ \A x : /\ DomainWaits(<<line>>, x) <=> line.record = "DOMAIN" /\ line.domain = x
                   /\ DropWaits(<<line>>, x) <=> line.record = "DROP_RULESET" /\ line.ruleset = x
                   /\ DenialWaits(<<line>>, x) <=> line.record = "DENIAL" /\ line.kind = x
<1> DEFINE one == <<line>>
<1>1. DOMAIN one = {1} /\ one[1] = line /\ one \in Seq({line})
  OBVIOUS
<1> HIDE DEF one
<1>2. Range(one) = {line}
  BY <1>1 DEF Range
<1>3. Distinct(one)
  BY <1>1 DEF Distinct
<1>4. \A x : /\ DomainWaits(one, x) <=> line.record = "DOMAIN" /\ line.domain = x
             /\ DropWaits(one, x) <=> line.record = "DROP_RULESET" /\ line.ruleset = x
             /\ DenialWaits(one, x) <=> line.record = "DENIAL" /\ line.kind = x
  BY <1>2 DEF DomainWaits, DropWaits, DenialWaits
<1> QED
  BY <1>1, <1>2, <1>3, <1>4 DEF one

LEMMA JoinedPlaces ==
  ASSUME NEW s, NEW t, s \in Seq(Range(s)), t \in Seq(Range(t))
  PROVE  /\ s \o t \in Seq(Range(s \o t))
         /\ Len(s \o t) = Len(s) + Len(t)
         /\ \A i \in DOMAIN s : i \in DOMAIN (s \o t) /\ (s \o t)[i] = s[i]
         /\ \A i \in DOMAIN t : i + Len(s) \in DOMAIN (s \o t) /\ (s \o t)[i + Len(s)] = t[i]
         /\ \A i \in DOMAIN (s \o t) :
              \/ i \in DOMAIN s
              \/ i - Len(s) \in DOMAIN t /\ i = (i - Len(s)) + Len(s)
<1> DEFINE S == Range(s) \cup Range(t)
           j == s \o t
<1>1. s \in Seq(S) /\ t \in Seq(S)
  OBVIOUS
<1>2. /\ j \in Seq(S) /\ Len(j) = Len(s) + Len(t)
      /\ \A i \in 1 .. Len(s) + Len(t) : j[i] = IF i <= Len(s) THEN s[i] ELSE t[i - Len(s)]
  BY <1>1, ConcatProperties
<1>3. j \in Seq(Range(j))
  BY ZenonT(30), <1>2, SeqOfRange
<1>4. /\ Len(s) \in Nat /\ Len(t) \in Nat
      /\ DOMAIN s = 1 .. Len(s) /\ DOMAIN t = 1 .. Len(t) /\ DOMAIN j = 1 .. Len(s) + Len(t)
  BY <1>2
<1> DEFINE m == Len(s)
           n == Len(t)
<1> HIDE DEF j, m, n
<1>5. /\ m \in Nat /\ n \in Nat
      /\ DOMAIN s = 1 .. m /\ DOMAIN t = 1 .. n /\ DOMAIN j = 1 .. m + n
      /\ \A i \in 1 .. m + n : j[i] = IF i <= m THEN s[i] ELSE t[i - m]
  BY <1>2, <1>4 DEF m, n
<1>6. \A i \in DOMAIN s : i \in DOMAIN j /\ j[i] = s[i]
  BY <1>5
<1>7. ASSUME NEW i \in DOMAIN t PROVE i + m \in DOMAIN j /\ j[i + m] = t[i]
  <2>1. i + m \in 1 .. m + n /\ ~(i + m <= m) /\ (i + m) - m = i
    BY <1>5
  <2> QED
    BY <1>5, <2>1
<1>8. \A i \in DOMAIN j : i \in DOMAIN s \/ (i - m \in DOMAIN t /\ i = (i - m) + m)
  BY <1>5
<1> QED
  BY <1>2, <1>3, <1>6, <1>7, <1>8 DEF j, m

\* Lists of lines of different kinds, one after the other.
LEMMA Joined ==
  ASSUME NEW s, NEW t, s \in Seq(Range(s)), t \in Seq(Range(t)), Distinct(s), Distinct(t),
         \A a \in Range(s), b \in Range(t) : a.record # b.record
  PROVE  /\ s \o t \in Seq(Range(s \o t)) /\ Range(s \o t) = Range(s) \cup Range(t)
         /\ Distinct(s \o t)
         /\ \A x : /\ DomainWaits(s \o t, x) <=> DomainWaits(s, x) \/ DomainWaits(t, x)
                   /\ DropWaits(s \o t, x) <=> DropWaits(s, x) \/ DropWaits(t, x)
                   /\ DenialWaits(s \o t, x) <=> DenialWaits(s, x) \/ DenialWaits(t, x)
<1> DEFINE j == s \o t
           m == Len(s)
<1>1. /\ j \in Seq(Range(j))
      /\ \A i \in DOMAIN s : i \in DOMAIN j /\ j[i] = s[i]
      /\ \A i \in DOMAIN t : i + m \in DOMAIN j /\ j[i + m] = t[i]
      /\ \A i \in DOMAIN j : i \in DOMAIN s \/ (i - m \in DOMAIN t /\ i = (i - m) + m)
  BY JoinedPlaces
<1> HIDE DEF j, m
<1>2. \A i \in DOMAIN j : \/ i \in DOMAIN s /\ j[i] = s[i]
                          \/ \E k \in DOMAIN t : i = k + m /\ j[i] = t[k]
  BY <1>1
<1>3. Range(j) = Range(s) \cup Range(t)
  BY <1>1, <1>2 DEF Range
<1>4. ASSUME NEW x
      PROVE  /\ DomainWaits(j, x) <=> DomainWaits(s, x) \/ DomainWaits(t, x)
             /\ DropWaits(j, x) <=> DropWaits(s, x) \/ DropWaits(t, x)
             /\ DenialWaits(j, x) <=> DenialWaits(s, x) \/ DenialWaits(t, x)
  <2>1. DomainWaits(j, x) <=> DomainWaits(s, x) \/ DomainWaits(t, x)
    BY <1>3 DEF DomainWaits
  <2>2. DropWaits(j, x) <=> DropWaits(s, x) \/ DropWaits(t, x)
    BY <1>3 DEF DropWaits
  <2>3. DenialWaits(j, x) <=> DenialWaits(s, x) \/ DenialWaits(t, x)
    BY <1>3 DEF DenialWaits
  <2> QED
    BY <2>1, <2>2, <2>3
<1>5. Distinct(j)
  <2> SUFFICES ASSUME NEW i \in DOMAIN j, NEW k \in DOMAIN j, SameObject(j[i], j[k]) PROVE i = k
    BY DEF Distinct
  <2>0. j[i].record = j[k].record
    BY DEF SameObject
  <2>1. CASE i \in DOMAIN s /\ k \in DOMAIN s
    BY <1>1, <2>1 DEF Distinct
  <2>2. CASE i \notin DOMAIN s /\ k \notin DOMAIN s
    BY <1>2, <2>2 DEF Distinct
  <2>3. \A l \in DOMAIN j : IF l \in DOMAIN s THEN j[l] \in Range(s) ELSE j[l] \in Range(t)
    <3>1. ASSUME NEW l \in DOMAIN j, l \in DOMAIN s PROVE j[l] \in Range(s)
      BY <1>1, <3>1 DEF Range
    <3>2. ASSUME NEW l \in DOMAIN j, l \notin DOMAIN s PROVE j[l] \in Range(t)
      BY <1>2, <3>2 DEF Range
    <3> QED
      BY <3>1, <3>2
  <2>4. CASE (i \in DOMAIN s /\ k \notin DOMAIN s) \/ (i \notin DOMAIN s /\ k \in DOMAIN s)
    BY <2>0, <2>3, <2>4
  <2> QED
    BY <2>1, <2>2, <2>4
<1> QED
  BY <1>1, <1>3, <1>4, <1>5 DEF j

\* The lines that are left when the first one is written.
LEMMA TailLines ==
  ASSUME NEW lines, lines \in Seq(Range(lines)), lines # <<>>, Distinct(lines), StatsLast(lines)
  PROVE  LET rest == Tail(lines)  line == Head(lines)
         IN /\ rest \in Seq(Range(rest)) /\ Range(rest) \subseteq Range(lines)
            /\ Distinct(rest) /\ StatsLast(rest)
            /\ line \in Range(lines) /\ (rest = <<>> => line.record = "STATS")
            /\ \A x : /\ DomainWaits(rest, x) <=>
                            DomainWaits(lines, x) /\ ~(line.record = "DOMAIN" /\ line.domain = x)
                      /\ DropWaits(rest, x) <=>
                           DropWaits(lines, x) /\ line.record # "DROP_RULESET"
                      /\ DenialWaits(rest, x) <=>
                           DenialWaits(lines, x) /\ line.record # "DENIAL"
                      /\ line.record = "DOMAIN" => DomainWaits(lines, line.domain)
                      /\ line.record = "DROP_RULESET" =>
                           (DropWaits(lines, x) <=> x = line.ruleset)
                      /\ line.record = "DENIAL" => (DenialWaits(lines, x) <=> x = line.kind)
<1> DEFINE rest == Tail(lines)
           line == Head(lines)
           n == Len(lines)
<1>1. /\ n \in Nat /\ n # 0 /\ DOMAIN lines = 1 .. n /\ line = lines[1]
      /\ rest \in Seq(Range(lines)) /\ Len(rest) = n - 1
      /\ \A i \in 1 .. n - 1 : rest[i] = lines[i + 1]
  BY HeadTailProperties
<1>2. rest \in Seq(Range(rest))
  BY ZenonT(30), <1>1, SeqOfRange
<1> HIDE DEF rest, line, n
<1>0. DOMAIN rest = 1 .. n - 1
  BY <1>1
<1>3. /\ \A i \in DOMAIN rest : i + 1 \in DOMAIN lines /\ i + 1 # 1 /\ rest[i] = lines[i + 1]
      /\ \A i \in DOMAIN lines : i # 1 => i - 1 \in DOMAIN rest /\ rest[i - 1] = lines[i]
      /\ 1 \in DOMAIN lines
  BY <1>0, <1>1
<1>4. Range(rest) \subseteq Range(lines) /\ line \in Range(lines)
  BY <1>1, <1>3 DEF Range
<1>5. Distinct(rest)
  <2> SUFFICES ASSUME NEW i \in DOMAIN rest, NEW k \in DOMAIN rest, SameObject(rest[i], rest[k])
               PROVE  i = k
    BY DEF Distinct
  <2>1. i + 1 = k + 1
    BY <1>3 DEF Distinct
  <2> QED
    BY <1>0, <1>1, <2>1
<1>6. StatsLast(rest)
  <2> SUFFICES ASSUME NEW i \in DOMAIN rest PROVE rest[i].record = "STATS" <=> i = Len(rest)
    BY DEF StatsLast
  <2>1. rest[i].record = "STATS" <=> i + 1 = n
    BY <1>3 DEF StatsLast, n
  <2> QED
    BY <1>0, <1>1, <2>1
<1>7. rest = <<>> => line.record = "STATS"
  <2>1. rest = <<>> => n = 1
    BY <1>1
  <2> QED
    BY <1>1, <1>3, <2>1 DEF StatsLast, n
<1>8. Range(lines) = Range(rest) \cup {line} /\ \A l \in Range(rest) : ~SameObject(l, line)
  <2>1. Range(lines) = Range(rest) \cup {line}
    <3>1. ASSUME NEW l \in Range(lines) PROVE l \in Range(rest) \cup {line}
      <4>1. PICK i \in DOMAIN lines : l = lines[i]
        BY DEF Range
      <4>2. CASE i = 1
        BY <1>1, <4>1, <4>2
      <4>3. CASE i # 1
        <5>1. i - 1 \in DOMAIN rest /\ l = rest[i - 1]
          BY <1>3, <4>1, <4>3
        <5> QED
          BY <5>1 DEF Range
      <4> QED
        BY <4>2, <4>3
    <3> QED
      BY <1>4, <3>1
  <2>2. \A i \in DOMAIN lines : SameObject(lines[i], line) => i = 1
    BY Zenon, <1>1, <1>3 DEF Distinct
  <2> QED
    BY ZenonT(30), <1>3, <2>1, <2>2 DEF Range
<1>9. ASSUME NEW x
      PROVE  /\ DomainWaits(rest, x) <=>
                  DomainWaits(lines, x) /\ ~(line.record = "DOMAIN" /\ line.domain = x)
             /\ line.record = "DOMAIN" => DomainWaits(lines, line.domain)
  BY <1>8 DEF DomainWaits, SameObject
<1>10. ASSUME NEW x
       PROVE  /\ DropWaits(rest, x) <=> DropWaits(lines, x) /\ line.record # "DROP_RULESET"
              /\ line.record = "DROP_RULESET" => (DropWaits(lines, x) <=> x = line.ruleset)
  BY <1>8 DEF DropWaits, SameObject
<1>11. ASSUME NEW x
       PROVE  /\ DenialWaits(rest, x) <=> DenialWaits(lines, x) /\ line.record # "DENIAL"
              /\ line.record = "DENIAL" => (DenialWaits(lines, x) <=> x = line.kind)
  BY <1>8 DEF DenialWaits, SameObject
<1> QED
  BY ZenonT(30), <1>2, <1>4, <1>5, <1>6, <1>7, <1>9, <1>10, <1>11 DEF rest, line

-----------------------------------------------------------------------------
(* Writing a line.                                                          *)

\* The same lines are current as long as the state stays as it is.
LEMMA SameState ==
  ASSUME UNCHANGED <<vars, entries, total_denials, denials, allocated_domains>>
  PROVE  /\ KnownInv' <=> KnownInv
         /\ EntriesShaped' <=> EntriesShaped
         /\ DOMAIN domains' = DOMAIN domains /\ Freed' = Freed /\ CurrentStats' = CurrentStats
         /\ \A line : LineCurrent(line)' <=> LineCurrent(line)
         /\ \A id : DomainLine(id)' = DomainLine(id)
<1>1. /\ rulesets' = rulesets /\ domains' = domains /\ entries' = entries
      /\ total_denials' = total_denials /\ denials' = denials
      /\ allocated_domains' = allocated_domains
  BY DEF vars
<1>2. Freed' = Freed /\ CurrentStats' = CurrentStats
  BY <1>1 DEF Freed, CurrentStats
<1>3. KnownInv' <=> KnownInv
  BY <1>1 DEF KnownInv, RulesetsGood, DomainsGood, References
<1>4. EntriesShaped' <=> EntriesShaped
  BY <1>1 DEF EntriesShaped
<1>5. \A id : DomainLine(id)' = DomainLine(id)
  BY <1>1 DEF DomainLine
<1>6. ASSUME NEW line PROVE LineCurrent(line)' <=> LineCurrent(line)
  BY <1>1, <1>2, <1>5 DEF LineCurrent
<1> QED
  BY <1>1, <1>2, <1>3, <1>4, <1>5, <1>6

LEMMA PutFacts ==
  ASSUME NEW map, NEW key, NEW value
  PROVE  /\ DOMAIN Put(map, key, value) = DOMAIN map \cup {key}
         /\ Put(map, key, value) = [k \in DOMAIN Put(map, key, value) |-> Put(map, key, value)[k]]
         /\ \A k, v : Told(Put(map, key, value), k, v) <=>
                        IF k = key THEN v = value ELSE Told(map, k, v)
  BY DEF Put, Told

\* What a line changes of what a reader knows.
LEMMA ShownFacts ==
  ASSUME ViewTyped, NEW line, LineCurrent(line), view' = Shown(line)
  PROVE  /\ \E U : view' \in [domains : U, dropped : U, denials : U, stats : U]
         /\ view'.domains = IF line.record = "DOMAIN" THEN Put(view.domains, line.domain, line)
                            ELSE view.domains
         /\ view'.dropped = IF line.record = "DROP_RULESET"
                            THEN Put(view.dropped, line.ruleset, line.version)
                            ELSE view.dropped
         /\ view'.denials = IF line.record = "DENIAL"
                            THEN [view.denials EXCEPT ![line.kind] =
                                    Denials!SaturatingAdd1(@, MaxCount)]
                            ELSE view.denials
         /\ view'.stats = IF line.record = "STATS" THEN line ELSE view.stats
<1>0. PICK U : view \in [domains : U, dropped : U, denials : U, stats : U]
  BY DEF ViewTyped
<1> DEFINE d == Put(view.domains, line.domain, line)
           r == Put(view.dropped, line.ruleset, line.version)
           n == [view.denials EXCEPT ![line.kind] = Denials!SaturatingAdd1(@, MaxCount)]
           W == U \cup {d, r, n, line}
<1>1. CASE line.record = "DOMAIN"
  <2>1. view' = [view EXCEPT !.domains = d]
    BY <1>1 DEF Shown
  <2> HIDE DEF d, r, n
  <2>2. /\ view' \in [domains : W, dropped : W, denials : W, stats : W]
        /\ view'.domains = d /\ view'.dropped = view.dropped /\ view'.denials = view.denials
        /\ view'.stats = view.stats
    BY <1>0, <2>1
  <2> QED
    BY ZenonT(30), <1>1, <2>2 DEF d
<1>2. CASE line.record = "DROP_RULESET"
  <2>1. view' = [view EXCEPT !.dropped = r]
    BY <1>2 DEF Shown
  <2> HIDE DEF d, r, n
  <2>2. /\ view' \in [domains : W, dropped : W, denials : W, stats : W]
        /\ view'.domains = view.domains /\ view'.dropped = r /\ view'.denials = view.denials
        /\ view'.stats = view.stats
    BY <1>0, <2>1
  <2> QED
    BY ZenonT(30), <1>2, <2>2 DEF r
<1>3. CASE line.record = "DENIAL"
  <2>1. view' = [view EXCEPT !.denials = n]
    BY <1>0, <1>3 DEF Shown
  <2> HIDE DEF d, r, n
  <2>2. /\ view' \in [domains : W, dropped : W, denials : W, stats : W]
        /\ view'.domains = view.domains /\ view'.dropped = view.dropped /\ view'.denials = n
        /\ view'.stats = view.stats
    BY <1>0, <2>1
  <2> QED
    BY ZenonT(30), <1>3, <2>2 DEF n
<1>4. CASE line.record = "STATS"
  <2>1. view' = [view EXCEPT !.stats = line]
    BY <1>4 DEF Shown
  <2> HIDE DEF d, r, n
  <2>2. /\ view' \in [domains : W, dropped : W, denials : W, stats : W]
        /\ view'.domains = view.domains /\ view'.dropped = view.dropped
        /\ view'.denials = view.denials /\ view'.stats = line
    BY <1>0, <2>1
  <2> QED
    BY ZenonT(30), <1>4, <2>2
<1> QED
  BY ZenonT(30), <1>1, <1>2, <1>3, <1>4 DEF LineCurrent

LEMMA WriteStep ==
  ASSUME ReaderInv, WriteRecord
  PROVE  ReaderInv'
<1> DEFINE line == Head(records)
           rest == Tail(records)
<1>1. /\ mode' = "writing" /\ records # <<>> /\ records' = rest /\ view' = Shown(line)
      /\ UNCHANGED <<vars, entries, total_denials, denials, allocated_domains>>
  BY DEF WriteRecord, quiet
<1>2. /\ rest \in Seq(Range(rest)) /\ Range(rest) \subseteq Range(records)
      /\ Distinct(rest) /\ StatsLast(rest)
      /\ line \in Range(records) /\ (rest = <<>> => line.record = "STATS")
      /\ \A x : /\ DomainWaits(rest, x) <=>
                     DomainWaits(records, x) /\ ~(line.record = "DOMAIN" /\ line.domain = x)
                /\ DropWaits(rest, x) <=>
                     DropWaits(records, x) /\ line.record # "DROP_RULESET"
                /\ DenialWaits(rest, x) <=>
                     DenialWaits(records, x) /\ line.record # "DENIAL"
                /\ line.record = "DOMAIN" => DomainWaits(records, line.domain)
                /\ line.record = "DROP_RULESET" =>
                     (DropWaits(records, x) <=> x = line.ruleset)
                /\ line.record = "DENIAL" => (DenialWaits(records, x) <=> x = line.kind)
  BY <1>1, TailLines DEF ReaderInv
<1> HIDE DEF line, rest
<1>3. LineCurrent(line)
  BY <1>2 DEF ReaderInv
<1>4. /\ KnownInv' /\ EntriesShaped'
      /\ DOMAIN domains' = DOMAIN domains /\ Freed' = Freed /\ CurrentStats' = CurrentStats
      /\ \A l : LineCurrent(l)' <=> LineCurrent(l)
      /\ \A id : DomainLine(id)' = DomainLine(id)
      /\ rulesets' = rulesets /\ denials' = denials
  BY <1>1, SameState DEF ReaderInv, vars
<1>5. /\ \E U : view' \in [domains : U, dropped : U, denials : U, stats : U]
      /\ view'.domains = IF line.record = "DOMAIN" THEN Put(view.domains, line.domain, line)
                         ELSE view.domains
      /\ view'.dropped = IF line.record = "DROP_RULESET"
                         THEN Put(view.dropped, line.ruleset, line.version)
                         ELSE view.dropped
      /\ view'.denials = IF line.record = "DENIAL"
                         THEN [view.denials EXCEPT ![line.kind] =
                                 Denials!SaturatingAdd1(@, MaxCount)]
                         ELSE view.denials
      /\ view'.stats = IF line.record = "STATS" THEN line ELSE view.stats
  BY <1>1, <1>3, ShownFacts DEF ReaderInv
<1>6. /\ view.domains = [id \in DOMAIN view.domains |-> view.domains[id]]
      /\ view.dropped = [r \in DOMAIN view.dropped |-> view.dropped[r]]
      /\ view.denials = [kind \in DenialVariants |-> view.denials[kind]]
      /\ denials = [kind \in DenialVariants |-> denials[kind]]
  BY DEF ReaderInv, ViewTyped
<1>7. /\ view'.domains = [id \in DOMAIN view'.domains |-> view'.domains[id]]
      /\ DOMAIN view'.domains = IF line.record = "DOMAIN" THEN DOMAIN view.domains \cup {line.domain}
                                ELSE DOMAIN view.domains
      /\ \A id, v : Told(view'.domains, id, v) <=>
                      IF line.record = "DOMAIN" /\ id = line.domain THEN v = line
                      ELSE Told(view.domains, id, v)
  <2>1. CASE line.record = "DOMAIN"
    <3> DEFINE new == Put(view.domains, line.domain, line)
    <3>1. view'.domains = new
      BY <1>5, <2>1
    <3>2. /\ DOMAIN new = DOMAIN view.domains \cup {line.domain}
          /\ new = [x \in DOMAIN new |-> new[x]]
          /\ \A x, y : Told(new, x, y) <=>
                         IF x = line.domain THEN y = line ELSE Told(view.domains, x, y)
      BY ZenonT(30), PutFacts
    <3> HIDE DEF new
    <3> QED
      BY <2>1, <3>1, <3>2
  <2>2. CASE line.record # "DOMAIN"
    BY <1>5, <1>6, <2>2
  <2> QED
    BY ZenonT(30), <2>1, <2>2
<1>8. /\ view'.dropped = [r \in DOMAIN view'.dropped |-> view'.dropped[r]]
      /\ DOMAIN view'.dropped = IF line.record = "DROP_RULESET"
                                THEN DOMAIN view.dropped \cup {line.ruleset}
                                ELSE DOMAIN view.dropped
      /\ \A r, v : Told(view'.dropped, r, v) <=>
                     IF line.record = "DROP_RULESET" /\ r = line.ruleset THEN v = line.version
                     ELSE Told(view.dropped, r, v)
  <2>1. CASE line.record = "DROP_RULESET"
    <3> DEFINE new == Put(view.dropped, line.ruleset, line.version)
    <3>1. view'.dropped = new
      BY <1>5, <2>1
    <3>2. /\ DOMAIN new = DOMAIN view.dropped \cup {line.ruleset}
          /\ new = [x \in DOMAIN new |-> new[x]]
          /\ \A x, y : Told(new, x, y) <=>
                         IF x = line.ruleset THEN y = line.version ELSE Told(view.dropped, x, y)
      BY ZenonT(30), PutFacts
    <3> HIDE DEF new
    <3> QED
      BY <2>1, <3>1, <3>2
  <2>2. CASE line.record # "DROP_RULESET"
    BY <1>5, <1>6, <2>2
  <2> QED
    BY <2>1, <2>2
<1>9. DomainsTold'
  <2>1. DOMAIN view'.domains \subseteq DOMAIN domains'
    BY ZenonT(30), <1>3, <1>4, <1>7 DEF ReaderInv, DomainsTold, LineCurrent
  <2>2. ASSUME NEW id \in DOMAIN domains
        PROVE  Told(view'.domains, id, DomainLine(id)) <=> ~DomainWaits(rest, id)
    <3>1. CASE line.record = "DOMAIN" /\ id = line.domain
      BY ZenonT(30), <1>2, <1>3, <1>7, <3>1 DEF LineCurrent
    <3>2. CASE ~(line.record = "DOMAIN" /\ id = line.domain)
      BY ZenonT(30), <1>2, <1>7, <3>2 DEF ReaderInv, DomainsTold
    <3> QED
      BY <3>1, <3>2
  <2> QED
    BY <1>1, <1>4, <2>1, <2>2 DEF DomainsTold
<1>10. DropsTold'
  <2>1. DOMAIN view'.dropped \subseteq Freed'
    BY ZenonT(30), <1>3, <1>4, <1>8 DEF ReaderInv, DropsTold, LineCurrent
  <2>2. ASSUME NEW r \in Freed
        PROVE  Told(view'.dropped, r, rulesets[r].final_version) <=> ~DropWaits(rest, r)
    <3>1. CASE line.record = "DROP_RULESET" /\ r = line.ruleset
      BY ZenonT(30), <1>2, <1>3, <1>8, <3>1 DEF LineCurrent
    <3>2. CASE ~(line.record = "DROP_RULESET" /\ r = line.ruleset)
      BY ZenonT(30), <1>2, <1>8, <3>2 DEF ReaderInv, DropsTold
    <3> QED
      BY ZenonT(30), <3>1, <3>2
  <2> QED
    BY ZenonT(30), <1>1, <1>4, <2>1, <2>2 DEF DropsTold
<1>11. /\ view'.denials = [kind \in DenialVariants |-> view'.denials[kind]]
       /\ DenialsTold'
  <2>1. CASE line.record = "DENIAL"
    <3>1. line.kind \in DenialVariants
      BY <1>3, <2>1 DEF LineCurrent
    <3> DEFINE old == view.denials
               new == [old EXCEPT ![line.kind] = Denials!SaturatingAdd1(@, MaxCount)]
    <3>2. view'.denials = new
      BY <1>5, <2>1
    <3>3. old = [kind \in DenialVariants |-> old[kind]]
      BY <1>6
    <3> HIDE DEF old
    <3>4. /\ new = [kind \in DenialVariants |-> new[kind]]
          /\ \A kind \in DenialVariants :
               new[kind] = IF kind = line.kind THEN Denials!SaturatingAdd1(old[kind], MaxCount)
                           ELSE old[kind]
      BY <3>1, <3>3
    <3> HIDE DEF new
    <3>5. ASSUME NEW kind \in DenialVariants
          PROVE  /\ ~DenialWaits(rest, kind)
                 /\ denials[kind] = new[kind]
      <4>1. denials[kind] = IF DenialWaits(records, kind)
                            THEN Denials!SaturatingAdd1(old[kind], MaxCount) ELSE old[kind]
        BY DEF ReaderInv, DenialsTold, old
      <4>2. /\ DenialWaits(records, kind) <=> kind = line.kind
            /\ ~DenialWaits(rest, kind)
        BY <1>2, <2>1
      <4> QED
        BY <3>4, <4>1, <4>2
    <3> QED
      BY <1>1, <1>4, <3>2, <3>4, <3>5 DEF DenialsTold
  <2>2. CASE line.record # "DENIAL"
    BY ZenonT(30), <1>1, <1>2, <1>4, <1>5, <1>6, <2>2 DEF ReaderInv, DenialsTold
  <2> QED
    BY <2>1, <2>2
<1>12. StatsTold'
  BY ZenonT(30), <1>1, <1>2, <1>3, <1>4, <1>5 DEF StatsTold, LineCurrent
<1>13. ViewTyped'
  BY ZenonT(30), <1>4, <1>5, <1>6, <1>7, <1>8, <1>11 DEF ViewTyped
<1>14. \A l \in Range(records') : LineCurrent(l)'
  BY ZenonT(30), <1>1, <1>2, <1>4 DEF ReaderInv
<1> QED
  BY ZenonT(30), <1>1, <1>2, <1>4, <1>9, <1>10, <1>11, <1>12, <1>13, <1>14 DEF ReaderInv

-----------------------------------------------------------------------------
(* The lines of an event.                                                   *)

\* The aggregator's entry of an observed denial holds it.
LEMMA EntryLatest ==
  ASSUME EntriesShaped, NEW event, Denials!Observe(event)
  PROVE  /\ EntriesShaped'
         /\ Denials!IsDenial(event) => entries'[Denials!DenialKey(event)].latest_event = event
<1> DEFINE key == Denials!DenialKey(event)
           new == Denials!NewEntry(event)
           now == Denials!Current
<1>1. \A k \in DOMAIN now : "latest_event" \in DOMAIN now[k]
  BY DEF EntriesShaped, Denials!Current, Denials!Compacted, Denials!Keys
<1>2. DOMAIN now = DOMAIN entries
  BY DEF Denials!Current, Denials!Compacted, Denials!Keys
<1>3. "latest_event" \in DOMAIN new /\ new.latest_event = event
  BY DEF Denials!NewEntry
<1>4. CASE Denials!Ignore(event)
  BY <1>4 DEF Denials!Ignore, EntriesShaped
<1>5. CASE Denials!Hit(event)
  <2> DEFINE hit == Denials!Refreshed(now[key], event)
             all == [now EXCEPT ![key] = hit]
  <2>1. entries' = all /\ key \in DOMAIN now
    BY <1>2, <1>5 DEF Denials!Hit, Denials!Keys
  <2>2. "latest_event" \in DOMAIN hit /\ hit.latest_event = event
    BY <1>1, <2>1 DEF Denials!Refreshed
  <2> HIDE DEF hit, now, key
  <2>3. /\ DOMAIN all = DOMAIN now /\ all[key] = hit
        /\ \A k \in DOMAIN now : k # key => all[k] = now[k]
    BY <2>1
  <2> HIDE DEF all
  <2> QED
    BY <1>1, <2>1, <2>2, <2>3 DEF EntriesShaped, key
<1>6. ASSUME NEW retained, retained \subseteq DOMAIN entries, Denials!Insert(event, retained)
      PROVE  EntriesShaped' /\ entries'[key].latest_event = event
  <2> DEFINE all == [k \in retained \cup {key} |-> IF k = key THEN new ELSE now[k]]
  <2>1. entries' = all
    BY <1>6 DEF Denials!Insert
  <2> HIDE DEF new, now, key
  <2>2. /\ DOMAIN all = retained \cup {key} /\ all[key] = new
        /\ \A k \in retained : k # key => all[k] = now[k]
    OBVIOUS
  <2> HIDE DEF all
  <2> QED
    BY <1>1, <1>2, <1>3, <1>6, <2>1, <2>2 DEF EntriesShaped
<1>7. CASE Denials!InsertWithRoom(event)
  BY <1>6, <1>7 DEF Denials!InsertWithRoom, Denials!Keys
<1>8. CASE Denials!InsertEvicting(event)
  BY <1>6, <1>8 DEF Denials!InsertEvicting, Denials!Keys
<1> QED
  BY <1>4, <1>5, <1>7, <1>8 DEF Denials!Observe, Denials!Ignore

\* The records of the domains, in the order of their IDs.
DomainLines(ids, map) ==
  [i \in DOMAIN Ascending(ids) |-> format_domain(Ascending(ids)[i], map[Ascending(ids)[i]])]

LEMMA DomainLinesFacts ==
  ASSUME NEW ids, ids \subseteq Nat, IsFiniteSet(ids), NEW map
  PROVE  LET lines == DomainLines(ids, map)
         IN /\ lines \in Seq(Range(lines)) /\ Distinct(lines)
            /\ \A line \in Range(lines) :
                 /\ line.record = "DOMAIN" /\ line.domain \in ids
                 /\ line = format_domain(line.domain, map[line.domain])
            /\ \A x : /\ DomainWaits(lines, x) <=> x \in ids
                      /\ ~DropWaits(lines, x) /\ ~DenialWaits(lines, x)
<1> DEFINE lines == DomainLines(ids, map)
           n == Cardinality(ids)
           seq == Ascending(ids)
<1>1. /\ seq \in [1 .. n -> ids] /\ n \in Nat
      /\ \A i, j \in 1 .. n : seq[i] = seq[j] => i = j
      /\ \A id \in ids : \E i \in 1 .. n : seq[i] = id
  BY ZenonT(30), AscendingFacts
<1> HIDE DEF seq, n
<1>2. lines = [i \in 1 .. n |-> format_domain(seq[i], map[seq[i]])]
  BY <1>1 DEF DomainLines, seq
<1> HIDE DEF lines
<1>3. DOMAIN lines = 1 .. n /\ \A i \in 1 .. n : lines[i] = format_domain(seq[i], map[seq[i]])
  BY <1>2
<1>4. \A x : \A st : format_domain(x, st).record = "DOMAIN" /\ format_domain(x, st).domain = x
  BY DEF format_domain
<1>5. lines \in Seq(Range(lines))
  <2>1. lines \in [1 .. n -> Range(lines)]
    BY <1>2, <1>3 DEF Range
  <2> QED
    BY <1>1, <2>1
<1>6. \A i \in 1 .. n : lines[i].record = "DOMAIN" /\ lines[i].domain = seq[i]
  BY <1>3, <1>4
<1>7. Distinct(lines)
  BY <1>1, <1>3, <1>6 DEF Distinct, SameObject
<1>8. \A line \in Range(lines) : /\ line.record = "DOMAIN" /\ line.domain \in ids
                                 /\ line = format_domain(line.domain, map[line.domain])
  BY <1>1, <1>3, <1>6 DEF Range
<1>9. \A i \in 1 .. n : lines[i] \in Range(lines)
  BY <1>3 DEF Range
<1>10. ASSUME NEW x PROVE DomainWaits(lines, x) <=> x \in ids
  <2>1. DomainWaits(lines, x) => x \in ids
    BY <1>8 DEF DomainWaits
  <2>2. ASSUME x \in ids PROVE DomainWaits(lines, x)
    <3>1. PICK i \in 1 .. n : seq[i] = x
      BY <1>1, <2>2
    <3>2. lines[i] \in Range(lines) /\ lines[i].record = "DOMAIN" /\ lines[i].domain = x
      BY <1>6, <1>9, <3>1
    <3> QED
      BY <3>2 DEF DomainWaits
  <2> QED
    BY <2>1, <2>2
<1>11. ASSUME NEW x PROVE ~DropWaits(lines, x) /\ ~DenialWaits(lines, x)
  BY <1>8 DEF DropWaits, DenialWaits
<1> QED
  BY <1>5, <1>7, <1>8, <1>10, <1>11 DEF lines

LEMMA StatsAppended ==
  ASSUME NEW lines, lines \in Seq(Range(lines)), \A l \in Range(lines) : l.record # "STATS",
         NEW line, line.record = "STATS"
  PROVE  StatsLast(lines \o <<line>>) /\ lines \o <<line>> # <<>>
<1> DEFINE one == <<line>>
           all == lines \o one
           n == Len(lines)
<1>1. one \in Seq(Range(one)) /\ DOMAIN one = {1} /\ one[1] = line /\ Len(one) = 1
  BY OneLine
<1> HIDE DEF one
<1>2. /\ all \in Seq(Range(all)) /\ Len(all) = n + Len(one)
      /\ \A i \in DOMAIN lines : i \in DOMAIN all /\ all[i] = lines[i]
      /\ \A i \in DOMAIN one : i + n \in DOMAIN all /\ all[i + n] = one[i]
      /\ \A i \in DOMAIN all : i \in DOMAIN lines \/ (i - n \in DOMAIN one /\ i = (i - n) + n)
  BY ZenonT(30), <1>1, JoinedPlaces
<1>3. n \in Nat /\ DOMAIN lines = 1 .. n
  OBVIOUS
<1>4. \A i \in DOMAIN lines : lines[i].record # "STATS"
  BY DEF Range
<1> HIDE DEF all, n
<1>5. all[n + 1] = line /\ n + 1 \in DOMAIN all
  BY <1>1, <1>2, <1>3
<1>6. \A i \in DOMAIN all : (i \in 1 .. n /\ all[i] = lines[i]) \/ i = n + 1
  BY <1>1, <1>2, <1>3
<1>7. ASSUME NEW i \in DOMAIN all PROVE all[i].record = "STATS" <=> i = Len(all)
  <2>1. CASE i = n + 1
    BY <1>1, <1>2, <1>5, <2>1
  <2>2. CASE i \in 1 .. n /\ all[i] = lines[i]
    BY <1>1, <1>2, <1>3, <1>4, <2>2
  <2> QED
    BY <1>6, <2>1, <2>2
<1>8. StatsLast(all)
  BY <1>7 DEF StatsLast
<1>9. all # <<>>
  BY <1>5
<1> QED
  BY <1>8, <1>9 DEF all, one

OfKind(lines, kind) ==
  /\ lines \in Seq(Range(lines)) /\ Distinct(lines)
  /\ \A line \in Range(lines) : line.record = kind

\* The lines of an event: those of domains, of a ruleset, of a denial, and at
\* last the statistics, which are there whenever another line is.
LEMMA EventLines ==
  ASSUME NEW D, NEW R, NEW A, NEW S, OfKind(D, "DOMAIN"), OfKind(R, "DROP_RULESET"),
         OfKind(A, "DENIAL"), S = <<>> \/ \E line : S = <<line>> /\ line.record = "STATS",
         S = <<>> => (D \o R) \o A = <<>>
  PROVE  LET all == ((D \o R) \o A) \o S
         IN /\ all \in Seq(Range(all)) /\ Distinct(all) /\ StatsLast(all)
            /\ Range(all) = Range(D) \cup Range(R) \cup Range(A) \cup Range(S)
            /\ \A x : /\ DomainWaits(all, x) <=> DomainWaits(D, x)
                      /\ DropWaits(all, x) <=> DropWaits(R, x)
                      /\ DenialWaits(all, x) <=> DenialWaits(A, x)
            /\ all = <<>> => S = <<>> /\ (D \o R) \o A = <<>>
<1> DEFINE dr == D \o R
           changes == dr \o A
           all == changes \o S
<1>1. \A x : /\ ~DropWaits(D, x) /\ ~DenialWaits(D, x)
             /\ ~DomainWaits(R, x) /\ ~DenialWaits(R, x)
             /\ ~DomainWaits(A, x) /\ ~DropWaits(A, x)
  BY DEF OfKind, DomainWaits, DropWaits, DenialWaits
<1>2. /\ dr \in Seq(Range(dr)) /\ Range(dr) = Range(D) \cup Range(R) /\ Distinct(dr)
      /\ \A x : /\ DomainWaits(dr, x) <=> DomainWaits(D, x) \/ DomainWaits(R, x)
                /\ DropWaits(dr, x) <=> DropWaits(D, x) \/ DropWaits(R, x)
                /\ DenialWaits(dr, x) <=> DenialWaits(D, x) \/ DenialWaits(R, x)
  <2>1. \A a \in Range(D), b \in Range(R) : a.record # b.record
    BY DEF OfKind
  <2> QED
    BY <2>1, Joined DEF OfKind
<1> HIDE DEF dr
<1>3. /\ changes \in Seq(Range(changes)) /\ Range(changes) = Range(dr) \cup Range(A)
      /\ Distinct(changes)
      /\ \A x : /\ DomainWaits(changes, x) <=> DomainWaits(dr, x) \/ DomainWaits(A, x)
                /\ DropWaits(changes, x) <=> DropWaits(dr, x) \/ DropWaits(A, x)
                /\ DenialWaits(changes, x) <=> DenialWaits(dr, x) \/ DenialWaits(A, x)
  <2>1. \A a \in Range(dr), b \in Range(A) : a.record # b.record
    BY <1>2 DEF OfKind
  <2> QED
    BY ZenonT(30), <1>2, <2>1, Joined DEF OfKind
<1>4. S = <<>> => changes = <<>>
  BY DEF dr
<1> HIDE DEF changes
<1>5. \A l \in Range(changes) : l.record # "STATS"
  BY <1>2, <1>3 DEF OfKind
<1>6. CASE S = <<>>
  <2>1. all = <<>>
    BY <1>4, <1>6
  <2>2. StatsLast(<<>>)
    BY DEF StatsLast
  <2> HIDE DEF all
  <2>3. changes = all
    BY <1>4, <1>6, <2>1
  <2>4. Range(S) = {}
    BY <1>6, NoLine
  <2>5. all \in Seq(Range(all)) /\ Distinct(all)
    BY <1>3, <2>3
  <2> QED
    BY <1>1, <1>2, <1>3, <1>4, <1>6, <2>1, <2>2, <2>3, <2>4, <2>5 DEF all, changes, dr
<1>7. CASE S # <<>>
  <2>1. PICK line : S = <<line>> /\ line.record = "STATS"
    BY <1>7
  <2>2. S \in Seq(Range(S)) /\ Range(S) = {line} /\ Distinct(S)
    BY <2>1, OneLine
  <2>3. \A x : ~DomainWaits(S, x) /\ ~DropWaits(S, x) /\ ~DenialWaits(S, x)
    BY <2>1, <2>2 DEF DomainWaits, DropWaits, DenialWaits
  <2>4. StatsLast(all) /\ all # <<>>
    BY <1>3, <1>5, <2>1, StatsAppended
  <2>5. /\ all \in Seq(Range(all)) /\ Range(all) = Range(changes) \cup Range(S) /\ Distinct(all)
        /\ \A x : /\ DomainWaits(all, x) <=> DomainWaits(changes, x) \/ DomainWaits(S, x)
                  /\ DropWaits(all, x) <=> DropWaits(changes, x) \/ DropWaits(S, x)
                  /\ DenialWaits(all, x) <=> DenialWaits(changes, x) \/ DenialWaits(S, x)
    <3>1. \A a \in Range(changes), b \in Range(S) : a.record # b.record
      BY <1>5, <2>1, <2>2
    <3> QED
      BY ZenonT(30), <1>3, <2>2, <3>1, Joined
  <2> HIDE DEF all
  <2> QED
    BY <1>1, <1>2, <1>3, <2>3, <2>4, <2>5 DEF all, changes, dr
<1> QED
  BY <1>6, <1>7

LEMMA OneOfKind ==
  ASSUME NEW kind
  PROVE  OfKind(<<>>, kind) /\ \A line : line.record = kind => OfKind(<<line>>, kind)
  BY NoLine, OneLine DEF OfKind

\* What the lines of an event are about.
LEMMA ReceivedLines ==
  ASSUME KnownInv, KnownInv', NEW event \in Events, Process(event),
         Denials!IsDenial(event) => entries'[Denials!DenialKey(event)].latest_event = event
  PROVE  /\ records' \in Seq(Range(records')) /\ Distinct(records') /\ StatsLast(records')
         /\ \A line \in Range(records') : LineCurrent(line)'
         /\ \A x : /\ DomainWaits(records', x) <=> x \in affected_domain_ids(event) /\ DomainChanged(x)
                   /\ DropWaits(records', x) <=> x = event.ruleset_id /\ DropRecords(event) # <<>>
                   /\ DenialWaits(records', x) <=> Denials!IsDenial(event) /\ x = event.variant
         /\ records' = <<>> => /\ ~Denials!IsDenial(event) /\ allocated_domains' = allocated_domains
                               /\ Cardinality(DOMAIN domains') = Cardinality(DOMAIN domains)
<1> DEFINE ids == {id \in affected_domain_ids(event) : DomainChanged(id)}
           identity == deallocated_ruleset_identity(rulesets', event.ruleset_id)
           dropped == [record |-> "DROP_RULESET", ruleset |-> event.ruleset_id, version |-> identity]
           denied == format_denial(entries'[Denials!DenialKey(event)])
           stats == format_stats(allocated_domains', Cardinality(DOMAIN domains'),
                                 total_denials', denials')
<1>1. PICK I, D, R, A, S, map : /\ I = ids /\ map = domains'
                                /\ D = DomainRecords(event) /\ R = DropRecords(event)
                                /\ A = DenialRecords(event)
                                /\ S = StatsRecords((D \o R) \o A)
  BY ZenonT(30)
<1>2. records' = ((D \o R) \o A) \o S
  BY <1>1 DEF Process
<1>3. I \subseteq affected_domain_ids(event) /\ \A x \in I : x \in DOMAIN domains'
  BY <1>1 DEF DomainChanged
<1>4. I \subseteq Nat /\ IsFiniteSet(I)
  BY <1>3, AffectedIds, FS_Subset
<1>5. D = DomainLines(I, map)
  BY ZenonT(30), <1>1 DEF DomainRecords, DomainLines
<1>6. /\ D \in Seq(Range(D)) /\ Distinct(D)
      /\ \A line \in Range(D) : /\ line.record = "DOMAIN" /\ line.domain \in I
                                /\ line = format_domain(line.domain, map[line.domain])
      /\ \A x : DomainWaits(D, x) <=> x \in I
  BY ZenonT(30), <1>4, <1>5, DomainLinesFacts
<1>7. /\ OfKind(R, "DROP_RULESET")
      /\ \A x : DropWaits(R, x) <=> x = event.ruleset_id /\ R # <<>>
      /\ \A line \in Range(R) : /\ line.record = "DROP_RULESET"
                                /\ line.ruleset \in Freed'
                                /\ line.version = rulesets'[line.ruleset].final_version
  <2>1. CASE R = <<>>
    BY <2>1, NoLine, OneOfKind
  <2>2. CASE R # <<>>
    <3>1. PICK line : R = <<line>> /\ line = dropped /\ identity # None
      BY ZenonT(30), <1>1, <2>2 DEF DropRecords
    <3>2. line.record = "DROP_RULESET" /\ line.ruleset = event.ruleset_id /\ line.version = identity
      BY <3>1
    <3>3. /\ event.ruleset_id \in DOMAIN rulesets' /\ identity = rulesets'[event.ruleset_id].final_version
          /\ rulesets'[event.ruleset_id].lifecycle = "Deallocated"
      BY <3>1 DEF deallocated_ruleset_identity
    <3> HIDE DEF identity
    <3>4. /\ OfKind(R, "DROP_RULESET") /\ Range(R) = {line}
          /\ \A x : DropWaits(R, x) <=> line.ruleset = x
      BY ZenonT(30), <3>1, <3>2, OneLine, OneOfKind
    <3> QED
      BY ZenonT(30), <2>2, <3>2, <3>3, <3>4 DEF Freed
  <2> QED
    BY ZenonT(30), <2>1, <2>2
<1>8. /\ OfKind(A, "DENIAL") /\ (A = <<>> <=> ~Denials!IsDenial(event))
      /\ \A x : DenialWaits(A, x) <=> Denials!IsDenial(event) /\ x = event.variant
      /\ \A line \in Range(A) : line.record = "DENIAL" /\ line.kind \in DenialVariants
  <2>1. CASE ~Denials!IsDenial(event)
    <3>1. A = <<>>
      BY <1>1, <2>1 DEF DenialRecords
    <3> QED
      BY <2>1, <3>1, NoLine, OneOfKind
  <2>2. CASE Denials!IsDenial(event)
    <3>1. PICK line : A = <<line>> /\ line = denied
      BY <1>1, <2>2 DEF DenialRecords
    <3>2. line.record = "DENIAL" /\ line.kind = event.variant
      BY ZenonT(30), <2>2, <3>1 DEF format_denial
    <3>3. event.variant \in DenialVariants
      BY <2>2 DEF Denials!IsDenial, Denials!DenialVariants, DenialVariants
    <3>4. /\ OfKind(A, "DENIAL") /\ Range(A) = {line}
          /\ \A x : DenialWaits(A, x) <=> line.kind = x
      BY ZenonT(30), <3>1, <3>2, OneLine, OneOfKind
    <3>5. A # <<>>
      BY <3>1
    <3> QED
      BY <2>2, <3>2, <3>3, <3>4, <3>5
  <2> QED
    BY <2>1, <2>2
<1>9. /\ S = <<>> => /\ (D \o R) \o A = <<>> /\ allocated_domains' = allocated_domains
                     /\ Cardinality(DOMAIN domains') = Cardinality(DOMAIN domains)
      /\ S # <<>> => S = <<stats>>
  BY ZenonT(30), <1>1 DEF StatsRecords, StatsChanged
<1>10. stats.record = "STATS" /\ stats = CurrentStats'
  BY DEF format_stats, CurrentStats
<1> HIDE DEF stats
<1>11. S = <<>> \/ \E line : S = <<line>> /\ line.record = "STATS" /\ line = CurrentStats'
  BY ZenonT(30), <1>9, <1>10
<1> DEFINE all == ((D \o R) \o A) \o S
<1>12. /\ all \in Seq(Range(all)) /\ Distinct(all) /\ StatsLast(all)
       /\ Range(all) = Range(D) \cup Range(R) \cup Range(A) \cup Range(S)
       /\ \A x : /\ DomainWaits(all, x) <=> DomainWaits(D, x)
                 /\ DropWaits(all, x) <=> DropWaits(R, x)
                 /\ DenialWaits(all, x) <=> DenialWaits(A, x)
       /\ all = <<>> => S = <<>> /\ (D \o R) \o A = <<>>
  <2>1. OfKind(D, "DOMAIN")
    BY ZenonT(30), <1>6 DEF OfKind
  <2>2. OfKind(R, "DROP_RULESET") /\ OfKind(A, "DENIAL")
    BY <1>7, <1>8
  <2>3. S = <<>> \/ \E line : S = <<line>> /\ line.record = "STATS"
    BY <1>11
  <2>4. S = <<>> => (D \o R) \o A = <<>>
    BY <1>9
  <2> QED
    BY <2>1, <2>2, <2>3, <2>4, EventLines
<1>13. (D \o R) \o A = <<>> => A = <<>>
  <2>1. ASSUME (D \o R) \o A = <<>>, A # <<>> PROVE FALSE
    <3>1. PICK i \in DOMAIN A : TRUE
      BY <1>8, <2>1 DEF OfKind
    <3>2. D \o R \in Seq(Range(D \o R))
      BY ZenonT(30), <1>6, <1>7, JoinedPlaces DEF OfKind
    <3> DEFINE dr == D \o R
    <3> HIDE DEF dr
    <3>3. i + Len(dr) \in DOMAIN (dr \o A)
      BY <1>8, <3>2, JoinedPlaces DEF OfKind, dr
    <3> QED
      BY <2>1, <3>3 DEF dr
  <2> QED
    BY <2>1
<1> HIDE DEF all
<1>14. \A line \in Range(all) : LineCurrent(line)'
  <2> SUFFICES ASSUME NEW line \in Range(all) PROVE LineCurrent(line)'
    OBVIOUS
  <2>1. CASE line \in Range(D)
    BY ZenonT(30), <1>1, <1>3, <1>6, <2>1 DEF LineCurrent, DomainLine
  <2>2. CASE line \in Range(R)
    BY ZenonT(30), <1>7, <2>2 DEF LineCurrent
  <2>3. CASE line \in Range(A)
    BY <1>8, <2>3 DEF LineCurrent
  <2>4. CASE line \in Range(S)
    <3>1. line.record = "STATS" /\ line = CurrentStats'
      BY ZenonT(30), <1>11, <2>4, NoLine, OneLine
    <3> QED
      BY <3>1 DEF LineCurrent
  <2> QED
    BY <1>12, <2>1, <2>2, <2>3, <2>4
<1>15. all = records'
  BY <1>2 DEF all
<1>16. \A x : x \in I <=> x \in affected_domain_ids(event) /\ DomainChanged(x)
  BY <1>1
<1>17. R = DropRecords(event)
  BY <1>1
<1> HIDE DEF ids
<1> QED
  BY ZenonT(30), <1>6, <1>7, <1>8, <1>9, <1>12, <1>13, <1>14, <1>15, <1>16, <1>17

LEMMA ReceiveStep ==
  ASSUME ReaderInv, ReceiveEvent
  PROVE  ReaderInv'
<1>1. PICK event \in Events : Process(event)
  BY DEF ReceiveEvent
<1>2. /\ records = <<>> /\ view' = view
      /\ mode' = IF records' = <<>> THEN "receiving" ELSE "writing"
  BY DEF ReceiveEvent, ReaderInv
<1>3. /\ DOMAIN view.domains \subseteq DOMAIN domains /\ DOMAIN view.dropped \subseteq Freed
      /\ \A id \in DOMAIN domains : Told(view.domains, id, DomainLine(id))
      /\ \A r \in Freed : Told(view.dropped, r, rulesets[r].final_version)
      /\ \A kind \in DenialVariants : denials[kind] = view.denials[kind]
      /\ view.stats = CurrentStats
  BY ZenonT(30), <1>2, NoLine DEF ReaderInv, DomainsTold, DropsTold, DenialsTold, StatsTold
<1>4. KnownInv'
  BY <1>1, KnownStep DEF ReaderInv, Process
<1>5. EntriesShaped' /\ (Denials!IsDenial(event) =>
                           entries'[Denials!DenialKey(event)].latest_event = event)
  BY <1>1, EntryLatest DEF ReaderInv, Process
<1>6. /\ records' \in Seq(Range(records')) /\ Distinct(records') /\ StatsLast(records')
      /\ \A line \in Range(records') : LineCurrent(line)'
      /\ \A x : /\ DomainWaits(records', x) <=> x \in affected_domain_ids(event) /\ DomainChanged(x)
                /\ DropWaits(records', x) <=> x = event.ruleset_id /\ DropRecords(event) # <<>>
                /\ DenialWaits(records', x) <=> Denials!IsDenial(event) /\ x = event.variant
      /\ records' = <<>> => /\ ~Denials!IsDenial(event) /\ allocated_domains' = allocated_domains
                            /\ Cardinality(DOMAIN domains') = Cardinality(DOMAIN domains)
  BY ZenonT(30), <1>1, <1>4, <1>5, ReceivedLines DEF ReaderInv
<1>7. DomainsTold'
  <2>1. /\ DOMAIN domains \subseteq DOMAIN domains'
        /\ DOMAIN domains' \subseteq DOMAIN domains \cup affected_domain_ids(event)
        /\ \A id \in DOMAIN domains : id \notin affected_domain_ids(event) =>
             domains'[id] = domains[id]
    BY ZenonT(30), <1>1, AffectedOnly DEF Process
  <2>2. ASSUME NEW id \in DOMAIN domains'
        PROVE  Told(view.domains, id, DomainLine(id)') <=>
                 ~(id \in affected_domain_ids(event) /\ DomainChanged(id))
    <3>1. CASE id \in DOMAIN domains
      <4>1. id \in DOMAIN view.domains /\ view.domains[id] = DomainLine(id)
        BY <1>3, <3>1 DEF Told
      <4>2. DomainChanged(id) <=> DomainLine(id) # DomainLine(id)'
        BY <3>1 DEF DomainChanged, DomainLine
      <4>3. id \notin affected_domain_ids(event) => DomainLine(id) = DomainLine(id)'
        BY <2>1, <3>1 DEF DomainLine
      <4> QED
        BY <4>1, <4>2, <4>3 DEF Told
    <3>2. CASE id \notin DOMAIN domains
      BY ZenonT(30), <1>3, <2>1, <3>2 DEF Told, DomainChanged
    <3> QED
      BY <3>1, <3>2
  <2> QED
    BY ZenonT(30), <1>2, <1>3, <1>6, <2>1, <2>2 DEF DomainsTold
<1>8. DropsTold'
  <2>1. /\ \A r \in DOMAIN rulesets :
             /\ r \in DOMAIN rulesets'
             /\ (event.variant = "FreeRuleset" /\ event.ruleset_id = r)
                  \/ (/\ rulesets'[r].lifecycle = rulesets[r].lifecycle
                      /\ rulesets'[r].final_version = rulesets[r].final_version)
        /\ \A r \in DOMAIN rulesets' \ DOMAIN rulesets :
             \/ event.variant = "FreeRuleset" /\ event.ruleset_id = r
             \/ rulesets'[r].lifecycle = "Allocated"
        /\ event.variant = "FreeRuleset" =>
             /\ event.ruleset_id \in DOMAIN rulesets'
             /\ rulesets'[event.ruleset_id].lifecycle = "Deallocated"
    BY ZenonT(30), <1>1, FreedOnly DEF Process, ReaderInv, KnownInv
  <2>2. Freed \subseteq Freed'
    BY <2>1 DEF Freed
  <2>3. ASSUME NEW r \in Freed'
        PROVE  Told(view.dropped, r, rulesets'[r].final_version) <=>
                 ~(r = event.ruleset_id /\ DropRecords(event) # <<>>)
    <3> DEFINE final == rulesets'[r].final_version
    <3>1. CASE event.variant = "FreeRuleset" /\ event.ruleset_id = r
      <4>1. deallocated_ruleset_identity(rulesets', r) = final /\ final # None
        BY <1>4 DEF deallocated_ruleset_identity, Freed, KnownInv, RulesetsGood, RulesetGood,
                    RulesetComplete
      <4>2. deallocated_ruleset_identity(rulesets, r)
              = IF r \in Freed THEN rulesets[r].final_version ELSE None
        BY DEF deallocated_ruleset_identity, Freed
      <4>3. DropRecords(event) # <<>> <=>
              final # (IF r \in Freed THEN rulesets[r].final_version ELSE None)
        BY ZenonT(30), <3>1, <4>1, <4>2 DEF DropRecords
      <4> HIDE DEF final
      <4>4. CASE r \in Freed
        BY <1>3, <3>1, <4>3, <4>4 DEF Told, final
      <4>5. CASE r \notin Freed
        BY <1>3, <3>1, <4>1, <4>3, <4>5 DEF Told, final
      <4> QED
        BY <4>4, <4>5 DEF final
    <3>2. CASE event.variant # "FreeRuleset" \/ event.ruleset_id # r
      <4>1. r \in Freed /\ final = rulesets[r].final_version
        BY <2>1, <3>2 DEF Freed
      <4>2. ~(r = event.ruleset_id /\ DropRecords(event) # <<>>)
        BY <3>2 DEF DropRecords
      <4>3. Told(view.dropped, r, rulesets[r].final_version)
        BY <1>3, <4>1
      <4> QED
        BY <4>1, <4>2, <4>3
    <3> QED
      BY <3>1, <3>2
  <2> QED
    BY ZenonT(30), <1>2, <1>3, <1>6, <2>2, <2>3 DEF DropsTold
<1>9. /\ denials' = [kind \in DenialVariants |-> denials'[kind]]
      /\ DenialsTold'
      /\ ~Denials!IsDenial(event) => total_denials' = total_denials /\ denials' = denials
  <2>1. denials = [kind \in DenialVariants |-> denials[kind]]
    BY DEF ReaderInv, ViewTyped
  <2>2. CASE Denials!IsDenial(event)
    <3>1. event.variant \in DenialVariants
      BY <2>2 DEF Denials!IsDenial, Denials!DenialVariants, DenialVariants
    <3>2. denials' = [denials EXCEPT ![event.variant] = Denials!SaturatingAdd1(@, MaxCount)]
      BY <1>1, <2>2 DEF Process, UpdateStats
    <3> DEFINE new == [denials EXCEPT ![event.variant] = Denials!SaturatingAdd1(@, MaxCount)]
    <3>3. /\ new = [kind \in DenialVariants |-> new[kind]]
          /\ \A kind \in DenialVariants :
               new[kind] = IF kind = event.variant
                           THEN Denials!SaturatingAdd1(denials[kind], MaxCount)
                           ELSE denials[kind]
      BY <2>1, <3>1
    <3>4. denials' = new
      BY <3>2
    <3> HIDE DEF new
    <3> QED
      BY <1>2, <1>3, <1>6, <2>2, <3>3, <3>4 DEF DenialsTold
  <2>3. CASE ~Denials!IsDenial(event)
    <3>1. denials' = denials /\ total_denials' = total_denials
      BY <1>1, <2>3 DEF Process, UpdateStats
    <3> QED
      BY <1>2, <1>3, <1>6, <2>1, <2>3, <3>1 DEF DenialsTold
  <2> QED
    BY <2>2, <2>3
<1>10. StatsTold'
  BY <1>2, <1>3, <1>6, <1>9 DEF StatsTold, CurrentStats
<1>11. ViewTyped'
  BY <1>2, <1>9 DEF ReaderInv, ViewTyped
<1> QED
  BY <1>2, <1>4, <1>5, <1>6, <1>7, <1>8, <1>9, <1>10, <1>11 DEF ReaderInv

LEMMA ReaderAlways == BatchSpec => []ReaderInv
<1>1. BatchInit => ReaderInv
  <2> SUFFICES ASSUME BatchInit PROVE ReaderInv
    OBVIOUS
  <2>1. /\ rulesets = EmptyMap /\ domains = EmptyMap /\ entries = [k \in {} |-> 0]
        /\ mode = "starting" /\ records = <<>>
        /\ total_denials = 0 /\ denials = [kind \in DenialVariants |-> 0] /\ allocated_domains = 0
        /\ view = [domains |-> EmptyMap, dropped |-> EmptyMap,
                   denials |-> [kind \in DenialVariants |-> 0],
                   stats |-> format_stats(0, 0, 0, [kind \in DenialVariants |-> 0])]
    BY DEF BatchInit, Init, Denials!Init
  <2>2. DOMAIN domains = {} /\ DOMAIN rulesets = {} /\ DOMAIN entries = {} /\ Freed = {}
    BY ZenonT(30), <2>1 DEF EmptyMap, Freed
  <2>3. KnownInv /\ EntriesShaped
    BY ZenonT(30), <2>2 DEF KnownInv, RulesetsGood, DomainsGood, References, EntriesShaped
  <2>4. Cardinality(DOMAIN domains) = 0
    BY <2>2, FS_EmptySet
  <2>5. /\ view.domains = EmptyMap /\ view.dropped = EmptyMap
        /\ view.denials = [kind \in DenialVariants |-> 0]
        /\ view.stats = format_stats(0, 0, 0, [kind \in DenialVariants |-> 0])
    BY <2>1
  <2>6. ViewTyped
    <3> DEFINE zero == [kind \in DenialVariants |-> 0]
               none == format_stats(0, 0, 0, zero)
               U == {EmptyMap, zero, none}
    <3>1. view \in [domains : U, dropped : U, denials : U, stats : U]
      BY ZenonT(30), <2>1
    <3>2. \E W : view \in [domains : W, dropped : W, denials : W, stats : W]
      BY ZenonT(30), <3>1
    <3> QED
      BY ZenonT(30), <2>1, <2>5, <3>2 DEF ViewTyped, EmptyMap
  <2>7. DomainsTold /\ DropsTold /\ DenialsTold
    BY Zenon, <2>1, <2>2, <2>5, NoLine DEF DomainsTold, DropsTold, DenialsTold, EmptyMap
  <2>8. StatsTold
    BY ZenonT(30), <2>1, <2>4, <2>5 DEF StatsTold, CurrentStats
  <2>9. StatsLast(records)
    BY <2>1 DEF StatsLast
  <2> QED
    BY <2>1, <2>3, <2>6, <2>7, <2>8, <2>9, NoLine DEF ReaderInv
<1>2. ReaderInv /\ [BatchNext]_all_vars => ReaderInv'
  <2> SUFFICES ASSUME ReaderInv, [BatchNext]_all_vars PROVE ReaderInv'
    OBVIOUS
  <2>1. CASE ReceiveEvent
    BY <2>1, ReceiveStep
  <2>2. CASE WriteRecord
    BY <2>2, WriteStep
  <2>3. ASSUME UNCHANGED <<quiet, records, view>>,
               mode' \in {"starting", "receiving"} => records = <<>>
        PROVE  ReaderInv'
    <3>1. /\ KnownInv' /\ EntriesShaped'
          /\ DOMAIN domains' = DOMAIN domains /\ Freed' = Freed /\ CurrentStats' = CurrentStats
          /\ \A l : LineCurrent(l)' <=> LineCurrent(l)
          /\ \A id : DomainLine(id)' = DomainLine(id)
      BY ZenonT(30), <2>3, SameState DEF ReaderInv, quiet
    <3>2. records' = records /\ view' = view /\ denials' = denials /\ rulesets' = rulesets
      BY <2>3 DEF quiet, vars
    <3>3. ViewTyped'
      BY <3>2 DEF ReaderInv, ViewTyped
    <3>4. DomainsTold' /\ DropsTold' /\ DenialsTold' /\ StatsTold'
      BY ZenonT(30), <3>1, <3>2 DEF ReaderInv, DomainsTold, DropsTold, DenialsTold, StatsTold
    <3>5. \A line \in Range(records') : LineCurrent(line)'
      BY ZenonT(30), <3>1, <3>2 DEF ReaderInv
    <3> QED
      BY ZenonT(30), <2>3, <3>1, <3>2, <3>3, <3>4, <3>5 DEF ReaderInv
  <2>4. CASE Ready \/ ReceiveError \/ Flush \/ WriteFails
    BY <2>3, <2>4 DEF ReaderInv, Ready, ReceiveError, Flush, WriteFails
  <2>5. CASE UNCHANGED all_vars
    BY ZenonT(30), <2>3, <2>5 DEF ReaderInv, all_vars, batch_vars, quiet
  <2> QED
    BY <2>1, <2>2, <2>4, <2>5 DEF BatchNext
<1> QED
  BY <1>1, <1>2, PTL DEF BatchSpec

\* Whenever batch mode waits for the next event, the lines written tell all of
\* the state: the record of every domain, the final version of every freed
\* ruleset and the counters, for every order, repetition and loss of events.
THEOREM ReaderAlwaysCurrent == BatchSpec => []ReaderCurrent
<1>1. ReaderInv => ReaderCurrent
  <2> SUFFICES ASSUME ReaderInv, mode = "receiving"
               PROVE  /\ view.domains = [id \in DOMAIN domains |-> DomainLine(id)]
                      /\ view.dropped = [id \in Freed |-> rulesets[id].final_version]
                      /\ view.stats = CurrentStats
                      /\ view.stats.by_kind = view.denials
    BY ZenonT(30) DEF ReaderCurrent, DomainLine, Freed, CurrentStats
  <2>1. records = <<>>
    BY DEF ReaderInv
  <2>2. /\ DOMAIN view.domains \subseteq DOMAIN domains /\ DOMAIN view.dropped \subseteq Freed
        /\ \A id \in DOMAIN domains : Told(view.domains, id, DomainLine(id))
        /\ \A r \in Freed : Told(view.dropped, r, rulesets[r].final_version)
        /\ \A kind \in DenialVariants : denials[kind] = view.denials[kind]
        /\ view.stats = CurrentStats
    BY ZenonT(30), <2>1, NoLine DEF ReaderInv, DomainsTold, DropsTold, DenialsTold, StatsTold
  <2>3. /\ view.domains = [id \in DOMAIN view.domains |-> view.domains[id]]
        /\ view.dropped = [r \in DOMAIN view.dropped |-> view.dropped[r]]
        /\ view.denials = [kind \in DenialVariants |-> view.denials[kind]]
        /\ denials = [kind \in DenialVariants |-> denials[kind]]
    BY DEF ReaderInv, ViewTyped
  <2>4. view.domains = [id \in DOMAIN domains |-> DomainLine(id)]
    <3>1. DOMAIN view.domains = DOMAIN domains
      BY <2>2 DEF Told
    <3>2. \A id \in DOMAIN domains : view.domains[id] = DomainLine(id)
      BY <2>2 DEF Told
    <3> QED
      BY <2>3, <3>1, <3>2
  <2>5. view.dropped = [id \in Freed |-> rulesets[id].final_version]
    <3>1. DOMAIN view.dropped = Freed
      BY <2>2 DEF Told
    <3>2. \A r \in Freed : view.dropped[r] = rulesets[r].final_version
      BY <2>2 DEF Told
    <3> QED
      BY <2>3, <3>1, <3>2
  <2>6. view.stats.by_kind = denials
    BY SMTT(30), <2>2 DEF CurrentStats, format_stats
  <2>7. view.denials = denials
    BY <2>2, <2>3
  <2> QED
    BY ZenonT(30), <2>2, <2>4, <2>5, <2>6, <2>7
<1> QED
  BY <1>1, ReaderAlways, PTL

\* No line of batch mode repeats what a reader knows of the domain or ruleset
\* it names, no event has two lines for an object, and the statistics come
\* last, for every order, repetition and loss of events.
THEOREM LinesAlwaysTellNews == BatchSpec => []LinesTellNews
<1>1. ReaderInv => LinesTellNews
  <2> SUFFICES ASSUME ReaderInv, NEW i \in DOMAIN records
      PROVE  /\ records[i].record = "STATS" <=> i = Len(records)
             /\ records[i].record = "DOMAIN" =>
                  /\ ~Told(view.domains, records[i].domain, records[i])
                  /\ \A j \in DOMAIN records :
                       (records[j].record = "DOMAIN" /\ records[j].domain = records[i].domain) =>
                         i = j
             /\ records[i].record = "DROP_RULESET" =>
                  ~Told(view.dropped, records[i].ruleset, records[i].version)
    BY ZenonT(30) DEF LinesTellNews
  <2> DEFINE line == records[i]
  <2>1. line \in Range(records)
    BY DEF Range
  <2>2. line.record = "STATS" <=> i = Len(records)
    BY DEF ReaderInv, StatsLast
  <2>3. LineCurrent(line)
    BY <2>1 DEF ReaderInv
  <2>4. ASSUME line.record = "DOMAIN" PROVE ~Told(view.domains, line.domain, line)
    <3>1. DomainWaits(records, line.domain)
      BY <2>1, <2>4 DEF DomainWaits
    <3>2. line.domain \in DOMAIN domains /\ line = DomainLine(line.domain)
      BY <2>3, <2>4 DEF LineCurrent
    <3>3. ~Told(view.domains, line.domain, DomainLine(line.domain))
      BY ZenonT(30), <3>1, <3>2 DEF ReaderInv, DomainsTold
    <3> HIDE DEF line
    <3> QED
      BY <3>2, <3>3
  <2>5. ASSUME line.record = "DOMAIN", NEW j \in DOMAIN records,
               records[j].record = "DOMAIN", records[j].domain = line.domain
        PROVE  i = j
    BY <2>5 DEF ReaderInv, Distinct, SameObject
  <2>6. ASSUME line.record = "DROP_RULESET" PROVE ~Told(view.dropped, line.ruleset, line.version)
    <3>1. DropWaits(records, line.ruleset)
      BY <2>1, <2>6 DEF DropWaits
    <3>2. line.ruleset \in Freed /\ line.version = rulesets[line.ruleset].final_version
      BY ZenonT(30), <2>3, <2>6 DEF LineCurrent
    <3> HIDE DEF line
    <3> QED
      BY ZenonT(30), <3>1, <3>2 DEF ReaderInv, DropsTold
  <2> QED
    BY ZenonT(30), <2>2, <2>4, <2>5, <2>6
<1> QED
  BY <1>1, ReaderAlways, PTL
=============================================================================
