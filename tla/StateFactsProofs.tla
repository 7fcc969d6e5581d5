--------------------------- MODULE StateFactsProofs ---------------------------
(***************************************************************************)
(* The reconstructed state is a function of the set of applied events, for *)
(* every set of events that tells one story.                               *)
(***************************************************************************)
EXTENDS StateFacts, FiniteSetTheorems, WellFoundedInduction, TLAPS

-----------------------------------------------------------------------------
(* Greatest numbers and latest events.                                      *)

IsMax(S, m) == m \in S /\ \A x \in S : x <= m

\* A finite set of numbers has a greatest one: a smallest set without would
\* have one less the element to compare with.
LEMMA MaxExists ==
  ASSUME NEW S, S \subseteq Nat, IsFiniteSet(S), S # {}
  PROVE  \E m : IsMax(S, m)
<1> DEFINE Has(n) == \A T \in SUBSET Nat :
                       (IsFiniteSet(T) /\ T # {} /\ Cardinality(T) = n) => \E m : IsMax(T, m)
           Bad == {n \in Nat : ~Has(n)}
           R == OpToRel(<, Nat)
<1>1. ASSUME Bad # {} PROVE FALSE
  <2>1. \A i, j \in Nat : i < j => <<i, j>> \in R
    BY DEF OpToRel
  <2>2. IsWellFoundedOn(R, Nat)
    BY NatLessThanWellFounded
  <2> HIDE DEF R
  <2>3. PICK n \in Bad : \A j \in Bad : ~(<<j, n>> \in R)
    BY Zenon, <1>1, <2>2, WFMin
  <2>4. PICK T \in SUBSET Nat : /\ IsFiniteSet(T) /\ T # {} /\ Cardinality(T) = n
                                /\ ~\E m : IsMax(T, m)
    BY <2>3
  <2>5. PICK x \in T : TRUE
    BY Zenon, <2>4
  <2>6. n \in Nat /\ n # 0 /\ x \in Nat
    BY <2>4, <2>5, FS_EmptySet
  <2> DEFINE rest == T \ {x}
  <2>7. rest \in SUBSET Nat /\ IsFiniteSet(rest) /\ Cardinality(rest) = n - 1
    BY <2>4, <2>5, FS_RemoveElement
  <2>8. n - 1 \in Nat /\ <<n - 1, n>> \in R
    BY <2>1, <2>6
  <2>9. Has(n - 1)
    BY <2>3, <2>8
  <2>10. CASE rest = {}
    <3>1. IsMax(T, x)
      BY <2>6, <2>10 DEF IsMax
    <3> QED
      BY <2>4, <3>1
  <2>11. CASE rest # {}
    <3>1. PICK m : IsMax(rest, m)
      BY <2>7, <2>9, <2>11
    <3>2. m \in Nat /\ m \in T /\ \A y \in T : y # x => y <= m
      BY <2>7, <3>1 DEF IsMax
    <3>3. \A y \in T : y \in Nat
      BY <2>4
    <3>4. IsMax(T, IF m <= x THEN x ELSE m)
      BY <2>5, <2>6, <3>2, <3>3 DEF IsMax
    <3> QED
      BY <2>4, <3>4
  <2> QED
    BY <2>10, <2>11
<1>2. Cardinality(S) \in Nat
  BY FS_CardinalityType
<1>3. Has(Cardinality(S))
  BY <1>1, <1>2
<1> QED
  BY <1>3

\* Max of the library is that greatest number.
LEMMA MaxFacts ==
  ASSUME NEW S, S \subseteq Nat, IsFiniteSet(S), S # {}
  PROVE  Max(S) \in Nat /\ IsMax(S, Max(S))
<1>1. PICK m : IsMax(S, m)
  BY Zenon, MaxExists
<1>2. m \in S /\ \A x \in S : m >= x
  BY <1>1 DEF IsMax
<1>3. Max(S) \in S /\ \A x \in S : Max(S) >= x
  BY Zenon, <1>2 DEF Max
<1> QED
  BY Zenon, <1>3 DEF IsMax

\* update_max and a version's maximum follow the set of what was observed.
LEMMA MaxGrows ==
  ASSUME NEW S, S \subseteq Nat, IsFiniteSet(S), NEW n \in Nat
  PROVE  /\ S # {} => Max(S \cup {n}) = Max2(Max(S), n)
         /\ Max({n}) = n
         /\ Greatest(S \cup {n}) = update_max(Greatest(S), n)
<1>1. S \cup {n} \subseteq Nat /\ IsFiniteSet(S \cup {n}) /\ S \cup {n} # {}
  BY FS_AddElement
<1> DEFINE new == Max(S \cup {n})
           old == Max(S)
<1>2. new \in Nat /\ IsMax(S \cup {n}, new)
  BY Zenon, <1>1, MaxFacts
<1>3. S # {} => old \in Nat /\ IsMax(S, old)
  BY Zenon, MaxFacts
<1>4. S = {} => new = n
  BY <1>2 DEF IsMax
<1>5. Max({n}) = n
  <2>1. IsFiniteSet({n})
    BY FS_Singleton
  <2>2. Max({n}) \in {n}
    BY <2>1, MaxFacts DEF IsMax
  <2> QED
    BY <2>2
<1> HIDE DEF new, old
<1>6. S # {} => new = Max2(old, n) /\ new = Max2(n, old)
  <2> SUFFICES ASSUME S # {} PROVE new = Max2(old, n) /\ new = Max2(n, old)
    OBVIOUS
  <2>1. old \in Nat /\ old \in S /\ \A x \in S : x <= old
    BY <1>3 DEF IsMax
  <2>2. new \in Nat /\ (new = n \/ new \in S) /\ n <= new /\ old <= new
    BY <1>2, <2>1 DEF IsMax
  <2>3. new = n \/ new <= old
    BY <2>1, <2>2
  <2> QED
    BY <2>1, <2>2, <2>3 DEF Max2
<1>7. CASE S = {}
  BY <1>4, <1>5, <1>7 DEF Greatest, update_max, new
<1>8. CASE S # {}
  <2>1. old # None
    BY <1>3, <1>8, EventsAssumption
  <2>2. Greatest(S) = old /\ Greatest(S \cup {n}) = new
    BY Zenon, <1>8 DEF Greatest, old, new
  <2> QED
    BY <1>5, <1>6, <1>8, <2>1, <2>2 DEF update_max, new, old
<1> QED
  BY <1>7, <1>8

\* The values of a field in a finite set of events.
LEMMA FieldFinite ==
  ASSUME NEW events, IsFiniteSet(events), NEW field
  PROVE  IsFiniteSet({e[field] : e \in events})
<1> DEFINE T == {e[field] : e \in events}
           f == [e \in events |-> e[field]]
<1>1. f \in [events -> T] /\ \A t \in T : \E e \in events : f[e] = t
  OBVIOUS
<1> HIDE DEF f, T
<1>2. f \in Surjection(events, T)
  BY <1>1 DEF Surjection
<1>3. IsFiniteSet(T)
  BY <1>2, FS_Surjection
<1> QED
  BY <1>3 DEF T

\* A set of events of one kind, of which no two have the same timestamp.
OneKind(events) ==
  /\ IsFiniteSet(events) /\ \A e \in events : e.timestamp \in Nat
  /\ \A e, f \in events : e.timestamp = f.timestamp => e = f

\* The latest event is one of the set, and the only one no other is later than.
LEMMA LatestIs ==
  ASSUME NEW events, OneKind(events), events # {}
  PROVE  /\ Latest(events) \in events
         /\ \A e \in events : e.timestamp <= Latest(events).timestamp
         /\ \A e \in events : (\A f \in events : f.timestamp <= e.timestamp) => e = Latest(events)
<1> DEFINE times == {e.timestamp : e \in events}
<1>1. times \subseteq Nat /\ IsFiniteSet(times) /\ times # {}
  <2>1. IsFiniteSet({e["timestamp"] : e \in events})
    BY FieldFinite DEF OneKind
  <2> QED
    BY <2>1 DEF OneKind
<1>2. PICK m : IsMax(times, m)
  BY Zenon, <1>1, MaxExists
<1>3. \E e \in events : \A f \in events : f.timestamp <= e.timestamp
  BY <1>2 DEF IsMax
<1>4. Latest(events) \in events /\ \A f \in events : f.timestamp <= Latest(events).timestamp
  BY <1>3 DEF Latest
<1>5. ASSUME NEW e \in events, \A f \in events : f.timestamp <= e.timestamp
      PROVE  e = Latest(events)
  <2> DEFINE l == Latest(events)
  <2>1. l \in events /\ l.timestamp <= e.timestamp /\ e.timestamp <= l.timestamp
    BY <1>4, <1>5
  <2> HIDE DEF l
  <2>2. l.timestamp = e.timestamp
    BY <2>1 DEF OneKind
  <2> QED
    BY <2>1, <2>2 DEF OneKind, l
<1> QED
  BY <1>4, <1>5

\* One more event with a timestamp of its own: the latest is the later of the two.
LEMMA LatestGrows ==
  ASSUME NEW events, NEW event, OneKind(events \cup {event}), IsFiniteSet(events)
  PROVE  /\ events = {} => Latest(events \cup {event}) = event
         /\ events # {} => Latest(events \cup {event})
                             = IF event.timestamp >= Latest(events).timestamp
                               THEN event ELSE Latest(events)
         /\ events # {} => Latest(events).timestamp \in Nat
<1>1. OneKind(events) /\ event.timestamp \in Nat
  BY DEF OneKind
<1> DEFINE all == events \cup {event}
           old == Latest(events)
<1>2. all # {}
  OBVIOUS
<1>3. \A e \in all : (\A f \in all : f.timestamp <= e.timestamp) => e = Latest(all)
  BY <1>2, LatestIs
<1>4. CASE events = {}
  <2>1. event \in all /\ \A f \in all : f.timestamp <= event.timestamp
    BY <1>1, <1>4
  <2> QED
    BY <1>3, <1>4, <2>1
<1>5. CASE events # {}
  <2>1. old \in events /\ \A e \in events : e.timestamp <= old.timestamp
    BY <1>1, <1>5, LatestIs
  <2>2. old.timestamp \in Nat
    BY <1>1, <2>1 DEF OneKind
  <2>3. \A e \in events : e.timestamp \in Nat
    BY <1>1 DEF OneKind
  <2> HIDE DEF old
  <2>4. CASE event.timestamp >= old.timestamp
    <3>1. \A f \in all : f.timestamp <= event.timestamp
      BY <1>1, <2>1, <2>2, <2>3, <2>4
    <3> QED
      BY Zenon, <1>3, <1>5, <2>2, <2>4, <3>1 DEF old
  <2>5. CASE ~(event.timestamp >= old.timestamp)
    <3>1. old \in all /\ \A f \in all : f.timestamp <= old.timestamp
      BY <1>1, <2>1, <2>2, <2>3, <2>5
    <3> QED
      BY Zenon, <1>3, <1>5, <2>2, <2>5, <3>1 DEF old
  <2> QED
    BY <2>4, <2>5
<1> QED
  BY <1>4, <1>5

Values(events, field) == {e[field] : e \in events}

\* The greatest value of a field, when an event joins the others.
LEMMA GreatestGrows ==
  ASSUME NEW events, IsFiniteSet(events), NEW event, NEW field,
         \A e \in events \cup {event} : e[field] \in Nat
  PROVE  /\ Greatest(Values(events \cup {event}, field))
              = update_max(Greatest(Values(events, field)), event[field])
         /\ Max(Values(events \cup {event}, field))
              = IF events = {} THEN event[field]
                ELSE Max2(Max(Values(events, field)), event[field])
         /\ events = {} <=> Greatest(Values(events, field)) = None
         /\ events # {} => Greatest(Values(events, field)) \in Nat
<1> DEFINE S == Values(events, field)
           n == event[field]
<1>1. S \subseteq Nat /\ IsFiniteSet(S) /\ n \in Nat /\ (S = {} <=> events = {})
  BY Zenon, FieldFinite DEF Values
<1>2. Values(events \cup {event}, field) = S \cup {n}
  BY DEF Values
<1> HIDE DEF S, n
<1>3. /\ S # {} => Max(S \cup {n}) = Max2(Max(S), n)
      /\ Max({n}) = n
      /\ Greatest(S \cup {n}) = update_max(Greatest(S), n)
  BY Zenon, <1>1, MaxGrows
<1>4. S = {} => S \cup {n} = {n}
  OBVIOUS
<1>5. S # {} => Max(S) \in Nat
  BY Zenon, <1>1, MaxFacts
<1>6. None \notin Nat
  BY EventsAssumption
<1>7. /\ S = {} => Greatest(S) = None
      /\ S # {} => Greatest(S) = Max(S)
  BY DEF Greatest
<1> QED
  BY Zenon, <1>1, <1>2, <1>3, <1>4, <1>5, <1>6, <1>7 DEF S, n

\* The latest of several events has the greatest timestamp.
LEMMA LatestTime ==
  ASSUME NEW events, OneKind(events), events # {}
  PROVE  Latest(events).timestamp = Greatest(Values(events, "timestamp"))
<1> DEFINE S == Values(events, "timestamp")
           l == Latest(events)
<1>1. S \subseteq Nat /\ IsFiniteSet(S) /\ S # {}
  BY FieldFinite DEF Values, OneKind
<1>2. Max(S) \in S /\ \A x \in S : x <= Max(S)
  BY <1>1, MaxFacts DEF IsMax
<1>3. l \in events /\ \A e \in events : e.timestamp <= l.timestamp
  BY LatestIs
<1> DEFINE m == Max(S)
<1> HIDE DEF l, m
<1>4. l.timestamp \in Nat /\ m \in Nat /\ l.timestamp <= m /\ m <= l.timestamp
  BY <1>1, <1>2, <1>3 DEF Values, m
<1>5. l.timestamp = m
  BY <1>4
<1>6. Greatest(S) = m
  BY <1>1 DEF Greatest, m
<1> QED
  BY <1>5, <1>6 DEF l

-----------------------------------------------------------------------------
(* Rules.                                                                   *)

PathsOf(paths) ==
  [t \in {e.target : e \in paths} |->
     [access_rights |-> Union({e \in paths : e.target = t}),
      pathname |-> Latest({e \in paths : e.target = t}).pathname,
      pathname_timestamp |-> Latest({e \in paths : e.target = t}).timestamp]]

PortsOf(ports) == [p \in {e.port : e \in ports} |-> Union({e \in ports : e.port = p})]

\* What a path rule becomes when another event adds to it (MergedPathRule).
LEMMA JoinedRule ==
  ASSUME NEW mask, NEW name, NEW time, NEW more
  PROVE  [[access_rights |-> mask, pathname |-> name, pathname_timestamp |-> time]
            EXCEPT !.access_rights = @ \cup more]
           = [access_rights |-> mask \cup more, pathname |-> name, pathname_timestamp |-> time]
OBVIOUS

\* The rule a further path-beneath event leaves, field by field.
LEMMA MergedFields ==
  ASSUME NEW rules, NEW event, event.target \in DOMAIN rules, NEW mask, NEW name, NEW time,
         rules[event.target]
           = [access_rights |-> mask, pathname |-> name, pathname_timestamp |-> time]
  PROVE  MergedPathRule(rules, event)
           = IF event.timestamp >= time
             THEN [access_rights |-> event.access_rights \cup mask, pathname |-> event.pathname,
                   pathname_timestamp |-> event.timestamp]
             ELSE [access_rights |-> mask \cup event.access_rights, pathname |-> name,
                   pathname_timestamp |-> time]
<1> DEFINE rule == [access_rights |-> mask, pathname |-> name, pathname_timestamp |-> time]
           new == [access_rights |-> event.access_rights, pathname |-> event.pathname,
                   pathname_timestamp |-> event.timestamp]
<1>1. MergedPathRule(rules, event)
        = IF event.timestamp >= rule.pathname_timestamp
          THEN [new EXCEPT !.access_rights = @ \cup rule.access_rights]
          ELSE [rule EXCEPT !.access_rights = @ \cup event.access_rights]
  BY ZenonT(30) DEF MergedPathRule
<1>2. rule.pathname_timestamp = time
  OBVIOUS
<1>3. [new EXCEPT !.access_rights = @ \cup rule.access_rights]
        = [access_rights |-> event.access_rights \cup mask, pathname |-> event.pathname,
           pathname_timestamp |-> event.timestamp]
  <2>1. rule.access_rights = mask
    OBVIOUS
  <2> HIDE DEF rule
  <2> QED
    BY <2>1, JoinedRule
<1>4. [rule EXCEPT !.access_rights = @ \cup event.access_rights]
        = [access_rights |-> mask \cup event.access_rights, pathname |-> name,
           pathname_timestamp |-> time]
  BY JoinedRule
<1> HIDE DEF rule, new
<1> QED
  BY <1>1, <1>2, <1>3, <1>4

\* The path rules of a ruleset, with one more AddRulePathBeneath.
LEMMA PathsGrow ==
  ASSUME NEW paths, IsFiniteSet(paths), NEW event, OneKind(paths \cup {event})
  PROVE  PathsOf(paths \cup {event})
           = Put(PathsOf(paths), event.target, MergedPathRule(PathsOf(paths), event))
<1> DEFINE all == paths \cup {event}
           key == event.target
           old == PathsOf(paths)
           Of(events, t) == {e \in events : e.target = t}
           Rule(events) == [access_rights |-> Union(events), pathname |-> Latest(events).pathname,
                            pathname_timestamp |-> Latest(events).timestamp]
<1>1. /\ DOMAIN old = {e.target : e \in paths}
      /\ \A t \in DOMAIN old : old[t] = Rule(Of(paths, t))
  BY DEF PathsOf
<1>2. PathsOf(all) = [t \in DOMAIN old \cup {key} |-> Rule(Of(all, t))]
  BY <1>1 DEF PathsOf
<1>3. \A t : t # key => Of(all, t) = Of(paths, t)
  OBVIOUS
<1>4. Rule(Of(all, key)) = MergedPathRule(old, event)
  <2> DEFINE same == Of(paths, key)
  <2>1. Of(all, key) = same \cup {event} /\ IsFiniteSet(same)
    BY FS_Subset
  <2>2. OneKind(same \cup {event})
    BY <2>1, FS_AddElement DEF OneKind
  <2>3. Union(same \cup {event}) = Union(same) \cup event.access_rights
    BY DEF Union
  <2>4. key \in DOMAIN old <=> same # {}
    BY <1>1
  <2>5. same = {} => Union(same) = {}
    BY DEF Union
  <2>6. key \in DOMAIN old => old[key] = Rule(same)
    BY <1>1
  <2> HIDE DEF same, old
  <2>7. /\ same = {} => Latest(same \cup {event}) = event
        /\ same # {} => Latest(same \cup {event})
                          = IF event.timestamp >= Latest(same).timestamp
                            THEN event ELSE Latest(same)
    BY <2>1, <2>2, LatestGrows
  <2> DEFINE new == Rule(same \cup {event})
  <2>8. CASE same = {}
    <3>1. new = [access_rights |-> event.access_rights, pathname |-> event.pathname,
                 pathname_timestamp |-> event.timestamp]
      BY <2>3, <2>5, <2>7, <2>8
    <3> QED
      BY Zenon, <2>1, <2>4, <2>8, <3>1 DEF MergedPathRule
  <2>9. CASE same # {}
    <3> DEFINE latest == Latest(same)
               rule == old[key]
    <3>1. rule = [access_rights |-> Union(same), pathname |-> latest.pathname,
                  pathname_timestamp |-> latest.timestamp]
      BY <2>4, <2>6, <2>9
    <3> HIDE DEF latest
    <3>4. MergedPathRule(old, event)
            = IF event.timestamp >= latest.timestamp
              THEN [access_rights |-> event.access_rights \cup Union(same),
                    pathname |-> event.pathname, pathname_timestamp |-> event.timestamp]
              ELSE [access_rights |-> Union(same) \cup event.access_rights,
                    pathname |-> latest.pathname, pathname_timestamp |-> latest.timestamp]
      BY <2>4, <2>9, <3>1, MergedFields
    <3> USE DEF latest
    <3>2. CASE event.timestamp >= latest.timestamp
      <4>1. new = [access_rights |-> Union(same) \cup event.access_rights,
                   pathname |-> event.pathname, pathname_timestamp |-> event.timestamp]
        BY <2>3, <2>7, <2>9, <3>2
      <4>2. MergedPathRule(old, event)
              = [access_rights |-> event.access_rights \cup Union(same),
                 pathname |-> event.pathname, pathname_timestamp |-> event.timestamp]
        BY <3>2, <3>4
      <4> QED
        BY Zenon, <2>1, <4>1, <4>2
    <3>3. CASE ~(event.timestamp >= latest.timestamp)
      <4>1. new = [access_rights |-> Union(same) \cup event.access_rights,
                   pathname |-> latest.pathname, pathname_timestamp |-> latest.timestamp]
        BY <2>3, <2>7, <2>9, <3>3
      <4>2. MergedPathRule(old, event)
              = [access_rights |-> Union(same) \cup event.access_rights,
                 pathname |-> latest.pathname, pathname_timestamp |-> latest.timestamp]
        BY <3>3, <3>4
      <4> QED
        BY <2>1, <4>1, <4>2
    <3> QED
      BY <3>2, <3>3
  <2> QED
    BY <2>8, <2>9
<1> HIDE DEF old, Rule, all
<1>5. Put(old, key, MergedPathRule(old, event))
        = [t \in DOMAIN old \cup {key} |-> IF t = key THEN MergedPathRule(old, event) ELSE old[t]]
  BY DEF Put
<1>6. \A t \in DOMAIN old \cup {key} :
        Rule(Of(all, t)) = IF t = key THEN MergedPathRule(old, event) ELSE old[t]
  BY Zenon, <1>1, <1>3, <1>4
<1> QED
  BY Zenon, <1>2, <1>5, <1>6 DEF all, old

\* The port rules of a ruleset, with one more AddRuleNetPort.
LEMMA PortsGrow ==
  ASSUME NEW ports, NEW event
  PROVE  PortsOf(ports \cup {event})
           = Put(PortsOf(ports), event.port,
                 Lookup(PortsOf(ports), event.port, {}) \cup event.access_rights)
<1> DEFINE all == ports \cup {event}
           key == event.port
           old == PortsOf(ports)
           Of(events, p) == {e \in events : e.port = p}
           merged == Lookup(old, key, {}) \cup event.access_rights
<1>1. /\ DOMAIN old = {e.port : e \in ports}
      /\ \A p \in DOMAIN old : old[p] = Union(Of(ports, p))
  BY DEF PortsOf
<1>2. PortsOf(all) = [p \in DOMAIN old \cup {key} |-> Union(Of(all, p))]
  BY <1>1 DEF PortsOf
<1>3. \A p : p # key => Of(all, p) = Of(ports, p)
  OBVIOUS
<1>4. Union(Of(all, key)) = merged
  <2>1. Of(all, key) = Of(ports, key) \cup {event}
    OBVIOUS
  <2>2. Union(Of(ports, key) \cup {event}) = Union(Of(ports, key)) \cup event.access_rights
    BY DEF Union
  <2>3. Union({}) = {}
    BY DEF Union
  <2>4. Lookup(old, key, {}) = Union(Of(ports, key))
    <3>1. CASE key \in DOMAIN old
      BY <1>1, <3>1 DEF Lookup
    <3>2. CASE key \notin DOMAIN old
      <4>1. Of(ports, key) = {}
        BY <1>1, <3>2
      <4> QED
        BY <2>3, <3>2, <4>1 DEF Lookup
    <3> QED
      BY <3>1, <3>2
  <2> QED
    BY <2>1, <2>2, <2>4
<1> HIDE DEF old, merged, all
<1>5. Put(old, key, merged)
        = [p \in DOMAIN old \cup {key} |-> IF p = key THEN merged ELSE old[p]]
  BY DEF Put
<1>6. \A p \in DOMAIN old \cup {key} : Union(Of(all, p)) = IF p = key THEN merged ELSE old[p]
  BY Zenon, <1>1, <1>3, <1>4
<1> QED
  BY Zenon, <1>2, <1>5, <1>6 DEF all, old, merged

-----------------------------------------------------------------------------
(* A ruleset, from the events about it.                                     *)

\* A RulesetState from its fields, in their order.
Ruleset(life, time, masks, max, final, free, paths, ports) ==
  [lifecycle |-> life, creation_timestamp |-> time, handled |-> masks,
   max_observed_version |-> max, final_version |-> final, free_timestamp |-> free,
   filesystem_rules |-> paths, network_rules |-> ports]

\* The fields of a ruleset record, and the one-field updates below.
LEMMA RulesetFields ==
  ASSUME NEW life, NEW time, NEW masks, NEW max, NEW final, NEW free, NEW paths, NEW ports,
         NEW s, s = Ruleset(life, time, masks, max, final, free, paths, ports)
  PROVE  /\ s.lifecycle = life /\ s.creation_timestamp = time /\ s.handled = masks
         /\ s.max_observed_version = max /\ s.final_version = final
         /\ s.free_timestamp = free /\ s.filesystem_rules = paths /\ s.network_rules = ports
BY DEF Ruleset

\* Updates of one field.
LEMMA WithLife ==
  ASSUME NEW life, NEW time, NEW masks, NEW max, NEW final, NEW free, NEW paths, NEW ports,
         NEW s, s = Ruleset(life, time, masks, max, final, free, paths, ports), NEW x
  PROVE  [s EXCEPT !.lifecycle = x]
           = Ruleset(x, time, masks, max, final, free, paths, ports)
BY DEF Ruleset

LEMMA WithTime ==
  ASSUME NEW life, NEW time, NEW masks, NEW max, NEW final, NEW free, NEW paths, NEW ports,
         NEW s, s = Ruleset(life, time, masks, max, final, free, paths, ports), NEW x
  PROVE  [s EXCEPT !.creation_timestamp = x]
           = Ruleset(life, x, masks, max, final, free, paths, ports)
BY DEF Ruleset

LEMMA WithMasks ==
  ASSUME NEW life, NEW time, NEW masks, NEW max, NEW final, NEW free, NEW paths, NEW ports,
         NEW s, s = Ruleset(life, time, masks, max, final, free, paths, ports), NEW x
  PROVE  [s EXCEPT !.handled = x]
           = Ruleset(life, time, x, max, final, free, paths, ports)
BY DEF Ruleset

LEMMA WithMax ==
  ASSUME NEW life, NEW time, NEW masks, NEW max, NEW final, NEW free, NEW paths, NEW ports,
         NEW s, s = Ruleset(life, time, masks, max, final, free, paths, ports), NEW x
  PROVE  [s EXCEPT !.max_observed_version = x]
           = Ruleset(life, time, masks, x, final, free, paths, ports)
BY DEF Ruleset

LEMMA WithFinal ==
  ASSUME NEW life, NEW time, NEW masks, NEW max, NEW final, NEW free, NEW paths, NEW ports,
         NEW s, s = Ruleset(life, time, masks, max, final, free, paths, ports), NEW x
  PROVE  [s EXCEPT !.final_version = x]
           = Ruleset(life, time, masks, max, x, free, paths, ports)
BY DEF Ruleset

LEMMA WithFree ==
  ASSUME NEW life, NEW time, NEW masks, NEW max, NEW final, NEW free, NEW paths, NEW ports,
         NEW s, s = Ruleset(life, time, masks, max, final, free, paths, ports), NEW x
  PROVE  [s EXCEPT !.free_timestamp = x]
           = Ruleset(life, time, masks, max, final, x, paths, ports)
BY DEF Ruleset

LEMMA WithPaths ==
  ASSUME NEW life, NEW time, NEW masks, NEW max, NEW final, NEW free, NEW paths, NEW ports,
         NEW s, s = Ruleset(life, time, masks, max, final, free, paths, ports), NEW x
  PROVE  [s EXCEPT !.filesystem_rules = x]
           = Ruleset(life, time, masks, max, final, free, x, ports)
BY DEF Ruleset

LEMMA WithPorts ==
  ASSUME NEW life, NEW time, NEW masks, NEW max, NEW final, NEW free, NEW paths, NEW ports,
         NEW s, s = Ruleset(life, time, masks, max, final, free, paths, ports), NEW x
  PROVE  [s EXCEPT !.network_rules = x]
           = Ruleset(life, time, masks, max, final, free, paths, x)
BY DEF Ruleset

Life(frees) == IF frees = {} THEN "Allocated" ELSE "Deallocated"

MasksOf(creates) == IF creates = {} THEN None ELSE Latest(creates).handled

\* RulesetFacts, with the events of each kind and all that use the ruleset.
RulesetOf(creates, frees, paths, ports, uses) ==
  Ruleset(Life(frees), Greatest(Values(creates, "timestamp")), MasksOf(creates),
          Max(Values(uses, "ruleset_version")), Greatest(Values(frees, "ruleset_version")),
          Greatest(Values(frees, "timestamp")), PathsOf(paths), PortsOf(ports))

\* What is in the map is what the events before said; nothing if unknown.
RulesetSaid(map, id, creates, frees, paths, ports, uses) ==
  IF id \in DOMAIN map
  THEN map[id] = RulesetOf(creates, frees, paths, ports, uses) /\ uses # {}
  ELSE creates = {} /\ frees = {} /\ paths = {} /\ ports = {} /\ uses = {}

\* The fields of a new ruleset are what no events say.
LEMMA NothingSaid ==
  /\ Greatest(Values({}, "timestamp")) = None /\ Greatest(Values({}, "ruleset_version")) = None
  /\ Life({}) = "Allocated" /\ MasksOf({}) = None
  /\ PathsOf({}) = EmptyMap /\ PortsOf({}) = EmptyMap
<1>1. Values({}, "timestamp") = {} /\ Values({}, "ruleset_version") = {}
  BY DEF Values
<1>2. PathsOf({}) = EmptyMap
  BY DEF PathsOf, EmptyMap
<1>3. PortsOf({}) = EmptyMap
  BY DEF PortsOf, EmptyMap
<1> QED
  BY <1>1, <1>2, <1>3 DEF Greatest, Life, MasksOf

Used(map, id, version) ==
  update_version(mark_allocated(Lookup(map, id, NewRuleset("Allocated", version))), version)

\* Materializing a ruleset at a version: only its greatest version may change.
LEMMA UsedOf ==
  ASSUME NEW map, NEW id, NEW event, NEW creates, NEW frees, NEW paths, NEW ports, NEW uses,
         IsFiniteSet(uses), \A e \in uses \cup {event} : e.ruleset_version \in Nat,
         RulesetSaid(map, id, creates, frees, paths, ports, uses)
  PROVE  Used(map, id, event.ruleset_version)
           = RulesetOf(creates, frees, paths, ports, uses \cup {event})
<1> DEFINE version == event.ruleset_version
           s == Lookup(map, id, NewRuleset("Allocated", version))
           life == Life(frees)
           time == Greatest(Values(creates, "timestamp"))
           masks == MasksOf(creates)
           final == Greatest(Values(frees, "ruleset_version"))
           free == Greatest(Values(frees, "timestamp"))
           fs == PathsOf(paths)
           net == PortsOf(ports)
           max == Max(Values(uses, "ruleset_version"))
           now == Max(Values(uses \cup {event}, "ruleset_version"))
<1>1. version \in Nat
  OBVIOUS
<1>2. now = IF uses = {} THEN version ELSE Max2(max, version)
  BY GreatestGrows
<1>3. life \in {"Allocated", "Deallocated"}
  BY DEF Life
<1>4. RulesetOf(creates, frees, paths, ports, uses \cup {event})
        = Ruleset(life, time, masks, now, final, free, fs, net)
  BY DEF RulesetOf
<1>5. s = Ruleset(life, time, masks, IF uses = {} THEN version ELSE max, final, free, fs, net)
  <2>1. CASE id \in DOMAIN map
    BY <2>1 DEF Lookup, RulesetSaid, RulesetOf
  <2>2. CASE id \notin DOMAIN map
    <3>1. creates = {} /\ frees = {} /\ paths = {} /\ ports = {} /\ uses = {}
      BY <2>2 DEF RulesetSaid
    <3>2. s = Ruleset("Allocated", None, None, version, None, None, EmptyMap, EmptyMap)
      BY <2>2 DEF Lookup, NewRuleset, Ruleset
    <3>3. /\ life = "Allocated" /\ time = None /\ masks = None /\ final = None /\ free = None
          /\ fs = EmptyMap /\ net = EmptyMap
      BY <3>1, NothingSaid
    <3> HIDE DEF s, life, time, masks, final, free, fs, net, max
    <3> QED
      BY <3>1, <3>2, <3>3
  <2> QED
    BY <2>1, <2>2
<1>6. Used(map, id, version) = update_version(mark_allocated(s), version)
  BY DEF Used
<1> DEFINE top == IF uses = {} THEN version ELSE max
<1>7. now = Max2(top, version)
  BY <1>1, <1>2 DEF Max2
<1>10. s = Ruleset(life, time, masks, top, final, free, fs, net)
  BY <1>5
<1> HIDE DEF s, life, time, masks, final, free, fs, net, max, top, now, version
<1>8. mark_allocated(s) = s
  <2>1. s.lifecycle = life
    BY <1>10, RulesetFields
  <2>2. mark_allocated(s) = [s EXCEPT !.lifecycle = life]
    BY <1>3, <2>1 DEF mark_allocated
  <2> QED
    BY <1>10, <2>2, WithLife
<1>9. update_version(s, version) = Ruleset(life, time, masks, now, final, free, fs, net)
  <2>1. s.max_observed_version = top
    BY <1>10, RulesetFields
  <2>2. update_version(s, version) = [s EXCEPT !.max_observed_version = now]
    BY <1>7, <2>1 DEF update_version
  <2> QED
    BY <1>10, <2>2, WithMax
<1> QED
  BY <1>4, <1>6, <1>8, <1>9 DEF version

\* What CreateRuleset, FreeRuleset and the rules write, of a used or looked-up
\* state.
CreatedRuleset(s, event) ==
  IF Replaces(event.timestamp, s.creation_timestamp)
  THEN [s EXCEPT !.creation_timestamp = event.timestamp, !.handled = event.handled]
  ELSE s

WithPathRule(s, event) ==
  [s EXCEPT !.filesystem_rules = Put(@, event.target, MergedPathRule(@, event))]

WithPortRule(s, event) ==
  [s EXCEPT !.network_rules =
     Put(@, event.port, Lookup(@, event.port, {}) \cup event.access_rights)]

FreedRuleset(map, id, event) ==
  LET state == Lookup(map, id, NewRuleset("Deallocated", event.ruleset_version))
      freed == [state EXCEPT
                  !.lifecycle = "Deallocated",
                  !.free_timestamp = update_max(@, event.timestamp),
                  !.final_version = update_max(@, event.ruleset_version)]
  IN update_version(freed, event.ruleset_version)

\* Creation events: the latest says what is handled.
LEMMA CreatedOf ==
  ASSUME NEW event, NEW creates, NEW frees, NEW paths, NEW ports, NEW uses,
         OneKind(creates \cup {event}), IsFiniteSet(creates),
         NEW s, s = RulesetOf(creates, frees, paths, ports, uses)
  PROVE  CreatedRuleset(s, event) = RulesetOf(creates \cup {event}, frees, paths, ports, uses)
<1> DEFINE life == Life(frees)
           time == Greatest(Values(creates, "timestamp"))
           masks == MasksOf(creates)
           max == Max(Values(uses, "ruleset_version"))
           final == Greatest(Values(frees, "ruleset_version"))
           free == Greatest(Values(frees, "timestamp"))
           fs == PathsOf(paths)
           net == PortsOf(ports)
           time2 == Greatest(Values(creates \cup {event}, "timestamp"))
           masks2 == MasksOf(creates \cup {event})
<1>1. s = Ruleset(life, time, masks, max, final, free, fs, net)
  BY DEF RulesetOf
<1>2. RulesetOf(creates \cup {event}, frees, paths, ports, uses)
        = Ruleset(life, time2, masks2, max, final, free, fs, net)
  BY DEF RulesetOf
<1>3. \A e \in creates \cup {event} : e.timestamp \in Nat
  BY DEF OneKind
<1>4. /\ time2 = update_max(time, event.timestamp)
      /\ creates = {} <=> time = None
      /\ creates # {} => time \in Nat
  <2>1. \A e \in creates \cup {event} : e["timestamp"] \in Nat
    BY <1>3
  <2>2. time2 = update_max(time, event["timestamp"])
    BY <2>1, GreatestGrows
  <2>3. creates = {} <=> time = None
    BY Zenon, <2>1, GreatestGrows
  <2>4. creates # {} => time \in Nat
    BY Zenon, <2>1, GreatestGrows
  <2> QED
    BY <2>2, <2>3, <2>4
<1>11. event.timestamp \in Nat
  BY <1>3
<1>5. creates # {} => Latest(creates).timestamp = time
  <2> SUFFICES ASSUME creates # {} PROVE Latest(creates).timestamp = time
    OBVIOUS
  <2>1. OneKind(creates)
    BY FS_Subset DEF OneKind
  <2> QED
    BY <2>1, LatestTime
<1>6. Latest(creates \cup {event})
        = IF creates = {} \/ event.timestamp >= time THEN event ELSE Latest(creates)
  <2>1. /\ creates = {} => Latest(creates \cup {event}) = event
        /\ creates # {} => Latest(creates \cup {event})
                             = IF event.timestamp >= Latest(creates).timestamp
                               THEN event ELSE Latest(creates)
    BY Zenon, LatestGrows
  <2> QED
    BY <1>5, <2>1
<1>7. masks2 = IF creates = {} \/ event.timestamp >= time THEN event.handled ELSE masks
  BY <1>6 DEF MasksOf
<1> HIDE DEF life, time, masks, max, final, free, fs, net, time2, masks2
<1>8. s.creation_timestamp = time
  BY <1>1, RulesetFields
<1>9. CASE creates = {} \/ event.timestamp >= time
  <2>1. time2 = event.timestamp /\ masks2 = event.handled
    BY <1>4, <1>7, <1>9, <1>11 DEF update_max, Max2
  <2>2. Replaces(event.timestamp, s.creation_timestamp)
    BY <1>4, <1>8, <1>9 DEF Replaces
  <2>3. PICK t : t = [s EXCEPT !.creation_timestamp = time2]
    BY Zenon
  <2>4. t = Ruleset(life, time2, masks, max, final, free, fs, net)
    BY <1>1, <2>3, WithTime
  <2>5. [t EXCEPT !.handled = masks2]
          = Ruleset(life, time2, masks2, max, final, free, fs, net)
    BY <2>4, WithMasks
  <2>6. [s EXCEPT !.creation_timestamp = time2, !.handled = masks2]
          = [t EXCEPT !.handled = masks2]
    BY <2>3
  <2> QED
    BY <1>2, <2>1, <2>2, <2>5, <2>6 DEF CreatedRuleset
<1>10. CASE ~(creates = {} \/ event.timestamp >= time)
  <2>1. time2 = time /\ masks2 = masks /\ ~Replaces(event.timestamp, s.creation_timestamp)
    BY <1>4, <1>7, <1>8, <1>10, <1>11 DEF update_max, Max2, Replaces
  <2> QED
    BY <1>1, <1>2, <2>1 DEF CreatedRuleset
<1> QED
  BY <1>9, <1>10

\* Free events: final version and timestamp are the greatest.
LEMMA FreedOf ==
  ASSUME NEW map, NEW id, NEW event, NEW creates, NEW frees, NEW paths, NEW ports, NEW uses,
         IsFiniteSet(uses), \A e \in uses \cup {event} : e.ruleset_version \in Nat,
         IsFiniteSet(frees), frees \subseteq uses,
         \A e \in frees \cup {event} : e.timestamp \in Nat,
         RulesetSaid(map, id, creates, frees, paths, ports, uses)
  PROVE  FreedRuleset(map, id, event)
           = RulesetOf(creates, frees \cup {event}, paths, ports, uses \cup {event})
<1> DEFINE version == event.ruleset_version
           s == Lookup(map, id, NewRuleset("Deallocated", version))
           time == Greatest(Values(creates, "timestamp"))
           masks == MasksOf(creates)
           final == Greatest(Values(frees, "ruleset_version"))
           free == Greatest(Values(frees, "timestamp"))
           final2 == Greatest(Values(frees \cup {event}, "ruleset_version"))
           free2 == Greatest(Values(frees \cup {event}, "timestamp"))
           fs == PathsOf(paths)
           net == PortsOf(ports)
           max == Max(Values(uses, "ruleset_version"))
           now == Max(Values(uses \cup {event}, "ruleset_version"))
           top == IF uses = {} THEN version ELSE max
<1>1. version \in Nat
  OBVIOUS
<1>2. now = Max2(top, version)
  <2>1. now = IF uses = {} THEN version ELSE Max2(max, version)
    BY GreatestGrows
  <2> QED
    BY <1>1, <2>1 DEF Max2
<1>3. /\ final2 = update_max(final, version)
      /\ free2 = update_max(free, event.timestamp)
  <2>1. \A e \in frees \cup {event} : e.ruleset_version \in Nat
    OBVIOUS
  <2> QED
    BY <2>1, GreatestGrows
<1>4. RulesetOf(creates, frees \cup {event}, paths, ports, uses \cup {event})
        = Ruleset("Deallocated", time, masks, now, final2, free2, fs, net)
  <2>1. Life(frees \cup {event}) = "Deallocated"
    BY DEF Life
  <2> QED
    BY <2>1 DEF RulesetOf
<1>5. PICK life : s = Ruleset(life, time, masks, top, final, free, fs, net)
  <2>1. CASE id \in DOMAIN map
    BY <2>1 DEF Lookup, RulesetSaid, RulesetOf
  <2>2. CASE id \notin DOMAIN map
    <3>1. creates = {} /\ frees = {} /\ paths = {} /\ ports = {} /\ uses = {}
      BY <2>2 DEF RulesetSaid
    <3>2. s = Ruleset("Deallocated", None, None, version, None, None, EmptyMap, EmptyMap)
      BY <2>2 DEF Lookup, NewRuleset, Ruleset
    <3>3. /\ time = None /\ masks = None /\ final = None /\ free = None
          /\ fs = EmptyMap /\ net = EmptyMap
      BY <3>1, NothingSaid
    <3> HIDE DEF s, time, masks, final, free, fs, net, max
    <3> QED
      BY <3>1, <3>2, <3>3
  <2> QED
    BY <2>1, <2>2
<1> DEFINE freed == [s EXCEPT !.lifecycle = "Deallocated",
                              !.free_timestamp = update_max(@, event.timestamp),
                              !.final_version = update_max(@, version)]
<1> HIDE DEF s, time, masks, final, free, fs, net, max, top, now, version, final2, free2
<1>6. s.free_timestamp = free /\ s.final_version = final
  BY <1>5, RulesetFields
<1>7. PICK t : t = [s EXCEPT !.lifecycle = "Deallocated"]
  BY Zenon
<1>8. t = Ruleset("Deallocated", time, masks, top, final, free, fs, net)
  BY <1>5, <1>7, WithLife
<1>9. t.free_timestamp = free
  BY <1>8, RulesetFields
<1>10. PICK u : u = [t EXCEPT !.free_timestamp = free2]
  BY Zenon
<1>11. u = Ruleset("Deallocated", time, masks, top, final, free2, fs, net)
  BY <1>8, <1>10, WithFree
<1>12. u.final_version = final
  BY <1>11, RulesetFields
<1>13. PICK v : v = [u EXCEPT !.final_version = final2]
  BY Zenon
<1>14. v = Ruleset("Deallocated", time, masks, top, final2, free2, fs, net)
  BY <1>11, <1>13, WithFinal
<1>15. freed = v
  BY <1>3, <1>6, <1>7, <1>9, <1>10, <1>12, <1>13
<1>16. v.max_observed_version = top
  BY <1>14, RulesetFields
<1>17. [v EXCEPT !.max_observed_version = now]
         = Ruleset("Deallocated", time, masks, now, final2, free2, fs, net)
  BY <1>14, WithMax
<1>18. update_version(v, version)
         = Ruleset("Deallocated", time, masks, now, final2, free2, fs, net)
  BY <1>2, <1>16, <1>17 DEF update_version
<1> HIDE DEF freed
<1>19. update_version(freed, version)
         = RulesetOf(creates, frees \cup {event}, paths, ports, uses \cup {event})
  BY <1>4, <1>15, <1>18
<1> QED
  BY <1>19 DEF freed, version, s, FreedRuleset

\* Path-beneath and port rules.
LEMMA PathOf ==
  ASSUME NEW event, NEW creates, NEW frees, NEW paths, NEW ports, NEW uses,
         OneKind(paths \cup {event}), IsFiniteSet(paths),
         NEW s, s = RulesetOf(creates, frees, paths, ports, uses)
  PROVE  WithPathRule(s, event)
           = RulesetOf(creates, frees, paths \cup {event}, ports, uses)
<1> DEFINE fs == PathsOf(paths)
           fs2 == PathsOf(paths \cup {event})
<1>1. fs2 = Put(fs, event.target, MergedPathRule(fs, event))
  BY PathsGrow
<1>2. s.filesystem_rules = fs
  BY RulesetFields DEF RulesetOf
<1>3. [s EXCEPT !.filesystem_rules = fs2]
        = RulesetOf(creates, frees, paths \cup {event}, ports, uses)
  BY WithPaths DEF RulesetOf
<1> HIDE DEF fs, fs2
<1> QED
  BY <1>1, <1>2, <1>3 DEF WithPathRule

\* Applying AddRuleNetPort to one ruleset.
LEMMA PortOf ==
  ASSUME NEW event, NEW creates, NEW frees, NEW paths, NEW ports, NEW uses,
         NEW s, s = RulesetOf(creates, frees, paths, ports, uses)
  PROVE  WithPortRule(s, event)
           = RulesetOf(creates, frees, paths, ports \cup {event}, uses)
<1> DEFINE net == PortsOf(ports)
           net2 == PortsOf(ports \cup {event})
<1>1. net2 = Put(net, event.port, Lookup(net, event.port, {}) \cup event.access_rights)
  BY PortsGrow
<1>2. s.network_rules = net
  BY RulesetFields DEF RulesetOf
<1>3. [s EXCEPT !.network_rules = net2]
        = RulesetOf(creates, frees, paths, ports \cup {event}, uses)
  BY WithPorts DEF RulesetOf
<1> HIDE DEF net, net2
<1> QED
  BY <1>1, <1>2, <1>3 DEF WithPortRule

-----------------------------------------------------------------------------
(* The events about one object, as one more is applied.                     *)

RulesetVariants == {"CreateRuleset", "AddRulePathBeneath", "AddRuleNetPort", "FreeRuleset"}

\* About, for an event.
IsAbout(event, variants, id) ==
  /\ event.variant \in variants
  /\ IF event.variant \in RulesetVariants THEN event.ruleset_id = id ELSE event.domain_id = id

\* The events about an object, after one more event.
LEMMA AboutGrows ==
  ASSUME NEW event, applied' = applied \cup {event}, NEW variants, NEW id
  PROVE  About(variants, id)'
           = IF IsAbout(event, variants, id) THEN About(variants, id) \cup {event}
             ELSE About(variants, id)
BY DEF About, IsAbout, RulesetVariants

AppliedGood == applied \subseteq Events /\ IsFiniteSet(applied)

\* The events about an object are finitely many applied ones.
LEMMA AboutFacts ==
  ASSUME AppliedGood, NEW variants, NEW id
  PROVE  /\ IsFiniteSet(About(variants, id))
         /\ \A e \in About(variants, id) :
              e \in applied /\ e \in Events /\ e.variant \in variants /\ e.timestamp \in Nat
<1>1. About(variants, id) \subseteq applied
  BY DEF About
<1>2. IsFiniteSet(About(variants, id))
  BY <1>1, FS_Subset DEF AppliedGood
<1>3. \A e \in About(variants, id) : e \in applied /\ e.variant \in variants
  BY DEF About
<1> QED
  BY <1>2, <1>3, EventsAssumption DEF AppliedGood

\* The events that name a version of a ruleset, after one more event.
LEMMA UsesGrow ==
  ASSUME NEW event, applied' = applied \cup {event}, NEW r
  PROVE  UsesOf(r)' = IF event.variant \in RulesetVariants \cup {"CreateDomain"}
                           /\ event.ruleset_id = r
                      THEN UsesOf(r) \cup {event} ELSE UsesOf(r)
<1>1. About(RulesetVariants, r)'
        = IF IsAbout(event, RulesetVariants, r) THEN About(RulesetVariants, r) \cup {event}
          ELSE About(RulesetVariants, r)
  BY AboutGrows
<1> DEFINE Creates == {e \in applied : e.variant = "CreateDomain" /\ e.ruleset_id = r}
<1>2. Creates' = IF event.variant = "CreateDomain" /\ event.ruleset_id = r
                 THEN Creates \cup {event} ELSE Creates
  OBVIOUS
<1>3. UsesOf(r) = About(RulesetVariants, r) \cup Creates
  BY DEF UsesOf, RulesetVariants
<1>4. UsesOf(r)' = About(RulesetVariants, r)' \cup Creates'
  BY DEF UsesOf, RulesetVariants
<1>5. "CreateDomain" \notin RulesetVariants
  BY DEF RulesetVariants
<1> DEFINE A == About(RulesetVariants, r)
<1> HIDE DEF Creates, A
<1> QED
  BY <1>1, <1>2, <1>3, <1>4, <1>5 DEF IsAbout, A

\* The events that name a version of a ruleset are finitely many.
LEMMA UsesFacts ==
  ASSUME AppliedGood, NEW r
  PROVE  /\ IsFiniteSet(UsesOf(r))
         /\ \A e \in UsesOf(r) : e.ruleset_version \in Nat
<1>1. UsesOf(r) \subseteq applied
  BY DEF UsesOf, About
<1>2. IsFiniteSet(UsesOf(r))
  BY <1>1, FS_Subset DEF AppliedGood
<1>3. \A e \in UsesOf(r) : e.variant \in RulesetVariants \cup {"CreateDomain"}
  BY DEF UsesOf, About, RulesetVariants
<1> QED
  BY <1>1, <1>2, <1>3, EventsAssumption DEF AppliedGood, RulesetVariants

\* Under one story the events of one variant about an object are of one kind.
LEMMA KindGrows ==
  ASSUME AppliedGood, NEW event \in Events, OneStory(applied \cup {event}), NEW id
  PROVE  OneKind(About({event.variant}, id) \cup {event})
<1> DEFINE kind == About({event.variant}, id)
<1>1. IsFiniteSet(kind \cup {event})
  BY AboutFacts, FS_AddElement
<1>2. \A e \in kind \cup {event} : /\ e \in applied \cup {event} /\ e.timestamp \in Nat
                                   /\ e.variant = event.variant
  BY AboutFacts, EventsAssumption
<1>3. \A e, f \in applied \cup {event} :
        (e.variant = f.variant /\ e.timestamp = f.timestamp) => e = f
  BY DEF OneStory
<1> HIDE DEF kind
<1> QED
  BY Zenon, <1>1, <1>2, <1>3 DEF OneKind, kind

\* What is said of a ruleset when a map entry is written.
LEMMA PutSaid ==
  ASSUME NEW map, NEW id, NEW s, NEW r, NEW creates, NEW frees, NEW paths, NEW ports, NEW uses,
         IF r = id THEN s = RulesetOf(creates, frees, paths, ports, uses) /\ uses # {}
         ELSE RulesetSaid(map, r, creates, frees, paths, ports, uses)
  PROVE  RulesetSaid(Put(map, id, s), r, creates, frees, paths, ports, uses)
<1>1. DOMAIN Put(map, id, s) = DOMAIN map \cup {id}
  BY DEF Put
<1>2. r \in DOMAIN map \cup {id} => Put(map, id, s)[r] = IF r = id THEN s ELSE map[r]
  BY DEF Put
<1> QED
  BY <1>1, <1>2 DEF RulesetSaid

RulesetTold(r) ==
  RulesetSaid(rulesets, r, About({"CreateRuleset"}, r), About({"FreeRuleset"}, r),
              About({"AddRulePathBeneath"}, r), About({"AddRuleNetPort"}, r), UsesOf(r))

RulesetsTold == \A r : RulesetTold(r)

\* After apply each ruleset is what the events say, the new one included.
LEMMA RulesetToldStep ==
  ASSUME AppliedGood, RulesetsTold, NEW event \in Events, Apply(event),
         OneStory(applied \cup {event}), NEW r
  PROVE  RulesetTold(r)'
<1> DEFINE C == About({"CreateRuleset"}, r)
           F == About({"FreeRuleset"}, r)
           P == About({"AddRulePathBeneath"}, r)
           N == About({"AddRuleNetPort"}, r)
           U == UsesOf(r)
           id == event.ruleset_id
           v == event.variant
           With(events, kind) == IF v = kind /\ id = r THEN events \cup {event} ELSE events
           U2 == IF v \in RulesetVariants \cup {"CreateDomain"} /\ id = r
                 THEN U \cup {event} ELSE U
<1>1. applied' = applied \cup {event}
  BY DEF Apply
<1>2. /\ C' = With(C, "CreateRuleset") /\ F' = With(F, "FreeRuleset")
      /\ P' = With(P, "AddRulePathBeneath") /\ N' = With(N, "AddRuleNetPort")
  <2>1. \A kind \in RulesetVariants : IsAbout(event, {kind}, r) <=> v = kind /\ id = r
    BY DEF IsAbout
  <2>2. {"CreateRuleset", "FreeRuleset", "AddRulePathBeneath", "AddRuleNetPort"}
          \subseteq RulesetVariants
    BY DEF RulesetVariants
  <2>3. C' = With(C, "CreateRuleset")
    BY Zenon, <1>1, <2>1, <2>2, AboutGrows
  <2>4. F' = With(F, "FreeRuleset")
    BY Zenon, <1>1, <2>1, <2>2, AboutGrows
  <2>5. P' = With(P, "AddRulePathBeneath")
    BY <1>1, <2>1, <2>2, AboutGrows
  <2>6. N' = With(N, "AddRuleNetPort")
    BY Zenon, <1>1, <2>1, <2>2, AboutGrows
  <2> QED
    BY <2>3, <2>4, <2>5, <2>6
<1>3. U' = U2
  BY <1>1, UsesGrow
<1>4. RulesetSaid(rulesets, r, C, F, P, N, U)
  BY DEF RulesetsTold, RulesetTold
<1>5. IsFiniteSet(U) /\ \A e \in U : e.ruleset_version \in Nat
  BY UsesFacts
<1>6. IsFiniteSet(C) /\ IsFiniteSet(F) /\ IsFiniteSet(P)
  BY AboutFacts
<1>7. F \subseteq U /\ (\A e \in F : e.timestamp \in Nat) /\ event.timestamp \in Nat
  <2>1. F \subseteq U
    BY DEF UsesOf, About
  <2> QED
    BY <2>1, AboutFacts, EventsAssumption
<1>8. v \in RulesetVariants \cup {"CreateDomain"} => event.ruleset_version \in Nat
  BY EventsAssumption DEF RulesetVariants
<1>9. OneKind(About({v}, r) \cup {event})
  BY KindGrows
<1>10. SUFFICES RulesetSaid(rulesets', r, C', F', P', N', U')
  BY DEF RulesetTold
<1>11. ASSUME NEW s, rulesets' = Put(rulesets, id, s),
              v \in RulesetVariants \cup {"CreateDomain"},
              id = r => s = RulesetOf(With(C, "CreateRuleset"), With(F, "FreeRuleset"),
                                      With(P, "AddRulePathBeneath"),
                                      With(N, "AddRuleNetPort"), U \cup {event})
       PROVE  RulesetSaid(rulesets', r, C', F', P', N', U')
  <2> DEFINE C2 == With(C, "CreateRuleset")
             F2 == With(F, "FreeRuleset")
             P2 == With(P, "AddRulePathBeneath")
             N2 == With(N, "AddRuleNetPort")
  <2>1. id # r => C2 = C /\ F2 = F /\ P2 = P /\ N2 = N /\ U2 = U
    OBVIOUS
  <2>2. id = r => U2 = U \cup {event} /\ U2 # {}
    BY <1>11
  <2>3. /\ id = r => s = RulesetOf(C2, F2, P2, N2, U \cup {event})
        /\ C' = C2 /\ F' = F2 /\ P' = P2 /\ N' = N2
    BY <1>2, <1>11
  <2> HIDE DEF C, F, P, N, U, C2, F2, P2, N2, U2
  <2>4. IF r = id THEN s = RulesetOf(C2, F2, P2, N2, U2) /\ U2 # {}
        ELSE RulesetSaid(rulesets, r, C2, F2, P2, N2, U2)
    BY <1>4, <2>1, <2>2, <2>3
  <2>5. RulesetSaid(Put(rulesets, id, s), r, C2, F2, P2, N2, U2)
    BY <2>4, PutSaid
  <2> QED
    BY <1>3, <1>11, <2>3, <2>5
<1> DEFINE used == UsedRuleset(event)
<1>12. (v \in RulesetVariants \cup {"CreateDomain"} /\ id = r)
         => used = RulesetOf(C, F, P, N, U \cup {event})
  <2> SUFFICES ASSUME v \in RulesetVariants \cup {"CreateDomain"}, id = r
               PROVE  used = RulesetOf(C, F, P, N, U \cup {event})
    OBVIOUS
  <2>1. \A e \in U \cup {event} : e.ruleset_version \in Nat
    BY <1>5, <1>8
  <2>2. used = Used(rulesets, id, event.ruleset_version)
    BY DEF UsedRuleset, Used
  <2> HIDE DEF C, F, P, N, U, used
  <2>3. Used(rulesets, id, event.ruleset_version) = RulesetOf(C, F, P, N, U \cup {event})
    BY <1>4, <1>5, <2>1, UsedOf
  <2> QED
    BY <2>2, <2>3
<1>13. CASE CreateRuleset(event)
  <2> DEFINE s == CreatedRuleset(used, event)
  <2>1. v = "CreateRuleset" /\ rulesets' = Put(rulesets, id, s)
    BY <1>13 DEF CreateRuleset, CreatedRuleset
  <2>2. OneKind(C \cup {event}) /\ v \in RulesetVariants
    BY <1>9, <2>1 DEF RulesetVariants
  <2> HIDE DEF C, F, P, N, U, used
  <2>3. id = r => s = RulesetOf(C \cup {event}, F, P, N, U \cup {event})
    BY <1>6, <1>12, <2>2, CreatedOf
  <2> HIDE DEF s
  <2>4. id = r => s = RulesetOf(With(C, "CreateRuleset"), With(F, "FreeRuleset"),
                                With(P, "AddRulePathBeneath"),
                                With(N, "AddRuleNetPort"), U \cup {event})
    BY <2>1, <2>3
  <2> QED
    BY <1>11, <2>1, <2>2, <2>4
<1>14. CASE AddRulePathBeneath(event)
  <2> DEFINE s == WithPathRule(used, event)
  <2>1. v = "AddRulePathBeneath" /\ rulesets' = Put(rulesets, id, s)
    BY <1>14 DEF AddRulePathBeneath, WithPathRule
  <2>2. OneKind(P \cup {event}) /\ v \in RulesetVariants
    BY <1>9, <2>1 DEF RulesetVariants
  <2> HIDE DEF C, F, P, N, U, used
  <2>3. id = r => s = RulesetOf(C, F, P \cup {event}, N, U \cup {event})
    BY <1>6, <1>12, <2>2, PathOf
  <2> HIDE DEF s
  <2>4. id = r => s = RulesetOf(With(C, "CreateRuleset"), With(F, "FreeRuleset"),
                                With(P, "AddRulePathBeneath"),
                                With(N, "AddRuleNetPort"), U \cup {event})
    BY <2>1, <2>3
  <2> QED
    BY <1>11, <2>1, <2>2, <2>4
<1>15. CASE AddRuleNetPort(event)
  <2> DEFINE s == WithPortRule(used, event)
  <2>1. v = "AddRuleNetPort" /\ rulesets' = Put(rulesets, id, s)
    BY <1>15 DEF AddRuleNetPort, WithPortRule
  <2>2. v \in RulesetVariants
    BY <2>1 DEF RulesetVariants
  <2> HIDE DEF C, F, P, N, U, used
  <2>3. id = r => s = RulesetOf(C, F, P, N \cup {event}, U \cup {event})
    BY <1>12, <2>2, PortOf
  <2> HIDE DEF s
  <2>4. id = r => s = RulesetOf(With(C, "CreateRuleset"), With(F, "FreeRuleset"),
                                With(P, "AddRulePathBeneath"),
                                With(N, "AddRuleNetPort"), U \cup {event})
    BY <2>1, <2>3
  <2> QED
    BY <1>11, <2>1, <2>2, <2>4
<1>16. CASE CreateDomain(event)
  <2>1. v = "CreateDomain" /\ rulesets' = Put(rulesets, id, used)
    BY <1>16 DEF CreateDomain
  <2> HIDE DEF C, F, P, N, U, used
  <2>2. id = r => used = RulesetOf(With(C, "CreateRuleset"), With(F, "FreeRuleset"),
                                   With(P, "AddRulePathBeneath"),
                                   With(N, "AddRuleNetPort"), U \cup {event})
    BY <1>12, <2>1
  <2> QED
    BY <1>11, <2>1, <2>2
<1>17. CASE FreeRuleset(event)
  <2> DEFINE s == FreedRuleset(rulesets, id, event)
  <2>1. v = "FreeRuleset" /\ rulesets' = Put(rulesets, id, s)
    BY <1>17 DEF FreeRuleset, FreedRuleset
  <2>2. v \in RulesetVariants
    BY <2>1 DEF RulesetVariants
  <2>3. /\ \A e \in U \cup {event} : e.ruleset_version \in Nat
        /\ \A e \in F \cup {event} : e.timestamp \in Nat
    BY <1>5, <1>7, <1>8, <2>2
  <2> HIDE DEF C, F, P, N, U, used
  <2>4. id = r => s = RulesetOf(C, F \cup {event}, P, N, U \cup {event})
    BY <1>4, <1>5, <1>6, <1>7, <2>3, FreedOf
  <2> HIDE DEF s
  <2>5. id = r => s = RulesetOf(With(C, "CreateRuleset"), With(F, "FreeRuleset"),
                                With(P, "AddRulePathBeneath"),
                                With(N, "AddRuleNetPort"), U \cup {event})
    BY <2>1, <2>4
  <2> QED
    BY <1>11, <2>1, <2>2, <2>5
<1>18. CASE ApplyDenial(event) \/ FreeDomain(event) \/ EnforceDomain(event)
  <2>1. rulesets' = rulesets /\ v \in DenialVariants \cup {"FreeDomain", "EnforceDomain"}
    BY <1>18 DEF ApplyDenial, FreeDomain, EnforceDomain
  <2>2. /\ v \notin RulesetVariants \cup {"CreateDomain"}
        /\ v # "CreateRuleset" /\ v # "FreeRuleset" /\ v # "AddRulePathBeneath"
        /\ v # "AddRuleNetPort"
    BY <2>1 DEF DenialVariants, RulesetVariants
  <2>3. C' = C /\ F' = F /\ P' = P /\ N' = N /\ U' = U
    BY <1>2, <1>3, <2>2
  <2> HIDE DEF C, F, P, N, U
  <2> QED
    BY <1>4, <2>1, <2>3
<1> QED
  BY <1>13, <1>14, <1>15, <1>16, <1>17, <1>18 DEF Apply

-----------------------------------------------------------------------------
(* A domain, from the events about it.                                      *)

\* A DomainState from its fields, in their order.
Domain(life, time, parent, tgid, comm, ruleset, count, final, free, threads, wide) ==
  [lifecycle |-> life, creation_timestamp |-> time, parent |-> parent, creator_tgid |-> tgid,
   creator_comm |-> comm, ruleset |-> ruleset, cumulative_denial_count |-> count,
   final_denial_count |-> final, free_timestamp |-> free, enforcement_events |-> threads,
   any_process_wide_enforcement |-> wide]

\* The fields of a domain record, and the one-field updates below.
LEMMA DomainFields ==
  ASSUME NEW life, NEW time, NEW parent, NEW tgid, NEW comm, NEW ruleset, NEW count,
         NEW final, NEW free, NEW threads, NEW wide, NEW s,
         s = Domain(life, time, parent, tgid, comm, ruleset, count, final, free, threads, wide)
  PROVE  /\ s.lifecycle = life /\ s.creation_timestamp = time /\ s.parent = parent
         /\ s.creator_tgid = tgid /\ s.creator_comm = comm /\ s.ruleset = ruleset
         /\ s.cumulative_denial_count = count /\ s.final_denial_count = final
         /\ s.free_timestamp = free /\ s.enforcement_events = threads
         /\ s.any_process_wide_enforcement = wide
BY DEF Domain

LEMMA DomainLife ==
  ASSUME NEW life, NEW time, NEW parent, NEW tgid, NEW comm, NEW ruleset, NEW count,
         NEW final, NEW free, NEW threads, NEW wide, NEW s, NEW x,
         s = Domain(life, time, parent, tgid, comm, ruleset, count, final, free, threads, wide)
  PROVE  [s EXCEPT !.lifecycle = x]
           = Domain(x, time, parent, tgid, comm, ruleset, count, final, free, threads, wide)
BY DEF Domain

LEMMA DomainTime ==
  ASSUME NEW life, NEW time, NEW parent, NEW tgid, NEW comm, NEW ruleset, NEW count,
         NEW final, NEW free, NEW threads, NEW wide, NEW s, NEW x,
         s = Domain(life, time, parent, tgid, comm, ruleset, count, final, free, threads, wide)
  PROVE  [s EXCEPT !.creation_timestamp = x]
           = Domain(life, x, parent, tgid, comm, ruleset, count, final, free, threads, wide)
BY DEF Domain

LEMMA DomainParent ==
  ASSUME NEW life, NEW time, NEW parent, NEW tgid, NEW comm, NEW ruleset, NEW count,
         NEW final, NEW free, NEW threads, NEW wide, NEW s, NEW x,
         s = Domain(life, time, parent, tgid, comm, ruleset, count, final, free, threads, wide)
  PROVE  [s EXCEPT !.parent = x]
           = Domain(life, time, x, tgid, comm, ruleset, count, final, free, threads, wide)
BY DEF Domain

LEMMA DomainTgid ==
  ASSUME NEW life, NEW time, NEW parent, NEW tgid, NEW comm, NEW ruleset, NEW count,
         NEW final, NEW free, NEW threads, NEW wide, NEW s, NEW x,
         s = Domain(life, time, parent, tgid, comm, ruleset, count, final, free, threads, wide)
  PROVE  [s EXCEPT !.creator_tgid = x]
           = Domain(life, time, parent, x, comm, ruleset, count, final, free, threads, wide)
BY DEF Domain

LEMMA DomainComm ==
  ASSUME NEW life, NEW time, NEW parent, NEW tgid, NEW comm, NEW ruleset, NEW count,
         NEW final, NEW free, NEW threads, NEW wide, NEW s, NEW x,
         s = Domain(life, time, parent, tgid, comm, ruleset, count, final, free, threads, wide)
  PROVE  [s EXCEPT !.creator_comm = x]
           = Domain(life, time, parent, tgid, x, ruleset, count, final, free, threads, wide)
BY DEF Domain

LEMMA DomainRuleset ==
  ASSUME NEW life, NEW time, NEW parent, NEW tgid, NEW comm, NEW ruleset, NEW count,
         NEW final, NEW free, NEW threads, NEW wide, NEW s, NEW x,
         s = Domain(life, time, parent, tgid, comm, ruleset, count, final, free, threads, wide)
  PROVE  [s EXCEPT !.ruleset = x]
           = Domain(life, time, parent, tgid, comm, x, count, final, free, threads, wide)
BY DEF Domain

LEMMA DomainCount ==
  ASSUME NEW life, NEW time, NEW parent, NEW tgid, NEW comm, NEW ruleset, NEW count,
         NEW final, NEW free, NEW threads, NEW wide, NEW s, NEW x,
         s = Domain(life, time, parent, tgid, comm, ruleset, count, final, free, threads, wide)
  PROVE  [s EXCEPT !.cumulative_denial_count = x]
           = Domain(life, time, parent, tgid, comm, ruleset, x, final, free, threads, wide)
BY DEF Domain

LEMMA DomainFinal ==
  ASSUME NEW life, NEW time, NEW parent, NEW tgid, NEW comm, NEW ruleset, NEW count,
         NEW final, NEW free, NEW threads, NEW wide, NEW s, NEW x,
         s = Domain(life, time, parent, tgid, comm, ruleset, count, final, free, threads, wide)
  PROVE  [s EXCEPT !.final_denial_count = x]
           = Domain(life, time, parent, tgid, comm, ruleset, count, x, free, threads, wide)
BY DEF Domain

LEMMA DomainFree ==
  ASSUME NEW life, NEW time, NEW parent, NEW tgid, NEW comm, NEW ruleset, NEW count,
         NEW final, NEW free, NEW threads, NEW wide, NEW s, NEW x,
         s = Domain(life, time, parent, tgid, comm, ruleset, count, final, free, threads, wide)
  PROVE  [s EXCEPT !.free_timestamp = x]
           = Domain(life, time, parent, tgid, comm, ruleset, count, final, x, threads, wide)
BY DEF Domain

LEMMA DomainThreads ==
  ASSUME NEW life, NEW time, NEW parent, NEW tgid, NEW comm, NEW ruleset, NEW count,
         NEW final, NEW free, NEW threads, NEW wide, NEW s, NEW x,
         s = Domain(life, time, parent, tgid, comm, ruleset, count, final, free, threads, wide)
  PROVE  [s EXCEPT !.enforcement_events = x]
           = Domain(life, time, parent, tgid, comm, ruleset, count, final, free, x, wide)
BY DEF Domain

LEMMA DomainWide ==
  ASSUME NEW life, NEW time, NEW parent, NEW tgid, NEW comm, NEW ruleset, NEW count,
         NEW final, NEW free, NEW threads, NEW wide, NEW s, NEW x,
         s = Domain(life, time, parent, tgid, comm, ruleset, count, final, free, threads, wide)
  PROVE  [s EXCEPT !.any_process_wide_enforcement = x]
           = Domain(life, time, parent, tgid, comm, ruleset, count, final, free, threads, x)
BY DEF Domain

Hierarchy == {"parent_id", "creator_tgid", "creator_comm"}

\* Events agree with one on a domain's parent and creator.
Agree(events, event) == \A e \in events : \A field \in Hierarchy : e[field] = event[field]

\* FromCreation, with the events.
KnownOf(creates, denials, field) ==
  IF creates # {} THEN Latest(creates)[field]
  ELSE IF denials # {} THEN (CHOOSE e \in denials : TRUE)[field]
  ELSE None

RulesetOfCreation(creates) ==
  IF creates = {} THEN None
  ELSE [ruleset_id |-> Latest(creates).ruleset_id,
        ruleset_version |-> Latest(creates).ruleset_version]

CountsOf(creates, denials, frees) ==
  {0 : e \in creates} \cup Values(denials, "cumulative_denial_count")
    \cup Values(frees, "denial_count")

ThreadsOf(enforcements) ==
  [t \in {e.enforcing_tid : e \in enforcements} |->
     Latest({e \in enforcements : e.enforcing_tid = t})]

WideOf(enforcements) == \E e \in enforcements : e.process_wide

\* DomainFacts, with the events of each kind.
DomainOf(creates, denials, frees, enforcements) ==
  Domain(Life(frees), Greatest(Values(creates, "timestamp")),
         KnownOf(creates, denials, "parent_id"), KnownOf(creates, denials, "creator_tgid"),
         KnownOf(creates, denials, "creator_comm"), RulesetOfCreation(creates),
         Greatest(CountsOf(creates, denials, frees)), Greatest(Values(frees, "denial_count")),
         Greatest(Values(frees, "timestamp")), ThreadsOf(enforcements), WideOf(enforcements))

Fresh == NewDomain("Allocated")

\* A domain nothing is said of is the one get_or_create_domain makes.
LEMMA FreshOf == Fresh = DomainOf({}, {}, {}, {})
<1>1. Values({}, "timestamp") = {} /\ Values({}, "denial_count") = {} /\ CountsOf({}, {}, {}) = {}
  BY DEF Values, CountsOf
<1>2. ThreadsOf({}) = EmptyMap
  BY DEF ThreadsOf, EmptyMap
<1>3. WideOf({}) = FALSE
  BY DEF WideOf
<1>4. \A field : KnownOf({}, {}, field) = None
  BY DEF KnownOf
<1>5. RulesetOfCreation({}) = None /\ Greatest({}) = None /\ Life({}) = "Allocated"
  BY DEF RulesetOfCreation, Greatest, Life
<1>6. DomainOf({}, {}, {}, {})
        = Domain("Allocated", None, None, None, None, None, None, None, None, EmptyMap, FALSE)
  BY Zenon, <1>1, <1>2, <1>3, <1>4, <1>5 DEF DomainOf
<1> QED
  BY <1>6 DEF Fresh, NewDomain, Domain

\* What the events say of a domain's life is settled: mark_allocated changes nothing.
LEMMA MarkOf ==
  ASSUME NEW creates, NEW denials, NEW frees, NEW enforcements, NEW s,
         s = DomainOf(creates, denials, frees, enforcements)
  PROVE  mark_allocated(s) = s
<1>1. s.lifecycle = Life(frees)
  BY DomainFields DEF DomainOf
<1>2. Life(frees) \in {"Allocated", "Deallocated"}
  BY DEF Life
<1>3. mark_allocated(s) = [s EXCEPT !.lifecycle = Life(frees)]
  BY <1>1, <1>2 DEF mark_allocated
<1> QED
  BY <1>3, DomainLife DEF DomainOf

\* Whatever the events, what is known of the hierarchy is what each one says.
LEMMA KnownIs ==
  ASSUME NEW creates, NEW denials, NEW event, Agree(creates, event), Agree(denials, event),
         OneKind(creates), NEW field \in Hierarchy
  PROVE  KnownOf(creates, denials, field)
           = IF creates # {} \/ denials # {} THEN event[field] ELSE None
<1>1. CASE creates # {}
  <2>1. Latest(creates) \in creates
    BY <1>1, LatestIs
  <2> DEFINE l == Latest(creates)
  <2> HIDE DEF l
  <2>2. l[field] = event[field]
    BY <2>1 DEF Agree, l
  <2> QED
    BY <1>1, <2>2 DEF KnownOf, l
<1>2. CASE creates = {} /\ denials # {}
  <2> DEFINE c == CHOOSE f \in denials : TRUE
  <2>1. c \in denials
    BY <1>2
  <2> HIDE DEF c
  <2>2. c[field] = event[field]
    BY <2>1 DEF Agree
  <2> QED
    BY <1>2, <2>2 DEF KnownOf, c
<1>3. CASE creates = {} /\ denials = {}
  BY <1>3 DEF KnownOf
<1> QED
  BY <1>1, <1>2, <1>3

CountsGood(creates, denials, frees) ==
  /\ IsFiniteSet(creates) /\ IsFiniteSet(denials) /\ IsFiniteSet(frees)
  /\ \A e \in denials : e.cumulative_denial_count \in Nat
  /\ \A e \in frees : e.denial_count \in Nat

\* The denial count is the greatest count any event carries.
LEMMA CountsGrow ==
  ASSUME NEW creates, NEW denials, NEW frees, CountsGood(creates, denials, frees), NEW n \in Nat
  PROVE  Greatest(CountsOf(creates, denials, frees) \cup {n})
           = update_max(Greatest(CountsOf(creates, denials, frees)), n)
<1> DEFINE S == CountsOf(creates, denials, frees)
           Zero == {0 : e \in creates}
           V == Values(denials, "cumulative_denial_count")
           W == Values(frees, "denial_count")
<1>1. IsFiniteSet(Zero) /\ IsFiniteSet(V) /\ IsFiniteSet(W)
  <2>1. Zero \subseteq {0}
    OBVIOUS
  <2>2. IsFiniteSet(Zero)
    BY Zenon, <2>1, FS_Singleton, FS_Subset
  <2> QED
    BY Zenon, <2>2, FieldFinite DEF CountsGood, Values
<1>2. Zero \subseteq Nat /\ V \subseteq Nat /\ W \subseteq Nat
  BY DEF CountsGood, Values
<1>3. S = Zero \cup V \cup W
  BY DEF CountsOf
<1>4. S \subseteq Nat /\ IsFiniteSet(S)
  <2> HIDE DEF Zero, V, W, S
  <2>1. IsFiniteSet(Zero \cup V)
    BY Zenon, <1>1, FS_Union
  <2>2. IsFiniteSet((Zero \cup V) \cup W)
    BY Zenon, <1>1, <2>1, FS_Union
  <2> QED
    BY <1>2, <1>3, <2>2
<1> HIDE DEF S
<1>5. Greatest(S \cup {n}) = update_max(Greatest(S), n)
  BY ZenonT(30), <1>4, MaxGrows
<1> QED
  BY <1>5 DEF S

\* CreateDomain's write, of a known or fresh domain.
LEMMA CreatedDomainOf ==
  ASSUME NEW event, NEW creates, NEW denials, NEW frees, NEW enforcements,
         OneKind(creates \cup {event}), CountsGood(creates, denials, frees),
         Agree(creates, event), Agree(denials, event),
         NEW s, s = DomainOf(creates, denials, frees, enforcements)
  PROVE  CreatedDomain([s EXCEPT !.cumulative_denial_count = update_max(@, 0)], event)
           = DomainOf(creates \cup {event}, denials, frees, enforcements)
<1> DEFINE life == Life(frees)
           time == Greatest(Values(creates, "timestamp"))
           parent == KnownOf(creates, denials, "parent_id")
           tgid == KnownOf(creates, denials, "creator_tgid")
           comm == KnownOf(creates, denials, "creator_comm")
           ruleset == RulesetOfCreation(creates)
           count == Greatest(CountsOf(creates, denials, frees))
           final == Greatest(Values(frees, "denial_count"))
           free == Greatest(Values(frees, "timestamp"))
           threads == ThreadsOf(enforcements)
           wide == WideOf(enforcements)
           all == creates \cup {event}
           time2 == Greatest(Values(all, "timestamp"))
           parent2 == KnownOf(all, denials, "parent_id")
           tgid2 == KnownOf(all, denials, "creator_tgid")
           comm2 == KnownOf(all, denials, "creator_comm")
           ruleset2 == RulesetOfCreation(all)
           count2 == Greatest(CountsOf(all, denials, frees))
           c == [s EXCEPT !.cumulative_denial_count = update_max(@, 0)]
<1>1. s = Domain(life, time, parent, tgid, comm, ruleset, count, final, free, threads, wide)
  BY DEF DomainOf
<1>2. DomainOf(all, denials, frees, enforcements)
        = Domain(life, time2, parent2, tgid2, comm2, ruleset2, count2, final, free, threads, wide)
  BY DEF DomainOf
<1>3. event.timestamp \in Nat /\ IsFiniteSet(creates) /\ OneKind(creates)
  BY DEF OneKind, CountsGood
<1>4. /\ time2 = update_max(time, event.timestamp)
      /\ creates = {} <=> time = None
      /\ creates # {} => time \in Nat
  <2>1. \A e \in creates \cup {event} : e["timestamp"] \in Nat
    BY DEF OneKind
  <2>2. time2 = update_max(time, event["timestamp"])
    BY <1>3, <2>1, GreatestGrows
  <2>3. creates = {} <=> time = None
    BY ZenonT(30), <1>3, <2>1, GreatestGrows
  <2>4. creates # {} => time \in Nat
    BY <1>3, <2>1, GreatestGrows
  <2> QED
    BY <2>2, <2>3, <2>4
<1>5. creates # {} => Latest(creates).timestamp = time
  BY <1>3, LatestTime
<1>6. Latest(all) = IF creates = {} \/ event.timestamp >= time THEN event ELSE Latest(creates)
  <2>1. /\ creates = {} => Latest(creates \cup {event}) = event
        /\ creates # {} => Latest(creates \cup {event})
                             = IF event.timestamp >= Latest(creates).timestamp
                               THEN event ELSE Latest(creates)
    BY <1>3, LatestGrows
  <2> QED
    BY <1>5, <2>1
<1>7. ruleset2 = IF creates = {} \/ event.timestamp >= time THEN RulesetVersion(event)
                 ELSE ruleset
  BY <1>6 DEF RulesetOfCreation, RulesetVersion
<1>8. count2 = update_max(count, 0)
  <2>1. CountsOf(all, denials, frees) = CountsOf(creates, denials, frees) \cup {0}
    BY DEF CountsOf
  <2>2. Greatest(CountsOf(creates, denials, frees) \cup {0}) = update_max(count, 0)
    BY CountsGrow
  <2> QED
    BY <2>1, <2>2
<1>9. /\ parent2 = event.parent_id /\ tgid2 = event.creator_tgid /\ comm2 = event.creator_comm
      /\ creates # {} => parent2 = parent /\ tgid2 = tgid /\ comm2 = comm
  <2>1. ASSUME NEW field \in Hierarchy
        PROVE  /\ KnownOf(all, denials, field) = event[field]
               /\ creates # {} => KnownOf(all, denials, field) = KnownOf(creates, denials, field)
    <3>1. Agree(all, event) /\ all # {} /\ OneKind(all)
      BY DEF Agree
    <3> HIDE DEF all
    <3>2. KnownOf(all, denials, field)
            = IF all # {} \/ denials # {} THEN event[field] ELSE None
      BY <3>1, KnownIs
    <3>3. KnownOf(creates, denials, field)
            = IF creates # {} \/ denials # {} THEN event[field] ELSE None
      BY <1>3, KnownIs
    <3> QED
      BY <3>1, <3>2, <3>3
  <2>2. {"parent_id", "creator_tgid", "creator_comm"} \subseteq Hierarchy
    BY DEF Hierarchy
  <2> QED
    BY <2>1, <2>2
<1> HIDE DEF life, time, parent, tgid, comm, ruleset, count, final, free, threads, wide, all,
             time2, parent2, tgid2, comm2, ruleset2, count2, c
<1>10. c = Domain(life, time, parent, tgid, comm, ruleset, count2, final, free, threads, wide)
  <2>1. s.cumulative_denial_count = count
    BY <1>1, DomainFields
  <2>2. c = [s EXCEPT !.cumulative_denial_count = count2]
    BY <1>8, <2>1 DEF c
  <2> QED
    BY <1>1, <2>2, DomainCount
<1>11. c.creation_timestamp = time
  BY <1>10, DomainFields
<1>12. CASE creates = {} \/ event.timestamp >= time
  <2>1. time2 = event.timestamp /\ ruleset2 = RulesetVersion(event)
    BY <1>3, <1>4, <1>7, <1>12 DEF update_max, Max2
  <2>2. Replaces(event.timestamp, c.creation_timestamp)
    BY <1>4, <1>11, <1>12 DEF Replaces
  <2>3. PICK w1 : w1 = [c EXCEPT !.creation_timestamp = time2]
    BY Zenon
  <2>4. w1 = Domain(life, time2, parent, tgid, comm, ruleset, count2, final, free, threads, wide)
    BY SMTT(30), <1>10, <2>3, DomainTime
  <2>5. PICK w2 : w2 = [w1 EXCEPT !.parent = parent2]
    BY ZenonT(30)
  <2>6. w2 = Domain(life, time2, parent2, tgid, comm, ruleset, count2, final, free, threads, wide)
    BY <2>4, <2>5, DomainParent
  <2>7. PICK w3 : w3 = [w2 EXCEPT !.creator_tgid = tgid2]
    BY Zenon
  <2>8. w3 = Domain(life, time2, parent2, tgid2, comm, ruleset, count2, final, free, threads, wide)
    BY <2>6, <2>7, DomainTgid
  <2>9. PICK w4 : w4 = [w3 EXCEPT !.creator_comm = comm2]
    BY Zenon
  <2>10. w4 = Domain(life, time2, parent2, tgid2, comm2, ruleset, count2, final, free, threads,
                     wide)
    BY <2>8, <2>9, DomainComm
  <2>11. [w4 EXCEPT !.ruleset = ruleset2]
           = Domain(life, time2, parent2, tgid2, comm2, ruleset2, count2, final, free, threads,
                    wide)
    BY <2>10, DomainRuleset
  <2>12. CreatedDomain(c, event)
           = [c EXCEPT !.creation_timestamp = time2, !.parent = parent2, !.creator_tgid = tgid2,
                       !.creator_comm = comm2, !.ruleset = ruleset2]
    BY <1>9, <2>1, <2>2 DEF CreatedDomain
  <2>13. CreatedDomain(c, event) = [w4 EXCEPT !.ruleset = ruleset2]
    BY <2>3, <2>5, <2>7, <2>9, <2>12
  <2> QED
    BY <1>2, <2>11, <2>13 DEF c, all
<1>13. CASE ~(creates = {} \/ event.timestamp >= time)
  <2>1. time2 = time /\ ruleset2 = ruleset /\ ~Replaces(event.timestamp, c.creation_timestamp)
    BY <1>3, <1>4, <1>7, <1>11, <1>13 DEF update_max, Max2, Replaces
  <2>2. CreatedDomain(c, event) = c
    BY <2>1 DEF CreatedDomain
  <2>3. parent2 = parent /\ tgid2 = tgid /\ comm2 = comm
    BY <1>9, <1>13
  <2> QED
    BY <1>2, <1>10, <2>1, <2>2, <2>3 DEF c, all
<1> QED
  BY <1>12, <1>13

\* ApplyDenial's write: unknown fields are filled in.
Denied(state, event) ==
  LET creatorUnknown == state.creator_tgid = None /\ state.creator_comm = None
  IN [state EXCEPT
        !.parent = IF @ = None THEN event.parent_id ELSE @,
        !.creator_tgid = IF creatorUnknown THEN event.creator_tgid ELSE @,
        !.creator_comm = IF creatorUnknown THEN event.creator_comm ELSE @,
        !.cumulative_denial_count = update_max(@, event.cumulative_denial_count)]

\* Applying a denial to its domain.
LEMMA DeniedOf ==
  ASSUME NEW event, NEW creates, NEW denials, NEW frees, NEW enforcements,
         OneKind(creates), CountsGood(creates, denials, frees),
         event.cumulative_denial_count \in Nat,
         Agree(creates, event), Agree(denials, event),
         NEW s, s = DomainOf(creates, denials, frees, enforcements)
  PROVE  Denied(s, event) = DomainOf(creates, denials \cup {event}, frees, enforcements)
<1> DEFINE life == Life(frees)
           time == Greatest(Values(creates, "timestamp"))
           parent == KnownOf(creates, denials, "parent_id")
           tgid == KnownOf(creates, denials, "creator_tgid")
           comm == KnownOf(creates, denials, "creator_comm")
           ruleset == RulesetOfCreation(creates)
           count == Greatest(CountsOf(creates, denials, frees))
           final == Greatest(Values(frees, "denial_count"))
           free == Greatest(Values(frees, "timestamp"))
           threads == ThreadsOf(enforcements)
           wide == WideOf(enforcements)
           all == denials \cup {event}
           parent2 == KnownOf(creates, all, "parent_id")
           tgid2 == KnownOf(creates, all, "creator_tgid")
           comm2 == KnownOf(creates, all, "creator_comm")
           count2 == Greatest(CountsOf(creates, all, frees))
<1>1. s = Domain(life, time, parent, tgid, comm, ruleset, count, final, free, threads, wide)
  BY DEF DomainOf
<1>2. DomainOf(creates, all, frees, enforcements)
        = Domain(life, time, parent2, tgid2, comm2, ruleset, count2, final, free, threads, wide)
  BY DEF DomainOf
<1>3. count2 = update_max(count, event.cumulative_denial_count)
  <2>1. CountsOf(creates, all, frees)
          = CountsOf(creates, denials, frees) \cup {event.cumulative_denial_count}
    BY DEF CountsOf, Values
  <2>2. Greatest(CountsOf(creates, denials, frees) \cup {event.cumulative_denial_count})
          = update_max(count, event.cumulative_denial_count)
    BY CountsGrow
  <2> QED
    BY SMTT(30), <2>1, <2>2
<1>4. /\ parent2 = event.parent_id /\ tgid2 = event.creator_tgid /\ comm2 = event.creator_comm
      /\ (parent = None /\ tgid = None /\ comm = None)
           \/ (parent = parent2 /\ tgid = tgid2 /\ comm = comm2)
  <2>1. ASSUME NEW field \in Hierarchy
        PROVE  /\ KnownOf(creates, all, field) = event[field]
               /\ KnownOf(creates, denials, field)
                    = IF creates # {} \/ denials # {} THEN event[field] ELSE None
    <3>1. Agree(all, event) /\ all # {}
      BY Zenon DEF Agree
    <3> HIDE DEF all
    <3>2. KnownOf(creates, all, field)
            = IF creates # {} \/ all # {} THEN event[field] ELSE None
      BY <3>1, KnownIs
    <3>3. KnownOf(creates, denials, field)
            = IF creates # {} \/ denials # {} THEN event[field] ELSE None
      BY KnownIs
    <3> QED
      BY <3>1, <3>2, <3>3
  <2>2. {"parent_id", "creator_tgid", "creator_comm"} \subseteq Hierarchy
    BY DEF Hierarchy
  <2> QED
    BY ZenonT(30), <2>1, <2>2
<1> HIDE DEF life, time, parent, tgid, comm, ruleset, count, final, free, threads, wide, all,
             parent2, tgid2, comm2, count2
<1>5. /\ s.parent = parent /\ s.creator_tgid = tgid /\ s.creator_comm = comm
      /\ s.cumulative_denial_count = count
  BY <1>1, DomainFields
<1> DEFINE unknown == s.creator_tgid = None /\ s.creator_comm = None
<1>6. /\ parent2 = IF s.parent = None THEN event.parent_id ELSE s.parent
      /\ tgid2 = IF unknown THEN event.creator_tgid ELSE s.creator_tgid
      /\ comm2 = IF unknown THEN event.creator_comm ELSE s.creator_comm
  BY <1>4, <1>5
<1>7. PICK w1 : w1 = [s EXCEPT !.parent = parent2]
  BY Zenon
<1>8. w1 = Domain(life, time, parent2, tgid, comm, ruleset, count, final, free, threads, wide)
  BY <1>1, <1>7, DomainParent
<1>9. PICK w2 : w2 = [w1 EXCEPT !.creator_tgid = tgid2]
  BY Zenon
<1>10. w2 = Domain(life, time, parent2, tgid2, comm, ruleset, count, final, free, threads, wide)
  BY <1>8, <1>9, DomainTgid
<1>11. PICK w3 : w3 = [w2 EXCEPT !.creator_comm = comm2]
  BY ZenonT(30)
<1>12. w3 = Domain(life, time, parent2, tgid2, comm2, ruleset, count, final, free, threads, wide)
  BY <1>10, <1>11, DomainComm
<1>13. [w3 EXCEPT !.cumulative_denial_count = count2]
         = Domain(life, time, parent2, tgid2, comm2, ruleset, count2, final, free, threads, wide)
  BY <1>12, DomainCount
<1>14. Denied(s, event)
         = [s EXCEPT !.parent = parent2, !.creator_tgid = tgid2, !.creator_comm = comm2,
                     !.cumulative_denial_count = count2]
  <2> DEFINE p == IF s.parent = None THEN event.parent_id ELSE s.parent
             t == IF unknown THEN event.creator_tgid ELSE s.creator_tgid
             c == IF unknown THEN event.creator_comm ELSE s.creator_comm
             n == update_max(s.cumulative_denial_count, event.cumulative_denial_count)
  <2>1. /\ w1.creator_tgid = s.creator_tgid /\ w2.creator_comm = s.creator_comm
        /\ w3.cumulative_denial_count = s.cumulative_denial_count
    <3>1. w1.creator_tgid = tgid
      BY <1>8, DomainFields
    <3>2. w2.creator_comm = comm
      BY <1>10, DomainFields
    <3>3. w3.cumulative_denial_count = count
      BY <1>12, DomainFields
    <3> QED
      BY <1>5, <3>1, <3>2, <3>3
  <2>2. Denied(s, event)
          = [s EXCEPT !.parent = p, !.creator_tgid = t, !.creator_comm = c,
                      !.cumulative_denial_count = n]
    BY DEF Denied
  <2>3. p = parent2 /\ t = tgid2 /\ c = comm2 /\ n = count2
    BY ZenonT(30), <1>3, <1>5, <1>6
  <2> HIDE DEF p, t, c, n
  <2> QED
    BY <2>2, <2>3
<1> QED
  BY <1>2, <1>7, <1>9, <1>11, <1>13, <1>14 DEF all

\* FreeDomain's write.  A domain first seen freed differs from a fresh one in
\* its lifecycle only.
FreedDomain(map, id, event) ==
  [Lookup(map, id, NewDomain("Deallocated")) EXCEPT
     !.lifecycle = "Deallocated",
     !.free_timestamp = update_max(@, event.timestamp),
     !.final_denial_count = update_max(@, event.denial_count),
     !.cumulative_denial_count = update_max(@, event.denial_count)]

\* Applying FreeDomain.
LEMMA FreedDomainOf ==
  ASSUME NEW map, NEW id, NEW event, NEW creates, NEW denials, NEW frees, NEW enforcements,
         CountsGood(creates, denials, frees \cup {event}), IsFiniteSet(frees),
         \A e \in frees \cup {event} : e.timestamp \in Nat,
         Lookup(map, id, Fresh) = DomainOf(creates, denials, frees, enforcements)
  PROVE  FreedDomain(map, id, event)
           = DomainOf(creates, denials, frees \cup {event}, enforcements)
<1> DEFINE s == Lookup(map, id, NewDomain("Deallocated"))
           time == Greatest(Values(creates, "timestamp"))
           parent == KnownOf(creates, denials, "parent_id")
           tgid == KnownOf(creates, denials, "creator_tgid")
           comm == KnownOf(creates, denials, "creator_comm")
           ruleset == RulesetOfCreation(creates)
           count == Greatest(CountsOf(creates, denials, frees))
           final == Greatest(Values(frees, "denial_count"))
           free == Greatest(Values(frees, "timestamp"))
           threads == ThreadsOf(enforcements)
           wide == WideOf(enforcements)
           all == frees \cup {event}
           count2 == Greatest(CountsOf(creates, denials, all))
           final2 == Greatest(Values(all, "denial_count"))
           free2 == Greatest(Values(all, "timestamp"))
<1>1. PICK life : s = Domain(life, time, parent, tgid, comm, ruleset, count, final, free,
                             threads, wide)
  <2>1. CASE id \in DOMAIN map
    <3>1. s = Lookup(map, id, Fresh)
      BY <2>1 DEF Lookup
    <3> QED
      BY <3>1 DEF DomainOf
  <2>2. CASE id \notin DOMAIN map
    <3>1. s = NewDomain("Deallocated") /\ Lookup(map, id, Fresh) = NewDomain("Allocated")
      BY <2>2 DEF Lookup, Fresh
    <3>2. NewDomain("Allocated") = Domain("Allocated", None, None, None, None, None, None, None,
                                          None, EmptyMap, FALSE)
      BY DEF NewDomain, Domain
    <3>3. NewDomain("Deallocated") = Domain("Deallocated", None, None, None, None, None, None,
                                            None, None, EmptyMap, FALSE)
      BY DEF NewDomain, Domain
    <3>4. NewDomain("Allocated") = Domain(Life(frees), time, parent, tgid, comm, ruleset, count,
                                          final, free, threads, wide)
      BY <3>1 DEF DomainOf
    <3> DEFINE n == NewDomain("Allocated")
    <3> HIDE DEF n, s, time, parent, tgid, comm, ruleset, count, final, free, threads, wide
    <3>5. /\ n.creation_timestamp = None /\ n.parent = None /\ n.creator_tgid = None
          /\ n.creator_comm = None /\ n.ruleset = None /\ n.cumulative_denial_count = None
          /\ n.final_denial_count = None /\ n.free_timestamp = None
          /\ n.enforcement_events = EmptyMap /\ n.any_process_wide_enforcement = FALSE
      <4>1. n = Domain("Allocated", None, None, None, None, None, None, None, None, EmptyMap,
                       FALSE)
        BY Zenon, <3>2 DEF n
      <4> QED
        BY <4>1 DEF Domain
    <3>6. /\ n.creation_timestamp = time /\ n.parent = parent /\ n.creator_tgid = tgid
          /\ n.creator_comm = comm /\ n.ruleset = ruleset /\ n.cumulative_denial_count = count
          /\ n.final_denial_count = final /\ n.free_timestamp = free
          /\ n.enforcement_events = threads /\ n.any_process_wide_enforcement = wide
      BY SMTT(30), <3>4, DomainFields DEF n
    <3>7. s = Domain("Deallocated", time, parent, tgid, comm, ruleset, count, final, free,
                     threads, wide)
      BY Zenon, <3>1, <3>3, <3>5, <3>6
    <3> QED
      BY <3>7
  <2> QED
    BY <2>1, <2>2
<1>2. DomainOf(creates, denials, all, enforcements)
        = Domain("Deallocated", time, parent, tgid, comm, ruleset, count2, final2, free2,
                 threads, wide)
  <2>1. Life(all) = "Deallocated"
    BY DEF Life
  <2> QED
    BY <2>1 DEF DomainOf
<1>3. event.denial_count \in Nat /\ \A e \in all : e["denial_count"] \in Nat
  BY DEF CountsGood
<1>4. count2 = update_max(count, event.denial_count)
  <2>1. CountsOf(creates, denials, all)
          = CountsOf(creates, denials, frees) \cup {event.denial_count}
    BY DEF CountsOf, Values
  <2>2. CountsGood(creates, denials, frees)
    BY DEF CountsGood
  <2>3. Greatest(CountsOf(creates, denials, frees) \cup {event.denial_count})
          = update_max(count, event.denial_count)
    BY <1>3, <2>2, CountsGrow
  <2> QED
    BY ZenonT(30), <2>1, <2>3
<1>5. final2 = update_max(final, event["denial_count"])
  BY <1>3, GreatestGrows
<1>6. free2 = update_max(free, event["timestamp"])
  <2>1. \A e \in all : e["timestamp"] \in Nat
    OBVIOUS
  <2> QED
    BY <2>1, GreatestGrows
<1> HIDE DEF s, time, parent, tgid, comm, ruleset, count, final, free, threads, wide, all,
             count2, final2, free2
<1>7. /\ s.free_timestamp = free /\ s.final_denial_count = final
      /\ s.cumulative_denial_count = count
  BY SMTT(30), <1>1, DomainFields
<1>8. PICK w1 : w1 = [s EXCEPT !.lifecycle = "Deallocated"]
  BY ZenonT(30)
<1>9. w1 = Domain("Deallocated", time, parent, tgid, comm, ruleset, count, final, free, threads,
                  wide)
  BY <1>1, <1>8, DomainLife
<1>10. PICK w2 : w2 = [w1 EXCEPT !.free_timestamp = free2]
  BY Zenon
<1>11. w2 = Domain("Deallocated", time, parent, tgid, comm, ruleset, count, final, free2,
                   threads, wide)
  BY <1>9, <1>10, DomainFree
<1>12. PICK w3 : w3 = [w2 EXCEPT !.final_denial_count = final2]
  BY Zenon
<1>13. w3 = Domain("Deallocated", time, parent, tgid, comm, ruleset, count, final2, free2,
                   threads, wide)
  BY SMTT(30), <1>11, <1>12, DomainFinal
<1>14. [w3 EXCEPT !.cumulative_denial_count = count2]
         = Domain("Deallocated", time, parent, tgid, comm, ruleset, count2, final2, free2,
                  threads, wide)
  BY <1>13, DomainCount
<1>15. FreedDomain(map, id, event)
         = [s EXCEPT !.lifecycle = "Deallocated", !.free_timestamp = free2,
                     !.final_denial_count = final2, !.cumulative_denial_count = count2]
  <2>1. FreedDomain(map, id, event)
          = [s EXCEPT !.lifecycle = "Deallocated",
                      !.free_timestamp = update_max(s.free_timestamp, event.timestamp),
                      !.final_denial_count = update_max(s.final_denial_count, event.denial_count),
                      !.cumulative_denial_count =
                        update_max(s.cumulative_denial_count, event.denial_count)]
    BY DEF FreedDomain, s
  <2> QED
    BY <1>4, <1>5, <1>6, <1>7, <2>1
<1> QED
  BY <1>2, <1>8, <1>10, <1>12, <1>14, <1>15 DEF all

\* One enforcement per thread.
SelectedEnforcement(threads, event) ==
  LET current == Lookup(threads, event.enforcing_tid, event)
  IN IF event.timestamp >= current.timestamp THEN event ELSE current

\* The latest enforcement of each thread, with one more EnforceDomain.
LEMMA ThreadsGrow ==
  ASSUME NEW enforcements, NEW event, IsFiniteSet(enforcements),
         OneKind(enforcements \cup {event})
  PROVE  ThreadsOf(enforcements \cup {event})
           = Put(ThreadsOf(enforcements), event.enforcing_tid,
                 SelectedEnforcement(ThreadsOf(enforcements), event))
<1> DEFINE all == enforcements \cup {event}
           key == event.enforcing_tid
           old == ThreadsOf(enforcements)
           Of(events, t) == {e \in events : e.enforcing_tid = t}
           selected == SelectedEnforcement(old, event)
<1>1. /\ DOMAIN old = {e.enforcing_tid : e \in enforcements}
      /\ \A t \in DOMAIN old : old[t] = Latest(Of(enforcements, t))
  BY DEF ThreadsOf
<1>2. ThreadsOf(all) = [t \in DOMAIN old \cup {key} |-> Latest(Of(all, t))]
  BY <1>1 DEF ThreadsOf
<1>3. \A t : t # key => Of(all, t) = Of(enforcements, t)
  OBVIOUS
<1>4. Latest(Of(all, key)) = selected
  <2> DEFINE same == Of(enforcements, key)
  <2>1. Of(all, key) = same \cup {event} /\ IsFiniteSet(same)
    BY FS_Subset
  <2>2. OneKind(same \cup {event})
    BY <2>1, FS_AddElement DEF OneKind
  <2>3. key \in DOMAIN old <=> same # {}
    BY <1>1
  <2>4. key \in DOMAIN old => old[key] = Latest(same)
    BY <1>1
  <2>5. event.timestamp \in Nat
    BY DEF OneKind
  <2> HIDE DEF same, old
  <2>6. /\ same = {} => Latest(same \cup {event}) = event
        /\ same # {} => Latest(same \cup {event})
                          = IF event.timestamp >= Latest(same).timestamp
                            THEN event ELSE Latest(same)
    BY <2>1, <2>2, LatestGrows
  <2> QED
    BY Zenon, <2>1, <2>3, <2>4, <2>5, <2>6 DEF SelectedEnforcement, Lookup
<1> HIDE DEF old, selected, all
<1>5. Put(old, key, selected)
        = [t \in DOMAIN old \cup {key} |-> IF t = key THEN selected ELSE old[t]]
  BY DEF Put
<1>6. \A t \in DOMAIN old \cup {key} : Latest(Of(all, t)) = IF t = key THEN selected ELSE old[t]
  BY ZenonT(30), <1>1, <1>3, <1>4
<1> QED
  BY Zenon, <1>2, <1>5, <1>6 DEF all, old, selected

Enforced(state, event) ==
  [state EXCEPT
     !.any_process_wide_enforcement = @ \/ event.process_wide,
     !.enforcement_events = Put(@, event.enforcing_tid, SelectedEnforcement(@, event))]

\* Applying EnforceDomain.
LEMMA EnforcedOf ==
  ASSUME NEW event, NEW creates, NEW denials, NEW frees, NEW enforcements,
         IsFiniteSet(enforcements), OneKind(enforcements \cup {event}),
         NEW s, s = DomainOf(creates, denials, frees, enforcements)
  PROVE  Enforced(s, event) = DomainOf(creates, denials, frees, enforcements \cup {event})
<1> DEFINE life == Life(frees)
           time == Greatest(Values(creates, "timestamp"))
           parent == KnownOf(creates, denials, "parent_id")
           tgid == KnownOf(creates, denials, "creator_tgid")
           comm == KnownOf(creates, denials, "creator_comm")
           ruleset == RulesetOfCreation(creates)
           count == Greatest(CountsOf(creates, denials, frees))
           final == Greatest(Values(frees, "denial_count"))
           free == Greatest(Values(frees, "timestamp"))
           threads == ThreadsOf(enforcements)
           wide == WideOf(enforcements)
           all == enforcements \cup {event}
           threads2 == ThreadsOf(all)
           wide2 == WideOf(all)
<1>1. s = Domain(life, time, parent, tgid, comm, ruleset, count, final, free, threads, wide)
  BY DEF DomainOf
<1>2. DomainOf(creates, denials, frees, all)
        = Domain(life, time, parent, tgid, comm, ruleset, count, final, free, threads2, wide2)
  BY DEF DomainOf
<1>3. wide2 = (wide \/ event.process_wide)
  BY Zenon DEF WideOf
<1>4. threads2 = Put(threads, event.enforcing_tid, SelectedEnforcement(threads, event))
  BY ThreadsGrow
<1> HIDE DEF life, time, parent, tgid, comm, ruleset, count, final, free, threads, wide, all,
             threads2, wide2
<1>5. s.any_process_wide_enforcement = wide /\ s.enforcement_events = threads
  BY <1>1, DomainFields
<1>6. PICK w : w = [s EXCEPT !.any_process_wide_enforcement = wide2]
  BY Zenon
<1>7. w = Domain(life, time, parent, tgid, comm, ruleset, count, final, free, threads, wide2)
  BY <1>1, <1>6, DomainWide
<1>8. [w EXCEPT !.enforcement_events = threads2]
        = Domain(life, time, parent, tgid, comm, ruleset, count, final, free, threads2, wide2)
  BY <1>7, DomainThreads
<1>9. Enforced(s, event)
        = [s EXCEPT !.any_process_wide_enforcement =
                      s.any_process_wide_enforcement \/ event.process_wide,
                    !.enforcement_events =
                      Put(s.enforcement_events, event.enforcing_tid,
                          SelectedEnforcement(s.enforcement_events, event))]
  BY DEF Enforced
<1>10. (s.any_process_wide_enforcement \/ event.process_wide) = wide2
  BY <1>3, <1>5
<1>11. Enforced(s, event) = [w EXCEPT !.enforcement_events = threads2]
  BY Zenon, <1>4, <1>5, <1>6, <1>9, <1>10
<1> QED
  BY <1>2, <1>8, <1>11 DEF all

-----------------------------------------------------------------------------
(* The domains, as one more event is applied.                               *)

LEMMA LookupWritten ==
  ASSUME NEW map, NEW id, NEW s, NEW keys, NEW d
  PROVE  /\ Lookup(Put(map, id, s), d, Fresh) = IF d = id THEN s ELSE Lookup(map, d, Fresh)
         /\ Lookup(Ensure(map, keys, Fresh), d, Fresh) = Lookup(map, d, Fresh)
<1>1. Lookup(Put(map, id, s), d, Fresh) = IF d = id THEN s ELSE Lookup(map, d, Fresh)
  BY DEF Lookup, Put
<1>2. Lookup(Ensure(map, keys, Fresh), d, Fresh) = Lookup(map, d, Fresh)
  BY DEF Lookup, Ensure
<1> QED
  BY <1>1, <1>2

DomainTold(d) ==
  Lookup(domains, d, Fresh)
    = DomainOf(About({"CreateDomain"}, d), About(DenialVariants, d), About({"FreeDomain"}, d),
               About({"EnforceDomain"}, d))

DomainsTold == \A d : DomainTold(d)

\* Under one story earlier events agree with a hierarchy about the same domain.
LEMMA StoryAgrees ==
  ASSUME NEW event \in Events, event.variant \in DenialVariants \cup {"CreateDomain"},
         OneStory(applied \cup {event})
  PROVE  /\ Agree(About({"CreateDomain"}, event.domain_id), event)
         /\ Agree(About(DenialVariants, event.domain_id), event)
<1> DEFINE d == event.domain_id
           H == DenialVariants \cup {"CreateDomain"}
<1>1. \A e, f \in applied \cup {event} :
        (e.variant \in H /\ f.variant \in H /\ e.domain_id = f.domain_id) =>
          /\ e.parent_id = f.parent_id /\ e.creator_tgid = f.creator_tgid
          /\ e.creator_comm = f.creator_comm
  BY DEF OneStory
<1>2. \A e \in About({"CreateDomain"}, d) \cup About(DenialVariants, d) :
        e \in applied /\ e.variant \in H /\ e.domain_id = d
  BY DEF About, DenialVariants
<1>3. ASSUME NEW e \in About({"CreateDomain"}, d) \cup About(DenialVariants, d),
             NEW field \in Hierarchy
      PROVE  e[field] = event[field]
  <2>1. /\ e.parent_id = event.parent_id /\ e.creator_tgid = event.creator_tgid
        /\ e.creator_comm = event.creator_comm
    BY <1>1, <1>2
  <2>2. CASE field = "parent_id"
    BY <2>1, <2>2
  <2>3. CASE field = "creator_tgid"
    BY <2>1, <2>3
  <2>4. CASE field = "creator_comm"
    BY <2>1, <2>4
  <2> QED
    BY <2>2, <2>3, <2>4 DEF Hierarchy
<1> QED
  BY <1>3 DEF Agree

\* After apply each domain is what the events say, the new one included.
LEMMA DomainToldStep ==
  ASSUME AppliedGood, DomainsTold, NEW event \in Events, Apply(event),
         OneStory(applied \cup {event}), NEW d
  PROVE  DomainTold(d)'
<1> DEFINE C == About({"CreateDomain"}, d)
           D == About(DenialVariants, d)
           F == About({"FreeDomain"}, d)
           E == About({"EnforceDomain"}, d)
           id == event.domain_id
           v == event.variant
           With(events, kinds) == IF v \in kinds /\ id = d THEN events \cup {event} ELSE events
           state == Lookup(domains, id, Fresh)
<1>1. applied' = applied \cup {event}
  BY DEF Apply
<1>2. /\ C' = With(C, {"CreateDomain"}) /\ D' = With(D, DenialVariants)
      /\ F' = With(F, {"FreeDomain"}) /\ E' = With(E, {"EnforceDomain"})
  <2>1. ASSUME NEW kinds, kinds \cap RulesetVariants = {}
        PROVE  IsAbout(event, kinds, d) <=> v \in kinds /\ id = d
    BY <2>1 DEF IsAbout
  <2>2. /\ {"CreateDomain"} \cap RulesetVariants = {} /\ {"FreeDomain"} \cap RulesetVariants = {}
        /\ {"EnforceDomain"} \cap RulesetVariants = {} /\ DenialVariants \cap RulesetVariants = {}
    BY DEF RulesetVariants, DenialVariants
  <2>3. C' = With(C, {"CreateDomain"})
    BY ZenonT(30), <1>1, <2>1, <2>2, AboutGrows
  <2>4. D' = With(D, DenialVariants)
    BY <1>1, <2>1, <2>2, AboutGrows
  <2>5. F' = With(F, {"FreeDomain"})
    BY <1>1, <2>1, <2>2, AboutGrows
  <2>6. E' = With(E, {"EnforceDomain"})
    BY ZenonT(30), <1>1, <2>1, <2>2, AboutGrows
  <2> QED
    BY <2>3, <2>4, <2>5, <2>6
<1>3. Lookup(domains, d, Fresh) = DomainOf(C, D, F, E)
  BY DEF DomainsTold, DomainTold
<1>4. /\ CountsGood(C, D, F) /\ IsFiniteSet(C) /\ IsFiniteSet(F) /\ IsFiniteSet(E)
      /\ \A e \in F : e.timestamp \in Nat
  <2>1. /\ IsFiniteSet(C) /\ IsFiniteSet(D) /\ IsFiniteSet(F) /\ IsFiniteSet(E)
        /\ \A e \in F : e.timestamp \in Nat
    BY AboutFacts
  <2>2. \A e \in D : e.cumulative_denial_count \in Nat
    BY AboutFacts, EventsAssumption
  <2>3. \A e \in F : e.denial_count \in Nat
    BY AboutFacts, EventsAssumption
  <2> QED
    BY <2>1, <2>2, <2>3 DEF CountsGood
<1>5. OneKind(About({v}, d) \cup {event}) /\ OneKind(C)
  <2>1. OneKind(About({v}, d) \cup {event})
    BY KindGrows
  <2>2. \A e \in C : e \in applied /\ e.variant = "CreateDomain" /\ e.timestamp \in Nat
    BY AboutFacts
  <2>3. \A e, f \in applied \cup {event} :
          (e.variant = f.variant /\ e.timestamp = f.timestamp) => e = f
    BY DEF OneStory
  <2> HIDE DEF C
  <2>4. OneKind(C)
    BY <1>4, <2>2, <2>3 DEF OneKind
  <2> QED
    BY <2>1, <2>4
<1>6. event.timestamp \in Nat
  BY EventsAssumption
<1>7. SUFFICES Lookup(domains', d, Fresh) = DomainOf(C', D', F', E')
  BY DEF DomainTold, Fresh
<1>8. ASSUME NEW s,
             Lookup(domains', d, Fresh) = IF d = id THEN s ELSE Lookup(domains, d, Fresh),
             id = d => s = DomainOf(With(C, {"CreateDomain"}), With(D, DenialVariants),
                                    With(F, {"FreeDomain"}), With(E, {"EnforceDomain"}))
      PROVE  Lookup(domains', d, Fresh) = DomainOf(C', D', F', E')
  <2>1. CASE id = d
    BY ZenonT(30), <1>2, <1>8, <2>1
  <2>2. CASE id # d
    <3>1. C' = C /\ D' = D /\ F' = F /\ E' = E
      BY <1>2, <2>2
    <3> HIDE DEF C, D, F, E
    <3> QED
      BY <1>3, <1>8, <2>2, <3>1
  <2> QED
    BY <2>1, <2>2
<1>9. id = d => state = DomainOf(C, D, F, E) /\ mark_allocated(state) = state
  <2> HIDE DEF C, D, F, E
  <2> QED
    BY <1>3, MarkOf
<1>10. CASE CreateDomain(event)
  <2> DEFINE materialized == Ensure(domains, ParentIds(event), Fresh)
             marked == mark_allocated(Lookup(materialized, id, Fresh))
             s == CreatedDomain([marked EXCEPT !.cumulative_denial_count = update_max(@, 0)],
                                event)
  <2>1. v = "CreateDomain" /\ domains' = Put(materialized, id, s)
    BY <1>10 DEF CreateDomain, Fresh
  <2>2. Lookup(domains', d, Fresh) = IF d = id THEN s ELSE Lookup(domains, d, Fresh)
    <3> HIDE DEF s
    <3>1. Lookup(Put(materialized, id, s), d, Fresh)
            = IF d = id THEN s ELSE Lookup(materialized, d, Fresh)
      BY LookupWritten
    <3>2. Lookup(materialized, d, Fresh) = Lookup(domains, d, Fresh)
      BY LookupWritten
    <3> QED
      BY <2>1, <3>1, <3>2
  <2>3. OneKind(C \cup {event}) /\ (id = d => Agree(C, event) /\ Agree(D, event))
    BY <1>5, <2>1, StoryAgrees
  <2>4. "CreateDomain" \notin DenialVariants
    BY DEF DenialVariants
  <2>5. id = d => marked = DomainOf(C, D, F, E)
    <3>1. Lookup(materialized, id, Fresh) = state
      BY LookupWritten
    <3> QED
      BY <1>9, <3>1
  <2> HIDE DEF C, D, F, E, marked
  <2>6. id = d => s = DomainOf(C \cup {event}, D, F, E)
    BY <1>4, <2>3, <2>5, CreatedDomainOf
  <2> HIDE DEF s
  <2>7. id = d => s = DomainOf(With(C, {"CreateDomain"}), With(D, DenialVariants),
                               With(F, {"FreeDomain"}), With(E, {"EnforceDomain"}))
    BY <2>1, <2>4, <2>6
  <2> QED
    BY <1>8, <2>2, <2>7
<1>11. CASE ApplyDenial(event)
  <2> DEFINE marked == mark_allocated(state)
             s == Denied(marked, event)
             keys == ParentIds(event) \cup OtherIds(event)
  <2>1. v \in DenialVariants /\ domains' = Ensure(Put(domains, id, s), keys, Fresh)
    BY <1>11 DEF ApplyDenial, Fresh, Denied
  <2>2. Lookup(domains', d, Fresh) = IF d = id THEN s ELSE Lookup(domains, d, Fresh)
    <3> HIDE DEF s, keys
    <3> DEFINE written == Put(domains, id, s)
    <3>1. Lookup(written, d, Fresh) = IF d = id THEN s ELSE Lookup(domains, d, Fresh)
      BY LookupWritten
    <3> HIDE DEF written
    <3>2. Lookup(Ensure(written, keys, Fresh), d, Fresh) = Lookup(written, d, Fresh)
      BY LookupWritten
    <3> QED
      BY <2>1, <3>1, <3>2 DEF written
  <2>3. /\ id = d => Agree(C, event) /\ Agree(D, event)
        /\ event.cumulative_denial_count \in Nat
    BY <2>1, StoryAgrees, EventsAssumption
  <2>4. v # "CreateDomain" /\ v # "FreeDomain" /\ v # "EnforceDomain"
    BY <2>1 DEF DenialVariants
  <2>5. id = d => marked = DomainOf(C, D, F, E)
    BY <1>9
  <2> HIDE DEF C, D, F, E, marked
  <2>6. id = d => s = DomainOf(C, D \cup {event}, F, E)
    BY <1>4, <1>5, <2>3, <2>5, DeniedOf
  <2> HIDE DEF s
  <2>7. id = d => s = DomainOf(With(C, {"CreateDomain"}), With(D, DenialVariants),
                               With(F, {"FreeDomain"}), With(E, {"EnforceDomain"}))
    BY <2>1, <2>4, <2>6
  <2> QED
    BY <1>8, <2>2, <2>7
<1>12. CASE FreeDomain(event)
  <2> DEFINE s == FreedDomain(domains, id, event)
  <2>1. v = "FreeDomain" /\ domains' = Put(domains, id, s)
    BY <1>12 DEF FreeDomain, FreedDomain
  <2>2. Lookup(domains', d, Fresh) = IF d = id THEN s ELSE Lookup(domains, d, Fresh)
    <3> HIDE DEF s
    <3>1. Lookup(Put(domains, id, s), d, Fresh)
            = IF d = id THEN s ELSE Lookup(domains, d, Fresh)
      BY LookupWritten
    <3> QED
      BY <2>1, <3>1
  <2>3. /\ CountsGood(C, D, F \cup {event})
        /\ \A e \in F \cup {event} : e.timestamp \in Nat
    BY <1>4, <1>6, <2>1, EventsAssumption, FS_AddElement DEF CountsGood
  <2>4. "FreeDomain" \notin DenialVariants
    BY DEF DenialVariants
  <2> HIDE DEF C, D, F, E
  <2>6. id = d => s = DomainOf(C, D, F \cup {event}, E)
    BY <1>4, <1>9, <2>3, FreedDomainOf
  <2> HIDE DEF s
  <2>7. id = d => s = DomainOf(With(C, {"CreateDomain"}), With(D, DenialVariants),
                               With(F, {"FreeDomain"}), With(E, {"EnforceDomain"}))
    BY <2>1, <2>4, <2>6
  <2> QED
    BY <1>8, <2>2, <2>7
<1>13. CASE EnforceDomain(event)
  <2> DEFINE marked == mark_allocated(state)
             s == Enforced(marked, event)
  <2>1. v = "EnforceDomain" /\ domains' = Put(domains, id, s)
    BY <1>13 DEF EnforceDomain, Enforced, SelectedEnforcement, Fresh
  <2>2. Lookup(domains', d, Fresh) = IF d = id THEN s ELSE Lookup(domains, d, Fresh)
    <3> HIDE DEF s
    <3>1. Lookup(Put(domains, id, s), d, Fresh)
            = IF d = id THEN s ELSE Lookup(domains, d, Fresh)
      BY LookupWritten
    <3> QED
      BY <2>1, <3>1
  <2>3. OneKind(E \cup {event})
    BY <1>5, <2>1
  <2>4. "EnforceDomain" \notin DenialVariants
    BY DEF DenialVariants
  <2>5. id = d => marked = DomainOf(C, D, F, E)
    BY <1>9
  <2> HIDE DEF C, D, F, E, marked
  <2>6. id = d => s = DomainOf(C, D, F, E \cup {event})
    BY <1>4, <2>3, <2>5, EnforcedOf
  <2> HIDE DEF s
  <2>7. id = d => s = DomainOf(With(C, {"CreateDomain"}), With(D, DenialVariants),
                               With(F, {"FreeDomain"}), With(E, {"EnforceDomain"}))
    BY <2>1, <2>4, <2>6
  <2> QED
    BY <1>8, <2>2, <2>7
<1>14. CASE CreateRuleset(event) \/ AddRulePathBeneath(event) \/ AddRuleNetPort(event)
              \/ FreeRuleset(event)
  <2>1. domains' = domains /\ v \in RulesetVariants
    BY <1>14 DEF CreateRuleset, AddRulePathBeneath, AddRuleNetPort, FreeRuleset, RulesetVariants
  <2>2. /\ v \notin DenialVariants
        /\ v # "CreateDomain" /\ v # "FreeDomain" /\ v # "EnforceDomain"
    BY <2>1 DEF DenialVariants, RulesetVariants
  <2>3. C' = C /\ D' = D /\ F' = F /\ E' = E
    BY <1>2, <2>2
  <2> HIDE DEF C, D, F, E
  <2> QED
    BY <1>3, <2>1, <2>3
<1> QED
  BY <1>10, <1>11, <1>12, <1>13, <1>14 DEF Apply

\* The domains one event mentions.
Mentions(e) ==
  (IF e.variant \in DenialVariants \cup {"CreateDomain", "FreeDomain", "EnforceDomain"}
   THEN {e.domain_id} ELSE {})
    \cup (IF e.variant \in DenialVariants \cup {"CreateDomain"} THEN ParentIds(e) ELSE {})
    \cup (IF e.variant \in DenialVariants THEN OtherIds(e) ELSE {})

Of(events, variants) == {e \in events : e.variant \in variants}

\* MentionedDomains, of any events.
MentionedIn(events) ==
  {e.domain_id : e \in Of(events, DenialVariants \cup {"CreateDomain", "FreeDomain",
                                                      "EnforceDomain"})}
    \cup (UNION {ParentIds(e) : e \in Of(events, DenialVariants \cup {"CreateDomain"})})
    \cup (UNION {OtherIds(e) : e \in Of(events, DenialVariants)})

\* Events of some variants in a set with one more event.
LEMMA OneMore ==
  ASSUME NEW events, NEW event
  PROVE  MentionedIn(events \cup {event}) = MentionedIn(events) \cup Mentions(event)
<1> DEFINE About3 == DenialVariants \cup {"CreateDomain", "FreeDomain", "EnforceDomain"}
           Hierarchies == DenialVariants \cup {"CreateDomain"}
           One(variants) == IF event.variant \in variants THEN {event} ELSE {}
<1>1. \A variants : Of(events \cup {event}, variants) = Of(events, variants) \cup One(variants)
  BY DEF Of
<1> HIDE DEF About3, Hierarchies
<1>2. {e.domain_id : e \in Of(events, About3) \cup One(About3)}
        = {e.domain_id : e \in Of(events, About3)}
            \cup (IF event.variant \in About3 THEN {event.domain_id} ELSE {})
  OBVIOUS
<1>3. (UNION {ParentIds(e) : e \in Of(events, Hierarchies) \cup One(Hierarchies)})
        = (UNION {ParentIds(e) : e \in Of(events, Hierarchies)})
            \cup (IF event.variant \in Hierarchies THEN ParentIds(event) ELSE {})
  OBVIOUS
<1>4. (UNION {OtherIds(e) : e \in Of(events, DenialVariants) \cup One(DenialVariants)})
        = (UNION {OtherIds(e) : e \in Of(events, DenialVariants)})
            \cup (IF event.variant \in DenialVariants THEN OtherIds(event) ELSE {})
  OBVIOUS
<1> DEFINE A == {e.domain_id : e \in Of(events, About3)}
           B == (UNION {ParentIds(e) : e \in Of(events, Hierarchies)})
           C == (UNION {OtherIds(e) : e \in Of(events, DenialVariants)})
           a == IF event.variant \in About3 THEN {event.domain_id} ELSE {}
           b == IF event.variant \in Hierarchies THEN ParentIds(event) ELSE {}
           c == IF event.variant \in DenialVariants THEN OtherIds(event) ELSE {}
<1>5. MentionedIn(events) = A \cup B \cup C /\ Mentions(event) = a \cup b \cup c
  BY DEF MentionedIn, Mentions, About3, Hierarchies
<1>6. MentionedIn(events \cup {event}) = (A \cup a) \cup (B \cup b) \cup (C \cup c)
  BY ZenonT(30), <1>1, <1>2, <1>3, <1>4 DEF MentionedIn, About3, Hierarchies
<1> HIDE DEF A, B, C, a, b, c
<1> QED
  BY <1>5, <1>6

\* The domains that events mention, after one more event.
LEMMA MentionsGrow ==
  ASSUME NEW event, applied' = applied \cup {event}
  PROVE  MentionedDomains' = MentionedDomains \cup Mentions(event)
<1>1. \A events : /\ Of(Of(events, DenialVariants \cup {"CreateDomain", "FreeDomain",
                                                       "EnforceDomain"}),
                        DenialVariants \cup {"CreateDomain"})
                       = Of(events, DenialVariants \cup {"CreateDomain"})
                  /\ Of(Of(events, DenialVariants \cup {"CreateDomain", "FreeDomain",
                                                       "EnforceDomain"}), DenialVariants)
                       = Of(events, DenialVariants)
  BY DEF Of
<1> DEFINE about(events) == Of(events, DenialVariants \cup {"CreateDomain", "FreeDomain",
                                                           "EnforceDomain"})
<1>2. MentionedDomains
        = {e.domain_id : e \in about(applied)}
            \cup (UNION {ParentIds(e) : e \in Of(about(applied), DenialVariants \cup {"CreateDomain"})})
            \cup (UNION {OtherIds(e) : e \in Of(about(applied), DenialVariants)})
  BY DEF MentionedDomains, Of
<1>3. MentionedDomains'
        = {e.domain_id : e \in about(applied')}
            \cup (UNION {ParentIds(e) : e \in Of(about(applied'), DenialVariants \cup {"CreateDomain"})})
            \cup (UNION {OtherIds(e) : e \in Of(about(applied'), DenialVariants)})
  BY DEF MentionedDomains, Of
<1>4. MentionedDomains = MentionedIn(applied)
  BY Zenon, <1>1, <1>2 DEF MentionedIn
<1>5. MentionedDomains' = MentionedIn(applied')
  BY Zenon, <1>1, <1>3 DEF MentionedIn
<1>6. MentionedIn(applied \cup {event}) = MentionedIn(applied) \cup Mentions(event)
  BY ZenonT(30), OneMore
<1> QED
  BY <1>4, <1>5, <1>6

IsMap(map) == map = [k \in DOMAIN map |-> map[k]]

\* rulesets and domains are maps; the domains are those the events mention; and
\* while they tell one story each object is what they say of it.
FactsInv ==
  /\ AppliedGood
  /\ IsMap(rulesets) /\ IsMap(domains)
  /\ DOMAIN domains = MentionedDomains
  /\ OneStory(applied) => RulesetsTold /\ DomainsTold

\* Writing into a map leaves a map, with the written keys.
LEMMA WrittenMaps ==
  ASSUME NEW map, NEW id, NEW s, NEW keys, NEW value
  PROVE  /\ IsMap(Put(map, id, s)) /\ DOMAIN Put(map, id, s) = DOMAIN map \cup {id}
         /\ IsMap(Ensure(map, keys, value))
         /\ DOMAIN Ensure(map, keys, value) = DOMAIN map \cup keys
BY DEF IsMap, Put, Ensure

\* apply materializes exactly the domains its event mentions.
LEMMA MapsStep ==
  ASSUME FactsInv, NEW event \in Events, Apply(event)
  PROVE  IsMap(rulesets') /\ IsMap(domains') /\ DOMAIN domains' = MentionedDomains'
<1>1. MentionedDomains' = DOMAIN domains \cup Mentions(event)
  BY MentionsGrow DEF Apply, FactsInv
<1>2. IsMap(rulesets) /\ IsMap(domains)
  BY DEF FactsInv
<1> DEFINE v == event.variant
           id == event.domain_id
           Others == {"CreateDomain", "FreeDomain", "EnforceDomain"}
<1>3. \A x \in Others : x \notin DenialVariants
  BY DEF DenialVariants
<1>4. ASSUME NEW s, domains' = Put(domains, id, s), v \in {"FreeDomain", "EnforceDomain"},
             rulesets' = rulesets
      PROVE  IsMap(rulesets') /\ IsMap(domains') /\ DOMAIN domains' = MentionedDomains'
  <2>1. IsMap(domains') /\ DOMAIN domains' = DOMAIN domains \cup {id}
    BY ZenonT(30), <1>4, WrittenMaps
  <2>2. Mentions(event) = {id}
    BY <1>3, <1>4 DEF Mentions
  <2> QED
    BY <1>1, <1>2, <1>4, <2>1, <2>2
<1>5. ASSUME NEW s, rulesets' = Put(rulesets, event.ruleset_id, s), domains' = domains,
             v \in RulesetVariants
      PROVE  IsMap(rulesets') /\ IsMap(domains') /\ DOMAIN domains' = MentionedDomains'
  <2>1. IsMap(rulesets')
    BY ZenonT(30), <1>5, WrittenMaps
  <2>2. Mentions(event) = {}
    BY <1>5 DEF Mentions, RulesetVariants, DenialVariants
  <2> QED
    BY <1>1, <1>2, <1>5, <2>1, <2>2
<1>6. CASE CreateDomain(event)
  <2> DEFINE materialized == Ensure(domains, ParentIds(event), NewDomain("Allocated"))
  <2>1. PICK r, s : /\ v = "CreateDomain"
                    /\ rulesets' = Put(rulesets, event.ruleset_id, r)
                    /\ domains' = Put(materialized, id, s)
    BY <1>6 DEF CreateDomain
  <2>2. IsMap(rulesets')
    BY ZenonT(30), <2>1, WrittenMaps
  <2>3. DOMAIN materialized = DOMAIN domains \cup ParentIds(event)
    BY Zenon, WrittenMaps
  <2> HIDE DEF materialized
  <2>4. IsMap(domains') /\ DOMAIN domains' = DOMAIN materialized \cup {id}
    BY ZenonT(30), <2>1, WrittenMaps
  <2>5. Mentions(event) = {id} \cup ParentIds(event)
    BY <1>3, <2>1 DEF Mentions
  <2> QED
    BY <1>1, <2>2, <2>3, <2>4, <2>5
<1>7. CASE ApplyDenial(event)
  <2> DEFINE keys == ParentIds(event) \cup OtherIds(event)
  <2>1. PICK s : /\ v \in DenialVariants
                 /\ domains' = Ensure(Put(domains, id, s), keys, NewDomain("Allocated"))
                 /\ rulesets' = rulesets
    BY <1>7 DEF ApplyDenial
  <2> DEFINE written == Put(domains, id, s)
  <2>2. DOMAIN written = DOMAIN domains \cup {id}
    BY ZenonT(30), WrittenMaps
  <2> HIDE DEF written, keys
  <2>3. IsMap(domains') /\ DOMAIN domains' = DOMAIN written \cup keys
    BY Zenon, <2>1, WrittenMaps DEF written
  <2>4. Mentions(event) = {id} \cup keys
    BY <2>1 DEF Mentions, keys
  <2> QED
    BY Zenon, <1>1, <1>2, <2>1, <2>2, <2>3, <2>4
<1>8. CASE FreeDomain(event)
  <2>1. \E s : domains' = Put(domains, id, s) /\ v = "FreeDomain" /\ rulesets' = rulesets
    BY <1>8 DEF FreeDomain
  <2> QED
    BY <1>4, <2>1
<1>9. CASE EnforceDomain(event)
  <2>1. \E s : domains' = Put(domains, id, s) /\ v = "EnforceDomain" /\ rulesets' = rulesets
    BY <1>9 DEF EnforceDomain
  <2> QED
    BY <1>4, <2>1
<1>10. CASE CreateRuleset(event)
  <2>1. /\ \E s : rulesets' = Put(rulesets, event.ruleset_id, s)
        /\ domains' = domains /\ v \in RulesetVariants
    BY <1>10 DEF CreateRuleset, RulesetVariants
  <2> QED
    BY <1>5, <2>1
<1>11. CASE AddRulePathBeneath(event)
  <2>1. /\ \E s : rulesets' = Put(rulesets, event.ruleset_id, s)
        /\ domains' = domains /\ v \in RulesetVariants
    BY <1>11 DEF AddRulePathBeneath, RulesetVariants
  <2> QED
    BY <1>5, <2>1
<1>12. CASE AddRuleNetPort(event)
  <2>1. /\ \E s : rulesets' = Put(rulesets, event.ruleset_id, s)
        /\ domains' = domains /\ v \in RulesetVariants
    BY <1>12 DEF AddRuleNetPort, RulesetVariants
  <2> QED
    BY <1>5, <2>1
<1>13. CASE FreeRuleset(event)
  <2>1. /\ \E s : rulesets' = Put(rulesets, event.ruleset_id, s)
        /\ domains' = domains /\ v \in RulesetVariants
    BY <1>13 DEF FreeRuleset, RulesetVariants
  <2> QED
    BY <1>5, <2>1
<1> QED
  BY <1>6, <1>7, <1>8, <1>9, <1>10, <1>11, <1>12, <1>13 DEF Apply

\* Each event preserves the invariant.
LEMMA FactsStep ==
  ASSUME FactsInv, NEW event \in Events, Apply(event)
  PROVE  FactsInv'
<1>1. applied' = applied \cup {event}
  BY DEF Apply
<1>2. AppliedGood'
  BY <1>1, FS_AddElement DEF FactsInv, AppliedGood
<1>3. IsMap(rulesets') /\ IsMap(domains') /\ DOMAIN domains' = MentionedDomains'
  BY MapsStep
<1>4. ASSUME OneStory(applied)' PROVE RulesetsTold' /\ DomainsTold'
  <2>1. OneStory(applied \cup {event})
    BY <1>1, <1>4 DEF OneStory
  <2>2. OneStory(applied)
    BY <2>1 DEF OneStory
  <2>3. AppliedGood /\ RulesetsTold /\ DomainsTold
    BY <2>2 DEF FactsInv
  <2>4. \A r : RulesetTold(r)'
    BY <2>1, <2>3, RulesetToldStep
  <2>5. \A d : DomainTold(d)'
    BY <2>1, <2>3, DomainToldStep
  <2> QED
    BY <2>4, <2>5 DEF RulesetsTold, DomainsTold
<1> QED
  BY <1>2, <1>3, <1>4 DEF FactsInv, IsMap

\* The invariant says what FactsExact says.
LEMMA ToldExact ==
  ASSUME FactsInv, OneStory(applied)
  PROVE  /\ domains = [d \in MentionedDomains |-> DomainFacts(d)]
         /\ rulesets = [r \in MentionedRulesets |-> RulesetFacts(r)]
<1>1. ASSUME NEW d \in DOMAIN domains PROVE domains[d] = DomainFacts(d)
  <2> DEFINE C == About({"CreateDomain"}, d)
             D == About(DenialVariants, d)
             F == About({"FreeDomain"}, d)
             E == About({"EnforceDomain"}, d)
  <2>1. domains[d] = DomainOf(C, D, F, E)
    BY <1>1 DEF FactsInv, DomainsTold, DomainTold, Lookup
  <2>2. \A field : KnownOf(C, D, field) = FromCreation(d, field)
    BY DEF KnownOf, FromCreation
  <2>3. DomainFacts(d) = DomainOf(C, D, F, E)
    BY ZenonT(30), <2>2 DEF DomainFacts, DomainOf, Domain, Life, Values, RulesetOfCreation, CountsOf,
                ThreadsOf, WideOf
  <2> QED
    BY <2>1, <2>3
<1>2. domains = [d \in DOMAIN domains |-> domains[d]] /\ DOMAIN domains = MentionedDomains
  BY DEF FactsInv, IsMap
<1>3. domains = [d \in MentionedDomains |-> DomainFacts(d)]
  BY <1>1, <1>2
<1>4. ASSUME NEW r
      PROVE  /\ r \in DOMAIN rulesets <=> UsesOf(r) # {}
             /\ r \in DOMAIN rulesets => rulesets[r] = RulesetFacts(r)
  <2> DEFINE C == About({"CreateRuleset"}, r)
             F == About({"FreeRuleset"}, r)
             P == About({"AddRulePathBeneath"}, r)
             N == About({"AddRuleNetPort"}, r)
             U == UsesOf(r)
  <2>1. RulesetSaid(rulesets, r, C, F, P, N, U)
    BY DEF FactsInv, RulesetsTold, RulesetTold
  <2>2. /\ r \in DOMAIN rulesets <=> U # {}
        /\ r \in DOMAIN rulesets => rulesets[r] = RulesetOf(C, F, P, N, U)
    BY <2>1 DEF RulesetSaid
  <2>3. RulesetFacts(r) = RulesetOf(C, F, P, N, U)
    BY ZenonT(30) DEF RulesetFacts, RulesetOf, Ruleset, Life, Values, MasksOf, PathsOf, PortsOf
  <2> QED
    BY <2>2, <2>3
<1>5. \A r : r \in MentionedRulesets <=> UsesOf(r) # {}
  BY DEF MentionedRulesets, UsesOf, About
<1>6. DOMAIN rulesets = MentionedRulesets
  BY <1>4, <1>5
<1>7. rulesets = [r \in DOMAIN rulesets |-> rulesets[r]]
  BY DEF FactsInv, IsMap
<1>8. rulesets = [r \in MentionedRulesets |-> RulesetFacts(r)]
  BY <1>4, <1>6, <1>7
<1> QED
  BY <1>3, <1>8

\* State::apply is insensitive to the order and to the repetition of events:
\* for every set of events that tells one story, after any sequence of them,
\* each ruleset and each domain is in the state exactly when an applied event
\* mentions it, and every field is what the set of applied events says.
THEOREM OrderDoesNotMatter == Spec => []FactsExact
<1>1. Init => FactsInv
  <2> SUFFICES ASSUME Init PROVE FactsInv
    OBVIOUS
  <2>1. applied = {} /\ rulesets = EmptyMap /\ domains = EmptyMap
    BY DEF Init
  <2>2. AppliedGood
    BY <2>1, FS_EmptySet DEF AppliedGood
  <2>3. DOMAIN EmptyMap = {} /\ IsMap(EmptyMap)
    BY DEF EmptyMap, IsMap
  <2>4. MentionedDomains = {}
    BY <2>1 DEF MentionedDomains
  <2>5. \A variants, id : About(variants, id) = {}
    BY <2>1 DEF About
  <2>6. \A r : UsesOf(r) = {}
    BY <2>1, <2>5 DEF UsesOf
  <2>7. RulesetsTold
    BY <2>1, <2>3, <2>5, <2>6 DEF RulesetsTold, RulesetTold, RulesetSaid
  <2>8. DomainsTold
    <3>1. \A d : Lookup(domains, d, Fresh) = Fresh
      BY <2>1, <2>3 DEF Lookup
    <3> QED
      BY <2>5, <3>1, FreshOf DEF DomainsTold, DomainTold
  <2> QED
    BY <2>1, <2>2, <2>3, <2>4, <2>7, <2>8 DEF FactsInv
<1>2. FactsInv /\ [Next]_vars => FactsInv'
  <2> SUFFICES ASSUME FactsInv, [Next]_vars
               PROVE  FactsInv'
    OBVIOUS
  <2>1. CASE Next
    BY <2>1, FactsStep DEF Next
  <2>2. CASE UNCHANGED vars
    <3>1. applied' = applied /\ rulesets' = rulesets /\ domains' = domains
      BY <2>2 DEF vars
    <3>2. \A variants, id : About(variants, id)' = About(variants, id)
      BY <3>1 DEF About
    <3>3. \A r : UsesOf(r)' = UsesOf(r)
      BY <3>1, <3>2 DEF UsesOf
    <3>4. MentionedDomains' = MentionedDomains
      BY <3>1 DEF MentionedDomains
    <3>5. RulesetsTold => RulesetsTold'
      BY <3>1, <3>2, <3>3 DEF RulesetsTold, RulesetTold
    <3>6. DomainsTold => DomainsTold'
      BY <3>1, <3>2 DEF DomainsTold, DomainTold
    <3>7. OneStory(applied)' => OneStory(applied)
      BY <3>1 DEF OneStory
    <3>8. AppliedGood'
      BY <3>1 DEF FactsInv, AppliedGood
    <3> QED
      BY <3>1, <3>4, <3>5, <3>6, <3>7, <3>8 DEF FactsInv, IsMap
  <2> QED
    BY <2>1, <2>2
<1>3. FactsInv => FactsExact
  BY ToldExact DEF FactsExact
<1> QED
  BY <1>1, <1>2, <1>3, PTL DEF Spec
=============================================================================
