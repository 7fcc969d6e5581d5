-------------------------- MODULE AggregatorProofs --------------------------
(***************************************************************************)
(* For every capacity, every width of the recency counter and every        *)
(* sequence of events, the aggregator retains the most recently observed   *)
(* denial keys.                                                            *)
(***************************************************************************)
EXTENDS Aggregator, FiniteSetTheorems, WellFoundedInduction, TLAPS

Number(k) == entries[k].last_observed_sequence

CurrentNumber(k) == Current[k].last_observed_sequence

\* No number was given out twice or is still to be given out.
NumbersOK ==
  /\ \A k \in Keys : Number(k) <= ingestion_sequence
  /\ \A a, b \in Keys : Number(a) = Number(b) => a = b

IInv == TypeOK /\ NumbersOK /\ RecencyExact /\ MostRecentRetained

-----------------------------------------------------------------------------
(* Compaction.                                                              *)

\* The place of an entry in the recency order is smaller than that of every
\* more recent entry and at most the number of entries.
LEMMA Places ==
  ASSUME TypeOK, NEW a \in Keys, NEW b \in Keys
  PROVE  /\ Cardinality(AtMostAsRecent(a)) \in 1 .. Cardinality(Keys)
         /\ Number(a) < Number(b) =>
              Cardinality(AtMostAsRecent(a)) < Cardinality(AtMostAsRecent(b))
<1>1. IsFiniteSet(Keys) /\ \A k \in Keys : Number(k) \in Nat
  BY MaxSequenceAssumption DEF TypeOK, Entry, Number
<1>2. \A k \in Keys : AtMostAsRecent(k) \in SUBSET Keys /\ k \in AtMostAsRecent(k)
  BY <1>1 DEF AtMostAsRecent, Number
<1>3. \A k \in Keys : /\ IsFiniteSet(AtMostAsRecent(k))
                      /\ Cardinality(AtMostAsRecent(k)) <= Cardinality(Keys)
                      /\ Cardinality(AtMostAsRecent(k)) \in Nat
  BY <1>1, <1>2, FS_Subset, FS_CardinalityType
<1>4. \A k \in Keys : Cardinality(AtMostAsRecent(k)) # 0
  BY <1>2, <1>3, FS_EmptySet
<1>5. Cardinality(Keys) \in Nat
  BY <1>1, FS_CardinalityType
<1>6. ASSUME Number(a) < Number(b)
      PROVE  Cardinality(AtMostAsRecent(a)) < Cardinality(AtMostAsRecent(b))
  <2>1. AtMostAsRecent(a) \in SUBSET AtMostAsRecent(b)
    BY <1>1, <1>6 DEF AtMostAsRecent, Number
  <2>2. b \in AtMostAsRecent(b) /\ b \notin AtMostAsRecent(a)
    BY <1>1, <1>6 DEF AtMostAsRecent, Number
  <2>3. /\ Cardinality(AtMostAsRecent(a)) <= Cardinality(AtMostAsRecent(b))
        /\ Cardinality(AtMostAsRecent(b)) = Cardinality(AtMostAsRecent(a))
             => AtMostAsRecent(b) = AtMostAsRecent(a)
    BY <1>3, <2>1, FS_Subset
  <2> QED
    BY <1>3, <2>2, <2>3
<1> QED
  BY <1>3, <1>4, <1>5, <1>6

\* An observation works on entries in their old order, and its own number is
\* larger than theirs and fits the counter.
LEMMA CurrentOrder ==
  ASSUME TypeOK, NumbersOK
  PROVE  /\ Current \in [Keys -> Entry]
         /\ NextSequence \in 1 .. MaxSequence
         /\ \A k \in Keys : CurrentNumber(k) \in Nat /\ CurrentNumber(k) < NextSequence
         /\ \A a, b \in Keys : CurrentNumber(a) < CurrentNumber(b) <=> Number(a) < Number(b)
         /\ \A a, b \in Keys : CurrentNumber(a) = CurrentNumber(b) => a = b
<1>1. /\ IsFiniteSet(Keys) /\ Cardinality(Keys) \in Nat /\ Cardinality(Keys) < MaxSequence
      /\ MaxSequence \in Nat
  BY FS_CardinalityType, MaxSequenceAssumption, CapacityAssumption DEF TypeOK
<1>2. \A k \in Keys : Number(k) \in 1 .. MaxSequence
  BY DEF TypeOK, Entry, Number
<1>3. CASE Exhausted
  <2>1. /\ Current = Compacted
        /\ NextSequence = Cardinality(Keys) + 1
    BY <1>1, <1>3 DEF Current, NextSequence, SaturatingAdd1
  <2>2. \A k \in Keys : Cardinality(AtMostAsRecent(k)) \in 1 .. Cardinality(Keys)
    BY Places
  <2>3. Compacted \in [Keys -> Entry]
    <3>1. ASSUME NEW k \in Keys
          PROVE  [entries[k] EXCEPT !.last_observed_sequence = Cardinality(AtMostAsRecent(k))]
                   \in Entry
      <4>1. Cardinality(AtMostAsRecent(k)) \in 1 .. MaxSequence
        BY <1>1, <2>2
      <4>2. entries[k] \in Entry
        BY DEF TypeOK
      <4> QED
        BY <4>1, <4>2 DEF Entry
    <3> QED
      BY <3>1 DEF Compacted
  <2>4. \A k \in Keys : CurrentNumber(k) = Cardinality(AtMostAsRecent(k))
    <3>1. \A k \in Keys : entries[k] \in Entry
      BY DEF TypeOK
    <3> QED
      BY <2>1, <3>1 DEF CurrentNumber, Compacted, Entry
  <2>5. \A a, b \in Keys : Number(a) < Number(b) => CurrentNumber(a) < CurrentNumber(b)
    BY <2>4, Places
  <2>6. \A k \in Keys : CurrentNumber(k) \in Nat
    BY <2>2, <2>4
  <2>7. \A a, b \in Keys : a = b \/ Number(a) < Number(b) \/ Number(b) < Number(a)
    BY <1>2 DEF NumbersOK
  <2>8. \A a, b \in Keys : CurrentNumber(a) < CurrentNumber(b) => Number(a) < Number(b)
    BY <2>5, <2>6, <2>7
  <2>9. \A a, b \in Keys : CurrentNumber(a) = CurrentNumber(b) => a = b
    BY <2>5, <2>6, <2>7
  <2> QED
    BY <1>1, <2>1, <2>2, <2>3, <2>4, <2>5, <2>6, <2>8, <2>9
<1>4. CASE ~Exhausted
  <2>1. Current = entries /\ NextSequence = ingestion_sequence + 1
    BY <1>1, <1>4 DEF Current, NextSequence, SaturatingAdd1, Exhausted, TypeOK
  <2>2. ingestion_sequence + 1 \in 1 .. MaxSequence
    BY <1>1, <1>4 DEF Exhausted, TypeOK
  <2>3. \A k \in Keys : CurrentNumber(k) = Number(k)
    BY <2>1 DEF CurrentNumber, Number
  <2>4. \A k \in Keys : Number(k) < ingestion_sequence + 1
    BY <1>2 DEF NumbersOK, TypeOK
  <2> QED
    BY <1>2, <2>1, <2>2, <2>3, <2>4 DEF NumbersOK, TypeOK
<1> QED
  BY <1>3, <1>4

-----------------------------------------------------------------------------
(* How an observation changes what was seen after what.                     *)

LEMMA ObservationsStep ==
  ASSUME history \in Seq(Events), NEW event \in Events, history' = Append(history, event),
         NEW n \in Nat, n = Len(history), NEW k
  PROVE  /\ Observations(k) \subseteq 1 .. n
         /\ IsDenial(event) /\ DenialKey(event) = k
              => Observations(k)' = Observations(k) \cup {n + 1}
         /\ ~(IsDenial(event) /\ DenialKey(event) = k) => Observations(k)' = Observations(k)
<1>1. /\ DOMAIN history = 1 .. n /\ DOMAIN history' = 1 .. n + 1
      /\ \A i \in 1 .. n : history'[i] = history[i]
      /\ history'[n + 1] = event
  OBVIOUS
<1>2. \A i : i \in 1 .. n + 1 <=> i \in 1 .. n \/ i = n + 1
  OBVIOUS
<1>3. \A i \in 1 .. n : i # n + 1
  OBVIOUS
<1> QED
  BY <1>1, <1>2, <1>3 DEF Observations

LEMMA ObservedKeysStep ==
  ASSUME history \in Seq(Events), NEW event \in Events, history' = Append(history, event)
  PROVE  /\ IsDenial(event) => ObservedKeys' = ObservedKeys \cup {DenialKey(event)}
         /\ ~IsDenial(event) => ObservedKeys' = ObservedKeys
<1> PICK n \in Nat : n = Len(history)
  OBVIOUS
<1>1. /\ DOMAIN history = 1 .. n /\ DOMAIN history' = 1 .. n + 1
      /\ \A i \in 1 .. n : history'[i] = history[i]
      /\ history'[n + 1] = event
  OBVIOUS
<1>2. \A i : i \in 1 .. n + 1 <=> i \in 1 .. n \/ i = n + 1
  OBVIOUS
<1> QED
  BY <1>1, <1>2 DEF ObservedKeys

\* The observed key is now after every other key and before none.
LEMMA SeenAfterStep ==
  ASSUME history \in Seq(Events), NEW event \in Events, history' = Append(history, event),
         NEW a, NEW b, IsDenial(event)
  PROVE  /\ ~SeenAfter(a, a)'
         /\ DenialKey(event) = a /\ a # b => SeenAfter(a, b)'
         /\ DenialKey(event) = b => ~SeenAfter(a, b)'
         /\ DenialKey(event) \notin {a, b} => (SeenAfter(a, b)' <=> SeenAfter(a, b))
<1> PICK n \in Nat : n = Len(history)
  OBVIOUS
<1>1. \A k : /\ Observations(k) \subseteq 1 .. n
             /\ DenialKey(event) = k => Observations(k)' = Observations(k) \cup {n + 1}
             /\ DenialKey(event) # k => Observations(k)' = Observations(k)
  BY ObservationsStep
<1>2. \A i \in 1 .. n : i < n + 1 /\ ~(n + 1 < i)
  OBVIOUS
<1>3. ~(n + 1 < n + 1) /\ \A i \in 1 .. n : ~(i < i)
  OBVIOUS
<1>4. ~SeenAfter(a, a)'
  <2>1. CASE DenialKey(event) = a
    BY <1>1, <1>3, <2>1 DEF SeenAfter
  <2>2. CASE DenialKey(event) # a
    BY <1>1, <1>3, <2>2 DEF SeenAfter
  <2> QED
    BY <2>1, <2>2
<1>5. ASSUME DenialKey(event) = a, a # b PROVE SeenAfter(a, b)'
  BY <1>1, <1>2, <1>5 DEF SeenAfter
<1>6. ASSUME DenialKey(event) = b PROVE ~SeenAfter(a, b)'
  <2>1. CASE a = b
    BY <1>4, <2>1
  <2>2. CASE a # b
    BY <1>1, <1>2, <1>6, <2>2 DEF SeenAfter
  <2> QED
    BY <2>1, <2>2
<1>7. ASSUME DenialKey(event) \notin {a, b} PROVE SeenAfter(a, b)' <=> SeenAfter(a, b)
  BY <1>1, <1>7 DEF SeenAfter
<1> QED
  BY <1>4, <1>5, <1>6, <1>7

-----------------------------------------------------------------------------
(* One observation.                                                         *)

\* The observed key gets the next number, every other retained key keeps its
\* place.
LEMMA Moved ==
  ASSUME IInv, NEW event \in Events, IsDenial(event), history' = Append(history, event),
         NEW R \in SUBSET Keys, NEW e, e = DenialKey(event),
         Keys' = R \cup {e}, Number(e)' = NextSequence, ingestion_sequence' = NextSequence,
         \A k \in R \ {e} : Number(k)' = CurrentNumber(k)
  PROVE  NumbersOK' /\ RecencyExact'
<1>1. /\ NextSequence \in Nat
      /\ \A k \in Keys : CurrentNumber(k) \in Nat /\ CurrentNumber(k) < NextSequence
      /\ \A a, b \in Keys : CurrentNumber(a) < CurrentNumber(b) <=> Number(a) < Number(b)
      /\ \A a, b \in Keys : CurrentNumber(a) = CurrentNumber(b) => a = b
  BY CurrentOrder, MaxSequenceAssumption DEF IInv
<1>2. NumbersOK'
  <2>1. \A k \in Keys' : Number(k)' <= ingestion_sequence'
    BY <1>1
  <2>2. \A a, b \in Keys' : Number(a)' = Number(b)' => a = b
    BY <1>1
  <2> QED
    BY <2>1, <2>2 DEF NumbersOK
<1>3. ASSUME NEW a \in Keys', NEW b \in Keys'
      PROVE  Number(a)' < Number(b)' <=> SeenAfter(b, a)'
  <2>0. history \in Seq(Events)
    BY DEF IInv, TypeOK
  <2>1. CASE b = e
    <3>1. CASE a = e
      BY <1>1, <2>0, <2>1, <3>1, SeenAfterStep
    <3>2. CASE a # e
      BY <1>1, <2>0, <2>1, <3>2, SeenAfterStep
    <3> QED
      BY <3>1, <3>2
  <2>2. CASE a = e /\ b # e
    <3>1. ~SeenAfter(b, a)'
      BY <2>0, <2>2, SeenAfterStep
    <3> QED
      BY <1>1, <2>2, <3>1
  <2>3. CASE a # e /\ b # e
    <3>1. SeenAfter(b, a)' <=> SeenAfter(b, a)
      BY <2>0, <2>3, SeenAfterStep
    <3>2. a \in Keys /\ b \in Keys
      BY <2>3
    <3>3. Number(a) < Number(b) <=> SeenAfter(b, a)
      BY <3>2 DEF IInv, RecencyExact, Number
    <3> QED
      BY <1>1, <2>3, <3>1, <3>2, <3>3
  <2> QED
    BY <2>1, <2>2, <2>3
<1>4. RecencyExact'
  BY <1>3 DEF RecencyExact, Number
<1> QED
  BY <1>2, <1>4

LEMMA HistoryTyped ==
  ASSUME TypeOK, NEW event \in Events, history' = Append(history, event)
  PROVE  history' \in Seq(Events)
  BY DEF TypeOK

LEMMA IgnoreStep ==
  ASSUME IInv, NEW event \in Events, history' = Append(history, event), Ignore(event)
  PROVE  IInv'
<1>0. history \in Seq(Events) /\ Keys' = Keys /\ \A k : Number(k)' = Number(k)
  BY DEF IInv, TypeOK, Ignore, Keys, Number
<1> PICK n \in Nat : n = Len(history)
  BY <1>0
<1>1. \A k : Observations(k)' = Observations(k)
  BY <1>0, ObservationsStep DEF Ignore
<1>2. \A a, b : SeenAfter(a, b)' <=> SeenAfter(a, b)
  BY <1>1 DEF SeenAfter
<1>3. ObservedKeys' = ObservedKeys
  BY <1>0, ObservedKeysStep DEF Ignore
<1>4. TypeOK'
  BY <1>0, HistoryTyped DEF IInv, TypeOK, Ignore
<1>5. NumbersOK' /\ RecencyExact'
  BY <1>0, <1>2 DEF IInv, NumbersOK, RecencyExact, Number, Ignore
<1>6. MostRecentRetained'
  BY <1>0, <1>2, <1>3, Zenon DEF IInv, MostRecentRetained
<1> QED
  BY <1>4, <1>5, <1>6 DEF IInv

LEMMA HitStep ==
  ASSUME IInv, NEW event \in Events, history' = Append(history, event), Hit(event)
  PROVE  IInv'
<1> PICK e : e = DenialKey(event)
  OBVIOUS
<1>0. /\ IsDenial(event) /\ e \in Keys /\ history \in Seq(Events)
      /\ entries' = [Current EXCEPT ![e] = Refreshed(@, event)]
      /\ ingestion_sequence' = NextSequence
  BY DEF Hit, IInv, TypeOK
<1>1. Current \in [Keys -> Entry] /\ NextSequence \in 1 .. MaxSequence
  BY CurrentOrder DEF IInv
<1>2. /\ Refreshed(Current[e], event) \in Entry
      /\ Refreshed(Current[e], event).last_observed_sequence = NextSequence
  <2>1. Current[e] \in Entry /\ event.timestamp \in Timestamps
    BY <1>0, <1>1 DEF Timestamps
  <2>2. SaturatingAdd1(Current[e].occurrence_count, MaxCount) \in 1 .. MaxCount
    BY <2>1, MaxCountAssumption DEF Entry, SaturatingAdd1
  <2> QED
    BY Zenon, <1>1, <2>1, <2>2 DEF Entry, Refreshed
<1>3. /\ Keys' = Keys /\ entries' \in [Keys -> Entry]
      /\ entries'[e] = Refreshed(Current[e], event)
      /\ \A k \in Keys \ {e} : entries'[k] = Current[k]
  BY <1>0, <1>1, <1>2 DEF Keys
<1>4. TypeOK'
  BY <1>0, <1>1, <1>3, HistoryTyped DEF IInv, TypeOK
<1>5. NumbersOK' /\ RecencyExact'
  <2>1. /\ Keys' = Keys \cup {e} /\ Number(e)' = NextSequence
        /\ \A k \in Keys \ {e} : Number(k)' = CurrentNumber(k)
    BY <1>0, <1>2, <1>3 DEF Number, CurrentNumber
  <2> QED
    BY Zenon, <1>0, <2>1, Moved
<1>6. MostRecentRetained'
  <2>1. ObservedKeys' = ObservedKeys
    BY Zenon, <1>0, ObservedKeysStep DEF IInv, MostRecentRetained
  <2>2. \A a \in Keys, b \in ObservedKeys \ Keys : SeenAfter(a, b)'
    <3> TAKE a \in Keys, b \in ObservedKeys \ Keys
    <3>1. SeenAfter(a, b) /\ b # e
      BY <1>0 DEF IInv, MostRecentRetained
    <3> QED
      BY <1>0, <3>1, SeenAfterStep
  <2> QED
    BY <1>3, <2>1, <2>2, Zenon DEF IInv, MostRecentRetained
<1> QED
  BY <1>4, <1>5, <1>6 DEF IInv

\* Both ways to insert: beside all retained keys, or in the place of one.
LEMMA InsertTyped ==
  ASSUME IInv, NEW event \in Events, IsDenial(event), history' = Append(history, event),
         NEW R \in SUBSET Keys, DenialKey(event) \notin Keys, Insert(event, R),
         Cardinality(R) < Capacity
  PROVE  TypeOK' /\ NumbersOK' /\ RecencyExact' /\ Keys' = R \cup {DenialKey(event)}
<1> PICK e : e = DenialKey(event)
  OBVIOUS
<1>0. /\ e \notin Keys /\ history \in Seq(Events)
      /\ entries' = [k \in R \cup {e} |-> IF k = e THEN NewEntry(event) ELSE Current[k]]
      /\ ingestion_sequence' = NextSequence
  BY DEF Insert, IInv, TypeOK
<1>1. Current \in [Keys -> Entry] /\ NextSequence \in 1 .. MaxSequence
  BY CurrentOrder DEF IInv
<1>2. NewEntry(event) \in Entry /\ NewEntry(event).last_observed_sequence = NextSequence
  BY <1>1, MaxCountAssumption DEF Entry, NewEntry, Timestamps
<1>3. /\ Keys' = R \cup {e} /\ entries' \in [R \cup {e} -> Entry]
      /\ entries'[e] = NewEntry(event)
      /\ \A k \in R \ {e} : entries'[k] = Current[k]
  BY <1>0, <1>1, <1>2 DEF Keys
<1>4. IsFiniteSet(Keys') /\ Cardinality(Keys') <= Capacity
  <2>1. IsFiniteSet(R) /\ Cardinality(R) \in Nat
    BY FS_Subset, FS_CardinalityType DEF IInv, TypeOK
  <2>2. IsFiniteSet(R \cup {e}) /\ Cardinality(R \cup {e}) = Cardinality(R) + 1
    BY <1>0, <2>1, FS_AddElement
  <2> QED
    BY <1>3, <2>1, <2>2, CapacityAssumption
<1>5. TypeOK'
  BY <1>0, <1>1, <1>3, <1>4, HistoryTyped DEF IInv, TypeOK
<1>6. NumbersOK' /\ RecencyExact'
  <2>1. /\ Number(e)' = NextSequence
        /\ \A k \in R \ {e} : Number(k)' = CurrentNumber(k)
    BY <1>0, <1>2, <1>3 DEF Number, CurrentNumber
  <2> QED
    BY Zenon, <1>0, <1>3, <2>1, Moved
<1> QED
  BY <1>3, <1>5, <1>6

LEMMA InsertWithRoomStep ==
  ASSUME IInv, NEW event \in Events, history' = Append(history, event), InsertWithRoom(event)
  PROVE  IInv'
<1> PICK e : e = DenialKey(event)
  OBVIOUS
<1>1. TypeOK' /\ NumbersOK' /\ RecencyExact' /\ Keys' = Keys \cup {e}
  BY InsertTyped DEF InsertWithRoom, HasRoom
<1>2. MostRecentRetained'
  <2>1. ObservedKeys = Keys
    BY DEF IInv, MostRecentRetained, InsertWithRoom, HasRoom
  <2>2. ObservedKeys' = ObservedKeys \cup {e}
    BY ObservedKeysStep DEF IInv, TypeOK, InsertWithRoom
  <2> QED
    BY <1>1, <2>1, <2>2 DEF MostRecentRetained
<1> QED
  BY <1>1, <1>2 DEF IInv

LEMMA InsertEvictingStep ==
  ASSUME IInv, NEW event \in Events, history' = Append(history, event), InsertEvicting(event)
  PROVE  IInv'
<1> PICK e : e = DenialKey(event)
  OBVIOUS
<1>0. /\ IsDenial(event) /\ e \notin Keys /\ history \in Seq(Events)
      /\ IsFiniteSet(Keys) /\ Cardinality(Keys) \in Nat
      /\ Cardinality(Keys) = Capacity
  BY FS_CardinalityType, CapacityAssumption DEF InsertEvicting, HasRoom, IInv, TypeOK
<1> PICK v \in Keys : LeastRecent(v) /\ Insert(event, Keys \ {v})
  BY Zenon DEF InsertEvicting
<1>1. Cardinality(Keys \ {v}) = Capacity - 1
  BY Zenon, <1>0, FS_RemoveElement
<1>2. TypeOK' /\ NumbersOK' /\ RecencyExact' /\ Keys' = (Keys \ {v}) \cup {e}
  <2>1. Cardinality(Keys \ {v}) < Capacity
    BY <1>1, CapacityAssumption
  <2> QED
    BY <1>0, <2>1, InsertTyped
<1>3. ObservedKeys' = ObservedKeys \cup {e}
  BY <1>0, ObservedKeysStep
<1>4. \A a \in Keys \ {v} : SeenAfter(a, v)
  <2> TAKE a \in Keys \ {v}
  <2>1. /\ CurrentNumber(v) <= CurrentNumber(a)
        /\ CurrentNumber(v) \in Nat /\ CurrentNumber(a) \in Nat
        /\ CurrentNumber(v) # CurrentNumber(a)
        /\ CurrentNumber(v) < CurrentNumber(a) <=> Number(v) < Number(a)
    BY CurrentOrder DEF LeastRecent, CurrentNumber, IInv
  <2>2. Number(v) < Number(a)
    BY <2>1
  <2> QED
    BY <2>2 DEF IInv, RecencyExact, Number
<1>5. ASSUME NEW a \in Keys', NEW b \in ObservedKeys' \ Keys'
      PROVE  SeenAfter(a, b)'
  <2>1. b # e /\ b \in ObservedKeys /\ (b = v \/ b \notin Keys)
    BY <1>2, <1>3, <1>5
  <2>2. CASE a = e
    BY <1>0, <2>1, <2>2, SeenAfterStep
  <2>3. CASE a # e
    <3>1. a \in Keys \ {v}
      BY <1>2, <2>3
    <3>2. SeenAfter(a, b)
      BY <1>4, <2>1, <3>1 DEF IInv, MostRecentRetained
    <3> QED
      BY <1>0, <2>1, <2>3, <3>2, SeenAfterStep
  <2> QED
    BY <2>2, <2>3
<1>6. Cardinality(Keys') = Capacity
  <2>1. IsFiniteSet(Keys \ {v}) /\ e \notin Keys \ {v}
    BY <1>0, FS_RemoveElement
  <2>2. Cardinality(Keys') = Cardinality(Keys \ {v}) + 1
    BY Zenon, <1>2, <2>1, FS_AddElement
  <2> QED
    BY <1>1, <2>2, CapacityAssumption
<1>7. MostRecentRetained'
  <2>1. Keys' \subseteq ObservedKeys'
    BY <1>2, <1>3 DEF IInv, MostRecentRetained
  <2>2. ~(Cardinality(Keys') < Capacity)
    BY <1>6, CapacityAssumption
  <2> QED
    BY <1>5, <2>1, <2>2 DEF MostRecentRetained
<1> QED
  BY <1>2, <1>7 DEF IInv

LEMMA IInvInit == Init => IInv
<1> SUFFICES ASSUME Init PROVE IInv
  OBVIOUS
<1>1. Keys = {} /\ ObservedKeys = {}
  BY DEF Init, Keys, ObservedKeys
<1>2. TypeOK
  BY <1>1, FS_EmptySet, CapacityAssumption, MaxSequenceAssumption DEF Init, TypeOK
<1>3. NumbersOK /\ RecencyExact /\ MostRecentRetained
  BY <1>1 DEF NumbersOK, RecencyExact, MostRecentRetained
<1> QED
  BY <1>2, <1>3 DEF IInv

LEMMA IInvStep == IInv /\ [Next]_vars => IInv'
<1> SUFFICES ASSUME IInv, [Next]_vars PROVE IInv'
  OBVIOUS
<1>1. ASSUME NEW event \in Events, Observe(event) PROVE IInv'
  BY <1>1, IgnoreStep, HitStep, InsertWithRoomStep, InsertEvictingStep DEF Observe
<1>2. CASE UNCHANGED vars
  <2>1. Keys' = Keys /\ ObservedKeys' = ObservedKeys /\ \A k : Number(k)' = Number(k)
    BY <1>2 DEF vars, Keys, ObservedKeys, Number
  <2>2. \A a, b : SeenAfter(a, b)' <=> SeenAfter(a, b)
    BY <1>2 DEF vars, SeenAfter, Observations
  <2>3. TypeOK'
    BY <1>2, <2>1 DEF vars, IInv, TypeOK
  <2>4. NumbersOK' /\ RecencyExact'
    BY <1>2, <2>1, <2>2 DEF vars, IInv, NumbersOK, RecencyExact, Number
  <2>5. MostRecentRetained'
    BY <2>1, <2>2, Zenon DEF IInv, MostRecentRetained
  <2> QED
    BY <2>3, <2>4, <2>5 DEF IInv
<1> QED
  BY <1>1, <1>2 DEF Next

LEMMA IInvAlways == Spec => []IInv
  BY IInvInit, IInvStep, PTL DEF Spec

\* At most Capacity keys are retained, with counters within their widths,
\* however long the aggregator runs (observe_entry).
THEOREM TypeCorrect == Spec => []TypeOK
<1>1. IInv => TypeOK
  BY DEF IInv
<1> QED
  BY <1>1, IInvAlways, PTL

\* The recency numbers order the retained keys by their last observation,
\* through every compaction of the counter (next_ingestion_sequence).
THEOREM RecencyKept == Spec => []RecencyExact
<1>1. IInv => RecencyExact
  BY DEF IInv
<1> QED
  BY <1>1, IInvAlways, PTL

\* An observed key is missing only when Capacity keys were observed after it:
\* eviction takes the least recently observed key (observe_entry).
THEOREM EvictionTakesOldest == Spec => []MostRecentRetained
<1>1. IInv => MostRecentRetained
  BY DEF IInv
<1> QED
  BY <1>1, IInvAlways, PTL

-----------------------------------------------------------------------------
(* What an entry tells.  Whether a key was evicted between two observations  *)
(* shows in the history: then, and only then, Capacity other keys were seen  *)
(* between them.  So the residence of a key grows by each hit and starts     *)
(* afresh with each insertion, as its entry does.                            *)

KeysWithin(a, b) == {DenialKey(history[j]) : j \in {i \in a + 1 .. b - 1 : IsDenial(history[i])}}

Consecutive(k, a, b) ==
  /\ a \in Observations(k) /\ b \in Observations(k)
  /\ a < b
  /\ \A c \in Observations(k) : c <= a \/ b <= c

Least(S, i) == i \in S /\ \A j \in S : i <= j
Greatest(S, i) == i \in S /\ \A j \in S : j <= i

EntryFacts(k) ==
  LET residence == Residence(k) IN
  /\ IsFiniteSet(residence)
  /\ entries[k].occurrence_count = (IF Cardinality(residence) < MaxCount
                                     THEN Cardinality(residence) ELSE MaxCount)
  /\ \E i \in residence : /\ Least(residence, i)
                          /\ entries[k].first_timestamp = history[i].timestamp
  /\ \E i \in residence : /\ Greatest(residence, i)
                          /\ entries[k].latest_timestamp = history[i].timestamp
                          /\ entries[k].latest_event = history[i]

FactsInv == \A k \in Keys : EntryFacts(k)

LEMMA LeastElement ==
  ASSUME NEW S, S \subseteq Nat, S # {}
  PROVE  \E n \in S : Least(S, n)
<1> DEFINE R == OpToRel(<, Nat)
<1>1. \A i, j \in Nat : i < j => <<i, j>> \in R
  BY DEF OpToRel
<1>2. IsWellFoundedOn(R, Nat)
  BY NatLessThanWellFounded
<1> HIDE DEF R
<1>3. PICK n \in S : \A j \in S : ~(<<j, n>> \in R)
  BY Zenon, <1>2, WFMin
<1>4. ASSUME NEW j \in S PROVE n <= j
  <2>1. n \in Nat /\ j \in Nat /\ ~(<<j, n>> \in R)
    BY <1>3
  <2>2. ~(j < n)
    BY <1>1, <2>1
  <2> QED
    BY <2>1, <2>2
<1> QED
  BY <1>4 DEF Least

\* The least bound of a set of positions is in it.
LEMMA GreatestElement ==
  ASSUME NEW n \in Nat, NEW S, S \subseteq 1 .. n, S # {}
  PROVE  \E i \in S : Greatest(S, i)
<1> DEFINE B == {i \in Nat : \A j \in S : j <= i}
<1>1. n \in B /\ B \subseteq Nat
  OBVIOUS
<1>2. PICK i \in B : Least(B, i)
  BY Zenon, <1>1, LeastElement
<1>3. i \in S
  <2> SUFFICES ASSUME i \notin S PROVE FALSE
    OBVIOUS
  <2>0. PICK j \in S : TRUE
    BY Zenon
  <2>1. i \in Nat /\ i # 0
    <3>1. j \in Nat /\ 1 <= j /\ j <= i
      BY <2>0
    <3> QED
      BY <3>1
  <2>2. \A m \in S : m <= i - 1
    BY <2>1
  <2>3. i - 1 \in B
    BY <2>1, <2>2
  <2> QED
    BY <1>2, <2>1, <2>3 DEF Least
<1> QED
  BY <1>3 DEF Greatest

LEMMA ResidenceIs ==
  ASSUME NEW k, NEW i
  PROVE  i \in Residence(k) <=>
           /\ i \in Observations(k)
           /\ \A a, b : Consecutive(k, a, b) /\ i <= a => Cardinality(KeysWithin(a, b)) < Capacity
  BY DEF Residence, Consecutive, KeysWithin

\* The observations up to now and the keys between them stay what they are.
LEMMA WithinKept ==
  ASSUME history \in Seq(Events), NEW event \in Events, history' = Append(history, event),
         NEW a \in Nat, NEW b \in Nat, b <= Len(history) + 1
  PROVE  KeysWithin(a, b)' = KeysWithin(a, b)
<1>1. \A i \in a + 1 .. b - 1 : history'[i] = history[i]
  OBVIOUS
<1> QED
  BY <1>1 DEF KeysWithin

\* The residence of a key that is not the observed one stays what it is.
LEMMA OthersReside ==
  ASSUME history \in Seq(Events), NEW event \in Events, history' = Append(history, event),
         NEW k, ~(IsDenial(event) /\ DenialKey(event) = k)
  PROVE  Residence(k)' = Residence(k)
<1> PICK n \in Nat : n = Len(history)
  OBVIOUS
<1>1. Observations(k) \subseteq 1 .. n /\ Observations(k)' = Observations(k)
  BY ObservationsStep
<1>2. \A a, b : Consecutive(k, a, b)' <=> Consecutive(k, a, b)
  BY <1>1 DEF Consecutive
<1>3. ASSUME NEW a, NEW b, Consecutive(k, a, b)
      PROVE  KeysWithin(a, b)' = KeysWithin(a, b)
  <2>1. a \in Nat /\ b \in Nat /\ b <= Len(history) + 1
    BY <1>1, <1>3 DEF Consecutive
  <2> QED
    BY <2>1, WithinKept
<1>4. ASSUME NEW i PROVE i \in Residence(k)' <=> i \in Residence(k)
  <2>1. i \in Residence(k)' <=>
          /\ i \in Observations(k)'
          /\ \A a, b : Consecutive(k, a, b)' /\ i <= a
                         => Cardinality(KeysWithin(a, b)') < Capacity
    BY Zenon DEF Residence, Consecutive, KeysWithin
  <2> QED
    BY <1>1, <1>2, <1>3, <2>1, ResidenceIs
<1>5. Residence(k)' \subseteq Observations(k)' /\ Residence(k) \subseteq Observations(k)
  BY DEF Residence
<1> QED
  BY <1>4, Zenon

\* An observation adds one pair of consecutive observations of its key: the
\* last one before it, and itself.
LEMMA NewPair ==
  ASSUME history \in Seq(Events), NEW event \in Events, history' = Append(history, event),
         IsDenial(event), NEW e, e = DenialKey(event), NEW n \in Nat, n = Len(history),
         NEW last, Greatest(Observations(e), last),
         NEW a, NEW b
  PROVE  Consecutive(e, a, b)' <=> Consecutive(e, a, b) \/ (a = last /\ b = n + 1)
<1>1. Observations(e) \subseteq 1 .. n /\ Observations(e)' = Observations(e) \cup {n + 1}
  BY ObservationsStep
<1>2. last \in 1 .. n /\ last \in Observations(e) /\ \A j \in Observations(e) : j <= last
  BY <1>1 DEF Greatest
<1>3. ASSUME a \in Observations(e), b \in Observations(e)
      PROVE  Consecutive(e, a, b)' <=> Consecutive(e, a, b)
  <2>1. b <= n + 1 /\ b # n + 1
    BY <1>1, <1>3
  <2> QED
    BY <1>1, <1>3, <2>1 DEF Consecutive
<1>4. ASSUME b = n + 1, a \in Observations(e)
      PROVE  Consecutive(e, a, b)' <=> a = last
  <2>0. a \in 1 .. n /\ a <= last
    BY <1>1, <1>2, <1>4
  <2>1. a < b
    BY <1>4, <2>0
  <2>2. ASSUME Consecutive(e, a, b)' PROVE a = last
    <3>1. last <= a \/ b <= last
      BY <1>1, <1>2, <2>2 DEF Consecutive
    <3> QED
      BY <1>2, <1>4, <2>0, <3>1
  <2>3. ASSUME a = last PROVE Consecutive(e, a, b)'
    <3>1. \A c \in Observations(e)' : c <= a \/ b <= c
      BY <1>1, <1>2, <1>4, <2>3
    <3> QED
      BY <1>1, <1>4, <2>1, <3>1 DEF Consecutive
  <2> QED
    BY <2>2, <2>3
<1>5. ASSUME Consecutive(e, a, b)' PROVE a \in Observations(e) /\ (b \in Observations(e) \/ b = n + 1)
  <2>1. a \in Observations(e) \cup {n + 1} /\ b \in Observations(e) \cup {n + 1} /\ a < b
    BY <1>1, <1>5 DEF Consecutive
  <2>2. a # n + 1
    BY <1>1, <2>1
  <2> QED
    BY <2>1, <2>2
<1>6. n + 1 \notin Observations(e)
  BY <1>1
<1>7. Consecutive(e, a, b) => a \in Observations(e) /\ b \in Observations(e)
  BY DEF Consecutive
<1> QED
  BY <1>2, <1>3, <1>4, <1>5, <1>6, <1>7, Zenon

\* What the observation of e makes of its residence, given the keys seen since
\* the last one.
LEMMA ResidenceStep ==
  ASSUME history \in Seq(Events), NEW event \in Events, history' = Append(history, event),
         IsDenial(event), NEW e, e = DenialKey(event), NEW n \in Nat, n = Len(history),
         NEW last, Greatest(Observations(e), last)
  PROVE  Residence(e)' = (IF Cardinality(KeysWithin(last, n + 1)) < Capacity
                          THEN Residence(e) ELSE {}) \cup {n + 1}
<1> DEFINE few == Cardinality(KeysWithin(last, n + 1)) < Capacity
<1>1. Observations(e) \subseteq 1 .. n /\ Observations(e)' = Observations(e) \cup {n + 1}
  BY ObservationsStep
<1>2. last \in 1 .. n /\ last \in Observations(e) /\ \A j \in Observations(e) : j <= last
  BY <1>1 DEF Greatest
<1>3. KeysWithin(last, n + 1)' = KeysWithin(last, n + 1)
  <2> PICK m \in Nat : m = n + 1
    OBVIOUS
  <2>1. KeysWithin(last, m)' = KeysWithin(last, m)
    BY <1>2, WithinKept
  <2> QED
    BY <2>1
<1>4. \A a, b : Consecutive(e, a, b)' <=> Consecutive(e, a, b) \/ (a = last /\ b = n + 1)
  BY NewPair
<1>5. ASSUME NEW a, NEW b, Consecutive(e, a, b)
      PROVE  KeysWithin(a, b)' = KeysWithin(a, b)
  <2>1. a \in Nat /\ b \in Nat /\ b <= Len(history) + 1
    BY <1>1, <1>5 DEF Consecutive
  <2> QED
    BY <2>1, WithinKept
<1>6. \A i : i \in Residence(e)' <=>
          /\ i \in Observations(e)'
          /\ \A a, b : Consecutive(e, a, b)' /\ i <= a
                         => Cardinality(KeysWithin(a, b)') < Capacity
  BY Zenon DEF Residence, Consecutive, KeysWithin
<1>7. n + 1 \in Residence(e)'
  <2>1. \A a, b : Consecutive(e, a, b)' => ~(n + 1 <= a)
    BY <1>1, <1>2, <1>4 DEF Consecutive
  <2> QED
    BY <1>1, <1>6, <2>1
<1>8. ASSUME NEW i \in Observations(e)
      PROVE  i \in Residence(e)' <=> few /\ i \in Residence(e)
  <2>1. i <= last /\ i \in Observations(e)'
    BY <1>1, <1>2
  <2>2. i \in Residence(e) <=>
          \A a, b : Consecutive(e, a, b) /\ i <= a => Cardinality(KeysWithin(a, b)) < Capacity
    BY ResidenceIs
  <2>3. i \in Residence(e)' <=>
          \A a, b : Consecutive(e, a, b)' /\ i <= a => Cardinality(KeysWithin(a, b)') < Capacity
    BY <1>6, <2>1
  <2>4. ASSUME i \in Residence(e)' PROVE few /\ i \in Residence(e)
    <3>1. few
      BY <1>3, <1>4, <2>1, <2>3, <2>4
    <3>2. i \in Residence(e)
      BY <1>4, <1>5, <2>2, <2>3, <2>4
    <3> QED
      BY <3>1, <3>2
  <2>5. ASSUME few, i \in Residence(e),
               NEW a, NEW b, Consecutive(e, a, b)', i <= a
        PROVE  Cardinality(KeysWithin(a, b)') < Capacity
    <3>1. CASE Consecutive(e, a, b)
      BY <1>5, <2>2, <2>5, <3>1
    <3>2. CASE a = last /\ b = n + 1
      <4>1. KeysWithin(a, b)' = KeysWithin(last, n + 1)
        <5>1. KeysWithin(a, b)' = KeysWithin(last, n + 1)'
          BY <3>2 DEF KeysWithin
        <5> QED
          BY <1>3, <5>1
      <4> QED
        BY <2>5, <4>1
    <3> QED
      BY <1>4, <2>5, <3>1, <3>2
  <2> QED
    BY <2>3, <2>4, <2>5
<1>9. \A i \in Residence(e)' : i \in Observations(e) \/ i = n + 1
  BY <1>1, <1>6
<1>10. Residence(e) \subseteq Observations(e)
  BY DEF Residence
<1> HIDE DEF few
<1>11. Residence(e)' = (IF few THEN Residence(e) ELSE {}) \cup {n + 1}
  BY <1>7, <1>8, <1>9, <1>10
<1> QED
  BY <1>11 DEF few

\* Only retained keys were seen since the last observation of a retained one.
LEMMA HitResides ==
  ASSUME IInv, NEW event \in Events, history' = Append(history, event),
         IsDenial(event), NEW e, e = DenialKey(event), e \in Keys,
         NEW n \in Nat, n = Len(history)
  PROVE  Residence(e)' = Residence(e) \cup {n + 1}
<1>0. history \in Seq(Events) /\ DOMAIN history = 1 .. n
  BY DEF IInv, TypeOK
<1>1. Observations(e) \subseteq 1 .. n
  BY <1>0 DEF Observations
<1>2. Observations(e) # {}
  BY DEF IInv, MostRecentRetained, ObservedKeys, Observations
<1>3. PICK last : Greatest(Observations(e), last)
  BY <1>1, <1>2, GreatestElement
<1>4. last \in 1 .. n /\ last \in Observations(e) /\ \A j \in Observations(e) : j <= last
  BY <1>1, <1>3 DEF Greatest
<1>5. ASSUME NEW j \in last + 1 .. (n + 1) - 1, IsDenial(history[j])
      PROVE  DenialKey(history[j]) \in Keys \ {e}
  <2>0. j \in 1 .. n /\ last < j
    BY <1>4
  <2> PICK d : d = DenialKey(history[j])
    OBVIOUS
  <2>1. j \in Observations(d) /\ d \in ObservedKeys
    BY <1>0, <1>5, <2>0 DEF Observations, ObservedKeys
  <2>2. d # e
    BY <1>4, <2>0, <2>1
  <2>3. ~SeenAfter(e, d)
    <3> SUFFICES ASSUME SeenAfter(e, d) PROVE FALSE
      OBVIOUS
    <3>1. PICK i \in Observations(e) : \A m \in Observations(d) : m < i
      BY DEF SeenAfter
    <3>2. j < i /\ i <= last /\ i \in 1 .. n
      BY <1>1, <1>4, <2>1, <3>1
    <3> QED
      BY <1>4, <2>0, <3>2
  <2> QED
    BY <2>1, <2>2, <2>3 DEF IInv, MostRecentRetained
<1>6. KeysWithin(last, n + 1) \in SUBSET (Keys \ {e})
  BY <1>5 DEF KeysWithin
<1>7. Cardinality(KeysWithin(last, n + 1)) < Capacity
  <2>1. /\ IsFiniteSet(Keys) /\ Cardinality(Keys) \in Nat /\ Cardinality(Keys) <= Capacity
        /\ IsFiniteSet(Keys \ {e}) /\ Cardinality(Keys \ {e}) = Cardinality(Keys) - 1
    BY FS_CardinalityType, FS_RemoveElement DEF IInv, TypeOK
  <2>2. /\ Cardinality(KeysWithin(last, n + 1)) \in Nat
        /\ Cardinality(KeysWithin(last, n + 1)) <= Cardinality(Keys \ {e})
    BY <1>6, <2>1, FS_Subset, FS_CardinalityType
  <2> QED
    BY <2>1, <2>2, CapacityAssumption
<1> QED
  BY <1>0, <1>3, <1>7, ResidenceStep

\* Capacity keys were seen since the last observation of an evicted one.
LEMMA InsertResides ==
  ASSUME IInv, NEW event \in Events, history' = Append(history, event),
         IsDenial(event), NEW e, e = DenialKey(event), e \notin Keys,
         NEW n \in Nat, n = Len(history)
  PROVE  Residence(e)' = {n + 1}
<1>0. history \in Seq(Events) /\ DOMAIN history = 1 .. n
  BY DEF IInv, TypeOK
<1>1. Observations(e) \subseteq 1 .. n /\ Observations(e)' = Observations(e) \cup {n + 1}
  BY <1>0, ObservationsStep
<1>2. CASE Observations(e) = {}
  <2>1. Observations(e)' = {n + 1}
    BY <1>1, <1>2
  <2>2. \A a, b \in {n + 1} : ~(a < b)
    OBVIOUS
  <2> QED
    BY <2>1, <2>2 DEF Residence
<1>3. CASE Observations(e) # {}
  <2>1. PICK last : Greatest(Observations(e), last)
    BY <1>1, <1>3, GreatestElement
  <2>2. last \in 1 .. n /\ last \in Observations(e)
    BY <1>1, <2>1 DEF Greatest
  <2>3. e \in ObservedKeys
    BY <2>2 DEF Observations, ObservedKeys
  <2>4. Cardinality(Keys) = Capacity
    BY <2>3, FS_CardinalityType, CapacityAssumption DEF IInv, TypeOK, MostRecentRetained
  <2>5. ASSUME NEW k \in Keys PROVE k \in KeysWithin(last, n + 1)
    <3>1. PICK i \in Observations(k) : \A j \in Observations(e) : j < i
      BY <2>3 DEF IInv, MostRecentRetained, SeenAfter
    <3>2. i \in 1 .. n /\ last < i /\ IsDenial(history[i]) /\ DenialKey(history[i]) = k
      BY <1>0, <2>2, <3>1 DEF Observations
    <3>3. i \in last + 1 .. (n + 1) - 1
      BY <2>2, <3>2
    <3> QED
      BY <3>2, <3>3 DEF KeysWithin
  <2>6. IsFiniteSet(KeysWithin(last, n + 1))
    <3> DEFINE J == {i \in last + 1 .. (n + 1) - 1 : IsDenial(history[i])}
               D == {DenialKey(history[j]) : j \in J}
    <3>1. IsFiniteSet(last + 1 .. (n + 1) - 1)
      BY <2>2, FS_Interval
    <3>2. IsFiniteSet(J)
      BY Zenon, <3>1, FS_Subset
    <3>3. IsFiniteSet(D)
      <4> DEFINE f == [j \in J |-> DenialKey(history[j])]
      <4>1. f \in Surjection(J, D)
        BY DEF Surjection
      <4> QED
        BY <3>2, <4>1, FS_Surjection
    <3> QED
      BY <3>3 DEF KeysWithin
  <2>7. Capacity <= Cardinality(KeysWithin(last, n + 1))
    BY <2>4, <2>5, <2>6, FS_Subset
  <2>8. ~(Cardinality(KeysWithin(last, n + 1)) < Capacity)
    BY <2>6, <2>7, FS_CardinalityType, CapacityAssumption
  <2> QED
    BY <1>0, <2>1, <2>8, ResidenceStep
<1> QED
  BY <1>2, <1>3

\* Compaction changes the recency numbers only.
LEMMA CurrentFacts ==
  ASSUME TypeOK, NEW k \in Keys
  PROVE  /\ Current[k].occurrence_count = entries[k].occurrence_count
         /\ Current[k].first_timestamp = entries[k].first_timestamp
         /\ Current[k].latest_timestamp = entries[k].latest_timestamp
         /\ Current[k].latest_event = entries[k].latest_event
<1>1. entries[k] \in Entry
  BY DEF TypeOK
<1> QED
  BY <1>1 DEF Current, Compacted, Entry

\* An entry that keeps its facts and its residence still tells the truth.
LEMMA FactsKept ==
  ASSUME history \in Seq(Events), NEW event \in Events, history' = Append(history, event),
         NEW k, EntryFacts(k), Residence(k)' = Residence(k),
         entries'[k].occurrence_count = entries[k].occurrence_count,
         entries'[k].first_timestamp = entries[k].first_timestamp,
         entries'[k].latest_timestamp = entries[k].latest_timestamp,
         entries'[k].latest_event = entries[k].latest_event
  PROVE  EntryFacts(k)'
<1>1. \A i \in Residence(k) : history'[i] = history[i]
  BY DEF Residence, Observations
<1> QED
  BY ZenonT(30), <1>1 DEF EntryFacts, Least, Greatest

\* Every observation leaves the facts of the keys it does not observe alone.
LEMMA OthersFacts ==
  ASSUME IInv, FactsInv, NEW event \in Events, history' = Append(history, event),
         NEW k \in Keys, ~(IsDenial(event) /\ DenialKey(event) = k),
         entries'[k] = Current[k] \/ entries'[k] = entries[k]
  PROVE  EntryFacts(k)'
<1>1. history \in Seq(Events) /\ TypeOK
  BY DEF IInv, TypeOK
<1>2. Residence(k)' = Residence(k)
  BY <1>1, OthersReside
<1>3. /\ entries'[k].occurrence_count = entries[k].occurrence_count
      /\ entries'[k].first_timestamp = entries[k].first_timestamp
      /\ entries'[k].latest_timestamp = entries[k].latest_timestamp
      /\ entries'[k].latest_event = entries[k].latest_event
  BY <1>1, CurrentFacts
<1>4. EntryFacts(k)
  BY DEF FactsInv
<1> QED
  BY <1>1, <1>2, <1>3, <1>4, FactsKept

LEMMA HitFacts ==
  ASSUME IInv, FactsInv, NEW event \in Events, history' = Append(history, event), Hit(event)
  PROVE  FactsInv'
<1> PICK e : e = DenialKey(event)
  OBVIOUS
<1> PICK n \in Nat : n = Len(history)
  BY DEF IInv, TypeOK
<1>0. /\ IsDenial(event) /\ e \in Keys /\ history \in Seq(Events) /\ TypeOK
      /\ entries' = [Current EXCEPT ![e] = Refreshed(@, event)]
  BY DEF Hit, IInv, TypeOK
<1>1. Current \in [Keys -> Entry]
  BY CurrentOrder DEF IInv
<1>2. /\ Keys' = Keys
      /\ entries'[e] = Refreshed(Current[e], event)
      /\ \A k \in Keys \ {e} : entries'[k] = Current[k]
  BY <1>0, <1>1 DEF Keys
<1>3. /\ entries'[e].occurrence_count = SaturatingAdd1(entries[e].occurrence_count, MaxCount)
      /\ entries'[e].first_timestamp = entries[e].first_timestamp
      /\ entries'[e].latest_timestamp = event.timestamp
      /\ entries'[e].latest_event = event
  <2>1. Current[e] \in Entry
    BY <1>0, <1>1
  <2>2. /\ entries'[e].occurrence_count = SaturatingAdd1(Current[e].occurrence_count, MaxCount)
        /\ entries'[e].first_timestamp = Current[e].first_timestamp
        /\ entries'[e].latest_timestamp = event.timestamp
        /\ entries'[e].latest_event = event
    BY <1>2, <2>1 DEF Refreshed, Entry
  <2> QED
    BY <1>0, <2>2, CurrentFacts
<1>4. Residence(e)' = Residence(e) \cup {n + 1}
  BY <1>0, HitResides
<1>5. Residence(e) \subseteq 1 .. n /\ \A i \in Residence(e) : history'[i] = history[i]
  BY <1>0 DEF Residence, Observations
<1>6. history'[n + 1] = event
  BY <1>0
<1>7. EntryFacts(e)
  BY <1>0 DEF FactsInv
<1>8. EntryFacts(e)'
  <2>1. /\ IsFiniteSet(Residence(e)')
        /\ Cardinality(Residence(e)') = Cardinality(Residence(e)) + 1
        /\ Cardinality(Residence(e)) \in Nat
    <3>1. n + 1 \notin Residence(e) /\ IsFiniteSet(Residence(e))
      BY <1>5, <1>7 DEF EntryFacts
    <3> QED
      BY <1>4, <3>1, FS_AddElement, FS_CardinalityType
  <2>2. entries'[e].occurrence_count = (IF Cardinality(Residence(e)') < MaxCount
                                        THEN Cardinality(Residence(e)') ELSE MaxCount)
    <3> DEFINE c == Cardinality(Residence(e))
    <3>1. entries[e].occurrence_count = (IF c < MaxCount THEN c ELSE MaxCount)
      BY <1>7 DEF EntryFacts
    <3>2. c \in Nat /\ Cardinality(Residence(e)') = c + 1
      BY <2>1
    <3> HIDE DEF c
    <3> QED
      BY <1>3, <3>1, <3>2, MaxCountAssumption DEF SaturatingAdd1
  <2>3. \E i \in Residence(e)' : /\ Least(Residence(e)', i)
                                /\ entries'[e].first_timestamp = history'[i].timestamp
    <3>1. PICK i \in Residence(e) : /\ Least(Residence(e), i)
                                   /\ entries[e].first_timestamp = history[i].timestamp
      BY <1>7 DEF EntryFacts
    <3>2. i \in 1 .. n /\ history'[i] = history[i]
      BY <1>5, <3>1
    <3>3. Least(Residence(e)', i)
      <4>1. i <= n + 1 /\ \A j \in Residence(e) : i <= j
        BY <3>1, <3>2 DEF Least
      <4> QED
        BY <1>4, <4>1 DEF Least
    <3> QED
      BY <1>3, <3>1, <3>2, <3>3 DEF Least
  <2>4. \E i \in Residence(e)' : /\ Greatest(Residence(e)', i)
                                /\ entries'[e].latest_timestamp = history'[i].timestamp
                                /\ entries'[e].latest_event = history'[i]
    <3>1. Greatest(Residence(e)', n + 1)
      BY <1>4, <1>5 DEF Greatest
    <3> QED
      BY <1>3, <1>6, <3>1 DEF Greatest
  <2> QED
    BY ZenonT(30), <2>1, <2>2, <2>3, <2>4 DEF EntryFacts
<1>9. \A k \in Keys \ {e} : EntryFacts(k)'
  BY <1>0, <1>2, OthersFacts
<1> QED
  BY <1>2, <1>8, <1>9 DEF FactsInv

LEMMA InsertFacts ==
  ASSUME IInv, FactsInv, NEW event \in Events, history' = Append(history, event),
         IsDenial(event), NEW R \in SUBSET Keys, DenialKey(event) \notin Keys, Insert(event, R)
  PROVE  FactsInv'
<1> PICK e : e = DenialKey(event)
  OBVIOUS
<1> PICK n \in Nat : n = Len(history)
  BY DEF IInv, TypeOK
<1>0. e \notin Keys /\ history \in Seq(Events)
  BY DEF IInv, TypeOK
<1>1. /\ Keys' = R \cup {e}
      /\ entries'[e] = NewEntry(event)
      /\ \A k \in R : entries'[k] = Current[k]
  BY <1>0 DEF Insert, Keys
<1>2. Residence(e)' = {n + 1}
  BY <1>0, InsertResides
<1>3. history'[n + 1] = event
  BY <1>0
<1>4. EntryFacts(e)'
  <2>1. IsFiniteSet(Residence(e)') /\ Cardinality(Residence(e)') = 1
    BY ZenonT(30), <1>2, FS_Singleton
  <2>2. entries'[e].occurrence_count = (IF Cardinality(Residence(e)') < MaxCount
                                        THEN Cardinality(Residence(e)') ELSE MaxCount)
    BY <1>1, <2>1, MaxCountAssumption DEF NewEntry
  <2>3. Least(Residence(e)', n + 1) /\ Greatest(Residence(e)', n + 1)
    BY <1>2 DEF Least, Greatest
  <2>4. /\ entries'[e].first_timestamp = history'[n + 1].timestamp
        /\ entries'[e].latest_timestamp = history'[n + 1].timestamp
        /\ entries'[e].latest_event = history'[n + 1]
    BY <1>1, <1>3 DEF NewEntry
  <2> QED
    BY <1>2, <2>1, <2>2, <2>3, <2>4 DEF EntryFacts
<1>5. \A k \in R : EntryFacts(k)'
  BY <1>0, <1>1, OthersFacts
<1> QED
  BY <1>1, <1>4, <1>5 DEF FactsInv

LEMMA FactsStep == IInv /\ FactsInv /\ [Next]_vars => FactsInv'
<1> SUFFICES ASSUME IInv, FactsInv, [Next]_vars PROVE FactsInv'
  OBVIOUS
<1>1. ASSUME NEW event \in Events, Observe(event) PROVE FactsInv'
  <2>0. history' = Append(history, event)
    BY <1>1 DEF Observe
  <2>1. CASE Ignore(event)
    <3>1. Keys' = Keys /\ entries' = entries /\ ~IsDenial(event)
      BY <2>1 DEF Ignore, Keys
    <3>2. \A k \in Keys : EntryFacts(k)'
      BY <2>0, <3>1, OthersFacts
    <3> QED
      BY <3>1, <3>2 DEF FactsInv
  <2>2. CASE Hit(event)
    BY <2>0, <2>2, HitFacts
  <2>3. CASE InsertWithRoom(event)
    BY <2>0, <2>3, InsertFacts DEF InsertWithRoom
  <2>4. CASE InsertEvicting(event)
    <3>1. PICK v \in Keys : Insert(event, Keys \ {v})
      BY <2>4 DEF InsertEvicting
    <3>2. Keys \ {v} \in SUBSET Keys
      OBVIOUS
    <3> QED
      BY <2>0, <2>4, <3>1, <3>2, InsertFacts DEF InsertEvicting
  <2> QED
    BY <1>1, <2>1, <2>2, <2>3, <2>4 DEF Observe
<1>2. CASE UNCHANGED vars
  <2>1. Keys' = Keys /\ \A k : Residence(k)' = Residence(k)
    BY <1>2 DEF vars, Keys, Residence, Observations
  <2>2. \A k : EntryFacts(k)' <=> EntryFacts(k)
    BY <1>2, <2>1 DEF vars, EntryFacts, Least, Greatest
  <2> QED
    BY <2>1, <2>2 DEF FactsInv
<1> QED
  BY <1>1, <1>2 DEF Next

LEMMA FactsImply == IInv /\ FactsInv => EntryFactsExact
<1> SUFFICES ASSUME IInv, FactsInv, NEW k \in Keys
             PROVE  LET residence == Residence(k)
                        first == CHOOSE i \in residence : \A j \in residence : i <= j
                        latest == CHOOSE i \in residence : \A j \in residence : j <= i
                    IN /\ entries[k].occurrence_count =
                            (IF Cardinality(residence) < MaxCount
                             THEN Cardinality(residence) ELSE MaxCount)
                       /\ entries[k].first_timestamp = history[first].timestamp
                       /\ entries[k].latest_timestamp = history[latest].timestamp
                       /\ entries[k].latest_event = history[latest]
  BY Zenon DEF EntryFactsExact
<1> DEFINE S == Residence(k)
           first == CHOOSE i \in S : \A j \in S : i <= j
           latest == CHOOSE i \in S : \A j \in S : j <= i
<1>1. S \subseteq Nat
  BY DEF Residence, Observations, IInv, TypeOK
<1>2. PICK i \in S : Least(S, i) /\ entries[k].first_timestamp = history[i].timestamp
  BY DEF FactsInv, EntryFacts
<1>3. PICK l \in S : /\ Greatest(S, l)
                     /\ entries[k].latest_timestamp = history[l].timestamp
                     /\ entries[k].latest_event = history[l]
  BY DEF FactsInv, EntryFacts
<1>4. entries[k].occurrence_count = (IF Cardinality(S) < MaxCount THEN Cardinality(S) ELSE MaxCount)
  BY DEF FactsInv, EntryFacts
<1> HIDE DEF S
<1>5. first = i
  <2>1. first \in S /\ \A j \in S : first <= j
    BY <1>2 DEF Least
  <2> HIDE DEF first
  <2> QED
    BY <1>1, <1>2, <2>1 DEF Least
<1>6. latest = l
  <2>1. latest \in S /\ \A j \in S : j <= latest
    BY <1>3 DEF Greatest
  <2> HIDE DEF latest
  <2> QED
    BY <1>1, <1>3, <2>1 DEF Greatest
<1> HIDE DEF first, latest
<1>7. /\ entries[k].first_timestamp = history[first].timestamp
      /\ entries[k].latest_timestamp = history[latest].timestamp
      /\ entries[k].latest_event = history[latest]
  BY <1>2, <1>3, <1>5, <1>6
<1> QED
  BY <1>4, <1>7 DEF S, first, latest

\* The count, the first timestamp and the latest event of an entry are those
\* of the observations since its key was inserted, for every capacity and
\* every history of observations and evictions (observe_entry).
THEOREM EntriesTellTheTruth == Spec => []EntryFactsExact
<1>1. Init => FactsInv
  BY DEF Init, FactsInv, Keys
<1> QED
  BY <1>1, IInvAlways, FactsStep, FactsImply, PTL DEF Spec
=============================================================================
