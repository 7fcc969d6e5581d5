------------------------------ MODULE Aggregator ------------------------------
(***************************************************************************)
(* DenialAggregator of src/aggregate.rs: at most Capacity denial keys, the *)
(* least recently observed one evicted for a new one.  Recency is a        *)
(* counter that is compacted when it reaches its maximum.                  *)
(*                                                                         *)
(* An event is a record: its `variant`, timestamp and flags, and a field   *)
(* per piece of its payload.                                               *)
(***************************************************************************)
EXTENDS Naturals, Sequences, FiniteSets

CONSTANTS
  Capacity,     \* DenialAggregatorBuilder::capacity
  MaxSequence,  \* u128::MAX, the largest recency number
  MaxCount,     \* u64::MAX, where occurrence counts saturate
  Events,       \* the events callers pass to observe
  MaxEvents     \* bound: events ever observed

\* DenialAggregatorBuilder::build rejects a zero capacity.
ASSUME CapacityAssumption == Capacity \in Nat \ {0}

\* The capacity is a usize, far below u128::MAX.
ASSUME MaxSequenceAssumption == MaxSequence \in Nat /\ Capacity < MaxSequence
ASSUME MaxCountAssumption == MaxCount \in Nat \ {0}

VARIABLES
  entries,             \* HashMap<DenialKey, AggregatedDenial>
  ingestion_sequence,  \* the last recency number given out
  history              \* history: every event observed, in order

vars == <<entries, ingestion_sequence, history>>

Keys == DOMAIN entries

-----------------------------------------------------------------------------

\* denial_facts: the fields that identify a denial of each variant.  A path,
\* a peer's PID and the kernel's cumulative count are descriptive only.
IdentityFields(variant) ==
  CASE variant = "DenyAccessFs" ->
         {"domain_id", "blockers_type", "blockers_access", "device", "inode"}
    [] variant = "DenyAccessNet" ->
         {"domain_id", "blockers_type", "blockers_access", "source_port", "destination_port"}
    [] variant = "DenyPtrace" -> {"domain_id", "tracee_domain", "tracee_pid", "tracee_comm"}
    [] variant = "DenyScopeSignal" -> {"domain_id", "target_domain", "target_pid", "target_comm"}
    [] variant = "DenyScopeAbstractUnixSocket" -> {"domain_id", "peer_domain", "abstract_name"}

DenialVariants == {"DenyAccessFs", "DenyAccessNet", "DenyPtrace", "DenyScopeSignal",
                   "DenyScopeAbstractUnixSocket"}

IsDenial(event) == event.variant \in DenialVariants

DenialKey(event) == [variant |-> event.variant,
                     target |-> [f \in IdentityFields(event.variant) |-> event[f]]]

-----------------------------------------------------------------------------
(* next_ingestion_sequence.                                                 *)

SaturatingAdd1(n, max) == IF n < max THEN n + 1 ELSE max

Exhausted == ingestion_sequence = MaxSequence

\* The entries up to k in recency order: their number is the place of k.
AtMostAsRecent(k) ==
  {j \in Keys : entries[j].last_observed_sequence <= entries[k].last_observed_sequence}

Compacted_ByTimestamp ==
  [k \in Keys |-> [entries[k] EXCEPT !.last_observed_sequence =
     Cardinality({j \in Keys : entries[j].latest_timestamp <= entries[k].latest_timestamp})]]

\* Stored numbers become 1, 2, ... in their existing order.
Compacted ==
  [k \in Keys |-> [entries[k] EXCEPT !.last_observed_sequence = Cardinality(AtMostAsRecent(k))]]

\* The entries an observation works on ...
Current == IF Exhausted THEN Compacted ELSE entries

\* ... and the number it is given.
NextSequence ==
  SaturatingAdd1(IF Exhausted THEN Cardinality(Keys) ELSE ingestion_sequence, MaxSequence)

-----------------------------------------------------------------------------
(* observe_entry.                                                           *)

\* A non-denial is ignored.
Ignore(event) ==
  /\ ~IsDenial(event)
  /\ UNCHANGED <<entries, ingestion_sequence>>

Refreshed_Forgetful(entry, event) ==
  [entry EXCEPT !.occurrence_count = SaturatingAdd1(@, MaxCount),
                !.first_timestamp = event.timestamp,
                !.latest_timestamp = event.timestamp,
                !.latest_event = event,
                !.last_observed_sequence = NextSequence]

Refreshed_NotMoved(entry, event) ==
  [entry EXCEPT !.occurrence_count = SaturatingAdd1(@, MaxCount),
                !.latest_timestamp = event.timestamp,
                !.latest_event = event]

\* same_exec and logged are those of the latest event, which the entry holds.
Refreshed(entry, event) ==
  [entry EXCEPT !.occurrence_count = SaturatingAdd1(@, MaxCount),
                !.latest_timestamp = event.timestamp,
                !.latest_event = event,
                !.last_observed_sequence = NextSequence]

Hit(event) ==
  /\ IsDenial(event)
  /\ DenialKey(event) \in Keys
  /\ entries' = [Current EXCEPT ![DenialKey(event)] = Refreshed(@, event)]
  /\ ingestion_sequence' = NextSequence

NewEntry(event) == [occurrence_count |-> 1,
                    first_timestamp |-> event.timestamp,
                    latest_timestamp |-> event.timestamp,
                    latest_event |-> event,
                    last_observed_sequence |-> NextSequence]

\* The retained keys and the new one, all others gone.
Insert(event, retained) ==
  /\ entries' = [k \in retained \cup {DenialKey(event)} |->
                   IF k = DenialKey(event) THEN NewEntry(event) ELSE Current[k]]
  /\ ingestion_sequence' = NextSequence

HasRoom == Cardinality(Keys) < Capacity

InsertWithRoom(event) ==
  /\ IsDenial(event)
  /\ DenialKey(event) \notin Keys
  /\ HasRoom
  /\ Insert(event, Keys)

\* min_by_key on the recency number.
LeastRecent(k) ==
  \A j \in Keys : Current[k].last_observed_sequence <= Current[j].last_observed_sequence

InsertEvicting(event) ==
  /\ IsDenial(event)
  /\ DenialKey(event) \notin Keys
  /\ ~HasRoom
  /\ \E k \in Keys : LeastRecent(k) /\ Insert(event, Keys \ {k})

Observe(event) ==
  /\ Len(history) < MaxEvents
  /\ history' = Append(history, event)
  /\ \/ Ignore(event)
     \/ Hit(event)
     \/ InsertWithRoom(event)
     \/ InsertEvicting(event)

Init ==
  /\ entries = [k \in {} |-> 0]
  /\ ingestion_sequence = 0
  /\ history = <<>>

Next == \E event \in Events : Observe(event)

Spec == Init /\ [][Next]_vars
-----------------------------------------------------------------------------

Observations(k) == {i \in DOMAIN history : IsDenial(history[i]) /\ DenialKey(history[i]) = k}

ObservedKeys == {DenialKey(history[i]) : i \in {j \in DOMAIN history : IsDenial(history[j])}}

\* Denial key a was observed after the last observation of b.
SeenAfter(a, b) == \E i \in Observations(a) : \A j \in Observations(b) : j < i

Timestamps == {event.timestamp : event \in Events}

\* AggregatedDenial, without the flags its latest event holds.
Entry == [occurrence_count : 1 .. MaxCount,
          first_timestamp : Timestamps,
          latest_timestamp : Timestamps,
          latest_event : Events,
          last_observed_sequence : 1 .. MaxSequence]

\* Entries and counters are well typed and the keys fit the capacity.
TypeOK ==
  /\ ingestion_sequence \in 0 .. MaxSequence
  /\ IsFiniteSet(Keys) /\ Cardinality(Keys) <= Capacity
  /\ entries \in [Keys -> Entry]
  /\ history \in Seq(Events)

\* Recency numbers order the retained keys by their last observation, across
\* any number of compactions (next_ingestion_sequence).
RecencyExact ==
  \A a, b \in Keys :
    entries[a].last_observed_sequence < entries[b].last_observed_sequence <=> SeenAfter(b, a)

\* Observed keys are missing only because of the capacity, and those retained
\* were all observed later than those evicted.
MostRecentRetained ==
  /\ Keys \subseteq ObservedKeys
  /\ Cardinality(Keys) < Capacity => ObservedKeys = Keys
  /\ \A a \in Keys, b \in ObservedKeys \ Keys : SeenAfter(a, b)

\* The observations of k in a row without an eviction between them: at most
\* Capacity - 1 other keys were seen from one to the next.
Residence(k) ==
  {i \in Observations(k) :
     \A a, b \in Observations(k) :
       (i <= a /\ a < b /\ \A c \in Observations(k) : c <= a \/ b <= c) =>
         Cardinality({DenialKey(history[j]) :
                        j \in {n \in a + 1 .. b - 1 : IsDenial(history[n])}}) < Capacity}

\* An entry describes the observations since its key was last inserted: their
\* saturated number, the first one's timestamp and the last one's event, even
\* when timestamps go backwards (observe_entry).
EntryFactsExact ==
  \A k \in Keys :
    LET residence == Residence(k)
        first == CHOOSE i \in residence : \A j \in residence : i <= j
        latest == CHOOSE i \in residence : \A j \in residence : j <= i
    IN /\ entries[k].occurrence_count = (IF Cardinality(residence) < MaxCount
                                         THEN Cardinality(residence) ELSE MaxCount)
       /\ entries[k].first_timestamp = history[first].timestamp
       /\ entries[k].latest_timestamp = history[latest].timestamp
       /\ entries[k].latest_event = history[latest]
=============================================================================
