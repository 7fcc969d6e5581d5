-------------------------------- MODULE Batch --------------------------------
(***************************************************************************)
(* lltop's batch mode: Batch of lltop/src/batch.rs and run_batch of        *)
(* lltop/src/main.rs.  Each received event is applied to a State and a     *)
(* DenialAggregator, and the records it changes are written line by line.  *)
(*                                                                         *)
(* `view` is what a reader of the output knows: the latest record of each  *)
(* kind for each object.  A line is the tuple of the facts it prints.      *)
(***************************************************************************)
EXTENDS State, Sequences, FiniteSets

CONSTANTS
  Capacity, MaxSequence,  \* of the aggregator
  MaxCount,               \* u64::MAX, where counters saturate
  MaxEvents               \* bound: events received

VARIABLES
  entries, ingestion_sequence,  \* the DenialAggregator
  history,                      \* history: the events received, in order
  total_denials, denials,       \* Stats
  allocated_domains,            \* Batch::allocated_domains
  mode,                         \* where run_batch is
  records,                      \* records of the current event still to be written
  view                          \* what was written, as a reader sees it

Denials == INSTANCE Aggregator

batch_vars == <<entries, ingestion_sequence, history, total_denials, denials,
                allocated_domains, mode, records, view>>
all_vars == <<vars, batch_vars>>

\* DomainId is a number; a target domain is read of these variants only.
ASSUME DomainIdsAssumption ==
  \A event \in Events :
    /\ event.variant \in DenialVariants \cup {"CreateDomain", "FreeDomain", "EnforceDomain"} =>
         event.domain_id \in Nat
    /\ event.variant \in DenialVariants \cup {"CreateDomain"} => event.parent_id \in Nat \cup {Root}
    /\ event.variant \in DenialVariants \ {"DenyAccessFs", "DenyAccessNet"} =>
         event.target_domain \in Nat \cup {Unsandboxed}

-----------------------------------------------------------------------------
(* Records.                                                                 *)

\* DomainState::no_new_privs: the weakest of the threads' latest enforcements.
no_new_privs(state) ==
  IF DOMAIN state.enforcement_events = {} THEN None
  ELSE \A tid \in DOMAIN state.enforcement_events : state.enforcement_events[tid].no_new_privs

\* An unknown fact is printed as "?"; counts and lifecycle are not printed.
format_domain(id, state) ==
  [record |-> "DOMAIN", domain |-> id, parent |-> state.parent, ruleset |-> state.ruleset,
   creator |-> IF None \in {state.creator_comm, state.creator_tgid} THEN None
               ELSE <<state.creator_comm, state.creator_tgid>>,
   no_new_privs |-> no_new_privs(state)]

deallocated_ruleset_identity(map, id) ==
  IF id \in DOMAIN map /\ map[id].lifecycle = "Deallocated" THEN map[id].final_version ELSE None

\* The descriptive target is that of the latest event; the age never negative.
format_denial(entry) ==
  [record |-> "DENIAL", kind |-> entry.latest_event.variant,
   domain |-> entry.latest_event.domain_id, target |-> entry.latest_event.shown_target,
   count |-> entry.occurrence_count,
   age |-> IF entry.latest_timestamp >= entry.first_timestamp
           THEN entry.latest_timestamp - entry.first_timestamp ELSE 0]

format_stats(allocated, total, all, by_kind) ==
  [record |-> "STATS", allocated |-> allocated, total |-> total,
   denials |-> all, by_kind |-> by_kind]

-----------------------------------------------------------------------------
(* process.                                                                 *)

affected_domain_ids_NoTarget(event) ==
  CASE event.variant = "CreateDomain" -> {event.domain_id} \cup ParentIds(event)
    [] event.variant \in {"FreeDomain", "EnforceDomain"} -> {event.domain_id}
    [] event.variant \in DenialVariants -> {event.domain_id} \cup ParentIds(event)
    [] OTHER -> {}

\* Without duplicates; `process` goes through them in ascending order.
affected_domain_ids(event) ==
  CASE event.variant = "CreateDomain" -> {event.domain_id} \cup ParentIds(event)
    [] event.variant \in {"FreeDomain", "EnforceDomain"} -> {event.domain_id}
    [] event.variant \in DenialVariants ->
         {event.domain_id} \cup ParentIds(event) \cup OtherIds(event)
    [] OTHER -> {}

\* sort_unstable
Ascending(ids) ==
  CHOOSE seq \in [1 .. Cardinality(ids) -> ids] :
    \A i, j \in 1 .. Cardinality(ids) : i < j => seq[i] < seq[j]

Allocated(map, id) == id \in DOMAIN map /\ map[id].lifecycle = "Allocated"

Monus(a, b) == IF a >= b THEN a - b ELSE 0

NewlyAllocated(event) ==
  {id \in affected_domain_ids(event) : ~Allocated(domains, id) /\ Allocated(domains', id)}

NewlyFreed(event) ==
  {id \in affected_domain_ids(event) : Allocated(domains, id) /\ ~Allocated(domains', id)}

\* Only a free takes away, and it affects one domain: the order of the loop
\* over the affected domains makes no difference to the saturating counter.
UpdateAllocated(event) ==
  allocated_domains' =
    Monus(allocated_domains, Cardinality(NewlyFreed(event))) + Cardinality(NewlyAllocated(event))

DomainChanged_Always(id) == id \in DOMAIN domains'

\* The record, not the lifecycle, is compared with the one before the event.
DomainChanged(id) ==
  /\ id \in DOMAIN domains'
  /\ id \in DOMAIN domains => format_domain(id, domains[id]) # format_domain(id, domains'[id])

DomainRecords(event) ==
  LET changed == Ascending({id \in affected_domain_ids(event) : DomainChanged(id)})
  IN [i \in DOMAIN changed |-> format_domain(changed[i], domains'[changed[i]])]

DropRecords(event) ==
  LET identity == deallocated_ruleset_identity(rulesets', event.ruleset_id)
  IN IF event.variant = "FreeRuleset" /\ identity # None
        /\ identity # deallocated_ruleset_identity(rulesets, event.ruleset_id)
     THEN <<[record |-> "DROP_RULESET", ruleset |-> event.ruleset_id, version |-> identity]>>
     ELSE <<>>

DenialRecords(event) ==
  IF Denials!IsDenial(event) THEN <<format_denial(entries'[Denials!DenialKey(event)])>> ELSE <<>>

StatsChanged(changes) ==
  \/ changes # <<>>
  \/ allocated_domains' # allocated_domains
  \/ Cardinality(DOMAIN domains') # Cardinality(DOMAIN domains)

StatsRecords(changes) ==
  IF StatsChanged(changes)
  THEN <<format_stats(allocated_domains', Cardinality(DOMAIN domains'), total_denials', denials')>>
  ELSE <<>>

UpdateStats_NewOnly(event) ==
  IF Denials!IsDenial(event) /\ Denials!DenialKey(event) \notin DOMAIN entries
  THEN /\ total_denials' = Denials!SaturatingAdd1(total_denials, MaxCount)
       /\ denials' = [denials EXCEPT ![event.variant] = Denials!SaturatingAdd1(@, MaxCount)]
  ELSE UNCHANGED <<total_denials, denials>>

\* Stats::observe
UpdateStats(event) ==
  IF Denials!IsDenial(event)
  THEN /\ total_denials' = Denials!SaturatingAdd1(total_denials, MaxCount)
       /\ denials' = [denials EXCEPT ![event.variant] = Denials!SaturatingAdd1(@, MaxCount)]
  ELSE UNCHANGED <<total_denials, denials>>

Process(event) ==
  /\ Apply(event)
  /\ Denials!Observe(event)
  /\ UpdateStats(event)
  /\ UpdateAllocated(event)
  /\ LET changes == DomainRecords(event) \o DropRecords(event) \o DenialRecords(event)
     IN records' = changes \o StatsRecords(changes)

-----------------------------------------------------------------------------
(* run_batch.                                                               *)

quiet == <<vars, entries, ingestion_sequence, history, total_denials, denials, allocated_domains>>

\* The ready signal is written to standard error, or run_batch returns.
Ready ==
  /\ mode = "starting"
  /\ mode' \in {"receiving", "ended"}
  /\ UNCHANGED <<quiet, records, view>>

\* An event without records is neither written nor flushed.
ReceiveEvent ==
  /\ mode = "receiving"
  /\ \E event \in Events : Process(event)
  /\ mode' = IF records' = <<>> THEN "receiving" ELSE "writing"
  /\ UNCHANGED view

\* A terminal collector error, or a loss warning that cannot be written.
\* Timeouts and warnings that are written change nothing.
ReceiveError ==
  /\ mode = "receiving"
  /\ mode' = "ended"
  /\ UNCHANGED <<quiet, records, view>>

\* What a reader makes of a line.
Shown(line) ==
  CASE line.record = "DOMAIN" -> [view EXCEPT !.domains = Put(@, line.domain, line)]
    [] line.record = "DROP_RULESET" -> [view EXCEPT !.dropped = Put(@, line.ruleset, line.version)]
    [] line.record = "DENIAL" ->
         [view EXCEPT !.denials[line.kind] = Denials!SaturatingAdd1(@, MaxCount)]
    [] line.record = "STATS" -> [view EXCEPT !.stats = line]

\* process_and_write: one line.
WriteRecord ==
  /\ mode = "writing" /\ records # <<>>
  /\ view' = Shown(Head(records))
  /\ records' = Tail(records)
  /\ UNCHANGED <<quiet, mode>>

Flush ==
  /\ mode = "writing" /\ records = <<>>
  /\ mode' = "receiving"
  /\ UNCHANGED <<quiet, records, view>>

\* Writing or flushing fails; the lines left are never written.
WriteFails ==
  /\ mode = "writing"
  /\ mode' = "ended"
  /\ UNCHANGED <<quiet, records, view>>

BatchInit ==
  /\ Init /\ Denials!Init
  /\ total_denials = 0 /\ denials = [kind \in DenialVariants |-> 0]
  /\ allocated_domains = 0
  /\ mode = "starting" /\ records = <<>>
  /\ view = [domains |-> EmptyMap, dropped |-> EmptyMap,
             denials |-> [kind \in DenialVariants |-> 0],
             stats |-> format_stats(0, 0, 0, [kind \in DenialVariants |-> 0])]

BatchNext == Ready \/ ReceiveEvent \/ ReceiveError \/ WriteRecord \/ Flush \/ WriteFails

BatchSpec == BatchInit /\ [][BatchNext]_all_vars
-----------------------------------------------------------------------------

\* The incrementally kept counter is the number of allocated domains: late,
\* repeated and missing events never let it drift (process).
AllocatedCounted == allocated_domains = Cardinality({id \in DOMAIN domains : Allocated(domains, id)})

\* "A domain is emitted again when newly learned facts change its record"
\* (lltop/README.md): whenever the program waits for the next event, a reader
\* that keeps the last line of each object knows exactly the current record of
\* every domain, the final version of every freed ruleset and the counters,
\* which are those of the DENIAL lines, one for each observed denial.
ReaderCurrent ==
  mode = "receiving" =>
    /\ view.domains = [id \in DOMAIN domains |-> format_domain(id, domains[id])]
    /\ view.dropped = [id \in {r \in DOMAIN rulesets : rulesets[r].lifecycle = "Deallocated"} |->
                         rulesets[id].final_version]
    /\ view.stats = format_stats(allocated_domains, Cardinality(DOMAIN domains),
                                 total_denials, denials)
    /\ view.stats.by_kind = view.denials

Told(map, key, value) == key \in DOMAIN map /\ map[key] = value

\* "Unchanged lifecycle observations do not repeat an identity"
\* (lltop/README.md): a line for a domain or ruleset tells a reader something
\* new, each event's lines name an object once and end with one STATS line.
LinesTellNews ==
  \A i \in DOMAIN records :
    /\ records[i].record = "STATS" <=> i = Len(records)
    /\ records[i].record = "DOMAIN" =>
         /\ ~Told(view.domains, records[i].domain, records[i])
         /\ \A j \in DOMAIN records :
              (records[j].record = "DOMAIN" /\ records[j].domain = records[i].domain) => i = j
    /\ records[i].record = "DROP_RULESET" =>
         ~Told(view.dropped, records[i].ruleset, records[i].version)
=============================================================================
