# TLA+ verification of landlock-observability

`landlock-observability` observes Landlock in the running Linux kernel: BPF
programs attached to the Landlock tracepoints write records into a ring buffer,
a worker thread decodes them and hands events to a consumer, and two libraries
(state reconstruction, denial aggregation) and one tool (`lltop`) make sense of
the stream. This directory models those parts in TLA+, model-checks them with
TLC and proves the most important facts with TLAPS.

Paths below are relative to the repository (`src/…` is the library crate,
`lltop/src/…` the tool).

## Inventory

| part | source | role | model |
|---|---|---|---|
| BPF programs | `src/bpf/*` | 12 tracepoint handlers fill ring records | `Wire`; in `Collector` a producer that may commit a sample while the ring has room |
| wire decoding | `src/wire.rs` | ring sample to `Event`, or `MalformedSample` | `Wire`, meaning in `WireFacts`; in `Collector` a sample is well formed or malformed |
| events, access names | `src/event/mod.rs`, `access_names.rs` | IDs, masks, blockers, twelve events and their builders | `Events` |
| captured strings | `src/event/string.rs` | bytes the kernel captured, and their escaped display | `Captured`, meaning in `LabelFacts` |
| collector worker | `src/collector.rs` | polls the ring, queues deliveries, reports its end | `Collector` |
| collector receiving half | `src/collector.rs` | `try_recv`, `recv_timeout`, drop | `Collector`, promise in `LossyStream` |
| preparation, kernel diagnosis | `src/collector.rs`, `src/collector/tracepoint.rs` | opens, loads, attaches; names an unsupported kernel | `Preparation` |
| privilege management | `src/privilege.rs` | reduces and ends the thread's capabilities | `Privilege` |
| state reconstruction | `src/state.rs` | events to domains and rulesets | `State`, meaning in `StateFacts` |
| denial aggregation | `src/aggregate.rs` | bounded table of denial kinds, LRU | `Aggregator` |
| lltop lifecycle | `lltop/src/main.rs`, `tui/mod.rs` | minimize, prepare, spawn, front end, drop, join, exit | `Lltop`, over `Collector` |
| batch mode | `lltop/src/batch.rs`, `main.rs` | incremental line protocol | `Batch` |
| labels and targets | `lltop/src/batch.rs`, `tui/{format,ui}.rs` | what lines and rows say of a denial | `Labels`, meaning in `LabelFacts` |
| interactive mode | `lltop/src/tui/{mod,ui,terminal}.rs` | loop, selection, viewport, mouse, terminal modes | `Tui` |
| domain tree | `lltop/src/tui/model.rs` | domains in tree order | `DomainTree` |
| screens | `lltop/src/tui/{ui,format}.rs` | rows, details, status line, statistics, line breaks | `Rows`, `Wrap` |
| colours, build | `tui/theme.rs`, `build.rs`, `scripts/` | no state | not modelled |

How they interact: `Privilege` wraps `Preparation`, whose result is the pair of
halves that `Collector` runs. What the consumer receives is applied to `State`
and `Aggregator`, which `Batch` composes; `Tui`, `DomainTree` and `Rows` display
them. `Lltop` is the process around it all: it composes the main thread with the
worker thread of `Collector`. `Wire`, `Captured`, `Events` and `Labels` follow the
data of one report from the kernel to the text on the screen.

## Modules

**Collector.** Three actors: the kernel (`SubmitSample`), the worker thread and
the consumer. `deliveries` and `terminal` are the two bounded channels,
`running`, `output_full_pending` and `callback_panic` the shared flags and the
panic mailbox, `wpc` and `cpc` the control points. A step touches shared state
at most once, so the steps between reading the delivery channel and reading the
terminal channel, which the code performs without a lock, interleave with the
worker. A poll may fail, the callback may panic, the worker may unwind outside
the callback and a destructor may panic; a second panic while unwinding aborts
the process. The history variables (`log`, `sent`, `reported`, `omitted`,
`last_accepted`, `stopped`, `panics`) record what happened and are never read by
the code's steps. Two consequences of the code that the model makes explicit: a
worker that unwinds does not flush a pending loss notice, and a callback panic
followed by a destructor panic is reported as two `WorkerPanic`s. Time is left
out: a timed receive may give up whenever its channel is empty.

**LossyStream, CollectorStream.** The abstract promise: one stream in ring
order in which each run of omitted samples is one notice before the next accepted
delivery, and a sample is omitted only while the stream is full. The stream may
end (`ended`), with at most one last sample in neither group, and its consumer may
go away (`open`). `CollectorStream` states the refinement: `pending_delivery`
followed by the entries of the queue is the stream, `output_full_pending` its gap.

**Aggregator.** `observe_entry` with key extraction, hit, insertion, eviction
and compaction. `MaxSequence` stands for `u128::MAX` and `MaxCount` for
`u64::MAX`. `same_exec` and `logged` are those of the latest event.

**State, StateFacts.** Every arm of `State::apply`. `EventsAssumption` says what
the types of `event/mod.rs` guarantee of the fields it reads (a `CreateRuleset`
has its handled masks, denials and creations their creator). `StateFacts` defines what
the state must be as a function of the *set* of applied events, without order
or repetition; that is exact for events of one story (see `OneStory`: events of
one domain agree about its parent and creator, and events of one kind have
distinct timestamps). With equal timestamps the code keeps the last applied.

**Privilege, Preparation.** A call is a list of operations executed one step at
a time. Every operation may fail, and every credential transition may also
report success without an effect; the latter is what the code's `verify` reads
guard against. Threads may be created and ambient capabilities raised between
calls. The credential rules of the kernel (effective within permitted, ambient
within permitted and inheritable, bounding drops need `CAP_SETPCAP`, `capset`
trims ambient) are external. `Preparation` adds the BPF object, links and ring,
on kernels with any subset of the required tracepoints.

**Batch.** `process` computes the records an event changes from `State` and an
instance of `Aggregator`; `process_and_write` writes them one by one and any
write may fail. `view` is what a reader of the output knows. A line is the
tuple of facts it prints; the text of its blockers and target is in `Labels`.
The domains an event affects are a set, and `Ascending` is the sort that puts
their lines in order (`DomainIdsAssumption`: domain IDs are numbers).

**Tui.** `TerminalSession::enter`, its drop, and the loop: collect, draw, input.
Each mode may fail to be entered, with or without an effect on the terminal, and
each reset of the drop may fail likewise; the drop ignores it and goes on. Three
history variables record what the properties compare: `failed` the modes whose
reset failed, `listed` the rows the Denials tab ever had, and `screen` the lines
the last draw put on the screen. The observation model is reduced to the kinds of the rows
each tab lists; `Collect` replaces it by any other content and the terminal may
be resized between draws. `ContentsAssumption` says what every such content is:
a list per tab without `None`, and heights that are numbers. Rows in `Wide` take two lines in a narrow area, which
stands for the wrapping of `format.rs`, which is `Wrap`. `drain_ready_events` is
one step here; `Lltop` has it receive by receive.

**Lltop.** The main thread as a sequence of control points (`main`), from
`minimize` to `exit`: each step of the start may fail and returns early with `?`,
both front ends receive through the steps of `Collector` and sort what they get
into warnings and ends, drawing, writing and input may fail, the main thread may
panic anywhere in a front end, and every way out drops the collector before it
joins the worker. `AbandonWorker` of `Collector` is the worker that `spawn` drops
because no thread could be made. Minimize and prepare succeed or fail as a whole.
A drain goes on while errors are recoverable: its bound counts events only. Only
an endless run of malformed samples could keep it from drawing, and the tracing
programs of this repository submit none.

**DomainTree.** `domain_tree` one loop turn per step over every parent function,
cycles included. The branch bits of the siblings of a cycle's first domain are
cosmetic and not constrained.

**Rows, Wrap.** The functions of `ui.rs` that turn a model into rows, details,
status and statistics, as operators over one observation model: the output of
`DomainTree`, denials in the arbitrary order of a hash map, and what is known of
domains and rulesets. Labels and targets are numbers that sort like the texts.
`Wrap` cuts a text by terminal cells: a character is narrow, wide (two cells), a
combining mark (none) or part of a separator. The loop tests the width of the whole
remaining text (`display_width`) and cuts it by the sum of its characters' widths
(`used_width`). The library that measures both gives emoji sequences another width
than the sum: a symbol with the emoji selector U+FE0F is wider, an emoji with a skin
tone narrower. So a line can be wider than the area by the cells its selectors add,
and an empty line may follow it; `LinesReadable` says that only these lines,
and single characters wider than the area, are too wide.

**Captured, Events, Labels, LabelFacts.** `Captured` holds what the constructors
of captured bytes accept and the escaped `Display` and `Debug`, UTF-8 decoding
included; text is a sequence of code points. `Events` holds IDs, masks with their
named and unknown bits, the classification of blockers and the twelve events with
the fields their builders demand. `Labels` is what batch lines, rows and details
say of a denial. `LabelFacts` is a *reader*: it takes escaped text back to the bytes,
and a label and target back to the fields of the denial.

**Wire, WireFacts.** The whole way of one report: a tracepoint fires (`Submit`,
`Discard`, `AllocFails`), its handler fills the C record, and `decode` reads it
(`Take`). The memory of a record maps the offset of each stored member, computed
from the layout of `event.h`, to its size and value, so a read at another offset
or width gets another value. Arrays hold bytes, integers are numbers: their byte
order is the machine's on both sides. `handle_deny_task` stands for the two
handlers that differ only in names. `WireFacts` says what an event must tell
without any of it. Kernel reads whose result the code ignores are taken to
succeed. That the kernel keeps its promises (IDs from `MIN_LANDLOCK_ID`, nonzero
task IDs, commands of at most 15 bytes) is in the choice of tracepoints, except
for the creator, whose absence the code provides for.

MC modules give the sets of events, credentials and contents their values.

## Runs

| run | what it shows |
|---|---|
| `collector_safety` | exact loss notices, nothing vanishes, no terminal report lost, duplicated or misplaced, panics reported, `WorkerStop` last; the delivery path implements `LossyStream` |
| `collector_liveness` | a consumer that keeps receiving gets every accepted delivery and, once the worker ended, `WorkerStop` (`ConsumerServed`); dropping the collector ends a running worker with its programs detached |
| `collector_overtaking` | **violation**, see Findings |
| `lltop` | the process exits only after the worker and with the programs detached (`ExitsClean`), tells the first cause (`CauseTold`) and does end (`ProcessEnds`): no path joins a worker that waits for the collector |
| `aggregator` | the retained keys are the most recent ones and their entries exact, across compactions |
| `state` | the state is the function of the applied events that `StateFacts` defines (`FactsExact`); what becomes known together is known together and every reference is retained, contradictory events included (`FactsTogether`); no fact is weakened (`KnowledgeGrows`) |
| `privilege` | no caller continues with uncertain credentials |
| `preparation` | no BPF resource outlives a failed preparation; a collector prepared under a minimized policy comes without authority |
| `batch` | the output tells a reader everything, nothing twice, and its counters agree with the state |
| `wire` | an event is what the tracepoint reported and exactly the unreadable records are discarded (`RecordsExact`); the displayed text can be read back (`TextExact`), and so can a denial from its line and its row (`DenialShown`) |
| `tui` | selection, screen and clicks agree (`SelectionOfTab`, `SelectionFollowed`, `ClickSelectsShown`); on every way out, whatever fails, a terminal mode stays on only if its own reset failed (`TerminalRestored`) |
| `screens` | every domain is listed once and the traversal ends, cycles included (`ListingComplete`); the drawn prefixes show the tree (`TreeDrawn`); every denial is listed once, beneath its domain and access, groups sorted by saturated totals (`DenialsListed`); rows, details, status line and statistics agree (`ScreensAgree`); wrapped lines lose nothing, break at separators, end, and fit but for a single character or the cells of emoji selectors (`LinesReadable`) |

### Bounds

* Collector: queue of 2, ring of 2, five samples: the queue fills, overflows,
  drains and overflows again, with the parked delivery in between. Liveness uses
  a queue of 1, a ring of 2 and three samples, which still overflow.
* Aggregator: two keys, three distinct denial kinds, six events, and sequence
  numbers that run out after four, so that eviction and compaction both happen
  and happen together; counts saturate at 2.
* State: two sets of fourteen events, one of one kernel and one of events that
  contradict each other. Repetition is free, because events are chosen
  from the set again and again; the state space is finite without a bound.
* Privilege: four capabilities, one of them neither setup nor `CAP_SETPCAP`;
  `Preparation` uses the three named ones, two programs, two collectors.
* Batch: an aggregator of one key, four of ten events.
* Tui: list heights 2 to 4 and at most a handful of rows, so that lists both fit
  and overflow; scrolling saturates at 12.
* Lltop: a queue of 1, a ring of 2, three samples, and two events per drain: the
  queue overflows, a drain stops at its bound, and the worker can fail before, in
  and after every step of the main thread.
* Wire: real array sizes; paths of 0, 1, 255 to 258 and 300 bytes, names of 0, 1,
  106 and 107 bytes with NULs in any place, commands of 0 and 15. One record in
  the ring, and one tracepoint (`MaxFired`), is enough, since records do not
  interact. IDs are small, above a
  `MIN_LANDLOCK_ID` of 10.
* DomainTree: four domains with all parent functions, so that there are chains,
  forks, and cycles of length one to four with and without trees attached.
* Rows: the same four domains, two rulesets, up to four denials of two domains
  and two accesses in any order, counts that saturate at 3. Each part of a model
  takes all its values while the others keep one, since the screen functions relate
  the parts by identifiers only. Texts of up to five characters, of up to four with emoji selectors, widths from 0.

`CHECK_DEADLOCK FALSE` is used where behaviours end: bounded event counts
(`Aggregator`, `Batch`, `Wire`) and the end of the program (`Batch`, `Tui`).

### Fairness

`FairSpec` assumes weak fairness of the worker's steps, because its poll has a
timeout and the thread is scheduled by the operating system, and of the rest of
a drop that has begun, and that the owner of the collector keeps receiving until
then, as both front ends do. Shutdown owes nothing to the last assumption: no
receive is possible once a drop has begun. Nothing is assumed of the kernel, of failures or of panics.
`FairLltopSpec` assumes the same of the worker thread, and that the main thread
is scheduled and its system calls return. It does not assume that a user ever
quits or resumes a paused interface: `ProcessEnds` excepts the latter.
`DomainTree` assumes that its loop keeps running. `ShutdownCompletes` does not
speak about a worker that was never run.

## Findings

`collector_overtaking`: the comment of `recv_timeout` says "Buffered delivery
entries are returned before a terminal poll failure". The two channels are read
in two steps. Between them the worker can queue a delivery and then send
`PollFailure`, which the receive returns while the delivery is still buffered.
Nothing is lost: the next receive returns the delivery.

## Proofs

All for every value of the constants under the named assumptions: capacities
and the number of programs are positive, `MaxSamples` is a natural number, the capacity of the aggregator
is below its largest sequence number, events have the types of
`EventsAssumption` and `DomainIdsAssumption`, listed contents are those of
`ContentsAssumption`, and credentials obey the kernel's rules
(`CapabilityAssumption`, `CredentialsAssumption`). Every invariant named
below as inductive was checked by TLC on the component's run before it was proved.

* `CollectorProofs`
  * `TypeCorrect`, `TerminalReportsKept` (`NoReportLost`), `StopComesLast`
    (`StopIsLast`), `DisconnectionFinal` (`DisconnectedIsFinal`). `TypeOK` is
    inductive together with `SampleInHand` (the callback runs for a sample in the
    ring). The other three follow from `TInv`, which ties each connection flag to
    the worker's control point and counts what the worker has sent by then. That
    is the reason three terminal slots suffice although send results are ignored.
  * `LossNoticesExact` (`LossNoticeExact`). The property speaks of what was
    returned; the inductive invariant `IInv` states the same relation for what is on
    its way: the parked delivery behind its notice, each queued entry relative to the
    one before it, and the pending flag relative to the last accepted sample.
  * `PromiseKept` (`KeepsPromise`): the refinement of `LossyStream`. Initial states
    map to initial states (`ConcatEmpty`) and every step maps to a step of the stream
    or to none (`StreamStep`): `StreamDeliver` for the callback, `StreamReceive` for
    both receives, whose parked delivery moves within the stream, and `StreamQuiet`
    for the rest.
  * `NothingIsLost` (`NothingVanishes`): the accounted samples grow with the ring's
    consumer position (`AccountStep`); a receive only moves a delivery from the
    queue to the parked one or to what was returned (`AccountedReceive`).
  * `TrailingLossTold` (`TrailingLossReported`) and `PanicsTold` (`PanicsReported`).
    `ReportInv` says exactly which reports were sent at each control point
    (`SentExactly`, with the notice first if one was due) and how many panics can
    have happened by then (`PanicsSoFar`). Nothing is sent to a dropped collector,
    so the first is carried over the drop (`DroppedFrozen`).
* `AggregatorProofs`: `TypeCorrect`, `RecencyKept` (`RecencyExact`),
  `EvictionTakesOldest` (`MostRecentRetained`). The inductive invariant adds that
  recency numbers are distinct and not above the counter (`NumbersOK`). Compaction
  replaces a number by its rank, a cardinality, which the lemma `Places` shows to be
  strictly monotone. `EntriesTellTheTruth` (`EntryFactsExact`) needs for each
  retained key the observations since it was inserted (`EntryFacts`): which one was
  first and which last, how many they are, and that no eviction lies between two
  of them because fewer than `Capacity` other keys were seen in between.
* `LltopProofs`: `UsesCollector` shows that the composed process implements
  `Collector!Spec`: every step of the main thread is a step of the receiving half,
  of its drop, or none of the collector's business. All safety theorems above
  therefore hold in `lltop`. `ExitsCleanly` (`ExitsClean`) then needs only two
  facts: the worker is done only with its programs detached (`Detached`), and what
  each control point on the way out says of collector and worker (`WayOut`).
  `CauseIsTold` (`CauseTold`) needs that a front end goes on only while every report
  was a loss notice (`OnlyNotices`), so that the error it ends with is the first
  failure (`CauseKept`), and what is told of it until the exit (`ExitTells`).
* `PreparationProofs`, of `Privilege`: `FinishedPowerless` (`NoAuthorityLeft`), `MinimizedValue`
  (`MinimizedExact`), `FailedMinimization` (`FailedMinimizationClean`) and
  `DropPowerless` (`DropEndsAuthority`), for any number of capabilities and any
  initial credentials the kernel allows. The inductive invariant `PrivInv` reads the
  place of a call off the length of its remaining operations (`Suffix`), says what
  is certain there, and what each policy means for the credentials. The delicate
  part is a verification that failed and is repeated by the drop, which does not
  count threads again: threads made in between have the credentials that are then
  verified, or ones with permitted capabilities, which the verification rejects.
* `PreparationProofs`, of `Preparation`: `FailedPreparation` (`NothingLeaks`) and
  `PreparedCollector` (`PreparedPowerless`), for every number of programs and of
  live collectors and on every kernel. `PrepInv` is `PrivInv` outside the setup, whose
  lemmas are used again, and in it the place of the setup (`InSetup`) under the
  policy it was called with. `ResourcesKept` counts the links: those of the
  collectors, and as many of the call as it has attached (`LinksAt`).
* `StateProofs`: `KnownTogether` (`FactsTogether`), for every set of events,
  consistent or not. The inductive invariant `KnownInv` has the form of single
  records (`RulesetsGood`, `DomainsGood`: typed, with complete tombstones and
  facts that are known together) and `References`. For the latter a step has to
  show where a reference comes from: it was there before, or the event names it
  and materializes its target in the same step (`DomainsFrom`); and that no
  ruleset is forgotten and no observed version goes back (`RulesetsKept`).
  `NothingForgotten` (`KnowledgeGrows`) is an action property: each record a step
  puts in the place of another is at least as strong (`Stronger`, `DomainStronger`).
  It uses `GrowInv`, which adds that the timestamps deciding between two paths of a
  rule or two enforcements of a thread are numbers.
* `StateFactsProofs`: `OrderDoesNotMatter` (`FactsExact`), for every set of events, of
  any size, that tells one story: whatever the order and the repetitions, the state
  is the one function of the set of applied events that `StateFacts` defines. The
  inductive invariant `FactsInv` says so object by object (`RulesetTold`,
  `DomainTold`) and that the domains are those the events mention. Each field is a
  greatest number, a latest event, a union of masks or a map of these; the lemmas
  named `...Grows` say what one more event does to each, a repeated one included
  (`GreatestGrows`, `LatestGrows`, `PathsGrow`, `CountsGrow`, `ThreadsGrow`), and those
  named `...Of` that an arm of `apply` does exactly that to its object. Where events
  of one story may disagree (parent and creator come from creations and denials),
  `StoryAgrees` shows that they do not. The invariant is conditional on the story
  so far, because a behaviour may apply any events; it needs no other property.
* `BatchProofs`, for every set of events and every capacity of the aggregator:
  `AllocatedAlwaysCounted` (`AllocatedCounted`) from `AffectedOnly`: an event changes
  no domain but those `affected_domain_ids` names. `ReaderAlwaysCurrent`
  (`ReaderCurrent`) and `LinesAlwaysTellNews` (`LinesTellNews`) are two views of one
  inductive invariant, `ReaderInv`: at every line, a reader knows of a domain,
  ruleset or counter what is current *exactly if* no waiting line is about it
  (`DomainsTold`, `DropsTold`, `DenialsTold`, `StatsTold`), and the waiting lines are
  current, about different objects and end with the statistics. It rests on
  `KnownInv` (a freed ruleset has its final version) and on the lemmas about
  sequences of lines (`Joined`, `TailLines`, `EventLines`) and about sorting
  (`AscendingFacts`).
* `TuiProofs`, for all contents, heights and widths: `TerminalAlwaysRestored`
  (`TerminalRestored`) from `SessionInv`: a mode the terminal is in is remembered, and
  off once its turn in the drop is over unless its reset failed.
  `SelectionStaysInTab` (`SelectionOfTab`) from `TabInv`: between a draw and the next
  one the hit map holds rows of the shown tab only (`HitOfTab`), and the denials of
  the model are among those ever listed.
  `SelectionIsFollowed` (`SelectionFollowed`): the clamped scroll position leaves no
  empty line (`Viewport`) and the selected row is between it and the end of the
  screen (`FollowedShown`). `ClicksSelectShown` (`ClickSelectsShown`): an action
  property. `ClickInv` says that an input finds hit map and scroll position as they
  were when the screen was drawn; the rest is the numbering of the lines.

Induction: the library's induction principles take an operator as parameter, which
no installed prover instantiates. Facts that need no such parameter are proved by a
least counterexample in a well-founded order instead (that finite sets of IDs can be
sorted or have a greatest element, that a first failure or a first observation exists).

Only model-checked: liveness (fairness and `ENABLED` are outside the prover)
and everything in Wire, Labels, DomainTree and Rows. `Wrap`,
`Captured` and the readers of `LabelFacts` compute by recursion or folds over
their inputs, which is outside the prover.

## Not modelled

* Colours (`theme.rs`) and the column geometry of tab titles: constants without
  state.
* Field captions of the detail pane, and values that are printed as they are
  (timestamps, creators, handled rights); decimal and hexadecimal numbers in labels
  are the numbers.
* The kinds of `DecodeError` and of credential errors, which are one value each,
  and the views of raw bytes (`as_path`, `to_socket_addr`), which are the bytes.
* The counters of the TUI's observation model, which repeat those of `Batch`.
* A pending loss notice when the worker's own frames (not the callback) panic: it
  is lost, as the model shows, and the documentation promises nothing there.
* The crate root, generated BPF skeleton, build script and generation script: no
  run-time state.
