------------------------------ MODULE Collector ------------------------------
(***************************************************************************)
(* The collector lifecycle of src/collector.rs after `prepare` succeeded:  *)
(* the BPF ring buffer, the worker thread (`CollectorWorker::run`), and    *)
(* the consumer half (`Collector`).                                        *)
(*                                                                         *)
(* Two bounded mpsc channels join the threads.  `deliveries` carries one   *)
(* entry per ring sample; an entry remembers whether samples were omitted  *)
(* before it because the channel was full.  `terminal` carries the errors  *)
(* that end the worker.  A step below touches shared state (a channel, the *)
(* `running` flag, the ring) at most once, so every interleaving of the    *)
(* threads' accesses is a behaviour of the model.                          *)
(***************************************************************************)
EXTENDS Naturals, Sequences, FiniteSets

CONSTANTS
  EventCapacity,  \* CollectorConfig::event_capacity
  RingCapacity,   \* samples the BPF ring buffer can hold
  MaxSamples      \* bound: samples the kernel ever commits

\* CollectorConfigBuilder::build rejects a zero capacity (and more than 65536).
ASSUME EventCapacityAssumption == EventCapacity \in Nat \ {0}
ASSUME RingCapacityAssumption == RingCapacity \in Nat \ {0}
ASSUME MaxSamplesAssumption == MaxSamples \in Nat

VARIABLES
  prod_pos,             \* ring producer position: samples committed
  cons_pos,             \* ring consumer position: samples consumed
  attached,             \* the BPF links exist
  running,              \* AtomicBool shared by the two halves
  deliveries,           \* queued DeliveryEntry values
  delivery_connected,   \* some delivery sender is alive
  terminal,             \* queued terminal CollectorReceiveError kinds
  terminal_connected,   \* some terminal sender is alive
  output_full_pending,  \* AtomicBool used on the worker thread only
  callback_panic,       \* the one-slot panic mailbox is full
  wpc,                  \* where the worker thread is
  poll_err,             \* the last ring.poll returned Err
  unwinding,            \* the worker closure is unwinding
  cpc,                  \* where the consumer is
  pending_delivery      \* Collector::pending_delivery, as <<>> or <<delivery>>

\* History: what happened, never read by the code's own steps.
VARIABLES
  last_accepted,        \* id of the last sample the delivery queue accepted
  omitted,              \* ids of the samples the full delivery queue refused
  log,                  \* what receives returned from the delivery channel
  sent,                 \* terminal errors the worker tried to send
  reported,             \* terminal errors that receives returned
  stopped,              \* some receive returned WorkerStop
  panics                \* panics the worker raised

ring_vars == <<prod_pos, attached>>
channel_vars == <<deliveries, delivery_connected, terminal, terminal_connected>>
worker_vars == <<cons_pos, output_full_pending, callback_panic, wpc, poll_err, unwinding>>
consumer_vars == <<cpc, pending_delivery, log, reported, stopped>>
history_vars == <<last_accepted, omitted, sent, panics>>
vars == <<ring_vars, channel_vars, worker_vars, consumer_vars, history_vars, running>>

-----------------------------------------------------------------------------

SampleIds == 1 .. MaxSamples

\* Delivery = Result<Event, CollectorReceiveError>: a decoded event or the
\* MalformedSample error, tagged with the position of its ring sample.
Delivery == [id : SampleIds, kind : {"Event", "MalformedSample"}]

DeliveryEntry == [delivery : Delivery, output_full_before : BOOLEAN]

\* An OutputQueueFull result in the log.
Gap == [id |-> 0, kind |-> "OutputQueueFull"]

TerminalKind == {"OutputQueueFull", "PollFailure", "WorkerPanic"}

TerminalCapacity_Two == 2

\* "A queue-full notice, poll failure, and subsequent panic may all need
\* distinct ordered terminal slots."
TerminalCapacity == 3

\* The bound of the delivery channel.
QueueHasRoom == Len(deliveries) < EventCapacity

\* The receivers live until the collector's fields are dropped.
ReceiverAlive == cpc # "dropped"

\* SyncSender::try_send on the terminal channel; the code ignores its result.
TrySendTerminal(kind) ==
  IF ReceiverAlive
  THEN /\ sent' = Append(sent, kind)
       /\ terminal' = IF Len(terminal) < TerminalCapacity
                      THEN Append(terminal, kind) ELSE terminal
  ELSE UNCHANGED <<sent, terminal>>

NotifyPendingLoss_Skipped == UNCHANGED <<sent, terminal>>

\* The notice that precedes a terminal error when omissions are pending.
NotifyPendingLoss ==
  IF output_full_pending THEN TrySendTerminal("OutputQueueFull")
                         ELSE UNCHANGED <<sent, terminal>>

-----------------------------------------------------------------------------
(* The kernel: alloc_event reserves and a handler submits a sample.  A      *)
(* failed reservation (full ring) leaves every variable unchanged.          *)

SubmitSample ==
  /\ attached
  /\ prod_pos < MaxSamples
  /\ prod_pos - cons_pos < RingCapacity
  /\ prod_pos' = prod_pos + 1
  /\ UNCHANGED <<attached, channel_vars, worker_vars, consumer_vars, history_vars, running>>

-----------------------------------------------------------------------------
(* The worker: run_with(run_worker).                                        *)

\* CollectorWorker::run, called on the caller's thread.
Run ==
  /\ wpc = "prepared"
  /\ wpc' = "loop"
  /\ UNCHANGED <<ring_vars, channel_vars, cons_pos, output_full_pending, callback_panic,
                 poll_err, unwinding, consumer_vars, history_vars, running>>

CheckRunning_Ignored ==
  /\ wpc = "loop"
  /\ wpc' = "poll"
  /\ UNCHANGED <<ring_vars, channel_vars, cons_pos, output_full_pending, callback_panic,
                 poll_err, unwinding, consumer_vars, history_vars, running>>

\* while running.load(Acquire)
CheckRunning ==
  /\ wpc = "loop"
  /\ wpc' = IF running THEN "poll" ELSE "drop_resources"
  /\ UNCHANGED <<ring_vars, channel_vars, cons_pos, output_full_pending, callback_panic,
                 poll_err, unwinding, consumer_vars, history_vars, running>>

\* ring.poll returns to run_worker, on its own timeout or on an epoll error.
PollReturns(err) ==
  /\ wpc = "poll"
  /\ wpc' = "polled"
  /\ poll_err' = err
  /\ UNCHANGED <<ring_vars, channel_vars, cons_pos, output_full_pending, callback_panic,
                 unwinding, consumer_vars, history_vars, running>>

\* A panic of the worker's own frames while it polls starts to unwind.
PollPanics ==
  /\ wpc = "poll"
  /\ wpc' = "drop_resources"
  /\ unwinding' = TRUE
  /\ panics' = panics + 1
  /\ UNCHANGED <<ring_vars, channel_vars, cons_pos, output_full_pending, callback_panic,
                 poll_err, consumer_vars, last_accepted, omitted, sent, running>>

\* libbpf hands the next sample to the callback, which loads `running` first;
\* its -1 consumes the sample and makes poll return an error.
EnterCallback ==
  /\ wpc = "poll"
  /\ cons_pos < prod_pos
  /\ IF running
     THEN /\ wpc' = "deliver"
          /\ UNCHANGED <<cons_pos, poll_err>>
     ELSE /\ wpc' = "polled"
          /\ cons_pos' = cons_pos + 1
          /\ poll_err' = TRUE
  /\ UNCHANGED <<ring_vars, channel_vars, output_full_pending, callback_panic, unwinding,
                 consumer_vars, history_vars, running>>

\* The rest of DeliveryQueue::deliver for a sample that decodes to `kind`.
Deliver(kind) ==
  LET id == cons_pos + 1
      entry == [delivery |-> [id |-> id, kind |-> kind],
                output_full_before |-> output_full_pending]
  IN /\ wpc = "deliver"
     /\ cons_pos' = id
     /\ \/ /\ ReceiverAlive
           /\ QueueHasRoom
           /\ deliveries' = Append(deliveries, entry)
           /\ output_full_pending' = FALSE
           /\ last_accepted' = id
           /\ wpc' = "poll"
           /\ UNCHANGED <<omitted, poll_err, running>>
        \/ /\ ReceiverAlive
           /\ ~QueueHasRoom
           /\ output_full_pending' = TRUE
           /\ omitted' = omitted \cup {id}
           /\ wpc' = "poll"
           /\ UNCHANGED <<deliveries, last_accepted, poll_err, running>>
        \/ /\ ~ReceiverAlive
           /\ running' = FALSE
           /\ wpc' = "polled"
           /\ poll_err' = TRUE
           /\ UNCHANGED <<deliveries, output_full_pending, last_accepted, omitted>>
     /\ UNCHANGED <<ring_vars, delivery_connected, terminal, terminal_connected,
                    callback_panic, unwinding, consumer_vars, sent, panics>>

\* Decoding panics: catch_callback_panic stores the payload and returns -1.
CallbackPanics ==
  /\ wpc = "deliver"
  /\ cons_pos' = cons_pos + 1
  /\ callback_panic' = TRUE
  /\ panics' = panics + 1
  /\ wpc' = "polled"
  /\ poll_err' = TRUE
  /\ UNCHANGED <<ring_vars, channel_vars, output_full_pending, unwinding, consumer_vars,
                 last_accepted, omitted, sent, running>>

\* report_callback_panic up to the pending queue-loss notice.
ReportCallbackPanic ==
  /\ wpc = "polled"
  /\ callback_panic
  /\ callback_panic' = FALSE
  /\ output_full_pending' = FALSE
  /\ NotifyPendingLoss
  /\ wpc' = "report_panic"
  /\ UNCHANGED <<ring_vars, deliveries, delivery_connected, terminal_connected, cons_pos,
                 poll_err, unwinding, consumer_vars, last_accepted, omitted, panics, running>>

\* The panic itself, in the next terminal slot; run_worker then returns.
SendCallbackPanic ==
  /\ wpc = "report_panic"
  /\ TrySendTerminal("WorkerPanic")
  /\ wpc' = "drop_resources"
  /\ UNCHANGED <<ring_vars, deliveries, delivery_connected, terminal_connected, cons_pos,
                 output_full_pending, callback_panic, poll_err, unwinding, consumer_vars,
                 last_accepted, omitted, panics, running>>

\* No callback panic: loop after Ok; after Err report only while running.
InspectPollResult ==
  /\ wpc = "polled"
  /\ ~callback_panic
  /\ wpc' = CASE ~poll_err -> "loop"
              [] poll_err /\ running -> "poll_failed"
              [] poll_err /\ ~running -> "drop_resources"
  /\ UNCHANGED <<ring_vars, channel_vars, cons_pos, output_full_pending, callback_panic,
                 poll_err, unwinding, consumer_vars, history_vars, running>>

\* The pending queue-loss notice goes before the poll failure.
SendPendingNotice ==
  /\ wpc = "poll_failed"
  /\ NotifyPendingLoss
  /\ wpc' = "report_failure"
  /\ UNCHANGED <<ring_vars, deliveries, delivery_connected, terminal_connected, cons_pos,
                 output_full_pending, callback_panic, poll_err, unwinding, consumer_vars,
                 last_accepted, omitted, panics, running>>

SendPollFailure ==
  /\ wpc = "report_failure"
  /\ TrySendTerminal("PollFailure")
  /\ wpc' = "drop_resources"
  /\ UNCHANGED <<ring_vars, deliveries, delivery_connected, terminal_connected, cons_pos,
                 output_full_pending, callback_panic, poll_err, unwinding, consumer_vars,
                 last_accepted, omitted, panics, running>>

\* run_worker's locals go first: ring (with the callback's delivery sender),
\* links, object.  A destructor may panic; a second panic while unwinding
\* aborts the process and ends every behaviour here.
DropResources(panic) ==
  /\ wpc = "drop_resources"
  /\ panic => ~unwinding
  /\ attached' = FALSE
  /\ unwinding' = (unwinding \/ panic)
  /\ panics' = IF panic THEN panics + 1 ELSE panics
  /\ wpc' = "drop_deliveries"
  /\ UNCHANGED <<prod_pos, channel_vars, cons_pos, output_full_pending, callback_panic,
                 poll_err, consumer_vars, last_accepted, omitted, sent, running>>

\* Then its parameters; `_deliveries` is the last delivery sender, while
\* run_with still holds the clone terminal_panic of the terminal sender.
DropDeliveries ==
  /\ wpc = "drop_deliveries"
  /\ delivery_connected' = FALSE
  /\ wpc' = "caught"
  /\ UNCHANGED <<ring_vars, deliveries, terminal, terminal_connected, cons_pos,
                 output_full_pending, callback_panic, poll_err, unwinding, consumer_vars,
                 history_vars, running>>

ReportUnwind_Silent ==
  /\ wpc = "caught"
  /\ wpc' = "drop_terminal"
  /\ UNCHANGED <<ring_vars, channel_vars, cons_pos, output_full_pending, callback_panic,
                 poll_err, unwinding, consumer_vars, history_vars, running>>

\* catch_unwind returned to run_with.
ReportUnwind ==
  /\ wpc = "caught"
  /\ IF unwinding THEN TrySendTerminal("WorkerPanic") ELSE UNCHANGED <<sent, terminal>>
  /\ wpc' = "drop_terminal"
  /\ UNCHANGED <<ring_vars, deliveries, delivery_connected, terminal_connected, cons_pos,
                 output_full_pending, callback_panic, poll_err, unwinding, consumer_vars,
                 last_accepted, omitted, panics, running>>

\* terminal_panic goes out of scope and run returns; the thread can be joined.
DropTerminal ==
  /\ wpc = "drop_terminal"
  /\ terminal_connected' = FALSE
  /\ wpc' = "done"
  /\ UNCHANGED <<ring_vars, deliveries, delivery_connected, terminal, cons_pos,
                 output_full_pending, callback_panic, poll_err, unwinding, consumer_vars,
                 history_vars, running>>

\* The worker is dropped without being run (the caller could not spawn a
\* thread): Worker's fields go in declaration order, the resources last.
AbandonWorker ==
  /\ wpc = "prepared"
  /\ terminal_connected' = FALSE
  /\ wpc' = "abandoned"
  /\ UNCHANGED <<ring_vars, deliveries, delivery_connected, terminal, cons_pos,
                 output_full_pending, callback_panic, poll_err, unwinding, consumer_vars,
                 history_vars, running>>

AbandonResources ==
  /\ wpc = "abandoned"
  /\ delivery_connected' = FALSE
  /\ attached' = FALSE
  /\ wpc' = "done"
  /\ UNCHANGED <<prod_pos, deliveries, terminal, terminal_connected, cons_pos,
                 output_full_pending, callback_panic, poll_err, unwinding, consumer_vars,
                 history_vars, running>>

WorkerStep ==
  \/ CheckRunning
  \/ \E err \in BOOLEAN : PollReturns(err)
  \/ PollPanics
  \/ EnterCallback
  \/ \E kind \in {"Event", "MalformedSample"} : Deliver(kind)
  \/ CallbackPanics
  \/ ReportCallbackPanic
  \/ SendCallbackPanic
  \/ InspectPollResult
  \/ SendPendingNotice
  \/ SendPollFailure
  \/ \E panic \in BOOLEAN : DropResources(panic)
  \/ DropDeliveries
  \/ ReportUnwind
  \/ DropTerminal
  \/ AbandonResources

-----------------------------------------------------------------------------
(* The consumer: Collector::try_recv, Collector::recv_timeout and its drop. *)

consumer_rest == <<ring_vars, delivery_connected, terminal_connected, worker_vars,
                   history_vars, running>>

Unpair_Unnoticed(entry) ==
  log' = Append(log, entry.delivery) /\ UNCHANGED pending_delivery

Unpair_Unparked(entry) ==
  /\ log' = Append(log, IF entry.output_full_before THEN Gap ELSE entry.delivery)
  /\ UNCHANGED pending_delivery

Unpair_Swapped(entry) ==
  /\ log' = Append(log, entry.delivery)
  /\ pending_delivery' = IF entry.output_full_before THEN <<Gap>> ELSE <<>>

\* Collector::unpair: the notice is returned first, its delivery parked.
Unpair(entry) ==
  IF entry.output_full_before
  THEN /\ pending_delivery' = <<entry.delivery>>
       /\ log' = Append(log, Gap)
  ELSE /\ log' = Append(log, entry.delivery)
       /\ UNCHANGED pending_delivery

\* The first half of a receive: the parked delivery, else the delivery
\* channel, else on to the terminal channel in a later step.
ReadDeliveries(onDisconnected) ==
  /\ cpc = "idle"
  /\ \/ /\ pending_delivery # <<>>
        /\ log' = Append(log, pending_delivery[1])
        /\ pending_delivery' = <<>>
        /\ UNCHANGED <<deliveries, cpc>>
     \/ /\ pending_delivery = <<>>
        /\ deliveries # <<>>
        /\ deliveries' = Tail(deliveries)
        /\ Unpair(Head(deliveries))
        /\ UNCHANGED cpc
     \/ /\ pending_delivery = <<>>
        /\ deliveries = <<>>
        /\ cpc' = IF delivery_connected THEN "terminal_now" ELSE onDisconnected
        /\ UNCHANGED <<deliveries, pending_delivery, log>>
  /\ UNCHANGED <<terminal, reported, stopped, consumer_rest>>

TryRecv_EmptyIsFinal ==
  /\ cpc = "idle" /\ pending_delivery = <<>> /\ deliveries = <<>>
  /\ cpc' = "terminal_or_stop"
  /\ UNCHANGED <<deliveries, pending_delivery, log, terminal, reported, stopped, consumer_rest>>

\* Collector::try_recv, up to the terminal channel.
TryRecv == ReadDeliveries("terminal_or_stop")

\* Collector::recv_timeout, up to the terminal channel.  It returns Timeout
\* after a last look at an empty channel, as try_recv does without waiting.
RecvTimeout == ReadDeliveries("terminal_until")

ReadTerminal_StopFirst(onEmpty) ==
  /\ \/ /\ ~terminal_connected
        /\ stopped' = TRUE
        /\ cpc' = "idle"
        /\ UNCHANGED <<terminal, reported>>
     \/ /\ terminal_connected
        /\ cpc' = onEmpty
        /\ UNCHANGED <<terminal, reported, stopped>>
  /\ UNCHANGED <<deliveries, pending_delivery, log, consumer_rest>>

\* A read of the terminal channel; Empty (or Timeout) continues at onEmpty.
ReadTerminal(onEmpty) ==
  /\ \/ /\ terminal # <<>>
        /\ terminal' = Tail(terminal)
        /\ reported' = Append(reported, Head(terminal))
        /\ cpc' = "idle"
        /\ UNCHANGED stopped
     \/ /\ terminal = <<>>
        /\ ~terminal_connected
        /\ stopped' = TRUE
        /\ cpc' = "idle"
        /\ UNCHANGED <<terminal, reported>>
     \/ /\ terminal = <<>>
        /\ terminal_connected
        /\ cpc' = onEmpty
        /\ UNCHANGED <<terminal, reported, stopped>>
  /\ UNCHANGED <<deliveries, pending_delivery, log, consumer_rest>>

\* terminal_now_nonblocking, the end of a receive that found no entry.
TerminalNow == cpc = "terminal_now" /\ ReadTerminal("idle")

\* terminal_or_stop_nonblocking, after try_recv found the senders gone.
TerminalOrStop == cpc = "terminal_or_stop" /\ ReadTerminal("idle")

\* terminal_until: a blocking read whose timeout is followed by one more look.
TerminalUntil == cpc = "terminal_until" /\ ReadTerminal("terminal_now")

\* Drop for Collector stores running = false ...
DropCollector ==
  /\ cpc = "idle"
  /\ running' = FALSE
  /\ cpc' = "dropping"
  /\ UNCHANGED <<ring_vars, channel_vars, worker_vars, pending_delivery, log, reported,
                 stopped, history_vars>>

\* ... and then its fields, both receivers with what they hold.
DropReceivers ==
  /\ cpc = "dropping"
  /\ cpc' = "dropped"
  /\ deliveries' = <<>>
  /\ terminal' = <<>>
  /\ pending_delivery' = <<>>
  /\ UNCHANGED <<log, reported, stopped, consumer_rest>>

ReceiveStep == TryRecv \/ RecvTimeout \/ TerminalNow \/ TerminalOrStop \/ TerminalUntil

-----------------------------------------------------------------------------

\* backend::prepare
Init ==
  /\ prod_pos = 0 /\ cons_pos = 0 /\ attached = TRUE
  /\ running = TRUE
  /\ deliveries = <<>> /\ delivery_connected = TRUE
  /\ terminal = <<>> /\ terminal_connected = TRUE
  /\ output_full_pending = FALSE /\ callback_panic = FALSE
  /\ wpc = "prepared" /\ poll_err = FALSE /\ unwinding = FALSE
  /\ cpc = "idle" /\ pending_delivery = <<>>
  /\ last_accepted = 0 /\ omitted = {} /\ log = <<>>
  /\ sent = <<>> /\ reported = <<>> /\ stopped = FALSE /\ panics = 0

\* Both halves are gone: the only state in which nothing more happens.
Finished ==
  /\ wpc = "done" /\ cpc = "dropped"
  /\ UNCHANGED vars

Next ==
  \/ SubmitSample
  \/ Run
  \/ AbandonWorker
  \/ WorkerStep
  \/ ReceiveStep
  \/ DropCollector
  \/ DropReceivers
  \/ Finished

Spec == Init /\ [][Next]_vars

\* The worker thread is scheduled and a poll returns after at most 100 ms; a
\* collector being dropped is dropped; until then its owner keeps receiving,
\* as both front ends of lltop do.  (A receive is impossible once the drop has
\* begun, so shutdown owes nothing to the last conjunct.)
FairSpec ==
  Spec /\ WF_vars(WorkerStep) /\ WF_vars(DropReceivers) /\ WF_vars(ReceiveStep)
-----------------------------------------------------------------------------

FlagsOK ==
  /\ attached \in BOOLEAN
  /\ running \in BOOLEAN
  /\ delivery_connected \in BOOLEAN
  /\ terminal_connected \in BOOLEAN
  /\ output_full_pending \in BOOLEAN
  /\ callback_panic \in BOOLEAN
  /\ poll_err \in BOOLEAN
  /\ unwinding \in BOOLEAN
  /\ stopped \in BOOLEAN

DataOK ==
  /\ prod_pos \in 0 .. MaxSamples
  /\ cons_pos \in 0 .. prod_pos
  /\ deliveries \in Seq(DeliveryEntry) /\ Len(deliveries) <= EventCapacity
  /\ terminal \in Seq(TerminalKind) /\ Len(terminal) <= TerminalCapacity
  /\ wpc \in {"prepared", "loop", "poll", "deliver", "polled", "report_panic",
              "poll_failed", "report_failure", "drop_resources", "drop_deliveries",
              "caught", "drop_terminal", "abandoned", "done"}
  /\ cpc \in {"idle", "terminal_now", "terminal_or_stop", "terminal_until",
              "dropping", "dropped"}
  /\ pending_delivery \in Seq(Delivery) /\ Len(pending_delivery) <= 1
  /\ last_accepted \in 0 .. cons_pos
  /\ omitted \subseteq SampleIds
  /\ log \in Seq(Delivery \cup {Gap})
  /\ sent \in Seq(TerminalKind) /\ reported \in Seq(TerminalKind)
  /\ panics \in Nat

\* The state is well typed, the queue and the terminal channel stay within
\* their capacities, and the consumer never passes the producer in the ring.
TypeOK == FlagsOK /\ DataOK
-----------------------------------------------------------------------------
(* What the consumer is told about deliveries.                              *)

Elements(seq) == {seq[i] : i \in DOMAIN seq}

Buffered == {deliveries[i].delivery.id : i \in DOMAIN deliveries}
              \cup {pending_delivery[i].id : i \in DOMAIN pending_delivery}

Returned == {log[i].id : i \in DOMAIN log} \ {0}

IdAt(i) == IF i = 0 THEN 0 ELSE log[i].id

\* The delivery returned last before position i of the log (0: none).
PreviousId(i) == IF i > 1 /\ log[i - 1] = Gap THEN IdAt(i - 2) ELSE IdAt(i - 1)

OmittedBetween(a, b) == \E k \in omitted : a < k /\ k < b

\* Receives return deliveries in ring order, and OutputQueueFull comes before
\* a delivery exactly when the full delivery queue omitted samples between it
\* and the delivery returned before it; notices are coalesced, never repeated
\* (DeliveryQueue::deliver, Collector::unpair).
LossNoticeExact ==
  \A i \in DOMAIN log :
    IF log[i] = Gap
    THEN i > 1 => log[i - 1] # Gap
    ELSE /\ PreviousId(i) < log[i].id
         /\ (i > 1 /\ log[i - 1] = Gap) <=> OmittedBetween(PreviousId(i), log[i].id)

\* Every consumed sample was returned, is buffered, or was omitted because the
\* queue was full; only the very last one may instead have ended the worker,
\* by a panic or by the shutdown request (deliver, catch_callback_panic).
NothingVanishes ==
  ReceiverAlive =>
    \A k \in 1 .. cons_pos :
      \/ k \in Returned \cup Buffered \cup omitted
      \/ k = cons_pos /\ (panics > 0 \/ ~running)

-----------------------------------------------------------------------------
(* What the consumer is told about the end of the worker.                   *)

\* The terminal channel never overflows: although run_worker and run_with
\* ignore the result of try_send, receives return every terminal error, once
\* and in the order it was sent.
NoReportLost == ReceiverAlive => sent = reported \o terminal

\* A panic of the ring callback, as opposed to one that unwinds the worker.
CallbackPanicked == panics > (IF unwinding THEN 1 ELSE 0)

\* When the worker reports a poll failure or a callback panic, the report is
\* preceded by OutputQueueFull exactly when samples were omitted after the
\* last accepted one (run_worker, report_callback_panic).
TrailingLossReported ==
  (\/ "PollFailure" \in Elements(sent)
   \/ CallbackPanicked /\ "WorkerPanic" \in Elements(sent))
    => (sent[1] = "OutputQueueFull" <=> \E k \in omitted : k > last_accepted)

\* A worker that has ended sent one WorkerPanic for each panic it raised,
\* whether in the callback, in its own frames or in a destructor.
PanicsReported ==
  (wpc = "done" /\ ReceiverAlive)
    => Cardinality({i \in DOMAIN sent : sent[i] = "WorkerPanic"}) = panics

\* WorkerStop is the last word of the terminal channel: a receive returns it
\* only when the worker has ended and all its errors were returned.
StopIsLast ==
  stopped => /\ wpc \in {"done", "abandoned"}
             /\ reported = sent

\* A receive that found the delivery channel disconnected can rely on it: all
\* accepted deliveries were returned and none will follow, so the terminal
\* error it goes on to return is in order.
DisconnectedIsFinal ==
  cpc \in {"terminal_or_stop", "terminal_until"}
    => /\ Buffered = {}
       /\ wpc \in {"caught", "drop_terminal", "done"}

\* "Buffered delivery entries are returned before a terminal poll failure"
\* (recv_timeout): no receive returns PollFailure while the collector still
\* buffers a delivery.
BufferedBeforePollFailure ==
  [][(reported' # reported /\ reported'[Len(reported')] = "PollFailure") => Buffered = {}]_vars

-----------------------------------------------------------------------------
(* What eventually happens.                                                 *)

\* Dropping the collector ends a worker that runs, and the BPF programs are
\* detached by then: a caller that joins the worker returns.
ShutdownCompletes == (cpc = "dropping" /\ wpc # "prepared") ~> (wpc = "done" /\ ~attached)

\* Unless the collector is dropped, a receiving consumer gets every accepted
\* delivery and, once the worker has ended, WorkerStop (try_recv, recv_timeout).
ConsumerServed ==
  /\ \A id \in SampleIds : (id \in Buffered) ~> (id \in Returned \/ cpc = "dropping")
  /\ (wpc = "done") ~> (stopped \/ cpc \in {"dropping", "dropped"})
=============================================================================
