--------------------------- MODULE CollectorProofs ---------------------------
(***************************************************************************)
(* Theorems about Collector for every queue capacity, ring capacity and    *)
(* number of samples: its terminal reports, its exact loss notices, that   *)
(* no sample vanishes, and that it implements LossyStream.                 *)
(***************************************************************************)
EXTENDS CollectorStream, FiniteSetTheorems, TLAPS

-----------------------------------------------------------------------------
(* Type correctness.                                                        *)

\* The worker has ended its last poll or is past it.
Ended == {"drop_resources", "drop_deliveries", "caught", "drop_terminal", "abandoned", "done"}

\* The callback runs for a sample that is in the ring.
SampleInHand == wpc = "deliver" => cons_pos < prod_pos

LEMMA AppendFacts ==
  ASSUME NEW S, NEW seq \in Seq(S), NEW e \in S
  PROVE  /\ Append(seq, e) \in Seq(S)
         /\ Len(Append(seq, e)) = Len(seq) + 1
         /\ \A i \in 1 .. Len(seq) : Append(seq, e)[i] = seq[i]
         /\ Append(seq, e)[Len(seq) + 1] = e
  OBVIOUS

LEMMA TailFacts ==
  ASSUME NEW S, NEW seq \in Seq(S), seq # <<>>
  PROVE  /\ Head(seq) \in S
         /\ Head(seq) = seq[1]
         /\ Tail(seq) \in Seq(S)
         /\ Len(seq) \in Nat \ {0}
         /\ Len(Tail(seq)) = Len(seq) - 1
         /\ \A i \in 1 .. Len(Tail(seq)) : Tail(seq)[i] = seq[i + 1]
  OBVIOUS

LEMMA TypeInit == Init => TypeOK /\ SampleInHand
<1>1. Init => FlagsOK
  BY Zenon DEF Init, FlagsOK
<1>2. Init => DataOK /\ SampleInHand
  BY EventCapacityAssumption, MaxSamplesAssumption
  DEF Init, DataOK, SampleInHand, TerminalCapacity
<1> QED
  BY <1>1, <1>2 DEF TypeOK

\* Every step assigns a Boolean to each flag it changes.
LEMMA FlagsStep == FlagsOK /\ [Next]_vars => FlagsOK'
<1> SUFFICES ASSUME FlagsOK, [Next]_vars PROVE FlagsOK'
  OBVIOUS
<1> USE DEF FlagsOK, ring_vars, channel_vars, worker_vars, consumer_vars, history_vars,
        consumer_rest
<1>1. CASE SubmitSample
  BY <1>1, Zenon DEF SubmitSample
<1>2. CASE Run
  BY <1>2, Zenon DEF Run
<1>3. CASE AbandonWorker
  BY <1>3, Zenon DEF AbandonWorker
<1>4. CASE CheckRunning
  BY <1>4, Zenon DEF CheckRunning
<1>5. ASSUME NEW err \in BOOLEAN, PollReturns(err) PROVE FlagsOK'
  BY <1>5, Zenon DEF PollReturns
<1>6. CASE PollPanics
  BY <1>6, Zenon DEF PollPanics
<1>7. CASE EnterCallback
  BY <1>7, Zenon DEF EnterCallback
<1>8. ASSUME NEW kind \in {"Event", "MalformedSample"}, Deliver(kind) PROVE FlagsOK'
  BY <1>8, Zenon DEF Deliver
<1>9. CASE CallbackPanics
  BY <1>9, Zenon DEF CallbackPanics
<1>10. CASE ReportCallbackPanic
  BY <1>10, Zenon DEF ReportCallbackPanic
<1>11. CASE SendCallbackPanic
  BY <1>11, Zenon DEF SendCallbackPanic
<1>12. CASE InspectPollResult
  BY <1>12, Zenon DEF InspectPollResult
<1>13. CASE SendPendingNotice
  BY <1>13, Zenon DEF SendPendingNotice
<1>14. CASE SendPollFailure
  BY <1>14, Zenon DEF SendPollFailure
<1>15. ASSUME NEW panic \in BOOLEAN, DropResources(panic) PROVE FlagsOK'
  BY <1>15, Zenon DEF DropResources
<1>16. CASE DropDeliveries
  BY <1>16, Zenon DEF DropDeliveries
<1>17. CASE ReportUnwind
  BY <1>17, Zenon DEF ReportUnwind
<1>18. CASE DropTerminal
  BY <1>18, Zenon DEF DropTerminal
<1>19. CASE AbandonResources
  BY <1>19, Zenon DEF AbandonResources
<1>20. CASE TryRecv
  BY <1>20, Zenon DEF TryRecv, ReadDeliveries
<1>21. CASE RecvTimeout
  BY <1>21, Zenon DEF RecvTimeout, ReadDeliveries
<1>22. CASE TerminalNow
  BY <1>22, Zenon DEF TerminalNow, ReadTerminal
<1>23. CASE TerminalOrStop
  BY <1>23, Zenon DEF TerminalOrStop, ReadTerminal
<1>24. CASE TerminalUntil
  BY <1>24, Zenon DEF TerminalUntil, ReadTerminal
<1>25. CASE DropCollector
  BY <1>25, Zenon DEF DropCollector
<1>26. CASE DropReceivers
  BY <1>26, Zenon DEF DropReceivers
<1>27. CASE UNCHANGED vars
  BY <1>27, Zenon DEF vars
<1> QED
  BY <1>1, <1>2, <1>3, <1>4, <1>5, <1>6, <1>7, <1>8, <1>9, <1>10, <1>11, <1>12, <1>13, <1>14, <1>15, <1>16, <1>17, <1>18, <1>19, <1>20, <1>21, <1>22, <1>23, <1>24, <1>25, <1>26, <1>27,
     Zenon DEF Next, WorkerStep, ReceiveStep, Finished

\* A terminal send, accepted or not, keeps both sequences of errors typed.
LEMMA TrySendTyped ==
  ASSUME terminal \in Seq(TerminalKind), Len(terminal) <= TerminalCapacity,
         sent \in Seq(TerminalKind), NEW kind \in TerminalKind, TrySendTerminal(kind)
  PROVE  /\ terminal' \in Seq(TerminalKind) /\ Len(terminal') <= TerminalCapacity
         /\ sent' \in Seq(TerminalKind)
<1>1. CASE ReceiverAlive
  <2>1. sent' = Append(sent, kind)
    BY <1>1 DEF TrySendTerminal
  <2>2. terminal' = IF Len(terminal) < TerminalCapacity THEN Append(terminal, kind)
                                                        ELSE terminal
    BY <1>1 DEF TrySendTerminal
  <2>3. sent' \in Seq(TerminalKind)
    BY <2>1
  <2>4. terminal' \in Seq(TerminalKind) /\ Len(terminal') <= TerminalCapacity
    BY <2>2 DEF TerminalCapacity
  <2> QED
    BY <2>3, <2>4
<1>2. CASE ~ReceiverAlive
  BY <1>2 DEF TrySendTerminal
<1> QED
  BY <1>1, <1>2

\* Taking the next entry keeps queue, parked delivery and log typed.
LEMMA UnpairTyped ==
  ASSUME deliveries \in Seq(DeliveryEntry), deliveries # <<>>,
         pending_delivery \in Seq(Delivery), Len(pending_delivery) <= 1,
         log \in Seq(Delivery \cup {Gap}), Unpair(Head(deliveries))
  PROVE  /\ pending_delivery' \in Seq(Delivery) /\ Len(pending_delivery') <= 1
         /\ log' \in Seq(Delivery \cup {Gap})
<1>1. Head(deliveries) \in DeliveryEntry
  OBVIOUS
<1>2. Head(deliveries).delivery \in Delivery
  BY <1>1 DEF DeliveryEntry
<1>3. CASE Head(deliveries).output_full_before
  <2>1. pending_delivery' = <<Head(deliveries).delivery>> /\ log' = Append(log, Gap)
    BY <1>3 DEF Unpair
  <2>2. log' \in Seq(Delivery \cup {Gap})
    BY <2>1
  <2> QED
    BY <1>2, <2>1, <2>2
<1>4. CASE ~Head(deliveries).output_full_before
  <2>1. pending_delivery' = pending_delivery /\ log' = Append(log, Head(deliveries).delivery)
    BY <1>4 DEF Unpair
  <2>2. log' \in Seq(Delivery \cup {Gap})
    BY <1>2, <2>1
  <2> QED
    BY <2>1, <2>2
<1> QED
  BY <1>3, <1>4

\* Every step of either thread keeps the state well typed, the delivery queue
\* within its capacity and the ring positions in order.
LEMMA DataStep == TypeOK /\ SampleInHand /\ [Next]_vars => DataOK' /\ SampleInHand'
<1> SUFFICES ASSUME TypeOK, SampleInHand, [Next]_vars
             PROVE  DataOK' /\ SampleInHand'
  OBVIOUS
<1> USE EventCapacityAssumption, RingCapacityAssumption, MaxSamplesAssumption
    DEF TypeOK, DataOK, SampleInHand, TerminalCapacity, ring_vars, channel_vars, worker_vars,
        consumer_vars, history_vars
<1>1. CASE SubmitSample
  BY <1>1 DEF SubmitSample
<1>2. CASE Run
  BY <1>2 DEF Run
<1>3. CASE AbandonWorker
  BY <1>3 DEF AbandonWorker
<1>4. CASE CheckRunning
  BY <1>4 DEF CheckRunning
<1>5. ASSUME NEW err \in BOOLEAN, PollReturns(err) PROVE DataOK' /\ SampleInHand'
  BY <1>5 DEF PollReturns
<1>6. CASE PollPanics
  BY <1>6 DEF PollPanics
<1>7. CASE EnterCallback
  BY <1>7 DEF EnterCallback
<1>8. ASSUME NEW kind \in {"Event", "MalformedSample"}, Deliver(kind)
      PROVE  DataOK' /\ SampleInHand'
  <2> DEFINE id == cons_pos + 1
             entry == [delivery |-> [id |-> id, kind |-> kind],
                       output_full_before |-> output_full_pending]
  <2>1. id \in SampleIds /\ entry \in DeliveryEntry
    BY <1>8 DEF Deliver, FlagsOK, SampleIds, Delivery, DeliveryEntry
  <2>2. CASE deliveries' = Append(deliveries, entry) /\ QueueHasRoom
    BY <1>8, <2>1, <2>2 DEF Deliver, QueueHasRoom
  <2>3. CASE deliveries' = deliveries
    BY <1>8, <2>1, <2>3 DEF Deliver
  <2> QED
    BY <1>8, <2>2, <2>3 DEF Deliver
<1>9. CASE CallbackPanics
  BY <1>9 DEF CallbackPanics
<1>10. ASSUME NEW kind \in TerminalKind, TrySendTerminal(kind)
       PROVE  /\ terminal' \in Seq(TerminalKind) /\ Len(terminal') <= TerminalCapacity
              /\ sent' \in Seq(TerminalKind)
  BY <1>10, TrySendTyped
<1>11. NotifyPendingLoss => /\ terminal' \in Seq(TerminalKind)
                            /\ Len(terminal') <= TerminalCapacity
                            /\ sent' \in Seq(TerminalKind)
  BY <1>10 DEF NotifyPendingLoss, TerminalKind
<1>12. CASE ReportCallbackPanic
  BY <1>11, <1>12 DEF ReportCallbackPanic
<1>13. CASE SendCallbackPanic
  BY <1>10, <1>13 DEF SendCallbackPanic, TerminalKind
<1>14. CASE InspectPollResult
  BY <1>14 DEF InspectPollResult
<1>15. CASE SendPendingNotice
  BY <1>11, <1>15 DEF SendPendingNotice
<1>16. CASE SendPollFailure
  BY <1>10, <1>16 DEF SendPollFailure, TerminalKind
<1>17. ASSUME NEW panic \in BOOLEAN, DropResources(panic) PROVE DataOK' /\ SampleInHand'
  BY <1>17 DEF DropResources
<1>18. CASE DropDeliveries
  BY <1>18 DEF DropDeliveries
<1>19. CASE ReportUnwind
  BY <1>10, <1>19 DEF ReportUnwind, TerminalKind
<1>20. CASE DropTerminal
  BY <1>20 DEF DropTerminal
<1>21. CASE AbandonResources
  BY <1>21 DEF AbandonResources
<1>22. ASSUME NEW onDisconnected \in {"terminal_or_stop", "terminal_until"},
              ReadDeliveries(onDisconnected)
       PROVE  DataOK' /\ SampleInHand'
  <2>1. CASE pending_delivery # <<>>
    <3>1. pending_delivery[1] \in Delivery \cup {Gap}
      BY <2>1
    <3>2. Append(log, pending_delivery[1]) \in Seq(Delivery \cup {Gap})
      BY <3>1, AppendFacts
    <3> QED
      <4>1. /\ log' = Append(log, pending_delivery[1]) /\ pending_delivery' = <<>>
            /\ UNCHANGED <<deliveries, cpc, terminal, reported>>
        BY <1>22, <2>1 DEF ReadDeliveries
      <4>2. UNCHANGED <<prod_pos, cons_pos, wpc, last_accepted, omitted, sent, panics>>
        BY <1>22 DEF ReadDeliveries, consumer_rest
      <4> QED
        BY <3>2, <4>1, <4>2
  <2>2. CASE pending_delivery = <<>> /\ deliveries # <<>>
    <3>1. /\ deliveries' = Tail(deliveries)
          /\ Unpair(Head(deliveries))
          /\ UNCHANGED <<cpc, terminal, reported>>
      BY <1>22, <2>2 DEF ReadDeliveries
    <3>2. UNCHANGED <<prod_pos, cons_pos, wpc, last_accepted, omitted, sent, panics>>
      BY <1>22 DEF ReadDeliveries, consumer_rest
    <3>3. /\ pending_delivery' \in Seq(Delivery) /\ Len(pending_delivery') <= 1
          /\ log' \in Seq(Delivery \cup {Gap})
      BY <2>2, <3>1, UnpairTyped
    <3>4. deliveries' \in Seq(DeliveryEntry) /\ Len(deliveries') <= EventCapacity
      BY <2>2, <3>1
    <3> QED
      BY <3>1, <3>2, <3>3, <3>4
  <2>3. CASE pending_delivery = <<>> /\ deliveries = <<>>
    BY <1>22, <2>3 DEF ReadDeliveries, consumer_rest
  <2> QED
    BY <2>1, <2>2, <2>3
<1>23. ASSUME NEW onEmpty \in {"idle", "terminal_now"}, ReadTerminal(onEmpty)
       PROVE  DataOK' /\ SampleInHand'
  <2>1. CASE terminal # <<>>
    <3>1. /\ Tail(terminal) \in Seq(TerminalKind) /\ Len(Tail(terminal)) <= TerminalCapacity
          /\ Append(reported, Head(terminal)) \in Seq(TerminalKind)
      BY <2>1, AppendFacts, TailFacts
    <3> QED
      BY Zenon, <1>23, <2>1, <3>1 DEF ReadTerminal, consumer_rest
  <2>2. CASE terminal = <<>>
    BY ZenonT(30), <1>23, <2>2 DEF ReadTerminal, consumer_rest
  <2> QED
    BY <2>1, <2>2
<1>24. CASE DropCollector
  BY <1>24 DEF DropCollector
<1>25. CASE DropReceivers
  BY <1>25 DEF DropReceivers, consumer_rest
<1>26. CASE UNCHANGED vars
  BY <1>26 DEF vars
<1> QED
  BY ZenonT(30), <1>1, <1>2, <1>3, <1>4, <1>5, <1>6, <1>7, <1>8, <1>9, <1>12, <1>13, <1>14, <1>15, <1>16,
     <1>17, <1>18, <1>19, <1>20, <1>21, <1>22, <1>23, <1>24, <1>25, <1>26
  DEF Next, WorkerStep, ReceiveStep, TryRecv, RecvTimeout, TerminalNow, TerminalOrStop,
      TerminalUntil, Finished

LEMMA TypeStep == TypeOK /\ SampleInHand /\ [Next]_vars => TypeOK' /\ SampleInHand'
  BY FlagsStep, DataStep DEF TypeOK

\* The state of the collector is well typed and the delivery queue and the
\* terminal channel stay within their capacities, in every behaviour.
THEOREM TypeCorrect == Spec => []TypeOK
<1>1. Spec => [](TypeOK /\ SampleInHand)
  BY TypeInit, TypeStep, PTL DEF Spec
<1> QED
  BY <1>1, PTL

-----------------------------------------------------------------------------
(* The terminal channel.  No report is lost because the worker sends at most *)
(* three; how many it may have sent follows from where it is.                *)

SentSoFar ==
  /\ wpc \in {"prepared", "loop", "poll", "deliver", "polled", "poll_failed", "abandoned"}
       => Len(sent) = 0
  /\ wpc \in {"report_panic", "report_failure"} => Len(sent) <= 1
  /\ wpc \in {"drop_resources", "drop_deliveries", "caught"} => Len(sent) <= 2

\* A channel is disconnected exactly when the worker dropped its last sender.
DeliveriesConnected == delivery_connected <=> wpc \notin {"caught", "drop_terminal", "done"}

TerminalConnected == terminal_connected <=> wpc \notin {"done", "abandoned"}

StopDrained == stopped => terminal = <<>>

DisconnectedDrained ==
  cpc \in {"terminal_or_stop", "terminal_until"}
    => deliveries = <<>> /\ pending_delivery = <<>>

DisconnectedLate ==
  cpc \in {"terminal_or_stop", "terminal_until"} => wpc \in {"caught", "drop_terminal", "done"}

TInv == SentSoFar /\ DeliveriesConnected /\ TerminalConnected /\ NoReportLost
          /\ StopIsLast /\ StopDrained /\ DisconnectedDrained /\ DisconnectedLate

LEMMA ConcatEmpty ==
  ASSUME NEW S, NEW r \in Seq(S)
  PROVE  r \o <<>> = r
  OBVIOUS

LEMMA ConcatMove ==
  ASSUME NEW S, NEW r \in Seq(S), NEW t \in Seq(S), t # <<>>
  PROVE  Append(r, Head(t)) \o Tail(t) = r \o t
  OBVIOUS

\* The last sender of either channel goes away in exactly one step.
LEMMA ConnectionStep ==
  DeliveriesConnected /\ TerminalConnected /\ [Next]_vars
    => DeliveriesConnected' /\ TerminalConnected'
<1> SUFFICES ASSUME DeliveriesConnected, TerminalConnected, [Next]_vars
             PROVE  DeliveriesConnected' /\ TerminalConnected'
  OBVIOUS
<1> USE DEF DeliveriesConnected, TerminalConnected, ring_vars, channel_vars, worker_vars,
        consumer_vars, history_vars, consumer_rest
<1>1. CASE SubmitSample
  BY <1>1 DEF SubmitSample
<1>2. CASE Run
  BY <1>2 DEF Run
<1>3. CASE AbandonWorker
  BY <1>3 DEF AbandonWorker
<1>4. CASE CheckRunning
  BY <1>4 DEF CheckRunning
<1>5. ASSUME NEW err \in BOOLEAN, PollReturns(err) PROVE DeliveriesConnected' /\ TerminalConnected'
  BY <1>5 DEF PollReturns
<1>6. CASE PollPanics
  BY <1>6 DEF PollPanics
<1>7. CASE EnterCallback
  BY <1>7 DEF EnterCallback
<1>8. ASSUME NEW kind \in {"Event", "MalformedSample"}, Deliver(kind) PROVE DeliveriesConnected' /\ TerminalConnected'
  BY <1>8 DEF Deliver
<1>9. CASE CallbackPanics
  BY <1>9 DEF CallbackPanics
<1>10. CASE ReportCallbackPanic
  BY <1>10 DEF ReportCallbackPanic
<1>11. CASE SendCallbackPanic
  BY <1>11 DEF SendCallbackPanic
<1>12. CASE InspectPollResult
  BY <1>12 DEF InspectPollResult
<1>13. CASE SendPendingNotice
  BY <1>13 DEF SendPendingNotice
<1>14. CASE SendPollFailure
  BY <1>14 DEF SendPollFailure
<1>15. ASSUME NEW panic \in BOOLEAN, DropResources(panic) PROVE DeliveriesConnected' /\ TerminalConnected'
  BY <1>15 DEF DropResources
<1>16. CASE DropDeliveries
  BY <1>16 DEF DropDeliveries
<1>17. CASE ReportUnwind
  BY <1>17 DEF ReportUnwind
<1>18. CASE DropTerminal
  BY <1>18 DEF DropTerminal
<1>19. CASE AbandonResources
  BY <1>19 DEF AbandonResources
<1>20. CASE TryRecv
  BY <1>20 DEF TryRecv, ReadDeliveries
<1>21. CASE RecvTimeout
  BY <1>21 DEF RecvTimeout, ReadDeliveries
<1>22. CASE TerminalNow
  BY <1>22 DEF TerminalNow, ReadTerminal
<1>23. CASE TerminalOrStop
  BY <1>23 DEF TerminalOrStop, ReadTerminal
<1>24. CASE TerminalUntil
  BY <1>24 DEF TerminalUntil, ReadTerminal
<1>25. CASE DropCollector
  BY <1>25 DEF DropCollector
<1>26. CASE DropReceivers
  BY <1>26 DEF DropReceivers
<1>27. CASE UNCHANGED vars
  BY <1>27 DEF vars
<1> QED
  BY <1>1, <1>2, <1>3, <1>4, <1>5, <1>6, <1>7, <1>8, <1>9, <1>10, <1>11, <1>12, <1>13, <1>14,
     <1>15, <1>16, <1>17, <1>18, <1>19, <1>20, <1>21, <1>22, <1>23, <1>24, <1>25, <1>26, <1>27
  DEF Next, WorkerStep, ReceiveStep, Finished

\* A send that finds at most two earlier ones is kept.
LEMMA ReportAppended ==
  ASSUME terminal \in Seq(TerminalKind), reported \in Seq(TerminalKind), NEW kind \in TerminalKind
  PROVE  Append(reported \o terminal, kind) = reported \o Append(terminal, kind)
  OBVIOUS

LEMMA SendKept ==
  ASSUME terminal \in Seq(TerminalKind), reported \in Seq(TerminalKind),
         sent \in Seq(TerminalKind), NoReportLost, Len(sent) <= 2,
         NEW kind \in TerminalKind, TrySendTerminal(kind), cpc' = cpc, reported' = reported
  PROVE  NoReportLost' /\ Len(sent') <= Len(sent) + 1
<1>1. CASE ReceiverAlive
  <2>1. sent = reported \o terminal
    BY <1>1 DEF NoReportLost
  <2>2. Len(terminal) < TerminalCapacity
    <3>1. Len(sent) = Len(reported) + Len(terminal)
      BY <2>1
    <3>2. Len(reported) \in Nat /\ Len(terminal) \in Nat
      OBVIOUS
    <3> QED
      BY <3>1, <3>2 DEF TerminalCapacity
  <2>3. sent' = Append(sent, kind) /\ terminal' = Append(terminal, kind)
    BY <1>1, <2>2 DEF TrySendTerminal
  <2>4. sent' = reported' \o terminal'
    <3>1. Append(reported \o terminal, kind) = reported \o Append(terminal, kind)
      BY Zenon, ReportAppended
    <3> QED
      BY <2>1, <2>3, <3>1, Zenon
  <2>5. Len(sent') <= Len(sent) + 1
    BY <2>3
  <2> QED
    BY <2>4, <2>5 DEF NoReportLost
<1>2. CASE ~ReceiverAlive
  BY <1>2 DEF TrySendTerminal, NoReportLost, ReceiverAlive
<1> QED
  BY <1>1, <1>2

\* Returning the oldest terminal error moves it from the channel to the reports.
LEMMA ReadTerminalKeeps ==
  ASSUME NEW onEmpty, terminal \in Seq(TerminalKind), reported \in Seq(TerminalKind),
         NoReportLost, cpc # "dropped", ReadTerminal(onEmpty)
  PROVE  NoReportLost'
<1>1. sent = reported \o terminal /\ sent' = sent
  BY DEF NoReportLost, ReceiverAlive, ReadTerminal, consumer_rest, history_vars
<1>2. CASE terminal # <<>>
  <2>1. reported' = Append(reported, Head(terminal)) /\ terminal' = Tail(terminal)
    BY <1>2 DEF ReadTerminal
  <2> QED
    BY <1>1, <1>2, <2>1, ConcatMove DEF NoReportLost
<1>3. CASE terminal = <<>>
  BY <1>1, <1>3 DEF ReadTerminal, NoReportLost
<1> QED
  BY <1>2, <1>3

\* How much the worker has sent, and that nothing it sent is lost.
LEMMA SentStep ==
  DataOK /\ SentSoFar /\ NoReportLost /\ [Next]_vars => SentSoFar' /\ NoReportLost'
<1> SUFFICES ASSUME DataOK, SentSoFar, NoReportLost, [Next]_vars
             PROVE  SentSoFar' /\ NoReportLost'
  OBVIOUS
<1>1. CASE SubmitSample
  BY <1>1
  DEF SubmitSample, SentSoFar, NoReportLost, ReceiverAlive, ring_vars, channel_vars,
      worker_vars, consumer_vars, history_vars
<1>2. CASE Run
  BY <1>2
  DEF Run, SentSoFar, NoReportLost, ReceiverAlive, ring_vars, channel_vars, worker_vars,
      consumer_vars, history_vars
<1>3. CASE AbandonWorker
  BY <1>3
  DEF AbandonWorker, SentSoFar, NoReportLost, ReceiverAlive, ring_vars, channel_vars,
      worker_vars, consumer_vars, history_vars
<1>4. CASE CheckRunning
  BY <1>4
  DEF CheckRunning, SentSoFar, NoReportLost, ReceiverAlive, ring_vars, channel_vars,
      worker_vars, consumer_vars, history_vars
<1>5. ASSUME NEW err \in BOOLEAN, PollReturns(err) PROVE SentSoFar' /\ NoReportLost'
  BY <1>5
  DEF PollReturns, SentSoFar, NoReportLost, ReceiverAlive, ring_vars, channel_vars,
      worker_vars, consumer_vars, history_vars
<1>6. CASE PollPanics
  BY <1>6
  DEF PollPanics, SentSoFar, NoReportLost, ReceiverAlive, ring_vars, channel_vars, worker_vars,
      consumer_vars, history_vars
<1>7. CASE EnterCallback
  BY <1>7
  DEF EnterCallback, SentSoFar, NoReportLost, ReceiverAlive, ring_vars, channel_vars,
      worker_vars, consumer_vars, history_vars
<1>8. ASSUME NEW kind \in {"Event", "MalformedSample"}, Deliver(kind) PROVE SentSoFar' /\ NoReportLost'
  BY <1>8
  DEF Deliver, SentSoFar, NoReportLost, ReceiverAlive, ring_vars, channel_vars, worker_vars,
      consumer_vars, history_vars
<1>9. CASE CallbackPanics
  BY <1>9
  DEF CallbackPanics, SentSoFar, NoReportLost, ReceiverAlive, ring_vars, channel_vars,
      worker_vars, consumer_vars, history_vars
<1>10. CASE ReportCallbackPanic
  <2>1. NoReportLost' /\ Len(sent') <= Len(sent) + 1
    <3>1. CASE output_full_pending
      <4>1. Len(sent) <= 2 /\ "OutputQueueFull" \in TerminalKind
            /\ TrySendTerminal("OutputQueueFull")
        BY <1>10, <3>1 DEF ReportCallbackPanic, NotifyPendingLoss, SentSoFar, DataOK, TerminalKind
      <4> QED
        BY <1>10, <4>1, SendKept DEF ReportCallbackPanic, consumer_vars, DataOK
    <3>2. CASE ~output_full_pending
      BY <1>10, <3>2 DEF ReportCallbackPanic, NotifyPendingLoss, NoReportLost, ReceiverAlive, consumer_vars, DataOK
    <3> QED
      BY <3>1, <3>2
  <2> QED
    BY <1>10, <2>1 DEF ReportCallbackPanic, SentSoFar, DataOK
<1>11. CASE SendCallbackPanic
  <2>1. NoReportLost' /\ Len(sent') <= Len(sent) + 1
    <3>1. Len(sent) <= 2 /\ "WorkerPanic" \in TerminalKind /\ TrySendTerminal("WorkerPanic")
      BY <1>11 DEF SendCallbackPanic, SentSoFar, DataOK, TerminalKind
    <3> QED
      BY <1>11, <3>1, SendKept DEF SendCallbackPanic, consumer_vars, DataOK
  <2> QED
    BY <1>11, <2>1 DEF SendCallbackPanic, SentSoFar, DataOK
<1>12. CASE InspectPollResult
  BY <1>12
  DEF InspectPollResult, SentSoFar, NoReportLost, ReceiverAlive, ring_vars, channel_vars,
      worker_vars, consumer_vars, history_vars
<1>13. CASE SendPendingNotice
  <2>1. NoReportLost' /\ Len(sent') <= Len(sent) + 1
    <3>1. CASE output_full_pending
      <4>1. Len(sent) <= 2 /\ "OutputQueueFull" \in TerminalKind
            /\ TrySendTerminal("OutputQueueFull")
        BY <1>13, <3>1 DEF SendPendingNotice, NotifyPendingLoss, SentSoFar, DataOK, TerminalKind
      <4> QED
        BY <1>13, <4>1, SendKept DEF SendPendingNotice, consumer_vars, DataOK
    <3>2. CASE ~output_full_pending
      BY <1>13, <3>2 DEF SendPendingNotice, NotifyPendingLoss, NoReportLost, ReceiverAlive, consumer_vars, DataOK
    <3> QED
      BY <3>1, <3>2
  <2> QED
    BY <1>13, <2>1 DEF SendPendingNotice, SentSoFar, DataOK
<1>14. CASE SendPollFailure
  <2>1. NoReportLost' /\ Len(sent') <= Len(sent) + 1
    <3>1. Len(sent) <= 2 /\ "PollFailure" \in TerminalKind /\ TrySendTerminal("PollFailure")
      BY <1>14 DEF SendPollFailure, SentSoFar, DataOK, TerminalKind
    <3> QED
      BY <1>14, <3>1, SendKept DEF SendPollFailure, consumer_vars, DataOK
  <2> QED
    BY <1>14, <2>1 DEF SendPollFailure, SentSoFar, DataOK
<1>15. ASSUME NEW panic \in BOOLEAN, DropResources(panic) PROVE SentSoFar' /\ NoReportLost'
  BY <1>15
  DEF DropResources, SentSoFar, NoReportLost, ReceiverAlive, ring_vars, channel_vars,
      worker_vars, consumer_vars, history_vars
<1>16. CASE DropDeliveries
  BY <1>16
  DEF DropDeliveries, SentSoFar, NoReportLost, ReceiverAlive, ring_vars, channel_vars,
      worker_vars, consumer_vars, history_vars
<1>17. CASE ReportUnwind
  <2>1. NoReportLost'
    <3>1. CASE unwinding
      <4>1. Len(sent) <= 2 /\ "WorkerPanic" \in TerminalKind /\ TrySendTerminal("WorkerPanic")
        BY <1>17, <3>1 DEF ReportUnwind, SentSoFar, DataOK, TerminalKind
      <4> QED
        BY <1>17, <4>1, SendKept DEF ReportUnwind, consumer_vars, DataOK
    <3>2. CASE ~unwinding
      BY <1>17, <3>2 DEF ReportUnwind, NoReportLost, ReceiverAlive, consumer_vars, DataOK
    <3> QED
      BY <3>1, <3>2
  <2> QED
    BY <1>17, <2>1 DEF ReportUnwind, SentSoFar
<1>18. CASE DropTerminal
  BY <1>18
  DEF DropTerminal, SentSoFar, NoReportLost, ReceiverAlive, ring_vars, channel_vars,
      worker_vars, consumer_vars, history_vars
<1>19. CASE AbandonResources
  BY <1>19
  DEF AbandonResources, SentSoFar, NoReportLost, ReceiverAlive, ring_vars, channel_vars,
      worker_vars, consumer_vars, history_vars
<1>20. CASE TryRecv
  BY <1>20
  DEF TryRecv, ReadDeliveries, SentSoFar, NoReportLost, ReceiverAlive, ring_vars, channel_vars,
      worker_vars, consumer_vars, history_vars, consumer_rest
<1>21. CASE RecvTimeout
  BY <1>21
  DEF RecvTimeout, ReadDeliveries, SentSoFar, NoReportLost, ReceiverAlive, ring_vars,
      channel_vars, worker_vars, consumer_vars, history_vars, consumer_rest
<1>22. CASE TerminalNow
  <2>1. SentSoFar'
    BY <1>22 DEF TerminalNow, ReadTerminal, consumer_rest, SentSoFar, worker_vars, history_vars
  <2>2. NoReportLost'
    BY <1>22, ReadTerminalKeeps DEF TerminalNow, DataOK
  <2> QED
    BY <2>1, <2>2
<1>23. CASE TerminalOrStop
  <2>1. SentSoFar'
    BY <1>23 DEF TerminalOrStop, ReadTerminal, consumer_rest, SentSoFar, worker_vars, history_vars
  <2>2. NoReportLost'
    BY <1>23, ReadTerminalKeeps DEF TerminalOrStop, DataOK
  <2> QED
    BY <2>1, <2>2
<1>24. CASE TerminalUntil
  <2>1. SentSoFar'
    BY <1>24 DEF TerminalUntil, ReadTerminal, consumer_rest, SentSoFar, worker_vars, history_vars
  <2>2. NoReportLost'
    BY <1>24, ReadTerminalKeeps DEF TerminalUntil, DataOK
  <2> QED
    BY <2>1, <2>2
<1>25. CASE DropCollector
  BY <1>25
  DEF DropCollector, SentSoFar, NoReportLost, ReceiverAlive, ring_vars, channel_vars,
      worker_vars, consumer_vars, history_vars
<1>26. CASE DropReceivers
  BY <1>26
  DEF DropReceivers, SentSoFar, NoReportLost, ReceiverAlive, ring_vars, channel_vars,
      worker_vars, consumer_vars, history_vars, consumer_rest
<1>27. CASE UNCHANGED vars
  BY <1>27
  DEF vars, SentSoFar, NoReportLost, ReceiverAlive, ring_vars, channel_vars, worker_vars,
      consumer_vars, history_vars
<1> QED
  BY <1>1, <1>2, <1>3, <1>4, <1>5, <1>6, <1>7, <1>8, <1>9, <1>10, <1>11, <1>12, <1>13, <1>14,
     <1>15, <1>16, <1>17, <1>18, <1>19, <1>20, <1>21, <1>22, <1>23, <1>24, <1>25, <1>26, <1>27
  DEF Next, WorkerStep, ReceiveStep, Finished

\* A receive reports WorkerStop only from an empty channel without senders.
LEMMA ReadTerminalFinal ==
  ASSUME NEW onEmpty \in {"idle", "terminal_now"}, DataOK, TInv, cpc # "dropped",
         ReadTerminal(onEmpty)
  PROVE  StopIsLast' /\ StopDrained' /\ cpc' \notin {"terminal_or_stop", "terminal_until"}
<1>1. /\ sent = reported \o terminal
      /\ UNCHANGED <<sent, wpc>>
      /\ stopped => wpc \in {"done", "abandoned"} /\ reported = sent /\ terminal = <<>>
  BY DEF TInv, NoReportLost, ReceiverAlive, StopIsLast, StopDrained, ReadTerminal,
         consumer_rest, worker_vars, history_vars
<1>2. CASE terminal # <<>>
  BY <1>1, <1>2 DEF ReadTerminal, StopIsLast, StopDrained
<1>3. CASE terminal = <<>>
  <2>1. sent = reported
    BY <1>1, <1>3, ConcatEmpty DEF DataOK
  <2>2. stopped' => stopped \/ ~terminal_connected
    BY Zenon, <1>3 DEF ReadTerminal
  <2>3. stopped' => wpc \in {"done", "abandoned"}
    BY <1>1, <2>2 DEF TInv, TerminalConnected
  <2>4. UNCHANGED <<terminal, reported>> /\ cpc' \notin {"terminal_or_stop", "terminal_until"}
    BY <1>3 DEF ReadTerminal
  <2> QED
    BY <1>1, <1>3, <2>1, <2>3, <2>4 DEF StopIsLast, StopDrained
<1> QED
  BY <1>2, <1>3

\* WorkerStop and the disconnected delivery channel are final.
FinalParts == StopIsLast /\ StopDrained /\ DisconnectedDrained /\ DisconnectedLate

LEMMA FinalStep == DataOK /\ TInv /\ [Next]_vars => FinalParts'
<1> SUFFICES ASSUME DataOK, TInv, [Next]_vars PROVE FinalParts'
  OBVIOUS
<1> USE DEF TInv, DeliveriesConnected, TerminalConnected, FinalParts, StopIsLast, StopDrained,
        DisconnectedDrained, DisconnectedLate,
        ring_vars, channel_vars, worker_vars, consumer_vars, history_vars, consumer_rest
<1>1. CASE SubmitSample
  BY <1>1 DEF SubmitSample
<1>2. CASE Run
  BY <1>2 DEF Run
<1>3. CASE AbandonWorker
  BY <1>3 DEF AbandonWorker
<1>4. CASE CheckRunning
  BY <1>4 DEF CheckRunning
<1>5. ASSUME NEW err \in BOOLEAN, PollReturns(err) PROVE FinalParts'
  BY <1>5 DEF PollReturns
<1>6. CASE PollPanics
  BY <1>6 DEF PollPanics
<1>7. CASE EnterCallback
  BY <1>7 DEF EnterCallback
<1>8. ASSUME NEW kind \in {"Event", "MalformedSample"}, Deliver(kind) PROVE FinalParts'
  BY <1>8 DEF Deliver
<1>9. CASE CallbackPanics
  BY <1>9 DEF CallbackPanics
<1>10. CASE ReportCallbackPanic
  BY <1>10 DEF ReportCallbackPanic
<1>11. CASE SendCallbackPanic
  BY <1>11 DEF SendCallbackPanic
<1>12. CASE InspectPollResult
  BY <1>12 DEF InspectPollResult
<1>13. CASE SendPendingNotice
  BY <1>13 DEF SendPendingNotice
<1>14. CASE SendPollFailure
  BY <1>14 DEF SendPollFailure
<1>15. ASSUME NEW panic \in BOOLEAN, DropResources(panic) PROVE FinalParts'
  BY <1>15 DEF DropResources
<1>16. CASE DropDeliveries
  BY <1>16 DEF DropDeliveries
<1>17. CASE ReportUnwind
  BY <1>17 DEF ReportUnwind
<1>18. CASE DropTerminal
  BY <1>18 DEF DropTerminal
<1>19. CASE AbandonResources
  BY <1>19 DEF AbandonResources
<1>20. CASE TryRecv
  BY <1>20 DEF TryRecv, ReadDeliveries
<1>21. CASE RecvTimeout
  BY <1>21 DEF RecvTimeout, ReadDeliveries
<1>22. CASE TerminalNow
  BY <1>22, ReadTerminalFinal DEF TerminalNow
<1>23. CASE TerminalOrStop
  BY <1>23, ReadTerminalFinal DEF TerminalOrStop
<1>24. CASE TerminalUntil
  BY <1>24, ReadTerminalFinal DEF TerminalUntil
<1>25. CASE DropCollector
  BY <1>25 DEF DropCollector
<1>26. CASE DropReceivers
  BY <1>26 DEF DropReceivers
<1>27. CASE UNCHANGED vars
  BY <1>27 DEF vars
<1> QED
  BY ZenonT(30), <1>1, <1>2, <1>3, <1>4, <1>5, <1>6, <1>7, <1>8, <1>9, <1>10, <1>11, <1>12, <1>13, <1>14,
     <1>15, <1>16, <1>17, <1>18, <1>19, <1>20, <1>21, <1>22, <1>23, <1>24, <1>25, <1>26, <1>27
  DEF Next, WorkerStep, ReceiveStep, Finished

LEMMA TInvInit == Init => TInv
<1> SUFFICES ASSUME Init PROVE TInv
  OBVIOUS
<1>1. DeliveriesConnected /\ TerminalConnected
  BY DEF Init, DeliveriesConnected, TerminalConnected
<1>2. sent = reported \o terminal
  BY DEF Init
<1>3. SentSoFar /\ StopIsLast /\ StopDrained /\ DisconnectedDrained /\ DisconnectedLate
  BY DEF Init, SentSoFar, StopIsLast, StopDrained, DisconnectedDrained, DisconnectedLate
<1> QED
  BY <1>1, <1>2, <1>3 DEF TInv, NoReportLost

LEMMA TInvStep == DataOK /\ TInv /\ [Next]_vars => TInv'
  BY ConnectionStep, SentStep, FinalStep DEF TInv, FinalParts

LEMMA TInvAlways == Spec => [](TypeOK /\ TInv)
<1>1. Init => TypeOK /\ SampleInHand /\ TInv
  BY TypeInit, TInvInit
<1>2. TypeOK /\ SampleInHand /\ TInv /\ [Next]_vars => TypeOK' /\ SampleInHand' /\ TInv'
  BY TypeStep, TInvStep DEF TypeOK
<1> QED
  BY <1>1, <1>2, PTL DEF Spec

\* Whatever the interleaving, receives return every terminal error the worker
\* sent, once and in order: three slots are enough although no try_send result
\* is looked at (run_worker, report_callback_panic, run_with).
THEOREM TerminalReportsKept == Spec => []NoReportLost
<1>1. TInv => NoReportLost
  BY DEF TInv
<1> QED
  BY TInvAlways, <1>1, PTL

\* WorkerStop is returned only by a worker that has ended, after every error it
\* sent (terminal_now_nonblocking and its siblings, run_with's extra sender).
THEOREM StopComesLast == Spec => []StopIsLast
<1>1. TInv => StopIsLast
  BY DEF TInv
<1> QED
  BY TInvAlways, <1>1, PTL

\* A receive that found the delivery channel disconnected has returned every
\* accepted delivery before it looks at the terminal channel.
THEOREM DisconnectionFinal == Spec => []DisconnectedIsFinal
<1>1. TInv => DisconnectedIsFinal
  <2> SUFFICES ASSUME TInv, cpc \in {"terminal_or_stop", "terminal_until"}
               PROVE  Buffered = {} /\ wpc \in {"caught", "drop_terminal", "done"}
    BY DEF DisconnectedIsFinal
  <2>1. deliveries = <<>> /\ pending_delivery = <<>>
    BY DEF TInv, DisconnectedDrained
  <2>2. Buffered = {}
    BY <2>1 DEF Buffered
  <2> QED
    BY <2>2 DEF TInv, DisconnectedLate
<1> QED
  BY TInvAlways, <1>1, PTL

-----------------------------------------------------------------------------
(* The inductive invariant.  LossNoticeExact speaks about what was returned; *)
(* to be preserved it needs the same relation for what is still on its way:  *)
(* the parked delivery, the queued entries and the pending flag.             *)

\* The sample returned, or parked, last.
LastTaken == IF pending_delivery = <<>> THEN PreviousId(Len(log) + 1)
                                        ELSE pending_delivery[1].id

BeforeEntry(i) == IF i = 1 THEN LastTaken ELSE deliveries[i - 1].delivery.id

LastQueued == IF deliveries = <<>> THEN LastTaken
                                   ELSE deliveries[Len(deliveries)].delivery.id

\* Nothing known to either half is newer than the ring's consumer position.
NothingNewer ==
  /\ \A i \in DOMAIN log : log[i].id <= cons_pos
  /\ \A i \in DOMAIN deliveries : deliveries[i].delivery.id <= cons_pos
  /\ \A i \in DOMAIN pending_delivery : pending_delivery[i].id <= cons_pos
  /\ \A k \in omitted : k <= cons_pos

\* A delivery is parked exactly behind its own notice.
ParkedBehindNotice ==
  ReceiverAlive =>
    IF pending_delivery = <<>>
    THEN log # <<>> => log[Len(log)] # Gap
    ELSE /\ log # <<>>
         /\ log[Len(log)] = Gap
         /\ PreviousId(Len(log) + 1) < pending_delivery[1].id
         /\ OmittedBetween(PreviousId(Len(log) + 1), pending_delivery[1].id)

QueuedNoticesExact ==
  ReceiverAlive =>
    \A i \in DOMAIN deliveries :
      /\ BeforeEntry(i) < deliveries[i].delivery.id
      /\ deliveries[i].output_full_before <=>
           OmittedBetween(BeforeEntry(i), deliveries[i].delivery.id)

LastAcceptedIsQueued == ReceiverAlive => last_accepted = LastQueued

\* The flag is no longer read.
Flushed == Ended \cup {"report_panic"}

\* Until then the flag says whether a notice is due.
PendingExact ==
  wpc \notin Flushed =>
    (output_full_pending <=> \E k \in omitted : k > last_accepted)

LossInv ==
  /\ NothingNewer
  /\ ParkedBehindNotice
  /\ QueuedNoticesExact
  /\ LastAcceptedIsQueued
  /\ LossNoticeExact

IInv == TypeOK /\ SampleInHand /\ LossInv /\ PendingExact

-----------------------------------------------------------------------------
(* Exact loss notices.  First the log: how it grows by a delivery and by a   *)
(* notice.                                                                   *)

LEMMA LogTyped ==
  ASSUME DataOK, NEW i \in DOMAIN log
  PROVE  log[i].id \in Nat /\ (log[i] = Gap <=> log[i].id = 0)
<1>1. log[i] \in Delivery \cup {Gap}
  BY DEF DataOK
<1>2. CASE log[i] \in Delivery
  BY <1>2, MaxSamplesAssumption DEF Delivery, SampleIds, Gap
<1>3. CASE log[i] = Gap
  BY <1>3 DEF Gap
<1> QED
  BY <1>1, <1>2, <1>3

LEMMA PreviousIdKept ==
  ASSUME DataOK, NEW x, log' = Append(log, x), NEW i \in 1 .. Len(log) + 1
  PROVE  PreviousId(i)' = PreviousId(i)
<1>1. \A j \in 1 .. Len(log) : log'[j] = log[j]
  BY DEF DataOK
<1>2. Len(log) \in Nat
  BY DEF DataOK
<1>3. \A j \in 0 .. Len(log) : IdAt(j)' = IdAt(j)
  BY <1>1, <1>2 DEF IdAt
<1>4. CASE i > 1
  <2>1. i - 1 \in 1 .. Len(log) /\ i - 2 \in 0 .. Len(log) /\ i - 1 \in 0 .. Len(log)
    BY <1>2, <1>4
  <2> QED
    BY Zenon, <1>1, <1>3, <2>1 DEF PreviousId
<1>5. CASE i = 1
  BY <1>3, <1>5 DEF PreviousId, IdAt
<1> QED
  BY <1>2, <1>4, <1>5

\* A delivery may be returned when it is newer than the one before it and
\* follows a notice exactly if samples were omitted in between.
LEMMA LogDelivery ==
  ASSUME DataOK, LossNoticeExact, NEW n \in Nat, n = Len(log), NEW d \in Delivery,
         log' = Append(log, d), omitted' = omitted,
         PreviousId(n + 1) < d.id,
         (log # <<>> /\ log[n] = Gap) <=> OmittedBetween(PreviousId(n + 1), d.id)
  PROVE  /\ LossNoticeExact'
         /\ PreviousId(n + 1)' = PreviousId(n + 1)
         /\ log' # <<>> /\ log'[n + 1] # Gap
         /\ PreviousId(n + 2)' = d.id
<1>1. /\ Len(log') = n + 1 /\ DOMAIN log' = 1 .. n + 1
      /\ DOMAIN log = 1 .. n /\ log' # <<>>
      /\ log'[n + 1] = d /\ \A j \in 1 .. n : log'[j] = log[j]
      /\ log # <<>> <=> n > 0
  BY DEF DataOK
<1>2. \A i \in 1 .. n + 1 : PreviousId(i)' = PreviousId(i)
  BY PreviousIdKept
<1>3. \A a, b : OmittedBetween(a, b)' <=> OmittedBetween(a, b)
  BY DEF OmittedBetween
<1>4. d # Gap
  BY MaxSamplesAssumption DEF Delivery, SampleIds, Gap
<1>5. ASSUME NEW i \in 1 .. n + 1
      PROVE  (IF log[i] = Gap
              THEN i > 1 => log[i - 1] # Gap
              ELSE /\ PreviousId(i) < log[i].id
                   /\ (i > 1 /\ log[i - 1] = Gap) <=> OmittedBetween(PreviousId(i), log[i].id))'
  <2>1. CASE i = n + 1
    <3>1. i - 1 = n /\ (i > 1 <=> log # <<>>) /\ (i > 1 => log'[n] = log[n])
      BY <1>1, <2>1
    <3> QED
      BY <1>1, <1>2, <1>3, <1>4, <2>1, <3>1
  <2>2. CASE i \in 1 .. n
    <3>1. i > 1 => log'[i - 1] = log[i - 1]
      BY <1>1, <2>2
    <3> QED
      BY <1>1, <1>2, <1>3, <2>2, <3>1 DEF LossNoticeExact
  <2> QED
    BY <1>1, <2>1, <2>2
<1>6. PreviousId(n + 2)' = d.id
  <2>1. IdAt(n + 1)' = d.id
    BY <1>1 DEF IdAt
  <2>2. n + 2 - 1 = n + 1
    BY <1>1
  <2> QED
    BY <1>1, <1>4, <2>1, <2>2 DEF PreviousId
<1>7. LossNoticeExact'
  BY <1>1, <1>5 DEF LossNoticeExact
<1> QED
  BY <1>1, <1>2, <1>4, <1>6, <1>7

\* A notice may be returned unless one was returned just before it.
LEMMA LogNotice ==
  ASSUME DataOK, LossNoticeExact, NEW n \in Nat, n = Len(log), log' = Append(log, Gap), omitted' = omitted,
         log # <<>> => log[n] # Gap
  PROVE  /\ LossNoticeExact'
         /\ log' # <<>> /\ log'[n + 1] = Gap
         /\ PreviousId(n + 2)' = PreviousId(n + 1)
<1>0. log \in Seq(Delivery \cup {Gap})
  BY DEF DataOK
<1>1. /\ Len(log') = n + 1 /\ DOMAIN log' = 1 .. n + 1
      /\ DOMAIN log = 1 .. n /\ log' # <<>>
      /\ log'[n + 1] = Gap /\ \A j \in 1 .. n : log'[j] = log[j]
      /\ log # <<>> <=> n > 0
  BY <1>0
<1>2. \A i \in 1 .. n + 1 : PreviousId(i)' = PreviousId(i)
  BY PreviousIdKept
<1>3. \A a, b : OmittedBetween(a, b)' <=> OmittedBetween(a, b)
  BY DEF OmittedBetween
<1>5. ASSUME NEW i \in 1 .. n + 1
      PROVE  (IF log[i] = Gap
              THEN i > 1 => log[i - 1] # Gap
              ELSE /\ PreviousId(i) < log[i].id
                   /\ (i > 1 /\ log[i - 1] = Gap) <=> OmittedBetween(PreviousId(i), log[i].id))'
  <2>1. CASE i = n + 1
    <3>1. i - 1 = n /\ (i > 1 => log # <<>> /\ log'[n] = log[n])
      BY <1>1, <2>1
    <3> QED
      BY <1>1, <2>1, <3>1
  <2>2. CASE i \in 1 .. n
    <3>1. i > 1 => log'[i - 1] = log[i - 1]
      BY <1>1, <2>2
    <3> QED
      BY <1>1, <1>2, <1>3, <2>2, <3>1 DEF LossNoticeExact
  <2> QED
    BY SMTT(30), <1>1, <2>1, <2>2
<1>6. PreviousId(n + 2)' = PreviousId(n + 1)
  <2>1. IdAt(n)' = IdAt(n)
    BY <1>1 DEF IdAt
  <2>2. /\ n + 2 - 1 = n + 1 /\ n + 2 - 2 = n
        /\ n + 2 > 1 /\ n + 1 - 1 = n
        /\ n + 1 > 1 => log # <<>>
    BY <1>1
  <2> QED
    BY <1>1, <2>1, <2>2 DEF PreviousId
<1>7. LossNoticeExact'
  BY <1>1, <1>5 DEF LossNoticeExact
<1> QED
  BY <1>1, <1>6, <1>7

LEMMA DeliveryTyped == ASSUME NEW d \in Delivery PROVE d.id \in Nat \ {0} /\ d # Gap
  BY MaxSamplesAssumption DEF Delivery, SampleIds, Gap

LEMMA QueueTyped ==
  ASSUME DataOK
  PROVE  /\ \A i \in DOMAIN deliveries : deliveries[i] \in DeliveryEntry
                                          /\ deliveries[i].delivery \in Delivery
         /\ \A i \in DOMAIN deliveries : deliveries[i].delivery.id \in Nat
         /\ \A i \in DOMAIN pending_delivery : pending_delivery[i] \in Delivery
         /\ \A i \in DOMAIN pending_delivery : pending_delivery[i].id \in Nat
         /\ pending_delivery # <<>> => 1 \in DOMAIN pending_delivery
<1>1. \A i \in DOMAIN deliveries : deliveries[i] \in DeliveryEntry
  BY DEF DataOK
<1>2. \A e \in DeliveryEntry : e.delivery \in Delivery
  BY DEF DeliveryEntry
<1>3. \A i \in DOMAIN pending_delivery : pending_delivery[i] \in Delivery
  BY DEF DataOK
<1>4. pending_delivery # <<>> => 1 \in DOMAIN pending_delivery
  BY DEF DataOK
<1> QED
  BY <1>1, <1>2, <1>3, <1>4, DeliveryTyped

loss_vars == <<log, pending_delivery, deliveries, omitted, last_accepted>>

\* Steps that neither deliver nor receive a delivery.
LEMMA LossQuiet ==
  ASSUME DataOK, LossInv, UNCHANGED loss_vars, cons_pos' \in Nat, cons_pos <= cons_pos',
         ReceiverAlive' => ReceiverAlive
  PROVE  LossInv'
<1> USE DEF loss_vars
<1>1. \A i : PreviousId(i)' = PreviousId(i)
  BY Zenon DEF PreviousId, IdAt
<1>2. \A a, b : OmittedBetween(a, b)' <=> OmittedBetween(a, b)
  BY Zenon DEF OmittedBetween
<1>3. LastTaken' = LastTaken
  BY <1>1, Zenon DEF LastTaken
<1>4. LastQueued' = LastQueued /\ \A i : BeforeEntry(i)' = BeforeEntry(i)
  BY <1>3, Zenon DEF LastQueued, BeforeEntry
<1>5. NothingNewer'
  <2>1. /\ \A i \in DOMAIN log : log[i].id \in Nat
        /\ \A k \in omitted : k \in Nat
        /\ cons_pos \in Nat
    BY LogTyped, MaxSamplesAssumption DEF DataOK, SampleIds
  <2>2. /\ \A i \in DOMAIN deliveries : deliveries[i].delivery.id \in Nat
        /\ \A i \in DOMAIN pending_delivery : pending_delivery[i].id \in Nat
    BY QueueTyped
  <2>3. \A x \in Nat : x <= cons_pos => x <= cons_pos'
    BY <2>1
  <2> QED
    BY <2>1, <2>2, <2>3 DEF NothingNewer, LossInv
<1>6. ParkedBehindNotice'
  BY <1>1, <1>2, Zenon DEF ParkedBehindNotice, LossInv
<1>7. QueuedNoticesExact'
  BY <1>2, <1>4, Zenon DEF QueuedNoticesExact, LossInv
<1>8. LastAcceptedIsQueued'
  BY <1>4, Zenon DEF LastAcceptedIsQueued, LossInv
<1>9. LossNoticeExact'
  BY <1>1, <1>2, Zenon DEF LossNoticeExact, LossInv
<1> QED
  BY <1>5, <1>6, <1>7, <1>8, <1>9 DEF LossInv

\* A receive returns the parked delivery.
LEMMA LossParked ==
  ASSUME DataOK, LossInv, ReceiverAlive, pending_delivery # <<>>,
         log' = Append(log, pending_delivery[1]), pending_delivery' = <<>>,
         UNCHANGED <<deliveries, omitted, last_accepted, cons_pos, cpc>>
  PROVE  LossInv'
<1>1. pending_delivery[1] \in Delivery /\ pending_delivery[1].id <= cons_pos
  BY QueueTyped DEF LossInv, NothingNewer
<1> PICK d \in Delivery : d = pending_delivery[1]
  BY <1>1
<1> PICK n \in Nat : n = Len(log)
  BY DEF DataOK
<1>2. /\ PreviousId(n + 1) < d.id
      /\ log # <<>> /\ log[n] = Gap
      /\ OmittedBetween(PreviousId(n + 1), d.id)
  BY DEF LossInv, ParkedBehindNotice
<1>3. d.id \in Nat /\ log' = Append(log, d)
  BY DeliveryTyped
<1>4. /\ LossNoticeExact'
      /\ log' # <<>> /\ log'[n + 1] # Gap
      /\ PreviousId(n + 2)' = d.id
  BY <1>2, <1>3, LogDelivery DEF LossInv
<1>5. Len(log') = n + 1 /\ n + 1 + 1 = n + 2
  BY <1>1, <1>3 DEF DataOK
<1>6. LastTaken' = d.id /\ LastTaken = d.id
  BY <1>4, <1>5 DEF LastTaken
<1>7. LastQueued' = LastQueued /\ \A i : BeforeEntry(i)' = BeforeEntry(i)
  BY <1>6, Zenon DEF LastQueued, BeforeEntry
<1>8. NothingNewer'
  <2>1. \A i \in DOMAIN log' : log'[i] = d \/ (i \in DOMAIN log /\ log'[i] = log[i])
    BY SMTT(30), <1>1, <1>3 DEF DataOK
  <2>2. \A i \in DOMAIN log' : log'[i].id <= cons_pos
    BY ZenonT(30), <1>1, <2>1 DEF LossInv, NothingNewer
  <2> QED
    BY <2>2 DEF LossInv, NothingNewer
<1>9. ParkedBehindNotice'
  BY <1>4, <1>5 DEF ParkedBehindNotice
<1>10. QueuedNoticesExact'
  <2>1. \A a, b : OmittedBetween(a, b)' <=> OmittedBetween(a, b)
    BY Zenon DEF OmittedBetween
  <2> QED
    BY <1>7, <2>1, Zenon DEF QueuedNoticesExact, LossInv, ReceiverAlive
<1>11. LastAcceptedIsQueued'
  BY <1>7, Zenon DEF LastAcceptedIsQueued, LossInv, ReceiverAlive
<1> QED
  BY <1>4, <1>8, <1>9, <1>10, <1>11 DEF LossInv

LEMMA SeqFacts ==
  ASSUME NEW S, NEW seq \in Seq(S)
  PROVE  (seq = <<>> <=> Len(seq) = 0) /\ DOMAIN seq = 1 .. Len(seq)
  OBVIOUS

\* Taking the head of the queue moves its id from the queue to LastTaken, so
\* every entry behind it keeps its predecessor.
LEMMA QueueShift ==
  ASSUME DataOK, deliveries # <<>>, deliveries' = Tail(deliveries),
         LastTaken' = deliveries[1].delivery.id
  PROVE  /\ \A i \in DOMAIN deliveries' :
              /\ i + 1 \in DOMAIN deliveries
              /\ deliveries'[i] = deliveries[i + 1]
              /\ BeforeEntry(i)' = BeforeEntry(i + 1)
         /\ LastQueued' = LastQueued
<1>0. deliveries \in Seq(DeliveryEntry)
  BY DEF DataOK
<1> PICK n \in Nat \ {0} : n = Len(deliveries)
  BY <1>0
<1>4. /\ deliveries' \in Seq(DeliveryEntry) /\ Len(deliveries') = n - 1
      /\ \A i \in 1 .. n - 1 : deliveries'[i] = deliveries[i + 1]
  BY <1>0, TailFacts
<1>1. /\ DOMAIN deliveries = 1 .. n /\ DOMAIN deliveries' = 1 .. n - 1 /\ Len(deliveries') = n - 1
      /\ \A i \in 1 .. n - 1 : deliveries'[i] = deliveries[i + 1]
      /\ deliveries' = <<>> <=> n = 1
  BY <1>0, <1>4, SeqFacts
<1>2. ASSUME NEW i \in 1 .. n - 1 PROVE BeforeEntry(i)' = BeforeEntry(i + 1)
  <2>1. i + 1 # 1 /\ i + 1 - 1 = i /\ (i # 1 => i - 1 \in 1 .. n - 1 /\ i - 1 + 1 = i)
    OBVIOUS
  <2> QED
    BY <1>1, <2>1 DEF BeforeEntry
<1>3. LastQueued' = LastQueued
  <2>1. CASE n = 1
    BY <1>1, <2>1 DEF LastQueued
  <2>2. CASE n # 1
    <3>1. n - 1 \in 1 .. n - 1 /\ n - 1 + 1 = n
      BY <2>2
    <3> QED
      BY <1>1, <2>2, <3>1 DEF LastQueued
  <2> QED
    BY <2>1, <2>2
<1> QED
  BY <1>1, <1>2, <1>3

\* A receive takes an entry from the queue (Collector::unpair).
LEMMA LossEntry ==
  ASSUME DataOK, LossInv, ReceiverAlive, pending_delivery = <<>>, deliveries # <<>>,
         deliveries' = Tail(deliveries), Unpair(Head(deliveries)),
         UNCHANGED <<omitted, last_accepted, cons_pos, cpc>>
  PROVE  LossInv'
<1>0. /\ 1 \in DOMAIN deliveries /\ Head(deliveries) = deliveries[1]
      /\ deliveries[1] \in DeliveryEntry /\ deliveries[1].delivery \in Delivery
  BY QueueTyped DEF DataOK
<1> PICK d \in Delivery : d = deliveries[1].delivery
  BY <1>0
<1> PICK n \in Nat : n = Len(log)
  BY DEF DataOK
<1>1. d.id \in Nat /\ d # Gap /\ d.id <= cons_pos
  BY <1>0, DeliveryTyped DEF LossInv, NothingNewer
<1>2. BeforeEntry(1) = PreviousId(n + 1) /\ (log # <<>> => log[n] # Gap)
  BY DEF BeforeEntry, LastTaken, LossInv, ParkedBehindNotice
<1>3. /\ PreviousId(n + 1) < d.id
      /\ deliveries[1].output_full_before <=> OmittedBetween(PreviousId(n + 1), d.id)
  BY <1>0, <1>2, Zenon DEF LossInv, QueuedNoticesExact
<1>4. \A a, b : OmittedBetween(a, b)' <=> OmittedBetween(a, b)
  BY Zenon DEF OmittedBetween
<1>5. /\ LossNoticeExact'
      /\ LastTaken' = d.id
      /\ ParkedBehindNotice'
      /\ \A i \in DOMAIN log' : log'[i].id <= cons_pos
      /\ \A i \in DOMAIN pending_delivery' : pending_delivery'[i].id <= cons_pos
  <2>1. CASE deliveries[1].output_full_before
    <3>1. pending_delivery' = <<d>> /\ log' = Append(log, Gap)
      BY <1>0, <2>1 DEF Unpair
    <3>2. /\ LossNoticeExact'
          /\ log' # <<>> /\ log'[n + 1] = Gap
          /\ PreviousId(n + 2)' = PreviousId(n + 1)
      BY <1>2, <3>1, LogNotice DEF LossInv
    <3>3. log \in Seq(Delivery \cup {Gap})
      BY DEF DataOK
    <3>4. /\ Len(log') = n + 1 /\ n + 1 + 1 = n + 2
          /\ \A i \in DOMAIN log' : log'[i] = Gap \/ (i \in DOMAIN log /\ log'[i] = log[i])
      BY <3>1, <3>3
    <3>5. Gap.id = 0 /\ cons_pos \in Nat
      BY DEF Gap, DataOK
    <3>6. \A i \in DOMAIN log' : log'[i].id <= cons_pos
      BY <3>4, <3>5 DEF LossInv, NothingNewer
    <3>7. /\ pending_delivery' # <<>> /\ pending_delivery'[1] = d
          /\ \A i \in DOMAIN pending_delivery' : pending_delivery'[i] = d
      BY <3>1
    <3>8. LastTaken' = d.id
      BY <3>7 DEF LastTaken
    <3>9. ParkedBehindNotice'
      BY <1>3, <1>4, <2>1, <3>2, <3>4, <3>7, Zenon DEF ParkedBehindNotice
    <3> QED
      BY ZenonT(30), <1>1, <3>2, <3>6, <3>7, <3>8, <3>9
  <2>2. CASE ~deliveries[1].output_full_before
    <3>1. pending_delivery' = <<>> /\ log' = Append(log, d)
      BY <1>0, <2>2 DEF Unpair
    <3>2. /\ LossNoticeExact'
          /\ log' # <<>> /\ log'[n + 1] # Gap
          /\ PreviousId(n + 2)' = d.id
      BY ZenonT(30), <1>2, <1>3, <2>2, <3>1, LogDelivery DEF LossInv
    <3>4. /\ Len(log') = n + 1 /\ n + 1 + 1 = n + 2
          /\ \A i \in DOMAIN log' : log'[i] = d \/ (i \in DOMAIN log /\ log'[i] = log[i])
      BY <3>1 DEF DataOK
    <3>6. \A i \in DOMAIN log' : log'[i].id <= cons_pos
      BY <1>1, <3>4 DEF LossInv, NothingNewer
    <3>8. LastTaken' = d.id /\ ParkedBehindNotice'
      BY <3>1, <3>2, <3>4 DEF LastTaken, ParkedBehindNotice
    <3> QED
      BY <3>1, <3>2, <3>6, <3>8
  <2> QED
    BY <2>1, <2>2
<1>6. /\ \A i \in DOMAIN deliveries' :
           /\ i + 1 \in DOMAIN deliveries
           /\ deliveries'[i] = deliveries[i + 1]
           /\ BeforeEntry(i)' = BeforeEntry(i + 1)
      /\ LastQueued' = LastQueued
  BY <1>5, QueueShift
<1>7. NothingNewer'
  BY <1>5, <1>6, Zenon DEF LossInv, NothingNewer
<1>8. QueuedNoticesExact'
  BY <1>4, <1>6, Zenon DEF LossInv, QueuedNoticesExact
<1>9. LastAcceptedIsQueued'
  BY <1>6, Zenon DEF LossInv, LastAcceptedIsQueued
<1> QED
  BY <1>5, <1>7, <1>8, <1>9 DEF LossInv

\* The queue accepts a sample: its entry carries the pending flag, and no
\* omitted sample is newer than it.
LEMMA LossAccepted ==
  ASSUME DataOK, LossInv, ReceiverAlive, NEW id \in SampleIds, id = cons_pos + 1,
         NEW e \in DeliveryEntry, e.delivery.id = id,
         e.output_full_before <=> \E k \in omitted : k > last_accepted,
         deliveries' = Append(deliveries, e), last_accepted' = id, cons_pos' = id,
         UNCHANGED <<log, pending_delivery, omitted, cpc>>
  PROVE  LossInv'
<1>0. deliveries \in Seq(DeliveryEntry) /\ cons_pos \in Nat /\ id \in Nat /\ last_accepted <= cons_pos
      /\ last_accepted \in Nat
  BY MaxSamplesAssumption DEF DataOK, SampleIds
<1> PICK n \in Nat : n = Len(deliveries)
  BY <1>0
<1>1. /\ deliveries' \in Seq(DeliveryEntry) /\ Len(deliveries') = n + 1
      /\ \A i \in 1 .. n : deliveries'[i] = deliveries[i]
      /\ deliveries'[n + 1] = e
  BY SMTT(30), <1>0, AppendFacts
<1>2. /\ DOMAIN deliveries = 1 .. n /\ DOMAIN deliveries' = 1 .. n + 1
      /\ deliveries' # <<>> /\ (deliveries = <<>> <=> n = 0)
  BY <1>0, <1>1, SeqFacts
<1>3. \A i : PreviousId(i)' = PreviousId(i)
  BY Zenon DEF PreviousId, IdAt
<1>4. \A a, b : OmittedBetween(a, b)' <=> OmittedBetween(a, b)
  BY Zenon DEF OmittedBetween
<1>5. LastTaken' = LastTaken
  BY <1>3, Zenon DEF LastTaken
<1>6. \A i \in 1 .. n : BeforeEntry(i)' = BeforeEntry(i)
  <2>1. \A i \in 1 .. n : i # 1 => i - 1 \in 1 .. n
    OBVIOUS
  <2> QED
    BY <1>1, <1>5, <2>1 DEF BeforeEntry
<1>7. BeforeEntry(n + 1)' = last_accepted
  <2>1. last_accepted = LastQueued
    BY DEF LossInv, LastAcceptedIsQueued
  <2>2. CASE n = 0
    BY <1>2, <1>5, <2>1, <2>2 DEF BeforeEntry, LastQueued
  <2>3. CASE n # 0
    <3>1. n + 1 # 1 /\ n + 1 - 1 = n /\ n \in 1 .. n
      BY <2>3
    <3> QED
      BY <1>1, <1>2, <2>1, <2>3, <3>1 DEF BeforeEntry, LastQueued
  <2> QED
    BY <2>2, <2>3
<1>8. e.output_full_before <=> OmittedBetween(last_accepted, id)
  <2>1. \A k \in omitted : k \in Nat /\ k <= cons_pos
    BY MaxSamplesAssumption DEF DataOK, LossInv, NothingNewer, SampleIds
  <2>2. \A k \in omitted : (k > last_accepted <=> last_accepted < k) /\ k < id
    BY <1>0, <2>1
  <2> QED
    BY <2>2, Zenon DEF OmittedBetween
<1>9. QueuedNoticesExact'
  <2>1. ASSUME NEW i \in 1 .. n + 1
        PROVE  (/\ BeforeEntry(i) < deliveries[i].delivery.id
                /\ deliveries[i].output_full_before <=>
                     OmittedBetween(BeforeEntry(i), deliveries[i].delivery.id))'
    <3>1. CASE i = n + 1
      <4>1. last_accepted < id
        BY <1>0
      <4> QED
        BY <1>1, <1>4, <1>7, <1>8, <3>1, <4>1, Zenon
    <3>2. CASE i \in 1 .. n
      BY <1>1, <1>2, <1>4, <1>6, <3>2, Zenon DEF LossInv, QueuedNoticesExact
    <3> QED
      BY <3>1, <3>2
  <2> QED
    BY <1>2, <2>1, Zenon DEF QueuedNoticesExact
<1>10. LastAcceptedIsQueued'
  BY <1>1, <1>2 DEF LastAcceptedIsQueued, LastQueued
<1>11. NothingNewer'
  <2>1. /\ \A i \in DOMAIN log : log[i].id \in Nat
        /\ \A k \in omitted : k \in Nat
        /\ \A i \in DOMAIN deliveries : deliveries[i].delivery.id \in Nat
        /\ \A i \in DOMAIN pending_delivery : pending_delivery[i].id \in Nat
    BY SMTT(30), LogTyped, QueueTyped, MaxSamplesAssumption DEF DataOK, SampleIds
  <2>2. \A x \in Nat : x <= cons_pos => x <= cons_pos'
    BY <1>0
  <2>3. \A i \in DOMAIN deliveries' : deliveries'[i].delivery.id <= cons_pos'
    <3>1. \A i \in DOMAIN deliveries' : i \in 1 .. n \/ i = n + 1
      BY SMTT(30), <1>2
    <3> QED
      BY SMTT(30), <1>0, <1>1, <1>2, <2>1, <2>2, <3>1 DEF LossInv, NothingNewer
  <2> QED
    BY <2>1, <2>2, <2>3 DEF LossInv, NothingNewer
<1>12. ParkedBehindNotice'
  BY <1>3, <1>4, Zenon DEF ParkedBehindNotice, LossInv
<1>13. LossNoticeExact'
  BY <1>3, <1>4, Zenon DEF LossNoticeExact, LossInv
<1> QED
  BY <1>9, <1>10, <1>11, <1>12, <1>13 DEF LossInv

\* The full queue omits a sample, newer than all that either half knows.
LEMMA LossOmitted ==
  ASSUME DataOK, LossInv, NEW id \in SampleIds, id = cons_pos + 1,
         omitted' = omitted \cup {id}, cons_pos' = id,
         UNCHANGED <<log, pending_delivery, deliveries, last_accepted, cpc>>
  PROVE  LossInv'
<1>0. cons_pos \in Nat /\ id \in Nat
  BY MaxSamplesAssumption DEF DataOK, SampleIds
<1>1. \A i : PreviousId(i)' = PreviousId(i)
  BY Zenon DEF PreviousId, IdAt
<1>2. ASSUME NEW b \in Nat, b <= cons_pos
      PROVE  \A a : OmittedBetween(a, b)' <=> OmittedBetween(a, b)
  <2>1. ~(id < b)
    BY <1>0, <1>2
  <2> QED
    BY <2>1, Zenon DEF OmittedBetween
<1>3. LastTaken' = LastTaken
  BY <1>1, Zenon DEF LastTaken
<1>4. LastQueued' = LastQueued /\ \A i : BeforeEntry(i)' = BeforeEntry(i)
  BY <1>3, Zenon DEF LastQueued, BeforeEntry
<1>5. /\ \A i \in DOMAIN log : log[i].id \in Nat
      /\ \A k \in omitted : k \in Nat
      /\ \A i \in DOMAIN deliveries : deliveries[i].delivery.id \in Nat
      /\ \A i \in DOMAIN pending_delivery : pending_delivery[i].id \in Nat
      /\ pending_delivery # <<>> => 1 \in DOMAIN pending_delivery
  BY SMTT(30), LogTyped, QueueTyped, MaxSamplesAssumption DEF DataOK, SampleIds
<1>6. NothingNewer'
  <2>1. \A x \in Nat : x <= cons_pos => x <= cons_pos'
    BY <1>0
  <2>2. id <= cons_pos'
    BY <1>0
  <2> QED
    BY <1>5, <2>1, <2>2 DEF LossInv, NothingNewer
<1>7. ParkedBehindNotice'
  BY <1>1, <1>2, <1>5, Zenon DEF ParkedBehindNotice, NothingNewer, LossInv, ReceiverAlive
<1>8. QueuedNoticesExact'
  BY <1>2, <1>4, <1>5, Zenon DEF QueuedNoticesExact, NothingNewer, LossInv, ReceiverAlive
<1>9. LastAcceptedIsQueued'
  BY <1>4, Zenon DEF LastAcceptedIsQueued, LossInv, ReceiverAlive
<1>10. LossNoticeExact'
  BY <1>1, <1>2, <1>5, Zenon DEF LossNoticeExact, NothingNewer, LossInv
<1> QED
  BY <1>6, <1>7, <1>8, <1>9, <1>10 DEF LossInv

\* Nothing of the loss accounting moves, but for the flag once it is no
\* longer needed.
Quiet ==
  /\ UNCHANGED loss_vars
  /\ cons_pos <= cons_pos'
  /\ cpc' = "dropped" \/ cpc # "dropped"
  /\ wpc' \in Flushed \/ (wpc \notin Flushed /\ output_full_pending' = output_full_pending)

LEMMA PendingKept ==
  ASSUME PendingExact, UNCHANGED <<omitted, last_accepted, output_full_pending, wpc>>
  PROVE  PendingExact'
  BY Zenon DEF PendingExact

LEMMA QuietStep == IInv /\ DataOK' /\ Quiet => LossInv' /\ PendingExact'
<1> SUFFICES ASSUME IInv, DataOK', Quiet PROVE LossInv' /\ PendingExact'
  OBVIOUS
<1>1. cons_pos' \in Nat
  BY DEF DataOK
<1>2. LossInv'
  BY <1>1, LossQuiet DEF IInv, TypeOK, Quiet, ReceiverAlive
<1>3. PendingExact'
  <2>1. CASE wpc' \in Flushed
    BY <2>1 DEF PendingExact, Flushed, Ended
  <2>2. CASE wpc \notin Flushed /\ output_full_pending' = output_full_pending
    BY <2>2, Zenon DEF IInv, PendingExact, Quiet, loss_vars
  <2> QED
    BY <2>1, <2>2 DEF Quiet
<1> QED
  BY <1>2, <1>3

LEMMA LossStep == IInv /\ [Next]_vars => LossInv' /\ PendingExact'
<1> SUFFICES ASSUME IInv, [Next]_vars PROVE LossInv' /\ PendingExact'
  OBVIOUS
<1>0. DataOK'
  BY TypeStep DEF IInv, TypeOK
<1> SUFFICES ASSUME ~Quiet PROVE LossInv' /\ PendingExact'
  BY <1>0, QuietStep
<1> USE DEF IInv, TypeOK, ring_vars, channel_vars, worker_vars, consumer_vars, history_vars,
        consumer_rest, loss_vars, Quiet, Ended, Flushed, ReceiverAlive
<1>a. cons_pos \in Nat /\ cons_pos <= cons_pos
  BY DEF DataOK
<1>1. CASE SubmitSample
  BY <1>1, <1>a DEF SubmitSample
<1>2. CASE Run
  BY <1>2, <1>a DEF Run
<1>3. CASE AbandonWorker
  BY <1>3, <1>a DEF AbandonWorker
<1>4. CASE CheckRunning
  BY <1>4, <1>a DEF CheckRunning
<1>5. ASSUME NEW err \in BOOLEAN, PollReturns(err) PROVE LossInv' /\ PendingExact'
  BY <1>5, <1>a DEF PollReturns
<1>6. CASE PollPanics
  BY <1>6, <1>a DEF PollPanics
<1>7. CASE EnterCallback
  BY <1>7 DEF EnterCallback, DataOK
<1>8. ASSUME NEW kind \in {"Event", "MalformedSample"}, Deliver(kind) PROVE LossInv' /\ PendingExact'
  <2> PICK id \in SampleIds : id = cons_pos + 1
    BY SMTT(30), <1>8, MaxSamplesAssumption DEF Deliver, SampleInHand, DataOK, SampleIds
  <2> DEFINE e == [delivery |-> [id |-> id, kind |-> kind],
                   output_full_before |-> output_full_pending]
  <2>1. CASE ReceiverAlive /\ QueueHasRoom
    <3>1. /\ deliveries' = Append(deliveries, e) /\ cons_pos' = id /\ last_accepted' = id
          /\ UNCHANGED <<log, pending_delivery, omitted, cpc>>
      BY ZenonT(30), <1>8, <2>1 DEF Deliver
    <3>2. e \in DeliveryEntry /\ e.delivery.id = id
      BY <1>8 DEF DeliveryEntry, Delivery, FlagsOK
    <3>3. e.output_full_before <=> \E k \in omitted : k > last_accepted
      BY ZenonT(30), <1>8 DEF Deliver, PendingExact
    <3> HIDE DEF e
    <3>4. LossInv'
      BY ZenonT(30), <2>1, <3>1, <3>2, <3>3, LossAccepted
    <3>5. output_full_pending' = FALSE
      BY ZenonT(30), <1>8, <2>1 DEF Deliver
    <3>6. ~ \E k \in omitted : k > id
      <4>1. \A k \in omitted : k <= cons_pos
        BY DEF LossInv, NothingNewer
      <4>2. omitted \subseteq SampleIds /\ cons_pos \in Nat
        BY DEF DataOK
      <4>3. \A k \in omitted : k \in Nat
        BY <4>2, MaxSamplesAssumption DEF SampleIds
      <4> QED
        BY <4>1, <4>2, <4>3
    <3> QED
      BY <3>1, <3>4, <3>5, <3>6 DEF PendingExact
  <2>2. CASE ReceiverAlive /\ ~QueueHasRoom
    <3>1. /\ omitted' = omitted \cup {id} /\ cons_pos' = id /\ output_full_pending' = TRUE
          /\ UNCHANGED <<log, pending_delivery, deliveries, last_accepted, cpc>>
      BY ZenonT(30), <1>8, <2>2 DEF Deliver
    <3>2. id > last_accepted
      BY DEF DataOK
    <3> QED
      BY <3>1, <3>2, LossOmitted DEF PendingExact
  <2>3. CASE ~ReceiverAlive
    BY SMTT(30), <1>8, <2>3 DEF Deliver, DataOK
  <2> QED
    BY <2>1, <2>2, <2>3
<1>9. CASE CallbackPanics
  BY <1>9 DEF CallbackPanics, DataOK
<1>10. CASE ReportCallbackPanic
  BY <1>10, <1>a DEF ReportCallbackPanic
<1>11. CASE SendCallbackPanic
  BY <1>11, <1>a DEF SendCallbackPanic
<1>12. CASE InspectPollResult
  BY <1>12, <1>a DEF InspectPollResult
<1>13. CASE SendPendingNotice
  BY <1>13, <1>a DEF SendPendingNotice
<1>14. CASE SendPollFailure
  BY <1>14, <1>a DEF SendPollFailure
<1>15. ASSUME NEW panic \in BOOLEAN, DropResources(panic) PROVE LossInv' /\ PendingExact'
  BY <1>15, <1>a DEF DropResources
<1>16. CASE DropDeliveries
  BY <1>16, <1>a DEF DropDeliveries
<1>17. CASE ReportUnwind
  BY <1>17, <1>a DEF ReportUnwind
<1>18. CASE DropTerminal
  BY <1>18, <1>a DEF DropTerminal
<1>19. CASE AbandonResources
  BY <1>19, <1>a DEF AbandonResources
<1>20. CASE TryRecv
  <2> USE DEF ReadDeliveries
  <2>1. CASE pending_delivery # <<>>
    BY ZenonT(30), <1>20, <2>1, LossParked, PendingKept DEF TryRecv
  <2>2. CASE pending_delivery = <<>> /\ deliveries # <<>>
    BY <1>20, <2>2, LossEntry, PendingKept DEF TryRecv
  <2>3. CASE pending_delivery = <<>> /\ deliveries = <<>>
    BY <1>a, <1>20, <2>3 DEF TryRecv
  <2> QED
    BY <2>1, <2>2, <2>3
<1>21. CASE RecvTimeout
  <2> USE DEF ReadDeliveries
  <2>1. CASE pending_delivery # <<>>
    BY ZenonT(30), <1>21, <2>1, LossParked, PendingKept DEF RecvTimeout
  <2>2. CASE pending_delivery = <<>> /\ deliveries # <<>>
    BY ZenonT(30), <1>21, <2>2, LossEntry, PendingKept DEF RecvTimeout
  <2>3. CASE pending_delivery = <<>> /\ deliveries = <<>>
    BY <1>a, <1>21, <2>3 DEF RecvTimeout
  <2> QED
    BY <2>1, <2>2, <2>3
<1>22. CASE TerminalNow
  BY <1>22, <1>a DEF TerminalNow, ReadTerminal
<1>23. CASE TerminalOrStop
  BY <1>23, <1>a DEF TerminalOrStop, ReadTerminal
<1>24. CASE TerminalUntil
  BY ZenonT(30), <1>24, <1>a DEF TerminalUntil, ReadTerminal
<1>25. CASE DropCollector
  BY <1>25, <1>a DEF DropCollector
<1>26. CASE DropReceivers
  <2>1. /\ ~ReceiverAlive' /\ UNCHANGED <<log, omitted, last_accepted, cons_pos>>
        /\ deliveries' = <<>> /\ pending_delivery' = <<>>
    BY <1>26 DEF DropReceivers
  <2>2. LossNoticeExact'
    BY <2>1, Zenon DEF LossInv, LossNoticeExact, PreviousId, IdAt, OmittedBetween
  <2>3. NothingNewer'
    BY SMTT(30), <2>1 DEF LossInv, NothingNewer
  <2>4. PendingExact'
    BY <1>26, PendingKept DEF DropReceivers
  <2> QED
    BY ZenonT(30), <2>1, <2>2, <2>3, <2>4 DEF LossInv, ParkedBehindNotice, QueuedNoticesExact,
       LastAcceptedIsQueued
<1>27. CASE UNCHANGED vars
  BY <1>27, <1>a DEF vars
<1> QED
  BY ZenonT(30), <1>1, <1>2, <1>3, <1>4, <1>5, <1>6, <1>7, <1>8, <1>9, <1>10, <1>11, <1>12, <1>13, <1>14,
     <1>15, <1>16, <1>17, <1>18, <1>19, <1>20, <1>21, <1>22, <1>23, <1>24, <1>25, <1>26, <1>27
  DEF Next, WorkerStep, ReceiveStep, Finished

LEMMA LossInit == Init => LossInv /\ PendingExact
<1> SUFFICES ASSUME Init PROVE LossInv /\ PendingExact
  OBVIOUS
<1> USE DEF Init
<1>1. NothingNewer /\ LossNoticeExact
  BY SMTT(30) DEF NothingNewer, LossNoticeExact
<1>2. ParkedBehindNotice /\ QueuedNoticesExact
  BY DEF ParkedBehindNotice, QueuedNoticesExact
<1>3. LastAcceptedIsQueued
  BY DEF LastAcceptedIsQueued, LastQueued, LastTaken, PreviousId, IdAt
<1>4. PendingExact
  BY DEF PendingExact
<1> QED
  BY <1>1, <1>2, <1>3, <1>4 DEF LossInv

LEMMA IInvAlways == Spec => []IInv
<1>1. Init => IInv
  BY TypeInit, LossInit DEF IInv
<1>2. IInv /\ [Next]_vars => IInv'
  BY TypeStep, LossStep DEF IInv
<1> QED
  BY <1>1, <1>2, PTL DEF Spec

\* For every capacity of the queue and of the ring, receives return
\* deliveries in ring order, with OutputQueueFull before a delivery exactly
\* when the full queue omitted samples right before it (deliver, unpair).
THEOREM LossNoticesExact == Spec => []LossNoticeExact
<1>1. IInv => LossNoticeExact
  BY DEF IInv, LossInv
<1> QED
  BY <1>1, IInvAlways, PTL

-----------------------------------------------------------------------------
(* The delivery path implements LossyStream.  Typing is all that is needed:  *)
(* the refinement mapping turns every step of a thread into a step of the    *)
(* stream or none.                                                           *)

LEMMA SequenceFacts ==
  ASSUME NEW S, NEW p \in Seq(S), NEW d \in Seq(S), NEW x \in S
  PROVE  /\ p \o Append(d, x) = Append(p \o d, x)
         /\ <<>> \o d = d
         /\ Len(p \o d) = Len(p) + Len(d)
         /\ <<x>> \o d # <<>> /\ Head(<<x>> \o d) = x /\ Tail(<<x>> \o d) = d
         /\ Len(<<>>) = 0 /\ Len(<<x>>) = 1
  OBVIOUS

LEMMA ParkedTyped ==
  ASSUME DataOK
  PROVE  Parked \in Seq(DeliveryEntry) /\ Len(Parked) \in 0 .. 1
<1>1. CASE pending_delivery = <<>>
  BY <1>1 DEF Parked
<1>2. CASE pending_delivery # <<>>
  <2>1. pending_delivery[1] \in Delivery
    BY <1>2, QueueTyped
  <2> DEFINE e == [delivery |-> pending_delivery[1], output_full_before |-> FALSE]
  <2>2. e \in DeliveryEntry
    BY <2>1 DEF DeliveryEntry
  <2>3. Parked = <<e>>
    BY ZenonT(30), <1>2 DEF Parked
  <2> HIDE DEF e
  <2> QED
    BY <2>2, <2>3
<1> QED
  BY <1>1, <1>2

\* Steps that move neither a delivery nor the flag at most end the stream.
LEMMA StreamQuiet ==
  ASSUME UNCHANGED <<cons_pos, deliveries, pending_delivery, output_full_pending, log, cpc>>,
         WorkerEnded => WorkerEnded'
  PROVE  [Stream!Next]_(Stream!vars)
<1>1. UNCHANGED <<Parked \o deliveries, ReceiverAlive>>
  BY Zenon DEF Parked, ReceiverAlive
<1>2. CASE WorkerEnded <=> WorkerEnded'
  <2>1. WorkerEnded' = WorkerEnded
    BY <1>2 DEF WorkerEnded
  <2> QED
    BY <1>1, <2>1 DEF Stream!vars
<1>3. CASE ~WorkerEnded /\ WorkerEnded'
  <2>1. WorkerEnded' = TRUE
    BY <1>3 DEF WorkerEnded
  <2> QED
    BY <1>1, <1>3, <2>1 DEF Stream!Next, Stream!End
<1> QED
  BY <1>2, <1>3

\* A sample that the full or open queue takes, or that ends the worker.
LEMMA StreamDeliver ==
  ASSUME TypeOK, SampleInHand, NEW kind \in {"Event", "MalformedSample"}, Deliver(kind)
  PROVE  [Stream!Next]_(Stream!vars)
<1> DEFINE id == cons_pos + 1
           d == [id |-> id, kind |-> kind]
           e == [delivery |-> d, output_full_before |-> output_full_pending]
           s == Parked \o deliveries
<1>1. d \in Delivery /\ d.id = id
  BY SMTT(30), MaxSamplesAssumption DEF Deliver, SampleInHand, TypeOK, DataOK, SampleIds, Delivery
<1>2. e \in DeliveryEntry
  BY <1>1 DEF DeliveryEntry, TypeOK, FlagsOK
<1>3. wpc = "deliver" /\ cons_pos' = id /\ ~WorkerEnded
  BY ZenonT(30) DEF Deliver, WorkerEnded
<1>4. /\ Parked \in Seq(DeliveryEntry) /\ deliveries \in Seq(DeliveryEntry)
      /\ Len(Parked) \in 0 .. 1 /\ Len(deliveries) \in Nat /\ EventCapacity \in Nat
      /\ Len(s) = Len(Parked) + Len(deliveries)
  BY ParkedTyped, SequenceFacts, EventCapacityAssumption DEF TypeOK, DataOK
<1>5. UNCHANGED <<Parked, log, cpc, ReceiverAlive>>
  BY ZenonT(30) DEF Deliver, consumer_vars, Parked, ReceiverAlive
<1>6. CASE ReceiverAlive /\ QueueHasRoom
  <2>1. /\ deliveries' = Append(deliveries, e) /\ output_full_pending' = FALSE /\ wpc' = "poll"
    BY ZenonT(30), <1>6 DEF Deliver
  <2> HIDE DEF e, d, id
  <2>2. s' = Append(s, e)
    BY <1>2, <1>4, <1>5, <2>1, SequenceFacts
  <2>3. Len(s) <= EventCapacity
    <3>1. \A a \in 0 .. 1, b, c \in Nat : b < c => a + b <= c
      OBVIOUS
    <3> HIDE DEF s
    <3> QED
      BY ZenonT(30), <1>4, <1>6, <3>1 DEF QueueHasRoom
  <2>4. WorkerEnded' = FALSE /\ WorkerEnded = FALSE
    BY <1>3, <2>1 DEF WorkerEnded
  <2> HIDE DEF s
  <2>5. Stream!Accept(d)
    BY ZenonT(30), <1>1, <1>3, <1>5, <1>6, <2>1, <2>2, <2>3, <2>4 DEF Stream!Accept, s, e, id
  <2> QED
    BY <1>1, <2>5 DEF Stream!Next
<1>7. CASE ReceiverAlive /\ ~QueueHasRoom
  <2>1. deliveries' = deliveries /\ output_full_pending' = TRUE /\ wpc' = "poll"
    BY ZenonT(30), <1>7 DEF Deliver
  <2>2. s' = s
    BY <1>5, <2>1
  <2>3. Len(s) >= EventCapacity
    BY <1>4, <1>7 DEF QueueHasRoom
  <2>4. WorkerEnded' = FALSE /\ WorkerEnded = FALSE
    BY <1>3, <2>1 DEF WorkerEnded
  <2>5. Stream!Omit
    BY ZenonT(30), <1>3, <1>5, <1>7, <2>1, <2>2, <2>3, <2>4 DEF Stream!Omit
  <2> QED
    BY <2>5 DEF Stream!Next
<1>8. CASE ~ReceiverAlive
  <2>1. /\ deliveries' = deliveries /\ output_full_pending' = output_full_pending
        /\ WorkerEnded' = TRUE
    BY Zenon, <1>8 DEF Deliver, WorkerEnded
  <2>2. Stream!End
    BY <1>3, <1>5, <2>1 DEF Stream!End
  <2> QED
    BY <2>2 DEF Stream!Next
<1> QED
  BY <1>6, <1>7, <1>8

\* A receive returns the parked delivery, or takes the next entry apart.
LEMMA StreamReceive ==
  ASSUME TypeOK, NEW onDisconnected, ReadDeliveries(onDisconnected),
         cpc' # "dropped"
  PROVE  [Stream!Next]_(Stream!vars)
<1> DEFINE s == Parked \o deliveries
<1>0. deliveries \in Seq(DeliveryEntry)
  BY DEF TypeOK, DataOK
<1>1. /\ UNCHANGED <<cons_pos, output_full_pending, wpc, callback_panic, poll_err, running>>
      /\ ReceiverAlive = TRUE /\ ReceiverAlive' = TRUE
  BY DEF ReadDeliveries, consumer_rest, worker_vars, ReceiverAlive
<1>2. WorkerEnded' = WorkerEnded
  BY <1>1, Zenon DEF WorkerEnded
<1>3. CASE pending_delivery # <<>>
  <2> DEFINE e == [delivery |-> pending_delivery[1], output_full_before |-> FALSE]
  <2>1. /\ log' = Append(log, pending_delivery[1]) /\ pending_delivery' = <<>>
        /\ deliveries' = deliveries
    BY <1>3 DEF ReadDeliveries
  <2>2. Parked = <<e>> /\ Parked' = <<>>
    BY ZenonT(30), <1>3, <2>1 DEF Parked
  <2>3. e \in DeliveryEntry
    BY Zenon, <1>3, QueueTyped DEF DeliveryEntry, TypeOK
  <2>4. e.delivery = pending_delivery[1] /\ ~e.output_full_before
    OBVIOUS
  <2> HIDE DEF e
  <2>5. s # <<>> /\ Head(s) = e /\ Tail(s) = deliveries /\ s' = deliveries
    BY <1>0, <2>1, <2>2, <2>3, SequenceFacts
  <2>6. Stream!ReturnDelivery
    BY <1>1, <1>2, <2>1, <2>4, <2>5 DEF Stream!ReturnDelivery
  <2> QED
    BY <2>6 DEF Stream!Next
<1>4. CASE pending_delivery = <<>> /\ deliveries # <<>>
  <2> DEFINE e == Head(deliveries)
  <2>1. deliveries' = Tail(deliveries) /\ Unpair(e)
    BY <1>4 DEF ReadDeliveries
  <2>2. e \in DeliveryEntry /\ Tail(deliveries) \in Seq(DeliveryEntry)
    BY <1>0, <1>4, TailFacts
  <2>3. Parked = <<>> /\ s = deliveries
    BY <1>0, <1>4, SequenceFacts, <2>2 DEF Parked
  <2> HIDE DEF e
  <2>4. CASE e.output_full_before
    <3>1. pending_delivery' = <<e.delivery>> /\ log' = Append(log, Gap)
      BY <2>1, <2>4 DEF Unpair
    <3>2. Parked' = <<[delivery |-> e.delivery, output_full_before |-> FALSE]>>
      BY <3>1 DEF Parked
    <3>3. Stream!ReturnNotice
      BY <1>1, <1>2, <1>4, <2>1, <2>3, <2>4, <3>1, <3>2 DEF Stream!ReturnNotice, e
    <3> QED
      BY <3>3 DEF Stream!Next
  <2>5. CASE ~e.output_full_before
    <3>1. pending_delivery' = pending_delivery /\ log' = Append(log, e.delivery)
      BY <2>1, <2>5 DEF Unpair
    <3>2. Parked' = <<>>
      BY <1>4, <3>1 DEF Parked
    <3>3. s' = Tail(deliveries)
      BY <2>1, <2>2, <3>2, SequenceFacts
    <3>4. Stream!ReturnDelivery
      BY <1>1, <1>2, <1>4, <2>1, <2>3, <2>5, <3>1, <3>3 DEF Stream!ReturnDelivery, e
    <3> QED
      BY <3>4 DEF Stream!Next
  <2> QED
    BY <2>4, <2>5
<1>5. CASE pending_delivery = <<>> /\ deliveries = <<>>
  <2>1. UNCHANGED <<deliveries, pending_delivery, log>>
    BY <1>5 DEF ReadDeliveries
  <2>2. Parked' = Parked
    BY <2>1, Zenon DEF Parked
  <2> QED
    BY <1>1, <1>2, <2>1, <2>2 DEF Stream!vars
<1> QED
  BY <1>3, <1>4, <1>5

\* Every step of a thread is a step of the stream, or none.
LEMMA StreamStep == TypeOK /\ SampleInHand /\ [Next]_vars => [Stream!Next]_(Stream!vars)
<1> SUFFICES ASSUME TypeOK, SampleInHand, [Next]_vars PROVE [Stream!Next]_(Stream!vars)
  OBVIOUS
<1> DEFINE Still == /\ UNCHANGED <<cons_pos, deliveries, pending_delivery, output_full_pending,
                                   log, cpc>>
                    /\ WorkerEnded => WorkerEnded'
<1> USE DEF ring_vars, channel_vars, worker_vars, consumer_vars, history_vars, consumer_rest
<1>1. CASE SubmitSample \/ Run \/ AbandonWorker
  <2>1. Still
    BY SMTT(30), <1>1 DEF SubmitSample, Run, AbandonWorker, WorkerEnded
  <2> QED
    BY <2>1, StreamQuiet
<1>2. CASE \/ CheckRunning \/ (\E err \in BOOLEAN : PollReturns(err)) \/ PollPanics
           \/ SendCallbackPanic \/ InspectPollResult \/ SendPendingNotice \/ SendPollFailure
  <2>1. Still
    BY <1>2 DEF CheckRunning, PollReturns, PollPanics, SendCallbackPanic, InspectPollResult,
       SendPendingNotice, SendPollFailure, WorkerEnded
  <2> QED
    BY <2>1, StreamQuiet
<1>3. CASE \/ \E panic \in BOOLEAN : DropResources(panic)
           \/ DropDeliveries \/ ReportUnwind \/ DropTerminal \/ AbandonResources
  <2>1. Still
    BY Zenon, <1>3 DEF DropResources, DropDeliveries, ReportUnwind, DropTerminal, AbandonResources,
       WorkerEnded
  <2> QED
    BY <2>1, StreamQuiet
<1>4. CASE EnterCallback
  <2>1. CASE running
    <3>1. Still
      BY <1>4, <2>1 DEF EnterCallback, WorkerEnded
    <3> QED
      BY <3>1, StreamQuiet
  <2>2. CASE ~running
    <3>1. /\ UNCHANGED <<deliveries, Parked, output_full_pending, log, ReceiverAlive>>
          /\ cons_pos' = cons_pos + 1
      BY <1>4, <2>2, Zenon DEF EnterCallback, Parked, ReceiverAlive
    <3>2. ~WorkerEnded /\ WorkerEnded' = TRUE
      BY <1>4, <2>2 DEF EnterCallback, WorkerEnded
    <3> QED
      BY <3>1, <3>2 DEF Stream!Next, Stream!End
  <2> QED
    BY <2>1, <2>2
<1>5. ASSUME NEW kind \in {"Event", "MalformedSample"}, Deliver(kind)
      PROVE  [Stream!Next]_(Stream!vars)
  BY <1>5, StreamDeliver
<1>6. CASE CallbackPanics
  <2>1. /\ UNCHANGED <<deliveries, Parked, output_full_pending, log, ReceiverAlive>>
        /\ cons_pos' = cons_pos + 1
    BY <1>6, Zenon DEF CallbackPanics, Parked, ReceiverAlive
  <2>2. ~WorkerEnded /\ WorkerEnded' = TRUE
    BY <1>6 DEF CallbackPanics, WorkerEnded
  <2> QED
    BY <2>1, <2>2 DEF Stream!Next, Stream!End
<1>7. CASE ReportCallbackPanic
  <2>1. /\ UNCHANGED <<cons_pos, deliveries, Parked, log, ReceiverAlive>>
        /\ output_full_pending' = FALSE
    BY <1>7, Zenon DEF ReportCallbackPanic, Parked, ReceiverAlive
  <2>2. WorkerEnded = TRUE /\ WorkerEnded' = TRUE
    BY ZenonT(30), <1>7 DEF ReportCallbackPanic, WorkerEnded
  <2> QED
    BY <2>1, <2>2 DEF Stream!Next, Stream!Settle
<1>8. CASE TryRecv
  <2>1. cpc' # "dropped"
    BY <1>8 DEF TryRecv, ReadDeliveries
  <2> QED
    BY <1>8, <2>1, StreamReceive DEF TryRecv
<1>9. CASE RecvTimeout
  <2>1. cpc' # "dropped"
    BY <1>9 DEF RecvTimeout, ReadDeliveries
  <2> QED
    BY <1>9, <2>1, StreamReceive DEF RecvTimeout
<1>10. CASE TerminalNow \/ TerminalOrStop \/ TerminalUntil \/ DropCollector
  <2>1. UNCHANGED <<cons_pos, deliveries, Parked, output_full_pending, log>>
    BY <1>10, Zenon DEF TerminalNow, TerminalOrStop, TerminalUntil, ReadTerminal, DropCollector,
       Parked
  <2>2. ReceiverAlive' = ReceiverAlive
    BY ZenonT(30), <1>10 DEF TerminalNow, TerminalOrStop, TerminalUntil, ReadTerminal, DropCollector,
       ReceiverAlive
  <2>3. UNCHANGED <<wpc, callback_panic, poll_err>> /\ (running' = running \/ running' = FALSE)
    BY ZenonT(30), <1>10 DEF TerminalNow, TerminalOrStop, TerminalUntil, ReadTerminal, DropCollector
  <2>4. WorkerEnded' = WorkerEnded \/ (~WorkerEnded /\ WorkerEnded' = TRUE)
    BY <2>3 DEF WorkerEnded
  <2> QED
    BY <2>1, <2>2, <2>4 DEF Stream!Next, Stream!End, Stream!vars
<1>11. CASE DropReceivers
  <2>1. UNCHANGED <<cons_pos, output_full_pending, log>> /\ deliveries' = <<>>
    BY <1>11 DEF DropReceivers
  <2>2. (Parked \o deliveries)' = <<>>
    BY <1>11 DEF DropReceivers, Parked
  <2>3. ReceiverAlive' = FALSE
    BY <1>11 DEF DropReceivers, ReceiverAlive
  <2>4. WorkerEnded' = WorkerEnded
    BY <1>11, Zenon DEF DropReceivers, WorkerEnded
  <2> QED
    BY <2>1, <2>2, <2>3, <2>4 DEF Stream!Next, Stream!Forget
<1>12. CASE UNCHANGED vars
  <2>1. Still
    BY Zenon, <1>12 DEF vars, WorkerEnded
  <2> QED
    BY <2>1, StreamQuiet
<1> QED
  BY <1>1, <1>2, <1>3, <1>4, <1>5, <1>6, <1>7, <1>8, <1>9, <1>10, <1>11, <1>12
  DEF Next, WorkerStep, ReceiveStep, Finished

\* Ring callback, delivery queue and receives implement the stream that the
\* documentation of Collector promises, for every capacity and any number of
\* samples (deliver, unpair, try_recv, recv_timeout).
THEOREM PromiseKept == Spec => KeepsPromise
<1>1. Init => Stream!Init
  <2>1. Init => Parked \o deliveries = <<>> /\ WorkerEnded = FALSE /\ ReceiverAlive = TRUE
    BY DEF Init, Parked, WorkerEnded, ReceiverAlive
  <2> QED
    BY <2>1 DEF Init, Stream!Init
<1>2. Spec => [](TypeOK /\ SampleInHand)
  BY TypeInit, TypeStep, PTL DEF Spec
<1> QED
  BY <1>1, <1>2, StreamStep, PTL DEF Spec, KeepsPromise, Stream!Spec

-----------------------------------------------------------------------------
(* No sample vanishes.  The sample that ends the worker is the last one      *)
(* because no further one is consumed then.                                  *)

Accounted == Returned \cup Buffered \cup omitted

Vanished(k) == k = cons_pos /\ WorkerEnded /\ (panics > 0 \/ ~running)

AllAccounted == ReceiverAlive => \A k \in 1 .. cons_pos : k \in Accounted \/ Vanished(k)

\* How the sets of returned and buffered samples follow the sequences.
LEMMA ReturnedGrows ==
  ASSUME DataOK, NEW x \in Delivery \cup {Gap}, log' = Append(log, x)
  PROVE  Returned \subseteq Returned' /\ (x \in Delivery => x.id \in Returned')
<1>1. /\ DOMAIN log \subseteq DOMAIN log' /\ Len(log) + 1 \in DOMAIN log'
      /\ \A i \in DOMAIN log : log'[i] = log[i]
      /\ log'[Len(log) + 1] = x
  BY DEF DataOK
<1>2. x \in Delivery => x.id # 0
  BY DeliveryTyped
<1> QED
  BY <1>1, <1>2 DEF Returned

LEMMA AccountedReceive ==
  ASSUME DataOK, NEW onDisconnected, ReadDeliveries(onDisconnected)
  PROVE  Accounted \subseteq Accounted'
<1>0. omitted' = omitted
  BY DEF ReadDeliveries, consumer_rest, history_vars
<1>1. CASE pending_delivery # <<>>
  <2>1. /\ log' = Append(log, pending_delivery[1]) /\ pending_delivery' = <<>>
        /\ deliveries' = deliveries
    BY <1>1 DEF ReadDeliveries
  <2>2. pending_delivery[1] \in Delivery /\ \A i \in DOMAIN pending_delivery : i = 1
    <3>1. pending_delivery \in Seq(Delivery) /\ Len(pending_delivery) <= 1
      BY DEF DataOK
    <3>2. 1 \in DOMAIN pending_delivery /\ \A i \in DOMAIN pending_delivery : i = 1
      BY <1>1, <3>1
    <3> QED
      BY <3>2, QueueTyped
  <2>3. Returned \subseteq Returned' /\ pending_delivery[1].id \in Returned'
    BY <2>1, <2>2, ReturnedGrows
  <2>4. Buffered \subseteq Buffered' \cup {pending_delivery[1].id}
    BY ZenonT(30), <2>1, <2>2 DEF Buffered
  <2> QED
    BY <1>0, <2>3, <2>4 DEF Accounted
<1>2. CASE pending_delivery = <<>> /\ deliveries # <<>>
  <2> DEFINE e == deliveries[1]
  <2>1. /\ deliveries' = Tail(deliveries) /\ Unpair(e) /\ e \in DeliveryEntry
        /\ deliveries \in Seq(DeliveryEntry)
    BY ZenonT(30), <1>2, TailFacts DEF ReadDeliveries, DataOK
  <2>2. e.delivery \in Delivery
    BY <2>1 DEF DeliveryEntry
  <2>3. \A i \in DOMAIN deliveries : i = 1 \/ (i - 1 \in DOMAIN deliveries'
                                                /\ deliveries'[i - 1] = deliveries[i])
    BY <1>2, <2>1
  <2>4. Buffered \subseteq {deliveries'[i].delivery.id : i \in DOMAIN deliveries'} \cup {e.delivery.id}
    BY <1>2, <2>3 DEF Buffered
  <2> HIDE DEF e
  <2>5. CASE e.output_full_before
    <3>1. pending_delivery' = <<e.delivery>> /\ log' = Append(log, Gap)
      BY <2>1, <2>5 DEF Unpair
    <3>2. Returned \subseteq Returned'
      BY <3>1, ReturnedGrows
    <3>3. 1 \in DOMAIN pending_delivery' /\ pending_delivery'[1] = e.delivery
      BY <3>1
    <3>4. Buffered \subseteq Buffered'
      BY <2>4, <3>3 DEF Buffered
    <3> QED
      BY <1>0, <3>2, <3>4 DEF Accounted
  <2>6. CASE ~e.output_full_before
    <3>1. log' = Append(log, e.delivery)
      BY <2>1, <2>6 DEF Unpair
    <3>2. Returned \subseteq Returned' /\ e.delivery.id \in Returned'
      BY <2>2, <3>1, ReturnedGrows
    <3>3. Buffered \subseteq Buffered' \cup {e.delivery.id}
      BY <2>4 DEF Buffered
    <3> QED
      BY <1>0, <3>2, <3>3 DEF Accounted
  <2> QED
    BY <2>5, <2>6
<1>3. CASE pending_delivery = <<>> /\ deliveries = <<>>
  <2>1. UNCHANGED <<deliveries, pending_delivery, log>>
    BY <1>3 DEF ReadDeliveries
  <2> QED
    BY <1>0, <2>1 DEF Accounted, Returned, Buffered
<1> QED
  BY <1>1, <1>2, <1>3

\* A step that consumes no sample keeps the account, one that consumes a
\* sample has to account for it or end the worker.
LEMMA AccountKept ==
  ASSUME DataOK, DataOK', AllAccounted, Accounted \subseteq Accounted', cons_pos' = cons_pos,
         ReceiverAlive' => ReceiverAlive, WorkerEnded => WorkerEnded',
         panics' >= panics, running' => running
  PROVE  AllAccounted'
<1>1. \A k : Vanished(k) => Vanished(k)'
  BY DEF Vanished, DataOK
<1> QED
  BY <1>1 DEF AllAccounted

LEMMA AccountSample ==
  ASSUME DataOK, AllAccounted, Accounted \subseteq Accounted', ReceiverAlive, ~WorkerEnded,
         NEW id, id = cons_pos + 1, cons_pos' = id, id \in Accounted' \/ Vanished(id)'
  PROVE  AllAccounted'
<1>1. \A k \in 1 .. id : k \in 1 .. cons_pos \/ k = id
  BY DEF DataOK
<1>2. \A k \in 1 .. cons_pos : k \in Accounted
  BY DEF AllAccounted, Vanished
<1> QED
  BY <1>1, <1>2 DEF AllAccounted

LEMMA AccountStep ==
  TypeOK /\ SampleInHand /\ AllAccounted /\ [Next]_vars => AllAccounted'
<1> SUFFICES ASSUME TypeOK, SampleInHand, AllAccounted, [Next]_vars PROVE AllAccounted'
  OBVIOUS
<1>0. DataOK' /\ DataOK
  BY TypeStep DEF TypeOK
<1> DEFINE Same == UNCHANGED <<log, deliveries, pending_delivery, omitted>>
           Worse == /\ ReceiverAlive' => ReceiverAlive
                    /\ WorkerEnded => WorkerEnded'
                    /\ panics' >= panics
                    /\ running' => running
<1>a. Same => Accounted' = Accounted
  BY Zenon DEF Accounted, Returned, Buffered
<1>b. Same /\ cons_pos' = cons_pos /\ Worse => AllAccounted'
  BY <1>0, <1>a, AccountKept
<1>c. panics \in Nat /\ panics >= panics /\ panics + 1 >= panics
  BY DEF TypeOK, DataOK
<1> USE DEF ring_vars, channel_vars, worker_vars, consumer_vars, history_vars, consumer_rest
<1>1. CASE SubmitSample \/ Run \/ AbandonWorker
  <2>1. Same /\ cons_pos' = cons_pos /\ Worse
    BY SMTT(30), <1>1, <1>c DEF SubmitSample, Run, AbandonWorker, WorkerEnded, ReceiverAlive
  <2> QED
    BY <1>b, <2>1
<1>2. CASE \/ CheckRunning \/ (\E err \in BOOLEAN : PollReturns(err)) \/ PollPanics
           \/ ReportCallbackPanic \/ SendCallbackPanic \/ InspectPollResult
           \/ SendPendingNotice \/ SendPollFailure
  <2>1. Same /\ cons_pos' = cons_pos /\ Worse
    BY <1>2, <1>c DEF CheckRunning, PollReturns, PollPanics, ReportCallbackPanic,
       SendCallbackPanic, InspectPollResult, SendPendingNotice, SendPollFailure, WorkerEnded,
       ReceiverAlive
  <2> QED
    BY <1>b, <2>1
<1>3. CASE \/ \E panic \in BOOLEAN : DropResources(panic)
           \/ DropDeliveries \/ ReportUnwind \/ DropTerminal \/ AbandonResources
  <2>1. Same /\ cons_pos' = cons_pos /\ Worse
    <3> USE DEF WorkerEnded, ReceiverAlive
    <3>1. CASE \E panic \in BOOLEAN : DropResources(panic)
      BY <1>c, <3>1 DEF DropResources
    <3>2. CASE DropDeliveries \/ DropTerminal
      BY SMTT(30), <1>c, <3>2 DEF DropDeliveries, DropTerminal
    <3>3. CASE ReportUnwind
      BY <1>c, <3>3 DEF ReportUnwind
    <3>4. CASE AbandonResources
      BY <1>c, <3>4 DEF AbandonResources
    <3> QED
      BY ZenonT(30), <1>3, <3>1, <3>2, <3>3, <3>4
  <2> QED
    BY <1>b, <2>1
<1> SUFFICES ASSUME ReceiverAlive' PROVE AllAccounted'
  BY DEF AllAccounted
<1>4. CASE EnterCallback
  <2>1. CASE running
    <3>1. Same /\ cons_pos' = cons_pos /\ Worse
      BY ZenonT(30), <1>4, <1>c, <2>1 DEF EnterCallback, WorkerEnded, ReceiverAlive
    <3> QED
      BY <1>b, <3>1
  <2>2. CASE ~running
    <3> PICK id : id = cons_pos + 1
      OBVIOUS
    <3>1. Same /\ cons_pos' = id /\ ReceiverAlive /\ ~WorkerEnded
      BY <1>4, <2>2 DEF EnterCallback, WorkerEnded, ReceiverAlive
    <3>2. Vanished(id)'
      BY <1>4, <2>2, <3>1 DEF EnterCallback, WorkerEnded, Vanished
    <3> QED
      BY <1>0, <1>a, <3>1, <3>2, AccountSample
  <2> QED
    BY <2>1, <2>2
<1>5. ASSUME NEW kind \in {"Event", "MalformedSample"}, Deliver(kind) PROVE AllAccounted'
  <2> PICK id : id = cons_pos + 1
    OBVIOUS
  <2>1. /\ cons_pos' = id /\ ReceiverAlive /\ ~WorkerEnded /\ UNCHANGED <<log, pending_delivery>>
    BY ZenonT(30), <1>5 DEF Deliver, WorkerEnded, ReceiverAlive
  <2>2. CASE QueueHasRoom
    <3> DEFINE e == [delivery |-> [id |-> id, kind |-> kind],
                     output_full_before |-> output_full_pending]
    <3>1. deliveries' = Append(deliveries, e) /\ omitted' = omitted
      BY ZenonT(30), <1>5, <2>1, <2>2 DEF Deliver
    <3>2. deliveries \in Seq(DeliveryEntry) /\ e.delivery.id = id
      BY ZenonT(30) DEF TypeOK, DataOK
    <3> HIDE DEF e
    <3>3. /\ DOMAIN deliveries \subseteq DOMAIN deliveries'
          /\ \A i \in DOMAIN deliveries : deliveries'[i] = deliveries[i]
          /\ Len(deliveries) + 1 \in DOMAIN deliveries' /\ deliveries'[Len(deliveries) + 1] = e
      BY SMTT(30), <3>1, <3>2
    <3>4. Buffered \subseteq Buffered' /\ id \in Buffered'
      BY ZenonT(30), <2>1, <3>2, <3>3 DEF Buffered
    <3>5. Accounted \subseteq Accounted' /\ id \in Accounted'
      BY ZenonT(30), <2>1, <3>1, <3>4 DEF Accounted, Returned
    <3> QED
      BY <1>0, <2>1, <3>5, AccountSample
  <2>3. CASE ~QueueHasRoom
    <3>1. deliveries' = deliveries /\ omitted' = omitted \cup {id}
      BY Zenon, <1>5, <2>1, <2>3 DEF Deliver
    <3>2. Accounted \subseteq Accounted' /\ id \in Accounted'
      BY ZenonT(30), <2>1, <3>1 DEF Accounted, Returned, Buffered
    <3> QED
      BY <1>0, <2>1, <3>2, AccountSample
  <2> QED
    BY <2>2, <2>3
<1>6. CASE CallbackPanics
  <2> PICK id : id = cons_pos + 1
    OBVIOUS
  <2>1. Same /\ cons_pos' = id /\ ReceiverAlive /\ ~WorkerEnded
    BY ZenonT(30), <1>6 DEF CallbackPanics, WorkerEnded, ReceiverAlive
  <2>2. Vanished(id)'
    BY SMTT(30), <1>6, <1>c, <2>1 DEF CallbackPanics, WorkerEnded, Vanished
  <2> QED
    BY <1>0, <1>a, <2>1, <2>2, AccountSample
<1>7. CASE TryRecv \/ RecvTimeout
  <2>1. Accounted \subseteq Accounted'
    BY <1>0, <1>7, AccountedReceive DEF TryRecv, RecvTimeout
  <2>2. cons_pos' = cons_pos /\ Worse
    BY SMTT(30), <1>7, <1>c DEF TryRecv, RecvTimeout, ReadDeliveries, WorkerEnded, ReceiverAlive
  <2> QED
    BY <1>0, <2>1, <2>2, AccountKept
<1>8. CASE TerminalNow \/ TerminalOrStop \/ TerminalUntil \/ DropCollector
  <2>1. Same /\ cons_pos' = cons_pos /\ Worse
    <3>1. CASE TerminalNow \/ TerminalOrStop \/ TerminalUntil
      <4>1. PICK next : ReadTerminal(next)
        BY <3>1 DEF TerminalNow, TerminalOrStop, TerminalUntil
      <4>2. UNCHANGED <<deliveries, pending_delivery, log, consumer_rest>>
        BY <4>1 DEF ReadTerminal
      <4>3. ReceiverAlive
        BY <3>1 DEF TerminalNow, TerminalOrStop, TerminalUntil, ReceiverAlive
      <4> QED
        BY <1>c, <4>2, <4>3 DEF WorkerEnded
    <3>2. CASE DropCollector
      BY <1>c, <3>2 DEF DropCollector, WorkerEnded, ReceiverAlive
    <3> QED
      BY <1>8, <3>1, <3>2
  <2> QED
    BY <1>b, <2>1
<1>9. CASE DropReceivers
  BY <1>9 DEF DropReceivers, ReceiverAlive
<1>10. CASE UNCHANGED vars
  <2>1. Same /\ cons_pos' = cons_pos /\ Worse
    BY ZenonT(30), <1>10, <1>c DEF vars, WorkerEnded, ReceiverAlive
  <2> QED
    BY <1>b, <2>1
<1> QED
  BY <1>1, <1>2, <1>3, <1>4, <1>5, <1>6, <1>7, <1>8, <1>9, <1>10
  DEF Next, WorkerStep, ReceiveStep, Finished

\* Every sample the worker consumed was returned, is buffered or was omitted,
\* whatever the capacities, but for a last one that ended the worker
\* (deliver, catch_callback_panic).
THEOREM NothingIsLost == Spec => []NothingVanishes
<1>1. Init => TypeOK /\ SampleInHand /\ AllAccounted
  BY TypeInit DEF Init, AllAccounted
<1>2. TypeOK /\ SampleInHand /\ AllAccounted /\ [Next]_vars
        => TypeOK' /\ SampleInHand' /\ AllAccounted'
  BY TypeStep, AccountStep
<1>3. AllAccounted => NothingVanishes
  BY DEF AllAccounted, Accounted, Vanished, NothingVanishes
<1> QED
  BY <1>1, <1>2, <1>3, PTL DEF Spec

-----------------------------------------------------------------------------
(* What the worker sends to the terminal channel is determined by how it     *)
(* ended: nothing, or its failure behind the notice of trailing losses, and  *)
(* then the panic that unwound it.                                           *)

TrailingLoss == \E k \in omitted : k > last_accepted

Notice == IF TrailingLoss THEN <<"OutputQueueFull">> ELSE <<>>

\* What a worker that left its loop may have reported, unwinding aside.
Reports == IF CallbackPanicked THEN {Append(Notice, "WorkerPanic")}
                               ELSE {<<>>, Append(Notice, "PollFailure")}

Silent == {"prepared", "loop", "poll", "deliver", "polled", "poll_failed", "abandoned"}
Reporting == {"report_panic", "report_failure"}
Dropping == {"drop_resources", "drop_deliveries", "caught"}

\* The callback panics at most once, and so do the worker's own frames.
PanicsSoFar ==
  /\ callback_panic => wpc = "polled"
  /\ wpc \in (Silent \ {"polled"}) \cup {"report_failure"} => panics = 0 /\ unwinding = FALSE
  /\ wpc = "polled" => panics = (IF callback_panic THEN 1 ELSE 0) /\ unwinding = FALSE
  /\ wpc = "report_panic" => panics = 1 /\ unwinding = FALSE
  /\ panics \in (IF unwinding THEN {1, 2} ELSE {0, 1})

SentExactly ==
  ReceiverAlive =>
    /\ wpc \in Silent => sent = <<>>
    /\ wpc \in Reporting => sent = Notice
    /\ wpc \in Dropping => sent \in Reports
    /\ wpc \in {"drop_terminal", "done"} =>
         \E base \in Reports : sent = IF unwinding THEN Append(base, "WorkerPanic") ELSE base

ReportInv == PanicsSoFar /\ SentExactly /\ (~ReceiverAlive => TrailingLossReported)

\* Receiving leaves the worker and what it sent alone.
LEMMA ReceiveQuiet ==
  ASSUME ReceiveStep
  PROVE  UNCHANGED <<worker_vars, sent, omitted, last_accepted, panics>>
<1>1. ASSUME NEW next, ReadDeliveries(next)
      PROVE  UNCHANGED <<worker_vars, sent, omitted, last_accepted, panics>>
  BY <1>1 DEF ReadDeliveries, consumer_rest, worker_vars, history_vars
<1>2. ASSUME NEW next, ReadTerminal(next)
      PROVE  UNCHANGED <<worker_vars, sent, omitted, last_accepted, panics>>
  BY <1>2 DEF ReadTerminal, consumer_rest, worker_vars, history_vars
<1> QED
  BY <1>1, <1>2 DEF ReceiveStep, TryRecv, RecvTimeout, TerminalNow, TerminalOrStop, TerminalUntil

LEMMA PanicsStep == FlagsOK /\ PanicsSoFar /\ [Next]_vars => PanicsSoFar'
<1> SUFFICES ASSUME FlagsOK, PanicsSoFar, [Next]_vars PROVE PanicsSoFar'
  OBVIOUS
<1> USE DEF PanicsSoFar, Silent, ring_vars, channel_vars, worker_vars, consumer_vars,
        history_vars, consumer_rest
<1>1. CASE SubmitSample \/ Run \/ AbandonWorker
  <2>1. CASE SubmitSample
    BY ZenonT(30), <2>1 DEF SubmitSample
  <2>2. CASE Run
    BY ZenonT(30), <2>2 DEF Run
  <2>3. CASE AbandonWorker
    BY ZenonT(30), <2>3 DEF AbandonWorker
  <2> QED
    BY ZenonT(30), <1>1, <2>1, <2>2, <2>3
<1>2. CASE CheckRunning \/ PollPanics \/ EnterCallback \/ CallbackPanics
  <2>1. CASE CheckRunning
    BY ZenonT(30), <2>1 DEF CheckRunning
  <2>2. CASE PollPanics
    BY SMTT(30), <2>2 DEF PollPanics
  <2>3. CASE EnterCallback
    BY ZenonT(30), <2>3 DEF EnterCallback
  <2>4. CASE CallbackPanics
    BY SMTT(30), <2>4 DEF CallbackPanics
  <2> QED
    BY ZenonT(30), <1>2, <2>1, <2>2, <2>3, <2>4
<1>3. ASSUME NEW err \in BOOLEAN, PollReturns(err) PROVE PanicsSoFar'
  BY <1>3 DEF PollReturns
<1>4. ASSUME NEW kind \in {"Event", "MalformedSample"}, Deliver(kind) PROVE PanicsSoFar'
  BY ZenonT(30), <1>4 DEF Deliver
<1>5. CASE ReportCallbackPanic \/ SendCallbackPanic \/ SendPendingNotice \/ SendPollFailure
  <2>1. CASE ReportCallbackPanic
    BY <2>1 DEF ReportCallbackPanic
  <2>2. CASE SendCallbackPanic
    BY ZenonT(30), <2>2 DEF SendCallbackPanic
  <2>3. CASE SendPendingNotice
    BY <2>3 DEF SendPendingNotice
  <2>4. CASE SendPollFailure
    BY Zenon, <2>4 DEF SendPollFailure
  <2> QED
    BY <1>5, <2>1, <2>2, <2>3, <2>4
<1>6. CASE InspectPollResult
  BY <1>6 DEF InspectPollResult, FlagsOK
<1>7. ASSUME NEW panic \in BOOLEAN, DropResources(panic) PROVE PanicsSoFar'
  BY SMTT(30), <1>7 DEF DropResources, FlagsOK
<1>8. CASE DropDeliveries \/ ReportUnwind \/ DropTerminal \/ AbandonResources
  <2>1. CASE DropDeliveries \/ DropTerminal
    BY SMTT(30), <2>1 DEF DropDeliveries, DropTerminal
  <2>2. CASE ReportUnwind
    BY ZenonT(30), <2>2 DEF ReportUnwind
  <2>3. CASE AbandonResources
    BY ZenonT(30), <2>3 DEF AbandonResources
  <2> QED
    BY ZenonT(30), <1>8, <2>1, <2>2, <2>3
<1>9. CASE ReceiveStep
  BY <1>9, ReceiveQuiet
<1>10. CASE DropCollector \/ DropReceivers
  BY SMTT(30), <1>10 DEF DropCollector, DropReceivers
<1>11. CASE UNCHANGED vars
  BY Zenon, <1>11 DEF vars
<1> QED
  BY ZenonT(30), <1>1, <1>2, <1>3, <1>4, <1>5, <1>6, <1>7, <1>8, <1>9, <1>10, <1>11
  DEF Next, WorkerStep, Finished

\* While the worker is past its last delivery the losses are settled.
LEMMA ReportsKept ==
  ASSUME UNCHANGED <<omitted, last_accepted>>, CallbackPanicked' <=> CallbackPanicked
  PROVE  Notice' = Notice /\ Reports' = Reports
<1>1. TrailingLoss' <=> TrailingLoss
  BY Zenon DEF TrailingLoss
<1>2. Notice' = Notice
  BY <1>1, Zenon DEF Notice
<1> QED
  BY <1>2, Zenon DEF Reports

LEMMA SentKept ==
  ASSUME SentExactly, UNCHANGED <<omitted, last_accepted, sent, wpc, unwinding>>,
         CallbackPanicked' <=> CallbackPanicked, ReceiverAlive' => ReceiverAlive
  PROVE  SentExactly'
<1>1. Notice' = Notice /\ Reports' = Reports
  BY ReportsKept
<1> QED
  BY <1>1, Zenon DEF SentExactly, Silent, Reporting, Dropping

\* Every step of the worker sends what its place calls for.
LEMMA ExactlyStep ==
  TypeOK /\ PanicsSoFar /\ PanicsSoFar' /\ PendingExact /\ SentExactly /\ [Next]_vars => SentExactly'
<1> SUFFICES ASSUME TypeOK, PanicsSoFar, PanicsSoFar', PendingExact, SentExactly, [Next]_vars,
                    ReceiverAlive'
             PROVE  SentExactly'
  BY DEF SentExactly
<1> USE DEF ring_vars, channel_vars, worker_vars, consumer_vars, history_vars, consumer_rest,
        Silent, Reporting, Dropping
<1>1. CASE SubmitSample
  BY <1>1, SentKept DEF SubmitSample, CallbackPanicked, ReceiverAlive
<1>2. CASE Run \/ AbandonWorker \/ (\E err \in BOOLEAN : PollReturns(err)) \/ EnterCallback
           \/ (\E kind \in {"Event", "MalformedSample"} : Deliver(kind)) \/ CallbackPanics
  BY ZenonT(30), <1>2 DEF Run, AbandonWorker, PollReturns, EnterCallback, Deliver, CallbackPanics,
     SentExactly, ReceiverAlive
<1>3. CASE CheckRunning
  BY SMTT(30), <1>3 DEF CheckRunning, SentExactly, ReceiverAlive, PanicsSoFar, Reports, CallbackPanicked
<1>4. CASE PollPanics
  BY SMTT(30), <1>4 DEF PollPanics, SentExactly, ReceiverAlive, PanicsSoFar, Reports, CallbackPanicked
<1>5. CASE InspectPollResult
  BY <1>5 DEF InspectPollResult, SentExactly, ReceiverAlive, PanicsSoFar, Reports,
     CallbackPanicked, TypeOK, FlagsOK
<1>6. CASE ReportCallbackPanic \/ SendPendingNotice
  <2>1. /\ ReceiverAlive /\ sent = <<>> /\ wpc' \in Reporting
        /\ UNCHANGED <<omitted, last_accepted>>
        /\ NotifyPendingLoss /\ (output_full_pending <=> TrailingLoss)
    BY Zenon, <1>6 DEF ReportCallbackPanic, SendPendingNotice, SentExactly, ReceiverAlive,
       PendingExact, TrailingLoss, Flushed, Ended
  <2>2. Notice' = Notice
    BY <2>1, Zenon DEF Notice, TrailingLoss
  <2>3. sent' = Notice
    BY <2>1 DEF NotifyPendingLoss, TrySendTerminal, Notice
  <2> QED
    BY <2>1, <2>2, <2>3 DEF SentExactly
<1>7. CASE SendCallbackPanic
  <2>1. /\ ReceiverAlive /\ sent = Notice /\ wpc' = "drop_resources"
        /\ UNCHANGED <<omitted, last_accepted>>
        /\ TrySendTerminal("WorkerPanic") /\ CallbackPanicked /\ CallbackPanicked'
    BY SMTT(30), <1>7 DEF SendCallbackPanic, SentExactly, ReceiverAlive, PanicsSoFar, CallbackPanicked
  <2>2. sent' = Append(Notice, "WorkerPanic") /\ Notice' = Notice
    BY <2>1, ReportsKept DEF TrySendTerminal
  <2> QED
    BY <2>1, <2>2 DEF SentExactly, Reports
<1>8. CASE SendPollFailure
  <2>1. /\ ReceiverAlive /\ sent = Notice /\ wpc' = "drop_resources"
        /\ UNCHANGED <<omitted, last_accepted>>
        /\ TrySendTerminal("PollFailure") /\ ~CallbackPanicked /\ ~CallbackPanicked'
    BY SMTT(30), <1>8 DEF SendPollFailure, SentExactly, ReceiverAlive, PanicsSoFar, CallbackPanicked
  <2>2. sent' = Append(Notice, "PollFailure") /\ Notice' = Notice
    BY <2>1, ReportsKept DEF TrySendTerminal
  <2> QED
    BY <2>1, <2>2 DEF SentExactly, Reports
<1>9. ASSUME NEW panic \in BOOLEAN, DropResources(panic) PROVE SentExactly'
  <2>1. /\ ReceiverAlive /\ sent' \in Reports /\ wpc' = "drop_deliveries"
        /\ UNCHANGED <<omitted, last_accepted>>
    BY <1>9 DEF DropResources, SentExactly, ReceiverAlive
  <2>2. CallbackPanicked' <=> CallbackPanicked
    BY SMTT(30), <1>9 DEF DropResources, CallbackPanicked, TypeOK, FlagsOK, DataOK
  <2>3. Reports' = Reports
    BY <2>1, <2>2, ReportsKept
  <2> QED
    BY <2>1, <2>3 DEF SentExactly
<1>10. CASE DropDeliveries
  <2>1. /\ ReceiverAlive /\ sent' \in Reports /\ wpc' = "caught"
        /\ UNCHANGED <<omitted, last_accepted>> /\ (CallbackPanicked' <=> CallbackPanicked)
    BY <1>10 DEF DropDeliveries, SentExactly, ReceiverAlive, CallbackPanicked
  <2> QED
    BY <2>1, ReportsKept DEF SentExactly
<1>11. CASE ReportUnwind
  <2>1. /\ ReceiverAlive /\ sent \in Reports /\ wpc' = "drop_terminal"
        /\ UNCHANGED <<omitted, last_accepted, unwinding>>
        /\ CallbackPanicked' <=> CallbackPanicked
        /\ sent' = IF unwinding THEN Append(sent, "WorkerPanic") ELSE sent
    BY ZenonT(30), <1>11 DEF ReportUnwind, SentExactly, ReceiverAlive, CallbackPanicked, TrySendTerminal
  <2>2. Reports' = Reports
    BY <2>1, ReportsKept
  <2> QED
    BY <2>1, <2>2 DEF SentExactly
<1>12. CASE DropTerminal
  <2>1. /\ ReceiverAlive /\ wpc = "drop_terminal" /\ wpc' = "done"
        /\ UNCHANGED <<omitted, last_accepted, unwinding, sent>>
        /\ CallbackPanicked' <=> CallbackPanicked
    BY <1>12 DEF DropTerminal, ReceiverAlive, CallbackPanicked
  <2>2. Reports' = Reports
    BY <2>1, ReportsKept
  <2> QED
    BY <2>1, <2>2 DEF SentExactly
<1>13. CASE AbandonResources
  BY SMTT(30), <1>13 DEF AbandonResources, SentExactly, ReceiverAlive, PanicsSoFar, Reports,
     CallbackPanicked
<1>14. CASE ReceiveStep \/ DropCollector \/ DropReceivers \/ UNCHANGED vars
  <2>1. UNCHANGED <<omitted, last_accepted, sent, wpc, unwinding, panics>>
    BY ZenonT(30), <1>14 DEF ReceiveStep, TryRecv, RecvTimeout, TerminalNow, TerminalOrStop, TerminalUntil,
       ReadDeliveries, ReadTerminal, DropCollector, DropReceivers, vars
  <2>2. ReceiverAlive
    BY ZenonT(30), <1>14 DEF ReceiveStep, TryRecv, RecvTimeout, TerminalNow, TerminalOrStop, TerminalUntil,
       ReadDeliveries, ReadTerminal, DropCollector, DropReceivers, vars, ReceiverAlive
  <2> QED
    BY <2>1, <2>2, SentKept DEF CallbackPanicked
<1> QED
  BY <1>1, <1>2, <1>3, <1>4, <1>5, <1>6, <1>7, <1>8, <1>9, <1>10, <1>11, <1>12, <1>13, <1>14
  DEF Next, WorkerStep, Finished

\* What each possible report tells about the losses before it.
LEMMA NoticeFirst ==
  ASSUME NEW kind \in {"WorkerPanic", "PollFailure"}
  PROVE  /\ Append(Notice, kind)[1] = "OutputQueueFull" <=> TrailingLoss
         /\ Append(Append(Notice, kind), "WorkerPanic")[1] = "OutputQueueFull" <=> TrailingLoss
<1>1. CASE TrailingLoss
  BY <1>1 DEF Notice
<1>2. CASE ~TrailingLoss
  BY <1>2 DEF Notice
<1> QED
  BY <1>1, <1>2

LEMMA ExactlyTrailing ==
  ASSUME DataOK, ReceiverAlive, SentExactly PROVE TrailingLossReported
<1> USE DEF TrailingLossReported, SentExactly, TrailingLoss
<1>1. CASE wpc \in Silent
  BY <1>1 DEF Elements
<1>2. CASE wpc \in Reporting
  <2>1. sent = <<>> \/ sent = <<"OutputQueueFull">>
    BY <1>2 DEF Notice
  <2> QED
    BY <2>1 DEF Elements
<1>3. CASE wpc \in Dropping \cup {"drop_terminal", "done"}
  <2>1. PICK base \in Reports : sent = base \/ sent = Append(base, "WorkerPanic")
    BY <1>3
  <2>2. CASE base = <<>>
    <3>1. ~CallbackPanicked
      <4>1. \A kind : Append(Notice, kind) # <<>>
        BY DEF Notice
      <4> QED
        BY <2>2, <4>1 DEF Reports
    <3>2. sent = <<>> \/ sent = <<"WorkerPanic">>
      BY <2>1, <2>2
    <3> QED
      BY <3>1, <3>2 DEF Elements
  <2>3. CASE base # <<>>
    <3>1. PICK kind \in {"WorkerPanic", "PollFailure"} : base = Append(Notice, kind)
      BY <2>1, <2>3 DEF Reports
    <3> QED
      BY <2>1, <3>1, NoticeFirst
  <2> QED
    BY <2>2, <2>3
<1> QED
  BY ZenonT(30), <1>1, <1>2, <1>3 DEF DataOK, Silent, Reporting, Dropping

\* Once the collector is dropped nothing is sent or omitted any more.
LEMMA DroppedFrozen ==
  ASSUME TypeOK, PanicsSoFar, TInv, [Next]_vars, ~ReceiverAlive'
  PROVE  /\ UNCHANGED <<sent, omitted, last_accepted>>
         /\ sent = <<>> \/ (CallbackPanicked' <=> CallbackPanicked)
<1> USE DEF ring_vars, channel_vars, worker_vars, consumer_vars, history_vars, consumer_rest,
        ReceiverAlive, CallbackPanicked
<1>0. panics \in Nat /\ unwinding \in BOOLEAN
  BY DEF TypeOK, DataOK, FlagsOK
<1>1. CASE SubmitSample \/ Run \/ AbandonWorker
  BY SMTT(30), <1>1 DEF SubmitSample, Run, AbandonWorker
<1>2. CASE \/ CheckRunning \/ (\E err \in BOOLEAN : PollReturns(err)) \/ EnterCallback
           \/ (\E kind \in {"Event", "MalformedSample"} : Deliver(kind)) \/ InspectPollResult
           \/ DropDeliveries \/ DropTerminal \/ AbandonResources
  BY <1>2 DEF CheckRunning, PollReturns, EnterCallback, Deliver, InspectPollResult,
     DropDeliveries, DropTerminal, AbandonResources
<1>3. CASE PollPanics
  BY <1>3 DEF PollPanics, PanicsSoFar, Silent
<1>4. CASE CallbackPanics
  <2>1. sent = <<>>
    BY SMTT(30), <1>4 DEF CallbackPanics, TInv, SentSoFar, TypeOK, DataOK
  <2> QED
    BY <1>4, <2>1 DEF CallbackPanics
<1>5. CASE ReportCallbackPanic \/ SendCallbackPanic \/ SendPendingNotice \/ SendPollFailure
           \/ ReportUnwind
  <2>1. CASE ReportCallbackPanic
    BY <2>1 DEF ReportCallbackPanic, NotifyPendingLoss, TrySendTerminal
  <2>2. CASE SendCallbackPanic
    BY <2>2 DEF SendCallbackPanic, TrySendTerminal
  <2>3. CASE SendPendingNotice
    BY <2>3 DEF SendPendingNotice, NotifyPendingLoss, TrySendTerminal
  <2>4. CASE SendPollFailure
    BY <2>4 DEF SendPollFailure, TrySendTerminal
  <2>5. CASE ReportUnwind
    BY <2>5 DEF ReportUnwind, TrySendTerminal
  <2> QED
    BY <1>5, <2>1, <2>2, <2>3, <2>4, <2>5
<1>6. ASSUME NEW panic \in BOOLEAN, DropResources(panic)
      PROVE  /\ UNCHANGED <<sent, omitted, last_accepted>>
             /\ CallbackPanicked' <=> CallbackPanicked
  BY <1>0, <1>6 DEF DropResources
<1>7. CASE ReceiveStep \/ DropCollector \/ DropReceivers \/ UNCHANGED vars
  <2>1. CASE ReceiveStep
    BY <2>1, ReceiveQuiet
  <2>2. CASE DropCollector
    BY <2>2 DEF DropCollector
  <2>3. CASE DropReceivers
    BY <2>3 DEF DropReceivers
  <2>4. CASE UNCHANGED vars
    BY <2>4 DEF vars
  <2> QED
    BY <1>7, <2>1, <2>2, <2>3, <2>4
<1> QED
  BY ZenonT(30), <1>1, <1>2, <1>3, <1>4, <1>5, <1>6, <1>7 DEF Next, WorkerStep, Finished

LEMMA ReportInvAlways == Spec => []ReportInv
<1>1. Init => ReportInv
  <2>1. Init => PanicsSoFar /\ SentExactly
    BY DEF Init, PanicsSoFar, SentExactly, Silent, Reporting, Dropping
  <2>2. Init => TrailingLossReported
    BY DEF Init, TrailingLossReported, Elements
  <2> QED
    BY <2>1, <2>2 DEF ReportInv
<1>2. IInv /\ TInv /\ IInv' /\ ReportInv /\ [Next]_vars => ReportInv'
  <2> SUFFICES ASSUME IInv, TInv, IInv', ReportInv, [Next]_vars PROVE ReportInv'
    OBVIOUS
  <2>1. PanicsSoFar'
    BY PanicsStep DEF IInv, TypeOK, ReportInv
  <2>2. SentExactly'
    BY <2>1, ExactlyStep DEF IInv, ReportInv
  <2>3. ASSUME ~ReceiverAlive' PROVE TrailingLossReported'
    <3>0. TrailingLossReported
      BY ExactlyTrailing DEF IInv, TypeOK, ReportInv
    <3>1. /\ UNCHANGED <<sent, omitted, last_accepted>>
          /\ sent = <<>> \/ (CallbackPanicked' <=> CallbackPanicked)
      BY <2>3, DroppedFrozen DEF IInv, ReportInv
    <3>2. CASE sent = <<>>
      BY <3>1, <3>2 DEF TrailingLossReported, Elements
    <3>3. CASE CallbackPanicked' <=> CallbackPanicked
      BY <3>0, <3>1, <3>3, Zenon DEF TrailingLossReported, Elements
    <3> QED
      BY <3>1, <3>2, <3>3
  <2> QED
    BY <2>1, <2>2, <2>3 DEF ReportInv
<1> QED
  BY <1>1, <1>2, IInvAlways, TInvAlways, PTL DEF Spec

\* A poll failure or callback panic is preceded by OutputQueueFull exactly
\* when samples were omitted after the last accepted one, in every behaviour
\* (run_worker, report_callback_panic).
THEOREM TrailingLossTold == Spec => []TrailingLossReported
<1>1. TypeOK /\ ReportInv => TrailingLossReported
  BY ExactlyTrailing DEF TypeOK, ReportInv
<1> QED
  BY <1>1, ReportInvAlways, TypeCorrect, PTL

\* One more terminal error is one more panic, or none.
LEMMA PanicCounted ==
  ASSUME NEW seq \in Seq(TerminalKind), NEW kind \in TerminalKind,
         NEW n \in Nat, IsFiniteSet({i \in DOMAIN seq : seq[i] = "WorkerPanic"}),
         Cardinality({i \in DOMAIN seq : seq[i] = "WorkerPanic"}) = n
  PROVE  LET more == {i \in DOMAIN Append(seq, kind) : Append(seq, kind)[i] = "WorkerPanic"}
         IN  /\ IsFiniteSet(more)
             /\ Cardinality(more) = IF kind = "WorkerPanic" THEN n + 1 ELSE n
<1> DEFINE new == Append(seq, kind)
           W == {i \in DOMAIN seq : seq[i] = "WorkerPanic"}
           more == {i \in DOMAIN new : new[i] = "WorkerPanic"}
           last == Len(seq) + 1
<1>1. /\ DOMAIN new = DOMAIN seq \cup {last} /\ last \notin DOMAIN seq
      /\ new[last] = kind /\ \A i \in DOMAIN seq : new[i] = seq[i]
  OBVIOUS
<1> HIDE DEF new, last
<1>2. more = IF kind = "WorkerPanic" THEN W \cup {last} ELSE W
  BY ZenonT(30), <1>1
<1>3. last \notin W
  BY ZenonT(30), <1>1
<1> HIDE DEF W, more
<1>4. IsFiniteSet(W) /\ Cardinality(W) = n
  BY DEF W
<1>5. IsFiniteSet(more) /\ Cardinality(more) = IF kind = "WorkerPanic" THEN n + 1 ELSE n
  BY ZenonT(30), <1>2, <1>3, <1>4, FS_AddElement
<1> QED
  BY ZenonT(30), <1>5 DEF more, new

\* A worker that ended sent one WorkerPanic per panic it raised, wherever it
\* raised them (report_callback_panic, run_with).
THEOREM PanicsTold == Spec => []PanicsReported
<1>1. TypeOK /\ ReportInv => PanicsReported
  <2> SUFFICES ASSUME TypeOK, ReportInv, wpc = "done", ReceiverAlive
               PROVE  Cardinality({i \in DOMAIN sent : sent[i] = "WorkerPanic"}) = panics
    BY DEF PanicsReported
  <2> DEFINE W(seq) == {i \in DOMAIN seq : seq[i] = "WorkerPanic"}
             Counts(seq, n) == IsFiniteSet(W(seq)) /\ Cardinality(W(seq)) = n
  <2>1. PICK base \in Reports : sent = IF unwinding THEN Append(base, "WorkerPanic") ELSE base
    BY DEF ReportInv, SentExactly
  <2>2. /\ panics \in (IF unwinding THEN {1, 2} ELSE {0, 1})
        /\ CallbackPanicked <=> panics > (IF unwinding THEN 1 ELSE 0)
    BY DEF ReportInv, PanicsSoFar, CallbackPanicked
  <2>3. ASSUME NEW seq \in Seq(TerminalKind), NEW n \in Nat, Counts(seq, n)
        PROVE  /\ Counts(Append(seq, "WorkerPanic"), n + 1)
               /\ Counts(Append(seq, "PollFailure"), n)
               /\ Counts(Append(seq, "OutputQueueFull"), n)
    BY ZenonT(30), <2>3, PanicCounted DEF TerminalKind
  <2>4. Counts(<<>>, 0) /\ <<>> \in Seq(TerminalKind)
    <3>1. W(<<>>) = {}
      OBVIOUS
    <3> QED
      BY <3>1, FS_EmptySet
  <2> HIDE DEF Counts
  <2>5. Notice \in Seq(TerminalKind) /\ Counts(Notice, 0)
    <3>1. CASE TrailingLoss
      <4>1. Notice = Append(<<>>, "OutputQueueFull") /\ Notice \in Seq(TerminalKind)
        BY <3>1 DEF Notice, TerminalKind
      <4> QED
        BY Zenon, <2>3, <2>4, <4>1
    <3>2. CASE ~TrailingLoss
      BY <2>4, <3>2 DEF Notice
    <3> QED
      BY <3>1, <3>2
  <2>6. base \in Seq(TerminalKind) /\ Counts(base, IF CallbackPanicked THEN 1 ELSE 0)
    <3>0. /\ Append(Notice, "WorkerPanic") \in Seq(TerminalKind)
          /\ Append(Notice, "PollFailure") \in Seq(TerminalKind)
          /\ 0 + 1 = 1
      BY <2>5, AppendFacts DEF TerminalKind
    <3>1. CASE CallbackPanicked
      <4>1. base = Append(Notice, "WorkerPanic")
        BY <2>1, <3>1 DEF Reports
      <4>2. Counts(base, 1)
        BY <2>3, <2>5, <3>0, <4>1
      <4> QED
        BY <3>0, <3>1, <4>1, <4>2
    <3>2. CASE ~CallbackPanicked
      <4>1. base = <<>> \/ base = Append(Notice, "PollFailure")
        BY <2>1, <3>2 DEF Reports
      <4>2. Counts(base, 0) /\ base \in Seq(TerminalKind)
        BY ZenonT(30), <2>3, <2>4, <2>5, <3>0, <4>1
      <4> QED
        BY <3>2, <4>2
    <3> QED
      BY <3>1, <3>2
  <2>7. Counts(sent, panics)
    <3>1. CASE unwinding
      <4>1. sent = Append(base, "WorkerPanic") /\ panics = (IF CallbackPanicked THEN 1 ELSE 0) + 1
        BY <2>1, <2>2, <3>1
      <4> QED
        BY <2>3, <2>6, <4>1
    <3>2. CASE ~unwinding
      BY <2>1, <2>2, <2>6, <3>2
    <3> QED
      BY <3>1, <3>2
  <2> QED
    BY <2>7 DEF Counts
<1> QED
  BY <1>1, ReportInvAlways, TypeCorrect, PTL
=============================================================================
