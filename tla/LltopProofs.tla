----------------------------- MODULE LltopProofs ------------------------------
(***************************************************************************)
(* Theorems about the lltop process for every queue and ring capacity,     *)
(* number of samples and bound on the events drained per cycle.            *)
(***************************************************************************)
EXTENDS Lltop, CollectorProofs, WellFoundedInduction

-----------------------------------------------------------------------------
(* lltop uses the collector as its callers may.                             *)

LEMMA MainIsCollectorStep == MainStep => [Next]_vars
<1>1. Minimize \/ ParseMode \/ Prepare \/ Spawn \/ Start \/ Input \/ Panic => UNCHANGED vars
  BY Zenon DEF Minimize, ParseMode, Prepare, Spawn, Start, Input, Panic
<1>2. JoinWorker \/ Exit => UNCHANGED vars
  BY Zenon DEF JoinWorker, Exit
<1>3. SpawnFails => AbandonWorker
  BY Zenon DEF SpawnFails
<1>4. SpawnFailed \/ Leave => DropCollector
  BY Zenon DEF SpawnFailed, Leave
<1>5. Left => DropReceivers
  BY Zenon DEF Left
<1>6. BatchReceive \/ InteractiveReceive \/ DrainReadyEvents => ReceiveStep
  BY Zenon DEF BatchReceive, InteractiveReceive, DrainReadyEvents, ReceiveStep
<1> QED
  BY <1>1, <1>2, <1>3, <1>4, <1>5, <1>6, Zenon DEF MainStep, Next

LEMMA ProcessIsCollectorStep == [LltopNext]_all_vars => [Next]_vars
<1>1. WorkerThread => Run \/ WorkerStep
  BY Zenon DEF WorkerThread
<1>2. Kernel => SubmitSample
  BY Zenon DEF Kernel
<1>3. Exited \/ UNCHANGED all_vars => UNCHANGED vars
  BY Zenon DEF Exited, all_vars
<1> QED
  BY MainIsCollectorStep, <1>1, <1>2, <1>3, Zenon DEF LltopNext, Next

\* The process with its worker thread behaves as Collector specifies, so that
\* what is proved of the collector for any caller holds within lltop: run
\* takes apart what prepare returned, each front end owns the collector, and
\* nothing receives from it once its drop has begun.
THEOREM UsesCollector == LltopSpec => Spec
<1>1. LltopInit => Init
  BY Zenon DEF LltopInit
<1> QED
  BY <1>1, ProcessIsCollectorStep, PTL DEF LltopSpec, Spec

-----------------------------------------------------------------------------
(* The way out.                                                             *)

\* The worker detaches the programs before it can be joined.
Detached == wpc \in {"drop_deliveries", "caught", "drop_terminal", "done"} => attached = FALSE

\* A failed spawn leaves no thread to wait for: the collector is dropped only
\* after the worker was.  On every other way the front end's result is not
\* that of a failed spawn, and the thread is joined once the collector is gone.
WayOut ==
  /\ main = "returning" => primary # "Spawn"
  /\ main \in {"dropping", "exit", "exited"} /\ primary = "Spawn" => wpc = "done"
  /\ main = "join" => cpc = "dropped"
  /\ main \in {"exit", "exited"} /\ Prepared /\ primary # "Panic"
       => cpc = "dropped" /\ wpc = "done"

CleanInv == TypeOK /\ SampleInHand /\ Detached /\ WayOut

LEMMA DetachedStep == Detached /\ [Next]_vars => Detached'
<1> SUFFICES ASSUME Detached, [Next]_vars PROVE Detached'
  OBVIOUS
<1> USE DEF Detached, ring_vars, channel_vars, worker_vars, consumer_vars, history_vars,
        consumer_rest
<1>1. CASE SubmitSample \/ Run \/ AbandonWorker
  BY <1>1 DEF SubmitSample, Run, AbandonWorker
<1>2. CASE WorkerStep
  BY ZenonT(30), <1>2 DEF WorkerStep, CheckRunning, PollReturns, PollPanics, EnterCallback, Deliver,
     CallbackPanics, ReportCallbackPanic, SendCallbackPanic, InspectPollResult,
     SendPendingNotice, SendPollFailure, DropResources, DropDeliveries, ReportUnwind,
     DropTerminal, AbandonResources
<1>3. CASE ReceiveStep
  BY <1>3 DEF ReceiveStep, TryRecv, RecvTimeout, TerminalNow, TerminalOrStop, TerminalUntil,
     ReadDeliveries, ReadTerminal
<1>4. CASE DropCollector \/ DropReceivers
  BY <1>4 DEF DropCollector, DropReceivers
<1>5. CASE UNCHANGED vars
  BY <1>5 DEF vars
<1> QED
  BY <1>1, <1>2, <1>3, <1>4, <1>5 DEF Next, Finished

\* A receive returns an event, one of the collector's errors, or nothing.
LEMMA ReceivedKinds ==
  ASSUME TypeOK, TypeOK', ReceiveStep
  PROVE  Received # "Spawn"
<1>1. CASE log' # log
  <2>1. PICK e : log' = Append(log, e)
    BY <1>1 DEF ReceiveStep, TryRecv, RecvTimeout, TerminalNow, TerminalOrStop, TerminalUntil,
       ReadDeliveries, ReadTerminal, Unpair
  <2>2. log'[Len(log')] \in Delivery \cup {Gap}
    BY <2>1 DEF TypeOK, DataOK
  <2>3. log'[Len(log')].kind # "Spawn"
    BY <2>2 DEF Delivery, Gap
  <2>4. reported' = reported
    BY <1>1 DEF ReceiveStep, TryRecv, RecvTimeout, TerminalNow, TerminalOrStop, TerminalUntil,
       ReadDeliveries, ReadTerminal
  <2> QED
    BY <1>1, <2>3, <2>4 DEF Received
<1>2. CASE log' = log /\ reported' # reported
  <2>1. PICK e : reported' = Append(reported, e)
    BY <1>2 DEF ReceiveStep, TryRecv, RecvTimeout, TerminalNow, TerminalOrStop, TerminalUntil,
       ReadDeliveries, ReadTerminal
  <2>2. reported'[Len(reported')] \in TerminalKind
    BY <2>1 DEF TypeOK, DataOK
  <2> QED
    BY <1>2, <2>2 DEF Received, TerminalKind
<1>3. CASE log' = log /\ reported' = reported
  BY <1>3 DEF Received
<1> QED
  BY <1>1, <1>2, <1>3

\* The other actors leave the main thread, the collector and a worker that is
\* done alone.
LEMMA WayOutOthers ==
  ASSUME WayOut, WorkerThread \/ Kernel PROVE WayOut'
<1>1. UNCHANGED main_vars
  BY Zenon DEF WorkerThread, Kernel
<1>2. cpc' = cpc
  BY ZenonT(30) DEF WorkerThread, Kernel, Run, SubmitSample, WorkerStep, CheckRunning, PollReturns,
     PollPanics, EnterCallback, Deliver, CallbackPanics, ReportCallbackPanic,
     SendCallbackPanic, InspectPollResult, SendPendingNotice, SendPollFailure, DropResources,
     DropDeliveries, ReportUnwind, DropTerminal, AbandonResources, consumer_vars
<1>3. wpc = "done" => wpc' = "done"
  BY ZenonT(30) DEF WorkerThread, Kernel, Run, SubmitSample, WorkerStep, CheckRunning, PollReturns,
     PollPanics, EnterCallback, Deliver, CallbackPanics, ReportCallbackPanic,
     SendCallbackPanic, InspectPollResult, SendPendingNotice, SendPollFailure, DropResources,
     DropDeliveries, ReportUnwind, DropTerminal, AbandonResources, worker_vars
<1> QED
  BY <1>1, <1>2, <1>3 DEF WayOut, Prepared, main_vars

\* Every step of the main thread keeps to the way out.
LEMMA WayOutMain ==
  ASSUME TypeOK, TypeOK', WayOut, MainStep PROVE WayOut'
<1> USE DEF WayOut, Prepared, Go, Fail, Return
<1>1. CASE Minimize
  BY <1>1 DEF Minimize
<1>2. CASE ParseMode
  BY <1>2 DEF ParseMode
<1>3. CASE Prepare \/ Spawn
  BY <1>3 DEF Prepare, Spawn
<1>4. CASE SpawnFails
  BY <1>4 DEF SpawnFails
<1>5. CASE SpawnFailed
  BY <1>5 DEF SpawnFailed, DropCollector, worker_vars
<1>6. CASE Start \/ Input \/ Panic
  BY <1>6 DEF Start, Input, Panic
<1>7. CASE BatchReceive
  <2>1. ReceiveStep
    BY <1>7, Zenon DEF BatchReceive, ReceiveStep
  <2>2. Received # "Spawn"
    BY <2>1, ReceivedKinds
  <2>3. main = "receive" /\ (UNCHANGED main_vars \/ Return(Received) \/ Return("Io"))
    BY <1>7, Zenon DEF BatchReceive
  <2> QED
    BY <2>2, <2>3 DEF main_vars
<1>8. CASE InteractiveReceive
  <2>1. ReceiveStep
    BY <1>8, Zenon DEF InteractiveReceive, ReceiveStep
  <2>2. Received # "Spawn"
    BY <2>1, ReceivedKinds
  <2>3. main = "receive" /\ (UNCHANGED main_vars \/ Return(Received) \/ Drain(0))
    BY <1>8, Zenon DEF InteractiveReceive
  <2> QED
    BY <2>2, <2>3 DEF main_vars, Drain
<1>9. CASE DrainReadyEvents
  <2>1. ReceiveStep
    BY <1>9, Zenon DEF DrainReadyEvents, ReceiveStep
  <2>2. Received # "Spawn"
    BY <2>1, ReceivedKinds
  <2>3. /\ main = "drain"
        /\ \/ UNCHANGED main_vars
           \/ Return(Received)
           \/ Go("input")
           \/ Drain(IF Received = "Event" THEN drained + 1 ELSE drained)
    BY <1>9, Zenon DEF DrainReadyEvents
  <2> QED
    BY <2>2, <2>3 DEF main_vars, Drain
<1>10. CASE Leave
  BY <1>10 DEF Leave, DropCollector, worker_vars
<1>11. CASE Left
  BY <1>11 DEF Left, DropReceivers, consumer_rest, worker_vars
<1>12. CASE JoinWorker
  BY <1>12 DEF JoinWorker, vars, consumer_vars, worker_vars
<1>13. CASE Exit
  BY <1>13 DEF Exit, vars, consumer_vars, worker_vars
<1> QED
  BY <1>1, <1>2, <1>3, <1>4, <1>5, <1>6, <1>7, <1>8, <1>9, <1>10, <1>11, <1>12, <1>13
  DEF MainStep

\* lltop does not exit before the collector is dropped, the worker thread has
\* returned and the BPF programs are detached, whatever failed on the way,
\* except by a panic of the main thread (run, run_batch, tui::run).
THEOREM ExitsCleanly == LltopSpec => []ExitsClean
<1>1. LltopInit => CleanInv
  <2>1. LltopInit => Init
    BY Zenon DEF LltopInit
  <2>2. LltopInit => Detached /\ WayOut
    BY DEF LltopInit, Init, Detached, WayOut
  <2> QED
    BY <2>1, <2>2, TypeInit DEF CleanInv
<1>2. CleanInv /\ [LltopNext]_all_vars => CleanInv'
  <2> SUFFICES ASSUME CleanInv, [LltopNext]_all_vars PROVE CleanInv'
    OBVIOUS
  <2>1. TypeOK' /\ SampleInHand' /\ Detached'
    BY ProcessIsCollectorStep, TypeStep, DetachedStep DEF CleanInv
  <2>2. CASE MainStep
    BY <2>1, <2>2, WayOutMain DEF CleanInv
  <2>3. CASE WorkerThread \/ Kernel
    BY <2>1, <2>3, WayOutOthers DEF CleanInv
  <2>4. CASE Exited \/ UNCHANGED all_vars
    <3>1. UNCHANGED <<main, primary, cpc, wpc>>
      BY <2>4 DEF Exited, all_vars, vars, main_vars, consumer_vars, worker_vars
    <3> QED
      BY <2>1, <3>1 DEF CleanInv, WayOut, Prepared
  <2> QED
    BY <2>2, <2>3, <2>4 DEF LltopNext
<1>3. CleanInv => ExitsClean
  BY DEF CleanInv, Detached, WayOut, ExitsClean
<1> QED
  BY <1>1, <1>2, <1>3, PTL DEF LltopSpec

-----------------------------------------------------------------------------
(* The cause of the exit.  Until the front end returns, receives have only   *)
(* told of losses; the first other error ends it, so that error is the first *)
(* one the worker sent, and later ones do not change that.                   *)

FrontEnd == {"minimize", "parse", "prepare", "spawn", "start", "receive", "drain", "input"}

OnlyNotices == \A i \in DOMAIN reported : reported[i] = "OutputQueueFull"

CauseKept ==
  /\ primary \in {"PollFailure", "WorkerPanic"} => primary = FirstFailure
  /\ primary = "WorkerStop" => FirstFailure = "WorkerStop" /\ wpc \in {"done", "abandoned"}

ExitTells ==
  main = "exited" =>
    /\ exit_code = 0 => primary = "Ok" /\ worker_result = "Ok"
    /\ exit_code = 1 => told # {} /\ {primary, worker_result} \subseteq told \cup {"Ok"}

MainInv ==
  /\ main \in FrontEnd => primary = "Ok" /\ OnlyNotices /\ stopped = FALSE
  /\ main \in {"drain", "input"} => mode = "Interactive"
  /\ main \notin FrontEnd /\ primary = "Ok" => mode = "Interactive"
  /\ ExitTells

CauseInv == MainInv /\ CauseKept

LEMMA LeastElement ==
  ASSUME NEW S, S \subseteq Nat, S # {}
  PROVE  \E n \in S : \A j \in S : n <= j
<1> DEFINE R == OpToRel(<, Nat)
<1>1. \A i, j \in Nat : i < j => <<i, j>> \in R
  BY DEF OpToRel
<1>2. IsWellFoundedOn(R, Nat)
  BY NatLessThanWellFounded
<1> HIDE DEF R
<1>3. PICK n \in S : \A j \in S : ~(<<j, n>> \in R)
  BY Zenon, <1>2, WFMin
<1>4. ASSUME NEW j \in S PROVE n <= j
  <2>1. n \in Nat /\ j \in Nat /\ ~(<<j, n>> \in R)
    BY <1>3
  <2>2. ~(j < n)
    BY <1>1, <2>1
  <2> QED
    BY <2>1, <2>2
<1> QED
  BY <1>4

\* The first failure among the errors sent is the one behind the notices.
LEMMA FirstFailureAt ==
  ASSUME NEW n \in DOMAIN sent, sent \in Seq(TerminalKind), sent[n] # "OutputQueueFull",
         \A i \in DOMAIN sent : i < n => sent[i] = "OutputQueueFull"
  PROVE  FirstFailure = sent[n]
<1> DEFINE fatal == {i \in DOMAIN sent : sent[i] # "OutputQueueFull"}
           first == CHOOSE i \in fatal : \A j \in fatal : i <= j
<1>1. n \in fatal /\ \A j \in fatal : j \in Nat /\ n <= j
  OBVIOUS
<1>2. first \in fatal /\ \A j \in fatal : first <= j
  BY <1>1
<1>3. first = n
  BY <1>1, <1>2
<1> HIDE DEF first
<1>4. FirstFailure = sent[first]
  BY <1>1 DEF FirstFailure, first
<1> QED
  BY <1>3, <1>4

LEMMA NoFailure ==
  ASSUME \A i \in DOMAIN sent : sent[i] = "OutputQueueFull"
  PROVE  FirstFailure = "WorkerStop"
  BY DEF FirstFailure

\* What is sent later comes behind it.
LEMMA FirstFailureStays ==
  ASSUME sent \in Seq(TerminalKind), NEW kind \in TerminalKind, sent' = Append(sent, kind),
         FirstFailure # "WorkerStop"
  PROVE  FirstFailure' = FirstFailure
<1> DEFINE fatal == {i \in DOMAIN sent : sent[i] # "OutputQueueFull"}
           more == {i \in DOMAIN sent' : sent'[i] # "OutputQueueFull"}
<1>1. fatal # {}
  BY DEF FirstFailure
<1>2. /\ DOMAIN sent = 1 .. Len(sent) /\ DOMAIN sent' = 1 .. Len(sent) + 1 /\ Len(sent) \in Nat
      /\ \A i \in DOMAIN sent : sent'[i] = sent[i]
  OBVIOUS
<1>3. PICK n \in fatal : \A j \in fatal : n <= j
  <2>1. fatal \subseteq Nat
    BY <1>2
  <2> HIDE DEF fatal
  <2> QED
    BY ZenonT(30), <1>1, <2>1, LeastElement
<1>4. FirstFailure = sent[n]
  <2>1. \A i \in DOMAIN sent : i < n => sent[i] = "OutputQueueFull"
    BY <1>2, <1>3
  <2> QED
    BY <1>3, <2>1, FirstFailureAt
<1>5. n \in more /\ \A j \in more : n <= j
  BY <1>2, <1>3
<1>6. FirstFailure' = sent'[n]
  <2> DEFINE first == CHOOSE i \in more : \A j \in more : i <= j
  <2>1. first \in more /\ \A j \in more : first <= j
    BY Zenon, <1>5
  <2>2. \A j \in more : j \in Nat
    BY <1>2
  <2>3. first = n
    BY <1>5, <2>1, <2>2
  <2>4. FirstFailure' = sent'[first]
    BY ZenonT(30), <1>5 DEF FirstFailure
  <2> HIDE DEF first
  <2> QED
    BY <2>3, <2>4
<1> QED
  BY <1>2, <1>4, <1>6

\* A worker that ended sends nothing, and no step takes back what was sent.
LEMMA SentGrows ==
  ASSUME [Next]_vars
  PROVE  /\ sent' = sent \/ \E kind \in TerminalKind : sent' = Append(sent, kind)
         /\ wpc \in {"done", "abandoned"} => sent' = sent /\ wpc' \in {"done", "abandoned"}
<1> USE DEF ring_vars, channel_vars, worker_vars, consumer_vars, history_vars, consumer_rest
<1>1. CASE SubmitSample \/ Run \/ AbandonWorker
  BY <1>1 DEF SubmitSample, Run, AbandonWorker
<1>2. CASE \/ CheckRunning \/ (\E err \in BOOLEAN : PollReturns(err)) \/ PollPanics
           \/ EnterCallback \/ (\E kind \in {"Event", "MalformedSample"} : Deliver(kind))
           \/ CallbackPanics \/ InspectPollResult
  BY <1>2 DEF CheckRunning, PollReturns, PollPanics, EnterCallback, Deliver, CallbackPanics,
     InspectPollResult
<1>3. CASE \/ ReportCallbackPanic \/ SendCallbackPanic \/ SendPendingNotice \/ SendPollFailure
           \/ ReportUnwind
  BY <1>3 DEF ReportCallbackPanic, SendCallbackPanic, SendPendingNotice, SendPollFailure,
     ReportUnwind, NotifyPendingLoss, TrySendTerminal, TerminalKind
<1>4. CASE \/ \E panic \in BOOLEAN : DropResources(panic)
           \/ DropDeliveries \/ DropTerminal \/ AbandonResources
  BY <1>4 DEF DropResources, DropDeliveries, DropTerminal, AbandonResources
<1>5. CASE ReceiveStep \/ DropCollector \/ DropReceivers \/ UNCHANGED vars
  BY ZenonT(30), <1>5 DEF ReceiveStep, TryRecv, RecvTimeout, TerminalNow, TerminalOrStop, TerminalUntil,
     ReadDeliveries, ReadTerminal, DropCollector, DropReceivers, vars
<1> QED
  BY <1>1, <1>2, <1>3, <1>4, <1>5 DEF Next, WorkerStep, Finished

\* The cause outlives every later step.
LEMMA CauseStays ==
  ASSUME TypeOK, CauseKept, [Next]_vars, primary' = primary
  PROVE  CauseKept'
<1>0. sent \in Seq(TerminalKind)
  BY DEF TypeOK, DataOK
<1>1. CASE sent' = sent
  <2>1. FirstFailure' = FirstFailure
    BY <1>1 DEF FirstFailure
  <2> QED
    BY <2>1, SentGrows DEF CauseKept
<1>2. CASE sent' # sent
  <2>1. PICK kind \in TerminalKind : sent' = Append(sent, kind)
    BY <1>2, SentGrows
  <2>2. wpc \notin {"done", "abandoned"}
    BY <1>2, SentGrows
  <2>3. primary # "WorkerStop"
    BY <2>2 DEF CauseKept
  <2>4. primary \in {"PollFailure", "WorkerPanic"} => FirstFailure' = FirstFailure
    BY <1>0, <2>1, FirstFailureStays DEF CauseKept
  <2> QED
    BY <2>3, <2>4 DEF CauseKept
<1> QED
  BY <1>1, <1>2

\* A receive that only told of losses so far returns a delivery, a notice or
\* nothing, or the first failure.
Harmless == {"Event", "MalformedSample", "OutputQueueFull", "Empty"}

Ends(kind) ==
  /\ kind \in {"PollFailure", "WorkerPanic", "WorkerStop"}
  /\ FirstFailure' = kind
  /\ kind = "WorkerStop" => wpc' \in {"done", "abandoned"}
  /\ cpc' = "idle"

LEMMA ReceiveOutcome ==
  ASSUME TypeOK, TypeOK', TInv, ReceiveStep, OnlyNotices, stopped = FALSE
  PROVE  \/ Received \in Harmless /\ OnlyNotices' /\ stopped' = FALSE
         \/ Ends(Received)
<1>0. reported \in Seq(TerminalKind) /\ terminal \in Seq(TerminalKind)
  BY DEF TypeOK, DataOK
<1>1. CASE TryRecv \/ RecvTimeout
  <2>1. UNCHANGED <<reported, stopped>>
    BY <1>1 DEF TryRecv, RecvTimeout, ReadDeliveries
  <2>2. CASE log' # log
    <3>1. PICK e : log' = Append(log, e)
      BY <1>1, <2>2 DEF TryRecv, RecvTimeout, ReadDeliveries, Unpair
    <3>2. log'[Len(log')] \in Delivery \cup {Gap}
      BY <3>1 DEF TypeOK, DataOK
    <3>3. log'[Len(log')].kind \in {"Event", "MalformedSample", "OutputQueueFull"}
      BY <3>2 DEF Delivery, Gap
    <3> QED
      BY <2>1, <2>2, <3>3 DEF Received, OnlyNotices, Harmless
  <2>3. CASE log' = log
    BY <2>1, <2>3 DEF Received, OnlyNotices, Harmless
  <2> QED
    BY ZenonT(30), <2>2, <2>3
<1>2. ASSUME NEW onEmpty, ReadTerminal(onEmpty), ReceiverAlive
      PROVE  \/ Received \in Harmless /\ OnlyNotices' /\ stopped' = FALSE
             \/ Ends(Received)
  <2>1. log' = log /\ sent' = sent /\ wpc' = wpc /\ sent = reported \o terminal
    BY <1>2 DEF ReadTerminal, consumer_rest, history_vars, worker_vars, TInv, NoReportLost
  <2>2. CASE terminal # <<>>
    <3> DEFINE kind == Head(terminal)
               n == Len(reported) + 1
    <3>1. /\ reported' = Append(reported, kind) /\ cpc' = "idle" /\ stopped' = stopped
          /\ kind \in TerminalKind /\ n \in Nat
      BY <1>0, <1>2, <2>2 DEF ReadTerminal
    <3>2. /\ sent \in Seq(TerminalKind) /\ n \in DOMAIN sent /\ sent[n] = kind
          /\ \A i \in DOMAIN sent : i < n => i \in DOMAIN reported /\ sent[i] = reported[i]
      BY <1>0, <2>1, <2>2
    <3>3. /\ reported' # reported /\ reported'[Len(reported')] = kind
          /\ \A i \in DOMAIN reported' : (i \in DOMAIN reported /\ reported'[i] = reported[i])
                                           \/ reported'[i] = kind
      BY <1>0, <3>1
    <3>4. Received = kind
      BY <2>1, <3>1, <3>3 DEF Received
    <3> HIDE DEF kind, n
    <3>5. CASE kind = "OutputQueueFull"
      BY <3>1, <3>3, <3>4, <3>5 DEF OnlyNotices, Harmless
    <3>6. CASE kind # "OutputQueueFull"
      <4>1. FirstFailure = kind
        BY <3>2, <3>6, FirstFailureAt DEF OnlyNotices
      <4>2. FirstFailure' = FirstFailure
        BY <2>1 DEF FirstFailure
      <4> QED
        BY <3>1, <3>4, <3>6, <4>1, <4>2 DEF Ends, TerminalKind
    <3> QED
      BY ZenonT(30), <3>5, <3>6
  <2>3. CASE terminal = <<>> /\ ~terminal_connected
    <3>1. stopped' = TRUE /\ cpc' = "idle" /\ reported' = reported
      BY <1>2, <2>3 DEF ReadTerminal
    <3>2. sent = reported
      BY <1>0, <2>1, <2>3, ConcatEmpty
    <3>3. FirstFailure = "WorkerStop"
      BY <3>2, NoFailure DEF OnlyNotices
    <3>4. FirstFailure' = FirstFailure
      BY <2>1 DEF FirstFailure
    <3>5. wpc \in {"done", "abandoned"}
      BY <2>3 DEF TInv, TerminalConnected
    <3>6. Received = "WorkerStop"
      BY Zenon, <2>1, <3>1 DEF Received
    <3> QED
      BY <2>1, <3>1, <3>3, <3>4, <3>5, <3>6 DEF Ends
  <2>4. CASE terminal = <<>> /\ terminal_connected
    <3>1. UNCHANGED <<reported, stopped>>
      BY <1>2, <2>4 DEF ReadTerminal
    <3> QED
      BY <2>1, <3>1 DEF Received, OnlyNotices, Harmless
  <2> QED
    BY Zenon, <2>2, <2>3, <2>4
<1>3. CASE TerminalNow
  BY Zenon, <1>2, <1>3 DEF TerminalNow, ReceiverAlive
<1>4. CASE TerminalOrStop
  BY Zenon, <1>2, <1>4 DEF TerminalOrStop, ReceiverAlive
<1>5. CASE TerminalUntil
  BY Zenon, <1>2, <1>5 DEF TerminalUntil, ReceiverAlive
<1> QED
  BY Zenon, <1>1, <1>3, <1>4, <1>5 DEF ReceiveStep

\* A receive of a front end goes on while its result is harmless and returns
\* with the first failure.
LEMMA CauseReceive ==
  ASSUME TypeOK, TypeOK', TInv, CauseInv, [Next]_vars, ReceiveStep,
         main \in {"receive", "drain"}, UNCHANGED <<mode, worker_result, exit_code, told>>,
         main' \in {"receive", "drain", "input"} => mode = "Interactive" \/ main' = "receive",
         \/ main' \in {"receive", "drain", "input"} /\ primary' = primary
              /\ (cpc' = "idle" => ~Fatal(Received))
         \/ main' = "returning" /\ primary' = Received /\ Fatal(Received)
         \/ main' = "returning" /\ primary' = "Io"
  PROVE  CauseInv'
<1>0. primary = "Ok" /\ OnlyNotices /\ stopped = FALSE
  BY DEF CauseInv, MainInv, FrontEnd
<1>1. CASE Received \in Harmless /\ OnlyNotices' /\ stopped' = FALSE
  <2>1. ~Fatal(Received)
    BY <1>1 DEF Harmless, Fatal, Recoverable
  <2>2. primary' = "Ok" \/ primary' = "Io"
    BY <1>0, <2>1
  <2> QED
    BY <1>0, <1>1, <2>1, <2>2 DEF CauseInv, MainInv, ExitTells, CauseKept, FrontEnd
<1>2. CASE Ends(Received)
  <2>1. Fatal(Received) /\ cpc' = "idle"
    BY <1>2 DEF Ends, Fatal, Recoverable
  <2>2. main' = "returning" /\ (primary' = Received \/ primary' = "Io")
    BY <2>1
  <2>3. CauseKept'
    BY <1>2, <2>2 DEF CauseKept, Ends
  <2>4. primary' # "Ok"
    BY <1>2, <2>2 DEF Ends
  <2> QED
    BY <2>2, <2>3, <2>4 DEF CauseInv, MainInv, ExitTells, FrontEnd
<1> QED
  BY ZenonT(30), <1>0, <1>1, <1>2, ReceiveOutcome

LEMMA CauseMain ==
  ASSUME TypeOK, TypeOK', TInv, CauseInv, [Next]_vars, MainStep PROVE CauseInv'
<1> USE DEF Go, Fail, Return
<1>a. ASSUME UNCHANGED vars PROVE UNCHANGED <<reported, stopped, sent, wpc>>
  BY <1>a DEF vars, consumer_vars, worker_vars, history_vars
<1>b. ASSUME UNCHANGED <<reported, stopped, sent, wpc>>
      PROVE  FirstFailure' = FirstFailure /\ OnlyNotices' = OnlyNotices
  BY <1>b DEF FirstFailure, OnlyNotices
<1>1. CASE Minimize \/ ParseMode \/ Prepare \/ Spawn
  <2>1. UNCHANGED <<reported, stopped, sent, wpc>>
    BY <1>a, <1>1, Zenon DEF Minimize, ParseMode, Prepare, Spawn
  <2> QED
    BY <1>b, <1>1, <2>1 DEF Minimize, ParseMode, Prepare, Spawn, CauseInv, MainInv, CauseKept,
       ExitTells, FrontEnd
<1>2. CASE SpawnFails
  BY <1>2 DEF SpawnFails, CauseInv, MainInv, CauseKept, ExitTells, FrontEnd
<1>3. CASE SpawnFailed \/ Leave \/ Left
  <2>1. CauseKept'
    BY <1>3, CauseStays DEF SpawnFailed, Leave, Left, CauseInv
  <2> QED
    BY <1>3, <2>1 DEF SpawnFailed, Leave, Left, CauseInv, MainInv, ExitTells, FrontEnd
<1>4. CASE Start \/ Panic
  <2>1. UNCHANGED <<reported, stopped, sent, wpc>>
    BY <1>a, <1>4, Zenon DEF Start, Panic
  <2> QED
    BY <1>b, <1>4, <2>1 DEF Start, Panic, CauseInv, MainInv, CauseKept, ExitTells, FrontEnd
<1>5. CASE Input
  <2>1. UNCHANGED <<reported, stopped, sent, wpc>>
    BY <1>a, <1>5, Zenon DEF Input
  <2> QED
    BY <1>b, <1>5, <2>1 DEF Input, CauseInv, MainInv, CauseKept, ExitTells, FrontEnd
<1>6. CASE BatchReceive
  <2>1. ReceiveStep
    BY <1>6, Zenon DEF BatchReceive, ReceiveStep
  <2>2. /\ main = "receive"
        /\ \/ UNCHANGED main_vars /\ (cpc' = "idle" => ~Fatal(Received))
           \/ Return(Received) /\ Fatal(Received)
           \/ Return("Io")
    BY <1>6, Zenon DEF BatchReceive
  <2> QED
    BY <2>1, <2>2, CauseReceive DEF main_vars
<1>7. CASE InteractiveReceive
  <2>1. ReceiveStep
    BY <1>7, Zenon DEF InteractiveReceive, ReceiveStep
  <2>2. /\ main = "receive" /\ mode = "Interactive"
        /\ \/ UNCHANGED main_vars /\ cpc' # "idle"
           \/ Return(Received) /\ Fatal(Received)
           \/ Drain(0) /\ ~Fatal(Received)
    BY <1>7, Zenon DEF InteractiveReceive
  <2> QED
    BY <2>1, <2>2, CauseReceive DEF main_vars, Drain
<1>8. CASE DrainReadyEvents
  <2>1. ReceiveStep
    BY <1>8, Zenon DEF DrainReadyEvents, ReceiveStep
  <2>2. /\ main = "drain"
        /\ \/ UNCHANGED main_vars /\ cpc' # "idle"
           \/ Return(Received) /\ Fatal(Received)
           \/ Go("input") /\ ~Fatal(Received)
           \/ /\ Drain(IF Received = "Event" THEN drained + 1 ELSE drained)
              /\ ~Fatal(Received)
    BY <1>8, Zenon DEF DrainReadyEvents
  <2>3. mode = "Interactive"
    BY <2>2 DEF CauseInv, MainInv
  <2> QED
    BY <2>1, <2>2, <2>3, CauseReceive DEF main_vars, Drain
<1>9. CASE JoinWorker \/ Exit
  <2>1. CauseKept'
    BY <1>9, CauseStays DEF JoinWorker, Exit, CauseInv
  <2>2. CASE JoinWorker
    BY <2>1, <2>2 DEF JoinWorker, CauseInv, MainInv, ExitTells, FrontEnd
  <2>3. CASE Exit
    <3>1. ExitTells'
      BY <2>3 DEF Exit, ExitTells, combine_execution_and_worker_results
    <3> QED
      BY <2>1, <2>3, <3>1 DEF Exit, CauseInv, MainInv, FrontEnd
  <2> QED
    BY <1>9, <2>2, <2>3
<1> QED
  BY <1>1, <1>2, <1>3, <1>4, <1>5, <1>6, <1>7, <1>8, <1>9 DEF MainStep

LEMMA CauseOthers ==
  ASSUME TypeOK, CauseInv, [Next]_vars, WorkerThread \/ Kernel PROVE CauseInv'
<1>1. UNCHANGED main_vars
  BY Zenon DEF WorkerThread, Kernel
<1>2. CauseKept'
  BY <1>1, CauseStays DEF CauseInv, main_vars
<1>3. UNCHANGED <<reported, stopped>>
  BY Zenon DEF WorkerThread, Kernel, Run, SubmitSample, WorkerStep, CheckRunning, PollReturns,
     PollPanics, EnterCallback, Deliver, CallbackPanics, ReportCallbackPanic,
     SendCallbackPanic, InspectPollResult, SendPendingNotice, SendPollFailure, DropResources,
     DropDeliveries, ReportUnwind, DropTerminal, AbandonResources, consumer_vars
<1>4. OnlyNotices' = OnlyNotices
  BY <1>3 DEF OnlyNotices
<1> QED
  BY <1>1, <1>2, <1>3, <1>4 DEF CauseInv, MainInv, ExitTells, main_vars

\* lltop exits with 0 only if the user quit and the worker ended well; the
\* error it otherwise exits with includes the first one the worker reported
\* (run_batch, handle_collector_error, combine_execution_and_worker_results).
THEOREM CauseIsTold == LltopSpec => []CauseTold
<1>1. LltopInit => CauseInv
  BY DEF LltopInit, Init, CauseInv, MainInv, OnlyNotices, CauseKept, ExitTells, FrontEnd
<1>2. TypeOK /\ TypeOK' /\ TInv /\ CauseInv /\ [LltopNext]_all_vars => CauseInv'
  <2> SUFFICES ASSUME TypeOK, TypeOK', TInv, CauseInv, [LltopNext]_all_vars PROVE CauseInv'
    OBVIOUS
  <2>1. [Next]_vars
    BY ProcessIsCollectorStep
  <2>2. CASE MainStep
    BY <2>1, <2>2, CauseMain
  <2>3. CASE WorkerThread \/ Kernel
    BY <2>1, <2>3, CauseOthers
  <2>4. CASE Exited \/ UNCHANGED all_vars
    <3>1. UNCHANGED <<main, mode, primary, worker_result, exit_code, told, reported, stopped,
                      sent, wpc>>
      BY <2>4 DEF Exited, all_vars, vars, main_vars, consumer_vars, worker_vars, history_vars
    <3>2. FirstFailure' = FirstFailure /\ OnlyNotices' = OnlyNotices
      BY <3>1 DEF FirstFailure, OnlyNotices
    <3> QED
      BY <3>1, <3>2 DEF CauseInv, MainInv, ExitTells, CauseKept
  <2> QED
    BY <2>2, <2>3, <2>4 DEF LltopNext
<1>3. CauseInv => CauseTold
  BY DEF CauseInv, MainInv, ExitTells, CauseKept, CauseTold, FrontEnd
<1> QED
  BY <1>1, <1>2, <1>3, UsesCollector, TInvAlways, PTL DEF LltopSpec
=============================================================================
