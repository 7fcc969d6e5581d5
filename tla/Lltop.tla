-------------------------------- MODULE Lltop --------------------------------
(***************************************************************************)
(* The life of the lltop process (lltop/src/main.rs) around the collector  *)
(* and its worker thread: minimize, parse_mode, prepare and spawn, one of  *)
(* the two front ends, and the way out through drop and join.              *)
(*                                                                         *)
(* The main thread is a sequence of the steps below; the steps of the      *)
(* worker thread and of receives are those of Collector, whose state       *)
(* exists from the moment prepare succeeds.  What minimize and prepare do  *)
(* is in Privilege and Preparation, what lines and screens show in Batch   *)
(* and Tui; here they succeed or fail.                                     *)
(***************************************************************************)
EXTENDS Collector

CONSTANT MAX_READY_EVENTS_PER_CYCLE  \* 1024

ASSUME MaxReadyAssumption == MAX_READY_EVENTS_PER_CYCLE \in Nat \ {0}

VARIABLES
  main,           \* where the main thread is
  mode,           \* Mode
  paused,         \* App::paused
  drained,        \* `count` of drain_ready_events
  primary,        \* the result of everything before the join: "Ok" or an error
  worker_result,  \* the result of join_worker
  exit_code,
  told            \* the errors named by the last diagnostic

main_vars == <<main, mode, paused, drained, primary, worker_result, exit_code, told>>
all_vars == <<vars, main_vars>>

Prepared == main \notin {"minimize", "parse", "prepare"}
              /\ primary \notin {"Minimize", "Usage", "Prepare"}

-----------------------------------------------------------------------------
(* Up to the front end.                                                     *)

Go(next) ==
  /\ main' = next
  /\ UNCHANGED <<mode, paused, drained, primary, worker_result, exit_code, told>>

\* `?`: what was constructed so far is dropped on the way to `next`.
Fail(error, next) ==
  /\ primary' = error
  /\ main' = next
  /\ UNCHANGED <<mode, paused, drained, worker_result, exit_code, told>>

Minimize ==
  /\ main = "minimize"
  /\ Go("parse") \/ Fail("Minimize", "exit")
  /\ UNCHANGED vars

ParseMode ==
  /\ main = "parse"
  /\ \/ /\ mode' \in {"Batch", "Interactive"}
        /\ main' = "prepare"
        /\ UNCHANGED <<paused, drained, primary, worker_result, exit_code, told>>
     \/ Fail("Usage", "exit")
  /\ UNCHANGED vars

Prepare ==
  /\ main = "prepare"
  /\ Go("spawn") \/ Fail("Prepare", "exit")
  /\ UNCHANGED vars

Spawn ==
  /\ main = "spawn"
  /\ Go("start")
  /\ UNCHANGED vars

\* The closure with the worker is dropped inside spawn, then the collector.
SpawnFails ==
  /\ main = "spawn"
  /\ AbandonWorker
  /\ Fail("Spawn", "spawn_failed")

SpawnFailed ==
  /\ main = "spawn_failed"
  /\ wpc = "done"
  /\ DropCollector
  /\ Go("dropping")

-----------------------------------------------------------------------------
(* The front ends.  Both own the collector and drop it as they return.       *)

\* The front end returns; its collector is dropped.
Return(result) ==
  /\ main' = "returning"
  /\ primary' = result
  /\ UNCHANGED <<mode, paused, drained, worker_result, exit_code, told>>

\* The ready signal, or the terminal session.
Start ==
  /\ main = "start"
  /\ Go("receive") \/ Return("Io")
  /\ UNCHANGED vars

Recoverable_PollFailure(kind) == kind \in {"OutputQueueFull", "MalformedSample", "PollFailure"}

\* recoverable_collector_error, and the same kinds in run_batch.
Recoverable(kind) == kind \in {"OutputQueueFull", "MalformedSample"}

\* What the receive returned whose last step this is: "Event", the kind of an
\* error, or "Empty" (or Timeout).
Received ==
  CASE log' # log -> log'[Len(log')].kind
    [] reported' # reported -> reported'[Len(reported')]
    [] stopped' # stopped -> "WorkerStop"
    [] OTHER -> "Empty"

Fatal(result) == result \notin {"Event", "Empty"} /\ ~Recoverable(result)

\* One round of run_batch: a line or a warning that cannot be written ends it.
BatchReceive ==
  /\ main = "receive" /\ mode = "Batch"
  /\ RecvTimeout \/ TerminalNow \/ TerminalUntil
  /\ IF cpc' # "idle" THEN UNCHANGED main_vars
     ELSE IF Fatal(Received) THEN Return(Received)
     ELSE \/ UNCHANGED main_vars
          \/ Received # "Empty" /\ Return("Io")

Drain(count) ==
  /\ main' = IF count < MAX_READY_EVENTS_PER_CYCLE THEN "drain" ELSE "input"
  /\ drained' = count
  /\ UNCHANGED <<mode, paused, primary, worker_result, exit_code, told>>

\* The receive that starts a cycle of tui::run.
InteractiveReceive ==
  /\ main = "receive" /\ mode = "Interactive"
  /\ RecvTimeout \/ TerminalNow \/ TerminalUntil
  /\ IF cpc' # "idle" THEN UNCHANGED main_vars
     ELSE IF Fatal(Received) THEN Return(Received)
     ELSE Drain(0)

\* drain_ready_events
DrainReadyEvents ==
  /\ main = "drain"
  /\ TryRecv \/ TerminalNow \/ TerminalOrStop
  /\ IF cpc' # "idle" THEN UNCHANGED main_vars
     ELSE IF Fatal(Received) THEN Return(Received)
     ELSE IF Received = "Empty" THEN Go("input")
     ELSE Drain(IF Received = "Event" THEN drained + 1 ELSE drained)

\* Drawing or reading input fails, the user quits, or the next cycle begins.
Input ==
  /\ main = "input"
  /\ \/ Return("Io")
     \/ Return("Ok")
     \/ /\ paused' \in BOOLEAN
        /\ main' = IF paused' THEN "input" ELSE "receive"
        /\ UNCHANGED <<mode, drained, primary, worker_result, exit_code, told>>
  /\ UNCHANGED vars

\* A panic of the main thread unwinds and drops what it owns, too.
Panic ==
  /\ main \in {"start", "receive", "drain", "input"}
  /\ cpc = "idle"
  /\ Return("Panic")
  /\ UNCHANGED vars

Leave_JoinFirst ==
  /\ main = "returning"
  /\ Go("join")
  /\ UNCHANGED vars

Leave ==
  /\ main = "returning"
  /\ DropCollector
  /\ Go("dropping")

-----------------------------------------------------------------------------
(* The way out.                                                             *)

Left_EarlyReturn ==
  /\ main = "dropping"
  /\ DropReceivers
  /\ Go(IF primary = "Ok" THEN "join" ELSE "exit")

\* The collector is gone.  Without a thread there is nothing to join, and a
\* panic drops the JoinHandle, which detaches the thread.
Left ==
  /\ main = "dropping"
  /\ DropReceivers
  /\ Go(IF primary \in {"Spawn", "Panic"} THEN "exit" ELSE "join")

\* join_worker; run contains the worker's panics, but a panic outside it is
\* an error of the join.
JoinWorker ==
  /\ main = "join"
  /\ wpc = "done"
  /\ worker_result' \in {"Ok", "WorkerThread"}
  /\ main' = "exit"
  /\ UNCHANGED <<vars, mode, paused, drained, primary, exit_code, told>>

combine_execution_and_worker_results == {primary, worker_result} \ {"Ok"}

\* main prints what run returned.  Privileges that are still pending are
\* dropped before, which aborts if they cannot be given up (Privilege).
Exit ==
  /\ main = "exit"
  /\ main' = "exited"
  /\ \/ /\ told' = combine_execution_and_worker_results
        /\ exit_code' = CASE primary = "Panic" -> 101
                          [] told' = {} -> 0
                          [] OTHER -> 1
     \/ /\ primary \in {"Usage", "Prepare"}
        /\ exit_code' = 134
        /\ told' = {}
  /\ UNCHANGED <<vars, mode, paused, drained, primary, worker_result>>

-----------------------------------------------------------------------------

LltopInit ==
  /\ Init
  /\ main = "minimize" /\ mode = "None" /\ paused = FALSE /\ drained = 0
  /\ primary = "Ok" /\ worker_result = "Ok" /\ exit_code = 0 /\ told = {}

MainStep ==
  \/ Minimize \/ ParseMode \/ Prepare \/ Spawn \/ SpawnFails \/ SpawnFailed
  \/ Start \/ BatchReceive \/ InteractiveReceive \/ DrainReadyEvents \/ Input \/ Panic
  \/ Leave \/ Left \/ JoinWorker \/ Exit

\* The spawned thread runs the worker; a worker that was not spawned is
\* dropped by the main thread.
WorkerThread ==
  /\ main \notin {"exited", "spawn"}
  /\ Prepared
  /\ Run \/ WorkerStep
  /\ UNCHANGED main_vars

Kernel ==
  /\ main # "exited"
  /\ Prepared
  /\ SubmitSample
  /\ UNCHANGED main_vars

Exited == main = "exited" /\ UNCHANGED all_vars

LltopNext == MainStep \/ WorkerThread \/ Kernel \/ Exited

LltopSpec == LltopInit /\ [][LltopNext]_all_vars

\* Both threads are scheduled; system calls of the main thread, writes to
\* standard output included, return.
FairLltopSpec == LltopSpec /\ WF_all_vars(MainStep) /\ WF_all_vars(WorkerThread)

-----------------------------------------------------------------------------

\* However the front end ended, lltop does not exit before the collector is
\* dropped, the worker thread has returned and the BPF programs are detached;
\* only a panic of the main thread itself leaves the thread behind.
ExitsClean ==
  main = "exited" /\ Prepared /\ primary # "Panic"
    => cpc = "dropped" /\ wpc = "done" /\ ~attached

\* The first terminal error the worker sent that is no notice of losses.
FirstFailure ==
  LET fatal == {i \in DOMAIN sent : sent[i] # "OutputQueueFull"}
  IN IF fatal = {} THEN "WorkerStop" ELSE sent[CHOOSE i \in fatal : \A j \in fatal : i <= j]

\* lltop succeeds only if the user quit and the worker ended well, batch mode
\* never does; and if the collector ended the front end, the error it exits
\* with is the first one the worker reported, a stop only if there was none,
\* together with a failed join (run_batch, handle_collector_error,
\* combine_execution_and_worker_results).
CauseTold ==
  main = "exited" =>
    /\ exit_code = 0 => mode = "Interactive" /\ primary = "Ok" /\ worker_result = "Ok"
    /\ exit_code = 1 => told # {} /\ {primary, worker_result} \subseteq told \cup {"Ok"}
    /\ primary \in {"PollFailure", "WorkerPanic", "WorkerStop"} => primary = FirstFailure

\* Once the front end returns the process ends, and the end of the worker ends
\* the front end unless the user has paused it.
ProcessEnds ==
  /\ main \in {"spawn_failed", "returning", "dropping", "join", "exit"} ~> main = "exited"
  /\ (Prepared /\ wpc = "done") ~> (main = "exited" \/ paused)
=============================================================================
