------------------------------ MODULE Privilege ------------------------------
(***************************************************************************)
(* Privileges of src/privilege.rs: the credentials of the calling thread   *)
(* while it minimizes them for BPF setup, finishes using them, and drops   *)
(* the Privileges value.                                                   *)
(*                                                                         *)
(* A call is a list of operations; each one may fail, and each transition  *)
(* may also report success without an effect, which is what verification   *)
(* is there for.  Nobody else changes the thread's credentials, so a loop  *)
(* over capabilities is one step.                                          *)
(***************************************************************************)
EXTENDS Naturals, Sequences

CONSTANTS
  LastCap,              \* the kernel's greatest capability number
  KnownCapabilityBits,  \* u64::BITS
  CAP_BPF, CAP_PERFMON, CAP_SETPCAP,
  InitialCredentials    \* what the process may be started with

ASSUME CapabilityAssumption ==
  /\ LastCap \in Nat /\ KnownCapabilityBits \in Nat /\ LastCap < KnownCapabilityBits
  /\ {CAP_BPF, CAP_PERFMON, CAP_SETPCAP} \subseteq 0 .. LastCap
  /\ CAP_SETPCAP \notin {CAP_BPF, CAP_PERFMON}

VARIABLES
  creds,    \* credentials of the calling thread
  others,   \* credentials of the other threads of the process
  policy,   \* Privileges::policy; "none" while no value exists
  frame,    \* the call being executed, or "caller"
  todo,     \* its remaining operations
  armed,    \* MinimizationCleanup::armed
  aborted,  \* the process called abort
  result,   \* how the last call ended
  before    \* history: the credentials minimize was called with

vars == <<creds, others, policy, frame, todo, armed, aborted, result, before>>

-----------------------------------------------------------------------------

Capabilities == 0 .. LastCap

Credentials ==
  [effective : SUBSET Capabilities, permitted : SUBSET Capabilities,
   inheritable : SUBSET Capabilities, ambient : SUBSET Capabilities,
   bounding : SUBSET Capabilities, no_new_privs : BOOLEAN]

\* The kernel keeps effective within permitted, and ambient within both
\* permitted and inheritable.
ASSUME CredentialsAssumption ==
  \A c \in InitialCredentials :
    /\ c \in Credentials
    /\ c.effective \subseteq c.permitted
    /\ c.ambient \subseteq c.permitted \cap c.inheritable

SETUP_CAPABILITIES == {CAP_BPF, CAP_PERFMON}

each_supported_capability_StopsEarly == {c \in 0 .. KnownCapabilityBits - 1 : c < LastCap}

\* Bits are tried upwards until one is not supported (EINVAL).
each_supported_capability == {c \in 0 .. KnownCapabilityBits - 1 : c <= LastCap}

\* Privileges::minimize; preflight_minimization is its first two operations.
MinimizeOps ==
  <<"check_thread", "preflight", "check_thread", "set_no_new_privs", "check_thread",
    "clear_ambient", "check_thread", "clear_bounding", "check_thread", "set_setup",
    "verify_setup">>

FinishOps_Unchecked == <<"clear_ambient", "clear_bounding", "set_empty", "verify_empty">>

\* finish_policy_with, for a minimized policy.
FinishOps ==
  <<"check_thread", "clear_ambient", "check_thread", "clear_bounding", "check_thread",
    "set_empty", "verify_empty">>

-----------------------------------------------------------------------------
(* How an operation ends.                                                   *)

\* The call returns to the caller.
Return(value) == frame' = "caller" /\ todo' = <<>> /\ result' = value

\* After its last operation a call returns Ok: minimize with a new value,
\* finish and drop with a finished policy, the cleanup with minimize's error.
Complete ==
  CASE frame = "minimize" ->
         policy' = "Minimized" /\ armed' = FALSE /\ Return("ok")
    [] frame = "finish" -> policy' = "Finished" /\ Return("ok") /\ UNCHANGED armed
    [] frame = "drop" -> policy' = "none" /\ Return("ok") /\ UNCHANGED armed
    [] frame = "cleanup" ->
         policy' = "none" /\ armed' = FALSE /\ Return("minimize_failed")

Advance_PendingLate ==
  IF Len(todo) = 1 THEN Complete
  ELSE /\ todo' = Tail(todo)
       /\ armed' = (armed \/ Head(todo) = "set_no_new_privs")
       /\ UNCHANGED <<frame, result, policy>>

\* The operation succeeded.  In a cleanup, `policy` is its local policy.
Advance ==
  IF Len(todo) = 1 THEN Complete
  ELSE /\ todo' = Tail(todo)
       /\ policy' = IF Head(todo) = "set_empty" THEN "VerificationPending" ELSE policy
       /\ armed' = (armed \/ Head(todo) = "set_no_new_privs")
       /\ UNCHANGED <<frame, result>>

Fail_Unarmed ==
  \/ /\ frame = "minimize"
     /\ Return("minimize_failed")
     /\ UNCHANGED <<policy, armed, aborted>>
  \/ /\ frame = "finish"
     /\ Return("finish_failed")
     /\ UNCHANGED <<policy, armed, aborted>>
  \/ /\ frame \in {"drop", "cleanup"}
     /\ aborted' = TRUE
     /\ UNCHANGED <<policy, frame, todo, armed, result>>

\* The operation failed, and `?` returns: out of an armed minimize by way of
\* MinimizationCleanup, out of a destructor by aborting the process.
Fail ==
  \/ /\ frame = "minimize" /\ ~armed
     /\ Return("minimize_failed")
     /\ UNCHANGED <<policy, armed, aborted>>
  \/ /\ frame = "minimize" /\ armed
     /\ frame' = "cleanup" /\ todo' = FinishOps /\ policy' = "Minimized"
     /\ UNCHANGED <<armed, aborted, result>>
  \/ /\ frame = "finish"
     /\ Return("finish_failed")
     /\ UNCHANGED <<policy, armed, aborted>>
  \/ /\ frame \in {"drop", "cleanup"}
     /\ aborted' = TRUE
     /\ UNCHANGED <<policy, frame, todo, armed, result>>

Succeed == Advance /\ UNCHANGED aborted

Executing(op) == ~aborted /\ todo # <<>> /\ Head(todo) = op

\* Reads change no credentials; they fail if `ok` is false or the read fails.
Inspect(op, ok) ==
  /\ Executing(op)
  /\ (ok /\ Succeed) \/ Fail
  /\ UNCHANGED <<creds, others, before>>

\* A transition takes effect, is ignored though reported as done, or fails.
Transition(op, allowed, new) ==
  /\ Executing(op)
  /\ \/ allowed /\ creds' = new /\ Succeed
     \/ UNCHANGED creds /\ Succeed
     \/ UNCHANGED creds /\ Fail
  /\ UNCHANGED <<others, before>>

-----------------------------------------------------------------------------
(* The operations.                                                          *)

\* /proc/self/task lists one task.
CheckThread == Inspect("check_thread", others = {})

\* The rest of preflight_minimization.
Preflight ==
  Inspect("preflight",
    /\ SETUP_CAPABILITIES \subseteq creds.permitted
    /\ (\E c \in each_supported_capability : c \in creds.bounding)
         => CAP_SETPCAP \in creds.effective)

EnableNoNewPrivs ==
  Transition("set_no_new_privs", TRUE, [creds EXCEPT !.no_new_privs = TRUE])

ClearAmbient == Transition("clear_ambient", TRUE, [creds EXCEPT !.ambient = {}])

\* Dropping a bounding capability takes CAP_SETPCAP; a failure leaves the
\* capabilities from the failing one on.
ClearBounding ==
  \/ Transition("clear_bounding",
       (creds.bounding \cap each_supported_capability) # {} => CAP_SETPCAP \in creds.effective,
       [creds EXCEPT !.bounding = @ \ each_supported_capability])
  \/ /\ Executing("clear_bounding")
     /\ CAP_SETPCAP \in creds.effective
     /\ \E k \in each_supported_capability :
          creds' = [creds EXCEPT !.bounding = {c \in @ : c >= k}]
     /\ Fail
     /\ UNCHANGED <<others, before>>

\* capset, which also takes away ambient capabilities no longer permitted.
SetCapabilities(op, set) ==
  Transition(op, set \subseteq creds.permitted,
    [creds EXCEPT !.effective = set, !.permitted = set, !.inheritable = {}, !.ambient = {}])

SetSetup == SetCapabilities("set_setup", SETUP_CAPABILITIES)

ClearCapabilities == SetCapabilities("set_empty", {})

\* verify(expected)
verify(expected) ==
  /\ creds.no_new_privs
  /\ creds.effective = expected /\ creds.permitted = expected /\ creds.inheritable = {}
  /\ \A c \in each_supported_capability : c \notin creds.ambient /\ c \notin creds.bounding

VerifySetup == Inspect("verify_setup", verify(SETUP_CAPABILITIES))

VerifyEmpty == Inspect("verify_empty", verify({}))

PrivilegeStep ==
  \/ CheckThread \/ Preflight
  \/ EnableNoNewPrivs \/ ClearAmbient \/ ClearBounding \/ SetSetup \/ ClearCapabilities
  \/ VerifySetup \/ VerifyEmpty

-----------------------------------------------------------------------------
(* The calls.                                                               *)

Idle == frame = "caller" /\ ~aborted

Begin(call, ops) == frame' = call /\ todo' = ops /\ result' = "running"

CallMinimize ==
  /\ Idle /\ policy = "none"
  /\ Begin("minimize", MinimizeOps)
  /\ before' = creds
  /\ UNCHANGED <<creds, others, policy, armed, aborted>>

CallPreserve ==
  /\ Idle /\ policy = "none"
  /\ policy' = "Preserved" /\ result' = "ok"
  /\ UNCHANGED <<creds, others, frame, todo, armed, aborted, before>>

CanPrepare == policy \in {"Minimized", "Preserved"}

\* finish, called by prepare with a policy that ensure_can_prepare accepts.
Finish ==
  /\ CanPrepare
  /\ IF policy = "Preserved" THEN Return("ok") ELSE Begin("finish", FinishOps)
  /\ UNCHANGED <<creds, others, policy, armed, aborted, before>>

CallFinish == Idle /\ Finish

\* ensure_can_prepare refuses a value that is used up.
RefuseFinish ==
  /\ Idle /\ policy \in {"VerificationPending", "Finished"}
  /\ result' = "AlreadyFinalized"
  /\ UNCHANGED <<creds, others, policy, frame, todo, armed, aborted, before>>

\* Drop for Privileges.
DropPrivileges ==
  /\ Idle /\ policy # "none"
  /\ CASE policy \in {"Preserved", "Finished"} -> policy' = "none" /\ Return("ok")
       [] policy = "VerificationPending" ->
            Begin("drop", <<"verify_empty">>) /\ UNCHANGED policy
       [] policy = "Minimized" -> Begin("drop", FinishOps) /\ UNCHANGED policy
  /\ UNCHANGED <<creds, others, armed, aborted, before>>

-----------------------------------------------------------------------------
(* The process around the calls.                                            *)

\* Threads inherit the credentials of the thread that creates them.
SpawnThread ==
  /\ Idle
  /\ others' = others \cup {creds}
  /\ UNCHANGED <<creds, policy, frame, todo, armed, aborted, result, before>>

ThreadExits ==
  /\ ~aborted
  /\ \E c \in others : others' = others \ {c}
  /\ UNCHANGED <<creds, policy, frame, todo, armed, aborted, result, before>>

\* Between calls the caller may make its permitted capabilities ambient.
RaiseAmbient ==
  /\ Idle
  /\ \E c \in creds.permitted :
       creds' = [creds EXCEPT !.inheritable = @ \cup {c}, !.ambient = @ \cup {c}]
  /\ result' = "own_change"
  /\ UNCHANGED <<others, policy, frame, todo, armed, aborted, before>>

Aborted == aborted /\ UNCHANGED vars

Init ==
  /\ creds \in InitialCredentials
  /\ others = {}
  /\ policy = "none" /\ frame = "caller" /\ todo = <<>>
  /\ armed = FALSE /\ aborted = FALSE
  /\ result = "ok" /\ before = creds

Next ==
  \/ PrivilegeStep
  \/ CallMinimize \/ CallPreserve \/ CallFinish \/ RefuseFinish \/ DropPrivileges
  \/ SpawnThread \/ ThreadExits \/ RaiseAmbient
  \/ Aborted

Spec == Init /\ [][Next]_vars
-----------------------------------------------------------------------------

Policies == {"none", "Minimized", "Preserved", "VerificationPending", "Finished"}

\* Credentials are ones the kernel allows; calls, policies and results are
\* those of the source.
TypeOK ==
  /\ creds \in Credentials /\ others \subseteq Credentials /\ before \in Credentials
  /\ creds.effective \subseteq creds.permitted
  /\ creds.ambient \subseteq creds.permitted \cap creds.inheritable
  /\ policy \in Policies
  /\ frame \in {"caller", "minimize", "finish", "drop", "cleanup"}
  /\ frame = "caller" <=> todo = <<>>
  /\ armed \in BOOLEAN /\ aborted \in BOOLEAN
  /\ result \in {"ok", "running", "minimize_failed", "finish_failed", "AlreadyFinalized",
                 "own_change"}

\* No capability is left in any set, nor can one come back.
Powerless(c) ==
  /\ c.no_new_privs
  /\ c.effective = {} /\ c.permitted = {} /\ c.inheritable = {}
  /\ c.ambient = {} /\ c.bounding = {}

\* Once minimized privileges are finished, the process has no authority left
\* in any of its threads, whatever failed or was silently ignored before
\* (finish_policy_with).
NoAuthorityLeft ==
  (Idle /\ policy = "Finished") => \A c \in others \cup {creds} : Powerless(c)

\* A minimize that fails returns with the credentials it found or with none;
\* there is no third outcome (MinimizationCleanup).
FailedMinimizationClean ==
  (Idle /\ result = "minimize_failed") => creds = before \/ Powerless(creds)

\* A minimized value in the caller's hands stands for exactly the setup
\* capabilities, also after a finish that failed: it can be retried, and there
\* is nothing more to give away (minimize, finish_policy_with).
MinimizedExact ==
  (Idle /\ policy = "Minimized") =>
    /\ creds.effective = SETUP_CAPABILITIES /\ creds.permitted = SETUP_CAPABILITIES
    /\ creds.bounding = {} /\ creds.no_new_privs

\* Dropping a minimized value that is not finished returns to the caller only
\* when no thread has authority left: "failure to establish the final state
\* aborts the process" (Drop for Privileges).
DropEndsAuthority ==
  [][(frame = "drop" /\ frame' = "caller") => \A c \in others' \cup {creds'} : Powerless(c)]_vars
=============================================================================
