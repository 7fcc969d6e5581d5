--------------------------- MODULE PreparationProofs ---------------------------
(***************************************************************************)
(* Theorems about Privilege for every number of capabilities and whatever  *)
(* credentials the process was started with, and about Preparation for     *)
(* every number of programs and of live collectors, on every kernel.       *)
(* While prepare runs its setup the policy stays what it was; in all other *)
(* calls the invariant PrivInv of the privilege management holds.          *)
(***************************************************************************)
EXTENDS Preparation, TLAPS

-----------------------------------------------------------------------------
(* Where a call is: its remaining operations end its list of operations.    *)

Operations ==
  {"check_thread", "preflight", "set_no_new_privs", "clear_ambient", "clear_bounding",
   "set_setup", "set_empty", "verify_setup", "verify_empty"}

Suffix(s, ops) ==
  /\ s \in Seq(Operations)
  /\ Len(s) \in 1 .. Len(ops)
  /\ \A i \in 1 .. Len(s) : s[i] = ops[Len(ops) - Len(s) + i]

LEMMA OpsTyped ==
  /\ MinimizeOps \in Seq(Operations) /\ Len(MinimizeOps) = 11
  /\ FinishOps \in Seq(Operations) /\ Len(FinishOps) = 7
  BY DEF MinimizeOps, FinishOps, Operations

LEMMA SuffixHead ==
  ASSUME NEW ops \in Seq(Operations), NEW s, Suffix(s, ops)
  PROVE  /\ s # <<>> /\ Len(s) \in 1 .. Len(ops)
         /\ Head(s) = ops[Len(ops) - Len(s) + 1]
<1>1. Len(ops) \in Nat
  OBVIOUS
<1>2. s \in Seq(Operations) /\ Len(s) \in Nat /\ Len(s) >= 1
  BY <1>1 DEF Suffix
<1>3. s # <<>>
  BY <1>2
<1>4. Head(s) = s[1]
  BY <1>2
<1> QED
  BY <1>2, <1>3, <1>4 DEF Suffix

LEMMA SuffixTail ==
  ASSUME NEW ops \in Seq(Operations), NEW s, Suffix(s, ops), Len(s) # 1
  PROVE  Suffix(Tail(s), ops) /\ Len(Tail(s)) = Len(s) - 1
<1>1. Len(ops) \in Nat
  OBVIOUS
<1> DEFINE n == Len(s)
<1>2. s \in Seq(Operations) /\ n \in Nat /\ n > 1
  <2>1. s \in Seq(Operations) /\ n \in 1 .. Len(ops) /\ n # 1
    BY DEF Suffix
  <2> HIDE DEF n
  <2> QED
    BY <1>1, <2>1
<1>3. /\ Tail(s) \in Seq(Operations) /\ Len(Tail(s)) = Len(s) - 1
      /\ \A i \in 1 .. Len(Tail(s)) : Tail(s)[i] = s[i + 1]
  BY <1>2
<1> QED
  BY <1>1, <1>2, <1>3 DEF Suffix

LEMMA CallsBegin ==
  /\ Suffix(MinimizeOps, MinimizeOps) /\ Len(MinimizeOps) = 11
  /\ Suffix(FinishOps, FinishOps) /\ Len(FinishOps) = 7
  /\ Suffix(<<"verify_empty">>, FinishOps) /\ Len(<<"verify_empty">>) = 1
<1>1. ASSUME NEW ops \in Seq(Operations), Len(ops) >= 1
      PROVE  Suffix(ops, ops)
  BY <1>1 DEF Suffix
<1>2. Len(MinimizeOps) >= 1 /\ Len(FinishOps) >= 1
  BY OpsTyped
<1>3. Suffix(<<"verify_empty">>, FinishOps)
  BY OpsTyped DEF Suffix, FinishOps, Operations
<1> QED
  BY <1>1, <1>2, <1>3, OpsTyped

LEMMA MinimizeHeads ==
  ASSUME NEW s, Suffix(s, MinimizeOps)
  PROVE  /\ s # <<>> /\ Len(s) \in 1 .. 11
         /\ Head(s) = "set_no_new_privs" <=> Len(s) = 8
         /\ Head(s) = "verify_setup" <=> Len(s) = 1
         /\ Len(s) = 11 => Head(s) = "check_thread"
         /\ Head(s) \notin {"set_empty", "verify_empty"}
         /\ Len(s) >= 8 => Head(s) \in {"check_thread", "preflight", "set_no_new_privs"}
<1>1. /\ s # <<>> /\ Len(s) \in 1 .. Len(MinimizeOps)
      /\ Head(s) = MinimizeOps[Len(MinimizeOps) - Len(s) + 1]
  BY Zenon, OpsTyped, SuffixHead
<1> DEFINE n == Len(s)
<1>2. n \in 1 .. 11 /\ Head(s) = MinimizeOps[12 - n]
  BY <1>1, OpsTyped
<1> HIDE DEF n
<1>3. /\ MinimizeOps[12 - n] = "set_no_new_privs" <=> n = 8
      /\ MinimizeOps[12 - n] = "verify_setup" <=> n = 1
      /\ n = 11 => MinimizeOps[12 - n] = "check_thread"
      /\ MinimizeOps[12 - n] \notin {"set_empty", "verify_empty"}
      /\ n >= 8 => MinimizeOps[12 - n] \in {"check_thread", "preflight", "set_no_new_privs"}
  BY <1>2 DEF MinimizeOps
<1> QED
  BY <1>1, <1>2, <1>3 DEF n

LEMMA FinishHeads ==
  ASSUME NEW s, Suffix(s, FinishOps)
  PROVE  /\ s # <<>> /\ Len(s) \in 1 .. 7
         /\ Head(s) = "verify_empty" <=> Len(s) = 1
         /\ Head(s) = "set_empty" <=> Len(s) = 2
         /\ Len(s) = 7 => Head(s) = "check_thread"
         /\ Head(s) \notin {"set_no_new_privs", "set_setup", "verify_setup", "preflight"}
<1>1. /\ s # <<>> /\ Len(s) \in 1 .. Len(FinishOps)
      /\ Head(s) = FinishOps[Len(FinishOps) - Len(s) + 1]
  BY Zenon, OpsTyped, SuffixHead
<1> DEFINE n == Len(s)
<1>2. n \in 1 .. 7 /\ Head(s) = FinishOps[8 - n]
  BY <1>1, OpsTyped
<1> HIDE DEF n
<1>3. /\ FinishOps[8 - n] = "verify_empty" <=> n = 1
      /\ FinishOps[8 - n] = "set_empty" <=> n = 2
      /\ n = 7 => FinishOps[8 - n] = "check_thread"
      /\ FinishOps[8 - n] \notin {"set_no_new_privs", "set_setup", "verify_setup", "preflight"}
  BY <1>2 DEF FinishOps
<1> QED
  BY <1>1, <1>2, <1>3 DEF n

-----------------------------------------------------------------------------
(* The inductive invariant.                                                 *)

\* What a minimized value stands for, see MinimizedExact.
SetupOnly(c) ==
  /\ c.effective = SETUP_CAPABILITIES /\ c.permitted = SETUP_CAPABILITIES
  /\ c.bounding = {} /\ c.no_new_privs

InCaller ==
  frame = "caller" =>
    /\ todo = <<>> /\ ~armed
    /\ result = "minimize_failed" => creds = before \/ Powerless(creds)

\* Only an armed minimize has changed anything.
InMinimize ==
  frame = "minimize" =>
    /\ Suffix(todo, MinimizeOps) /\ policy = "none"
    /\ armed <=> Len(todo) < 8
    /\ ~armed => creds = before

InFinish ==
  frame \in {"finish", "drop", "cleanup"} =>
    /\ Suffix(todo, FinishOps)
    /\ policy = IF Len(todo) = 1 THEN "VerificationPending" ELSE "Minimized"
    /\ Len(todo) \in 2 .. 6 => others = {}
    /\ frame # "cleanup" => ~armed

\* What each policy says of the credentials.  A thread made while verification
\* is pending has the same ones, unless they will not pass verification.
PolicyMeans ==
  /\ policy = "Minimized" /\ frame # "cleanup" => SetupOnly(creds)
  /\ policy = "VerificationPending" => others \subseteq {creds} \/ creds.permitted # {}
  /\ policy = "Finished" =>
       frame = "caller" /\ \A c \in others \cup {creds} : Powerless(c)
  /\ policy = "Preserved" => frame = "caller"

PrivInv ==
  /\ creds \in Credentials /\ policy \in Policies
  /\ frame \in {"caller", "minimize", "finish", "drop", "cleanup"}
  /\ armed \in BOOLEAN
  /\ InCaller /\ InMinimize /\ InFinish /\ PolicyMeans

-----------------------------------------------------------------------------
(* How operations end.                                                      *)

LEMMA Supported == each_supported_capability = Capabilities
  BY CapabilityAssumption DEF each_supported_capability, Capabilities

LEMMA VerifiedEmpty ==
  ASSUME creds \in Credentials, verify({})
  PROVE  Powerless(creds)
  BY Supported DEF verify, Powerless, Credentials

LEMMA VerifiedSetup ==
  ASSUME creds \in Credentials, verify(SETUP_CAPABILITIES)
  PROVE  SetupOnly(creds)
  BY Supported DEF verify, SetupOnly, Credentials

\* What an operation may do to the credentials: nothing, unless it is a
\* transition, and no more than take away ambient and bounding capabilities
\* unless it sets no_new_privs or the capability sets.
Kept ==
  /\ creds'.effective = creds.effective /\ creds'.permitted = creds.permitted
  /\ creds'.no_new_privs = creds.no_new_privs /\ creds'.bounding \subseteq creds.bounding

Setters == {"set_no_new_privs", "set_setup", "set_empty"}

Inspections == {"check_thread", "preflight", "verify_setup", "verify_empty"}

Changes ==
  /\ creds' \in Credentials
  /\ Head(todo) \notin Setters => Kept
  /\ Head(todo) \in Inspections => creds' = creds
  /\ UNCHANGED <<others, before>>

\* An operation that fails has changed nothing but bounding capabilities.
LEMMA FailStep ==
  ASSUME PrivInv, todo # <<>>, Fail, Changes,
         Head(todo) # "clear_bounding" => creds' = creds, Kept
  PROVE  PrivInv'
<1> USE DEF PrivInv, Changes, Policies
<1>1. CASE frame = "minimize" /\ ~armed
  BY <1>1, MinimizeHeads
  DEF Fail, Return, InCaller, InMinimize, InFinish, PolicyMeans
<1>2. CASE frame = "minimize" /\ armed
  <2>1. frame' = "cleanup" /\ todo' = FinishOps /\ policy' = "Minimized" /\ armed' = armed
    BY <1>2 DEF Fail
  <2>2. Suffix(todo', FinishOps) /\ Len(todo') = 7
    BY <2>1, CallsBegin
  <2> QED
    BY <2>1, <2>2 DEF InCaller, InMinimize, InFinish, PolicyMeans
<1>3. CASE frame = "finish"
  <2>1. frame' = "caller" /\ todo' = <<>> /\ result' = "finish_failed"
        /\ UNCHANGED <<policy, armed>>
    BY <1>3 DEF Fail, Return
  <2>2. Len(todo) = 1 => creds' = creds
    BY <1>3, FinishHeads DEF InFinish
  <2>3. SetupOnly(creds) => SetupOnly(creds')
    BY DEF Kept, SetupOnly, Credentials
  <2> QED
    BY <1>3, <2>1, <2>2, <2>3 DEF InCaller, InMinimize, InFinish, PolicyMeans
<1>4. CASE frame \in {"drop", "cleanup"}
  <2>1. UNCHANGED <<policy, frame, todo, armed, result>>
    BY <1>4 DEF Fail
  <2>2. Len(todo) = 1 => creds' = creds
    BY <1>4, FinishHeads DEF InFinish
  <2>3. SetupOnly(creds) => SetupOnly(creds')
    BY DEF Kept, SetupOnly, Credentials
  <2>4. Suffix(todo', FinishOps)
    BY <1>4, <2>1 DEF InFinish, Suffix
  <2> QED
    BY <1>4, <2>1, <2>2, <2>3, <2>4 DEF InCaller, InMinimize, InFinish, PolicyMeans
<1> QED
  BY <1>1, <1>2, <1>3, <1>4 DEF InCaller

\* An operation that succeeds; checks and verifications do so for a reason.
LEMMA SucceedStep ==
  ASSUME PrivInv, todo # <<>>, Succeed, Changes,
         Head(todo) = "check_thread" => others = {},
         Head(todo) = "verify_setup" => verify(SETUP_CAPABILITIES),
         Head(todo) = "verify_empty" => verify({})
  PROVE  PrivInv'
<1> USE DEF PrivInv, Changes, Policies
<1>1. CASE frame = "minimize"
  <2>1. Suffix(todo, MinimizeOps)
    BY <1>1 DEF InMinimize
  <2>2. CASE Len(todo) = 1
    <3>1. /\ frame' = "caller" /\ todo' = <<>> /\ result' = "ok" /\ policy' = "Minimized"
          /\ armed' = FALSE
      BY <1>1, <2>2 DEF Succeed, Advance, Complete, Return
    <3>2. SetupOnly(creds) /\ creds' = creds
      BY <2>1, <2>2, MinimizeHeads, VerifiedSetup DEF Inspections
    <3> QED
      BY Zenon, <3>1, <3>2 DEF InCaller, InMinimize, InFinish, PolicyMeans
  <2>3. CASE Len(todo) # 1
    <3>1. /\ todo' = Tail(todo) /\ UNCHANGED <<frame, result>>
          /\ policy' = IF Head(todo) = "set_empty" THEN "VerificationPending" ELSE policy
          /\ armed' = (armed \/ Head(todo) = "set_no_new_privs")
      BY <2>3 DEF Succeed, Advance
    <3>2. Suffix(todo', MinimizeOps) /\ Len(todo') = Len(todo) - 1
      BY <2>1, <2>3, <3>1, SuffixTail, OpsTyped
    <3>3. /\ Len(todo) \in 1 .. 11
          /\ Head(todo) = "set_no_new_privs" <=> Len(todo) = 8
          /\ Head(todo) \notin {"set_empty", "verify_empty"}
          /\ Len(todo) >= 8 => Head(todo) \in {"check_thread", "preflight", "set_no_new_privs"}
      BY <2>1, MinimizeHeads
    <3>4. policy' = "none" /\ (armed' <=> Len(todo') < 8) /\ armed' \in BOOLEAN
      <4>1. Len(todo') < 8 <=> Len(todo) < 8 \/ Len(todo) = 8
        BY <3>2, <3>3
      <4> QED
        BY Zenon, <1>1, <3>1, <3>3, <4>1 DEF InMinimize
    <3>5. ~armed' => creds' = before'
      <4> SUFFICES ASSUME ~armed'
                   PROVE  creds' = before'
        OBVIOUS
      <4>1. Len(todo) >= 8 /\ Len(todo) # 8
        BY <3>2, <3>3, <3>4
      <4>2. Head(todo) \in Inspections /\ ~armed
        BY <3>1, <3>3, <4>1 DEF Inspections
      <4> QED
        BY <1>1, <4>2 DEF InMinimize
    <3> QED
      BY <1>1, <3>1, <3>2, <3>4, <3>5 DEF InCaller, InMinimize, InFinish, PolicyMeans
  <2> QED
    BY <2>2, <2>3
<1>2. CASE frame \in {"finish", "drop", "cleanup"}
  <2>1. Suffix(todo, FinishOps)
    BY <1>2 DEF InFinish
  <2>2. CASE Len(todo) = 1
    <3>1. Powerless(creds) /\ creds' = creds /\ creds.permitted = {}
      BY <2>1, <2>2, FinishHeads, VerifiedEmpty DEF Inspections, verify
    <3>2. others \subseteq {creds}
      BY <1>2, <2>2, <3>1 DEF InFinish, PolicyMeans
    <3>3. /\ frame' = "caller" /\ todo' = <<>>
          /\ policy' = IF frame = "finish" THEN "Finished" ELSE "none"
          /\ frame = "cleanup" => armed' = FALSE
          /\ frame # "cleanup" => armed' = armed
      BY Zenon, <1>2, <2>2 DEF Succeed, Advance, Complete, Return
    <3>4. \A c \in others' \cup {creds'} : Powerless(c)
      BY <3>1, <3>2
    <3>5. armed' = FALSE
      BY <1>2, <3>3 DEF InFinish
    <3> QED
      BY Zenon, <1>2, <3>1, <3>3, <3>4, <3>5 DEF InCaller, InMinimize, InFinish, PolicyMeans
  <2>3. CASE Len(todo) # 1
    <3>1. /\ todo' = Tail(todo) /\ UNCHANGED <<frame, result>>
          /\ policy' = IF Head(todo) = "set_empty" THEN "VerificationPending" ELSE policy
          /\ armed' = (armed \/ Head(todo) = "set_no_new_privs")
      BY <2>3 DEF Succeed, Advance
    <3>2. Suffix(todo', FinishOps) /\ Len(todo') = Len(todo) - 1
      BY <2>1, <2>3, <3>1, SuffixTail, OpsTyped
    <3>3. /\ Len(todo) \in 1 .. 7 /\ (Head(todo) = "set_empty" <=> Len(todo) = 2)
          /\ Len(todo) = 7 => Head(todo) = "check_thread"
          /\ Head(todo) \notin {"set_no_new_privs", "set_setup"}
      BY <2>1, FinishHeads
    <3>4. /\ policy' = IF Len(todo') = 1 THEN "VerificationPending" ELSE "Minimized"
          /\ armed' = armed
      BY <1>2, <2>3, <3>1, <3>2, <3>3 DEF InFinish
    <3>5. others' = {}
      BY <1>2, <2>3, <3>3 DEF InFinish
    <3>6. policy' = "Minimized" /\ frame # "cleanup" => SetupOnly(creds')
      <4> SUFFICES ASSUME policy' = "Minimized", frame # "cleanup"
                   PROVE  SetupOnly(creds')
        OBVIOUS
      <4>1. Head(todo) \notin Setters
        BY <3>1, <3>3 DEF Setters
      <4>2. SetupOnly(creds)
        BY <1>2, <2>3 DEF InFinish, PolicyMeans
      <4> QED
        BY Zenon, <4>1, <4>2 DEF Kept, SetupOnly, Credentials
    <3> QED
      BY <1>2, <3>1, <3>2, <3>4, <3>5, <3>6
      DEF InCaller, InMinimize, InFinish, PolicyMeans
  <2> QED
    BY <2>2, <2>3
<1> QED
  BY <1>1, <1>2 DEF InCaller

LEMMA InspectStep ==
  ASSUME PrivInv, todo # <<>>, Head(todo) \in Inspections, UNCHANGED <<creds, others, before>>,
         \/ Fail
         \/ /\ Succeed
            /\ Head(todo) = "check_thread" => others = {}
            /\ Head(todo) = "verify_setup" => verify(SETUP_CAPABILITIES)
            /\ Head(todo) = "verify_empty" => verify({})
  PROVE  PrivInv'
<1>1. Changes /\ Kept
  BY DEF Changes, Kept, PrivInv
<1>2. CASE Fail
  BY <1>1, <1>2, FailStep
<1>3. CASE /\ Succeed
           /\ Head(todo) = "check_thread" => others = {}
           /\ Head(todo) = "verify_setup" => verify(SETUP_CAPABILITIES)
           /\ Head(todo) = "verify_empty" => verify({})
  BY <1>1, <1>3, SucceedStep
<1> QED
  BY <1>2, <1>3

LEMMA TransitionStep ==
  ASSUME PrivInv, todo # <<>>, Head(todo) \in Operations \ Inspections,
         UNCHANGED <<others, before>>, creds' \in Credentials,
         creds' # creds => Head(todo) \in Setters \/ Kept,
         \/ Succeed
         \/ Fail /\ creds' = creds
         \/ Fail /\ Kept /\ Head(todo) = "clear_bounding"
  PROVE  PrivInv'
<1>1. creds' = creds => Kept
  BY DEF Kept, PrivInv
<1>2. Changes
  BY <1>1 DEF Changes
<1>3. CASE Succeed
  BY <1>2, <1>3, SucceedStep DEF Inspections
<1>4. CASE Fail /\ creds' = creds
  BY <1>1, <1>2, <1>4, FailStep
<1>5. CASE Fail /\ Kept /\ Head(todo) = "clear_bounding"
  BY <1>2, <1>5, FailStep
<1> QED
  BY <1>3, <1>4, <1>5

LEMMA OperationStep ==
  ASSUME PrivInv, PrivilegeStep
  PROVE  PrivInv'
<1>1. CASE CheckThread
  BY <1>1, InspectStep DEF CheckThread, Inspect, Executing, Inspections
<1>2. CASE Preflight
  BY <1>2, InspectStep DEF Preflight, Inspect, Executing, Inspections
<1>3. CASE VerifySetup
  BY <1>3, InspectStep DEF VerifySetup, Inspect, Executing, Inspections
<1>4. CASE VerifyEmpty
  BY <1>4, InspectStep DEF VerifyEmpty, Inspect, Executing, Inspections
<1>5. creds \in Credentials
  BY DEF PrivInv
<1> USE DEF Transition, Executing, Inspections, Operations, Setters
<1>6. CASE EnableNoNewPrivs
  <2>1. [creds EXCEPT !.no_new_privs = TRUE] \in Credentials
    BY Zenon, <1>5 DEF Credentials
  <2> QED
    BY Zenon, <1>5, <1>6, <2>1, TransitionStep DEF EnableNoNewPrivs
<1>7. CASE ClearAmbient
  <2> DEFINE new == [creds EXCEPT !.ambient = {}]
  <2>1. new \in Credentials /\ (creds' = new => Kept)
    BY <1>5 DEF Credentials, Kept
  <2> QED
    BY Zenon, <1>5, <1>7, <2>1, TransitionStep DEF ClearAmbient
<1>8. CASE ClearBounding
  <2> DEFINE new(set) == [creds EXCEPT !.bounding = set]
  <2>1. ASSUME NEW set \in SUBSET creds.bounding, creds' = new(set)
        PROVE  creds' \in Credentials /\ Kept
    BY <1>5, <2>1 DEF Credentials, Kept
  <2>2. CASE Transition("clear_bounding",
               (creds.bounding \cap each_supported_capability) # {} =>
                 CAP_SETPCAP \in creds.effective,
               [creds EXCEPT !.bounding = @ \ each_supported_capability])
    <3>1. creds' = creds \/ creds' = new(creds.bounding \ each_supported_capability)
      BY <2>2
    <3>2. creds' \in Credentials /\ (creds' # creds => Kept)
      BY <1>5, <2>1, <3>1
    <3> HIDE DEF new
    <3> QED
      BY <2>2, <3>2, TransitionStep
  <2>3. CASE /\ Executing("clear_bounding")
             /\ \E k \in each_supported_capability :
                  creds' = [creds EXCEPT !.bounding = {c \in @ : c >= k}]
             /\ Fail
             /\ UNCHANGED <<others, before>>
    <3>1. PICK k \in each_supported_capability : creds' = new({c \in creds.bounding : c >= k})
      BY Zenon, <2>3
    <3>2. creds' \in Credentials /\ Kept
      BY <2>1, <3>1
    <3> HIDE DEF new
    <3> QED
      BY <2>3, <3>2, TransitionStep
  <2> QED
    BY <1>8, <2>2, <2>3 DEF ClearBounding
<1>9. CASE SetSetup \/ ClearCapabilities
  <2>1. ASSUME NEW set \in SUBSET Capabilities
        PROVE  [creds EXCEPT !.effective = set, !.permitted = set, !.inheritable = {},
                             !.ambient = {}] \in Credentials
    BY ZenonT(30), <1>5 DEF Credentials
  <2>2. SETUP_CAPABILITIES \in SUBSET Capabilities /\ {} \in SUBSET Capabilities
    BY CapabilityAssumption DEF SETUP_CAPABILITIES, Capabilities
  <2>3. CASE SetSetup
    BY Zenon, <1>5, <2>1, <2>2, <2>3, TransitionStep DEF SetSetup, SetCapabilities
  <2>4. CASE ClearCapabilities
    BY ZenonT(30), <1>5, <2>1, <2>2, <2>4, TransitionStep DEF ClearCapabilities, SetCapabilities
  <2> QED
    BY <1>9, <2>3, <2>4
<1> QED
  BY <1>1, <1>2, <1>3, <1>4, <1>6, <1>7, <1>8, <1>9 DEF PrivilegeStep

-----------------------------------------------------------------------------
(* Calls, and what happens between them.                                    *)

LEMMA CallStep ==
  ASSUME PrivInv, CallMinimize \/ CallPreserve \/ CallFinish \/ RefuseFinish \/ DropPrivileges
  PROVE  PrivInv'
<1> USE DEF PrivInv, InCaller, InMinimize, InFinish, PolicyMeans, Idle, Begin, Policies
<1>1. CASE CallMinimize
  <2>1. Suffix(todo', MinimizeOps) /\ Len(todo') = 11
    BY <1>1, CallsBegin DEF CallMinimize
  <2> QED
    BY <1>1, <2>1 DEF CallMinimize
<1>2. CASE CallPreserve
  BY <1>2 DEF CallPreserve
<1>3. CASE CallFinish
  <2>1. CASE policy = "Preserved"
    BY <1>3, <2>1 DEF CallFinish, Finish, Return
  <2>2. CASE policy # "Preserved"
    <3>1. Suffix(todo', FinishOps) /\ Len(todo') = 7 /\ frame' = "finish"
          /\ UNCHANGED <<creds, others, policy, armed, before>> /\ policy = "Minimized"
      BY <1>3, <2>2, CallsBegin DEF CallFinish, Finish, CanPrepare
    <3> QED
      BY <1>3, <3>1 DEF CallFinish
  <2> QED
    BY <2>1, <2>2
<1>4. CASE RefuseFinish
  BY <1>4 DEF RefuseFinish
<1>5. CASE DropPrivileges
  <2>1. CASE policy \in {"Preserved", "Finished"}
    BY ZenonT(30), <1>5, <2>1 DEF DropPrivileges, Return
  <2>2. CASE policy = "VerificationPending"
    <3>1. Suffix(todo', FinishOps) /\ Len(todo') = 1 /\ frame' = "drop"
          /\ UNCHANGED <<creds, others, policy, armed, before>>
      BY <1>5, <2>2, CallsBegin DEF DropPrivileges
    <3> QED
      BY <1>5, <2>2, <3>1 DEF DropPrivileges
  <2>3. CASE policy = "Minimized"
    <3>1. Suffix(todo', FinishOps) /\ Len(todo') = 7 /\ frame' = "drop"
          /\ UNCHANGED <<creds, others, policy, armed, before>>
      BY <1>5, <2>3, CallsBegin DEF DropPrivileges
    <3> QED
      BY <1>5, <2>3, <3>1 DEF DropPrivileges
  <2> QED
    BY <1>5, <2>1, <2>2, <2>3 DEF DropPrivileges, Policies
<1> QED
  BY ZenonT(30), <1>1, <1>2, <1>3, <1>4, <1>5

LEMMA EnvironmentStep ==
  ASSUME PrivInv, SpawnThread \/ ThreadExits \/ RaiseAmbient
  PROVE  PrivInv'
<1> USE DEF PrivInv, InCaller, InMinimize, InFinish, PolicyMeans, Idle, Policies
<1>1. CASE SpawnThread
  BY <1>1 DEF SpawnThread
<1>2. CASE ThreadExits
  <2>1. others' \subseteq others
    BY <1>2 DEF ThreadExits
  <2> QED
    BY <1>2, <2>1 DEF ThreadExits
<1>3. CASE RaiseAmbient
  <2>1. PICK c \in creds.permitted :
          creds' = [creds EXCEPT !.inheritable = @ \cup {c}, !.ambient = @ \cup {c}]
    BY Zenon, <1>3 DEF RaiseAmbient
  <2>2. /\ creds' \in Credentials /\ creds'.permitted = creds.permitted
        /\ creds'.effective = creds.effective /\ creds'.bounding = creds.bounding
        /\ creds'.no_new_privs = creds.no_new_privs /\ creds.permitted # {}
    BY ZenonT(30), <2>1 DEF Credentials
  <2>3. policy # "Finished"
    BY <2>2 DEF Powerless
  <2>4. SetupOnly(creds) => SetupOnly(creds')
    BY <2>2 DEF SetupOnly
  <2> QED
    BY ZenonT(30), <1>3, <2>2, <2>3, <2>4 DEF RaiseAmbient
<1> QED
  BY <1>1, <1>2, <1>3

LEMMA PrivInvKept == PrivInv /\ [Next]_vars => PrivInv'
<1> SUFFICES ASSUME PrivInv, [Next]_vars
             PROVE  PrivInv'
  OBVIOUS
<1>1. CASE UNCHANGED vars
  BY <1>1 DEF vars, PrivInv, InCaller, InMinimize, InFinish, PolicyMeans
<1> QED
  BY <1>1, OperationStep, CallStep, EnvironmentStep DEF Next, Aborted

LEMMA PrivInvHolds == Spec => []PrivInv
<1>1. Init => PrivInv
  BY Zenon, CredentialsAssumption
  DEF Init, PrivInv, InCaller, InMinimize, InFinish, PolicyMeans, Policies
<1> QED
  BY <1>1, PrivInvKept, PTL DEF Spec

-----------------------------------------------------------------------------
(* The theorems.                                                            *)

\* Once minimized privileges are finished no thread has authority left,
\* whatever failed or was ignored before (finish_policy_with).
THEOREM FinishedPowerless == Spec => []NoAuthorityLeft
<1>1. PrivInv => NoAuthorityLeft
  BY DEF PrivInv, PolicyMeans, NoAuthorityLeft
<1> QED
  BY <1>1, PrivInvHolds, PTL

\* A minimized value in the caller's hands stands for exactly the setup
\* capabilities, also after a finish that failed (minimize, finish_policy_with).
THEOREM MinimizedValue == Spec => []MinimizedExact
<1>1. PrivInv => MinimizedExact
  BY DEF PrivInv, PolicyMeans, SetupOnly, MinimizedExact, Idle
<1> QED
  BY <1>1, PrivInvHolds, PTL

\* A minimize that fails returns with the credentials it found or with none
\* (MinimizationCleanup).
THEOREM FailedMinimization == Spec => []FailedMinimizationClean
<1>1. PrivInv => FailedMinimizationClean
  BY DEF PrivInv, InCaller, FailedMinimizationClean, Idle
<1> QED
  BY <1>1, PrivInvHolds, PTL

\* Dropping a minimized value returns only when no thread has authority left
\* (Drop for Privileges).
THEOREM DropPowerless == Spec => DropEndsAuthority
<1> DEFINE Ends == (frame = "drop" /\ frame' = "caller") =>
                     \A c \in others' \cup {creds'} : Powerless(c)
<1>1. PrivInv /\ [Next]_vars => [Ends]_vars
  <2> SUFFICES ASSUME PrivInv, Next, frame = "drop", frame' = "caller"
               PROVE  \A c \in others' \cup {creds'} : Powerless(c)
    BY DEF vars
  <2>1. Suffix(todo, FinishOps) /\ todo # <<>>
    BY FinishHeads DEF PrivInv, InFinish
  <2>2. PrivilegeStep
    BY DEF Next, CallMinimize, CallPreserve, CallFinish, RefuseFinish, DropPrivileges, Idle,
           SpawnThread, ThreadExits, RaiseAmbient, Aborted, vars
  <2>3. ~Fail
    BY DEF Fail
  <2>4. Succeed
    BY <2>2, <2>3
    DEF PrivilegeStep, CheckThread, Preflight, EnableNoNewPrivs, ClearAmbient, ClearBounding,
        SetSetup, ClearCapabilities, SetCapabilities, VerifySetup, VerifyEmpty, Inspect, Transition
  <2>5. Len(todo) = 1
    BY <2>4 DEF Succeed, Advance
  <2>6. Head(todo) = "verify_empty"
    BY <2>1, <2>5, FinishHeads
  <2>7. VerifyEmpty
    BY <2>2, <2>6
    DEF PrivilegeStep, CheckThread, Preflight, EnableNoNewPrivs, ClearAmbient, ClearBounding,
        SetSetup, ClearCapabilities, SetCapabilities, VerifySetup, Inspect, Transition, Executing
  <2>8. verify({}) /\ UNCHANGED <<creds, others>>
    BY <2>3, <2>7 DEF VerifyEmpty, Inspect
  <2>9. Powerless(creds) /\ creds.permitted = {}
    BY <2>8, VerifiedEmpty DEF PrivInv, verify
  <2>10. others \subseteq {creds}
    BY <2>5, <2>9 DEF PrivInv, InFinish, PolicyMeans
  <2> QED
    BY <2>8, <2>9, <2>10
<1> QED
  BY <1>1, PrivInvHolds, PTL DEF Spec, DropEndsAuthority

-----------------------------------------------------------------------------
(* Where the setup is.                                                      *)

SetupOperations == {"open", "load", "attach", "ring"}

\* The i-th operation of SetupOps.
SetupOp(i) ==
  IF i = 1 THEN "open" ELSE IF i = 2 THEN "load" ELSE IF i <= Programs + 2 THEN "attach" ELSE "ring"

InSetup(s) ==
  /\ s \in Seq(SetupOperations)
  /\ Len(s) \in 1 .. Programs + 3
  /\ \A i \in 1 .. Len(s) : s[i] = SetupOp(Programs + 3 - Len(s) + i)

\* The programs attached when the operations s remain.
LinksAt(s) == IF Len(s) > Programs THEN 0 ELSE Programs + 1 - Len(s)

LEMMA SuffixIsPrivileged ==
  ASSUME NEW ops \in Seq(Operations), NEW s, Suffix(s, ops)
  PROVE  s # <<>> /\ Head(s) \notin SetupOperations
<1>1. s \in Seq(Operations) /\ s # <<>>
  BY SuffixHead DEF Suffix
<1>2. Head(s) \in Operations
  BY <1>1
<1> QED
  BY <1>1, <1>2 DEF Operations, SetupOperations

LEMMA Joined ==
  ASSUME NEW S, NEW a \in Seq(S), NEW b \in Seq(S)
  PROVE  /\ a \o b \in Seq(S)
         /\ Len(a \o b) = Len(a) + Len(b)
         /\ \A i \in 1 .. Len(a) + Len(b) :
              (a \o b)[i] = IF i <= Len(a) THEN a[i] ELSE b[i - Len(a)]
  OBVIOUS

LEMMA SetupBegins == InSetup(SetupOps) /\ LinksAt(SetupOps) = 0
<1> USE ProgramsAssumption
<1> DEFINE attaches == [i \in 1 .. Programs |-> "attach"]
           first == <<"open", "load">>
<1>1. /\ attaches \in Seq(SetupOperations) /\ Len(attaches) = Programs
      /\ \A i \in 1 .. Programs : attaches[i] = "attach"
  BY DEF SetupOperations
<1>2. /\ first \in Seq(SetupOperations) /\ Len(first) = 2
      /\ first[1] = "open" /\ first[2] = "load"
  BY DEF SetupOperations
<1> HIDE DEF attaches, first
<1>3. /\ first \o attaches \in Seq(SetupOperations)
      /\ Len(first \o attaches) = Programs + 2
      /\ \A i \in 1 .. Programs + 2 : (first \o attaches)[i] = SetupOp(i)
  <2>1. /\ first \o attaches \in Seq(SetupOperations)
        /\ Len(first \o attaches) = Len(first) + Len(attaches)
        /\ \A i \in 1 .. Len(first) + Len(attaches) :
             (first \o attaches)[i] =
               IF i <= Len(first) THEN first[i] ELSE attaches[i - Len(first)]
    <3>1. first \in Seq(SetupOperations) /\ attaches \in Seq(SetupOperations)
      BY <1>1, <1>2
    <3> QED
      BY <3>1, Joined
  <2>2. ASSUME NEW i \in 1 .. Programs + 2
        PROVE  (first \o attaches)[i] = SetupOp(i)
    <3>1. (first \o attaches)[i] = IF i <= 2 THEN first[i] ELSE attaches[i - 2]
      BY <1>1, <1>2, <2>1
    <3>2. i > 2 => attaches[i - 2] = "attach"
      BY <1>1
    <3> QED
      BY <1>2, <3>1, <3>2 DEF SetupOp
  <2> QED
    BY <1>1, <1>2, <2>1, <2>2
<1> DEFINE most == first \o attaches
<1>4. SetupOps = most \o <<"ring">>
  BY DEF SetupOps, attaches, first
<1> HIDE DEF most
<1>5. /\ most \in Seq(SetupOperations) /\ Len(most) = Programs + 2
      /\ \A i \in 1 .. Programs + 2 : most[i] = SetupOp(i)
  BY <1>3 DEF most
<1>6. <<"ring">> \in Seq(SetupOperations) /\ Len(<<"ring">>) = 1
  BY DEF SetupOperations
<1>7. /\ SetupOps \in Seq(SetupOperations) /\ Len(SetupOps) = Programs + 3
      /\ \A i \in 1 .. Programs + 3 : SetupOps[i] = SetupOp(i)
  BY <1>4, <1>5, <1>6 DEF SetupOp
<1> QED
  BY <1>7 DEF InSetup, LinksAt

LEMMA SetupHead ==
  ASSUME NEW s, InSetup(s)
  PROVE  /\ s # <<>> /\ Len(s) \in 1 .. Programs + 3
         /\ Head(s) = "open" <=> Len(s) = Programs + 3
         /\ Head(s) = "load" <=> Len(s) = Programs + 2
         /\ Head(s) = "ring" <=> Len(s) = 1
         /\ Head(s) \in SetupOperations
<1> USE ProgramsAssumption
<1>1. s \in Seq(SetupOperations) /\ Len(s) \in 1 .. Programs + 3 /\ Len(s) >= 1
  BY DEF InSetup
<1>2. s # <<>> /\ Head(s) = s[1]
  BY <1>1
<1> DEFINE n == Len(s)
<1>3. Head(s) = SetupOp(Programs + 4 - n) /\ n \in 1 .. Programs + 3
  BY <1>1, <1>2 DEF InSetup
<1> HIDE DEF n
<1>4. /\ Head(s) = "open" <=> n = Programs + 3
      /\ Head(s) = "load" <=> n = Programs + 2
      /\ Head(s) = "ring" <=> n = 1
      /\ Head(s) \in SetupOperations
  BY <1>3 DEF SetupOp, SetupOperations
<1> QED
  BY <1>1, <1>2, <1>4 DEF n

LEMMA SetupTail ==
  ASSUME NEW s, InSetup(s), Len(s) # 1
  PROVE  /\ InSetup(Tail(s))
         /\ LinksAt(Tail(s)) = IF Head(s) = "attach" THEN LinksAt(s) + 1 ELSE LinksAt(s)
<1> USE ProgramsAssumption
<1> DEFINE n == Len(s)
<1>1. s \in Seq(SetupOperations) /\ n \in 1 .. Programs + 3 /\ n > 1
  <2>1. s \in Seq(SetupOperations) /\ n \in 1 .. Programs + 3 /\ n # 1
    BY DEF InSetup
  <2> HIDE DEF n
  <2> QED
    BY <2>1
<1>2. /\ Tail(s) \in Seq(SetupOperations) /\ Len(Tail(s)) = Len(s) - 1
      /\ \A i \in 1 .. Len(Tail(s)) : Tail(s)[i] = s[i + 1]
  BY <1>1
<1>3. InSetup(Tail(s))
  BY <1>1, <1>2 DEF InSetup
<1>4. Head(s) = "attach" <=> Len(s) \in 2 .. Programs + 1
  BY <1>1, SetupHead DEF SetupOperations
<1> QED
  BY <1>1, <1>2, <1>3, <1>4 DEF LinksAt

-----------------------------------------------------------------------------
(* The inductive invariant.                                                 *)

\* Setup runs under the policy that prepare was called with.
InPrepare ==
  /\ creds \in Credentials /\ armed = FALSE
  /\ CanPrepare /\ (policy = "Minimized" => SetupOnly(creds))
  /\ InSetup(todo)

\* Links are those of the collectors and those of the call in progress; they
\* are all there once the setup is over.
ResourcesKept ==
  /\ held \in [object : BOOLEAN, links : Nat, ring : BOOLEAN]
  /\ collectors \in Nat
  /\ attached = Programs * collectors + held.links
  /\ frame = "prepare" => held.links = LinksAt(todo)
  /\ frame = "finish" => held.links = Programs
  /\ frame \notin {"prepare", "finish"} => held = Nothing

PrepInv == (IF frame = "prepare" THEN InPrepare ELSE PrivInv) /\ ResourcesKept

LEMMA NothingTyped == Nothing \in [object : BOOLEAN, links : Nat, ring : BOOLEAN] /\ Nothing.links = 0
  BY DEF Nothing

LEMMA HeldChanged ==
  ASSUME NEW h \in [object : BOOLEAN, links : Nat, ring : BOOLEAN]
  PROVE  /\ [h EXCEPT !.object = TRUE] \in [object : BOOLEAN, links : Nat, ring : BOOLEAN]
         /\ [h EXCEPT !.ring = TRUE] \in [object : BOOLEAN, links : Nat, ring : BOOLEAN]
         /\ [h EXCEPT !.links = @ + 1] \in [object : BOOLEAN, links : Nat, ring : BOOLEAN]
         /\ [h EXCEPT !.object = TRUE].links = h.links + 0
         /\ [h EXCEPT !.ring = TRUE].links = h.links
         /\ [h EXCEPT !.links = @ + 1].links = h.links + 1
<1>1. h.links \in Nat /\ h.links + 0 = h.links /\ h.links + 1 \in Nat
  <2>1. h.links \in Nat
    OBVIOUS
  <2> QED
    BY <2>1
<1>2. /\ [h EXCEPT !.object = TRUE] \in [object : BOOLEAN, links : Nat, ring : BOOLEAN]
      /\ [h EXCEPT !.object = TRUE].links = h.links
  BY Zenon
<1>3. /\ [h EXCEPT !.ring = TRUE] \in [object : BOOLEAN, links : Nat, ring : BOOLEAN]
      /\ [h EXCEPT !.ring = TRUE].links = h.links
  BY Zenon
<1>4. ASSUME NEW n \in Nat
      PROVE  /\ [h EXCEPT !.links = n] \in [object : BOOLEAN, links : Nat, ring : BOOLEAN]
             /\ [h EXCEPT !.links = n].links = n
  OBVIOUS
<1> QED
  BY <1>1, <1>2, <1>3, <1>4

\* Links of a dropped call go, those of a completed one are a collector's.
LEMMA Dropped ==
  ASSUME ResourcesKept, DropHeld, frame' \notin {"prepare", "finish"}
  PROVE  ResourcesKept'
  BY NothingTyped, ProgramsAssumption DEF ResourcesKept, DropHeld

LEMMA HandedOver ==
  ASSUME ResourcesKept, HandOver, held.links = Programs, frame' \notin {"prepare", "finish"}
  PROVE  ResourcesKept'
<1>1. collectors' = collectors + 1 /\ attached' = Programs * collectors + Programs
      /\ held' = Nothing /\ collectors \in Nat
  BY DEF ResourcesKept, HandOver
<1>2. Programs * (collectors + 1) = Programs * collectors + Programs
  BY <1>1, ProgramsAssumption
<1> QED
  BY <1>1, <1>2, NothingTyped, ProgramsAssumption DEF ResourcesKept

-----------------------------------------------------------------------------
(* Steps of privilege management.                                           *)

LEMMA SucceedsOrFails ==
  ASSUME PrivilegeStep
  PROVE  Succeed \/ Fail
  BY DEF PrivilegeStep, CheckThread, Preflight, EnableNoNewPrivs, ClearAmbient, ClearBounding,
         SetSetup, ClearCapabilities, SetCapabilities, VerifySetup, VerifyEmpty, Inspect, Transition

\* A call goes on or returns; a finish that returns Ok has finished the policy.
LEMMA FrameAfter ==
  ASSUME PrivInv, PrivilegeStep
  PROVE  /\ frame # "finish" => frame' \notin {"prepare", "finish"}
         /\ frame = "finish" => frame' \in {"finish", "caller"}
         /\ frame = "finish" /\ frame' = "caller" /\ result' = "ok" => policy' = "Finished"
<1>1. frame \in {"minimize", "finish", "drop", "cleanup"}
  BY DEF PrivInv, InCaller, PrivilegeStep, CheckThread, Preflight, EnableNoNewPrivs, ClearAmbient,
         ClearBounding, SetSetup, ClearCapabilities, SetCapabilities, VerifySetup, VerifyEmpty,
         Inspect, Transition, Executing
<1>2. CASE Succeed
  BY Zenon, <1>1, <1>2 DEF Succeed, Advance, Complete, Return
<1>3. CASE Fail
  BY <1>1, <1>3 DEF Fail, Return
<1> QED
  BY <1>2, <1>3, SucceedsOrFails

\* Setup is not made of operations of privilege management.
LEMMA SetupIsOther ==
  ASSUME PrivilegeStep
  PROVE  todo # <<>> /\ Head(todo) \in Operations
  BY DEF Operations, PrivilegeStep, CheckThread, Preflight, EnableNoNewPrivs, ClearAmbient,
         ClearBounding, SetSetup, ClearCapabilities, SetCapabilities, VerifySetup, VerifyEmpty,
         Inspect, Transition, Executing

LEMMA PrivilegedStep ==
  ASSUME PrepInv, Privileged
  PROVE  PrepInv' /\ frame # "prepare" /\ PrivInv /\ PrivInv'
<1>1. PrivilegeStep
  BY DEF Privileged
<1>2. frame # "prepare"
  BY <1>1, SetupIsOther, SetupHead DEF PrepInv, InPrepare, Operations, SetupOperations
<1>3. PrivInv /\ PrivInv' /\ ResourcesKept
  BY <1>1, <1>2, OperationStep DEF PrepInv
<1>4. frame' # "prepare"
  BY <1>1, <1>3, FrameAfter
<1>5. ResourcesKept'
  <2>1. CASE frame = "finish" /\ frame' = "caller" /\ result' = "ok"
    <3>1. HandOver /\ held.links = Programs
      BY <1>3, <2>1 DEF Privileged, ResourcesKept
    <3> QED
      BY <1>3, <2>1, <3>1, HandedOver
  <2>2. CASE frame = "finish" /\ frame' = "caller" /\ result' # "ok"
    <3>1. DropHeld
      BY <2>2 DEF Privileged
    <3> QED
      BY <1>3, <2>2, <3>1, Dropped
  <2>3. CASE ~(frame = "finish" /\ frame' = "caller")
    <3>1. UNCHANGED <<held, collectors, attached>>
      BY <2>3 DEF Privileged
    <3> QED
      BY <1>1, <1>2, <1>3, <1>4, <2>3, <3>1, FrameAfter DEF ResourcesKept
  <2> QED
    BY <2>1, <2>2, <2>3
<1> QED
  BY <1>2, <1>3, <1>4, <1>5 DEF PrepInv

-----------------------------------------------------------------------------
(* Steps of the setup.                                                      *)

LEMMA CallPrepareStep ==
  ASSUME PrepInv, CallPrepare
  PROVE  PrepInv'
<1>1. /\ frame' = "prepare" /\ todo' = SetupOps
      /\ UNCHANGED <<creds, policy, armed, held, collectors, attached>>
      /\ frame = "caller" /\ CanPrepare
  BY DEF CallPrepare, Begin, Idle, prep_vars
<1>2. PrivInv /\ held = Nothing
  BY <1>1 DEF PrepInv, ResourcesKept
<1>3. InPrepare'
  BY <1>1, <1>2, SetupBegins DEF InPrepare, PrivInv, InCaller, PolicyMeans, CanPrepare
<1>4. ResourcesKept'
  BY <1>1, <1>2, SetupBegins, NothingTyped DEF PrepInv, ResourcesKept
<1> QED
  BY <1>1, <1>3, <1>4 DEF PrepInv

\* Outside setup there is nothing to open, load, attach or build.
LEMMA SetupRuns ==
  ASSUME PrepInv, todo # <<>>, Head(todo) \in SetupOperations
  PROVE  frame = "prepare" /\ InPrepare /\ ResourcesKept
<1> SUFFICES ASSUME frame # "prepare"
             PROVE  FALSE
  BY DEF PrepInv
<1>1. CASE frame = "minimize"
  <2>1. Suffix(todo, MinimizeOps)
    BY <1>1 DEF PrepInv, PrivInv, InMinimize
  <2> QED
    BY <2>1, SuffixIsPrivileged, OpsTyped
<1>2. CASE frame \in {"finish", "drop", "cleanup"}
  <2>1. Suffix(todo, FinishOps)
    BY <1>2 DEF PrepInv, PrivInv, InFinish
  <2> QED
    BY <2>1, SuffixIsPrivileged, OpsTyped
<1> QED
  BY <1>1, <1>2 DEF PrepInv, PrivInv, InCaller

\* The caller has a usable value again, as before the call.
LEMMA BackInCaller ==
  ASSUME InPrepare, frame' = "caller", todo' = <<>>, result' # "minimize_failed",
         UNCHANGED <<creds, others, policy, armed, before>>
  PROVE  PrivInv'
  BY Zenon DEF InPrepare, CanPrepare, PrivInv, InCaller, InMinimize, InFinish, PolicyMeans, Policies

LEMMA SetupFailsStep ==
  ASSUME PrepInv, NEW op \in SetupOperations, NEW kind, kind # "minimize_failed",
         SetupFails(op, kind)
  PROVE  PrepInv'
<1>1. InPrepare /\ ResourcesKept
  BY SetupRuns DEF SetupFails, Executing
<1>2. /\ frame' = "caller" /\ todo' = <<>> /\ result' = kind /\ DropHeld
      /\ UNCHANGED <<creds, others, policy, armed, before>>
  BY DEF SetupFails, Return, privilege_rest
<1> QED
  BY <1>1, <1>2, BackInCaller, Dropped DEF PrepInv

LEMMA AcquireStep ==
  ASSUME PrepInv, NEW op \in {"open", "load", "attach"}, NEW resources, NEW links \in Nat,
         Acquire(op, resources, links),
         resources \in [object : BOOLEAN, links : Nat, ring : BOOLEAN],
         resources.links = held.links + links,
         links = IF op = "attach" THEN 1 ELSE 0
  PROVE  PrepInv'
<1>1. frame = "prepare" /\ InPrepare /\ ResourcesKept /\ Head(todo) = op
  BY SetupRuns DEF Acquire, Executing, SetupOperations
<1>2. /\ held' = resources /\ attached' = attached + links /\ todo' = Tail(todo)
      /\ UNCHANGED <<frame, collectors, creds, policy, armed>>
  BY DEF Acquire, privilege_rest
<1>3. Len(todo) # 1
  BY <1>1, SetupHead DEF InPrepare
<1>4. /\ InSetup(todo')
      /\ LinksAt(todo') = IF op = "attach" THEN LinksAt(todo) + 1 ELSE LinksAt(todo)
  BY <1>1, <1>2, <1>3, SetupTail DEF InPrepare
<1>5. held.links = LinksAt(todo) /\ held.links \in Nat
  BY <1>1 DEF ResourcesKept
<1>6. resources.links = LinksAt(todo')
  BY <1>4, <1>5
<1>7. attached' = Programs * collectors + resources.links
  <2>1. attached = Programs * collectors + held.links /\ collectors \in Nat
    BY <1>1 DEF ResourcesKept
  <2>2. Programs * collectors \in Nat
    BY <2>1, ProgramsAssumption
  <2> QED
    BY <1>2, <1>5, <2>1, <2>2
<1>8. ResourcesKept'
  BY <1>1, <1>2, <1>6, <1>7 DEF ResourcesKept
<1>9. InPrepare'
  BY <1>1, <1>2, <1>4 DEF InPrepare, CanPrepare
<1> QED
  BY <1>1, <1>2, <1>8, <1>9 DEF PrepInv

LEMMA RingStep ==
  ASSUME PrepInv, RingSetup
  PROVE  PrepInv' /\ (collectors' > collectors => policy = "Preserved")
<1>1. CASE SetupFails("ring", "RingSetup")
  <2>1. PrepInv'
    BY <1>1, SetupFailsStep DEF SetupOperations
  <2>2. collectors' = collectors /\ collectors \in Nat
    BY <1>1 DEF SetupFails, DropHeld, PrepInv, ResourcesKept
  <2> QED
    BY <2>1, <2>2
<1>2. CASE /\ Executing("ring") /\ Finish
           /\ IF policy = "Preserved" THEN HandOver
              ELSE held' = [held EXCEPT !.ring = TRUE] /\ UNCHANGED <<collectors, attached>>
  <2>1. frame = "prepare" /\ InPrepare /\ ResourcesKept /\ Head(todo) = "ring"
    BY <1>2, SetupRuns DEF Executing, SetupOperations
  <2>2. Len(todo) = 1 /\ held.links = Programs
    <3>1. Len(todo) = 1
      BY <2>1, SetupHead DEF InPrepare
    <3> QED
      BY <2>1, <3>1, ProgramsAssumption DEF ResourcesKept, LinksAt
  <2>3. UNCHANGED <<creds, others, policy, armed, before>>
    BY <1>2 DEF Finish
  <2>4. CASE policy = "Preserved"
    <3>1. frame' = "caller" /\ todo' = <<>> /\ result' = "ok" /\ HandOver
      BY <1>2, <2>4 DEF Finish, Return
    <3> QED
      BY <2>1, <2>2, <2>3, <2>4, <3>1, BackInCaller, HandedOver DEF PrepInv
  <2>5. CASE policy # "Preserved"
    <3>1. /\ frame' = "finish" /\ todo' = FinishOps /\ policy = "Minimized"
          /\ held' = [held EXCEPT !.ring = TRUE] /\ UNCHANGED <<collectors, attached>>
      BY <1>2, <2>1, <2>5 DEF Finish, Begin, InPrepare, CanPrepare
    <3>2. Suffix(todo', FinishOps) /\ Len(todo') = 7
      BY <3>1, CallsBegin
    <3>3. PrivInv'
      <4>1. /\ creds' \in Credentials /\ armed' = FALSE /\ SetupOnly(creds')
            /\ policy' = "Minimized" /\ frame' = "finish"
        BY <2>1, <2>3, <3>1 DEF InPrepare
      <4>2. Len(todo') # 1 /\ Len(todo') \notin 2 .. 6
        BY <3>2
      <4> QED
        BY Zenon, <3>2, <4>1, <4>2
        DEF PrivInv, InCaller, InMinimize, InFinish, PolicyMeans, Policies
    <3>4. /\ held' \in [object : BOOLEAN, links : Nat, ring : BOOLEAN]
          /\ held'.links = held.links
      BY Zenon, <2>1, <3>1, HeldChanged DEF ResourcesKept
    <3>5. ResourcesKept'
      BY <2>1, <2>2, <3>1, <3>4 DEF ResourcesKept
    <3>6. ~(collectors' > collectors)
      BY <2>1, <3>1 DEF ResourcesKept
    <3> QED
      BY <3>1, <3>3, <3>5, <3>6 DEF PrepInv
  <2> QED
    BY <2>4, <2>5
<1> QED
  BY <1>1, <1>2 DEF RingSetup

LEMMA SetupStep ==
  ASSUME PrepInv, Open \/ Load \/ Attach
  PROVE  PrepInv' /\ collectors' = collectors
<1> USE DEF SetupOperations
<1>0. held \in [object : BOOLEAN, links : Nat, ring : BOOLEAN]
  BY DEF PrepInv, ResourcesKept
<1> SUFFICES PrepInv'
  BY DEF Open, Load, Attach, Acquire, SetupFails, DropHeld
<1>1. CASE Open
  <2>1. CASE Acquire("open", held, 0)
    BY <1>0, <2>1, AcquireStep
  <2>2. CASE SetupFails("open", "Open")
    BY <2>2, SetupFailsStep
  <2> QED
    BY <1>1, <2>1, <2>2 DEF Open
<1>2. CASE Load
  <2>1. CASE Acquire("load", [held EXCEPT !.object = TRUE], 0)
    <3> DEFINE new == [held EXCEPT !.object = TRUE]
    <3>1. new \in [object : BOOLEAN, links : Nat, ring : BOOLEAN] /\ new.links = held.links + 0
      BY Zenon, <1>0, HeldChanged
    <3>2. Acquire("load", new, 0)
      BY <2>1
    <3> HIDE DEF new
    <3> QED
      BY <3>1, <3>2, AcquireStep
  <2>2. ASSUME NEW error, SetupFails("load",
                 IF generation_1_is_missing(error) THEN "UnsupportedKernel" ELSE "Load")
        PROVE  PrepInv'
    <3> DEFINE kind == IF generation_1_is_missing(error) THEN "UnsupportedKernel" ELSE "Load"
    <3>1. kind # "minimize_failed" /\ SetupFails("load", kind)
      BY <2>2
    <3> HIDE DEF kind
    <3> QED
      BY <3>1, SetupFailsStep
  <2> QED
    BY <1>2, <2>1, <2>2 DEF Load
<1>3. CASE Attach
  <2>1. CASE Acquire("attach", [held EXCEPT !.links = @ + 1], 1)
    <3> DEFINE new == [held EXCEPT !.links = @ + 1]
    <3>1. new \in [object : BOOLEAN, links : Nat, ring : BOOLEAN] /\ new.links = held.links + 1
      BY <1>0, HeldChanged
    <3>2. Acquire("attach", new, 1)
      BY <2>1
    <3> HIDE DEF new
    <3> QED
      BY <3>1, <3>2, AcquireStep
  <2>2. CASE SetupFails("attach", "Attach")
    BY <2>2, SetupFailsStep
  <2> QED
    BY <1>3, <2>1, <2>2 DEF Attach
<1> QED
  BY <1>1, <1>2, <1>3

-----------------------------------------------------------------------------
(* The other steps.                                                         *)

LEMMA GoneStep ==
  ASSUME PrepInv, CollectorGone
  PROVE  PrepInv' /\ ~(collectors' > collectors)
<1>1. /\ collectors > 0 /\ collectors' = collectors - 1 /\ attached' = attached - Programs
      /\ UNCHANGED <<vars, held>>
  BY DEF CollectorGone
<1>2. collectors \in Nat /\ attached = Programs * collectors + held.links /\ held.links \in Nat
  BY DEF PrepInv, ResourcesKept
<1>3. Programs * collectors = Programs * (collectors - 1) + Programs
  BY <1>2, ProgramsAssumption
<1>4. attached' = Programs * collectors' + held'.links /\ collectors' \in Nat
  <2>1. Programs * (collectors - 1) \in Nat
    BY <1>1, <1>2, ProgramsAssumption
  <2> QED
    BY <1>1, <1>2, <1>3, <2>1, ProgramsAssumption
<1>5. ResourcesKept'
  BY <1>1, <1>4 DEF PrepInv, ResourcesKept, vars
<1>6. (IF frame = "prepare" THEN InPrepare ELSE PrivInv)'
  BY <1>1 DEF PrepInv, InPrepare, CanPrepare, PrivInv, InCaller, InMinimize, InFinish, PolicyMeans,
              vars
<1> QED
  BY <1>1, <1>2, <1>5, <1>6 DEF PrepInv

LEMMA AroundStep ==
  ASSUME PrepInv, UNCHANGED prep_vars,
         \/ CallMinimize \/ CallPreserve \/ RefuseFinish \/ DropPrivileges
         \/ SpawnThread \/ ThreadExits \/ RaiseAmbient \/ UNCHANGED vars
  PROVE  PrepInv'
<1>1. UNCHANGED <<held, collectors, attached>>
  BY DEF prep_vars
<1>2. CASE frame = "prepare"
  <2>1. UNCHANGED <<creds, policy, frame, todo, armed>>
    BY <1>2 DEF CallMinimize, CallPreserve, RefuseFinish, DropPrivileges, SpawnThread, ThreadExits,
                RaiseAmbient, Idle, vars
  <2> QED
    BY <1>1, <1>2, <2>1 DEF PrepInv, InPrepare, CanPrepare, ResourcesKept
<1>3. CASE frame # "prepare"
  <2>1. PrivInv /\ PrivInv'
    BY <1>3, PrivInvKept, CallStep, EnvironmentStep DEF PrepInv
  <2>2. frame' = frame \/ (frame = "caller" /\ frame' \notin {"prepare", "finish"})
    BY Zenon, <2>1 DEF CallMinimize, CallPreserve, RefuseFinish, DropPrivileges, SpawnThread, ThreadExits,
                RaiseAmbient, Idle, Begin, Return, vars, PrivInv, Policies
  <2> QED
    BY <1>1, <1>3, <2>1, <2>2 DEF PrepInv, ResourcesKept
<1> QED
  BY <1>2, <1>3

LEMMA PrepInvKept == PrepInv /\ [PrepNext]_all_vars => PrepInv'
<1> SUFFICES ASSUME PrepInv, [PrepNext]_all_vars
             PROVE  PrepInv'
  OBVIOUS
<1>1. CASE UNCHANGED all_vars
  BY <1>1, AroundStep DEF all_vars
<1>2. CASE Aborted /\ UNCHANGED prep_vars
  BY <1>2, AroundStep DEF Aborted
<1> QED
  BY <1>1, <1>2, PrivilegedStep, CallPrepareStep, SetupStep, RingStep, GoneStep, AroundStep
  DEF PrepNext

LEMMA PrepInvHolds == PrepSpec => []PrepInv
<1>1. PrepInit => PrepInv
  <2> SUFFICES ASSUME PrepInit
               PROVE  PrepInv
    OBVIOUS
  <2>1. PrivInv /\ frame = "caller"
    BY Zenon, CredentialsAssumption
    DEF PrepInit, Init, PrivInv, InCaller, InMinimize, InFinish, PolicyMeans, Policies
  <2>2. ResourcesKept
    BY <2>1, NothingTyped, ProgramsAssumption DEF PrepInit, ResourcesKept
  <2> QED
    BY <2>1, <2>2 DEF PrepInv
<1> QED
  BY <1>1, PrepInvKept, PTL DEF PrepSpec

-----------------------------------------------------------------------------
(* The theorems.                                                            *)

\* Back in the caller, the links in the kernel are those of live collectors:
\* a prepare that failed, wherever it did, left nothing behind (prepare).
THEOREM FailedPreparation == PrepSpec => []NothingLeaks
<1>1. PrepInv => NothingLeaks
  <2> SUFFICES ASSUME PrepInv, frame = "caller"
               PROVE  held = Nothing /\ attached = Programs * collectors
    BY DEF NothingLeaks, Idle
  <2>1. held = Nothing /\ attached = Programs * collectors + 0 /\ collectors \in Nat
    BY NothingTyped DEF PrepInv, ResourcesKept
  <2> QED
    BY <2>1, ProgramsAssumption
<1> QED
  BY <1>1, PrepInvHolds, PTL

\* A collector prepared under a minimized policy is returned with all its
\* programs attached, to a process without authority in any thread (prepare).
THEOREM PreparedCollector == PrepSpec => PreparedPowerless
<1> DEFINE Clean == (collectors' > collectors /\ policy # "Preserved") =>
                      /\ held.links = Programs
                      /\ \A c \in others' \cup {creds'} : Powerless(c)
<1>1. PrepInv /\ [PrepNext]_all_vars => [Clean]_all_vars
  <2> SUFFICES ASSUME PrepInv, PrepNext, collectors' > collectors, policy # "Preserved"
               PROVE  /\ held.links = Programs
                      /\ \A c \in others' \cup {creds'} : Powerless(c)
    OBVIOUS
  <2>1. collectors \in Nat /\ collectors' # collectors
    BY DEF PrepInv, ResourcesKept
  <2>2. Privileged
    BY <2>1, SetupStep, RingStep, GoneStep DEF PrepNext, CallPrepare, prep_vars
  <2>3. PrivilegeStep /\ PrivInv /\ PrivInv' /\ ResourcesKept
    BY <2>2, PrivilegedStep DEF Privileged, PrepInv
  <2>4. frame = "finish" /\ frame' = "caller" /\ result' = "ok"
    BY <2>1, <2>2 DEF Privileged, DropHeld
  <2>5. policy' = "Finished"
    BY <2>3, <2>4, FrameAfter
  <2>6. \A c \in others' \cup {creds'} : Powerless(c)
    BY <2>3, <2>5 DEF PrivInv, PolicyMeans
  <2> QED
    BY <2>3, <2>4, <2>6 DEF ResourcesKept
<1> QED
  BY <1>1, PrepInvHolds, PTL DEF PrepSpec, PreparedPowerless
=============================================================================
