----------------------------- MODULE Preparation -----------------------------
(***************************************************************************)
(* CollectorConfig::prepare of src/collector.rs: the BPF object is opened  *)
(* and loaded, its programs attached and the ring buffer built, all under  *)
(* the privilege policy, which is then finished.  A failure on the way     *)
(* drops what was acquired; success hands it to a collector and worker.    *)
(***************************************************************************)
EXTENDS Privilege

CONSTANTS
  Targets,        \* GENERATION_1_TARGETS; each has one program
  Programs,       \* their number
  MaxCollectors   \* bound: collectors alive at once

ASSUME ProgramsAssumption == Programs \in Nat \ {0} /\ MaxCollectors \in Nat

VARIABLES
  kernel,      \* the running kernel: tracepoints in its BTF, BTF readable
  held,        \* resources of the prepare call in progress
  collectors,  \* collector and worker pairs returned and still alive
  attached     \* BPF links that exist in the kernel

prep_vars == <<kernel, held, collectors, attached>>
all_vars == <<vars, prep_vars>>

-----------------------------------------------------------------------------

Nothing == [object |-> FALSE, links |-> 0, ring |-> FALSE]

\* backend::prepare and prepare_resources.
SetupOps == <<"open", "load">> \o [i \in 1 .. Programs |-> "attach"] \o <<"ring">>

\* The mask of the targets named by the typedefs of the kernel's BTF.
generation_1_target_mask == kernel.tracepoints \cap Targets

\* Only a lookup-shaped load error is diagnosed, and only by readable BTF.
generation_1_is_missing(error) ==
  /\ error \in {"NotFound", "Other"}
  /\ kernel.btf_readable
  /\ generation_1_target_mask # Targets

\* How libbpf reports a failed load: lookup errors when a target is missing.
LoadErrors ==
  (IF Targets \subseteq kernel.tracepoints THEN {} ELSE {"NotFound", "Other"})
    \cup {"Other", "PermissionDenied"}

CanLoad == SETUP_CAPABILITIES \subseteq creds.effective /\ Targets \subseteq kernel.tracepoints

-----------------------------------------------------------------------------

CallPrepare ==
  /\ Idle /\ CanPrepare
  /\ collectors < MaxCollectors
  /\ Begin("prepare", SetupOps)
  /\ UNCHANGED <<creds, others, policy, armed, aborted, before, prep_vars>>

\* The locals of prepare go out of scope, the links with them.
DropHeld_LinksLeak == held' = Nothing /\ UNCHANGED <<collectors, attached>>

DropHeld ==
  /\ held' = Nothing
  /\ attached' = attached - held.links
  /\ UNCHANGED collectors

\* prepare returns Ok((collector, worker)).
HandOver == held' = Nothing /\ collectors' = collectors + 1 /\ UNCHANGED attached

privilege_rest == <<creds, others, policy, armed, aborted, before, kernel>>

Acquire(op, resources, links) ==
  /\ Executing(op)
  /\ held' = resources
  /\ attached' = attached + links
  /\ todo' = Tail(todo)
  /\ UNCHANGED <<frame, result, collectors, privilege_rest>>

SetupFails(op, kind) ==
  /\ Executing(op)
  /\ Return(kind)
  /\ DropHeld
  /\ UNCHANGED privilege_rest

Open == Acquire("open", held, 0) \/ SetupFails("open", "Open")

Load ==
  \/ CanLoad /\ Acquire("load", [held EXCEPT !.object = TRUE], 0)
  \/ \E error \in LoadErrors :
       SetupFails("load", IF generation_1_is_missing(error) THEN "UnsupportedKernel" ELSE "Load")

\* One program; collect() stops at the first that fails.
Attach ==
  \/ Acquire("attach", [held EXCEPT !.links = @ + 1], 1)
  \/ SetupFails("attach", "Attach")

\* The last resource; prepare goes on to finish the privileges, which is
\* already the end under a preserved policy.
RingSetup ==
  \/ /\ Executing("ring")
     /\ Finish
     /\ IF policy = "Preserved" THEN HandOver
        ELSE held' = [held EXCEPT !.ring = TRUE] /\ UNCHANGED <<collectors, attached>>
     /\ UNCHANGED kernel
  \/ SetupFails("ring", "RingSetup")

\* A step of privilege management; the end of finish is that of prepare.
Privileged ==
  /\ PrivilegeStep
  /\ IF frame = "finish" /\ frame' = "caller"
     THEN IF result' = "ok" THEN HandOver ELSE DropHeld
     ELSE UNCHANGED <<held, collectors, attached>>
  /\ UNCHANGED kernel

\* A worker that ended, or a pair dropped unused, gives up its resources.
CollectorGone ==
  /\ ~aborted /\ collectors > 0
  /\ collectors' = collectors - 1
  /\ attached' = attached - Programs
  /\ UNCHANGED <<vars, kernel, held>>

PrepInit ==
  /\ Init
  /\ kernel \in [tracepoints : SUBSET Targets, btf_readable : BOOLEAN]
  /\ held = Nothing /\ collectors = 0 /\ attached = 0

PrepNext ==
  \/ Privileged
  \/ CallPrepare \/ Open \/ Load \/ Attach \/ RingSetup
  \/ CollectorGone
  \/ /\ CallMinimize \/ CallPreserve \/ RefuseFinish \/ DropPrivileges
        \/ SpawnThread \/ ThreadExits \/ RaiseAmbient \/ Aborted
     /\ UNCHANGED prep_vars

PrepSpec == PrepInit /\ [][PrepNext]_all_vars
-----------------------------------------------------------------------------

\* "Every preparation failure destroys all partially or fully prepared BPF
\* resources" (prepare): back in the caller, the links in the kernel are those
\* of the live collectors, each with all its programs.
NothingLeaks ==
  Idle => held = Nothing /\ attached = Programs * collectors

\* A collector prepared under a minimized policy is returned with all its
\* programs attached, to a process without authority in any thread.
PreparedPowerless ==
  [][(collectors' > collectors /\ policy # "Preserved") =>
       /\ held.links = Programs
       /\ \A c \in others' \cup {creds'} : Powerless(c)]_all_vars
=============================================================================
