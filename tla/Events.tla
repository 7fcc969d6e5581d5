-------------------------------- MODULE Events --------------------------------
(***************************************************************************)
(* The values of src/event/mod.rs: IDs, access masks, blockers and the     *)
(* twelve events with the typestate builders that make them.               *)
(*                                                                         *)
(* A mask is the number it stands for.  A value with a builder is a record *)
(* whose fields are named like its setters and accessors.                  *)
(***************************************************************************)
EXTENDS Naturals, Sequences, Captured

CONSTANTS
  MIN_LANDLOCK_ID,  \* the smallest ID the kernel assigns (2^32)
  None,             \* Option::None
  Missing           \* a field that was not supplied to a builder

ASSUME MinimumIdAssumption == MIN_LANDLOCK_ID \in Nat \ {0}

-----------------------------------------------------------------------------
(* IDs.                                                                     *)

\* IDs are their numbers: they compare, hash and convert like them.
LandlockId == {value \in Nat : value >= MIN_LANDLOCK_ID}

\* ProcessId and ThreadId.
TaskId == Nat \ {0}

-----------------------------------------------------------------------------
(* Access masks.                                                            *)

\* The names of bits 0, 1, ...
FILESYSTEM_ACCESS_NAMES ==
  <<"execute", "write_file", "read_file", "read_dir", "remove_dir", "remove_file", "make_char",
    "make_dir", "make_reg", "make_sock", "make_fifo", "make_block", "make_sym", "refer",
    "truncate", "ioctl_dev", "resolve_unix">>

NETWORK_ACCESS_NAMES == <<"bind_tcp", "connect_tcp", "bind_udp", "connect_send_udp">>

SCOPE_NAMES == <<"abstract_unix_socket", "signal">>

HasBit(mask, n) == (mask \div 2^n) % 2 = 1

\* The names of the set bits, in the order of the table.
known_names(mask, table) ==
  LET set(i) == HasBit(mask, i - 1)
      positions == SelectSeq([i \in DOMAIN table |-> i], set)
  IN [k \in DOMAIN positions |-> table[positions[k]]]

\* The set bits without a name: those above the table's, which has no gap.
unknown_bits(mask, table) == (mask \div 2^Len(table)) * 2^Len(table)

-----------------------------------------------------------------------------
(* Blockers.                                                                *)

BlockerType ==
  [PTRACE |-> 1, FS_CHANGE_TOPOLOGY |-> 2, FS_ACCESS |-> 3, NET_ACCESS |-> 4,
   SCOPE_ABSTRACT_UNIX_SOCKET |-> 5, SCOPE_SIGNAL |-> 6]

\* FilesystemBlockers::classify
classify(request_type, access) ==
  IF request_type = BlockerType.FS_ACCESS THEN [blockers |-> "Access", access |-> access]
  ELSE IF request_type = BlockerType.FS_CHANGE_TOPOLOGY /\ access = 0
  THEN [blockers |-> "ChangeTopology"]
  ELSE [blockers |-> "Other", request_type |-> request_type, access |-> access]

-----------------------------------------------------------------------------
(* Builders and the values they build.                                      *)

\* builder(), a setter for each supplied field in any order, and build().
build(fields, supplied) ==
  [f \in fields |-> IF f \in DOMAIN supplied THEN supplied[f] ELSE Missing]

HierarchySnapshot == {"domain_id", "parent_id", "creator_tgid", "creator_comm"}

DenialContext == {"hierarchy", "cumulative_denial_count", "same_exec", "logged"}

CreateRulesetEvent ==
  {"timestamp", "ruleset_id", "ruleset_version", "handled_fs", "handled_net", "scoped"}

AddRulePathBeneathEvent ==
  {"timestamp", "ruleset_id", "ruleset_version", "access_rights", "device", "inode", "pathname"}

AddRuleNetPortEvent == {"timestamp", "ruleset_id", "ruleset_version", "access_rights", "port"}

CreateDomainEvent ==
  {"timestamp", "ruleset_id", "ruleset_version", "domain_id", "parent_id", "creator_tgid",
   "creator_comm"}

DenyAccessFsEvent ==
  {"timestamp", "context", "blockers_type", "blockers_access", "device", "inode", "pathname"}

DenyAccessNetEvent ==
  {"timestamp", "context", "blockers_type", "blockers_access", "source_port", "destination_port"}

DenyPtraceEvent == {"timestamp", "context", "tracee_domain", "tracee_pid", "tracee_comm"}

DenyScopeSignalEvent == {"timestamp", "context", "target_domain", "target_pid", "target_comm"}

DenyScopeAbstractUnixSocketEvent ==
  {"timestamp", "context", "peer_domain", "peer_pid", "abstract_name"}

FreeDomainEvent == {"timestamp", "domain_id", "denial_count"}

FreeRulesetEvent == {"timestamp", "ruleset_id", "ruleset_version"}

EnforceDomainEvent ==
  {"timestamp", "domain_id", "enforcing_tid", "complete", "process_wide", "no_new_privs"}

\* The variants of Event; each holds the event of its name.
Event ==
  [CreateRuleset |-> CreateRulesetEvent, AddRulePathBeneath |-> AddRulePathBeneathEvent,
   AddRuleNetPort |-> AddRuleNetPortEvent, CreateDomain |-> CreateDomainEvent,
   DenyAccessFs |-> DenyAccessFsEvent, DenyAccessNet |-> DenyAccessNetEvent,
   DenyPtrace |-> DenyPtraceEvent, DenyScopeSignal |-> DenyScopeSignalEvent,
   DenyScopeAbstractUnixSocket |-> DenyScopeAbstractUnixSocketEvent,
   FreeDomain |-> FreeDomainEvent, FreeRuleset |-> FreeRulesetEvent,
   EnforceDomain |-> EnforceDomainEvent]

\* Those that implement Denial.
IsDenial(event) == "context" \in Event[event.variant]
=============================================================================
