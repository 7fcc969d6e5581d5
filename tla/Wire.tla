--------------------------------- MODULE Wire ---------------------------------
(***************************************************************************)
(* From a tracepoint to an event: the BPF handlers of                      *)
(* src/bpf/landlock_observability.bpf.c fill the C record of event.h in    *)
(* the ring buffer, and `decode` of src/wire.rs reads it back by offsets.  *)
(*                                                                         *)
(* The memory of a record maps the offset of each stored member to its     *)
(* size and value; integers are numbers, arrays are sequences of bytes     *)
(* with their full length.  Sizes are the real ones.  What a tracepoint    *)
(* reports as None is a null pointer or a string that cannot be read.      *)
(***************************************************************************)
EXTENDS Events, TLC

CONSTANTS
  Tracepoints,      \* what the kernel's tracepoints report; see MCWire
  RingCapacity,     \* records the ring buffer can hold
  MaxFired,         \* bound: tracepoints that fire and get a record
  Root, Unsandboxed

ASSUME WireAssumption == RingCapacity \in Nat \ {0} /\ MaxFired \in Nat

VARIABLES
  fired, \* tracepoints that have fired and got a record
  ring,  \* committed samples: the record and, as history, its tracepoint
  last   \* history: the last step, its tracepoint and, if taken, its outcome

vars == <<fired, ring, last>>

Min2(a, b) == IF a <= b THEN a ELSE b

-----------------------------------------------------------------------------
(* The record (event.h).                                                    *)

TASK_COMM_LEN == 16
PATH_MAX_LEN == 256
ABSTRACT_UNIX_SOCKET_NAME_MAX_LEN == 107

\* The layout every denial starts with; the kinds without blockers have
\* padding (_count_pad) for blockers_type.
DenialHeader ==
  <<<<"domain_id", 8>>, <<"parent_id", 8>>, <<"creator_tgid", 4>>,
    <<"creator_comm", TASK_COMM_LEN>>, <<"blockers_type", 4>>, <<"num_denials", 8>>,
    <<"blockers_access", 8>>, <<"same_exec", 1>>, <<"logged", 1>>, <<"_pad", 6>>>>

PathMembers ==
  <<<<"dev", 4>>, <<"pathname_bytes_omitted", 1>>, <<"_ino_pad", 3>>, <<"ino", 8>>,
    <<"pathname", PATH_MAX_LEN>>>>

TaskMembers ==
  <<<<"other_domain_id", 8>>, <<"other_pid", 4>>, <<"other_comm", TASK_COMM_LEN>>,
    <<"_tail_pad", 4>>>>

RulesetMembers == <<<<"ruleset_id", 8>>, <<"ruleset_version", 8>>>>

\* The members of the union, in order, with their sizes; padding is explicit.
Members ==
  [CreateRuleset |->
     RulesetMembers \o <<<<"handled_fs", 8>>, <<"handled_net", 8>>, <<"scoped", 8>>>>,
   AddRulePathBeneath |-> RulesetMembers \o <<<<"access_rights", 8>>>> \o PathMembers,
   AddRuleNetPort |-> RulesetMembers \o <<<<"access_rights", 8>>, <<"port", 8>>>>,
   CreateDomain |->
     RulesetMembers \o <<<<"domain_id", 8>>, <<"parent_id", 8>>, <<"creator_tgid", 4>>,
                         <<"creator_comm", TASK_COMM_LEN>>, <<"_tail_pad", 4>>>>,
   EnforceDomain |->
     <<<<"domain_id", 8>>, <<"enforcing_tid", 4>>, <<"complete", 1>>, <<"process_wide", 1>>,
       <<"no_new_privs", 1>>, <<"_pad", 1>>>>,
   DenyAccessFs |-> DenialHeader \o PathMembers,
   DenyAccessNet |-> DenialHeader \o <<<<"sport", 8>>, <<"dport", 8>>>>,
   DenyPtrace |-> DenialHeader \o TaskMembers,
   DenyScopeSignal |-> DenialHeader \o TaskMembers,
   DenyScopeAbstractUnixSocket |->
     DenialHeader \o <<<<"peer_domain_id", 8>>, <<"peer_pid", 4>>, <<"abstract_name_len", 4>>,
                       <<"abstract_name", ABSTRACT_UNIX_SOCKET_NAME_MAX_LEN>>,
                       <<"_tail_pad", 5>>>>,
   FreeDomain |-> <<<<"domain_id", 8>>, <<"denials", 8>>>>,
   FreeRuleset |-> RulesetMembers]

Variants == DOMAIN Members

\* The bytes before the n-th member: 16 of the common header, then a sum.
Start(members) ==
  LET start[n \in 1 .. Len(members) + 1] ==
        IF n = 1 THEN 16 ELSE start[n - 1] + members[n - 1][2]
  IN start

Starts == [variant \in Variants |-> Start(Members[variant])]

SizeOfRecord ==
  LET ends == {Starts[variant][Len(Members[variant]) + 1] : variant \in Variants}
  IN CHOOSE e \in ends : \A other \in ends : other <= e

\* enum event_type
TypeCode ==
  [CreateRuleset |-> 1, AddRulePathBeneath |-> 2, AddRuleNetPort |-> 3, CreateDomain |-> 4,
   DenyAccessFs |-> 5, DenyAccessNet |-> 6, DenyPtrace |-> 7, DenyScopeSignal |-> 8,
   DenyScopeAbstractUnixSocket |-> 9, FreeDomain |-> 10, FreeRuleset |-> 11,
   EnforceDomain |-> 12]

\* A zeroed record in which these members, by name, were assigned.
Record(variant, assigned) ==
  LET members == Members[variant]
      stored == {n \in DOMAIN members : members[n][1] \in DOMAIN assigned}
  IN [size |-> SizeOfRecord, type |-> TypeCode[variant], timestamp_ns |-> assigned.timestamp_ns,
      memory |-> [offset \in {Starts[variant][n] : n \in stored} |->
                    LET n == CHOOSE m \in stored : Starts[variant][m] = offset
                    IN [size |-> members[n][2], value |-> assigned[members[n][1]]]]]

-----------------------------------------------------------------------------
(* The handlers (landlock_observability.bpf.c).  Each is a function of what  *)
(* its tracepoint reports to the members it assigns, or None if it discards  *)
(* its record.                                                              *)

Byte(flag) == IF flag THEN 1 ELSE 0

\* A string in an array of n bytes.
Padded(bytes, n) == [i \in 1 .. n |-> IF i <= Len(bytes) THEN bytes[i] ELSE 0]

\* bpf_probe_read_kernel_str: what fits before a NUL, and its length with it.
read_str(source, size) ==
  [buffer |-> Padded(SubSeq(source, 1, Min2(Len(source), size - 1)), size),
   length |-> Min2(Len(source) + 1, size)]

Stamp(t) == [timestamp_ns |-> t.now]

capture_path_OneByte(source) ==
  LET read == read_str(source, PATH_MAX_LEN + 1)
  IN [pathname |-> SubSeq(read.buffer, 1, PATH_MAX_LEN),
      pathname_bytes_omitted |-> Byte(read.length > PATH_MAX_LEN)]

\* Two bytes beyond the payload tell an exact fit from an omission.
capture_path(source) ==
  LET read == read_str(source, PATH_MAX_LEN + 2)
  IN [pathname |-> SubSeq(read.buffer, 1, PATH_MAX_LEN),
      pathname_bytes_omitted |-> Byte(read.length > PATH_MAX_LEN + 1)]

\* offsetof(struct sockaddr_un, sun_path) + 1
prefix_len == 3

\* The early returns of capture_abstract_unix_socket_name.
name_captured(addr) ==
  /\ addr.len >= prefix_len
  /\ addr.len <= prefix_len + ABSTRACT_UNIX_SOCKET_NAME_MAX_LEN
  /\ addr.sun_path # None /\ addr.sun_path[1] = 0

capture_abstract_unix_socket_name(peer) ==
  IF peer.addr = None
  THEN [abstract_name_len |-> 0,
        abstract_name |-> Padded(<<>>, ABSTRACT_UNIX_SOCKET_NAME_MAX_LEN)]
  ELSE IF ~name_captured(peer.addr) THEN None
  ELSE LET name_len == peer.addr.len - prefix_len
       IN [abstract_name_len |-> name_len,
           abstract_name |-> Padded(SubSeq(peer.addr.sun_path, 2, name_len + 1),
                                    ABSTRACT_UNIX_SOCKET_NAME_MAX_LEN)]

HAS_CHECKED_PORT(addrlen, address_family, socket_family) ==
  /\ addrlen >= 4
  /\ \/ address_family \in {"AF_INET", "AF_INET6"}
     \/ address_family = "AF_UNSPEC" /\ socket_family = "AF_INET"

LANDLOCK_ACCESS_NET_BIND(access) == HasBit(access, 0) \/ HasBit(access, 2)
LANDLOCK_ACCESS_NET_CONNECT_SEND(access) == HasBit(access, 1) \/ HasBit(access, 3)

\* sin_port is in network byte order.
ntohs(bytes) == bytes[1] * 256 + bytes[2]

project_checked_port(t) ==
  LET has_port == HAS_CHECKED_PORT(t.addrlen, t.address.family, t.socket_family)
      port == IF has_port THEN ntohs(t.address.sin_port) ELSE 0
  IN [sport |-> IF has_port /\ LANDLOCK_ACCESS_NET_BIND(t.blockers.access) THEN port ELSE 0,
      dport |-> IF has_port /\ LANDLOCK_ACCESS_NET_CONNECT_SEND(t.blockers.access)
                THEN port ELSE 0]

ParentId(h) == IF h.parent = None THEN 0 ELSE h.parent

\* With the two flags every handler of a denial assigns next.
fill_deny_header(t) ==
  LET h == t.hierarchy
  IN [domain_id |-> h.id, num_denials |-> h.num_denials, parent_id |-> ParentId(h),
      creator_tgid |-> IF h.details = None \/ h.details.pid = None THEN 0 ELSE h.details.pid,
      creator_comm |-> Padded(IF h.details = None THEN <<>> ELSE h.details.comm, TASK_COMM_LEN),
      same_exec |-> Byte(t.same_exec), logged |-> Byte(t.logged)]

Ruleset(t) == [ruleset_id |-> t.ruleset.id, ruleset_version |-> t.ruleset.version]

Blockers(t) == [blockers_type |-> t.blockers.type, blockers_access |-> t.blockers.access]

handle_create_ruleset(t) ==
  Stamp(t) @@ Ruleset(t) @@ [handled_fs |-> t.ruleset.fs, handled_net |-> t.ruleset.net,
                             scoped |-> t.ruleset.scope]

handle_add_rule_path_beneath(t) ==
  IF t.pathname = None THEN None
  ELSE Stamp(t) @@ Ruleset(t) @@ capture_path(t.pathname)
         @@ [access_rights |-> t.access_rights, dev |-> t.dev, ino |-> t.inode]

handle_add_rule_net_port(t) ==
  Stamp(t) @@ Ruleset(t) @@ [access_rights |-> t.access_rights, port |-> t.port]

\* The upper half of bpf_get_current_pid_tgid is the thread group.
handle_create_domain(t) ==
  Stamp(t) @@ Ruleset(t)
    @@ [domain_id |-> t.hierarchy.id, parent_id |-> ParentId(t.hierarchy),
        creator_tgid |-> t.current.tgid, creator_comm |-> Padded(t.current.comm, TASK_COMM_LEN)]

handle_enforce_domain(t) ==
  Stamp(t)
    @@ [domain_id |-> t.hierarchy.id, enforcing_tid |-> t.current.tid,
        complete |-> Byte(t.complete), process_wide |-> Byte(t.process_wide),
        no_new_privs |-> Byte(t.no_new_privs)]

handle_deny_access_fs(t) ==
  IF t.pathname = None THEN None
  ELSE Stamp(t) @@ fill_deny_header(t) @@ Blockers(t) @@ capture_path(t.pathname)
         @@ [dev |-> t.dev, ino |-> IF t.inode = None THEN 0 ELSE t.inode]

handle_deny_access_net(t) ==
  Stamp(t) @@ fill_deny_header(t) @@ Blockers(t) @@ project_checked_port(t)

\* handle_deny_ptrace and handle_deny_scope_signal, for tracee and target.
handle_deny_task(t) ==
  Stamp(t) @@ fill_deny_header(t)
    @@ [blockers_access |-> 0, other_domain_id |-> t.other_domain_id,
        other_pid |-> t.other.tgid, other_comm |-> Padded(t.other.comm, TASK_COMM_LEN)]

handle_deny_scope_abstract_unix_socket(t) ==
  LET name == capture_abstract_unix_socket_name(t.peer)
  IN IF name = None THEN None
     ELSE Stamp(t) @@ fill_deny_header(t) @@ name
            @@ [blockers_access |-> 0, peer_domain_id |-> t.peer_domain_id,
                peer_pid |-> IF t.peer.pid = None THEN 0 ELSE t.peer.pid]

handle_free_domain(t) ==
  Stamp(t) @@ [domain_id |-> t.hierarchy.id, denials |-> t.hierarchy.num_denials]

handle_free_ruleset(t) == Stamp(t) @@ Ruleset(t)

\* The program attached to each tracepoint.
Handled(t) ==
  CASE t.variant = "CreateRuleset" -> handle_create_ruleset(t)
    [] t.variant = "AddRulePathBeneath" -> handle_add_rule_path_beneath(t)
    [] t.variant = "AddRuleNetPort" -> handle_add_rule_net_port(t)
    [] t.variant = "CreateDomain" -> handle_create_domain(t)
    [] t.variant = "EnforceDomain" -> handle_enforce_domain(t)
    [] t.variant = "DenyAccessFs" -> handle_deny_access_fs(t)
    [] t.variant = "DenyAccessNet" -> handle_deny_access_net(t)
    [] t.variant \in {"DenyPtrace", "DenyScopeSignal"} -> handle_deny_task(t)
    [] t.variant = "DenyScopeAbstractUnixSocket" -> handle_deny_scope_abstract_unix_socket(t)
    [] t.variant = "FreeDomain" -> handle_free_domain(t)
    [] t.variant = "FreeRuleset" -> handle_free_ruleset(t)

-----------------------------------------------------------------------------
(* Decoding (wire.rs).                                                       *)

RECORD_SIZE == 352
COMM_SIZE == 16
PATH_SIZE == 256

\* The numbers of the decoder's kinds are their positions.
EventKinds ==
  <<"CreateRuleset", "AddRulePathBeneath", "AddRuleNetPort", "CreateDomain", "DenyAccessFs",
    "DenyAccessNet", "DenyPtrace", "DenyScopeSignal", "DenyScopeAbstractUnixSocket",
    "FreeDomain", "FreeRuleset", "EnforceDomain">>

\* u64_at, u32_at and single bytes: the member stored there, zero where none
\* is, and some other number where members are cut.
Integer(memory, offset, size) ==
  IF offset \in DOMAIN memory /\ memory[offset].size = size THEN memory[offset].value
  ELSE IF \E o \in DOMAIN memory : o < offset + size /\ offset < o + memory[o].size THEN 99
  ELSE 0

\* The first bytes of the array stored there, or some other bytes.
slice_at(memory, offset, size) ==
  IF offset \in DOMAIN memory /\ memory[offset].size > 8 /\ memory[offset].size >= size
  THEN SubSeq(memory[offset].value, 1, size)
  ELSE <<9>>

id(value) == IF value \in LandlockId THEN value ELSE Invalid
process_id(value) == IF value \in TaskId THEN value ELSE Invalid
optional_process_id(value) == IF value \in TaskId THEN value ELSE None
parent(value) == IF value = 0 THEN Root ELSE id(value)
domain_membership(value) == IF value = 0 THEN Unsandboxed ELSE id(value)

boolean_at(memory, offset) ==
  LET value == Integer(memory, offset, 1)
  IN IF value \in {0, 1} THEN value = 1 ELSE Invalid

captured_c_string(value, bytes_omitted, origin) ==
  LET nuls == {i \in DOMAIN value : value[i] = 0}
      end == IF nuls = {} THEN Len(value)
             ELSE (CHOOSE i \in nuls : \A j \in nuls : i <= j) - 1
  IN CapturedBytes(SubSeq(value, 1, end), bytes_omitted, origin)

captured_at(memory, offset, omitted_offset) ==
  LET bytes_omitted == boolean_at(memory, omitted_offset)
  IN IF bytes_omitted = Invalid THEN Invalid
     ELSE captured_c_string(slice_at(memory, offset, PATH_SIZE), bytes_omitted, Origin.Pathname)

command_at(memory, offset) ==
  captured_c_string(slice_at(memory, offset, COMM_SIZE), FALSE, Origin.Command)

\* Delimited by its length; NUL is a byte like any other.
abstract_unix_socket_name_at(memory, length_offset, name_offset) ==
  LET length == Integer(memory, length_offset, 4)
  IN IF length > 107 THEN Invalid
     ELSE CapturedBytes(slice_at(memory, name_offset, length), FALSE,
                        Origin.AbstractUnixSocketName)

\* A builder chain whose values are tried with `?`.
Built(fields, values) ==
  IF \E f \in DOMAIN values : values[f] = Invalid THEN Invalid ELSE build(fields, values)

denial_context(m) ==
  Built(DenialContext,
    [hierarchy |->
       Built(HierarchySnapshot,
         [domain_id |-> id(Integer(m, 16, 8)), parent_id |-> parent(Integer(m, 24, 8)),
          creator_tgid |-> process_id(Integer(m, 32, 4)), creator_comm |-> command_at(m, 36)]),
     cumulative_denial_count |-> Integer(m, 56, 8),
     same_exec |-> boolean_at(m, 72), logged |-> boolean_at(m, 73)])

RulesetFields(m) == [ruleset_id |-> id(Integer(m, 16, 8)), ruleset_version |-> Integer(m, 24, 8)]

BlockerFields(m) ==
  [blockers_type |-> Integer(m, 52, 4), blockers_access |-> Integer(m, 64, 8)]

\* The fields decode reads for each kind of event.
DecodedFields(kind, m) ==
  CASE kind = "CreateRuleset" ->
         RulesetFields(m) @@ [handled_fs |-> Integer(m, 32, 8), handled_net |-> Integer(m, 40, 8),
                              scoped |-> Integer(m, 48, 8)]
    [] kind = "AddRulePathBeneath" ->
         RulesetFields(m) @@ [access_rights |-> Integer(m, 32, 8), device |-> Integer(m, 40, 4),
                              inode |-> Integer(m, 48, 8), pathname |-> captured_at(m, 56, 44)]
    [] kind = "AddRuleNetPort" ->
         RulesetFields(m) @@ [access_rights |-> Integer(m, 32, 8), port |-> Integer(m, 40, 8)]
    [] kind = "CreateDomain" ->
         RulesetFields(m) @@ [domain_id |-> id(Integer(m, 32, 8)),
                              parent_id |-> parent(Integer(m, 40, 8)),
                              creator_tgid |-> process_id(Integer(m, 48, 4)),
                              creator_comm |-> command_at(m, 52)]
    [] kind = "DenyAccessFs" ->
         [context |-> denial_context(m)] @@ BlockerFields(m)
           @@ [device |-> Integer(m, 80, 4), inode |-> Integer(m, 88, 8),
               pathname |-> captured_at(m, 96, 84)]
    [] kind = "DenyAccessNet" ->
         [context |-> denial_context(m)] @@ BlockerFields(m)
           @@ [source_port |-> Integer(m, 80, 8), destination_port |-> Integer(m, 88, 8)]
    [] kind = "DenyPtrace" ->
         [context |-> denial_context(m), tracee_domain |-> domain_membership(Integer(m, 80, 8)),
          tracee_pid |-> process_id(Integer(m, 88, 4)), tracee_comm |-> command_at(m, 92)]
    [] kind = "DenyScopeSignal" ->
         [context |-> denial_context(m), target_domain |-> domain_membership(Integer(m, 80, 8)),
          target_pid |-> process_id(Integer(m, 88, 4)), target_comm |-> command_at(m, 92)]
    [] kind = "DenyScopeAbstractUnixSocket" ->
         [context |-> denial_context(m), peer_domain |-> domain_membership(Integer(m, 80, 8)),
          peer_pid |-> optional_process_id(Integer(m, 88, 4)),
          abstract_name |-> abstract_unix_socket_name_at(m, 92, 96)]
    [] kind = "FreeDomain" ->
         [domain_id |-> id(Integer(m, 16, 8)), denial_count |-> Integer(m, 24, 8)]
    [] kind = "FreeRuleset" -> RulesetFields(m)
    [] kind = "EnforceDomain" ->
         [domain_id |-> id(Integer(m, 16, 8)), enforcing_tid |-> process_id(Integer(m, 24, 4)),
          complete |-> boolean_at(m, 28), process_wide |-> boolean_at(m, 29),
          no_new_privs |-> boolean_at(m, 30)]

\* The event, or Invalid if the size, the kind or any field is.
decode(record) ==
  IF record.size # RECORD_SIZE \/ record.type \notin DOMAIN EventKinds THEN Invalid
  ELSE LET kind == EventKinds[record.type]
           event == Built(Event[kind], [timestamp |-> record.timestamp_ns]
                                         @@ DecodedFields(kind, record.memory))
       IN IF event = Invalid THEN Invalid ELSE [variant |-> kind] @@ event

-----------------------------------------------------------------------------

\* A tracepoint fires: its program reserves a record, fills and submits it.
Submit(t) ==
  /\ fired < MaxFired /\ fired' = fired + 1
  /\ Len(ring) < RingCapacity
  /\ Handled(t) # None
  /\ ring' = Append(ring, [tracepoint |-> t, record |-> Record(t.variant, Handled(t))])
  /\ last' = [step |-> "submitted", tracepoint |-> t]

\* A record whose path or name could not be captured is discarded.
Discard(t) ==
  /\ fired < MaxFired /\ fired' = fired + 1
  /\ Len(ring) < RingCapacity
  /\ Handled(t) = None
  /\ last' = [step |-> "discarded", tracepoint |-> t]
  /\ UNCHANGED ring

\* A tracepoint fires and alloc_event fails: the program returns.
AllocFails ==
  /\ Len(ring) = RingCapacity
  /\ last' = [step |-> "lost"]
  /\ UNCHANGED <<fired, ring>>

\* The ring callback decodes the oldest sample.
Take ==
  /\ ring # <<>>
  /\ ring' = Tail(ring)
  /\ last' = [step |-> "taken", tracepoint |-> Head(ring).tracepoint,
              outcome |-> decode(Head(ring).record)]
  /\ UNCHANGED fired

Init == fired = 0 /\ ring = <<>> /\ last = [step |-> "none"]

Next ==
  \/ \E t \in Tracepoints : Submit(t) \/ Discard(t)
  \/ AllocFails
  \/ Take

Spec == Init /\ [][Next]_vars
=============================================================================
