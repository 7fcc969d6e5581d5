-------------------------------- MODULE Labels --------------------------------
(***************************************************************************)
(* What lltop says of a denial: the blockers and the target of a DENIAL    *)
(* line (lltop/src/batch.rs), and those of a row and its details           *)
(* (lltop/src/tui/format.rs and ui.rs).                                    *)
(*                                                                         *)
(* A label is a record of its prefix ("FS", "Net", "Scope" or none), the   *)
(* names and the numbers it lists in that order; a number has the key      *)
(* before its "=", or none.  A target is a record of what it lists.        *)
(***************************************************************************)
EXTENDS Events

Label(prefix, names, numbers) == [prefix |-> prefix, names |-> names, numbers |-> numbers]

\* format.rs: the names of a mask, the rest in hexadecimal, and 0x0 for none.
access(prefix, mask, table) ==
  LET names == known_names(mask, table)
      unknown == unknown_bits(mask, table)
  IN Label(prefix, names, IF unknown # 0 \/ names = <<>> THEN <<<<"", unknown>>>> ELSE <<>>)

\* batch.rs: the same, but 0x0 has no prefix.
access_blockers(prefix, mask, table) ==
  access(IF known_names(mask, table) = <<>> /\ unknown_bits(mask, table) = 0 THEN "" ELSE prefix,
         mask, table)

\* The forms for the blockers whose access has no names of its own.
OtherBlockers(prefix, blockers) ==
  IF blockers.blockers = "ChangeTopology" THEN Label(prefix, <<"change_topology">>, <<>>)
  ELSE IF blockers.request_type = BlockerType.FS_CHANGE_TOPOLOGY /\ prefix = "FS"
  THEN Label(prefix, <<"change_topology">>, <<<<"access", blockers.access>>>>)
  ELSE Label(prefix, <<>>, <<<<"request_type", blockers.request_type>>,
                             <<"access", blockers.access>>>>)

\* batch.rs
filesystem_blockers(blockers) ==
  IF blockers.blockers = "Access"
  THEN access_blockers("FS", blockers.access, FILESYSTEM_ACCESS_NAMES)
  ELSE OtherBlockers("FS", blockers)

network_blockers(blockers_type, blockers_access) ==
  IF blockers_type = BlockerType.NET_ACCESS
  THEN access_blockers("Net", blockers_access, NETWORK_ACCESS_NAMES)
  ELSE OtherBlockers("Net", [blockers |-> "Other", request_type |-> blockers_type,
                             access |-> blockers_access])

\* format.rs
filesystem_blocker(blockers) ==
  IF blockers.blockers = "Access"
  THEN access("FS", blockers.access, FILESYSTEM_ACCESS_NAMES)
  ELSE OtherBlockers("FS", blockers)

network_blocker(blockers_type, blockers_access) ==
  IF blockers_type = BlockerType.NET_ACCESS
  THEN access("Net", blockers_access, NETWORK_ACCESS_NAMES)
  ELSE OtherBlockers("Net", [blockers |-> "Other", request_type |-> blockers_type,
                             access |-> blockers_access])

-----------------------------------------------------------------------------

\* ASCII letters and digits, '_', '-', '.' and '/'.
Literal == (48 .. 57) \cup (65 .. 90) \cup (97 .. 122) \cup {95, 45, 46, 47}

\* batch.rs: every byte but the literal ones as \xNN.
escape(value) ==
  LET piece(byte) == IF byte \in Literal THEN <<byte>> ELSE EscapedByte(byte)
  IN Written([i \in DOMAIN value.bytes |-> piece(value.bytes[i])])
       \o IF value.bytes_omitted THEN <<ELLIPSIS>> ELSE <<>>

ports_FirstName(event) ==
  LET names == IF event.blockers_type = BlockerType.NET_ACCESS
               THEN known_names(event.blockers_access, NETWORK_ACCESS_NAMES) ELSE <<>>
  IN IF names = <<>> THEN [sport |-> event.source_port, dport |-> event.destination_port]
     ELSE IF names[1] \in {"bind_tcp", "bind_udp"} THEN [sport |-> event.source_port]
     ELSE [dport |-> event.destination_port]

\* The port on the side a known access names; both if it names none or both.
ports(event) ==
  LET names == IF event.blockers_type = BlockerType.NET_ACCESS
               THEN known_names(event.blockers_access, NETWORK_ACCESS_NAMES) ELSE <<>>
      has_bind == \E i \in DOMAIN names : names[i] \in {"bind_tcp", "bind_udp"}
      has_connect == \E i \in DOMAIN names : names[i] \in {"connect_tcp", "connect_send_udp"}
  IN IF has_bind /\ ~has_connect THEN [sport |-> event.source_port]
     ELSE IF has_connect /\ ~has_bind THEN [dport |-> event.destination_port]
     ELSE [sport |-> event.source_port, dport |-> event.destination_port]

\* batch.rs: blockers, target and the membership of the other side.
denial_fields(event) ==
  CASE event.variant = "DenyAccessFs" ->
         [blockers |-> filesystem_blockers(classify(event.blockers_type, event.blockers_access)),
          target |-> [text |-> escape(event.pathname)], relation |-> None]
    [] event.variant = "DenyAccessNet" ->
         [blockers |-> network_blockers(event.blockers_type, event.blockers_access),
          target |-> ports(event), relation |-> None]
    [] event.variant = "DenyPtrace" ->
         [blockers |-> Label("", <<"ptrace">>, <<>>),
          target |-> [pid |-> event.tracee_pid, text |-> escape(event.tracee_comm)],
          relation |-> <<"tracee_domain", event.tracee_domain>>]
    [] event.variant = "DenyScopeSignal" ->
         [blockers |-> Label("Scope", <<"signal">>, <<>>),
          target |-> [pid |-> event.target_pid, text |-> escape(event.target_comm)],
          relation |-> <<"target_domain", event.target_domain>>]
    [] event.variant = "DenyScopeAbstractUnixSocket" ->
         [blockers |-> Label("Scope", <<"abstract_unix_socket">>, <<>>),
          target |-> [text |-> <<64>> \o escape(event.abstract_name)],
          relation |-> <<"peer_domain", event.peer_domain>>]

\* ui.rs
blockers_event(event) ==
  CASE event.variant = "DenyAccessFs" ->
         filesystem_blocker(classify(event.blockers_type, event.blockers_access))
    [] event.variant = "DenyAccessNet" ->
         network_blocker(event.blockers_type, event.blockers_access)
    [] event.variant = "DenyPtrace" -> Label("", <<"ptrace">>, <<>>)
    [] event.variant = "DenyScopeSignal" -> access("Scope", 2, SCOPE_NAMES)
    [] event.variant = "DenyScopeAbstractUnixSocket" -> access("Scope", 1, SCOPE_NAMES)

target_event(event) ==
  CASE event.variant = "DenyAccessFs" -> [text |-> Display(event.pathname, Origin.Pathname)]
    [] event.variant = "DenyAccessNet" -> ports(event)
    [] event.variant = "DenyPtrace" ->
         [pid |-> event.tracee_pid, text |-> Display(event.tracee_comm, Origin.Command)]
    [] event.variant = "DenyScopeSignal" ->
         [pid |-> event.target_pid, text |-> Display(event.target_comm, Origin.Command)]
    [] event.variant = "DenyScopeAbstractUnixSocket" ->
         [text |-> Display(event.abstract_name, Origin.AbstractUnixSocketName)]
=============================================================================
