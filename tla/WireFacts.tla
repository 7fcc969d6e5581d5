------------------------------ MODULE WireFacts ------------------------------
(***************************************************************************)
(* What an event has to say about the tracepoint it comes from, without    *)
(* records, offsets or conversions.                                        *)
(***************************************************************************)
EXTENDS Wire

\* A string of which at most n bytes are kept, and whether there were more.
Kept(source, n) ==
  [bytes |-> SubSeq(source, 1, Min2(Len(source), n)), bytes_omitted |-> Len(source) > n]

Complete(source) == [bytes |-> source, bytes_omitted |-> FALSE]

\* The creator of a domain is known unless its details are gone.
CreatorKnown(t) ==
  IsDenial(t) => t.hierarchy.details # None /\ t.hierarchy.details.pid # None

\* A path that can be read; a peer without a name or with an abstract one.
Readable(t) ==
  /\ "pathname" \in DOMAIN t => t.pathname # None
  /\ "peer" \in DOMAIN t =>
       \/ t.peer.addr = None
       \/ t.peer.addr.sun_path # None /\ Head(t.peer.addr.sun_path) = 0

ParentTold(h) == IF h.parent = None THEN Root ELSE h.parent

SandboxTold(domain) == IF domain = 0 THEN Unsandboxed ELSE domain

ContextTold(t) ==
  LET h == t.hierarchy
  IN [context |->
        [hierarchy |-> [domain_id |-> h.id, parent_id |-> ParentTold(h),
                        creator_tgid |-> h.details.pid, creator_comm |-> Complete(h.details.comm)],
         cumulative_denial_count |-> h.num_denials, same_exec |-> t.same_exec,
         logged |-> t.logged]]

RulesetTold(t) == [ruleset_id |-> t.ruleset.id, ruleset_version |-> t.ruleset.version]

BlockersTold(t) == [blockers_type |-> t.blockers.type, blockers_access |-> t.blockers.access]

\* "the checked port for a known bind access, or zero otherwise", and the same
\* for connect or send (DenyAccessNetEvent): the address has a port if it is
\* long enough for one and of an internet family, or of none on IPv4.
PortTold(t, known) ==
  IF /\ t.addrlen > 3
     /\ t.address.family # "AF_UNIX"
     /\ ~(t.address.family = "AF_UNSPEC" /\ t.socket_family = "AF_INET6")
     /\ \E right \in known : HasBit(t.blockers.access, right)
  THEN 256 * t.address.sin_port[1] + t.address.sin_port[2]
  ELSE 0

Told(t) ==
  [variant |-> t.variant, timestamp |-> t.now] @@
  CASE t.variant = "CreateRuleset" ->
         RulesetTold(t) @@ [handled_fs |-> t.ruleset.fs, handled_net |-> t.ruleset.net,
                            scoped |-> t.ruleset.scope]
    [] t.variant = "AddRulePathBeneath" ->
         RulesetTold(t) @@ [access_rights |-> t.access_rights, device |-> t.dev,
                            inode |-> t.inode, pathname |-> Kept(t.pathname, 256)]
    [] t.variant = "AddRuleNetPort" ->
         RulesetTold(t) @@ [access_rights |-> t.access_rights, port |-> t.port]
    [] t.variant = "CreateDomain" ->
         RulesetTold(t) @@ [domain_id |-> t.hierarchy.id, parent_id |-> ParentTold(t.hierarchy),
                            creator_tgid |-> t.current.tgid,
                            creator_comm |-> Complete(t.current.comm)]
    [] t.variant = "EnforceDomain" ->
         [domain_id |-> t.hierarchy.id, enforcing_tid |-> t.current.tid,
          complete |-> t.complete, process_wide |-> t.process_wide,
          no_new_privs |-> t.no_new_privs]
    [] t.variant = "DenyAccessFs" ->
         ContextTold(t) @@ BlockersTold(t)
           @@ [device |-> t.dev, inode |-> IF t.inode = None THEN 0 ELSE t.inode,
               pathname |-> Kept(t.pathname, 256)]
    [] t.variant = "DenyAccessNet" ->
         ContextTold(t) @@ BlockersTold(t)
           @@ [source_port |-> PortTold(t, {0, 2}), destination_port |-> PortTold(t, {1, 3})]
    [] t.variant = "DenyPtrace" ->
         ContextTold(t) @@ [tracee_domain |-> SandboxTold(t.other_domain_id),
                            tracee_pid |-> t.other.tgid, tracee_comm |-> Complete(t.other.comm)]
    [] t.variant = "DenyScopeSignal" ->
         ContextTold(t) @@ [target_domain |-> SandboxTold(t.other_domain_id),
                            target_pid |-> t.other.tgid, target_comm |-> Complete(t.other.comm)]
    [] t.variant = "DenyScopeAbstractUnixSocket" ->
         ContextTold(t)
           @@ [peer_domain |-> SandboxTold(t.peer_domain_id), peer_pid |-> t.peer.pid,
               abstract_name |-> Complete(IF t.peer.addr = None THEN <<>>
                                          ELSE Tail(t.peer.addr.sun_path))]
    [] t.variant = "FreeDomain" ->
         [domain_id |-> t.hierarchy.id, denial_count |-> t.hierarchy.num_denials]
    [] t.variant = "FreeRuleset" -> RulesetTold(t)

\* Records are exact.  Handlers give up those whose path or name cannot be had
\* and no others: no "fabricating empty" in its place, and none that is merely
\* long, empty or without a peer (capture_path,
\* capture_abstract_unix_socket_name).  The event decoded from a sample says
\* what the tracepoint reported, each field at its place and "precisely whether
\* source bytes were omitted" (README.md), whatever the lengths; a sample is
\* malformed only if "userspace rejects a defensive zero creator TGID"
\* (fill_deny_header).
RecordsExact ==
  /\ last.step = "discarded" => ~Readable(last.tracepoint)
  /\ last.step = "submitted" => Readable(last.tracepoint)
  /\ last.step = "taken" =>
       last.outcome = (IF CreatorKnown(last.tracepoint) THEN Told(last.tracepoint) ELSE Invalid)
=============================================================================
