------------------------------- MODULE MCWire -------------------------------
(***************************************************************************)
(* Every tracepoint, with strings at the boundaries of their arrays, every *)
(* kind of address and absent parents, peers, inodes and creators; paths   *)
(* with what has to be escaped, also where they are cut.                   *)
(***************************************************************************)
EXTENDS LabelFacts

Text(n) == [i \in 1 .. n |-> 1]

MCRuleset == [id |-> 11, version |-> 3, fs |-> 5, net |-> 6, scope |-> 7]

Hierarchy(up, details) == [id |-> 12, num_denials |-> 4, parent |-> up, details |-> details]

Known(n) == [pid |-> 21, comm |-> Text(n)]

Nested == Hierarchy(13, Known(15))

Hierarchies ==
  {Nested, Hierarchy(None, Known(0)), Hierarchy(13, None),
   Hierarchy(None, [pid |-> None, comm |-> Text(1)])}

Current(n) == [tgid |-> 22, tid |-> 23, comm |-> Text(n)]

\* a, x, backslash, space, newline, the bytes of U+2026 and those of U+00A0.
Alphabet == {97, 120, 92, 32, 10, 226, 128, 166, 194, 160}

Endings(alphabet) == UNION {[1 .. n -> alphabet] : n \in 0 .. 3}

Filled(n, ending) == [i \in 1 .. n |-> 97] \o ending

\* Whole, at the end of a full capture, and cut after one or two bytes.
EscapedPaths ==
  Endings(Alphabet)
    \cup {Filled(256 - Len(e), e) : e \in Endings({92, 10, 226, 128, 166})}
    \cup {Filled(n, e) : n \in {254, 255}, e \in [1 .. 3 -> {92, 226, 128, 166}]}

Paths == {None} \cup {Text(n) : n \in {0, 1, 255, 256, 257, 258, 300}}

Denial(variant, h, exec, log) ==
  [variant |-> variant, now |-> 1, hierarchy |-> h, same_exec |-> exec, logged |-> log]

Access(type, mask) == [blockers |-> [type |-> type, access |-> mask]]

\* No bit, named bits, the last named one, the first without a name, and both.
FsMasks == {0, 1, 9, 2^16, 2^17, 2^16 + 2^17, 2^17 + 5}

Lifecycle(variant) == [variant |-> variant, now |-> 2, ruleset |-> MCRuleset]

\* sun_path up to the length of the address.
Address(sun_path, n) == [len |-> n + 2, sun_path |-> sun_path]

Names ==
  {<<>>, <<1>>, <<0>>, <<92, 120>>, <<64, 226, 128>>, <<1, 0, 1>>, <<1, 0>>, Text(106), Text(107), Append(Text(106), 0)}

Peers ==
  {[addr |-> None, pid |-> None], [addr |-> Address(<<1, 1, 0>>, 3), pid |-> 24],
   [addr |-> Address(None, 2), pid |-> 24]}
  \cup {[addr |-> Address(<<0>> \o name, Len(name) + 1), pid |-> 24] : name \in Names}

MCTracepoints ==
  {Lifecycle("CreateRuleset"), Lifecycle("FreeRuleset"),
   [variant |-> "FreeDomain", now |-> 2, hierarchy |-> Nested],
   Lifecycle("AddRuleNetPort") @@ [access_rights |-> 9, port |-> 80]}
  \cup {Lifecycle("AddRulePathBeneath")
          @@ [access_rights |-> 9, dev |-> 31, inode |-> 32, pathname |-> p] : p \in Paths \cup EscapedPaths}
  \cup {Lifecycle("CreateDomain") @@ [hierarchy |-> h, current |-> Current(n)] :
          h \in {Nested, Hierarchy(None, Known(0))}, n \in {0, 1, 15}}
  \cup {[variant |-> "EnforceDomain", now |-> 2, hierarchy |-> Nested, current |-> Current(1),
         complete |-> a, process_wide |-> b, no_new_privs |-> c] : a, b, c \in BOOLEAN}
  \cup {Denial("DenyAccessFs", Nested, TRUE, TRUE) @@ Access(type, mask)
          @@ [dev |-> 31, inode |-> 32, pathname |-> <<97>>] :
          type \in {2, 3, 8}, mask \in FsMasks}
  \cup {Denial("DenyAccessFs", h, TRUE, FALSE) @@ Access(3, 9)
          @@ [dev |-> 31, inode |-> i, pathname |-> p] :
          h \in Hierarchies, i \in {None, 32}, p \in {None, Text(0), Text(256), Text(257)}}
  \cup {Denial("DenyAccessNet", Nested, FALSE, TRUE) @@ Access(type, mask)
          @@ [socket_family |-> family, addrlen |-> n,
              address |-> [family |-> f, sin_port |-> <<1, 2>>]] :
          type \in {2, 4, 8}, mask \in {0, 1, 2, 4, 5, 8, 10, 16, 17, 18, 3},
          family \in {"AF_INET", "AF_INET6"}, n \in {2, 3, 4, 16},
          f \in {"AF_UNSPEC", "AF_INET", "AF_INET6", "AF_UNIX"}}
  \cup {Denial(variant, Nested, FALSE, log)
          @@ [other_domain_id |-> d, other |-> [tgid |-> 25, comm |-> Text(n)]] :
          variant \in {"DenyPtrace", "DenyScopeSignal"}, log \in BOOLEAN, d \in {0, 14},
          n \in {0, 15}}
  \cup {Denial("DenyScopeAbstractUnixSocket", h, TRUE, TRUE) @@ [peer_domain_id |-> d, peer |-> p] :
          h \in {Nested, Hierarchy(13, None)}, d \in {0, 14}, p \in Peers}
=============================================================================
