----------------------------- MODULE MCPrivilege -----------------------------
(***************************************************************************)
(* Four capabilities: the two of BPF setup, CAP_SETPCAP and one more.  The *)
(* process starts as root, with just what it needs, or with less.          *)
(***************************************************************************)
EXTENDS Privilege

Started(effective, permitted, inheritable, bounding) ==
  [effective |-> effective, permitted |-> permitted, inheritable |-> inheritable,
   ambient |-> inheritable \cap permitted, bounding |-> bounding, no_new_privs |-> FALSE]

MCInitialCredentials ==
  LET setup == {CAP_BPF, CAP_PERFMON}
  IN {Started(Capabilities, Capabilities, {}, Capabilities),
      Started(setup, setup, setup, {}),
      Started({CAP_SETPCAP}, setup \cup {CAP_SETPCAP}, {}, {0, LastCap}),
      Started(setup, setup, {}, Capabilities),
      Started({}, {}, {}, Capabilities)}
=============================================================================
