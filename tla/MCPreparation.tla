---------------------------- MODULE MCPreparation ----------------------------
(* Two programs; the process starts as root or with nothing.                *)
EXTENDS Preparation

Started(caps) ==
  [effective |-> caps, permitted |-> caps, inheritable |-> {}, ambient |-> {},
   bounding |-> Capabilities, no_new_privs |-> FALSE]

MCInitialCredentials == {Started(Capabilities), Started({})}
=============================================================================
