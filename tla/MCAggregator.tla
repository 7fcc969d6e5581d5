---------------------------- MODULE MCAggregator ----------------------------
(***************************************************************************)
(* Four denial keys over three variants, one of them observed with two     *)
(* paths and two timestamps, and a lifecycle event that is no denial.      *)
(***************************************************************************)
EXTENDS Aggregator

FsDenial(domain, timestamp, path) ==
  [variant |-> "DenyAccessFs", timestamp |-> timestamp, domain_id |-> domain,
   blockers_type |-> 2, blockers_access |-> 1, device |-> 1, inode |-> 1, pathname |-> path]

SignalDenial(comm) ==
  [variant |-> "DenyScopeSignal", timestamp |-> 1, domain_id |-> "d1",
   target_domain |-> "Unsandboxed", target_pid |-> 1, target_comm |-> comm]

MCEvents ==
  {FsDenial("d1", 2, "/old"), FsDenial("d1", 1, "/new"), FsDenial("d2", 1, "/old"),
   SignalDenial("a"), SignalDenial("b"),
   [variant |-> "FreeDomain", timestamp |-> 1, domain_id |-> "d1"]}
=============================================================================
