------------------------------ MODULE MCBatch ------------------------------
(***************************************************************************)
(* Three domains, one only ever named as a parent or a target, and a       *)
(* ruleset freed twice with different versions; the aggregator holds one   *)
(* denial.                                                                 *)
(***************************************************************************)
EXTENDS Batch

Denied(variant, timestamp, target, inode) ==
  [variant |-> variant, timestamp |-> timestamp, domain_id |-> 2, parent_id |-> 1,
   creator_tgid |-> "p", creator_comm |-> "c", cumulative_denial_count |-> timestamp,
   target_domain |-> target, target_pid |-> 7, target_comm |-> "t", blockers_type |-> 2,
   blockers_access |-> 1, device |-> 1, inode |-> inode, shown_target |-> "/path"]

Enforced(timestamp, tid, nnp) ==
  [variant |-> "EnforceDomain", timestamp |-> timestamp, domain_id |-> 2,
   enforcing_tid |-> tid, process_wide |-> FALSE, no_new_privs |-> nnp]

FreedRuleset(timestamp, version) ==
  [variant |-> "FreeRuleset", timestamp |-> timestamp, ruleset_id |-> "r",
   ruleset_version |-> version]

MCEvents ==
  {[variant |-> "CreateDomain", timestamp |-> 2, domain_id |-> 2, parent_id |-> 1,
    creator_tgid |-> "p", creator_comm |-> "c", ruleset_id |-> "r", ruleset_version |-> 1],
   Denied("DenyAccessFs", 3, Unsandboxed, 1), Denied("DenyAccessFs", 2, Unsandboxed, 1),
   Denied("DenyScopeSignal", 4, 3, 2),
   Enforced(3, 1, TRUE), Enforced(4, 1, FALSE),
   [variant |-> "FreeDomain", timestamp |-> 5, domain_id |-> 2, denial_count |-> 2],
   [variant |-> "FreeDomain", timestamp |-> 5, domain_id |-> 3, denial_count |-> 0],
   FreedRuleset(6, 1), FreedRuleset(5, 2)}
=============================================================================
