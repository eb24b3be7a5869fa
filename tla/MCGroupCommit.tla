--------------------------- MODULE MCGroupCommit ---------------------------
EXTENDS GroupCommit, TLC

CONSTANTS s1, s2, s3, s4

Symmetry == Permutations(Sessions)

Setting(sync, order, action, flush, fsync, max_crashes, clients) ==
    [sync_binlog |-> sync, binlog_order_commits |-> order,
     binlog_error_action |-> action, flush_errors |-> flush,
     sync_errors |-> fsync, max_crashes |-> max_crashes, clients |-> clients]

(* The default settings, with two crashes; a lazily synced, unordered log  *)
(* with errors and a crash; the default settings with errors ignored.      *)
SafetySettings ==
    {Setting(1, TRUE, "ABORT_SERVER", FALSE, TRUE, 2, 4),
     Setting(2, FALSE, "ABORT_SERVER", TRUE, TRUE, 1, 4),
     Setting(1, TRUE, "IGNORE_ERROR", TRUE, TRUE, 0, 3)}

(* Errors of the sync that are ignored, with ordered and unordered commits.*)
LiveSettings == {Setting(1, TRUE, "IGNORE_ERROR", FALSE, TRUE, 0, 3)}

UnorderedSettings == {Setting(1, FALSE, "IGNORE_ERROR", FALSE, TRUE, 0, 2)}
=============================================================================
