---------------------------- MODULE GroupCommit ----------------------------
(***************************************************************************)
(* Binary log group commit (sql/binlog.cc): two-phase commit between the   *)
(* storage engine and the binary log, the flush, sync and commit stages    *)
(* with their leaders and followers, flush and sync errors under           *)
(* binlog_error_action, rotation, crash, and recovery at restart.          *)
(*                                                                         *)
(* A session runs one transaction, which stands for its xid.  A log file   *)
(* is the sequence of the transactions written to it; Torn is what a       *)
(* failed write leaves.  The engine's redo log is external: the records    *)
(* not yet on disk are the sequence redo, of which a crash keeps any       *)
(* prefix.  A binary log file keeps any prefix that is at least as long as *)
(* what was synced.                                                        *)
(***************************************************************************)
EXTENDS Naturals, Sequences, FiniteSets, SequencesExt

CONSTANTS
    Sessions,     \* the client sessions
    Settings,     \* how the server may be configured, and what may go wrong
    MaxSize,      \* max_binlog_size, in transactions
    None,
    Torn

ASSUME MaxSizeAssumption == MaxSize \in Nat \ {0}
ASSUME SettingsAssumption ==
    \A c \in Settings :
        /\ c.sync_binlog \in Nat
        /\ c.binlog_order_commits \in BOOLEAN
        /\ c.binlog_error_action \in {"ABORT_SERVER", "IGNORE_ERROR"}
        /\ c.flush_errors \in BOOLEAN
        /\ c.sync_errors \in BOOLEAN
        /\ c.max_crashes \in Nat
        /\ c.clients \in Nat
ASSUME DistinctAssumption == None \notin Sessions /\ Torn \notin Sessions

VARIABLES
    conf,         \* the settings the server was started with
    pc,           \* where each session is
    queue,        \* Stage_manager::m_queue
    owner,        \* the holder of each stage's mutex
    batch,        \* the list a leader has fetched
    flush_error,  \* ordered_commit's local variable, per leader
    sync_error,   \* likewise
    do_rotate,    \* likewise
    commit_error, \* thd->commit_error # CE_NONE
    commit_low,   \* m_flags.commit_low
    xid_written,  \* m_flags.xid_written; m_prep_xids counts these sessions
    old,          \* the transactions of the closed files, in order
    cur,          \* the current file
    synced,       \* how much of the current file is on disk
    in_use,       \* LOG_EVENT_BINLOG_IN_USE_F of the current file
    log_state,
    sync_counter,
    end_pos,      \* binlog_end_pos: what dump threads may send
    sent,         \* history: what they may have sent
    durable,      \* engine state of each transaction on disk
    redo,         \* redo records not on disk yet
    commits,      \* history: engine commits, in order
    mode,         \* "running", or where a restart is
    crashes

stageVars == <<queue, owner, batch>>
errorVars == <<flush_error, sync_error, do_rotate, commit_error>>
flagVars == <<commit_low, xid_written>>
fileVars == <<old, cur, synced, in_use, log_state, sync_counter>>
dumpVars == <<end_pos, sent>>
engineVars == <<durable, redo, commits>>
modeVars == <<mode, crashes, conf>>
vars == <<pc, stageVars, errorVars, flagVars, fileVars, dumpVars, engineVars,
          modeVars>>

SyncPeriod == conf.sync_binlog
OrderCommits == conf.binlog_order_commits
ErrorAction == conf.binlog_error_action
FlushErrors == conf.flush_errors \* writes to the binary log may fail
SyncErrors == conf.sync_errors   \* its fsync or the after_sync hook may fail
MaxCrashes == conf.max_crashes   \* bound: crashes of the server

Stages == {"FLUSH_STAGE", "SYNC_STAGE", "COMMIT_STAGE"}
Locks == {"LOCK_log", "LOCK_sync", "LOCK_commit"}
EngineStates == {"active", "prepared", "committed", "rolledback"}
Locations ==
    {"idle", "prepared", "follow", "lock_log", "flush_logs", "flush_caches",
     "flush_error", "enter_sync", "lock_sync", "sync", "enter_commit",
     "lock_commit", "commit", "sync_error", "signal_done", "finish_leader",
     "finish", "lock_rotate", "rotate", "reopen", "done", "gone"}
Modes == {"running", "open_binlog", "trim", "ha_recover", "open_new"}

Init ==
    /\ conf \in Settings
    /\ \E clients \in SUBSET Sessions :
        /\ Cardinality(clients) = conf.clients
        /\ pc = [s \in Sessions |-> IF s \in clients THEN "idle" ELSE "gone"]
    /\ queue = [g \in Stages |-> <<>>]
    /\ owner = [l \in Locks |-> None]
    /\ batch = [s \in Sessions |-> <<>>]
    /\ flush_error = [s \in Sessions |-> FALSE]
    /\ sync_error = [s \in Sessions |-> FALSE]
    /\ do_rotate = [s \in Sessions |-> FALSE]
    /\ commit_error = [s \in Sessions |-> FALSE]
    /\ commit_low = [s \in Sessions |-> FALSE]
    /\ xid_written = {}
    /\ old = <<>>
    /\ cur = <<>>
    /\ synced = 0
    /\ in_use = TRUE
    /\ log_state = "LOG_OPENED"
    /\ sync_counter = 0
    /\ end_pos = 0
    /\ sent = {}
    /\ durable = [s \in Sessions |-> "active"]
    /\ redo = <<>>
    /\ commits = <<>>
    /\ mode = "running"
    /\ crashes = 0

-----------------------------------------------------------------------------
(* The engine (external).                                                  *)

(* The engine states f after the redo records r.                           *)
Redone(f, r) ==
    [s \in Sessions |->
        LET own == {i \in 1..Len(r) : r[i].trx = s}
        IN  IF own = {} THEN f[s]
            ELSE r[CHOOSE i \in own : \A j \in own : j <= i].state]

Engine(s) == Redone(durable, redo)[s]

Records(q, state) == [i \in 1..Len(q) |-> [trx |-> q[i], state |-> state]]

(* ha_commit_low for the sessions of q, in that order, without flushing    *)
(* the engine's log (HA_IGNORE_DURABILITY).                                *)
ha_commit_low(q) ==
    /\ redo' = redo \o Records(q, "committed")
    /\ commits' = commits \o q
    /\ commit_low' = [s \in Sessions |->
                        IF Contains(q, s) THEN FALSE ELSE commit_low[s]]
    /\ UNCHANGED durable

ha_flush_logs ==
    /\ durable' = Redone(durable, redo)
    /\ redo' = <<>>
    /\ UNCHANGED commits

-----------------------------------------------------------------------------
(* What dump threads may have read when the file ends with f and the end   *)
(* position is p.                                                          *)
Visible(f, p) == {f[i] : i \in 1..p} \ {Torn}

update_binlog_end_pos(f, p) ==
    /\ end_pos' = p
    /\ sent' = sent \cup Visible(f, p)

(* MYSQL_BIN_LOG::close: clear the in-use flag, flush and sync the file.   *)
(* With a stop event, the end position is moved as well.                   *)
close(state) ==
    /\ log_state' = state
    /\ in_use' = FALSE
    /\ synced' = Len(cur)
    /\ UNCHANGED <<old, cur, sync_counter>>

(* A crash: memory is lost, and of what was not synced any tail.           *)
Crashed ==
    /\ \E n \in 0..Len(redo) : durable' = Redone(durable, SubSeq(redo, 1, n))
    /\ \E n \in synced..Len(cur) : cur' = SubSeq(cur, 1, n) /\ synced' = n
    /\ pc' = [s \in Sessions |->
                IF pc[s] \in {"idle", "done"} THEN pc[s] ELSE "gone"]
    /\ redo' = <<>>
    /\ queue' = [g \in Stages |-> <<>>]
    /\ owner' = [l \in Locks |-> None]
    /\ batch' = [s \in Sessions |-> <<>>]
    /\ flush_error' = [s \in Sessions |-> FALSE]
    /\ sync_error' = [s \in Sessions |-> FALSE]
    /\ do_rotate' = [s \in Sessions |-> FALSE]
    /\ commit_error' = [s \in Sessions |-> FALSE]
    /\ commit_low' = [s \in Sessions |-> FALSE]
    /\ xid_written' = {}
    /\ sync_counter' = 0
    /\ end_pos' = 0
    /\ log_state' = "LOG_CLOSED"
    /\ mode' = "open_binlog"
    /\ UNCHANGED <<old, in_use, sent, commits, conf>>

-----------------------------------------------------------------------------
(* The stages.  enroll_for appends a list to a stage's queue and only then *)
(* releases the mutex of the stage before; the session that found the      *)
(* queue empty leads the stage, the others sleep until they are done.      *)

(* Mutant: the list is linked in front of the queue.                       *)
enroll_for_at_front(s, stage, q, leave, leader) ==
    /\ queue' = [queue EXCEPT ![stage] = q \o @]
    /\ owner' = [l \in Locks |-> IF l = leave THEN None ELSE owner[l]]
    /\ batch' = [batch EXCEPT ![s] = <<>>]
    /\ pc' = [pc EXCEPT ![s] = IF queue[stage] = <<>> THEN leader ELSE "follow"]

enroll_for(s, stage, q, leave, leader) ==
    /\ queue' = [queue EXCEPT ![stage] = @ \o q]
    /\ owner' = [l \in Locks |-> IF l = leave THEN None ELSE owner[l]]
    /\ batch' = [batch EXCEPT ![s] = <<>>]
    /\ pc' = [pc EXCEPT ![s] = IF queue[stage] = <<>> THEN leader ELSE "follow"]

(* Mutant: the leader takes itself out of the queue and nobody else.       *)
fetch_queue_for_first(s, stage, lock, location) ==
    /\ owner[lock] = None
    /\ owner' = [owner EXCEPT ![lock] = s]
    /\ batch' = [batch EXCEPT ![s] = <<Head(queue[stage])>>]
    /\ queue' = [queue EXCEPT ![stage] = Tail(@)]
    /\ pc' = [pc EXCEPT ![s] = location]

(* change_stage locks the stage's mutex for the leader, which then fetches *)
(* the whole queue.                                                        *)
fetch_queue_for(s, stage, lock, location) ==
    /\ owner[lock] = None
    /\ owner' = [owner EXCEPT ![lock] = s]
    /\ batch' = [batch EXCEPT ![s] = queue[stage]]
    /\ queue' = [queue EXCEPT ![stage] = <<>>]
    /\ pc' = [pc EXCEPT ![s] = location]

(* The engine prepares the transaction without flushing its log.           *)
prepare(s) ==
    /\ pc[s] = "idle"
    /\ pc' = [pc EXCEPT ![s] = "prepared"]
    /\ redo' = Append(redo, [trx |-> s, state |-> "prepared"])
    /\ UNCHANGED <<stageVars, errorVars, flagVars, fileVars, dumpVars, durable,
                   commits, modeVars>>

(* ordered_commit resets the session's flags and enters the flush stage.   *)
ordered_commit(s) ==
    /\ pc[s] = "prepared"
    /\ commit_low' = [commit_low EXCEPT ![s] = TRUE]
    /\ enroll_for(s, "FLUSH_STAGE", <<s>>, None, "lock_log")
    /\ UNCHANGED <<errorVars, xid_written, fileVars, dumpVars, engineVars,
                   modeVars>>

(* The leader of the flush stage.  If the binary log is closed it goes on  *)
(* to the commit stage, still holding LOCK_log.                            *)
enter_flush_stage(s) ==
    /\ pc[s] = "lock_log"
    /\ fetch_queue_for(s, "FLUSH_STAGE", "LOCK_log",
                       IF log_state = "LOG_CLOSED" THEN "enter_commit"
                                                   ELSE "flush_logs")
    /\ UNCHANGED <<errorVars, flagVars, fileVars, dumpVars, engineVars,
                   modeVars>>

(* Mutant: the engine's log is not flushed before the caches are written.  *)
flush_engine_logs_skipped(s) ==
    /\ pc[s] = "flush_logs"
    /\ pc' = [pc EXCEPT ![s] = "flush_caches"]
    /\ UNCHANGED <<stageVars, errorVars, flagVars, fileVars, dumpVars,
                   engineVars, modeVars>>

(* process_flush_stage_queue, first half: the prepared records reach the   *)
(* disk before anything of the fetched sessions is written.                *)
flush_engine_logs(s) ==
    /\ pc[s] = "flush_logs"
    /\ ha_flush_logs
    /\ pc' = [pc EXCEPT ![s] = "flush_caches"]
    /\ UNCHANGED <<stageVars, errorVars, flagVars, fileVars, dumpVars,
                   modeVars>>

(* process_flush_stage_queue, second half, and what ordered_commit does    *)
(* under LOCK_log after it: write the caches of the batch one by one,      *)
(* flush the file, run after_flush.  A cache that cannot be written leaves *)
(* nothing or a torn event.  flush_error is the result of the first        *)
(* session until one succeeds: it is set only if all have failed, if the   *)
(* file cannot be flushed or if after_flush fails.                         *)
flush_thread_caches(s) ==
    LET q == batch[s]
    IN
    /\ pc[s] = "flush_caches"
    /\ \E failed \in IF FlushErrors THEN SUBSET ToSet(q) ELSE {{}} :
       \E torn \in SUBSET failed :
         LET kept == SelectSeq(q, LAMBDA x : x \notin failed \ torn)
             written == cur \o [i \in 1..Len(kept) |->
                                  IF kept[i] \in torn THEN Torn ELSE kept[i]]
             ok == failed # ToSet(q)
         IN
         /\ xid_written' = xid_written \cup (ToSet(q) \ failed)
         /\ do_rotate' = [do_rotate EXCEPT ![s] = Len(written) >= MaxSize]
         /\ commit_error' = [x \in Sessions |-> commit_error[x] \/ x \in failed]
         /\ \/ /\ ok
               /\ cur' = written
               /\ IF SyncPeriod = 1
                  THEN UNCHANGED dumpVars
                  ELSE update_binlog_end_pos(written, Len(written))
               /\ pc' = [pc EXCEPT ![s] = "enter_sync"]
               /\ UNCHANGED flush_error
            \/ /\ FlushErrors
               /\ \/ /\ \E n \in Len(cur)..Len(written) :
                          cur' = SubSeq(written, 1, n)
                     /\ UNCHANGED dumpVars
                  \/ /\ ok /\ SyncPeriod # 1
                     /\ cur' = written
                     /\ update_binlog_end_pos(written, Len(written))
               /\ flush_error' = [flush_error EXCEPT ![s] = TRUE]
               /\ pc' = [pc EXCEPT ![s] = "flush_error"]
    /\ UNCHANGED <<stageVars, sync_error, commit_low, old, synced, in_use,
                   log_state, sync_counter, engineVars, modeVars>>

(* handle_binlog_flush_or_sync_error for a flush error, with LOCK_log:     *)
(* the server aborts, or closes the binary log and goes on.                *)
handle_flush_error(s) ==
    /\ pc[s] = "flush_error"
    /\ \/ /\ ErrorAction = "ABORT_SERVER"
          /\ Crashed
          /\ UNCHANGED crashes
       \/ /\ ErrorAction = "IGNORE_ERROR"
          /\ close("LOG_CLOSED")
          /\ update_binlog_end_pos(cur, Len(cur))
          /\ pc' = [pc EXCEPT ![s] = "enter_sync"]
          /\ UNCHANGED <<stageVars, errorVars, flagVars, engineVars, modeVars>>

leave_flush_stage(s) ==
    /\ pc[s] = "enter_sync"
    /\ enroll_for(s, "SYNC_STAGE", batch[s], "LOCK_log", "lock_sync")
    /\ UNCHANGED <<errorVars, flagVars, fileVars, dumpVars, engineVars,
                   modeVars>>

enter_sync_stage(s) ==
    /\ pc[s] = "lock_sync"
    /\ fetch_queue_for(s, "SYNC_STAGE", "LOCK_sync", "sync")
    /\ UNCHANGED <<errorVars, flagVars, fileVars, dumpVars, engineVars,
                   modeVars>>

(* With sync_binlog=1 the end position moves after the sync stage, to that *)
(* of the last session of the batch if it is in the file and further on.   *)
update_binlog_end_pos_after_sync(s) ==
    LET last == Last(batch[s]) IN
    IF /\ SyncPeriod = 1
       /\ ~flush_error[s]
       /\ ~sync_error'[s]
       /\ \E i \in (end_pos + 1)..Len(cur) : cur[i] = last
    THEN update_binlog_end_pos(cur, CHOOSE i \in 1..Len(cur) : cur[i] = last)
    ELSE UNCHANGED dumpVars

(* Mutant: sync_binlog is compared with > and not with >=.                 *)
sync_binlog_file_late(s) ==
    LET due == SyncPeriod > 0 /\ sync_counter + 1 > SyncPeriod IN
    /\ pc[s] = "sync"
    /\ IF flush_error[s]
       THEN UNCHANGED <<synced, sync_counter, sync_error, commit_error>>
       ELSE /\ sync_counter' = IF due \/ SyncPeriod = 0 THEN 0
                               ELSE sync_counter + 1
            /\ \/ /\ synced' = IF due THEN Len(cur) ELSE synced
                  /\ UNCHANGED <<sync_error, commit_error>>
               \/ /\ due
                  /\ SyncErrors
                  /\ sync_error' = [sync_error EXCEPT ![s] = TRUE]
                  /\ commit_error' = [commit_error EXCEPT ![s] = TRUE]
                  /\ UNCHANGED synced
    /\ update_binlog_end_pos_after_sync(s)
    /\ pc' = [pc EXCEPT ![s] = "enter_commit"]
    /\ UNCHANGED <<stageVars, flush_error, do_rotate, flagVars, old, cur,
                   in_use, log_state, engineVars, modeVars>>

(* sync_binlog_file for every SyncPeriod-th group, unless the flush failed,*)
(* and then the end position.                                              *)
sync_binlog_file(s) ==
    LET due == SyncPeriod > 0 /\ sync_counter + 1 >= SyncPeriod IN
    /\ pc[s] = "sync"
    /\ IF flush_error[s]
       THEN UNCHANGED <<synced, sync_counter, sync_error, commit_error>>
       ELSE /\ sync_counter' = IF due \/ SyncPeriod = 0 THEN 0
                               ELSE sync_counter + 1
            /\ \/ /\ synced' = IF due THEN Len(cur) ELSE synced
                  /\ UNCHANGED <<sync_error, commit_error>>
               \/ /\ due
                  /\ SyncErrors
                  /\ sync_error' = [sync_error EXCEPT ![s] = TRUE]
                  /\ commit_error' = [commit_error EXCEPT ![s] = TRUE]
                  /\ UNCHANGED synced
    /\ update_binlog_end_pos_after_sync(s)
    /\ pc' = [pc EXCEPT ![s] = "enter_commit"]
    /\ UNCHANGED <<stageVars, flush_error, do_rotate, flagVars, old, cur,
                   in_use, log_state, engineVars, modeVars>>

(* The after_sync hook may fail; its error is a sync error.                *)
call_after_sync_hook(s) ==
    \/ UNCHANGED sync_error
    \/ /\ SyncErrors
       /\ ~flush_error[s]
       /\ ~sync_error[s]
       /\ sync_error' = [sync_error EXCEPT ![s] = TRUE]

AfterCommitStage(s) == IF sync_error'[s] THEN "sync_error" ELSE "signal_done"

(* To the commit stage, or past it.                                        *)
leave_sync_stage(s) ==
    LET leave == IF owner["LOCK_log"] = s THEN "LOCK_log" ELSE "LOCK_sync"
    IN
    /\ pc[s] = "enter_commit"
    /\ IF OrderCommits /\ (~sync_error[s] \/ ErrorAction # "ABORT_SERVER")
       THEN /\ enroll_for(s, "COMMIT_STAGE", batch[s], leave, "lock_commit")
            /\ UNCHANGED sync_error
       ELSE /\ owner' = [owner EXCEPT ![leave] = None]
            /\ call_after_sync_hook(s)
            /\ pc' = [pc EXCEPT ![s] = AfterCommitStage(s)]
            /\ UNCHANGED <<queue, batch>>
    /\ UNCHANGED <<flush_error, do_rotate, commit_error, flagVars, fileVars,
                   dumpVars, engineVars, modeVars>>

enter_commit_stage(s) ==
    /\ pc[s] = "lock_commit"
    /\ fetch_queue_for(s, "COMMIT_STAGE", "LOCK_commit", "commit")
    /\ UNCHANGED <<errorVars, flagVars, fileVars, dumpVars, engineVars,
                   modeVars>>

(* Commit the batch in the engine, in order, and only then take its xids   *)
(* out of m_prep_xids; release LOCK_commit.                                *)
process_commit_stage_queue(s) ==
    /\ pc[s] = "commit"
    /\ call_after_sync_hook(s)
    /\ ha_commit_low(SelectSeq(batch[s], LAMBDA x : commit_low[x]))
    /\ xid_written' = xid_written \ ToSet(batch[s])
    /\ owner' = [owner EXCEPT !["LOCK_commit"] = None]
    /\ pc' = [pc EXCEPT ![s] = AfterCommitStage(s)]
    /\ UNCHANGED <<queue, batch, flush_error, do_rotate, commit_error,
                   fileVars, dumpVars, modeVars>>

(* handle_binlog_flush_or_sync_error for a sync error, which takes         *)
(* LOCK_log to close the binary log.                                       *)
handle_sync_error(s) ==
    /\ pc[s] = "sync_error"
    /\ \/ /\ ErrorAction = "ABORT_SERVER"
          /\ Crashed
          /\ UNCHANGED crashes
       \/ /\ ErrorAction = "IGNORE_ERROR"
          /\ owner["LOCK_log"] = None
          /\ IF log_state = "LOG_OPENED"
             THEN close("LOG_CLOSED") /\ update_binlog_end_pos(cur, Len(cur))
             ELSE UNCHANGED <<fileVars, dumpVars>>
          /\ pc' = [pc EXCEPT ![s] = "signal_done"]
          /\ UNCHANGED <<stageVars, errorVars, flagVars, engineVars, modeVars>>

(* Mutant: the followers are not woken.                                    *)
signal_done_leader_only(s) ==
    /\ pc[s] = "signal_done"
    /\ pc' = [pc EXCEPT ![s] = "finish_leader"]
    /\ batch' = [batch EXCEPT ![s] = <<>>]
    /\ UNCHANGED <<queue, owner, errorVars, flagVars, fileVars, dumpVars,
                   engineVars, modeVars>>

signal_done(s) ==
    /\ pc[s] = "signal_done"
    /\ pc' = [x \in Sessions |-> IF x = s THEN "finish_leader"
                                 ELSE IF Contains(batch[s], x) THEN "finish"
                                 ELSE pc[x]]
    /\ batch' = [batch EXCEPT ![s] = <<>>]
    /\ UNCHANGED <<queue, owner, errorVars, flagVars, fileVars, dumpVars,
                   engineVars, modeVars>>

(* finish_commit: commit in the engine unless the leader did; the leader   *)
(* then rotates if its flush filled the file.                              *)
finish_commit(s) ==
    /\ pc[s] \in {"finish", "finish_leader"}
    /\ ha_commit_low(IF commit_low[s] THEN <<s>> ELSE <<>>)
    /\ xid_written' = xid_written \ {s}
    /\ pc' = [pc EXCEPT ![s] =
                IF @ = "finish_leader" /\ do_rotate[s] /\ ~commit_error[s]
                THEN "lock_rotate" ELSE "done"]
    /\ UNCHANGED <<stageVars, errorVars, fileVars, dumpVars, modeVars>>

-----------------------------------------------------------------------------
(* Rotation.                                                               *)

rotate(s) ==
    /\ pc[s] = "lock_rotate"
    /\ owner["LOCK_log"] = None
    /\ IF Len(cur) >= MaxSize /\ log_state # "LOG_CLOSED"
       THEN /\ owner' = [owner EXCEPT !["LOCK_log"] = s]
            /\ pc' = [pc EXCEPT ![s] = "rotate"]
       ELSE /\ pc' = [pc EXCEPT ![s] = "done"]
            /\ UNCHANGED owner
    /\ UNCHANGED <<queue, batch, errorVars, flagVars, fileVars, dumpVars,
                   engineVars, modeVars>>

(* Mutant: the rotation does not wait for m_prep_xids.                     *)
new_file_impl_no_wait(s) ==
    /\ pc[s] = "rotate"
    /\ ha_flush_logs
    /\ close("LOG_TO_BE_OPENED")
    /\ pc' = [pc EXCEPT ![s] = "reopen"]
    /\ UNCHANGED <<stageVars, errorVars, flagVars, dumpVars, modeVars>>

(* new_file_impl waits until m_prep_xids is 0, flushes the engine's log    *)
(* and closes the file.                                                    *)
new_file_impl(s) ==
    /\ pc[s] = "rotate"
    /\ xid_written = {}
    /\ ha_flush_logs
    /\ close("LOG_TO_BE_OPENED")
    /\ pc' = [pc EXCEPT ![s] = "reopen"]
    /\ UNCHANGED <<stageVars, errorVars, flagVars, dumpVars, modeVars>>

(* Mutant: the end position of the file before is kept.                    *)
NewFile_end_pos_kept ==
    /\ old' = old \o cur
    /\ cur' = <<>>
    /\ synced' = 0
    /\ in_use' = TRUE
    /\ log_state' = "LOG_OPENED"
    /\ end_pos' = end_pos
    /\ sent' = sent \cup Visible(cur, Len(cur))

(* A new, empty file; dump threads read the one before to its end.         *)
NewFile ==
    /\ old' = old \o cur
    /\ cur' = <<>>
    /\ synced' = 0
    /\ in_use' = TRUE
    /\ log_state' = "LOG_OPENED"
    /\ end_pos' = 0
    /\ sent' = sent \cup Visible(cur, Len(cur))

open_binlog(s) ==
    /\ pc[s] = "reopen"
    /\ \/ /\ NewFile
          /\ pc' = [pc EXCEPT ![s] = "done"]
          /\ owner' = [owner EXCEPT !["LOCK_log"] = None]
          /\ UNCHANGED <<queue, batch, errorVars, flagVars, sync_counter,
                         engineVars, modeVars>>
       \/ /\ FlushErrors
          /\ ErrorAction = "ABORT_SERVER"
          /\ Crashed
          /\ UNCHANGED crashes
       \/ /\ FlushErrors
          /\ ErrorAction = "IGNORE_ERROR"
          /\ log_state' = "LOG_CLOSED"
          /\ pc' = [pc EXCEPT ![s] = "done"]
          /\ owner' = [owner EXCEPT !["LOCK_log"] = None]
          /\ UNCHANGED <<queue, batch, errorVars, flagVars, old, cur, synced,
                         in_use, sync_counter, dumpVars, engineVars, modeVars>>

-----------------------------------------------------------------------------
(* Crash and restart.                                                      *)

Crash ==
    /\ crashes < MaxCrashes
    /\ crashes' = crashes + 1
    /\ Crashed

(* Mutant: the last readable transaction is taken for an incomplete one.   *)
ValidLength_one_less(f) ==
    CHOOSE n \in 0..Len(f) :
        /\ \A i \in 1..n : f[i] # Torn
        /\ n < Len(f) => n + 1 = Len(f) \/ f[n + 1] = Torn

(* The part of a file that recover can read: up to the first torn event.   *)
ValidLength(f) ==
    CHOOSE n \in 0..Len(f) :
        /\ \A i \in 1..n : f[i] # Torn
        /\ n < Len(f) => f[n + 1] = Torn

(* xarecover_handlerton: the prepared transactions are committed if they   *)
(* are in the list and rolled back otherwise, and the engine's log is      *)
(* flushed (innodb_flush_log_at_trx_commit=1).                             *)
ha_recover(commit_list) ==
    durable' = [s \in Sessions |->
        IF durable[s] # "prepared" THEN durable[s]
        ELSE IF s \in commit_list THEN "committed" ELSE "rolledback"]

Restarting == <<pc, stageVars, errorVars, flagVars, sync_counter, redo,
                commits, crashes, conf>>

(* MYSQL_BIN_LOG::open_binlog(opt_name) scans the last file if its in-use  *)
(* flag is set ...                                                         *)
recover ==
    /\ mode = "open_binlog"
    /\ mode' = "trim"
    /\ IF in_use THEN ha_recover({cur[i] : i \in 1..ValidLength(cur)})
                 ELSE UNCHANGED durable
    /\ UNCHANGED <<Restarting, old, cur, synced, in_use, log_state, dumpVars>>

(* ... and then cuts off its tail and clears the flag.                     *)
trim_crashed_binlog ==
    /\ mode = "trim"
    /\ mode' = "ha_recover"
    /\ IF in_use THEN /\ cur' = SubSeq(cur, 1, ValidLength(cur))
                      /\ synced' = Len(cur')
                      /\ in_use' = FALSE
                 ELSE UNCHANGED <<cur, synced, in_use>>
    /\ UNCHANGED <<Restarting, old, log_state, dumpVars, durable>>

(* init_server_components calls ha_recover(0): with one engine that can    *)
(* prepare, whatever is still prepared is rolled back.                     *)
ha_recover_0 ==
    /\ mode = "ha_recover"
    /\ mode' = "open_new"
    /\ ha_recover({})
    /\ UNCHANGED <<Restarting, old, cur, synced, in_use, log_state, dumpVars>>

open_first_binlog ==
    /\ mode = "open_new"
    /\ mode' = "running"
    /\ NewFile
    /\ UNCHANGED <<Restarting, durable>>

-----------------------------------------------------------------------------
SessionStep(s) ==
    /\ mode = "running"
    /\ \/ ordered_commit(s)
       \/ enter_flush_stage(s)
       \/ flush_engine_logs(s)
       \/ flush_thread_caches(s)
       \/ handle_flush_error(s)
       \/ leave_flush_stage(s)
       \/ enter_sync_stage(s)
       \/ sync_binlog_file(s)
       \/ leave_sync_stage(s)
       \/ enter_commit_stage(s)
       \/ process_commit_stage_queue(s)
       \/ handle_sync_error(s)
       \/ signal_done(s)
       \/ finish_commit(s)
       \/ rotate(s)
       \/ new_file_impl(s)
       \/ open_binlog(s)

Restart == recover \/ trim_crashed_binlog \/ ha_recover_0 \/ open_first_binlog

(* No session has anything left to do.                                     *)
Rest ==
    /\ mode = "running"
    /\ \A s \in Sessions : pc[s] \in {"done", "gone"}
    /\ UNCHANGED vars

Next ==
    \/ \E s \in Sessions : SessionStep(s) \/ (mode = "running" /\ prepare(s))
    \/ Restart
    \/ Crash
    \/ Rest

(* Every thread that can run does, and a server that went down is          *)
(* restarted.  A mutex has finitely many contenders, each of which takes   *)
(* it a bounded number of times, so weak fairness is enough.               *)
Fairness ==
    /\ \A s \in Sessions : WF_vars(SessionStep(s))
    /\ WF_vars(Restart)

Spec == Init /\ [][Next]_vars /\ Fairness

-----------------------------------------------------------------------------
Log == old \o cur

InLog(s) == Contains(Log, s)

(* The settings under which the binary log is durable.                     *)
Durable == /\ SyncPeriod = 1
           /\ ErrorAction = "ABORT_SERVER"
           /\ ~FlushErrors

(* Every variable has its type; the synced part and the end position lie   *)
(* within the current file.                                                *)
TypeOK ==
    /\ conf \in Settings
    /\ pc \in [Sessions -> Locations]
    /\ queue \in [Stages -> Seq(Sessions)]
    /\ owner \in [Locks -> Sessions \cup {None}]
    /\ batch \in [Sessions -> Seq(Sessions)]
    /\ flush_error \in [Sessions -> BOOLEAN]
    /\ sync_error \in [Sessions -> BOOLEAN]
    /\ do_rotate \in [Sessions -> BOOLEAN]
    /\ commit_error \in [Sessions -> BOOLEAN]
    /\ commit_low \in [Sessions -> BOOLEAN]
    /\ xid_written \subseteq Sessions
    /\ old \in Seq(Sessions \cup {Torn})
    /\ cur \in Seq(Sessions \cup {Torn})
    /\ synced \in 0..Len(cur)
    /\ in_use \in BOOLEAN
    /\ log_state \in {"LOG_OPENED", "LOG_TO_BE_OPENED", "LOG_CLOSED"}
    /\ sync_counter \in 0..SyncPeriod
    /\ end_pos \in 0..Len(cur)
    /\ sent \subseteq Sessions
    /\ durable \in [Sessions -> EngineStates]
    /\ redo \in Seq([trx : Sessions, state : EngineStates])
    /\ commits \in Seq(Sessions)
    /\ mode \in Modes
    /\ crashes \in 0..MaxCrashes

(* binlog_order_commits: the engine commits the transactions in the order  *)
(* in which they are in the binary log.                                    *)
CommitsInBinlogOrder ==
    OrderCommits =>
        \A i, j \in 1..Len(commits) : \A m, n \in 1..Len(Log) :
            i < j /\ Log[m] = commits[i] /\ Log[n] = commits[j] => m < n

(* With sync_binlog=1, unless writes fail, a transaction whose commit has  *)
(* returned to the client is in the binary log and committed in the        *)
(* engine, also after a crash and a restart, although ordered_commit never *)
(* flushes the engine's commit record.                                     *)
AcknowledgedSurvives ==
    Durable /\ mode = "running" =>
        \A s \in Sessions :
            pc[s] = "done" => InLog(s) /\ Engine(s) = "committed"

(* After a restart, a transaction that was on its way at the crash is      *)
(* committed in the engine if it is in the binary log.                     *)
BinloggedIsCommitted ==
    mode = "running" =>
        \A s \in Sessions :
            pc[s] = "gone" /\ InLog(s) => Engine(s) = "committed"

(* With sync_binlog=1 also the converse: nothing is committed in the       *)
(* engine that replicas will never receive.                                *)
CommittedIsBinlogged ==
    Durable /\ mode = "running" =>
        \A s \in Sessions :
            pc[s] = "gone" /\ Engine(s) = "committed" => InLog(s)

(* Recovery reads the last file only: in the files before it every         *)
(* transaction is committed in the engine, on disk.                        *)
ClosedFilesAreCommitted ==
    \A i \in 1..Len(old) : old[i] # Torn => durable[old[i]] = "committed"

(* A session that sleeps in enroll_for is in exactly one queue or batch,   *)
(* and the first of a queue is on its way to lead the stage: no session is *)
(* left behind, and none is committed twice.                               *)
FollowerHasLeader ==
    /\ \A s \in Sessions : pc[s] = "follow" =>
        Cardinality({g \in Stages : Contains(queue[g], s)})
          + Cardinality({x \in Sessions : Contains(batch[x], s)}) = 1
    /\ \A g \in Stages : queue[g] # <<>> =>
        pc[Head(queue[g])] = CASE g = "FLUSH_STAGE" -> "lock_log"
                               [] g = "SYNC_STAGE" -> "lock_sync"
                               [] g = "COMMIT_STAGE" -> "lock_commit"

(* Every session that starts to commit finishes, unless the server goes    *)
(* down: neither the stage mutexes nor the wait of a rotation for prepared *)
(* transactions blocks for ever.                                           *)
CommitEnds ==
    \A s \in Sessions : pc[s] # "idle" ~> pc[s] \in {"done", "gone"}

(* The part of the binary log a crash leaves for sure.                     *)
DurableLog == old \o SubSeq(cur, 1, synced)

Abstract == INSTANCE CommitLog WITH
    Transactions <- Sessions,
    log <- IF Durable THEN DurableLog ELSE <<>>,
    aborted <- IF Durable
               THEN {s \in Sessions : pc[s] = "gone" /\ ~Contains(DurableLog, s)}
               ELSE {},
    acked <- IF Durable THEN {s \in Sessions : pc[s] = "done"} ELSE {},
    delivered <- IF Durable THEN sent ELSE {}

(* Under the settings that make it durable, the binary log is a            *)
(* CommitLog.  A transaction is committed by the fsync that makes it       *)
(* durable, by the crash that happened to keep it, or by the rotation that *)
(* closes its file; it is aborted by a crash that loses it.  What dump     *)
(* threads have sent to replicas is in the log and never cut off it.       *)
ImplementsCommitLog == Abstract!Spec

=============================================================================
