------------------------- MODULE DependencyTracker -------------------------
(***************************************************************************)
(* The logical timestamps of the binary log (sql/rpl_trx_tracking.cc and   *)
(* its callers in sql/binlog.cc): every transaction is logged with its     *)
(* sequence number and with the sequence number of the last transaction it *)
(* may depend on, found from the commit order, from the rows written, or   *)
(* from both and the session.  Rotation restarts the numbers of a file.    *)
(*                                                                         *)
(* A transaction is the rows it locks, and whether write sets can be used  *)
(* for it.  Rows of tables without a key are not part of a write set.      *)
(* LOCK_log is held from the first step of a flush to the last;            *)
(* LOCK_slave_trans_dep_tracker makes each tracker operation one step.     *)
(***************************************************************************)
EXTENDS Integers, Sequences, FiniteSets, FiniteSetsExt

CONSTANTS
    Sessions,
    Rows,
    Keyed,       \* the rows of tables with a key
    Loads        \* what the source executes: see LoadType

(* The values of binlog_transaction_dependency_tracking.                   *)
AllModes == {"COMMIT_ORDER", "WRITESET", "WRITESET_SESSION"}

(* locks: the rows locked; usable: neither DDL, nor foreign keys, nor a    *)
(* write set that is too large.                                            *)
KindType == [locks : SUBSET Rows, usable : BOOLEAN]

writeset(k) == k.locks \cap Keyed
has_missing_keys(k) == ~(k.locks \subseteq Keyed)

(* The transactions, the tracking modes, the size of the history, and the  *)
(* bounds on the number of transactions, rotations and mode changes.       *)
LoadType == [kinds : SUBSET KindType, modes : SUBSET AllModes,
             history_size : Nat, trx : Nat, rotations : Nat, changes : Nat]

ASSUME LoadAssumption ==
    /\ Keyed \subseteq Rows
    /\ Loads \subseteq LoadType

VARIABLES
    load,      \* the member of Loads that is executed
    ctx,       \* Transaction_ctx of each session, and where it is
    clock,     \* the two Logical_clocks: counter, max_committed, offset
    history,   \* m_writeset_history
    history_start,
    mode,      \* m_opt_tracking_mode
    binlog,    \* the transactions logged, with their timestamps
    changes,
    unsmooth   \* history: the mode changed between a flush and its commit

sourceVars == <<load, ctx, clock, history, history_start, mode, binlog,
                changes, unsmooth>>

SEQ_UNINIT == 0

NoKind == [locks |-> {}, usable |-> FALSE]

(* A session, the clocks and the history when the server has started; the  *)
(* log is opened by a rotation, which sets the start of the history to 1.  *)
IdleSession == [pc |-> "idle", kind |-> NoKind, last_committed |-> SEQ_UNINIT,
                sequence_number |-> SEQ_UNINIT, parent |-> SEQ_UNINIT,
                mode |-> "COMMIT_ORDER", session_number |-> SEQ_UNINIT]

StartClock == [counter |-> 0, max_committed |-> 0, offset |-> 0, file |-> 1]

NoHistory == [r \in Rows |-> SEQ_UNINIT]

SourceInit ==
    /\ load \in Loads
    /\ ctx = [s \in Sessions |-> IdleSession]
    /\ clock = StartClock
    /\ history = NoHistory
    /\ history_start = 1
    /\ mode \in load.modes
    /\ binlog = <<>>
    /\ changes = 0
    /\ unsmooth = FALSE

At(s, where) == ctx[s].pc = where

Held(s) == IF At(s, "idle") THEN {} ELSE ctx[s].kind.locks

Begun == Len(binlog) + Cardinality({s \in Sessions :
              ctx[s].pc \in {"executed", "prepared", "flushing"}})

-----------------------------------------------------------------------------
(* Session s has executed the statements of a transaction and holds its    *)
(* locks.                                                                  *)
execute(s) ==
    /\ At(s, "idle")
    /\ Begun < load.trx
    /\ \E k \in load.kinds :
        /\ \A t \in Sessions : Held(t) \cap k.locks = {}
        /\ ctx' = [ctx EXCEPT ![s].pc = "executed", ![s].kind = k]
    /\ UNCHANGED <<load, clock, history, history_start, mode, binlog,
                   changes, unsmooth>>

(* The commit parent is stored at the end of the last statement.           *)
binlog_prepare(s) ==
    /\ At(s, "executed")
    /\ ctx' = [ctx EXCEPT ![s].pc = "prepared",
                          ![s].last_committed = clock.max_committed]
    /\ UNCHANGED <<load, clock, history, history_start, mode, binlog,
                   changes, unsmooth>>

(* Mutant of CommitOrderParent: numbers that are not those of the file.    *)
CommitOrderParent_no_offset(last_committed) == last_committed

(* Commit_order_trx_dependency_tracker::get_dependency.                    *)
CommitOrderParent(last_committed) ==
    IF last_committed <= clock.offset THEN SEQ_UNINIT
                                      ELSE last_committed - clock.offset

(* binlog_cache_data::flush steps the clock, and get_dependency reads the  *)
(* mode and the commit order.                                              *)
flush(s) ==
    LET number == clock.counter + 1
        last == IF ctx[s].last_committed = SEQ_UNINIT THEN number - 1
                                             ELSE ctx[s].last_committed
    IN
    /\ At(s, "prepared")
    /\ \A t \in Sessions : ~At(t, "flushing")
    /\ clock' = [clock EXCEPT !.counter = number]
    /\ ctx' = [ctx EXCEPT ![s].pc = "flushing", ![s].mode = mode,
                          ![s].sequence_number = number,
                          ![s].last_committed = last,
                          ![s].parent = CommitOrderParent(last)]
    /\ UNCHANGED <<load, history, history_start, mode, binlog, changes,
                   unsmooth>>

Known == {r \in Rows : history[r] # SEQ_UNINIT}

(* Writeset_trx_dependency_tracker::get_dependency: whether the history is *)
(* cleared, and the greatest sequence number among the conflicts.          *)
exceeds_capacity(k) ==
    k.usable /\ Cardinality(Known) + Cardinality(writeset(k)) > load.history_size

last_parent(k, number) ==
    Max({history_start} \cup
        {history[r] : r \in {x \in writeset(k) \cap Known : history[x] < number}})

(* Its result, from the parent that the commit order gives.                *)
WritesetParent(k, number, parent) ==
    IF k.usable /\ ~has_missing_keys(k)
    THEN Min({last_parent(k, number), parent}) ELSE parent

(* Mutant of WritesetStep: the start is kept when the history is cleared.  *)
WritesetStep_start_kept(k, number) ==
    /\ history' = IF exceeds_capacity(k) \/ ~k.usable THEN NoHistory
                  ELSE [r \in Rows |-> IF r \in writeset(k) THEN number
                                                            ELSE history[r]]
    /\ UNCHANGED history_start

(* Its effect on the history.                                              *)
WritesetStep(k, number) ==
    IF exceeds_capacity(k) \/ ~k.usable
    THEN /\ history' = NoHistory
         /\ history_start' = number
    ELSE /\ history' = [r \in Rows |-> IF r \in writeset(k) THEN number
                                                           ELSE history[r]]
         /\ UNCHANGED history_start

(* Mutant of SessionParent: the session is ignored.                        *)
SessionParent_ignored(s, number, parent) == parent

(* Writeset_session_trx_dependency_tracker::get_dependency.                *)
SessionParent(s, number, parent) ==
    LET mine == ctx[s].session_number
    IN  IF mine # SEQ_UNINIT /\ mine < number THEN Max({parent, mine})
                                              ELSE parent

(* The rest of Transaction_dependency_tracker::get_dependency; the         *)
(* Gtid_log_event is written.                                              *)
get_dependency(s) ==
    LET c == ctx[s]
        number == c.sequence_number - clock.offset
        by_rows == WritesetParent(c.kind, number, c.parent)
        parent == CASE c.mode = "COMMIT_ORDER" -> c.parent
                    [] c.mode = "WRITESET" -> by_rows
                    [] c.mode = "WRITESET_SESSION" ->
                          SessionParent(s, number, by_rows)
    IN
    /\ At(s, "flushing")
    /\ binlog' = Append(binlog, [sequence_number |-> number,
                                 last_committed |-> parent, file |-> clock.file,
                                 session |-> s, mode |-> c.mode,
                                 locks |-> c.kind.locks])
    /\ ctx' = [ctx EXCEPT ![s].pc = "flushed",
                          ![s].last_committed = SEQ_UNINIT,
                          ![s].session_number =
                              IF c.mode = "WRITESET_SESSION" THEN number ELSE @]
    /\ IF c.mode = "COMMIT_ORDER" THEN UNCHANGED <<history, history_start>>
                                  ELSE WritesetStep(c.kind, number)
    /\ UNCHANGED <<load, clock, mode, changes, unsmooth>>

(* Logical_clock::set_if_greater on the clock of committed transactions.   *)
set_if_greater(number) ==
    IF number <= clock.offset THEN clock.max_committed
                              ELSE Max({clock.max_committed, number})

(* Just before the commit in the engines ...                               *)
update_max_committed(s) ==
    /\ At(s, "flushed")
    /\ clock' = [clock EXCEPT !.max_committed =
                                  set_if_greater(ctx[s].sequence_number)]
    /\ ctx' = [ctx EXCEPT ![s].pc = "committing",
                          ![s].sequence_number = SEQ_UNINIT]
    /\ UNCHANGED <<load, history, history_start, mode, binlog, changes,
                   unsmooth>>

(* ... which releases the locks.                                           *)
ha_commit_low(s) ==
    /\ At(s, "committing")
    /\ ctx' = [ctx EXCEPT ![s].pc = "idle", ![s].kind = NoKind,
                          ![s].parent = SEQ_UNINIT, ![s].mode = "COMMIT_ORDER"]
    /\ UNCHANGED <<load, clock, history, history_start, mode, binlog,
                   changes, unsmooth>>

(* Rotation waits for the transactions of the old file to commit.          *)
rotate ==
    /\ clock.file <= load.rotations
    /\ binlog # <<>> /\ binlog[Len(binlog)].file = clock.file
    /\ \A s \in Sessions : ctx[s].pc \notin {"flushing", "flushed", "committing"}
    /\ clock' = [clock EXCEPT !.offset = clock.counter, !.file = @ + 1]
    /\ history' = NoHistory
    /\ history_start' = 1
    /\ UNCHANGED <<load, ctx, mode, binlog, changes, unsmooth>>

(* SET GLOBAL binlog_transaction_dependency_tracking.                      *)
tracking_mode_changed ==
    /\ changes < load.changes
    /\ changes' = changes + 1
    /\ mode' \in load.modes \ {mode}
    /\ history' = NoHistory
    /\ history_start' = clock.max_committed - clock.offset
    /\ unsmooth' = \/ unsmooth
                   \/ \E s \in Sessions : ctx[s].pc \in {"flushing", "flushed"}
    /\ UNCHANGED <<load, ctx, clock, binlog>>

SourceNext ==
    \/ \E s \in Sessions :
          \/ execute(s) \/ binlog_prepare(s) \/ flush(s) \/ get_dependency(s)
          \/ update_max_committed(s) \/ ha_commit_low(s)
    \/ rotate
    \/ tracking_mode_changed

-----------------------------------------------------------------------------
(* Two transactions of the same file of which the first is logged before   *)
(* the second.                                                             *)
Precedes(i, j) == i < j /\ binlog[i].file = binlog[j].file

DependsOn(j, i) == binlog[j].last_committed >= binlog[i].sequence_number

(* If a transaction locks a row that an earlier one of the file has        *)
(* locked, its last_committed is not below the other's sequence number,    *)
(* whatever the tracking mode, the size of the history and the moments of  *)
(* rotation: get_dependency never loses a conflict.  Changes of the mode   *)
(* while a transaction is between its flush and its commit are left out.   *)
ConflictsAreDependent ==
    ~unsmooth =>
        \A i, j \in DOMAIN binlog :
            Precedes(i, j) /\ binlog[i].locks \cap binlog[j].locks # {} =>
                DependsOn(j, i)

(* With WRITESET_SESSION transactions of one session depend on one         *)
(* another, also after rotations, which do not reset the number that other *)
(* sessions remember.                                                      *)
SessionsAreDependent ==
    \A i, j \in DOMAIN binlog :
        /\ Precedes(i, j)
        /\ binlog[i].session = binlog[j].session
        /\ {binlog[i].mode, binlog[j].mode} = {"WRITESET_SESSION"}
        => DependsOn(j, i)

=============================================================================
