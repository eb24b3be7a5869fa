----------------------------- MODULE GtidState -----------------------------
(***************************************************************************)
(* Global transaction identifiers on one server (sql/rpl_gtid_state.cc,    *)
(* sql/rpl_gtid_execution.cc and their callers): who owns a GTID, which    *)
(* GTIDs are executed, which of them the binary logs and the table         *)
(* mysql.gtid_executed record, and how a restart rebuilds gtid_executed    *)
(* and gtid_purged from the two.  gtid_mode is ON and the binary log is    *)
(* open; log_slave_updates is off, so that the Appliers are the threads    *)
(* whose transactions are not in the binary log.                           *)
(*                                                                         *)
(* The sessions of a commit group are handled one by one, which is what    *)
(* binlog_order_commits=0 does.  Writing a transaction to the binary log   *)
(* and syncing it is one step (GroupCommit has the stages): sync_binlog=1. *)
(***************************************************************************)
EXTENDS Naturals, Sequences, FiniteSets, FiniteSetsExt, SequencesExt

CONSTANTS
    Clients,    \* sessions that write to the binary log
    Appliers,   \* replication threads that do not
    MaxSidno,   \* the servers whose GTIDs appear here
    MaxGno,     \* bound: sequence numbers of each
    Loads,      \* what may happen, and under which settings
    None

Sessions == Clients \cup Appliers
Sidnos == 1..MaxSidno
server_sidno == 1
Gtids == Sidnos \X (1..MaxGno)
GtidSets == SUBSET Gtids

(* The kinds of transactions and the value of binlog_gtid_simple_recovery, *)
(* the GTIDs sessions may name in gtid_next, the sets they may wait for    *)
(* and give to gtid_purged, and how many operations of each sort there     *)
(* are.  A transaction is of kind "xid" if an Xid event ends it, and of    *)
(* kind "query" if not (DDL, or tables of a non-transactional engine).     *)
LoadType ==
    [kinds : SUBSET {"xid", "query"}, simple_recovery : BOOLEAN,
     gtid_next : GtidSets, wait_for : SUBSET GtidSets, purged : SUBSET GtidSets,
     trx : Nat, waits : Nat, rotations : Nat, purges : Nat, stops : Nat,
     startup_stops : Nat, resets : Nat, kills : Nat]

ASSUME LoadAssumption ==
    /\ Loads \subseteq LoadType
    /\ {MaxSidno, MaxGno} \subseteq Nat \ {0}
    /\ Clients \cap Appliers = {}
    /\ None \notin Gtids

VARIABLES
    load,        \* what may still happen
    state,       \* the Gtid_state object
    thd,         \* the sessions
    table,       \* mysql.gtid_executed
    files,       \* the binary logs in the index
    rotation,    \* new_file_impl, which holds LOCK_log and LOCK_index
    server,      \* "up", "down", or how far a start has got
    committed    \* history: GTIDs recorded durably whose commit has returned

vars == <<load, state, thd, table, files, rotation, server, committed>>

(* A file has its Previous_gtids event, unless it ends before it, and the  *)
(* GTIDs of its transactions in the order in which they were written.      *)
FileType == [previous_gtids : GtidSets \cup {None}, gtids : Seq(Gtids)]
File(p) == [previous_gtids |-> p, gtids |-> <<>>]
GtidsOf(f) == ToSet(f.gtids)
Logged == UNION {GtidsOf(files[i]) : i \in DOMAIN files}

Cleared == [executed |-> {}, lost |-> {}, only_in_table |-> {},
            previous_logged |-> {}, next_free_gno |-> 1]

Idle == [pc |-> "idle", kind |-> None, gtid_next |-> None, owned |-> None,
         todo |-> {}, wait_for |-> {}, verified |-> TRUE]

NoRotation == [pc |-> "none", set |-> {}]

Init ==
    /\ load \in Loads
    /\ state = Cleared
    /\ thd = [s \in Sessions |-> Idle]
    /\ table = {}
    /\ files = <<File({})>>
    /\ rotation = NoRotation
    /\ server = "up"
    /\ committed = {}

Count(what) ==
    /\ load[what] > 0
    /\ load' = [load EXCEPT ![what] = @ - 1]

Owned == {thd[s].owned : s \in Sessions} \ {None}

(* Waking every session that waits on the condition variable of a SIDNO.   *)
WaitsOn(t) == IF t.pc = "wait_set" THEN Min({g[1] : g \in t.todo}) ELSE t.gtid_next[1]
Asleep(t) == t.pc \in {"wait_gtid", "wait_set"}

broadcast(threads, sidnos) ==
    [s \in Sessions |->
       IF Asleep(threads[s]) /\ WaitsOn(threads[s]) \in sidnos
         THEN [threads[s] EXCEPT !.pc = IF @ = "wait_set" THEN "woken_set" ELSE "woken_gtid"]
         ELSE threads[s]]

-----------------------------------------------------------------------------
(* A client begins a transaction with gtid_next = AUTOMATIC.               *)
begin(s, k) ==
    /\ s \in Clients /\ thd[s].pc = "idle"
    /\ Count("trx")
    /\ thd' = [thd EXCEPT ![s] = [Idle EXCEPT !.pc = "execute", !.kind = k]]
    /\ UNCHANGED <<state, table, files, rotation, server, committed>>

(* A bug: ownership is taken without looking at gtid_executed again.       *)
try_gtid_stale(s, t, g) ==
    thd' = [thd EXCEPT ![s] =
              IF g \in Owned THEN [t EXCEPT !.pc = "wait_gtid"]
              ELSE [t EXCEPT !.pc = "execute", !.owned = g]]

(* The body of the loop of set_gtid_next.  The transaction of a GTID that  *)
(* is already executed is skipped (is_already_logged_transaction).         *)
try_gtid(s, t, g) ==
    thd' = [thd EXCEPT ![s] =
              IF g \in state.executed THEN Idle
              ELSE IF g \in Owned THEN [t EXCEPT !.pc = "wait_gtid"]
              ELSE [t EXCEPT !.pc = "execute", !.owned = g]]

set_gtid_next(s, k, g) ==
    /\ thd[s].pc = "idle"
    /\ Count("trx")
    /\ try_gtid(s, [Idle EXCEPT !.kind = k, !.gtid_next = g], g)
    /\ UNCHANGED <<state, table, files, rotation, server, committed>>

set_gtid_next_woken(s) ==
    /\ thd[s].pc = "woken_gtid"
    /\ try_gtid(s, thd[s], thd[s].gtid_next)
    /\ UNCHANGED <<load, state, table, files, rotation, server, committed>>

(* KILL while it waits.                                                    *)
killed(s) ==
    /\ Asleep(thd[s])
    /\ Count("kills")
    /\ thd' = [thd EXCEPT ![s] = Idle]
    /\ UNCHANGED <<state, table, files, rotation, server, committed>>

-----------------------------------------------------------------------------
(* The search starts at next_free_gno and skips executed and owned GTIDs;  *)
(* there is no number if it comes to MaxGno.                               *)
Free(n) == <<server_sidno, n>> \notin state.executed \cup Owned
get_automatic_gno ==
    {n \in state.next_free_gno..MaxGno :
        Free(n) /\ \A m \in state.next_free_gno..(n - 1) : ~Free(m)}

(* A bug: the search goes on one number too far.                           *)
next_free_gno_beyond(n) ==
    n + 2

next_free_gno(n) ==
    n + 1

(* Gtid_state::generate_automatic_gtid for an AUTOMATIC transaction; one   *)
(* with a GTID of its own keeps it.                                        *)
generate_automatic_gtid(s) ==
    \/ /\ thd[s].owned # None
       /\ thd' = [thd EXCEPT ![s].pc = "flushed"]
       /\ UNCHANGED state
    \/ /\ thd[s].owned = None
       /\ \E n \in get_automatic_gno :
            /\ thd' = [thd EXCEPT ![s].pc = "flushed", ![s].owned = <<server_sidno, n>>]
            /\ state' = [state EXCEPT !.next_free_gno = next_free_gno(n)]

(* The transaction is written to the binary log, under LOCK_log.           *)
flush(s) ==
    /\ s \in Clients /\ thd[s].pc = "execute"
    /\ rotation = NoRotation
    /\ generate_automatic_gtid(s)
    /\ files' = [files EXCEPT ![Len(files)].gtids = Append(@, thd'[s].owned)]
    /\ UNCHANGED <<load, table, rotation, server, committed>>

(* commit_owned_gtids: the transaction of an applier writes its own row of *)
(* mysql.gtid_executed, which the engine commits with the rest.            *)
commit_owned_gtids(s) ==
    /\ s \in Appliers /\ thd[s].pc = "execute"
    /\ table' = table \cup {thd[s].owned}
    /\ thd' = [thd EXCEPT ![s].pc = "flushed"]
    /\ UNCHANGED <<load, state, files, rotation, server, committed>>

(* A bug: what is only in the table is not told from what is logged.       *)
update_on_commit_logged(s) ==
    LET g == thd[s].owned IN
    /\ thd[s].pc = "flushed"
    /\ thd' = broadcast([thd EXCEPT ![s] = Idle], {g[1]})
    /\ state' = [state EXCEPT !.executed = @ \cup {g}]
    /\ committed' = committed \cup ({g} \cap (Logged \cup table))
    /\ UNCHANGED <<load, table, files, rotation, server>>

(* Gtid_state::update_gtids_impl for a commit and for a rollback.          *)
update_on_commit(s) ==
    LET g == thd[s].owned
        only == IF s \in Appliers THEN {g} ELSE {}
    IN  /\ thd[s].pc = "flushed"
        /\ thd' = broadcast([thd EXCEPT ![s] = Idle], {g[1]})
        /\ state' = [state EXCEPT !.executed = @ \cup {g}, !.lost = @ \cup only,
                                  !.only_in_table = @ \cup only]
        /\ committed' = committed \cup ({g} \cap (Logged \cup table))
        /\ UNCHANGED <<load, table, files, rotation, server>>

(* A bug: a GNO given back is not looked for again.                        *)
next_free_gno_kept(g) ==
    state.next_free_gno

next_free_gno_after(g) ==
    IF g[1] = server_sidno /\ state.next_free_gno > g[2] THEN g[2] ELSE state.next_free_gno

(* A bug: the sessions that wait for the GTID are not woken.               *)
update_on_rollback_silent(s) ==
    LET g == thd[s].owned IN
    /\ thd[s].pc = "execute"
    /\ thd' = [thd EXCEPT ![s] = Idle]
    /\ state' = IF g = None THEN state
                ELSE [state EXCEPT !.next_free_gno = next_free_gno_after(g)]
    /\ UNCHANGED <<load, table, files, rotation, server, committed>>

update_on_rollback(s) ==
    LET g == thd[s].owned IN
    /\ thd[s].pc = "execute"
    /\ IF g = None
         THEN /\ thd' = [thd EXCEPT ![s] = Idle]
              /\ state' = state
         ELSE /\ thd' = broadcast([thd EXCEPT ![s] = Idle], {g[1]})
              /\ state' = [state EXCEPT !.next_free_gno = next_free_gno_after(g)]
    /\ UNCHANGED <<load, table, files, rotation, server, committed>>

-----------------------------------------------------------------------------
(* Gtid_state::wait_for_gtid_set.  One run of the loop over the SIDNOs of  *)
(* todo, up to the first for which something is missing; if the run had no *)
(* wait in it the set is verified, otherwise todo is filled again.         *)
Missing(todo) == {g[1] : g \in todo \ state.executed}

Sleep(t, todo, verified) ==
    LET n == Min(Missing(todo)) IN
    [t EXCEPT !.pc = "wait_set", !.verified = verified,
              !.todo = {g \in todo : g[1] > n \/ (g[1] = n /\ g \notin state.executed)}]

(* A bug: the set is not verified once the loop has come to its end.       *)
for_loop_once(t) ==
    IF Missing(t.todo) # {} THEN Sleep(t, t.todo, FALSE) ELSE Idle

for_loop(t) ==
    IF Missing(t.todo) # {} THEN Sleep(t, t.todo, FALSE)
    ELSE IF t.verified \/ Missing(t.wait_for) = {} THEN Idle
    ELSE Sleep(t, t.wait_for, FALSE)

wait_for_gtid_set(s, w) ==
    /\ s \in Clients /\ thd[s].pc = "idle"
    /\ Count("waits")
    /\ thd' = [thd EXCEPT ![s] = for_loop([Idle EXCEPT !.wait_for = w, !.todo = w])]
    /\ UNCHANGED <<state, table, files, rotation, server, committed>>

wait_for_gtid_set_woken(s) ==
    /\ thd[s].pc = "woken_set"
    /\ thd' = [thd EXCEPT ![s] = for_loop(@)]
    /\ UNCHANGED <<load, state, table, files, rotation, server, committed>>

-----------------------------------------------------------------------------
(* A bug: a rotation does not wait for the transactions it would split.    *)
prep_xids_ignored ==
    {}

(* m_prep_xids counts the transactions with an Xid event between their     *)
(* flush and the end of their commit.                                      *)
prep_xids == {s \in Clients : thd[s].pc = "flushed" /\ thd[s].kind = "xid"}

(* executed_gtids - previous_gtids_logged - gtids_only_in_table            *)
logged_gtids_last_binlog ==
    (state.executed \ state.previous_logged) \ state.only_in_table

(* MYSQL_BIN_LOG::new_file_impl in three steps: the GTIDs of the last      *)
(* binary log, their rows in mysql.gtid_executed, and the new file.  Only  *)
(* the first and the last look at gtid_executed.                           *)
new_file_impl ==
    /\ rotation = NoRotation
    /\ prep_xids = {}
    /\ Count("rotations")
    /\ rotation' = [pc |-> "save", set |-> logged_gtids_last_binlog]
    /\ state' = [state EXCEPT !.previous_logged = @ \cup logged_gtids_last_binlog]
    /\ UNCHANGED <<thd, table, files, server, committed>>

save_gtids_of_last_binlog_into_table ==
    /\ rotation.pc = "save"
    /\ table' = table \cup rotation.set
    /\ rotation' = [pc |-> "open", set |-> {}]
    /\ UNCHANGED <<load, state, thd, files, server, committed>>

(* The Previous_gtids event of a new file: executed_gtids -                *)
(* gtids_only_in_table.                                                    *)
previous_gtids ==
    state.executed \ state.only_in_table

open_binlog ==
    /\ rotation.pc = "open"
    /\ files' = Append(files, File(previous_gtids))
    /\ rotation' = NoRotation
    /\ UNCHANGED <<load, state, thd, table, server, committed>>

-----------------------------------------------------------------------------
(* read_gtids_from_binlog: a file without its Previous_gtids event has no  *)
(* GTIDs (NO_GTIDS).                                                       *)
no_gtids(f) == f.previous_gtids = None
all_gtids(f) == f.previous_gtids \cup GtidsOf(f)

(* The second loop of init_gtid_sets, forwards: with                       *)
(* binlog_gtid_simple_recovery the first file only, without it the files   *)
(* up to the first that has a transaction.                                 *)
lost_gtids(fs) ==
    LET full == {i \in DOMAIN fs : fs[i].gtids # <<>>}
        last == IF load.simple_recovery THEN 1 ELSE Min(full \cup {Len(fs)})
    IN  UNION {fs[i].previous_gtids : i \in {j \in 1..last : ~no_gtids(fs[j])}}

(* init_gtid_sets at server start: the last file with a Previous_gtids     *)
(* event, which is the last file or, without simple recovery, may be an    *)
(* earlier one.  Not to find it leaves the sets empty.                     *)
init_gtid_sets(fs) ==
    LET found == {i \in DOMAIN fs : ~no_gtids(fs[i]) /\
                                    (load.simple_recovery => i = Len(fs))}
    IN  IF found = {} THEN [all |-> {}, lost |-> {}]
        ELSE [all |-> all_gtids(fs[Max(found)]),
              lost |-> IF Max(found) = 1 THEN fs[1].previous_gtids ELSE lost_gtids(fs)]

(* PURGE BINARY LOGS, one file.                                            *)
purge_logs ==
    /\ Len(files) > 1
    /\ rotation = NoRotation
    /\ Count("purges")
    /\ files' = Tail(files)
    /\ state' = [state EXCEPT !.lost = @ \cup lost_gtids(Tail(files))]
    /\ UNCHANGED <<thd, table, rotation, server, committed>>

(* RESET MASTER: reset_logs deletes the files and calls Gtid_state::clear  *)
(* and init under LOCK_log, LOCK_index and global_sid_lock.                *)
reset_master ==
    /\ rotation = NoRotation
    /\ Count("resets")
    /\ files' = <<File({})>>
    /\ state' = Cleared
    /\ table' = {}
    /\ committed' = {}
    /\ UNCHANGED <<thd, rotation, server>>

(* SET GLOBAL gtid_purged.                                                 *)
add_lost_gtids(S) ==
    /\ state.executed = {} /\ Owned = {}
    /\ table' = table \cup S
    /\ state' = [state EXCEPT !.only_in_table = @ \cup S, !.lost = @ \cup S,
                              !.executed = @ \cup S]
    /\ thd' = broadcast(thd, {g[1] : g \in S})
    /\ committed' = committed \cup S
    /\ UNCHANGED <<load, files, rotation, server>>

-----------------------------------------------------------------------------
(* A crash, in the middle of anything, or of a start.                      *)
Halt ==
    /\ server' = "down"
    /\ state' = Cleared
    /\ thd' = [s \in Sessions |-> Idle]
    /\ rotation' = NoRotation
    /\ UNCHANGED <<files, committed>>

crash ==
    /\ Halt
    /\ IF server = "up" THEN Count("stops") ELSE Count("startup_stops")
    /\ UNCHANGED table

(* A shutdown, once the sessions have ended.                               *)
shutdown ==
    /\ \A s \in Sessions : thd[s].pc = "idle"
    /\ rotation = NoRotation
    /\ Count("stops")
    /\ table' = table \cup logged_gtids_last_binlog
    /\ Halt

(* The start: init_server_components opens a new file without its          *)
(* Previous_gtids event, mysqld_main computes the sets, and writes it.     *)
init_server_components ==
    /\ server = "down"
    /\ files' = Append(files, File(None))
    /\ server' = "opened"
    /\ UNCHANGED <<load, state, thd, table, rotation, committed>>

(* A bug: what the table lacks of the last binary log is left to the next  *)
(* rotation.                                                               *)
executed_at_start_table_only(all) ==
    table

executed_at_start(all) ==
    table \cup all

mysqld_main ==
    LET sets == init_gtid_sets(Front(files))
        executed == executed_at_start(sets.all)
        only == executed \ sets.all
    IN  /\ server = "opened"
        /\ table' = executed
        /\ state' = [executed |-> executed, lost |-> only \cup sets.lost,
                     only_in_table |-> only, previous_logged |-> sets.all,
                     next_free_gno |-> 1]
        /\ server' = "initialised"
        /\ UNCHANGED <<load, thd, files, rotation, committed>>

write_previous_gtids ==
    /\ server = "initialised"
    /\ files' = [files EXCEPT ![Len(files)].previous_gtids = state.previous_logged]
    /\ server' = "up"
    /\ UNCHANGED <<load, state, thd, table, rotation, committed>>

-----------------------------------------------------------------------------
Session(s) ==
    \/ \E k \in load.kinds : begin(s, k)
    \/ \E k \in load.kinds, g \in load.gtid_next : set_gtid_next(s, k, g)
    \/ set_gtid_next_woken(s)
    \/ killed(s)
    \/ flush(s)
    \/ commit_owned_gtids(s)
    \/ update_on_commit(s)
    \/ update_on_rollback(s)
    \/ \E w \in load.wait_for : wait_for_gtid_set(s, w)
    \/ wait_for_gtid_set_woken(s)

Administration ==
    \/ new_file_impl
    \/ save_gtids_of_last_binlog_into_table
    \/ open_binlog
    \/ purge_logs
    \/ reset_master
    \/ \E S \in load.purged : add_lost_gtids(S)
    \/ shutdown

Next ==
    \/ /\ server = "up"
       /\ Administration \/ \E s \in Sessions : Session(s)
    \/ /\ server # "down"
       /\ crash
    \/ init_server_components
    \/ mysqld_main
    \/ write_previous_gtids

Spec == Init /\ [][Next]_vars

-----------------------------------------------------------------------------
ThdType ==
    [pc : {"idle", "execute", "flushed", "wait_gtid", "woken_gtid", "wait_set", "woken_set"},
     kind : {"xid", "query", None}, gtid_next : Gtids \cup {None},
     owned : Gtids \cup {None}, todo : GtidSets, wait_for : GtidSets, verified : BOOLEAN]

(* Types; rows of a rotation are saved by a running server only.           *)
TypeOK ==
    /\ load \in LoadType
    /\ state.next_free_gno \in 1..(MaxGno + 1)
    /\ {state.executed, state.lost, state.only_in_table, state.previous_logged,
        table, committed} \subseteq GtidSets
    /\ \A s \in Sessions : thd[s] \in ThdType
    /\ \A i \in DOMAIN files : files[i] \in FileType
    /\ rotation \in [pc : {"none", "save", "open"}, set : GtidSets]
    /\ server \in {"up", "down", "opened", "initialised"}
    /\ rotation # NoRotation => server = "up"

(* A GTID is owned by one session, and no owned GTID is executed: what     *)
(* acquire_ownership and update_gtids_impl_own_gtid assert of each other,  *)
(* across waits on the SIDNO's condition, rollbacks, RESET MASTER and      *)
(* SET gtid_purged.                                                        *)
OwnershipIsExclusive ==
    /\ Owned \cap state.executed = {}
    /\ \A s, t \in Sessions : thd[s].owned = thd[t].owned => s = t \/ thd[s].owned = None

(* get_automatic_gno may start at next_free_gno: every smaller number of   *)
(* the server is executed or owned, so a number that was given back by a   *)
(* rollback is not left as a gap in gtid_executed.                         *)
GapsAreFilled ==
    \A n \in 1..(state.next_free_gno - 1) : ~Free(n)

(* No GTID is in the binary logs twice, whether it was generated, named in *)
(* gtid_next by several sessions, or generated again after a restart.      *)
LoggedOnce ==
    /\ \A i \in DOMAIN files : IsInjective(files[i].gtids)
    /\ \A i, j \in DOMAIN files : i # j => GtidsOf(files[i]) \cap GtidsOf(files[j]) = {}

(* The Previous_gtids event of a binary log has all the GTIDs of the       *)
(* binary logs before it (what find_first_log_not_in_gtid_set and          *)
(* init_gtid_sets take for granted).                                       *)
PreviousGtidsComplete ==
    \A i, j \in DOMAIN files :
        i < j /\ ~no_gtids(files[j]) => GtidsOf(files[i]) \subseteq files[j].previous_gtids

(* A GTID whose commit has returned is in gtid_executed of the running     *)
(* server, also after a crash or a shutdown at any point and a start.      *)
ExecutedSurvives ==
    server = "up" => committed \subseteq state.executed

(* gtid_purged is exact: none of its GTIDs is in the binary logs, and an   *)
(* executed GTID that is in none of them is in gtid_purged, so that a      *)
(* replica that needs it is refused.                                       *)
PurgedIsExact ==
    server = "up" => /\ state.lost \cap Logged = {}
                     /\ committed \subseteq state.lost \cup Logged

(* Where the backward search for a replica that has the GTIDs S ends: at   *)
(* the last file whose Previous_gtids the replica has, where the dump      *)
(* thread starts, or with an error at a file without that event.           *)
find_first_log_not_in_gtid_set(S) ==
    {i \in DOMAIN files : no_gtids(files[i]) \/ files[i].previous_gtids \subseteq S}

(* A replica that connects with auto-positioning and has gtid_purged finds *)
(* where to start, and misses no transaction of an earlier file            *)
(* (Binlog_sender::check_start_file).                                      *)
AutoPositionSendsAll ==
    server = "up" =>
        \A S \in GtidSets : state.lost \subseteq S =>
            LET found == find_first_log_not_in_gtid_set(S) IN
            /\ found # {}
            /\ ~no_gtids(files[Max(found)]) =>
                 \A i \in 1..(Max(found) - 1) : GtidsOf(files[i]) \subseteq S

(* No wake-up is lost: the GTID that set_gtid_next sleeps for is owned,    *)
(* and something wait_for_gtid_set sleeps for is not executed yet.         *)
NoLostWakeup ==
    \A s \in Sessions :
        /\ thd[s].pc = "wait_gtid" => thd[s].gtid_next \in Owned
        /\ thd[s].pc = "wait_set" =>
             \E g \in thd[s].todo : g[1] = WaitsOn(thd[s]) /\ g \notin state.executed

(* wait_for_gtid_set succeeds only at a moment at which all of its GTIDs   *)
(* are executed, although RESET MASTER may empty gtid_executed while it    *)
(* sleeps.                                                                 *)
WaitIsTrue ==
    [][\A s \in Sessions :
         (thd[s].pc = "woken_set" /\ thd'[s].pc = "idle" /\ server' = "up")
           => thd[s].wait_for \subseteq state.executed]_vars

=============================================================================
