------------------------------ MODULE SemiSync ------------------------------
(***************************************************************************)
(* Semi-synchronous replication (plugin/semisync): the master's list of    *)
(* transactions to be acknowledged, the sessions that wait in commitTrx,   *)
(* the dump threads that ask replicas for acknowledgements, the ack        *)
(* receiver, the container that counts acknowledgements, time-outs that    *)
(* switch semi-sync off, and the acknowledgement that switches it on.      *)
(*                                                                         *)
(* A binary log position (file name and offset, compared                   *)
(* lexicographically) is a natural number: the log starts at Start, and    *)
(* each transaction is one longer.  Every method runs under LOCK_binlog_,  *)
(* so it is one step; commitTrx is cut where cond_timedwait releases the   *)
(* mutex.  A session waits for its own transaction, as it does with        *)
(* rpl_semi_sync_master_wait_point=AFTER_COMMIT; with AFTER_SYNC the       *)
(* leader waits for the last transaction of its group only, which is the   *)
(* case of a group of one.                                                 *)
(***************************************************************************)
EXTENDS Naturals, Sequences, FiniteSets, FiniteSetsExt, SequencesExt

CONSTANTS
    MaxSessions,    \* sessions, which each commit one transaction
    Replicas,
    WaitCounts,     \* values of rpl_semi_sync_master_wait_for_slave_count
    MaxGroup,       \* bound: transactions in a flush group
    Bounds,         \* bounds: transactions, broken connections, commands
    None

ASSUME CountAssumption == WaitCounts \subseteq Nat \ {0}
ASSUME BoundAssumption ==
    /\ {MaxSessions, MaxGroup} \subseteq Nat \ {0}
    /\ Bounds \subseteq [transactions : 1..MaxSessions, disconnects : Nat,
                        commands : Nat]
ASSUME NoneAssumption == None \notin Replicas \cup Nat

(* Sessions are numbered in the order in which they write.                 *)
Sessions == 1..MaxSessions

VARIABLES
    master,      \* ReplSemiSyncMaster and its status variables
    pc,          \* where each session is
    pos,         \* the end of its transaction in the binary log
    entry,       \* commitTrx's local variable, the position of a TranxNode
    result,      \* which counter commitTrx incremented
    written,     \* the end of the binary log
    conn,        \* the dump thread of each replica
    cursor,      \* how far it has read the binary log
    received,    \* how much of the binary log each replica has
    acks,        \* acknowledgements on their way
    resetting,   \* RESET MASTER is between its two steps
    stale,       \* history: transactions written before its end
    required,    \* history: the smallest number of replicas asked for
    timed_out,   \* history: whether a wait has timed out
    bound,       \* what may still happen
    commanded    \* history: whether an administrative command was given

sessionVars == <<pc, pos, entry, result>>
replicaVars == <<conn, cursor, received, acks>>
historyVars == <<resetting, stale, required, timed_out>>
vars == <<master, sessionVars, written, replicaVars, historyVars, bound, commanded>>

(* AckContainer: the last acknowledgement of each of count - 1 replicas,   *)
(* and the greatest position reported.                                     *)
NoPos == 0
Start == 1
NoAck == [server |-> None, pos |-> NoPos]

EmptyContainer(count) ==
    [slots |-> [i \in 1..(count - 1) |-> NoAck], greatest |-> NoPos,
     report |-> FALSE]

Init ==
    /\ \E count \in WaitCounts :
        /\ master =
            [enabled |-> TRUE, on |-> TRUE, abort_loop |-> FALSE,
             wait_no_slave |-> TRUE,
             reply_inited |-> FALSE, reply_pos |-> NoPos,
             wait_inited |-> FALSE, wait_pos |-> NoPos,
             commit_inited |-> FALSE, commit_pos |-> NoPos,
             nodes |-> {}, signalled |-> {}, wait_sessions |-> 0,
             clients |-> 0, count |-> count,
             container |-> EmptyContainer(count)]
        /\ required = count
    /\ bound \in Bounds
    /\ pc = [s \in Sessions |->
                IF s <= bound.transactions THEN "idle" ELSE "done"]
    /\ pos = [s \in Sessions |-> NoPos]
    /\ entry = [s \in Sessions |-> NoPos]
    /\ result = [s \in Sessions |-> "none"]
    /\ written = Start
    /\ conn = [r \in Replicas |-> "off"]
    /\ cursor = [r \in Replicas |-> Start]
    /\ received = [r \in Replicas |-> Start]
    /\ acks = [r \in Replicas |-> <<>>]
    /\ resetting = FALSE
    /\ stale = {}
    /\ timed_out = FALSE
    /\ commanded = FALSE

-----------------------------------------------------------------------------
(* The methods of ReplSemiSyncMaster, as functions on its state.  The list *)
(* of TranxNodes is ordered by position and is represented by the set of   *)
(* the positions; signalled holds the nodes whose condition the step       *)
(* broadcasts.                                                             *)

switch_off(m) ==
    [m EXCEPT !.on = FALSE, !.wait_inited = FALSE, !.reply_inited = FALSE,
              !.signalled = m.nodes]

try_switch_on(m, p) ==
    [m EXCEPT !.on = m.commit_inited => p >= m.commit_pos]

(* Mutant of reportReplyBinlog: a reply for the position waited for does   *)
(* not end the wait.                                                       *)
reportReplyBinlog_beyond(m, p) ==
    LET tried == IF m.on THEN m ELSE try_switch_on(m, p)
        behind == tried.reply_inited /\ p < tried.reply_pos
        moved == [tried EXCEPT !.reply_inited = TRUE,
                               !.reply_pos = IF behind THEN @ ELSE p]
    IN  IF ~m.enabled THEN m
        ELSE IF moved.wait_sessions > 0 /\ moved.reply_pos > moved.wait_pos
        THEN [moved EXCEPT !.wait_inited = FALSE,
                  !.signalled = {n \in m.nodes : n <= moved.reply_pos}]
        ELSE moved

reportReplyBinlog(m, p) ==
    LET tried == IF m.on THEN m ELSE try_switch_on(m, p)
        behind == tried.reply_inited /\ p < tried.reply_pos
        moved == [tried EXCEPT !.reply_inited = TRUE,
                               !.reply_pos = IF behind THEN @ ELSE p]
    IN  IF ~m.enabled THEN m
        ELSE IF moved.wait_sessions > 0 /\ moved.reply_pos >= moved.wait_pos
        THEN [moved EXCEPT !.wait_inited = FALSE,
                  !.signalled = {n \in m.nodes : n <= moved.reply_pos}]
        ELSE moved

(* AckContainer::minAck: of the acknowledgements below p, the one in the   *)
(* last slot.                                                              *)
minAck(a, p) ==
    LET below == {i \in DOMAIN a : a[i].pos < p}
    IN  IF below = {} THEN p ELSE a[Max(below)].pos

remove_all(a, p) == [i \in DOMAIN a |-> IF a[i].pos = p THEN NoAck ELSE a[i]]

EmptySlots(a) == {i \in DOMAIN a : a[i] = NoAck}

(* AckContainer::insert.  When the container is full, the least position   *)
(* is reported to the master.                                              *)
insert(c, r, p) ==
    LET ack == [server |-> r, pos |-> p]
        own == {i \in DOMAIN c.slots : c.slots[i].server = r}
        put(a) == [a EXCEPT ![Max(EmptySlots(a))] = ack]
        least == minAck(c.slots, p)
        rest == remove_all(c.slots, least)
    IN  CASE p <= c.greatest -> c
          [] p > c.greatest /\ own # {} ->
                [c EXCEPT !.slots[Min(own)] = ack]
          [] p > c.greatest /\ own = {} /\ EmptySlots(c.slots) # {} ->
                [c EXCEPT !.slots = put(@)]
          [] OTHER ->
                [slots |-> IF least = p THEN rest ELSE put(rest),
                 greatest |-> least, report |-> TRUE]

(* The container's answer is passed on to reportReplyBinlog.               *)
Report(m, c) ==
    LET stored == [m EXCEPT !.container = [c EXCEPT !.report = FALSE]]
    IN  IF c.report THEN reportReplyBinlog(stored, c.greatest) ELSE stored

(* Mutant of handleAck: the acknowledgements are not counted.              *)
handleAck_any(m, r, p) == reportReplyBinlog(m, p)

handleAck(m, r, p) ==
    IF m.count = 1 THEN reportReplyBinlog(m, p)
                   ELSE Report(m, insert(m.container, r, p))

(* AckContainer::resize inserts the acknowledgements of the old array, in  *)
(* the order of its slots, into the new one.                               *)
setWaitSlaveCount(m, count) ==
    LET old == SelectSeq(m.container.slots, LAMBDA a : a # NoAck)
        c == FoldLeft(LAMBDA d, a : insert(d, a.server, a.pos),
                      [EmptyContainer(count) EXCEPT
                          !.greatest = m.container.greatest],
                      old)
    IN  IF count = m.count THEN m ELSE Report([m EXCEPT !.count = count], c)

(* Mutant of updateSyncHeader: no reply is asked for the event waited for. *)
updateSyncHeader_beyond(m, p) ==
    /\ m.enabled
    /\ IF m.on
       THEN /\ m.reply_inited => p > m.reply_pos
            /\ m.wait_inited => p > m.wait_pos
            /\ p \in m.nodes
       ELSE m.commit_inited => p >= m.commit_pos

(* updateSyncHeader: whether the event that ends at p asks for a reply.    *)
updateSyncHeader(m, p) ==
    /\ m.enabled
    /\ IF m.on
       THEN /\ m.reply_inited => p > m.reply_pos
            /\ m.wait_inited => p >= m.wait_pos
            /\ p \in m.nodes
       ELSE m.commit_inited => p >= m.commit_pos

(* ActiveTranx::insert_tranx_node, which fails for a position that is not  *)
(* beyond the last one.                                                    *)
insert_tranx_node(m, p) ==
    IF \A n \in m.nodes : n < p
    THEN [m EXCEPT !.nodes = @ \cup {p}]
    ELSE switch_off(m)

writeTranxInBinlog(m, p) ==
    LET noted == [m EXCEPT !.commit_inited = TRUE,
                           !.commit_pos = IF m.commit_inited /\ p <= @ THEN @
                                                                       ELSE p]
    IN  CASE ~m.enabled -> m
          [] m.enabled /\ m.on -> insert_tranx_node(noted, p)
          [] OTHER -> noted

(* The sessions that sleep on a node, n_waiters of them.                   *)
Waiters(n) ==
    {s \in Sessions : pc[s] \in {"asleep", "woken"} /\ entry[s] = n}

(* Mutant of clear_active_tranx_nodes: it does not stop.                   *)
clear_active_tranx_nodes_all(m, s) ==
    [m EXCEPT !.nodes = {n \in @ : n > pos[s]}]

(* ActiveTranx::clear_active_tranx_nodes as session s leaves commitTrx: it *)
(* stops at the first node that somebody waits on.                         *)
clear_active_tranx_nodes(m, s) ==
    [m EXCEPT !.nodes =
        {n \in @ : \/ n > pos[s]
                   \/ \E k \in @ : k <= n /\ Waiters(k) \ {s} # {}}]

add_slave(m) == [m EXCEPT !.clients = @ + 1]

(* Mutant of remove_slave: semi-sync is switched off, nothing is counted.  *)
remove_slave_uncounted(m) ==
    IF /\ m.enabled /\ m.on /\ m.clients = m.count
       /\ ~m.wait_no_slave \/ m.abort_loop
    THEN switch_off(m) ELSE m

remove_slave(m) ==
    LET fewer == [m EXCEPT !.clients = @ - 1]
    IN  IF /\ m.enabled
           /\ m.on
           /\ fewer.clients + 1 = m.count
           /\ ~m.wait_no_slave \/ m.abort_loop
        THEN switch_off(fewer)
        ELSE fewer

-----------------------------------------------------------------------------
(* The master's state becomes m, the sessions that sleep on a node it      *)
(* signals are woken, and the sessions of group go on to where.            *)
Step(m, group, where) ==
    /\ master' = [m EXCEPT !.signalled = {}]
    /\ pc' = [x \in Sessions |->
                IF x \in group THEN where
                ELSE IF pc[x] = "asleep" /\ entry[x] \in m.signalled
                THEN "woken" ELSE pc[x]]

(* after_flush: the idle sessions up to last write their transactions as   *)
(* one group, and the end of the group is to be acknowledged.              *)
report_binlog_update(last) ==
    LET group == {s \in 1..last : pc[s] = "idle"}
        end == written + Cardinality(group)
    IN
    /\ last \in group
    /\ Cardinality(group) <= MaxGroup
    /\ written' = end
    /\ pos' = [s \in Sessions |-> IF s \in group THEN end + s - last ELSE pos[s]]
    /\ Step(writeTranxInBinlog(master, end), group, "flushed")
    /\ UNCHANGED <<entry, result, replicaVars, historyVars, bound, commanded>>

(* Session s leaves commitTrx; if nobody else waits on its node, the nodes *)
(* up to its position are removed.                                         *)
Leave(m, s, e, counter) ==
    /\ Step(IF e # NoPos /\ Waiters(e) \ {s} = {}
            THEN clear_active_tranx_nodes(m, s) ELSE m, {s}, "done")
    /\ result' = [result EXCEPT ![s] = counter]
    /\ entry' = [entry EXCEPT ![s] = NoPos]

(* The body of commitTrx's loop, up to cond_timedwait.                     *)
Iterate(m, s, e) ==
    LET acknowledged == m.reply_inited /\ m.reply_pos >= pos[s]
        w == [m EXCEPT !.wait_inited = TRUE,
                       !.wait_pos = IF m.wait_inited /\ pos[s] > @ THEN @
                                                                   ELSE pos[s]]
        shutdown == m.abort_loop /\ m.clients + 1 = m.count
    IN
    \/ /\ acknowledged
       /\ Leave(m, s, e, "yes")
    \/ /\ ~acknowledged
       /\ e = NoPos
       /\ Leave(m, s, e, "no")
    \/ /\ ~acknowledged
       /\ e # NoPos
       /\ shutdown
       /\ Leave(switch_off(w), s, e, "no")
    \/ /\ ~acknowledged
       /\ e # NoPos
       /\ ~shutdown
       /\ Step([w EXCEPT !.wait_sessions = @ + 1], {s}, "asleep")
       /\ entry' = [entry EXCEPT ![s] = e]
       /\ UNCHANGED result

(* commitTrx up to its first wait.  The node found is that of the group,   *)
(* or of a later one if the group has none.                                *)
commitTrx(s) ==
    LET later == {n \in master.nodes : n >= pos[s]}
        e == IF later = {} THEN NoPos ELSE Min(later)
    IN
    /\ pc[s] = "flushed"
    /\ \/ ~master.enabled /\ Leave(master, s, e, "none")
       \/ master.enabled /\ ~master.on /\ Leave(master, s, e, "no")
       \/ master.enabled /\ master.on /\ Iterate(master, s, e)
    /\ UNCHANGED <<pos, written, replicaVars, historyVars, bound, commanded>>

(* KILL broadcasts the condition a session waits on; commitTrx goes on.    *)
awake(s) ==
    /\ pc[s] = "asleep"
    /\ pc' = [pc EXCEPT ![s] = "woken"]
    /\ UNCHANGED <<master, pos, entry, result, written, replicaVars,
                   historyVars, bound, commanded>>

(* What a session does first when cond_timedwait has returned.             *)
Resumed == [master EXCEPT !.wait_sessions = IF @ > 0 THEN @ - 1 ELSE 0]

(* The condition of its node was broadcast.                                *)
wakeup(s) ==
    /\ pc[s] = "woken"
    /\ \/ Resumed.on /\ Iterate(Resumed, s, entry[s])
       \/ ~Resumed.on /\ Leave(Resumed, s, entry[s], "no")
    /\ UNCHANGED <<pos, written, replicaVars, historyVars, bound, commanded>>

(* The time is up; the answer may have come just before the mutex was      *)
(* taken again.                                                            *)
timeout(s) ==
    /\ pc[s] \in {"asleep", "woken"}
    /\ Leave(switch_off(Resumed), s, entry[s], "no")
    /\ timed_out' = TRUE
    /\ UNCHANGED <<pos, written, replicaVars, resetting, stale, required,
                   bound, commanded>>

-----------------------------------------------------------------------------
(* Dump threads, replicas and the ack receiver.                            *)

(* A replica connects and asks for the events from a position it has seen  *)
(* on: it is counted ...                                                   *)
binlog_dump_start(r) ==
    /\ conn[r] = "off"
    /\ conn' = [conn EXCEPT ![r] = "starting"]
    /\ \E p \in Start..received[r] : cursor' = [cursor EXCEPT ![r] = p]
    /\ master' = add_slave(master)
    /\ UNCHANGED <<sessionVars, written, received, acks, historyVars,
                   bound, commanded>>

(* ... and is taken to have acknowledged everything up to that position.   *)
binlog_dump_start_ack(r) ==
    /\ conn[r] = "starting"
    /\ conn' = [conn EXCEPT ![r] = "on"]
    /\ Step(handleAck(master, r, cursor[r]), {}, "")
    /\ UNCHANGED <<pos, entry, result, written, cursor, received, acks,
                   historyVars, bound, commanded>>

(* before_send_event and after_send_event: the next transaction is sent,   *)
(* and the replica queues it and acknowledges it if asked to; or it is     *)
(* skipped because the replica has it, which counts as an acknowledgement. *)
send_event(r) ==
    LET p == cursor[r] + 1
        sync == updateSyncHeader(master, p)
    IN
    /\ conn[r] = "on"
    /\ p <= written
    /\ cursor' = [cursor EXCEPT ![r] = p]
    /\ \/ /\ p > received[r]
          /\ received' = [received EXCEPT ![r] = p]
          /\ acks' = [acks EXCEPT ![r] = IF sync THEN Append(@, p) ELSE @]
          /\ UNCHANGED <<master, pc>>
       \/ /\ p <= received[r]
          /\ Step(IF sync THEN handleAck(master, r, p) ELSE master, {}, "")
          /\ UNCHANGED <<received, acks>>
    /\ UNCHANGED <<pos, entry, result, written, conn, historyVars, bound,
                   commanded>>

(* The ack receiver reads an acknowledgement.  It is stopped after         *)
(* disableMaster, so it may still do so when semi-sync is disabled.        *)
reportReplyPacket(r) ==
    /\ acks[r] # <<>>
    /\ acks' = [acks EXCEPT ![r] = Tail(@)]
    /\ Step(handleAck(master, r, Head(acks[r])), {}, "")
    /\ UNCHANGED <<pos, entry, result, written, conn, cursor, received,
                   historyVars, bound, commanded>>

(* The connection breaks; acknowledgements on their way are lost.          *)
binlog_dump_end(r) ==
    /\ conn[r] = "on"
    /\ bound.disconnects > 0
    /\ bound' = [bound EXCEPT !.disconnects = @ - 1]
    /\ conn' = [conn EXCEPT ![r] = "off"]
    /\ acks' = [acks EXCEPT ![r] = <<>>]
    /\ Step(remove_slave(master), {}, "")
    /\ UNCHANGED <<pos, entry, result, written, cursor, received, historyVars,
                   commanded>>

-----------------------------------------------------------------------------
(* Administrative commands.                                                *)

Uninited(m) ==
    [m EXCEPT !.reply_inited = FALSE, !.wait_inited = FALSE,
              !.commit_inited = FALSE]

enableMaster(m) ==
    [Uninited(m) EXCEPT !.enabled = TRUE,
                        !.on = m.wait_no_slave \/ m.clients >= m.count]

disableMaster(m) ==
    [Uninited(switch_off(m)) EXCEPT !.container = EmptyContainer(m.count),
                                    !.enabled = FALSE]

set_wait_no_slave(m, value) ==
    LET set == [m EXCEPT !.wait_no_slave = value]
    IN  CASE ~value /\ m.clients = 0 /\ m.on -> switch_off(set)
          [] value /\ ~m.on /\ m.enabled -> [set EXCEPT !.on = TRUE]
          [] OTHER -> set

resetMaster(m) ==
    [Uninited(m) EXCEPT !.container = EmptyContainer(m.count),
                        !.wait_sessions = 0]

Command ==
    /\ bound.commands > 0
    /\ bound' = [bound EXCEPT !.commands = @ - 1]
    /\ commanded' = TRUE

(* SET GLOBAL of one of the plugin's variables, and a shutdown.            *)
SetGlobal ==
    /\ Command
    /\ \/ /\ ~master.enabled
          /\ Step(enableMaster(master), {}, "")
          /\ UNCHANGED required
       \/ /\ master.enabled
          /\ Step(disableMaster(master), {}, "")
          /\ UNCHANGED required
       \/ /\ Step(set_wait_no_slave(master, ~master.wait_no_slave), {}, "")
          /\ UNCHANGED required
       \/ \E count \in WaitCounts \ {master.count} :
             /\ Step(setWaitSlaveCount(master, count), {}, "")
             /\ required' = Min({required, count})
       \/ /\ ~master.abort_loop
          /\ Step([master EXCEPT !.abort_loop = TRUE], {}, "")
          /\ UNCHANGED required
    /\ UNCHANGED <<pos, entry, result, written, replicaVars, resetting, stale,
                   timed_out>>

(* RESET MASTER, issued while no replica is connected.  The binary log     *)
(* starts again, and so do the replicas ...                                *)
reset_logs ==
    /\ Command
    /\ \A r \in Replicas : conn[r] = "off"
    /\ ~resetting
    /\ resetting' = TRUE
    /\ written' = Start
    /\ cursor' = [r \in Replicas |-> Start]
    /\ received' = [r \in Replicas |-> Start]
    /\ UNCHANGED <<master, sessionVars, conn, acks, stale, required,
                   timed_out>>

(* ... and, without a lock in between, semi-sync is told.                  *)
after_reset_master ==
    /\ resetting
    /\ resetting' = FALSE
    /\ Step(resetMaster(master), {}, "")
    /\ stale' = {s \in Sessions : pos[s] # NoPos}
    /\ UNCHANGED <<pos, entry, result, written, replicaVars, required, timed_out,
                   bound, commanded>>

-----------------------------------------------------------------------------
(* Every transaction has been through commitTrx, and the replicas have it. *)
Finished ==
    /\ \A s \in Sessions : pc[s] = "done"
    /\ UNCHANGED vars

Next ==
    \/ \E last \in Sessions : report_binlog_update(last)
    \/ \E s \in Sessions : commitTrx(s) \/ awake(s) \/ wakeup(s) \/ timeout(s)
    \/ \E r \in Replicas :
          \/ binlog_dump_start(r) \/ binlog_dump_start_ack(r) \/ send_event(r)
          \/ reportReplyPacket(r) \/ binlog_dump_end(r)
    \/ SetGlobal
    \/ reset_logs
    \/ after_reset_master
    \/ Finished

(* A session runs when it can; a replica and its threads on the master     *)
(* reconnect, send and acknowledge when they can.  Nothing is assumed of   *)
(* time-outs, commands and new transactions.                               *)
Fairness ==
    /\ \A s \in Sessions : WF_vars(commitTrx(s) \/ wakeup(s))
    /\ \A r \in Replicas :
          WF_vars(\/ binlog_dump_start(r) \/ binlog_dump_start_ack(r)
                  \/ send_event(r) \/ reportReplyPacket(r))

Spec == Init /\ [][Next]_vars /\ Fairness

-----------------------------------------------------------------------------
(* Type invariant.  rpl_semi_sync_master_clients counts the dump threads   *)
(* of semi-sync replicas; no semi-sync is on that is not enabled.          *)
TypeOK ==
    /\ pc \in [Sessions -> {"idle", "flushed", "asleep", "woken", "done"}]
    /\ result \in [Sessions -> {"none", "yes", "no"}]
    /\ conn \in [Replicas -> {"off", "starting", "on"}]
    /\ master.clients = Cardinality({r \in Replicas : conn[r] # "off"})
    /\ master.on => master.enabled
    /\ Len(master.container.slots) = master.count - 1

(* A transaction that commitTrx counts in Rpl_semi_sync_master_yes_tx has  *)
(* been received by at least rpl_semi_sync_master_wait_for_slave_count     *)
(* replicas, through time-outs, reconnections, skipped events and changes  *)
(* of the settings.  Transactions that commit before a RESET MASTER has    *)
(* ended are left out: their positions are those of another log.           *)
YesIsReplicated ==
    \A s \in Sessions \ stale :
        result[s] = "yes" /\ ~resetting =>
            Cardinality({r \in Replicas : received[r] >= pos[s]}) >= required

(* No TranxNode is removed too early.  The one whose condition a session   *)
(* sleeps on stays in the list until the session has left: commitTrx       *)
(* dereferences it after the wait, and a broadcast finds it only there.    *)
(* The list is not empty when wait_sessions is not zero: reportReplyBinlog *)
(* then dereferences its front in signal_waiting_sessions_up_to.           *)
NodesOutliveWaiters ==
    /\ \A s \in Sessions :
          pc[s] \in {"asleep", "woken"} => entry[s] \in master.nodes
    /\ master.wait_sessions > 0 => master.nodes # {}

(* While semi-sync is on nobody sleeps for an answer that has come for     *)
(* everything written: the wait position is not the smallest one waited    *)
(* for, but the answer for the end of the log wakes every session.         *)
NoLostReply ==
    \A s \in Sessions :
        pc[s] = "asleep" /\ ~resetting /\ stale = {} =>
            ~(master.reply_inited /\ master.reply_pos >= written)

(* With nothing but acknowledgements, no time-out and no command, every    *)
(* transaction leaves commitTrx: the dump threads ask for the              *)
(* acknowledgement of the event it waits for, also if another wait began   *)
(* or ended in between.                                                    *)
AckReleases ==
    (\E s \in Sessions : pc[s] \in {"flushed", "asleep", "woken"}) ~>
        \/ \A s \in Sessions : pc[s] \in {"idle", "done"}
        \/ timed_out
        \/ commanded

=============================================================================
