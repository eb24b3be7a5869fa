------------------------- MODULE LogicalReplication ------------------------
(***************************************************************************)
(* A source that logs logical timestamps (DependencyTracker) and a replica *)
(* that applies its log in parallel (LogicalClockApplier).  The replica    *)
(* reads nothing of the source but the log, so it starts when the source   *)
(* has written it and has been shut down.                                  *)
(***************************************************************************)
EXTENDS DependencyTracker, LogicalClockApplier

vars == <<sourceVars, applierVars>>

Init ==
    /\ SourceInit
    /\ relay = <<>>
    /\ ApplierInit

(* What a Gtid_log_event carries, and the rows the transaction locks.      *)
Event(r) == [sequence_number |-> r.sequence_number, file |-> r.file,
             last_committed |-> r.last_committed, locks |-> r.locks]

(* The source is shut down: what it had in memory is gone, its log is the  *)
(* replica's relay log.                                                    *)
ship ==
    /\ relay = <<>>
    /\ Len(binlog) = load.trx
    /\ \A s \in Sessions : At(s, "idle")
    /\ relay' = [i \in 1..Len(binlog) |-> Event(binlog[i])]
    /\ ctx' = [s \in Sessions |-> IdleSession]
    /\ clock' = StartClock
    /\ history' = NoHistory /\ history_start' = 1
    /\ binlog' = <<>> /\ changes' = 0
    /\ mode' = "COMMIT_ORDER"
    /\ UNCHANGED <<load, unsmooth, coord, sub, gaq, worker, applied, gaps,
                   failures>>

Replicate == relay # <<>> /\ ApplierNext /\ UNCHANGED sourceVars

Next ==
    \/ relay = <<>> /\ SourceNext /\ UNCHANGED applierVars
    \/ ship
    \/ Replicate

(* Of the threads of the replica, one that can run does: no thread loops,  *)
(* so nothing is asked of a single thread.                                 *)
Spec == Init /\ [][Next]_vars /\ WF_vars(Replicate)

-----------------------------------------------------------------------------
(* The types of the variables of the source and of the replica.            *)
TypeOK ==
    /\ \A s \in Sessions : ctx[s].kind \in load.kinds \cup {NoKind}
    /\ clock.max_committed <= clock.counter /\ clock.offset <= clock.counter
    /\ coord.next \in 1..Len(relay) + 1
    /\ gaq.entry \in 0..GaqSize - 1 /\ gaq.len \in 0..GaqSize
    /\ sub.last_lwm_index \in 0..GaqSize
    /\ sub.min_waited_timestamp # UNINIT <=>
          coord.pc \in {"scan", "waiting", "woken"}
    /\ applied \subseteq 1..Len(relay)

(* Transactions that lock a common row are applied by the replica one      *)
(* after the other, in the order of the source's log, also when the mode   *)
(* has changed between the flush and the commit of a transaction: the      *)
(* comment in update_binlog_transaction_dependency_tracking says that the  *)
(* start of the history is set "so that WS and COMMIT transition           *)
(* smoothly".                                                              *)
SmoothTransition ==
    \A w \in Workers : \A i \in 1..worker[w].trx - 1 :
        /\ worker[w].pc = "running"
        /\ relay[i].locks \cap relay[worker[w].trx].locks # {}
        => i \in applied

(* The same, leaving out such changes: what the timestamps of the source   *)
(* and the scheduling of the replica promise together.                     *)
ConflictsAreSerialized == ~unsmooth => SmoothTransition

(* The replica never finds the timestamps of the source inconsistent       *)
(* (ER_MTS_CANT_PARALLEL): it stops only when a transaction fails.         *)
TimestampsAreConsistent == coord.pc = "stopped" => failures > 0

=============================================================================
