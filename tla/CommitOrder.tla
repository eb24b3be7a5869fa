---------------------------- MODULE CommitOrder ----------------------------
(***************************************************************************)
(* slave_preserve_commit_order on a multi-threaded replica: the commit     *)
(* order queue (sql/rpl_slave_commit_order_manager.cc and .h), the worker  *)
(* threads that apply transactions and retry them (sql/rpl_rli_pdb.cc),    *)
(* the coordinator that registers a transaction when it dispatches it      *)
(* (sql/rpl_mts_submode.cc), the enrolment in the binary log's flush queue *)
(* (sql/binlog.cc) and the one contended row of the storage engine whose   *)
(* lock queue makes an order-commit deadlock possible (lock0lock.cc).      *)
(*                                                                         *)
(* m_mutex is held only inside one action, so it is not a variable.  A     *)
(* transaction is its position in the relay log.                           *)
(***************************************************************************)
EXTENDS Naturals, Sequences

CONSTANTS
    Workers,      \* the worker threads
    NTrx,         \* bound: transactions 1..NTrx are in the relay log
    RowTrx,       \* the transactions that lock the contended row
    EmptyTrx,     \* the transactions that end with nothing to binlog
    TransRetries, \* slave_transaction_retries
    KillAllowed   \* whether a user may KILL a worker thread

ASSUME NTrxAssumption == NTrx \in Nat
ASSUME RetriesAssumption == TransRetries \in Nat
ASSUME KillAssumption == KillAllowed \in BOOLEAN

VARIABLES
    queue,     \* commit order queue: the list queue_head .. queue_tail
    status,    \* m_workers[w].status
    rollback,  \* m_rollback_trx
    deadlock,  \* Slave_worker::m_order_commit_deadlock
    pc,        \* where each worker thread is
    why,       \* the caller of wait_for_its_turn
    trx,       \* the transaction a worker was last registered for
    retries,   \* Slave_worker::trans_retries
    killed,    \* thd->killed
    next,      \* the next transaction the coordinator dispatches
    coord,     \* the coordinator: "running" or "stopped"
    partial,   \* the worker whose last group was not dispatched completely
    rowq,      \* lock queue of the row: its head holds the lock
    outcome,   \* what became of a transaction
    enrolled   \* transactions in the order they entered the flush queue

managerVars == <<queue, status, rollback>>
coordVars == <<next, coord, partial>>
vars == <<managerVars, deadlock, pc, why, trx, retries, killed, coordVars,
          rowq, outcome, enrolled>>

None == "none"
Trxs == 1..NTrx
Statuses == {"OCS_WAIT", "OCS_SIGNAL", "OCS_FINISH"}
Reasons == {"commit", "report_commit", "report_rollback"}
Locations == {"idle", "apply", "lockwait", "retry", "clean", "turn", "wait",
              "signal", "stopped", "return", "enroll", "unregister",
              "engine_commit", "ends_group", "leaving", "exited"}

Init ==
    /\ queue = <<>>
    /\ status = [w \in Workers |-> "OCS_FINISH"]
    /\ rollback = FALSE
    /\ deadlock = [w \in Workers |-> FALSE]
    /\ pc = [w \in Workers |-> "idle"]
    /\ why = [w \in Workers |-> "commit"]
    /\ trx = [w \in Workers |-> 0]
    /\ retries = [w \in Workers |-> 0]
    /\ killed = [w \in Workers |-> FALSE]
    /\ next = 1
    /\ coord = "running"
    /\ partial = None
    /\ rowq = <<>>
    /\ outcome = [t \in Trxs |-> None]
    /\ enrolled = <<>>

-----------------------------------------------------------------------------
(* The queue of Commit_order_manager.  It is linked through                *)
(* m_workers[].next; pushing a worker that is still linked ends the list   *)
(* at that worker.                                                         *)

Contains(q, w) == \E i \in 1..Len(q) : q[i] = w

queue_front(w) == queue # <<>> /\ Head(queue) = w

Position(q, w) == CHOOSE i \in 1..Len(q) : q[i] = w

(* Mutant: the new worker is linked in front of the head.                  *)
queue_push_at_head(q, w) == <<w>> \o q

queue_push(q, w) ==
    IF Contains(q, w) THEN SubSeq(q, 1, Position(q, w)) ELSE Append(q, w)

Goto(w, l) == pc' = [pc EXCEPT ![w] = l]

register_trx(w) ==
    /\ status' = [status EXCEPT ![w] = "OCS_WAIT"]
    /\ queue' = queue_push(queue, w)

(* A worker that has left with an error takes no jobs: the coordinator     *)
(* ends.                                                                   *)
append_item_to_jobs(w) ==
    IF pc[w] = "idle"
    THEN /\ Goto(w, "apply")
         /\ retries' = [retries EXCEPT ![w] = 0]
         /\ UNCHANGED coord
    ELSE /\ coord' = "stopped"
         /\ UNCHANGED <<pc, retries>>

(* The coordinator registers the next transaction for a worker with no     *)
(* jobs, which a worker that has left is as well, and dispatches it.       *)
get_least_occupied_worker(w) ==
    /\ coord = "running"
    /\ next \in Trxs
    /\ pc[w] \in {"idle", "exited"}
    /\ register_trx(w)
    /\ trx' = [trx EXCEPT ![w] = next]
    /\ next' = next + 1
    /\ append_item_to_jobs(w)
    /\ UNCHANGED <<rollback, deadlock, why, killed, partial, rowq, outcome,
                   enrolled>>

(* The coordinator ends: STOP SLAVE, or it was killed by a worker that     *)
(* leaves.  The last group may not have been dispatched to its end.        *)
StopCoordinator ==
    /\ coord = "running"
    /\ coord' = "stopped"
    /\ \/ partial' = None
       \/ \E w \in Workers :
            /\ pc[w] \in {"apply", "lockwait"}
            /\ trx[w] = next - 1
            /\ partial' = w
    /\ UNCHANGED <<managerVars, deadlock, pc, why, trx, retries, killed, next,
                   rowq, outcome, enrolled>>

-----------------------------------------------------------------------------
(* The row lock.  A request that must wait reports the worker that holds   *)
(* the lock, and only that one.                                            *)

Held(w) == rowq # <<>> /\ Head(rowq) = w

(* Waking a worker that sleeps on its condition variable.                  *)
Woken(f, w) == [f EXCEPT ![w] = IF @ = "wait" THEN "turn" ELSE @]

RemoveAt(q, p) == [i \in 1..(Len(q) - 1) |-> IF i < p THEN q[i] ELSE q[i + 1]]

RowReleased(w) ==
    IF Contains(rowq, w) THEN RemoveAt(rowq, Position(rowq, w)) ELSE rowq

(* The pc function f after w gave up its lock or its lock request.         *)
Granted(f, w) ==
    LET q == RowReleased(w)
    IN  [v \in Workers |-> IF q # <<>> /\ v = Head(q) /\ f[v] = "lockwait"
                           THEN "apply" ELSE f[v]]

add_to_waitq(w) ==
    /\ pc[w] = "apply"
    /\ trx[w] \in RowTrx
    /\ ~Held(w)
    /\ rowq' = Append(rowq, w)
    /\ IF rowq = <<>>
       THEN UNCHANGED <<pc, deadlock>>
       ELSE LET h == Head(rowq)                    \* wait_for->trx
                report == trx[h] > trx[w]          \* report_deadlock(h)
            IN  /\ deadlock' = [deadlock EXCEPT ![h] = @ \/ report]
                /\ pc' = [(IF report THEN Woken(pc, h) ELSE pc)
                            EXCEPT ![w] = "lockwait"]
    /\ UNCHANGED <<managerVars, why, trx, retries, killed, coordVars, outcome,
                   enrolled>>

-----------------------------------------------------------------------------
(* Errors and retries.                                                     *)

(* Mutant: the number of retries is compared with <= and not with <.       *)
retry_transaction_once_more(w, error) ==
    LET retry == error = "temporary" /\ retries[w] <= TransRetries
    IN  /\ rowq' = RowReleased(w)
        /\ pc' = Granted([pc EXCEPT ![w] = IF retry THEN "retry" ELSE "clean"],
                         w)
        /\ retries' = [retries EXCEPT ![w] = IF retry THEN @ + 1 ELSE @]
        /\ UNCHANGED <<managerVars, deadlock, why, trx, killed, coordVars,
                       outcome, enrolled>>

(* retry_transaction: decide whether to retry, roll the transaction back   *)
(* (cleanup_context), and leave to clean() the reset of the deadlock flag. *)
retry_transaction(w, error) ==
    LET retry == error = "temporary" /\ retries[w] < TransRetries
    IN  /\ rowq' = RowReleased(w)
        /\ pc' = Granted([pc EXCEPT ![w] = IF retry THEN "retry" ELSE "clean"],
                         w)
        /\ retries' = [retries EXCEPT ![w] = IF retry THEN @ + 1 ELSE @]
        /\ UNCHANGED <<managerVars, deadlock, why, trx, killed, coordVars,
                       outcome, enrolled>>

(* An event fails: a lock wait timeout is temporary, other errors and a    *)
(* kill that interrupts a lock wait are not.                               *)
slave_worker_exec_event(w) ==
    \/ /\ pc[w] = "lockwait"
       /\ retry_transaction(w, IF killed[w] THEN "fatal" ELSE "temporary")
    \/ /\ pc[w] = "apply"
       /\ retry_transaction(w, "fatal")

(* An event succeeded and the deadlock flag is found set.                  *)
found_order_commit_deadlock(w) ==
    /\ pc[w] = "apply"
    /\ deadlock[w]
    /\ retry_transaction(w, "temporary")

(* The callers of wait_for_its_turn: it does nothing unless OCS_WAIT.      *)
EnterTurn(w, reason) ==
    /\ why' = [why EXCEPT ![w] = reason]
    /\ Goto(w, IF status[w] = "OCS_WAIT" THEN "turn" ELSE "return")

(* Retry_context_sentry::clean, second half: the flag is reset without     *)
(* m_mutex.  Then the transaction is applied again, or the worker leaves   *)
(* through slave_worker_ends_group and report_rollback.                    *)
clean(w) ==
    /\ pc[w] \in {"retry", "clean"}
    /\ deadlock' = [deadlock EXCEPT ![w] = FALSE]
    /\ IF pc[w] = "retry" THEN Goto(w, "apply") /\ UNCHANGED why
                          ELSE EnterTurn(w, "report_rollback")
    /\ UNCHANGED <<managerVars, trx, retries, killed, coordVars, rowq, outcome,
                   enrolled>>

-----------------------------------------------------------------------------
(* wait_for_its_turn and its callers.                                      *)

(* ordered_commit of the transaction; once m_rollback_trx is set the       *)
(* commit of a statement inside it waits as well.                          *)
ordered_commit(w) ==
    /\ pc[w] = "apply"
    /\ \/ rollback
       \/ /\ trx[w] \in RowTrx => Held(w)
          /\ trx[w] \notin EmptyTrx
          /\ partial # w
    /\ EnterTurn(w, "commit")
    /\ UNCHANGED <<managerVars, deadlock, trx, retries, killed, coordVars,
                   rowq, outcome, enrolled>>

(* A transaction with nothing to binlog commits in the engine at once.     *)
CommitEmpty(w) ==
    /\ pc[w] = "apply"
    /\ trx[w] \in EmptyTrx
    /\ trx[w] \in RowTrx => Held(w)
    /\ partial # w
    /\ rowq' = RowReleased(w)
    /\ pc' = Granted([pc EXCEPT ![w] = "ends_group"], w)
    /\ outcome' = [outcome EXCEPT ![trx[w]] = "empty"]
    /\ UNCHANGED <<managerVars, deadlock, why, trx, retries, killed, coordVars,
                   enrolled>>

(* Mutant: ordered_commit ignores a deadlock reported while it waited.     *)
wait_for_its_turn_deadlock_commits(w) ==
    /\ pc[w] = "turn"
    /\ IF queue_front(w)     THEN Goto(w, "signal")
       ELSE IF ~deadlock[w]  THEN Goto(w, "wait")
       ELSE Goto(w, "return")
    /\ UNCHANGED <<managerVars, deadlock, why, trx, retries, killed, coordVars,
                   rowq, outcome, enrolled>>

(* One turn of the loop under m_mutex: leave it at the front of the queue, *)
(* leave it because of the deadlock flag, or sleep.                        *)
wait_for_its_turn(w) ==
    /\ pc[w] = "turn"
    /\ IF queue_front(w)     THEN Goto(w, "signal")
       ELSE IF ~deadlock[w]  THEN Goto(w, "wait")
       ELSE why[w] # "commit" /\ Goto(w, "return")
    /\ UNCHANGED <<managerVars, deadlock, why, trx, retries, killed, coordVars,
                   rowq, outcome, enrolled>>

(* The loop left with ER_LOCK_DEADLOCK in ordered_commit: the worker       *)
(* retries.                                                                *)
OrderCommitDeadlock(w) ==
    /\ pc[w] = "turn"
    /\ ~queue_front(w)
    /\ deadlock[w]
    /\ why[w] = "commit"
    /\ retry_transaction(w, "temporary")

(* After the loop, without m_mutex.                                        *)
SetSignal(w) ==
    /\ pc[w] = "signal"
    /\ status' = [status EXCEPT ![w] = "OCS_SIGNAL"]
    /\ Goto(w, IF rollback THEN "stopped" ELSE "return")
    /\ UNCHANGED <<queue, rollback, deadlock, why, trx, retries, killed,
                   coordVars, rowq, outcome, enrolled>>

(* Where a worker goes after unregister_trx: back into wait_for_its_turn,  *)
(* on with ordered_commit, to the next group, or out.                      *)
AfterUnregister(w) ==
    IF pc[w] = "stopped" THEN "return"
    ELSE CASE why[w] = "commit"          -> "engine_commit"
           [] why[w] = "report_commit"   -> "idle"
           [] why[w] = "report_rollback" -> "leaving"

(* Mutant: the worker is unlinked and its status is not reset.             *)
unregister_trx_no_reset(w) ==
    /\ pc[w] \in {"stopped", "unregister"}
    /\ IF status[w] = "OCS_SIGNAL"
       THEN /\ queue' = Tail(queue)
            /\ LET p == [pc EXCEPT ![w] = AfterUnregister(w)]
               IN  pc' = IF queue' = <<>> THEN p ELSE Woken(p, Head(queue'))
       ELSE /\ Goto(w, AfterUnregister(w))
            /\ UNCHANGED queue
    /\ UNCHANGED <<status, rollback, deadlock, why, trx, retries, killed,
                   coordVars, rowq, outcome, enrolled>>

(* Mutant: the status is reset and the worker stays linked.                *)
unregister_trx_no_pop(w) ==
    /\ pc[w] \in {"stopped", "unregister"}
    /\ status' = [status EXCEPT ![w] = "OCS_FINISH"]
    /\ Goto(w, AfterUnregister(w))
    /\ UNCHANGED <<queue, rollback, deadlock, why, trx, retries, killed,
                   coordVars, rowq, outcome, enrolled>>

(* Mutant: the next worker in the queue is not signalled.                  *)
unregister_trx_no_signal(w) ==
    /\ pc[w] \in {"stopped", "unregister"}
    /\ IF status[w] = "OCS_SIGNAL"
       THEN /\ queue' = Tail(queue)
            /\ status' = [status EXCEPT ![w] = "OCS_FINISH"]
       ELSE UNCHANGED <<queue, status>>
    /\ Goto(w, AfterUnregister(w))
    /\ UNCHANGED <<rollback, deadlock, why, trx, retries, killed, coordVars,
                   rowq, outcome, enrolled>>

unregister_trx(w) ==
    /\ pc[w] \in {"stopped", "unregister"}
    /\ IF status[w] = "OCS_SIGNAL"
       THEN /\ queue' = Tail(queue)
            /\ status' = [status EXCEPT ![w] = "OCS_FINISH"]
            /\ LET p == [pc EXCEPT ![w] = AfterUnregister(w)]
               IN  pc' = IF queue' = <<>> THEN p ELSE Woken(p, Head(queue'))
       ELSE /\ Goto(w, AfterUnregister(w))
            /\ UNCHANGED <<queue, status>>
    /\ UNCHANGED <<rollback, deadlock, why, trx, retries, killed, coordVars,
                   rowq, outcome, enrolled>>

(* wait_for_its_turn has returned m_rollback_trx.  ordered_commit gives up *)
(* with an error that is not temporary or goes on to the flush stage;      *)
(* report_commit ignores the result; report_rollback sets m_rollback_trx.  *)
ReturnToCommit(w) ==
    /\ pc[w] = "return"
    /\ why[w] = "commit"
    /\ IF rollback
       THEN retry_transaction(w, "fatal")
       ELSE /\ Goto(w, "enroll")
            /\ UNCHANGED <<managerVars, deadlock, why, trx, retries, killed,
                           coordVars, rowq, outcome, enrolled>>

report_commit(w) ==
    /\ pc[w] = "return"
    /\ why[w] = "report_commit"
    /\ Goto(w, "unregister")
    /\ UNCHANGED <<managerVars, deadlock, why, trx, retries, killed, coordVars,
                   rowq, outcome, enrolled>>

report_rollback(w) ==
    /\ pc[w] = "return"
    /\ why[w] = "report_rollback"
    /\ rollback' = TRUE
    /\ Goto(w, "unregister")
    /\ UNCHANGED <<queue, status, deadlock, why, trx, retries, killed,
                   coordVars, rowq, outcome, enrolled>>

(* Stage_manager::enroll_for appends to the flush queue and unregisters    *)
(* only then.                                                              *)
enroll_for(w) ==
    /\ pc[w] = "enroll"
    /\ enrolled' = Append(enrolled, trx[w])
    /\ outcome' = [outcome EXCEPT ![trx[w]] = "binlogged"]
    /\ Goto(w, "unregister")
    /\ UNCHANGED <<managerVars, deadlock, why, trx, retries, killed, coordVars,
                   rowq>>

(* The group leader commits the transaction in the engine.                 *)
EngineCommit(w) ==
    /\ pc[w] = "engine_commit"
    /\ rowq' = RowReleased(w)
    /\ pc' = Granted([pc EXCEPT ![w] = "ends_group"], w)
    /\ UNCHANGED <<managerVars, deadlock, why, trx, retries, killed, coordVars,
                   outcome, enrolled>>

(* Mutant: report_commit is not called for a group that was not binlogged. *)
slave_worker_ends_group_silently(w) ==
    /\ pc[w] = "ends_group"
    /\ IF deadlock[w]
       THEN retry_transaction(w, "temporary")
       ELSE /\ Goto(w, "idle")
            /\ UNCHANGED <<managerVars, deadlock, why, trx, retries, killed,
                           coordVars, rowq, outcome, enrolled>>

(* The last event succeeded.  A deadlock flag found now makes the worker   *)
(* retry; otherwise slave_worker_ends_group calls report_commit.           *)
slave_worker_ends_group(w) ==
    /\ pc[w] = "ends_group"
    /\ IF deadlock[w]
       THEN retry_transaction(w, "temporary")
       ELSE /\ EnterTurn(w, "report_commit")
            /\ UNCHANGED <<managerVars, deadlock, trx, retries, killed,
                           coordVars, rowq, outcome, enrolled>>

-----------------------------------------------------------------------------
(* Workers that leave.                                                     *)

Leave(w) ==
    /\ rowq' = RowReleased(w)
    /\ pc' = Granted([pc EXCEPT ![w] = "exited"], w)
    /\ UNCHANGED <<managerVars, deadlock, why, trx, retries, killed, coordVars,
                   outcome, enrolled>>

(* After report_rollback the thread ends; its transaction is rolled back   *)
(* here if it has not been before.                                         *)
handle_slave_worker(w) == pc[w] = "leaving" /\ Leave(w)

(* handle_slave_worker_stop: with no event at hand a worker accepts the    *)
(* STOP and leaves without report_rollback.                                *)
handle_slave_worker_stop(w) ==
    /\ coord = "stopped"
    /\ pc[w] = "idle" \/ (pc[w] = "apply" /\ partial = w)
    /\ Leave(w)

Kill(w) ==
    /\ KillAllowed
    /\ pc[w] # "exited"
    /\ ~killed[w]
    /\ killed' = [killed EXCEPT ![w] = TRUE]
    /\ UNCHANGED <<managerVars, deadlock, pc, why, trx, retries, coordVars,
                   rowq, outcome, enrolled>>

(* slave_worker_exec_job_group sees thd->killed before the next event and  *)
(* goes to slave_worker_ends_group without rolling back first.             *)
KilledBetweenEvents(w) ==
    /\ killed[w]
    /\ pc[w] \in {"idle", "apply"}
    /\ EnterTurn(w, "report_rollback")
    /\ UNCHANGED <<managerVars, deadlock, trx, retries, killed, coordVars,
                   rowq, outcome, enrolled>>

-----------------------------------------------------------------------------
WorkerStep(w) ==
    \/ add_to_waitq(w)
    \/ slave_worker_exec_event(w)
    \/ found_order_commit_deadlock(w)
    \/ clean(w)
    \/ ordered_commit(w)
    \/ CommitEmpty(w)
    \/ wait_for_its_turn(w)
    \/ OrderCommitDeadlock(w)
    \/ SetSignal(w)
    \/ unregister_trx(w)
    \/ ReturnToCommit(w)
    \/ report_commit(w)
    \/ report_rollback(w)
    \/ enroll_for(w)
    \/ EngineCommit(w)
    \/ slave_worker_ends_group(w)
    \/ handle_slave_worker(w)
    \/ handle_slave_worker_stop(w)
    \/ KilledBetweenEvents(w)

Finished ==
    /\ \A w \in Workers : pc[w] \in {"idle", "exited"}
    /\ coord = "running" => next \notin Trxs

(* Nothing is left to do; the threads only wait.                           *)
Rest == Finished /\ UNCHANGED vars

Next ==
    \/ \E w \in Workers : get_least_occupied_worker(w) \/ WorkerStep(w) \/ Kill(w)
    \/ StopCoordinator
    \/ Rest

(* A thread that can run does: the operating system schedules it, and a    *)
(* row lock wait ends at the latest with innodb_lock_wait_timeout.         *)
Fairness == \A w \in Workers : WF_vars(WorkerStep(w))

Spec == Init /\ [][Next]_vars /\ Fairness

-----------------------------------------------------------------------------
(* Every variable has its type; in particular trans_retries never exceeds  *)
(* slave_transaction_retries, and the queue links only worker ids.         *)
TypeOK ==
    /\ queue \in Seq(Workers)
    /\ status \in [Workers -> Statuses]
    /\ rollback \in BOOLEAN
    /\ deadlock \in [Workers -> BOOLEAN]
    /\ pc \in [Workers -> Locations]
    /\ why \in [Workers -> Reasons]
    /\ trx \in [Workers -> 0..NTrx]
    /\ retries \in [Workers -> 0..TransRetries]
    /\ killed \in [Workers -> BOOLEAN]
    /\ next \in 1..(NTrx + 1)
    /\ coord \in {"running", "stopped"}
    /\ partial \in Workers \cup {None}
    /\ rowq \in Seq(Workers)
    /\ outcome \in [Trxs -> {None, "binlogged", "empty"}]
    /\ enrolled \in Seq(Trxs)

(* slave_preserve_commit_order: a transaction enters the binary log's      *)
(* flush queue (enroll_for) at most once, and only after every transaction *)
(* that precedes it in the relay log has entered it or had nothing to      *)
(* binlog, whatever deadlocks, retries, errors and kills happened.         *)
OrderPreserved ==
    \A i \in 1..Len(enrolled) :
        /\ \A j \in 1..(i - 1) : enrolled[j] < enrolled[i]
        /\ \A u \in 1..(enrolled[i] - 1) : outcome[u] # None

(* wait_for_its_turn sets OCS_SIGNAL and unregister_trx pops the head      *)
(* without checking whose entry it is: sound because the worker whose turn *)
(* it is stays at the front of the queue until it unregisters.             *)
TurnIsFront ==
    \A w \in Workers :
        pc[w] = "signal" \/ status[w] = "OCS_SIGNAL" => queue_front(w)

(* The list linked through m_workers[].next holds the registered workers   *)
(* in the order in which the coordinator dispatched their transactions.    *)
QueueInDispatchOrder ==
    \A i, j \in 1..Len(queue) : i < j => trx[queue[i]] < trx[queue[j]]

(* register_trx is never called for a worker that is still linked, which   *)
(* would cut the list behind it: get_free_worker's test of an empty job    *)
(* queue implies that the previous group has been unregistered.            *)
NoDoubleRegistration ==
    [][\A w \in Workers : get_least_occupied_worker(w) => ~Contains(queue, w)]_vars

(* A worker that sleeps on its condition variable has a reason to: it is   *)
(* not at the front of the queue and no order-commit deadlock has been     *)
(* reported to it, so no signal of unregister_trx or report_deadlock was   *)
(* lost.                                                                   *)
NoLostWakeup ==
    \A w \in Workers : pc[w] = "wait" => ~queue_front(w) /\ ~deadlock[w]

(* Every group a worker starts, it finishes or leaves: no worker stays in  *)
(* wait_for_its_turn or in a row lock wait for ever.                       *)
GroupEnds ==
    \A w \in Workers :
        pc[w] \notin {"idle", "exited"} ~> pc[w] \in {"idle", "exited"}

(* What the source says and a run refutes.                                 *)

(* report_rollback is to "wait its turn to rollback", and unregister_trx   *)
(* to "unregister the transaction from the commit order queue and signal   *)
(* the next one": a worker that leaves is no longer linked.                *)
LeaverIsUnregistered ==
    [][\A w \in Workers : pc[w] = "unregister" /\ pc'[w] = "leaving"
            => ~Contains(queue', w)]_vars
=============================================================================
