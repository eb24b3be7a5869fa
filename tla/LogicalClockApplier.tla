------------------------ MODULE LogicalClockApplier ------------------------
(***************************************************************************)
(* The multi-threaded applier with slave_parallel_type=LOGICAL_CLOCK       *)
(* (Mts_submode_logical_clock in sql/rpl_mts_submode.cc).  The coordinator *)
(* reads the relay log, puts each transaction into the queue of assigned   *)
(* groups (GAQ) and gives it to a free worker when the transactions it     *)
(* depends on are done, which it learns from the low-water mark: a         *)
(* timestamp below which all is done.  The mark is cached and is advanced  *)
(* by the coordinator and by the workers.                                  *)
(*                                                                         *)
(* A worker sets "done" and then reads min_waited_timestamp, without       *)
(* mts_gaq_LOCK; the coordinator stores min_waited_timestamp and then      *)
(* reads "done", holding it.  The atomic accesses are taken to be          *)
(* sequentially consistent.  A section under the lock is one step, except  *)
(* that the coordinator's is split there: it holds the lock at "scan".     *)
(***************************************************************************)
EXTENDS Integers, Sequences, FiniteSets, FiniteSetsExt

CONSTANTS
    NWorkers,
    GaqSize,
    MaxGaps,     \* bound: transactions missing from the relay log
    MaxFailures  \* bound: transactions that fail

ASSUME ApplierAssumption ==
    /\ {NWorkers, GaqSize} \subseteq Nat \ {0}
    /\ {MaxGaps, MaxFailures} \subseteq Nat

VARIABLES
    relay,      \* the transactions of the source, in log order
    coord,      \* the coordinator: where it is, and what it reads
    sub,        \* the members of Mts_submode_logical_clock
    gaq,        \* the circular queue of groups
    worker,     \* each worker
    applied,    \* history: the transactions done
    gaps,
    failures

applierVars == <<relay, coord, sub, gaq, worker, applied, gaps, failures>>

Workers == 1..NWorkers

UNINIT == 0

(* Slave_job_group: trx is the position in the relay log.                  *)
NoGroup == [trx |-> 0, sequence_number |-> UNINIT, assigned |-> FALSE,
            done |-> FALSE]

ApplierInit ==
    /\ coord = [pc |-> "read", next |-> 1, file |-> 1, killed |-> FALSE]
    /\ sub = [first_event |-> TRUE, force_new_group |-> FALSE,
              sequence_number |-> UNINIT, last_lwm_timestamp |-> UNINIT,
              last_lwm_index |-> GaqSize, min_waited_timestamp |-> UNINIT,
              delegated_jobs |-> 0, jobs_done |-> 0, is_error |-> FALSE]
    /\ gaq = [item |-> [i \in 0..GaqSize - 1 |-> NoGroup], entry |-> 0,
              len |-> 0, assigned_group_index |-> 0, lwm |-> UNINIT]
    /\ worker = [w \in Workers |-> [pc |-> "idle", index |-> 0, trx |-> 0]]
    /\ applied = {}
    /\ gaps = 0
    /\ failures = 0

-----------------------------------------------------------------------------
(* Mutant of clock_leq: an undefined mark is above everything.             *)
clock_leq_undefined(a, b) == UNINIT \in {a, b} \/ a <= b

clock_leq(a, b) ==
    \/ a = UNINIT
    \/ b # UNINIT /\ a <= b

(* The index k places after the head, and how far an index is from it.     *)
Slot(k) == (gaq.entry + k) % GaqSize

Distance(i) == (i + GaqSize - gaq.entry) % GaqSize

Running(i) == gaq.len > 0 /\ i \in 0..GaqSize - 1 /\ Distance(i) < gaq.len

(* Mutants of find_lwm: the scan does not stop at a group that is not      *)
(* done, or returns the index after the one it means.                      *)
find_lwm_skips(start) ==
    LET ends == {k \in Distance(start)..gaq.len - 1 : gaq.item[Slot(k)].done}
    IN  IF ends = {} THEN GaqSize ELSE Slot(Max(ends))

find_lwm_one_more(start) ==
    LET ends == {k \in Distance(start)..gaq.len - 1 :
                   \A j \in Distance(start)..k : gaq.item[Slot(j)].done}
    IN  IF ends = {} THEN GaqSize ELSE Slot(Max(ends) + 1)

(* Slave_committed_queue::find_lwm: the last of the done groups that       *)
(* follow one another from start, or GaqSize.                              *)
find_lwm(start) ==
    IF gaq.len = 0 THEN GaqSize
    ELSE LET ends == {k \in Distance(start)..gaq.len - 1 :
                        \A j \in Distance(start)..k : gaq.item[Slot(j)].done}
         IN  IF ends = {} THEN GaqSize ELSE Slot(Max(ends))

(* Mts_submode_logical_clock::get_lwm_timestamp: sub with the mark moved.  *)
get_lwm_timestamp ==
    LET is_stale == /\ gaq.lwm # UNINIT
                    /\ clock_leq(sub.last_lwm_timestamp, gaq.lwm)
        start == IF gaq.lwm = UNINIT \/ is_stale THEN gaq.entry
                                                 ELSE sub.last_lwm_index
        index == find_lwm(start)
    IN  [sub EXCEPT !.last_lwm_index = index,
                    !.last_lwm_timestamp =
                        IF index # GaqSize
                        THEN gaq.item[index].sequence_number
                        ELSE IF is_stale THEN gaq.lwm ELSE @]

Unlocked == coord.pc # "scan"

-----------------------------------------------------------------------------
(* The coordinator.                                                        *)

(* mts_checkpoint_routine, called when an event is read and in the loop of *)
(* wait_for_workers_to_finish: move_queue_head removes the done groups at  *)
(* the head and remembers the last of them.                                *)
move_queue_head ==
    LET cnt == Max({k \in 0..gaq.len :
                      \A j \in 0..k - 1 : gaq.item[Slot(j)].assigned
                                          /\ gaq.item[Slot(j)].done})
    IN  [count |-> cnt,
         queue |-> [gaq EXCEPT !.entry = Slot(cnt), !.len = @ - cnt,
                       !.lwm = IF cnt = 0 THEN @
                               ELSE gaq.item[Slot(cnt - 1)].sequence_number]]

mts_checkpoint_routine ==
    /\ \/ coord.pc = "read"
       \/ /\ coord.pc \in {"sync_group", "sync_rotate"}
          /\ sub.delegated_jobs > sub.jobs_done
          /\ ~coord.killed /\ ~sub.is_error
    /\ move_queue_head.count > 0
    /\ gaq' = move_queue_head.queue
    /\ sub' = [sub EXCEPT !.jobs_done = @ + move_queue_head.count]
    /\ UNCHANGED <<relay, coord, worker, applied, gaps, failures>>

AtEnd == coord.next > Len(relay)

(* The transaction is not in the relay log: it was filtered out, or had    *)
(* already been applied when replication with auto-positioning began.      *)
skip ==
    /\ coord.pc = "read" /\ ~coord.killed
    /\ ~AtEnd
    /\ relay[coord.next].file = coord.file
    /\ gaps < MaxGaps
    /\ gaps' = gaps + 1
    /\ applied' = applied \cup {coord.next}
    /\ coord' = [coord EXCEPT !.next = @ + 1]
    /\ UNCHANGED <<relay, sub, gaq, worker, failures>>

(* A Rotate event of the source is applied by the coordinator when the     *)
(* workers have finished.                                                  *)
read_rotate ==
    /\ coord.pc = "read" /\ ~coord.killed
    /\ ~AtEnd
    /\ relay[coord.next].file # coord.file
    /\ coord' = [coord EXCEPT !.pc = "sync_rotate"]
    /\ UNCHANGED <<relay, sub, gaq, worker, applied, gaps, failures>>

(* get_slave_worker enqueues the group and schedule_next_event decides     *)
(* whether it starts a new group, may have to wait, or may run.            *)
schedule_next_event ==
    LET trx == relay[coord.next]
        last == sub.sequence_number
        index == Slot(gaq.len)
        inconsistent == /\ ~sub.first_event
                        /\ \/ /\ clock_leq(trx.sequence_number, trx.last_committed)
                              /\ trx.last_committed # UNINIT
                           \/ clock_leq(trx.sequence_number, last)
        gap_successor == ~sub.first_event /\ trx.sequence_number > last + 1
        is_new_group == \/ sub.force_new_group
                        \/ trx.last_committed = UNINIT
                        \/ gap_successor
                        \/ last = UNINIT
        waits == /\ ~clock_leq(trx.last_committed, sub.last_lwm_timestamp)
                 /\ gaq.len > 0
    IN
    /\ coord.pc = "read" /\ ~coord.killed
    /\ ~AtEnd
    /\ trx.file = coord.file
    /\ gaq.len < GaqSize
    /\ gaq' = [gaq EXCEPT !.len = @ + 1, !.assigned_group_index = index,
                 !.item[index] = [trx |-> coord.next, assigned |-> FALSE,
                                  done |-> FALSE,
                                  sequence_number |-> trx.sequence_number]]
    /\ coord' = [coord EXCEPT !.pc = IF inconsistent THEN "stopped"
                                     ELSE IF is_new_group THEN "sync_group"
                                     ELSE IF waits THEN "store" ELSE "assign"]
    /\ sub' = [sub EXCEPT !.sequence_number = trx.sequence_number,
                          !.first_event = FALSE,
                          !.delegated_jobs =
                              IF inconsistent \/ is_new_group \/ waits
                              THEN @ ELSE @ + 1]
    /\ UNCHANGED <<relay, worker, applied, gaps, failures>>

Stopping == coord.killed \/ sub.is_error

(* wait_for_last_committed_trx, up to the scan: the lock is taken.         *)
store_min_waited ==
    /\ coord.pc = "store"
    /\ sub' = [sub EXCEPT !.min_waited_timestamp =
                              relay[coord.next].last_committed]
    /\ coord' = [coord EXCEPT !.pc = "scan"]
    /\ UNCHANGED <<relay, gaq, worker, applied, gaps, failures>>

(* Mutant of StopWaiting: min_waited_timestamp is not reset.               *)
StopWaiting_kept(s) ==
    sub' = [s EXCEPT !.delegated_jobs = IF Stopping THEN @ ELSE @ + 1]

(* The transaction may run: the lock is released.                          *)
StopWaiting(s) ==
    sub' = [s EXCEPT !.min_waited_timestamp = UNINIT,
                     !.delegated_jobs = IF Stopping THEN @ ELSE @ + 1]

scan_and_wait ==
    LET s == IF Stopping THEN sub ELSE get_lwm_timestamp
        ready == clock_leq(relay[coord.next].last_committed, s.last_lwm_timestamp)
    IN
    /\ coord.pc = "scan"
    /\ coord' = [coord EXCEPT !.pc = IF Stopping THEN "stopped"
                                     ELSE IF ready THEN "assign" ELSE "waiting"]
    /\ IF Stopping \/ ready THEN StopWaiting(s) ELSE sub' = s
    /\ UNCHANGED <<relay, gaq, worker, applied, gaps, failures>>

(* Signalled on logical_clock_cond.                                        *)
woken ==
    LET ready == clock_leq(relay[coord.next].last_committed,
                           sub.last_lwm_timestamp)
    IN
    /\ coord.pc = "woken"
    /\ coord' = [coord EXCEPT !.pc = IF Stopping THEN "stopped"
                                     ELSE IF ready THEN "assign" ELSE "waiting"]
    /\ IF Stopping \/ ready THEN StopWaiting(sub) ELSE UNCHANGED sub
    /\ UNCHANGED <<relay, gaq, worker, applied, gaps, failures>>

(* wait_for_workers_to_finish returns: before a new group the mark and the *)
(* counters are reset, after a Rotate event start_new_group is called.     *)
wait_for_workers_to_finish ==
    LET failed == \E w \in Workers :
                     worker[w].pc \in {"killing", "erring", "failed"}
    IN
    /\ coord.pc \in {"sync_group", "sync_rotate"}
    /\ sub.delegated_jobs <= sub.jobs_done \/ Stopping
    /\ IF failed
       THEN coord' = [coord EXCEPT !.pc = "stopped"] /\ UNCHANGED <<sub, gaq>>
       ELSE /\ gaq' = [gaq EXCEPT !.lwm = UNINIT]
            /\ \/ /\ coord.pc = "sync_rotate"
                  /\ sub' = [sub EXCEPT !.force_new_group = TRUE,
                                        !.first_event = TRUE]
                  /\ coord' = [coord EXCEPT !.pc = "read", !.file = @ + 1]
               \/ /\ coord.pc = "sync_group"
                  /\ sub' = [sub EXCEPT !.last_lwm_timestamp = UNINIT,
                                !.delegated_jobs = 1, !.jobs_done = 0,
                                !.force_new_group = FALSE]
                  /\ coord' = [coord EXCEPT !.pc = "assign"]
    /\ UNCHANGED <<relay, worker, applied, gaps, failures>>

(* get_least_occupied_worker: the first worker without a job, or none when *)
(* the coordinator is killed while it looks for one.                       *)
get_least_occupied_worker ==
    LET free == {w \in Workers : worker[w].pc = "idle"}
        index == gaq.assigned_group_index
    IN
    /\ coord.pc = "assign"
    /\ \/ /\ free # {}
          /\ worker' = [worker EXCEPT ![Min(free)] =
                           [pc |-> "running", index |-> index,
                            trx |-> coord.next]]
          /\ gaq' = [gaq EXCEPT !.item[index].assigned = TRUE]
          /\ coord' = [coord EXCEPT !.pc = "read", !.next = @ + 1]
       \/ /\ free = {}
          /\ coord.killed
          /\ coord' = [coord EXCEPT !.pc = "stopped"]
          /\ UNCHANGED <<worker, gaq>>
    /\ UNCHANGED <<relay, sub, applied, gaps, failures>>

(* The main loop ends when the thread is killed.                           *)
stop ==
    /\ coord.pc = "read"
    /\ coord.killed
    /\ coord' = [coord EXCEPT !.pc = "stopped"]
    /\ UNCHANGED <<relay, sub, gaq, worker, applied, gaps, failures>>

-----------------------------------------------------------------------------
(* A worker: slave_worker_ends_group, after its transaction.               *)

Go(w, where) == worker' = [worker EXCEPT ![w].pc = where]

(* Mutant of Signalled: the signal is lost.                                *)
Signalled_lost == coord

(* Signalling logical_clock_cond.                                          *)
Signalled == IF coord.pc = "waiting" THEN [coord EXCEPT !.pc = "woken"]
                                     ELSE coord

mark_done(w) ==
    /\ worker[w].pc = "running"
    /\ gaq' = [gaq EXCEPT !.item[worker[w].index].done = TRUE]
    /\ applied' = applied \cup {worker[w].trx}
    /\ Go(w, "done")
    /\ UNCHANGED <<relay, coord, sub, gaps, failures>>

load_min_waited(w) ==
    /\ worker[w].pc = "done"
    /\ Go(w, IF sub.min_waited_timestamp = UNINIT THEN "idle" ELSE "advance")
    /\ UNCHANGED <<relay, coord, sub, gaq, applied, gaps, failures>>

(* A section under mts_gaq_LOCK.                                           *)
advance_lwm(w) ==
    LET s == get_lwm_timestamp
    IN
    /\ worker[w].pc = "advance"
    /\ Unlocked
    /\ IF sub.min_waited_timestamp = UNINIT
       THEN UNCHANGED <<sub, coord>>
       ELSE /\ sub' = s
            /\ coord' = IF clock_leq(sub.min_waited_timestamp,
                                     s.last_lwm_timestamp)
                        THEN Signalled ELSE coord
    /\ Go(w, "idle")
    /\ UNCHANGED <<relay, gaq, applied, gaps, failures>>

(* The transaction fails: running_status is set, ...                       *)
fail(w) ==
    /\ worker[w].pc = "running"
    /\ failures < MaxFailures
    /\ failures' = failures + 1
    /\ Go(w, "killing")
    /\ UNCHANGED <<relay, coord, sub, gaq, applied, gaps>>

(* ... the coordinator is killed (THD::awake wakes it if it waits), ...    *)
kill_coordinator(w) ==
    /\ worker[w].pc = "killing"
    /\ coord' = [Signalled EXCEPT !.killed = TRUE]
    /\ Go(w, "erring")
    /\ UNCHANGED <<relay, sub, gaq, applied, gaps, failures>>

(* ... and is_error is set under the lock.                                 *)
set_is_error(w) ==
    /\ worker[w].pc = "erring"
    /\ Unlocked
    /\ sub' = [sub EXCEPT !.is_error = TRUE]
    /\ coord' = IF sub.min_waited_timestamp # UNINIT THEN Signalled ELSE coord
    /\ Go(w, "failed")
    /\ UNCHANGED <<relay, gaq, applied, gaps, failures>>

Coordinator ==
    \/ mts_checkpoint_routine \/ skip \/ read_rotate \/ schedule_next_event
    \/ store_min_waited \/ scan_and_wait \/ woken
    \/ wait_for_workers_to_finish \/ get_least_occupied_worker \/ stop

Worker(w) ==
    \/ mark_done(w) \/ load_min_waited(w) \/ advance_lwm(w)
    \/ fail(w) \/ kill_coordinator(w) \/ set_is_error(w)

ApplierNext == Coordinator \/ \E w \in Workers : Worker(w)

-----------------------------------------------------------------------------
(* The positions in the relay log that the transaction at position t waits *)
(* for: earlier files, and sequence numbers up to its last_committed.      *)
Parents(t) ==
    {i \in 1..t - 1 :
        \/ relay[i].file < relay[t].file
        \/ relay[i].sequence_number <= relay[t].last_committed}

(* A worker runs a transaction only when all the transactions it may       *)
(* depend on are done: neither the cached low-water mark, nor the resets   *)
(* at new groups and Rotate events, nor gaps let it start earlier.         *)
ParentsAreApplied ==
    \A w \in Workers :
        worker[w].pc = "running" => Parents(worker[w].trx) \subseteq applied

(* The low-water mark is below no transaction that is not done, at every   *)
(* moment at which schedule_next_event may rely on it.                     *)
LwmIsCommitted ==
    ~sub.force_new_group =>
        \A i \in 1..coord.next - 1 :
            /\ relay[i].file = coord.file
            /\ relay[i].sequence_number <= sub.last_lwm_timestamp
            => i \in applied

(* What the scheduler relies on.  When find_lwm resumes at the remembered  *)
(* index ("TODO: assert it"), that index is in use and holds the           *)
(* transaction of the mark.  The head of the queue follows the last group  *)
(* removed (asserted by get_lwm_timestamp).  The groups delegated are the  *)
(* ones in the queue and the ones removed, but for the one being           *)
(* scheduled, so that wait_for_workers_to_finish waits for all the others  *)
(* (asserted by schedule_next_event).                                      *)
SchedulerAssertsHold ==
    /\ sub.min_waited_timestamp # UNINIT /\ gaq.lwm # UNINIT =>
        /\ gaq.len > 0 =>
              gaq.item[gaq.entry].sequence_number = gaq.lwm + 1
        /\ ~clock_leq(sub.last_lwm_timestamp, gaq.lwm) =>
              /\ Running(sub.last_lwm_index)
              /\ gaq.item[sub.last_lwm_index].sequence_number =
                    sub.last_lwm_timestamp
    /\ coord.pc # "stopped" =>
        gaq.len + sub.jobs_done =
            sub.delegated_jobs
            + IF coord.pc \in {"sync_group", "store", "scan", "waiting", "woken"}
              THEN 1 ELSE 0

(* The coordinator does not wait for a worker that has missed it: every    *)
(* transaction of the relay log is applied, unless one fails.              *)
AllApplied == relay # <<>> ~>
    (coord.pc = "stopped" \/ applied = 1..Len(relay))

=============================================================================
