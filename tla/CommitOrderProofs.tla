------------------------- MODULE CommitOrderProofs --------------------------
(***************************************************************************)
(* The theorems about CommitOrder: after the last steps, those inside      *)
(* wait_for_its_turn, the inductive invariant holds in every reachable     *)
(* state, and with it the invariants that TLC checks.                      *)
(***************************************************************************)
EXTENDS CommitOrderUnregister

(* Steps that move w inside wait_for_its_turn or out of it and release     *)
(* nothing.                                                                *)
LEMMA TurnStep ==
    ASSUME IInv, NEW w \in Workers,
           wait_for_its_turn(w) \/ SetSignal(w) \/ report_commit(w)
             \/ report_rollback(w) \/ (ReturnToCommit(w) /\ ~rollback)
    PROVE  IInv'
<1> USE DEF managerVars, coordVars
<1>1. /\ TypeOK
      /\ UNCHANGED <<queue, deadlock, why, trx, retries, killed, coordVars,
                     rowq, outcome, enrolled>>
      /\ rollback => rollback'
      /\ rollback' \in BOOLEAN
  <2>1. TypeOK /\ rollback \in BOOLEAN
    BY DEF IInv, TypeOK
  <2>2. CASE wait_for_its_turn(w)
    BY <2>1, <2>2 DEF wait_for_its_turn
  <2>3. CASE SetSignal(w)
    BY <2>1, <2>3 DEF SetSignal
  <2>4. CASE report_commit(w)
    BY <2>1, <2>4 DEF report_commit
  <2>5. CASE report_rollback(w)
    BY <2>1, <2>5 DEF report_rollback
  <2>6. CASE ReturnToCommit(w) /\ ~rollback
    BY <2>1, <2>6 DEF ReturnToCommit
  <2> QED BY <2>2, <2>3, <2>4, <2>5, <2>6
<1>2. /\ pc' \in [Workers -> Locations]
      /\ \A v \in Workers \ {w} : pc'[v] = pc[v]
      /\ status' \in [Workers -> Statuses]
      /\ \A v \in Workers \ {w} : status'[v] = status[v]
      /\ pc[w] \in {"turn", "signal", "return"}
  <2>1. pc \in [Workers -> Locations] /\ status \in [Workers -> Statuses]
    BY <1>1 DEF TypeOK
  <2>2. CASE wait_for_its_turn(w)
    BY <2>1, <2>2 DEF wait_for_its_turn, Goto, Locations
  <2>3. CASE SetSignal(w)
    BY <2>1, <2>3 DEF SetSignal, Goto, Locations, Statuses
  <2>4. CASE report_commit(w)
    BY <2>1, <2>4 DEF report_commit, Goto, Locations
  <2>5. CASE report_rollback(w)
    BY <2>1, <2>5 DEF report_rollback, Goto, Locations
  <2>6. CASE ReturnToCommit(w) /\ ~rollback
    BY <2>1, <2>6 DEF ReturnToCommit, Goto, Locations
  <2> QED BY <2>2, <2>3, <2>4, <2>5, <2>6
<1>3. \/ /\ pc[w] = "turn" /\ pc'[w] = "signal" /\ queue_front(w)
         /\ status' = status
      \/ /\ pc[w] = "turn" /\ pc'[w] = "wait" /\ status' = status
      \/ /\ pc[w] = "turn" /\ pc'[w] = "return" /\ status' = status
         /\ deadlock[w] /\ why[w] # "commit"
      \/ /\ pc[w] = "signal" /\ pc'[w] = "stopped" /\ rollback
         /\ status'[w] = "OCS_SIGNAL"
      \/ /\ pc[w] = "signal" /\ pc'[w] = "return"
         /\ status'[w] = "OCS_SIGNAL"
      \/ /\ pc[w] = "return" /\ pc'[w] = "unregister" /\ why[w] = "report_commit"
         /\ status' = status
      \/ /\ pc[w] = "return" /\ pc'[w] = "unregister" /\ why[w] = "report_rollback"
         /\ status' = status /\ rollback'
      \/ /\ pc[w] = "return" /\ pc'[w] = "enroll" /\ why[w] = "commit"
         /\ status' = status /\ ~rollback
  <2>1. pc \in [Workers -> Locations] /\ status \in [Workers -> Statuses]
    BY <1>1 DEF TypeOK
  <2>2. CASE wait_for_its_turn(w)
    BY <2>1, <2>2 DEF wait_for_its_turn, Goto
  <2>3. CASE SetSignal(w)
    BY <2>1, <2>3 DEF SetSignal, Goto
  <2>4. CASE report_commit(w)
    BY <2>1, <2>4 DEF report_commit, Goto
  <2>5. CASE report_rollback(w)
    BY <2>1, <2>5 DEF report_rollback, Goto
  <2>6. CASE ReturnToCommit(w) /\ ~rollback
    BY <2>1, <2>6 DEF ReturnToCommit, Goto
  <2> QED BY <2>2, <2>3, <2>4, <2>5, <2>6
<1>4. TypeOK'
  BY <1>1, <1>2 DEF TypeOK
<1>5. \A i \in 1..Len(rowq) : rowq[i] \in Workers
  BY <1>1 DEF TypeOK
<1>6. RowInv'
  <2>1. ASSUME NEW i \in 1..Len(rowq)
        PROVE  /\ pc[rowq[i]] = "lockwait" => pc'[rowq[i]] = "lockwait"
               /\ pc'[rowq[i]] \notin {"idle", "retry", "clean", "ends_group", "exited"}
               /\ pc'[rowq[i]] \in InTurn => why[rowq[i]] # "report_commit"
    <3>1. /\ pc[rowq[i]] \notin {"idle", "retry", "clean", "ends_group", "exited"}
          /\ pc[rowq[i]] \in InTurn => why[rowq[i]] # "report_commit"
      BY DEF IInv, RowInv
    <3>2. CASE rowq[i] = w
      BY <1>2, <1>3, <3>1, <3>2 DEF InTurn
    <3>3. CASE rowq[i] # w
      BY <1>2, <1>5, <3>1, <3>3
    <3> QED BY <3>2, <3>3
  <2>2. \A i \in 2..Len(rowq) : pc[rowq[i]] = "lockwait" /\ i \in 1..Len(rowq)
    <3>1. rowq \in Seq(Workers)
      BY DEF IInv, TypeOK
    <3>2. \A i \in 2..Len(rowq) : i \in 1..Len(rowq)
      BY <3>1
    <3> QED BY <3>2 DEF IInv, RowInv
  <2>3. \A i, j \in 1..Len(rowq) : rowq[i] = rowq[j] => i = j
    BY DEF IInv, RowInv
  <2> QED BY <1>1, <2>1, <2>2, <2>3 DEF RowInv, InTurn
<1>7. ASSUME NEW x \in Workers, Blocked(x)
      PROVE  Blocked(x)'
  <2>1. CASE x = w
    BY <1>1, <1>2, <1>3, <1>7, <2>1 DEF Blocked, InTurn, Contains
  <2>2. CASE x # w
    BY <1>1, <1>2, <1>7, <2>2 DEF Blocked, InTurn, Contains
  <2> QED BY <2>1, <2>2
<1>8. DeadlockInv'
  <2>1. \A v \in Workers : Held(v) => Held(v)'
    BY <1>1 DEF Held
  <2>2. ASSUME NEW v \in Workers, deadlock[v]
        PROVE  /\ ~(pc'[v] \in InTurn /\ why[v] = "report_commit")
               /\ \/ rollback'
                  \/ pc'[v] \in {"retry", "clean", "exited"}
                  \/ pc'[v] = "ends_group" /\ status'[v] = "OCS_WAIT"
                  \/ Held(v)' /\ \E x \in Workers : Blocked(x)' /\ trx[x] < trx[v]
    <3>1. ~(pc'[v] \in InTurn /\ why[v] = "report_commit")
      BY <1>2, <2>2 DEF IInv, DeadlockInv, InTurn
    <3>2. CASE Held(v) /\ \E x \in Workers : Blocked(x) /\ trx[x] < trx[v]
      BY <1>7, <2>1, <3>1, <3>2
    <3>3. CASE ~(Held(v) /\ \E x \in Workers : Blocked(x) /\ trx[x] < trx[v])
      <4>1. \/ rollback
            \/ pc[v] \in {"retry", "clean", "exited"}
            \/ pc[v] = "ends_group" /\ status[v] = "OCS_WAIT"
        BY <2>2, <3>3 DEF IInv, DeadlockInv
      <4> QED BY <1>1, <1>2, <3>1, <4>1
    <3> QED BY <3>2, <3>3
  <2> QED BY <1>1, <2>2 DEF DeadlockInv, InTurn
<1>9. status[w] \in Statuses /\ (deadlock[w] /\ pc[w] = "turn" => why[w] # "report_commit")
  BY <1>1 DEF IInv, DeadlockInv, InTurn, TypeOK
<1>10. StatusInv'
  <2>1. \A v \in Workers \ {w} : StatusInv!(v) => StatusInv!(v)'
    BY <1>1, <1>2
  <2>2. StatusInv!(w)
    BY DEF IInv, StatusInv
  <2>3. StatusInv!(w)'
    BY <1>1, <1>3, <1>9, <2>2
  <2> QED BY <2>1, <2>3 DEF IInv, StatusInv
<1>11. why[w] = "commit" /\ pc[w] = "return" /\ ~rollback => Resolved(trx[w])
  <2> SUFFICES ASSUME why[w] = "commit", pc[w] = "return", ~rollback,
                      NEW u \in 1..(trx[w] - 1), outcome[u] = None
               PROVE  FALSE
    BY DEF Resolved
  <2>1. queue \in Seq(Workers) /\ queue # <<>> /\ Head(queue) = w
    BY <1>1 DEF TypeOK, IInv, StatusInv, QueueInv, TurnIsFront, queue_front
  <2>2. queue[1] = w /\ 1 \in 1..Len(queue)
    BY <2>1
  <2>3. \A v \in Workers : trx[v] \in Nat
    BY <1>1, NTrxAssumption DEF TypeOK
  <2>4. trx[w] < next /\ next \in Nat
    BY <1>1, NTrxAssumption DEF TypeOK, IInv, QueueInv
  <2>5. u \in 1..(next - 1) /\ u < trx[w]
    BY <2>3, <2>4
  <2>6. PICK i \in 1..Len(queue) : trx[queue[i]] = u
    BY <2>5 DEF IInv, QueueInv
  <2>7. i # 1
    BY <2>2, <2>3, <2>5, <2>6
  <2>8. trx[queue[1]] < trx[queue[i]]
    BY <2>1, <2>2, <2>7 DEF IInv, QueueInv, QueueInDispatchOrder
  <2> QED BY <2>2, <2>3, <2>5, <2>6, <2>8
<1>12. LocationInv'
  <2>1. \A v \in Workers \ {w} : LocationInv!(v) => LocationInv!(v)'
    BY <1>1, <1>2 DEF InTurn, Resolved
  <2>2. LocationInv!(w)
    BY DEF IInv, LocationInv
  <2>3. LocationInv!(w)'
    BY <1>1, <1>3, <1>11, <2>2 DEF InTurn, Resolved
  <2> QED BY <2>1, <2>3 DEF IInv, LocationInv
<1>13. QueueInv'
  <2>1. TurnIsFront'
    <3>1. TurnIsFront
      BY DEF IInv, QueueInv
    <3>2. pc'[w] = "signal" \/ status'[w] = "OCS_SIGNAL" => queue_front(w)
      BY <1>3, <3>1 DEF TurnIsFront
    <3> QED BY <1>1, <1>2, <3>1, <3>2 DEF TurnIsFront, queue_front
  <2>2. QueueInDispatchOrder'
    BY <1>1 DEF IInv, QueueInv, QueueInDispatchOrder
  <2>3. \A v \in Workers : /\ status'[v] = "OCS_WAIT" => status[v] = "OCS_WAIT"
                           /\ status'[v] = "OCS_FINISH" => status[v] = "OCS_FINISH"
    BY <1>2, <1>3
  <2> QED BY <1>1, <2>1, <2>2, <2>3 DEF IInv, QueueInv, Contains
<1>14. EnrolledInv'
  <2>1. \A k \in 1..Len(queue) :
           pc[queue[k]] = "unregister" => pc'[queue[k]] = "unregister"
    BY <1>1, <1>2 DEF TypeOK
  <2> QED BY <1>1, <2>1, ZenonT(40) DEF IInv, EnrolledInv, OrderPreserved
<1> QED BY <1>4, <1>6, <1>8, <1>10, <1>12, <1>13, <1>14 DEF IInv

(* The server starts with an empty queue and idle workers.                 *)
LEMMA Initial == Init => IInv
<1> SUFFICES ASSUME Init PROVE IInv
  OBVIOUS
<1> USE DEF Init
<1>1. TypeOK
  <2>1. next \in 1..(NTrx + 1) /\ 0 \in 0..NTrx /\ 0 \in 0..TransRetries
    BY NTrxAssumption, RetriesAssumption
  <2>2. queue \in Seq(Workers) /\ rowq \in Seq(Workers) /\ enrolled \in Seq(Trxs)
    OBVIOUS
  <2>3. /\ status \in [Workers -> Statuses] /\ pc \in [Workers -> Locations]
        /\ why \in [Workers -> Reasons]
    BY DEF Statuses, Locations, Reasons
  <2>4. trx \in [Workers -> 0..NTrx] /\ retries \in [Workers -> 0..TransRetries]
    BY <2>1
  <2>5. /\ deadlock \in [Workers -> BOOLEAN] /\ killed \in [Workers -> BOOLEAN]
        /\ outcome \in [Trxs -> {None, "binlogged", "empty"}]
    OBVIOUS
  <2>6. coord \in {"running", "stopped"} /\ partial \in Workers \cup {None}
    OBVIOUS
  <2>7. rollback \in BOOLEAN
    BY Zenon
  <2> HIDE DEF Init
  <2> QED BY <2>1, <2>2, <2>3, <2>4, <2>5, <2>6, <2>7 DEF TypeOK
<1>2. RowInv
  BY DEF RowInv
<1>3. DeadlockInv
  BY DEF DeadlockInv
<1>4. StatusInv
  BY Zenon DEF StatusInv
<1>5. LocationInv
  BY Zenon DEF LocationInv, InTurn
<1>6. QueueInv
  BY DEF QueueInv, QueueInDispatchOrder, TurnIsFront, Contains
<1>7. EnrolledInv
  BY DEF EnrolledInv, OrderPreserved
<1> QED BY <1>1, <1>2, <1>3, <1>4, <1>5, <1>6, <1>7 DEF IInv

(* Every step of the coordinator and of the workers preserves IInv.        *)
LEMMA Inductive == IInv /\ [Next]_vars => IInv'
<1> SUFFICES ASSUME IInv, [Next]_vars PROVE IInv'
  OBVIOUS
<1>1. CASE UNCHANGED vars
  <2>1. UNCHANGED <<queue, status, rollback, deadlock, pc, why, trx, retries,
                    killed, next, coord, partial, rowq, outcome, enrolled>>
    BY <1>1 DEF vars, managerVars, coordVars
  <2>2. TypeOK' /\ RowInv' /\ StatusInv'
    BY <2>1 DEF IInv, TypeOK, RowInv, StatusInv, InTurn
  <2>3. DeadlockInv'
    BY <2>1, SMTT(30) DEF IInv, DeadlockInv, Blocked, Held, InTurn, Contains
  <2>4. LocationInv'
    BY <2>1 DEF IInv, LocationInv, InTurn, Resolved
  <2>5. QueueInv' /\ EnrolledInv'
    BY <2>1 DEF IInv, QueueInv, QueueInDispatchOrder, TurnIsFront, queue_front,
                Contains, EnrolledInv, OrderPreserved
  <2> QED BY <2>2, <2>3, <2>4, <2>5 DEF IInv
<1>2. ASSUME NEW w \in Workers, get_least_occupied_worker(w) PROVE IInv'
  BY <1>2, RegisterStep
<1>3. ASSUME StopCoordinator \/ \E w \in Workers : Kill(w) PROVE IInv'
  <2>1. /\ UNCHANGED <<queue, status, rollback, deadlock, pc, why, trx, retries,
                       next, rowq, outcome, enrolled>>
        /\ coord' \in {"running", "stopped"}
        /\ coord = "stopped" => coord' = "stopped"
        /\ partial' \in Workers \cup {None}
        /\ killed' \in [Workers -> BOOLEAN]
    <3>1. CASE StopCoordinator
      BY <3>1 DEF IInv, TypeOK, StopCoordinator, managerVars
    <3>2. CASE \E w \in Workers : Kill(w)
      BY <3>2 DEF IInv, TypeOK, Kill, managerVars, coordVars
    <3> QED BY <1>3, <3>1, <3>2
  <2>2. TypeOK' /\ RowInv' /\ StatusInv'
    BY <2>1 DEF IInv, TypeOK, RowInv, StatusInv, InTurn
  <2>3. DeadlockInv'
    BY <2>1, SMTT(30) DEF IInv, DeadlockInv, Blocked, Held, InTurn, Contains
  <2>4. LocationInv'
    BY <2>1 DEF IInv, LocationInv, InTurn, Resolved
  <2>5. QueueInv' /\ EnrolledInv'
    BY <2>1 DEF IInv, QueueInv, QueueInDispatchOrder, TurnIsFront, queue_front,
                Contains, EnrolledInv, OrderPreserved
  <2> QED BY <2>2, <2>3, <2>4, <2>5 DEF IInv
<1>4. ASSUME NEW w \in Workers, WorkerStep(w) PROVE IInv'
  <2>1. CASE add_to_waitq(w)
    BY <2>1, LockRequestStep
  <2>2. CASE slave_worker_exec_event(w) \/ found_order_commit_deadlock(w)
    <3>1. PICK error \in {"temporary", "fatal"} : retry_transaction(w, error)
      BY <2>2 DEF slave_worker_exec_event, found_order_commit_deadlock
    <3>2. pc[w] \in {"apply", "lockwait"}
      BY <2>2 DEF slave_worker_exec_event, found_order_commit_deadlock
    <3>3. trx[w] # 0 /\ (status[w] = "OCS_WAIT" \/ rollback)
      BY <3>2 DEF IInv, StatusInv, LocationInv
    <3> QED BY <3>1, <3>2, <3>3, RetryStep
  <2>3. CASE clean(w)
    <3>1. CASE pc[w] = "clean"
      <4>1. EnterTurn(w, "report_rollback") /\ deadlock' = [deadlock EXCEPT ![w] = FALSE]
            /\ UNCHANGED <<managerVars, trx, retries, killed, coordVars, rowq,
                           outcome, enrolled>>
        BY <2>3, <3>1 DEF clean
      <4>2. deadlock' \in [Workers -> BOOLEAN] /\ ~deadlock'[w]
            /\ \A v \in Workers : deadlock'[v] => deadlock[v]
        BY <4>1 DEF IInv, TypeOK
      <4> QED BY <3>1, <4>1, <4>2, EnterTurnStep DEF Reasons
    <3>2. CASE pc[w] = "retry"
      <4>1. /\ UNCHANGED <<queue, status, rollback, why, trx, retries, killed,
                           next, coord, partial, rowq, outcome, enrolled>>
            /\ pc' = [pc EXCEPT ![w] = "apply"]
            /\ deadlock' = [deadlock EXCEPT ![w] = FALSE]
        BY <2>3, <3>2 DEF clean, Goto, managerVars, coordVars
      <4>2. /\ pc' \in [Workers -> Locations] /\ pc'[w] = "apply"
            /\ \A v \in Workers \ {w} : pc'[v] = pc[v]
            /\ deadlock' \in [Workers -> BOOLEAN] /\ ~deadlock'[w]
            /\ \A v \in Workers : deadlock'[v] => deadlock[v]
        BY <4>1 DEF IInv, TypeOK, Locations
      <4>3. TypeOK' /\ StatusInv'
        BY <3>2, <4>1, <4>2, SMTT(20) DEF IInv, TypeOK, StatusInv
      <4>4. RowInv'
        <5>1. \A i \in 1..Len(rowq) : rowq[i] \in Workers /\ pc[rowq[i]] # "retry"
          BY DEF IInv, TypeOK, RowInv
        <5>2. \A i \in 1..Len(rowq) : pc'[rowq[i]] = pc[rowq[i]]
          BY <3>2, <4>2, <5>1
        <5>3. \A i \in 2..Len(rowq) : i \in 1..Len(rowq)
          BY DEF IInv, TypeOK
        <5> QED BY <4>1, <5>2, <5>3, Zenon DEF IInv, RowInv, InTurn
      <4>5. ASSUME NEW x \in Workers, Blocked(x)
            PROVE  Blocked(x)'
        BY <4>1, <4>2, <4>5 DEF Blocked, InTurn, Contains
      <4>6. ASSUME NEW v \in Workers, deadlock'[v]
            PROVE  /\ ~(pc'[v] \in InTurn /\ why[v] = "report_commit")
                   /\ \/ rollback
                      \/ pc'[v] \in {"retry", "clean", "exited"}
                      \/ pc'[v] = "ends_group" /\ status[v] = "OCS_WAIT"
                      \/ Held(v)' /\ \E x \in Workers : Blocked(x)' /\ trx[x] < trx[v]
        <5>1. v # w /\ deadlock[v] /\ pc'[v] = pc[v]
          BY <4>2, <4>6
        <5>2. \/ rollback
              \/ pc[v] \in {"retry", "clean", "exited"}
              \/ pc[v] = "ends_group" /\ status[v] = "OCS_WAIT"
              \/ Held(v) /\ \E x \in Workers : Blocked(x) /\ trx[x] < trx[v]
          BY <5>1 DEF IInv, DeadlockInv
        <5>3. ~(pc'[v] \in InTurn /\ why[v] = "report_commit")
          BY <5>1 DEF IInv, DeadlockInv
        <5>4. Held(v) => Held(v)'
          BY <4>1 DEF Held
        <5> QED BY <4>5, <5>1, <5>2, <5>3, <5>4
      <4>7. DeadlockInv'
        BY <4>1, <4>6 DEF DeadlockInv, InTurn
      <4>8. LocationInv'
        BY <3>2, <4>1, <4>2 DEF IInv, LocationInv, InTurn, Resolved
      <4>9. QueueInv'
        BY <4>1, <4>2 DEF IInv, QueueInv, QueueInDispatchOrder, TurnIsFront,
                          queue_front, Contains
      <4>10. EnrolledInv'
        <5>1. \A k \in 1..Len(queue) :
                 pc[queue[k]] = "unregister" => pc'[queue[k]] = "unregister"
          BY <3>2, <4>2 DEF IInv, TypeOK
        <5> QED BY <4>1, <5>1 DEF IInv, EnrolledInv, OrderPreserved
      <4> QED BY <4>3, <4>4, <4>7, <4>8, <4>9, <4>10 DEF IInv
    <3> QED BY <2>3, <3>1, <3>2 DEF clean
  <2>4. CASE ordered_commit(w) \/ KilledBetweenEvents(w)
    <3>1. PICK reason \in {"commit", "report_rollback"} :
             /\ EnterTurn(w, reason)
             /\ reason = "commit" => ordered_commit(w)
             /\ reason = "report_rollback" => KilledBetweenEvents(w)
      BY <2>4 DEF ordered_commit, KilledBetweenEvents
    <3>2. UNCHANGED <<managerVars, deadlock, trx, retries, killed, coordVars,
                      rowq, outcome, enrolled>>
      BY <2>4 DEF ordered_commit, KilledBetweenEvents
    <3>3. reason = "commit" =>
             pc[w] = "apply" /\ (rollback \/ (trx[w] \in RowTrx => Held(w)))
      BY <3>1 DEF ordered_commit
    <3>4. pc[w] \in {"idle", "apply"}
      BY <2>4 DEF ordered_commit, KilledBetweenEvents
    <3>5. deadlock' = deadlock /\ deadlock \in [Workers -> BOOLEAN] /\ reason \in Reasons
      BY <3>2 DEF IInv, TypeOK, Reasons
    <3> QED BY <3>1, <3>2, <3>3, <3>4, <3>5, EnterTurnStep
  <2>5. CASE CommitEmpty(w)
    <3>1. /\ pc[w] = "apply" /\ (trx[w] \in RowTrx => Held(w))
          /\ rowq' = RowReleased(w)
          /\ pc' = Granted([pc EXCEPT ![w] = "ends_group"], w)
          /\ outcome' = [outcome EXCEPT ![trx[w]] = "empty"]
          /\ UNCHANGED <<managerVars, deadlock, why, trx, retries, killed,
                         coordVars, enrolled>>
      BY <2>5 DEF CommitEmpty
    <3>2. trx[w] \in Trxs
      BY <3>1 DEF IInv, TypeOK, LocationInv, Trxs
    <3>3. /\ outcome' \in [Trxs -> {None, "binlogged", "empty"}]
          /\ \A u \in Trxs : outcome[u] # None => outcome'[u] # None
          /\ outcome'[trx[w]] # None
      BY <3>1, <3>2 DEF IInv, TypeOK, None
    <3> QED BY <3>1, <3>3, EndsGroupStep
  <2>6. CASE wait_for_its_turn(w) \/ SetSignal(w) \/ report_commit(w) \/ report_rollback(w)
    BY <2>6, TurnStep
  <2>7. CASE OrderCommitDeadlock(w)
    <3>1. pc[w] = "turn" /\ why[w] = "commit" /\ retry_transaction(w, "temporary")
      BY <2>7 DEF OrderCommitDeadlock
    <3>2. trx[w] # 0 /\ status[w] = "OCS_WAIT"
      BY <3>1 DEF IInv, StatusInv, LocationInv, InTurn
    <3> QED BY <3>1, <3>2, RetryStep
  <2>8. CASE unregister_trx(w)
    BY <2>8, UnregisterStep
  <2>9. CASE ReturnToCommit(w)
    <3>1. CASE rollback
      <4>1. pc[w] = "return" /\ retry_transaction(w, "fatal")
        BY <2>9, <3>1 DEF ReturnToCommit
      <4> QED BY <4>1, RetryStep
    <3>2. CASE ~rollback
      BY <2>9, <3>2, TurnStep
    <3> QED BY <3>1, <3>2
  <2>10. CASE enroll_for(w)
    BY <2>10, EnrollStep
  <2>11. CASE EngineCommit(w)
    <3>1. /\ pc[w] = "engine_commit"
          /\ rowq' = RowReleased(w)
          /\ pc' = Granted([pc EXCEPT ![w] = "ends_group"], w)
          /\ UNCHANGED <<managerVars, deadlock, why, trx, retries, killed,
                         coordVars, enrolled>>
          /\ outcome' = outcome
      BY <2>11 DEF EngineCommit
    <3>2. outcome[trx[w]] # None /\ outcome \in [Trxs -> {None, "binlogged", "empty"}]
      BY <3>1 DEF IInv, TypeOK, LocationInv
    <3> QED BY <3>1, <3>2, EndsGroupStep
  <2>12. CASE slave_worker_ends_group(w)
    <3>1. pc[w] = "ends_group"
      BY <2>12 DEF slave_worker_ends_group
    <3>2. CASE deadlock[w]
      <4>1. retry_transaction(w, "temporary")
        BY <2>12, <3>2 DEF slave_worker_ends_group
      <4>2. ~Held(w)
        BY <3>1 DEF IInv, TypeOK, RowInv, Held
      <4>3. trx[w] # 0 /\ (status[w] = "OCS_WAIT" \/ rollback)
        BY <3>1, <3>2, <4>2 DEF IInv, DeadlockInv, LocationInv
      <4> QED BY <3>1, <4>1, <4>3, RetryStep
    <3>3. CASE ~deadlock[w]
      <4>1. EnterTurn(w, "report_commit")
            /\ UNCHANGED <<managerVars, deadlock, trx, retries, killed,
                           coordVars, rowq, outcome, enrolled>>
        BY <2>12, <3>3 DEF slave_worker_ends_group
      <4>2. deadlock' = deadlock /\ deadlock \in [Workers -> BOOLEAN]
        BY <4>1 DEF IInv, TypeOK
      <4> QED BY <3>1, <3>3, <4>1, <4>2, EnterTurnStep DEF Reasons
    <3> QED BY <3>2, <3>3
  <2>13. CASE handle_slave_worker(w) \/ handle_slave_worker_stop(w)
    <3>1. Leave(w) /\ pc[w] \in {"idle", "apply", "leaving"}
          /\ (rollback \/ coord = "stopped")
      BY <2>13 DEF handle_slave_worker, handle_slave_worker_stop, IInv, LocationInv
    <3>2. /\ rowq' = RowReleased(w)
          /\ pc' = Granted([pc EXCEPT ![w] = "exited"], w)
          /\ UNCHANGED <<managerVars, deadlock, why, trx, killed, coordVars,
                         outcome, enrolled>>
          /\ retries' = retries
      BY <3>1 DEF Leave
    <3>3. retries' \in [Workers -> 0..TransRetries] /\ "exited" \in Locations
      BY <3>2 DEF IInv, TypeOK, Locations
    <3> QED BY <3>1, <3>2, <3>3, ReleaseStep
  <2> QED BY <1>4, <2>1, <2>2, <2>3, <2>4, <2>5, <2>6, <2>7, <2>8, <2>9, <2>10,
             <2>11, <2>12, <2>13 DEF WorkerStep
<1> QED BY <1>1, <1>2, <1>3, <1>4 DEF Next, Rest

(* A release wakes nobody who sleeps in wait_for_its_turn.                 *)
LEMMA ReleaseAsleep ==
    ASSUME IInv, NEW w \in Workers, NEW l \in Locations,
           l \in {"retry", "clean", "ends_group", "exited"},
           rowq' = RowReleased(w),
           pc' = Granted([pc EXCEPT ![w] = l], w),
           why' = why
    PROVE  \A v \in Workers : pc'[v] = "wait" => pc[v] = "wait"
<1>1. TypeOK /\ RowInv
  BY DEF IInv
<1>2. /\ pc'[w] = l
      /\ \A v \in Workers \ {w} :
            pc'[v] = pc[v] \/ (pc[v] = "lockwait" /\ pc'[v] = "apply")
  BY <1>1, ReleaseRow, Zenon
<1>3. ASSUME NEW v \in Workers, pc'[v] = "wait" PROVE pc[v] = "wait"
  <2>1. v # w
    BY <1>2, <1>3
  <2> QED BY <1>2, <1>3, <2>1, Zenon
<1> QED BY <1>3, Zenon

(* No step leaves a worker asleep that has its turn or a deadlock reported *)
(* to it.                                                                  *)
LEMMA WakeupStep ==
    ASSUME IInv, NoLostWakeup, [Next]_vars, NEW v \in Workers, pc'[v] = "wait"
    PROVE  ~queue_front(v)' /\ ~deadlock'[v]
<1> USE DEF managerVars, coordVars
<1>1. TypeOK /\ pc \in [Workers -> Locations] /\ queue \in Seq(Workers)
      /\ deadlock \in [Workers -> BOOLEAN]
  BY DEF IInv, TypeOK
<1>2. ASSUME pc[v] = "wait", queue' = queue, deadlock' = deadlock
      PROVE  ~queue_front(v)' /\ ~deadlock'[v]
  BY <1>2 DEF NoLostWakeup, queue_front
<1>3. CASE UNCHANGED vars
  BY <1>2, <1>3 DEF vars
<1>4. ASSUME NEW w \in Workers, get_least_occupied_worker(w)
      PROVE  ~queue_front(v)' /\ ~deadlock'[v]
  <2>1. /\ pc[w] \in {"idle", "exited"} /\ pc'[w] \in {"apply", "exited"}
        /\ \A x \in Workers \ {w} : pc'[x] = pc[x]
        /\ deadlock' = deadlock /\ queue' = queue_push(queue, w)
    <3>1. pc' = [pc EXCEPT ![w] = "apply"] \/ (pc[w] = "exited" /\ pc' = pc)
      BY <1>4 DEF get_least_occupied_worker, register_trx,
                   append_item_to_jobs, Goto
    <3>2. /\ pc[w] \in {"idle", "exited"}
          /\ deadlock' = deadlock /\ queue' = queue_push(queue, w)
      BY <1>4 DEF get_least_occupied_worker, register_trx,
                   append_item_to_jobs
    <3> QED BY <1>1, <3>1, <3>2
  <2>2. v # w /\ pc[v] = "wait"
    BY <2>1
  <2>3. /\ queue # <<>> => Head(queue') = Head(queue)
        /\ queue = <<>> => Head(queue') = w
    <3>1. CASE queue # <<>>
      <4>1. Head(queue_push(queue, w)) = Head(queue)
        BY <1>1, <3>1, PushProperties
      <4> QED BY <2>1, <3>1, <4>1
    <3>2. CASE queue = <<>>
      BY <2>1, <3>2 DEF queue_push, Contains
    <3> QED BY <3>1, <3>2
  <2> QED BY <2>1, <2>2, <2>3 DEF NoLostWakeup, queue_front
<1>5. CASE StopCoordinator \/ \E w \in Workers : Kill(w)
  BY <1>2, <1>5, SMTT(20) DEF StopCoordinator, Kill
<1>6. ASSUME NEW w \in Workers, WorkerStep(w)
      PROVE  ~queue_front(v)' /\ ~deadlock'[v]
  <2>1. CASE add_to_waitq(w)
    <3>1. CASE rowq = <<>>
      BY <1>2, <2>1, <3>1 DEF add_to_waitq
    <3>2. CASE rowq # <<>>
      <4> DEFINE h == Head(rowq)
                 g == IF trx[h] > trx[w] THEN Woken(pc, h) ELSE pc
      <4>1. /\ queue' = queue /\ pc' = [g EXCEPT ![w] = "lockwait"]
            /\ deadlock' = [deadlock EXCEPT ![h] = @ \/ trx[h] > trx[w]]
        BY <2>1, <3>2 DEF add_to_waitq
      <4>2. h \in Workers
        BY <3>2 DEF IInv, TypeOK
      <4> HIDE DEF h
      <4>3. /\ g \in [Workers -> Locations]
            /\ \A x \in Workers : g[x] = pc[x] \/ (pc[x] = "wait" /\ g[x] = "turn")
        BY <1>1, <4>2, WokenProperties, SMTT(30)
      <4>4. pc[v] = "wait" /\ g[v] = "wait"
        <5> HIDE DEF g
        <5>1. v # w /\ pc'[v] = g[v]
          BY <4>1, <4>3
        <5> QED BY <4>3, <5>1
      <4>5. v = h => ~(trx[h] > trx[w])
        <5>1. ASSUME trx[h] > trx[w], v = h PROVE FALSE
          <6>1. Woken(pc, h)[h] = IF pc[h] = "wait" THEN "turn" ELSE pc[h]
            BY <1>1, <4>2 DEF Woken
          <6> QED BY <4>4, <5>1, <6>1
        <5> QED BY <5>1
      <4>6. deadlock'[v] => deadlock[v] \/ (v = h /\ trx[h] > trx[w])
        BY <1>1, <4>1, <4>2
      <4> QED BY <4>1, <4>4, <4>5, <4>6, SMTT(20) DEF NoLostWakeup, queue_front
    <3> QED BY <3>1, <3>2
  <2>2. ASSUME NEW e \in {"temporary", "fatal"}, retry_transaction(w, e)
        PROVE  ~queue_front(v)' /\ ~deadlock'[v]
    <3> DEFINE l == IF e = "temporary" /\ retries[w] < TransRetries
                    THEN "retry" ELSE "clean"
    <3>1. /\ rowq' = RowReleased(w) /\ pc' = Granted([pc EXCEPT ![w] = l], w)
          /\ why' = why /\ queue' = queue /\ deadlock' = deadlock
      BY <2>2 DEF retry_transaction
    <3>2. l \in Locations /\ l \in {"retry", "clean"}
      BY DEF Locations
    <3> HIDE DEF l
    <3>3. pc[v] = "wait"
      BY <3>1, <3>2, ReleaseAsleep, Zenon
    <3> QED BY <1>2, <3>1, <3>3
  <2>3. CASE slave_worker_exec_event(w) \/ found_order_commit_deadlock(w)
             \/ OrderCommitDeadlock(w)
    BY <2>2, <2>3 DEF slave_worker_exec_event, found_order_commit_deadlock,
                      OrderCommitDeadlock
  <2>4. ASSUME NEW reason, EnterTurn(w, reason) \/ Goto(w, "apply"), queue' = queue,
               deadlock' = deadlock \/ deadlock' = [deadlock EXCEPT ![w] = FALSE]
        PROVE  ~queue_front(v)' /\ ~deadlock'[v]
    <3>1. v # w /\ pc[v] = "wait"
      BY <1>1, <2>4 DEF EnterTurn, Goto
    <3>2. deadlock'[v] = deadlock[v]
      BY <1>1, <2>4, <3>1
    <3> QED BY <2>4, <3>1, <3>2 DEF NoLostWakeup, queue_front
  <2>5. CASE clean(w)
    <3>1. /\ queue' = queue /\ deadlock' = [deadlock EXCEPT ![w] = FALSE]
          /\ EnterTurn(w, "report_rollback") \/ Goto(w, "apply")
      BY <2>5 DEF clean
    <3> QED BY <2>4, <3>1
  <2>6. CASE ordered_commit(w) \/ KilledBetweenEvents(w)
    <3>1. /\ queue' = queue /\ deadlock' = deadlock
          /\ EnterTurn(w, "report_rollback") \/ EnterTurn(w, "commit")
      BY <2>6 DEF ordered_commit, KilledBetweenEvents
    <3> QED BY <2>4, <3>1
  <2>7. ASSUME rowq' = RowReleased(w),
               pc' = Granted([pc EXCEPT ![w] = "ends_group"], w)
                 \/ pc' = Granted([pc EXCEPT ![w] = "exited"], w),
               UNCHANGED <<why, queue, deadlock>>
        PROVE  ~queue_front(v)' /\ ~deadlock'[v]
    <3>1. "ends_group" \in Locations /\ "exited" \in Locations
      BY DEF Locations
    <3>2. pc[v] = "wait"
      BY <2>7, <3>1, ReleaseAsleep, Zenon
    <3> QED BY <1>2, <2>7, <3>2
  <2>8. CASE CommitEmpty(w) \/ EngineCommit(w) \/ handle_slave_worker(w)
             \/ handle_slave_worker_stop(w)
    BY <2>7, <2>8 DEF CommitEmpty, EngineCommit, handle_slave_worker,
                      handle_slave_worker_stop, Leave
  <2>9. CASE wait_for_its_turn(w)
    <3>1. /\ queue' = queue /\ deadlock' = deadlock
          /\ \A x \in Workers \ {w} : pc'[x] = pc[x]
          /\ pc'[w] = "wait" => ~queue_front(w) /\ ~deadlock[w]
      BY <1>1, <2>9 DEF wait_for_its_turn, Goto
    <3>2. CASE v = w
      BY <3>1, <3>2 DEF queue_front
    <3>3. CASE v # w
      BY <1>2, <3>1, <3>3
    <3> QED BY <3>2, <3>3
  <2>10. CASE SetSignal(w)
    BY <1>1, <1>2, <2>10 DEF SetSignal, Goto
  <2>11. CASE report_commit(w)
    BY <1>1, <1>2, <2>11 DEF report_commit, Goto
  <2>12. CASE report_rollback(w)
    BY <1>1, <1>2, <2>12 DEF report_rollback, Goto
  <2>13. CASE enroll_for(w)
    BY <1>1, <1>2, <2>13 DEF enroll_for, Goto
  <2>14. CASE ReturnToCommit(w)
    <3>1. CASE rollback
      BY <2>2, <2>14, <3>1 DEF ReturnToCommit
    <3>2. CASE ~rollback
      BY <1>1, <1>2, <2>14, <3>2 DEF ReturnToCommit, Goto
    <3> QED BY <3>1, <3>2
  <2>15. CASE slave_worker_ends_group(w)
    <3>1. CASE deadlock[w]
      BY <2>2, <2>15, <3>1 DEF slave_worker_ends_group
    <3>2. CASE ~deadlock[w]
      <4>1. EnterTurn(w, "report_commit") /\ queue' = queue /\ deadlock' = deadlock
        BY <2>15, <3>2 DEF slave_worker_ends_group
      <4> QED BY <2>4, <4>1
    <3> QED BY <3>1, <3>2
  <2>16. CASE unregister_trx(w)
    <3> DEFINE p == [pc EXCEPT ![w] = AfterUnregister(w)]
    <3>1. deadlock' = deadlock
      BY <2>16 DEF unregister_trx
    <3>2. AfterUnregister(w) \in Locations /\ AfterUnregister(w) # "wait"
      BY <1>1 DEF TypeOK, AfterUnregister, Locations, Reasons
    <3>3. p \in [Workers -> Locations] /\ \A x \in Workers : p[x] = "wait" => pc[x] = "wait"
      BY <1>1, <3>2
    <3>4. CASE status[w] # "OCS_SIGNAL"
      <4>1. pc' = p /\ queue' = queue
        BY <2>16, <3>4 DEF unregister_trx, Goto
      <4> QED BY <1>2, <3>1, <3>3, <4>1
    <3>5. CASE status[w] = "OCS_SIGNAL"
      <4>1. queue # <<>>
        BY <3>5 DEF IInv, QueueInv, TurnIsFront, queue_front
      <4>2. /\ queue' = Tail(queue)
            /\ pc' = IF queue' = <<>> THEN p ELSE Woken(p, Head(queue'))
        BY <2>16, <3>5 DEF unregister_trx
      <4> HIDE DEF p
      <4>3. CASE queue' = <<>>
        BY <3>1, <3>3, <4>2, <4>3 DEF NoLostWakeup, queue_front
      <4>4. CASE queue' # <<>>
        <5>1. Head(queue') \in Workers
          BY <1>1, <4>1, <4>2, <4>4
        <5> DEFINE h == Head(queue')
        <5>2. pc' = [p EXCEPT ![h] = IF p[h] = "wait" THEN "turn" ELSE p[h]]
          <6>1. pc' = Woken(p, h)
            BY <4>2, <4>4
          <6> QED BY <6>1 DEF Woken
        <5>3. pc'[Head(queue')] # "wait" /\ \A x \in Workers : pc'[x] = "wait" => p[x] = "wait"
          BY <3>3, <5>1, <5>2
        <5> QED BY <3>1, <3>3, <5>3 DEF NoLostWakeup, queue_front
      <4> QED BY <4>3, <4>4
    <3> QED BY <3>4, <3>5
  <2> QED BY Zenon, <1>6, <2>1, <2>3, <2>5, <2>6, <2>8, <2>9, <2>10, <2>11, <2>12,
             <2>13, <2>14, <2>15, <2>16 DEF WorkerStep
<1> QED BY <1>3, <1>4, <1>5, <1>6 DEF Next, Rest

(* Spec => []IInv, and from it the invariants the runs check.              *)
LEMMA Invariance == Spec => []IInv
<1>1. Init => IInv
  BY Initial
<1>2. IInv /\ [Next]_vars => IInv'
  BY Inductive
<1> QED BY <1>1, <1>2, PTL DEF Spec

(* Every variable keeps its type, for any number of workers, transactions  *)
(* and retries and with or without KILL.                                   *)
THEOREM TypeCorrect == Spec => []TypeOK
<1>1. IInv => TypeOK
  BY DEF IInv
<1> QED BY <1>1, Invariance, PTL

(* slave_preserve_commit_order: transactions enter the flush queue in the  *)
(* order of the relay log, and a transaction does so only after every      *)
(* earlier one has, whatever is retried, stopped or killed.                *)
THEOREM OrderIsPreserved == Spec => []OrderPreserved
<1>1. IInv => OrderPreserved
  BY DEF IInv, EnrolledInv
<1> QED BY <1>1, Invariance, PTL

(* The turn is exclusive and belongs to the front of the queue, from the   *)
(* end of wait_for_its_turn's loop to unregister_trx.                      *)
THEOREM TurnBelongsToFront == Spec => []TurnIsFront
<1>1. IInv => TurnIsFront
  BY DEF IInv, QueueInv
<1> QED BY <1>1, Invariance, PTL

(* The linked list stays in dispatch order, although register_trx pushes a *)
(* worker without looking whether it is still linked.                      *)
THEOREM QueueStaysInOrder == Spec => []QueueInDispatchOrder
<1>1. IInv => QueueInDispatchOrder
  BY DEF IInv, QueueInv
<1> QED BY <1>1, Invariance, PTL

(* No wakeup is lost: a worker asleep in wait_for_its_turn is neither at   *)
(* the front of the queue nor has it an order-commit deadlock to act on,   *)
(* although the deadlock flag is reset and the status set without m_mutex. *)
THEOREM NoWakeupIsLost == Spec => []NoLostWakeup
<1>1. Init => NoLostWakeup
  BY DEF Init, NoLostWakeup
<1>2. IInv /\ NoLostWakeup /\ [Next]_vars => NoLostWakeup'
  BY WakeupStep DEF NoLostWakeup
<1> QED BY <1>1, <1>2, Invariance, PTL DEF Spec
=============================================================================
