----------------------- MODULE CommitOrderUnregister ------------------------
(***************************************************************************)
(* The inductive invariant is preserved when a worker enters the flush queue *)
(* and when it leaves the commit order queue.                              *)
(***************************************************************************)
EXTENDS CommitOrderRegister

(* w leaves the queue.  It is at its front, and its transaction is binlog- *)
(* ged, empty or the one that failed.                                      *)
LEMMA UnregisterStep ==
    ASSUME IInv, NEW w \in Workers, unregister_trx(w)
    PROVE  IInv'
<1> USE DEF coordVars
<1>1. /\ TypeOK
      /\ queue \in Seq(Workers) /\ Len(queue) \in Nat
      /\ \A i \in 1..Len(queue) : queue[i] \in Workers
      /\ \A i \in 1..Len(rowq) : rowq[i] \in Workers
      /\ \A v \in Workers : trx[v] \in Nat
      /\ pc[w] \in {"stopped", "unregister"}
      /\ UNCHANGED <<rollback, deadlock, why, trx, retries, killed, coordVars,
                     rowq, outcome, enrolled>>
  BY NTrxAssumption DEF IInv, TypeOK, unregister_trx
<1>2. /\ pc[w] = "stopped" => rollback /\ status[w] = "OCS_SIGNAL"
      /\ pc[w] = "unregister" /\ why[w] = "commit"
            => status[w] = "OCS_SIGNAL" /\ outcome[trx[w]] # None /\ trx[w] # 0
      /\ pc[w] = "unregister" /\ why[w] = "report_commit"
            => status[w] # "OCS_WAIT" /\ outcome[trx[w]] # None
      /\ pc[w] = "unregister" /\ why[w] = "report_rollback" => rollback
      /\ why[w] \in Reasons /\ status[w] \in Statuses
  BY <1>1 DEF IInv, StatusInv, LocationInv, InTurn, TypeOK
<1>3. /\ AfterUnregister(w) \in Locations
      /\ AfterUnregister(w) \in {"return", "engine_commit", "idle", "leaving"}
      /\ AfterUnregister(w) = "return" <=> pc[w] = "stopped"
      /\ AfterUnregister(w) = "engine_commit"
            <=> pc[w] = "unregister" /\ why[w] = "commit"
      /\ AfterUnregister(w) = "idle"
            <=> pc[w] = "unregister" /\ why[w] = "report_commit"
      /\ AfterUnregister(w) = "leaving"
            <=> pc[w] = "unregister" /\ why[w] = "report_rollback"
  <2>1. CASE pc[w] = "stopped"
    BY <2>1 DEF AfterUnregister, Locations
  <2>2. CASE pc[w] = "unregister" /\ why[w] = "commit"
    BY <2>2 DEF AfterUnregister, Locations
  <2>3. CASE pc[w] = "unregister" /\ why[w] = "report_commit"
    BY <2>3 DEF AfterUnregister, Locations
  <2>4. CASE pc[w] = "unregister" /\ why[w] = "report_rollback"
    BY <2>4 DEF AfterUnregister, Locations
  <2> QED BY <1>1, <1>2, <2>1, <2>2, <2>3, <2>4 DEF Reasons
<1> DEFINE p == [pc EXCEPT ![w] = AfterUnregister(w)]
<1>4. p \in [Workers -> Locations] /\ p[w] = AfterUnregister(w)
      /\ \A v \in Workers \ {w} : p[v] = pc[v]
  BY <1>1, <1>3 DEF TypeOK
<1>5. /\ pc' \in [Workers -> Locations]
      /\ pc'[w] = AfterUnregister(w)
      /\ \A v \in Workers \ {w} :
            pc'[v] = pc[v] \/ (pc[v] = "wait" /\ pc'[v] = "turn")
      /\ queue' \in Seq(Workers)
      /\ status' \in [Workers -> Statuses]
      /\ \A v \in Workers \ {w} : status'[v] = status[v]
      /\ status[w] = "OCS_SIGNAL" =>
            /\ queue # <<>> /\ Head(queue) = w
            /\ queue' = Tail(queue)
            /\ status'[w] = "OCS_FINISH"
      /\ status[w] # "OCS_SIGNAL" => queue' = queue /\ status' = status
  <2>1. CASE status[w] = "OCS_SIGNAL"
    <3>1. queue # <<>> /\ Head(queue) = w
      BY <2>1 DEF IInv, QueueInv, TurnIsFront, queue_front
    <3>2. /\ queue' = Tail(queue)
          /\ status' = [status EXCEPT ![w] = "OCS_FINISH"]
          /\ pc' = IF queue' = <<>> THEN p ELSE Woken(p, Head(queue'))
      BY <2>1 DEF unregister_trx
    <3>3. queue' \in Seq(Workers)
      BY <1>1, <3>1, <3>2
    <3>4. /\ status' \in [Workers -> Statuses] /\ status'[w] = "OCS_FINISH"
          /\ \A v \in Workers \ {w} : status'[v] = status[v]
      BY <1>1, <3>2 DEF TypeOK, Statuses
    <3>5. /\ pc' \in [Workers -> Locations]
          /\ \A v \in Workers : pc'[v] = p[v] \/ (p[v] = "wait" /\ pc'[v] = "turn")
      <4> HIDE DEF p
      <4>1. CASE queue' = <<>>
        BY <1>4, <3>2, <4>1
      <4>2. CASE queue' # <<>>
        <5>1. Head(queue') \in Workers
          BY <3>3, <4>2
        <5> QED BY <1>4, <3>2, <4>2, <5>1, WokenProperties
      <4> QED BY <4>1, <4>2
    <3> HIDE DEF p
    <3>6. pc'[w] = AfterUnregister(w)
      BY <1>3, <1>4, <3>5
    <3>7. \A v \in Workers \ {w} :
            pc'[v] = pc[v] \/ (pc[v] = "wait" /\ pc'[v] = "turn")
      BY <1>4, <3>5
    <3>8. queue' = Tail(queue)
      BY <3>2
    <3> QED BY <2>1, <3>1, <3>3, <3>4, <3>5, <3>6, <3>7, <3>8
  <2>2. CASE status[w] # "OCS_SIGNAL"
    <3>1. pc' = p /\ queue' = queue /\ status' = status
      BY <2>2 DEF unregister_trx, Goto
    <3> HIDE DEF p
    <3> QED BY <1>1, <1>4, <2>2, <3>1 DEF TypeOK
  <2> QED BY <2>1, <2>2
<1> HIDE DEF p
<1>6. TypeOK'
  BY <1>1, <1>5 DEF TypeOK
<1>7. RowInv'
  <2>1. ASSUME NEW i \in 1..Len(rowq)
        PROVE  /\ pc[rowq[i]] = "lockwait" => pc'[rowq[i]] = "lockwait"
               /\ pc'[rowq[i]] \notin {"idle", "retry", "clean", "ends_group", "exited"}
               /\ pc'[rowq[i]] \in InTurn => why[rowq[i]] # "report_commit"
    <3>1. /\ pc[rowq[i]] \notin {"idle", "retry", "clean", "ends_group", "exited"}
          /\ pc[rowq[i]] \in InTurn => why[rowq[i]] # "report_commit"
      BY DEF IInv, RowInv
    <3>2. CASE rowq[i] = w
      BY <1>1, <1>3, <1>5, <3>1, <3>2 DEF InTurn
    <3>3. CASE rowq[i] # w
      BY <1>1, <1>5, <3>1, <3>3 DEF InTurn
    <3> QED BY <3>2, <3>3
  <2>2. \A i \in 2..Len(rowq) : pc[rowq[i]] = "lockwait" /\ i \in 1..Len(rowq)
    <3>1. rowq \in Seq(Workers)
      BY DEF IInv, TypeOK
    <3>2. \A i \in 2..Len(rowq) : i \in 1..Len(rowq)
      BY <3>1
    <3> QED BY <3>2 DEF IInv, RowInv
  <2>3. \A i, j \in 1..Len(rowq) : rowq[i] = rowq[j] => i = j
    BY DEF IInv, RowInv
  <2> QED BY <1>1, <2>1, <2>2, <2>3 DEF RowInv, InTurn
<1>8. \A x \in Workers : x # w /\ Contains(queue, x) => Contains(queue', x)
  <2>1. CASE status[w] = "OCS_SIGNAL"
    <3>1. queue' = Tail(queue) /\ queue # <<>> /\ Head(queue) = w
      BY <1>5, <2>1
    <3>2. queue[1] = w /\ \A i \in 1..Len(queue) : i # 1 =>
             i - 1 \in 1..Len(queue') /\ queue'[i - 1] = queue[i]
      <4>1. queue \in Seq(Workers)
        BY <1>1
      <4> QED BY <3>1, <4>1, PopProperties
    <3>3. ASSUME NEW x \in Workers, x # w, NEW i \in 1..Len(queue), queue[i] = x
          PROVE  \E j \in 1..Len(queue') : queue'[j] = x
      BY <3>2, <3>3
    <3> QED BY <3>3 DEF Contains
  <2> QED BY <1>5, <2>1 DEF Contains
<1>9. DeadlockInv'
  <2>1. ASSUME NEW v \in Workers, deadlock[v]
        PROVE  /\ ~(pc'[v] \in InTurn /\ why[v] = "report_commit")
               /\ \/ rollback
                  \/ pc'[v] \in {"retry", "clean", "exited"}
                  \/ pc'[v] = "ends_group" /\ status'[v] = "OCS_WAIT"
                  \/ Held(v)' /\ \E x \in Workers : Blocked(x)' /\ trx[x] < trx[v]
    <3>1. ~(pc[v] \in InTurn /\ why[v] = "report_commit")
      BY <2>1 DEF IInv, DeadlockInv
    <3>2. ~(pc'[v] \in InTurn /\ why[v] = "report_commit")
      <4>1. CASE v = w
        BY <1>1, <1>3, <1>5, <3>1, <4>1 DEF InTurn
      <4>2. CASE v # w
        BY <1>5, <3>1, <4>2 DEF InTurn
      <4> QED BY <4>1, <4>2
    <3>3. CASE ~rollback /\ Held(v) /\ \E x \in Workers : Blocked(x) /\ trx[x] < trx[v]
      <4>1. PICK x \in Workers : Blocked(x) /\ trx[x] < trx[v]
        BY <3>3
      <4>2. x # w
        BY <1>1, <1>2, <3>3, <4>1 DEF Blocked, InTurn
      <4>3. Contains(queue', x)
        BY <1>8, <4>1, <4>2 DEF Blocked
      <4>4. Blocked(x)'
        BY <1>1, <1>5, <4>1, <4>2, <4>3 DEF Blocked, InTurn
      <4> QED BY <1>1, <3>2, <3>3, <4>1, <4>4 DEF Held
    <3>4. CASE rollback
      BY <3>2, <3>4
    <3>5. CASE ~rollback /\ ~(Held(v) /\ \E x \in Workers : Blocked(x) /\ trx[x] < trx[v])
      <4>1. v # w
        BY <1>1, <2>1, <3>5 DEF IInv, DeadlockInv
      <4> QED BY <1>5, <2>1, <3>2, <3>5, <4>1 DEF IInv, DeadlockInv
    <3> QED BY <3>3, <3>4, <3>5
  <2> QED BY <1>1, <2>1 DEF DeadlockInv, InTurn
<1>10. StatusInv'
  <2>1. \A v \in Workers \ {w} : StatusInv!(v) => StatusInv!(v)'
    BY <1>1, <1>5
  <2>2. StatusInv!(w)'
    BY <1>1, <1>2, <1>3, <1>5 DEF Statuses
  <2> QED BY <2>1, <2>2 DEF IInv, StatusInv
<1>11. LocationInv'
  <2>1. \A v \in Workers \ {w} : LocationInv!(v) => LocationInv!(v)'
    <3>1. UNCHANGED <<rollback, trx, why, outcome, coord>>
      BY <1>1
    <3> QED BY <1>5, <3>1 DEF InTurn, Resolved
  <2>2. LocationInv!(w)'
    BY <1>1, <1>2, <1>3, <1>5 DEF InTurn, IInv, LocationInv
  <2> QED BY <2>1, <2>2 DEF IInv, LocationInv
<1>12. QueueInv' /\ EnrolledInv'
  <2>1. OrderPreserved'
    BY <1>1 DEF IInv, EnrolledInv, OrderPreserved
  <2>2. \A v \in Workers : pc[v] = "unregister" /\ v # w => pc'[v] = "unregister"
    BY <1>5
  <2>3. CASE status[w] # "OCS_SIGNAL"
    <3>1. queue' = queue /\ status' = status /\ ~(pc[w] = "unregister" /\ why[w] = "commit")
      BY <1>2, <1>5, <2>3, SMTT(20)
    <3>2. QueueInv'
      BY <1>1, <1>3, <1>5, <3>1
         DEF IInv, QueueInv, QueueInDispatchOrder, TurnIsFront, queue_front, Contains
    <3>3. \A k \in 1..Len(queue) :
             pc[queue[k]] = "unregister" /\ why[queue[k]] = "commit"
                => pc'[queue[k]] = "unregister"
      BY <1>1, <2>2, <3>1
    <3> QED BY <1>1, <2>1, <3>1, <3>2, <3>3 DEF IInv, EnrolledInv
  <2>4. CASE status[w] = "OCS_SIGNAL"
    <3>1. /\ queue[1] = w /\ Len(queue) >= 1 /\ 1 \in 1..Len(queue)
          /\ Len(queue') = Len(queue) - 1
          /\ \A i \in 1..Len(queue') :
                queue'[i] = queue[i + 1] /\ i + 1 \in 1..Len(queue) /\ 1 < i + 1
          /\ \A i \in 1..Len(queue) : i # 1 =>
                i - 1 \in 1..Len(queue') /\ queue'[i - 1] = queue[i]
      <4>1. queue \in Seq(Workers) /\ queue # <<>> /\ Head(queue) = w
            /\ queue' = Tail(queue)
        BY <1>1, <1>5, <2>4
      <4> QED BY <4>1, PopProperties
    <3>2. \A i \in 1..Len(queue') :
             trx[w] < trx[queue'[i]] /\ queue'[i] \in Workers \ {w}
      BY <1>1, <3>1 DEF IInv, QueueInv, QueueInDispatchOrder
    <3>3. QueueInDispatchOrder'
      BY <1>1, <3>1 DEF IInv, QueueInv, QueueInDispatchOrder
    <3>4. TurnIsFront'
      <4>1. ASSUME NEW v \in Workers
            PROVE  pc'[v] # "signal" /\ status'[v] # "OCS_SIGNAL"
        <5>1. CASE v = w
          BY <1>3, <1>5, <2>4, <5>1
        <5>2. CASE v # w
          BY <1>5, <2>4, <5>2 DEF IInv, QueueInv, TurnIsFront, queue_front
        <5> QED BY <5>1, <5>2
      <4> QED BY <4>1 DEF TurnIsFront
    <3>5. \A v \in Workers : status'[v] = "OCS_WAIT" => Contains(queue', v) \/ rollback
      BY <1>5, <1>8, <2>4 DEF IInv, QueueInv
    <3>6. ASSUME NEW v \in Workers, status'[v] = "OCS_FINISH"
          PROVE  ~Contains(queue', v)
      <4>1. CASE v = w
        BY <3>2, <4>1 DEF Contains
      <4>2. CASE v # w
        <5>1. ~Contains(queue, v)
          BY <1>5, <3>6, <4>2 DEF IInv, QueueInv
        <5> QED BY <3>1, <5>1 DEF Contains
      <4> QED BY <4>1, <4>2
    <3>7. ASSUME NEW u \in 1..(next - 1), outcome[u] = None, ~rollback
          PROVE  \E i \in 1..Len(queue') : trx[queue'[i]] = u
      <4>1. PICK i \in 1..Len(queue) : trx[queue[i]] = u
        BY <3>7 DEF IInv, QueueInv
      <4>2. i # 1
        BY <1>1, <1>2, <3>1, <3>7, <4>1 DEF Reasons
      <4>3. i - 1 \in 1..Len(queue') /\ queue'[i - 1] = queue[i]
        BY <3>1, <4>2
      <4> QED BY <4>1, <4>3
    <3>8. ASSUME NEW v \in Workers, status'[v] = "OCS_FINISH", ~rollback,
                 NEW i \in 1..Len(queue')
          PROVE  trx[v] < trx[queue'[i]]
      <4>1. CASE v = w
        BY <3>2, <4>1
      <4>2. CASE v # w
        BY <1>5, <3>1, <3>8, <4>2, Zenon DEF IInv, QueueInv
      <4> QED BY <4>1, <4>2
    <3>9. QueueInv'
      <4>1. \A v \in Workers : trx[v] < next
        BY DEF IInv, QueueInv
      <4> QED BY <1>1, <3>3, <3>4, <3>5, <3>6, <3>7, <3>8, <4>1 DEF QueueInv
    <3>10. ASSUME NEW i \in 1..Len(enrolled), NEW k \in 1..Len(queue')
           PROVE  \/ enrolled[i] < trx[queue'[k]]
                  \/ /\ enrolled[i] = trx[queue'[k]]
                     /\ pc'[queue'[k]] = "unregister"
                     /\ why[queue'[k]] = "commit"
      <4>1. queue'[k] = queue[k + 1] /\ k + 1 \in 1..Len(queue)
        BY <3>1
      <4>2. \/ enrolled[i] < trx[queue[k + 1]]
            \/ /\ enrolled[i] = trx[queue[k + 1]]
               /\ pc[queue[k + 1]] = "unregister"
               /\ why[queue[k + 1]] = "commit"
        BY <4>1 DEF IInv, EnrolledInv
      <4> QED BY <2>2, <3>2, <4>1, <4>2
    <3>11. \A i \in 1..Len(enrolled) : enrolled[i] < next
      BY DEF IInv, EnrolledInv
    <3> QED BY <1>1, <2>1, <3>9, <3>10, <3>11 DEF EnrolledInv
  <2> QED BY <2>3, <2>4
<1> QED BY <1>6, <1>7, <1>9, <1>10, <1>11, <1>12 DEF IInv

(* w enters the flush queue: everything before its transaction is binlog-  *)
(* ged or empty, and everything behind it in the queue is later.           *)
LEMMA EnrollStep ==
    ASSUME IInv, NEW w \in Workers, enroll_for(w)
    PROVE  IInv'
<1> USE DEF managerVars, coordVars
<1>1. /\ TypeOK
      /\ pc[w] = "enroll" /\ why[w] = "commit" /\ status[w] = "OCS_SIGNAL"
      /\ trx[w] \in Trxs /\ trx[w] \in Nat /\ Resolved(trx[w])
      /\ UNCHANGED <<managerVars, deadlock, why, trx, retries, killed,
                     coordVars, rowq>>
      /\ enrolled' = Append(enrolled, trx[w])
      /\ pc' = [pc EXCEPT ![w] = "unregister"]
      /\ outcome' = [outcome EXCEPT ![trx[w]] = "binlogged"]
  BY NTrxAssumption
     DEF IInv, TypeOK, Trxs, LocationInv, StatusInv, enroll_for, Goto
<1>2. /\ pc' \in [Workers -> Locations] /\ pc'[w] = "unregister"
      /\ \A v \in Workers \ {w} : pc'[v] = pc[v]
  BY <1>1 DEF TypeOK, Locations
<1>3. /\ outcome' \in [Trxs -> {None, "binlogged", "empty"}]
      /\ outcome'[trx[w]] # None
      /\ \A u \in Trxs : outcome[u] # None => outcome'[u] # None
  BY <1>1 DEF TypeOK, None
<1>4. /\ enrolled \in Seq(Trxs) /\ enrolled' \in Seq(Trxs)
      /\ Len(enrolled) \in Nat /\ Len(enrolled') = Len(enrolled) + 1
      /\ \A i \in 1..Len(enrolled) : enrolled'[i] = enrolled[i]
      /\ enrolled'[Len(enrolled) + 1] = trx[w]
      /\ \A i \in 1..Len(enrolled') : i \in 1..Len(enrolled) \/ i = Len(enrolled) + 1
      /\ \A i \in 1..Len(enrolled) : enrolled[i] \in Trxs
  BY <1>1 DEF TypeOK
<1>5. TypeOK'
  BY <1>1, <1>2, <1>3, <1>4 DEF TypeOK
<1>6. RowInv'
  <2>1. \A i \in 1..Len(rowq) : rowq[i] \in Workers
    BY <1>1 DEF TypeOK
  <2>2. ASSUME NEW i \in 1..Len(rowq)
        PROVE  /\ pc[rowq[i]] = "lockwait" => pc'[rowq[i]] = "lockwait"
               /\ pc'[rowq[i]] \notin {"idle", "retry", "clean", "ends_group", "exited"}
               /\ pc'[rowq[i]] \in InTurn => why[rowq[i]] # "report_commit"
    BY <1>1, <1>2, <2>1 DEF IInv, RowInv
  <2>3. \A i \in 2..Len(rowq) : pc[rowq[i]] = "lockwait" /\ i \in 1..Len(rowq)
    BY <1>1, SMTT(20) DEF IInv, RowInv, TypeOK
  <2> QED BY <1>1, <2>2, <2>3 DEF IInv, RowInv, InTurn
<1>7. ASSUME NEW x \in Workers, Blocked(x)
      PROVE  Blocked(x)'
  BY <1>1, <1>2, <1>7 DEF Blocked, InTurn, Contains
<1>8. DeadlockInv'
  <2>1. \A v \in Workers : Held(v) => Held(v)'
    BY <1>1 DEF Held
  <2>2. ASSUME NEW v \in Workers, deadlock[v]
        PROVE  /\ ~(pc'[v] \in InTurn /\ why[v] = "report_commit")
               /\ \/ rollback
                  \/ pc'[v] \in {"retry", "clean", "exited"}
                  \/ pc'[v] = "ends_group" /\ status[v] = "OCS_WAIT"
                  \/ Held(v)' /\ \E x \in Workers : Blocked(x)' /\ trx[x] < trx[v]
    <3>1. ~(pc'[v] \in InTurn /\ why[v] = "report_commit")
      BY <1>1, <1>2, <2>2 DEF IInv, DeadlockInv
    <3>2. CASE Held(v) /\ \E x \in Workers : Blocked(x) /\ trx[x] < trx[v]
      BY <1>7, <2>1, <3>1, <3>2
    <3>3. CASE ~(Held(v) /\ \E x \in Workers : Blocked(x) /\ trx[x] < trx[v])
      BY <1>1, <1>2, <2>2, <3>1, <3>3 DEF IInv, DeadlockInv
    <3> QED BY <3>2, <3>3
  <2> QED BY <1>1, <2>2 DEF DeadlockInv, InTurn
<1>9. StatusInv'
  BY <1>1, <1>2 DEF IInv, StatusInv
<1>10. LocationInv'
  <2>1. \A v \in Workers : trx[v] # 0 => trx[v] \in Trxs
    BY <1>1 DEF TypeOK, Trxs
  <2>2. \A v \in Workers : Resolved(trx[v]) => Resolved(trx[v])'
    BY <1>1, <1>3, NTrxAssumption DEF Resolved, TypeOK, Trxs
  <2>3. \A v \in Workers \ {w} : LocationInv!(v) => LocationInv!(v)'
    BY <1>1, <1>2, <1>3, <2>1, <2>2 DEF InTurn
  <2>4. LocationInv!(w)'
    BY <1>1, <1>2, <1>3 DEF InTurn, Trxs
  <2> QED BY <2>3, <2>4 DEF IInv, LocationInv
<1>11. QueueInv'
  <2>1. \A u \in 1..(next - 1) : u \in Trxs
    BY <1>1, NTrxAssumption DEF TypeOK, Trxs
  <2> QED BY <1>1, <1>2, <1>3, <2>1
          DEF IInv, QueueInv, QueueInDispatchOrder, TurnIsFront, queue_front, Contains
<1>12. /\ queue \in Seq(Workers) /\ queue # <<>> /\ queue[1] = w /\ 1 \in 1..Len(queue)
       /\ \A k \in 1..Len(queue) : queue[k] \in Workers
       /\ \A k \in 1..Len(queue) : k # 1 => trx[w] < trx[queue[k]] /\ queue[k] # w
  <2>1. queue \in Seq(Workers) /\ queue # <<>> /\ Head(queue) = w
    BY <1>1 DEF TypeOK, IInv, QueueInv, TurnIsFront, queue_front
  <2>2. queue[1] = w /\ 1 \in 1..Len(queue)
    BY <2>1
  <2>3. \A k \in 1..Len(queue) : k # 1 => trx[w] < trx[queue[k]]
    BY <2>1, <2>2 DEF IInv, QueueInv, QueueInDispatchOrder
  <2> QED BY <1>1, <2>1, <2>2, <2>3
<1>13. EnrolledInv'
  <2>1. \A i \in 1..Len(enrolled) : enrolled[i] < trx[w]
    BY <1>1, <1>12 DEF IInv, EnrolledInv
  <2>2. OrderPreserved'
    <3>1. ASSUME NEW i \in 1..Len(enrolled'), NEW j \in 1..(i - 1)
          PROVE  enrolled'[j] < enrolled'[i]
      <4>1. j \in 1..Len(enrolled)
        BY <1>4
      <4>2. CASE i \in 1..Len(enrolled)
        BY <1>4, <4>1, <4>2 DEF IInv, EnrolledInv, OrderPreserved
      <4>3. CASE i = Len(enrolled) + 1
        BY <1>4, <2>1, <4>1, <4>3
      <4> QED BY <1>4, <4>2, <4>3
    <3>2. ASSUME NEW i \in 1..Len(enrolled'), NEW u \in 1..(enrolled'[i] - 1)
          PROVE  outcome'[u] # None
      <4>1. u \in Trxs
        BY <1>4, NTrxAssumption DEF Trxs
      <4>2. CASE i \in 1..Len(enrolled)
        BY <1>3, <1>4, <4>1, <4>2 DEF IInv, EnrolledInv, OrderPreserved
      <4>3. CASE i = Len(enrolled) + 1
        BY <1>1, <1>3, <1>4, <4>1, <4>3 DEF Resolved
      <4> QED BY <1>4, <4>2, <4>3
    <3> QED BY <3>1, <3>2 DEF OrderPreserved
  <2>3. ASSUME NEW i \in 1..Len(enrolled'), NEW k \in 1..Len(queue)
        PROVE  \/ enrolled'[i] < trx[queue[k]]
               \/ /\ enrolled'[i] = trx[queue[k]]
                  /\ pc'[queue[k]] = "unregister"
                  /\ why[queue[k]] = "commit"
    <3>1. CASE i = Len(enrolled) + 1
      BY <1>1, <1>2, <1>4, <1>12, <3>1
    <3>2. CASE i \in 1..Len(enrolled)
      <4>1. \/ enrolled[i] < trx[queue[k]]
            \/ /\ enrolled[i] = trx[queue[k]]
               /\ pc[queue[k]] = "unregister"
               /\ why[queue[k]] = "commit"
        BY <3>2 DEF IInv, EnrolledInv
      <4>2. pc[queue[k]] = "unregister" => pc'[queue[k]] = "unregister"
        BY <1>1, <1>2, <1>12
      <4> QED BY <1>4, <3>2, <4>1, <4>2
    <3> QED BY <1>4, <3>1, <3>2
  <2>4. ASSUME NEW i \in 1..Len(enrolled')
        PROVE  enrolled'[i] < next
    BY <1>4 DEF IInv, EnrolledInv, QueueInv
  <2>5. queue' = queue /\ trx' = trx /\ why' = why /\ next' = next
    BY <1>1
  <2> QED BY <2>2, <2>3, <2>4, <2>5, SMTT(20) DEF EnrolledInv
<1> QED BY <1>5, <1>6, <1>8, <1>9, <1>10, <1>11, <1>13 DEF IInv

=============================================================================
