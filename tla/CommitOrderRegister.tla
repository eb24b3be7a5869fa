------------------------ MODULE CommitOrderRegister -------------------------
(***************************************************************************)
(* The inductive invariant is preserved when the coordinator registers a   *)
(* transaction and when a worker requests the row lock.                    *)
(***************************************************************************)
EXTENDS CommitOrderInv

(* The coordinator registers w.  Without a rollback w is not linked, so    *)
(* nothing is cut off the queue.                                           *)
LEMMA RegisterStep ==
    ASSUME IInv, NEW w \in Workers, get_least_occupied_worker(w)
    PROVE  IInv'
<1> DEFINE p == queue_push(queue, w)
<1>1. /\ TypeOK
      /\ next \in 1..NTrx
      /\ queue' = p
      /\ queue \in Seq(Workers) /\ Len(queue) \in Nat
      /\ \A i \in 1..Len(queue) : queue[i] \in Workers
      /\ rowq \in Seq(Workers) /\ Len(rowq) \in Nat
      /\ \A i \in 1..Len(rowq) : rowq[i] \in Workers
      /\ \A v \in Workers : trx[v] \in Nat
      /\ pc[w] \in {"idle", "exited"}
  BY NTrxAssumption DEF IInv, TypeOK, get_least_occupied_worker, register_trx,
                   append_item_to_jobs, Trxs
<1>2. /\ p \in Seq(Workers)
      /\ Len(p) \in 1..(Len(queue) + 1)
      /\ p[Len(p)] = w
      /\ \A i \in 1..(Len(p) - 1) : i \in 1..Len(queue) /\ p[i] = queue[i]
      /\ queue # <<>> => Head(p) = Head(queue)
      /\ ~Contains(queue, w) => Len(p) = Len(queue) + 1
      /\ Contains(queue, w) => Len(p) <= Len(queue) /\ queue[Len(p)] = w
  <2>1. queue \in Seq(Workers)
    BY <1>1
  <2> QED BY <2>1, PushProperties, Zenon
<1> HIDE DEF p
<1>3. \A i \in 1..(Len(p) - 1) : p[i] # w
  <2>1. QueueInDispatchOrder
    BY DEF IInv, QueueInv
  <2>2. \A i, j \in 1..Len(queue) : i < j => queue[i] # queue[j]
    BY <1>1, <2>1 DEF QueueInDispatchOrder
  <2>3. CASE Contains(queue, w)
    BY <1>1, <1>2, <2>2, <2>3
  <2>4. CASE ~Contains(queue, w)
    BY <1>2, <2>4 DEF Contains
  <2> QED BY <2>3, <2>4
<1>4. rollback \/ (pc[w] = "idle" /\ Len(p) = Len(queue) + 1)
  BY <1>2 DEF IInv, StatusInv, QueueInv, LocationInv,
              get_least_occupied_worker, register_trx,
              append_item_to_jobs
<1>5. /\ status' \in [Workers -> Statuses] /\ status'[w] = "OCS_WAIT"
      /\ \A v \in Workers \ {w} : status'[v] = status[v]
      /\ trx' \in [Workers -> 0..NTrx] /\ trx'[w] = next
      /\ \A v \in Workers \ {w} : trx'[v] = trx[v]
      /\ pc' \in [Workers -> Locations]
      /\ pc'[w] \in {"apply", "exited"}
      /\ pc'[w] = "exited" => rollback
      /\ \A v \in Workers \ {w} : pc'[v] = pc[v]
      /\ next' = next + 1
      /\ coord = "running"
      /\ coord' \in {"running", "stopped"}
      /\ retries' \in [Workers -> 0..TransRetries]
      /\ UNCHANGED <<rollback, deadlock, why, killed, partial, rowq, outcome,
                     enrolled>>
  <2>1. /\ status' \in [Workers -> Statuses] /\ status'[w] = "OCS_WAIT"
        /\ \A v \in Workers \ {w} : status'[v] = status[v]
        /\ trx' \in [Workers -> 0..NTrx] /\ trx'[w] = next
        /\ \A v \in Workers \ {w} : trx'[v] = trx[v]
    BY <1>1, NTrxAssumption DEF TypeOK, get_least_occupied_worker, register_trx,
                   append_item_to_jobs, Statuses
  <2>2. CASE pc[w] = "idle"
    <3>1. /\ pc' = [pc EXCEPT ![w] = "apply"]
          /\ retries' = [retries EXCEPT ![w] = 0]
          /\ next' = next + 1 /\ coord = "running" /\ coord' = coord
          /\ UNCHANGED <<rollback, deadlock, why, killed, partial, rowq,
                         outcome, enrolled>>
      BY <2>2 DEF get_least_occupied_worker, register_trx,
                   append_item_to_jobs, Goto
    <3>2. retries' \in [Workers -> 0..TransRetries]
      BY <1>1, <3>1, RetriesAssumption DEF TypeOK
    <3>3. /\ pc' \in [Workers -> Locations] /\ pc'[w] = "apply"
          /\ \A v \in Workers \ {w} : pc'[v] = pc[v]
      BY <1>1, <3>1 DEF TypeOK, Locations
    <3> QED BY <2>1, <3>1, <3>2, <3>3
  <2>3. CASE pc[w] = "exited"
    BY <1>1, <1>4, <2>1, <2>3 DEF TypeOK, get_least_occupied_worker, register_trx,
                   append_item_to_jobs
  <2> QED BY <1>1, <2>2, <2>3
<1>6. TypeOK'
  <2>1. next' \in 1..(NTrx + 1)
    BY <1>1, <1>5, NTrxAssumption
  <2> QED BY <1>1, <1>2, <1>5, <2>1, Zenon DEF TypeOK
<1>7. \A i \in 1..Len(rowq) : rowq[i] # w
  BY DEF IInv, RowInv, get_least_occupied_worker, register_trx,
                   append_item_to_jobs
<1>8. RowInv'
  <2>1. \A i \in 1..Len(rowq) : pc'[rowq[i]] = pc[rowq[i]]
    BY <1>1, <1>5, <1>7
  <2>2. \A i \in 2..Len(rowq) : i \in 1..Len(rowq)
    BY <1>1
  <2>3. \A i \in 2..Len(rowq) : pc'[rowq[i]] = "lockwait"
    BY <2>1, <2>2 DEF IInv, RowInv
  <2>4. \A i \in 1..Len(rowq) :
          /\ pc'[rowq[i]] \notin {"idle", "retry", "clean", "ends_group", "exited"}
          /\ pc'[rowq[i]] \in InTurn => why[rowq[i]] # "report_commit"
    BY <2>1 DEF IInv, RowInv
  <2> QED BY <1>5, <2>3, <2>4 DEF IInv, RowInv, InTurn
<1>9. DeadlockInv'
  <2>1. ASSUME NEW v \in Workers, deadlock[v]
        PROVE  /\ ~(pc'[v] \in InTurn /\ why[v] = "report_commit")
               /\ \/ rollback
                  \/ pc'[v] \in {"retry", "clean", "exited"}
                  \/ pc'[v] = "ends_group" /\ status'[v] = "OCS_WAIT"
                  \/ Held(v)' /\ \E x \in Workers : Blocked(x)' /\ trx'[x] < trx'[v]
    <3>1. ~(pc'[v] \in InTurn /\ why[v] = "report_commit")
      BY <1>5, <2>1 DEF IInv, DeadlockInv, InTurn
    <3>2. CASE rollback
      BY <3>1, <3>2
    <3>3. CASE ~rollback
      <4>1. pc[w] = "idle" /\ Len(p) = Len(queue) + 1
        BY <1>4, <3>3
      <4>2. ~Held(w)
        BY <1>1, <1>7 DEF Held, TypeOK
      <4>3. v # w
        BY <2>1, <3>3, <4>1, <4>2 DEF IInv, DeadlockInv
      <4>4. CASE Held(v) /\ \E x \in Workers : Blocked(x) /\ trx[x] < trx[v]
        <5>1. PICK x \in Workers : Blocked(x) /\ trx[x] < trx[v]
          BY <4>4
        <5>2. x # w
          BY <4>1, <5>1 DEF Blocked, InTurn
        <5>3. Contains(queue', x)
          <6>1. PICK i \in 1..Len(queue) : queue[i] = x
            BY <5>1 DEF Blocked, Contains
          <6>2. i \in 1..(Len(p) - 1) /\ i \in 1..Len(p)
            BY <1>1, <4>1
          <6> QED BY <1>1, <1>2, <6>1, <6>2, Zenon DEF Contains
        <5>4. Blocked(x)'
          BY <1>5, <5>1, <5>2, <5>3 DEF Blocked, InTurn
        <5> QED BY <1>5, <3>1, <4>3, <4>4, <5>1, <5>2, <5>4 DEF Held
      <4>5. CASE ~(Held(v) /\ \E x \in Workers : Blocked(x) /\ trx[x] < trx[v])
        BY <1>5, <2>1, <3>1, <3>3, <4>3, <4>5 DEF IInv, DeadlockInv
      <4> QED BY <4>4, <4>5
    <3> QED BY <3>2, <3>3
  <2> QED BY <1>5, <2>1 DEF DeadlockInv, InTurn
<1>10. StatusInv'
  BY <1>5 DEF IInv, StatusInv
<1>11. LocationInv'
  <2>1. \A v \in Workers \ {w} : LocationInv!(v) => LocationInv!(v)'
    BY <1>5 DEF InTurn, Resolved
  <2> QED BY <1>1, <1>5, <2>1 DEF IInv, LocationInv, InTurn
<1>12. QueueInv'
  <2> DEFINE n == Len(p) - 1
  <2>0. /\ n \in Nat /\ \A i \in 1..Len(p) : i \in 1..n \/ i = Len(p)
        /\ \A i \in 1..n : i \in 1..Len(p) /\ i \in 1..Len(queue)
        /\ \A i \in 1..n : p[i] = queue[i] /\ p[i] # w /\ p[i] \in Workers
        /\ \A i \in 1..n : trx'[p[i]] = trx[queue[i]]
        /\ \A v \in Workers : trx[v] < next
    <3>1. n \in Nat /\ \A i \in 1..Len(p) : i \in 1..n \/ i = Len(p)
      BY <1>1, <1>2
    <3>2. \A i \in 1..n : i \in 1..Len(p) /\ i \in 1..Len(queue)
      BY <1>1, <1>2
    <3>3. \A i \in 1..n : p[i] = queue[i] /\ p[i] # w /\ p[i] \in Workers
      BY <1>1, <1>2, <1>3
    <3>4. \A v \in Workers : trx[v] < next
      BY DEF IInv, QueueInv
    <3> QED BY <1>5, <3>1, <3>2, <3>3, <3>4
  <2>1. QueueInDispatchOrder'
    <3>1. ASSUME NEW i \in 1..Len(p), NEW j \in 1..Len(p), i < j
          PROVE  trx'[p[i]] < trx'[p[j]]
      <4>1. i \in 1..n
        BY <1>2, <3>1
      <4>2. CASE j \in 1..n
        BY <2>0, <3>1, <4>1, <4>2, Zenon DEF IInv, QueueInv, QueueInDispatchOrder
      <4>3. CASE j = Len(p)
        BY <1>2, <1>5, <2>0, <4>1, <4>3, Zenon
      <4> QED BY <2>0, <4>2, <4>3
    <3> QED BY <1>1, <3>1 DEF QueueInDispatchOrder
  <2>2. TurnIsFront'
    <3>1. ASSUME NEW v \in Workers, pc'[v] = "signal" \/ status'[v] = "OCS_SIGNAL"
          PROVE  p # <<>> /\ Head(p) = v
      <4>1. v # w
        BY <1>5, <3>1
      <4>2. queue # <<>> /\ Head(queue) = v
        BY <1>5, <3>1, <4>1 DEF IInv, QueueInv, TurnIsFront, queue_front
      <4> QED BY <1>2, <4>2
    <3> QED BY <1>1, <3>1 DEF TurnIsFront, queue_front
  <2>3. ASSUME NEW v \in Workers
        PROVE  trx'[v] < next'
    <3>1. CASE v = w
      BY <1>1, <1>5, <3>1
    <3>2. CASE v # w
      <4>1. trx'[v] = trx[v] /\ trx[v] < next /\ trx[v] \in Nat
        BY <1>1, <1>5, <2>0, <3>2
      <4> QED BY <1>1, <1>5, <4>1
    <3> QED BY <3>1, <3>2
  <2>4. ASSUME NEW v \in Workers, status'[v] = "OCS_WAIT"
        PROVE  Contains(queue', v) \/ rollback
    <3>1. CASE v = w
      BY <1>1, <1>2, <3>1 DEF Contains
    <3>2. CASE v # w /\ ~rollback
      <4>1. Contains(queue, v)
        BY <1>5, <2>4, <3>2 DEF IInv, QueueInv
      <4>2. \A i \in 1..Len(queue) : i \in 1..n
        BY <1>1, <1>4, <3>2
      <4> QED BY <1>1, <2>0, <4>1, <4>2 DEF Contains
    <3> QED BY <3>1, <3>2
  <2>5. ASSUME NEW v \in Workers, status'[v] = "OCS_FINISH"
        PROVE  ~Contains(queue', v)
    <3>1. v # w /\ ~Contains(queue, v)
      BY <1>5, <2>5 DEF IInv, QueueInv
    <3> QED BY <1>1, <1>2, <2>0, <3>1, Zenon DEF Contains
  <2> HIDE DEF n
  <2>6. ASSUME NEW u \in 1..(next' - 1)
        PROVE  outcome[u] # None \/ rollback \/ \E i \in 1..Len(p) : trx'[p[i]] = u
    <3>1. CASE u = next
      BY <1>2, <1>5, <3>1
    <3>2. CASE u # next
      <4>1. u \in 1..(next - 1)
        BY <1>1, <1>5, <3>2
      <4>2. CASE ~rollback /\ outcome[u] = None
        <5>1. PICK i \in 1..Len(queue) : trx[queue[i]] = u
          BY <4>1, <4>2 DEF IInv, QueueInv
        <5>2. i \in 1..(Len(p) - 1) /\ i \in 1..Len(p)
          BY <1>1, <1>4, <4>2 DEF TypeOK
        <5> QED BY <1>1, <1>2, <1>3, <1>5, <5>1, <5>2, Zenon
      <4> QED BY <4>2
    <3> QED BY <3>1, <3>2
  <2>7. ASSUME NEW v \in Workers, status'[v] = "OCS_FINISH", ~rollback,
               NEW i \in 1..Len(p)
        PROVE  trx'[v] < trx'[p[i]]
    <3>1. v # w
      BY <1>5, <2>7
    <3>2. CASE i = Len(p)
      BY <1>2, <1>5, <3>1, <3>2, Zenon DEF IInv, QueueInv
    <3>3. CASE i # Len(p)
      <4>1. i \in 1..(Len(p) - 1)
        BY <1>2, <3>3
      <4>2. p[i] = queue[i] /\ p[i] # w /\ i \in 1..Len(queue)
        BY <1>2, <1>3, <4>1
      <4>3. trx[v] < trx[queue[i]]
        BY <1>5, <2>7, <3>1, <4>2, Zenon DEF IInv, QueueInv
      <4> QED BY <1>1, <1>5, <3>1, <4>2, <4>3
    <3> QED BY <3>2, <3>3
  <2> QED BY <1>1, <1>5, <2>1, <2>2, <2>3, <2>4, <2>5, <2>6, <2>7, SMTT(20) DEF QueueInv
<1>13. EnrolledInv'
  <2>1. OrderPreserved'
    BY <1>5 DEF IInv, EnrolledInv, OrderPreserved
  <2>2. \A i \in 1..Len(enrolled) : enrolled[i] < next'
    <3>1. \A i \in 1..Len(enrolled) : enrolled[i] < next
      BY DEF IInv, EnrolledInv
    <3>2. enrolled \in Seq(Trxs)
      BY DEF IInv, TypeOK
    <3>3. \A i \in 1..Len(enrolled) : enrolled[i] \in Nat
      BY <3>2, NTrxAssumption DEF Trxs
    <3> QED BY <1>1, <1>5, <3>1, <3>3
  <2>3. ASSUME NEW i \in 1..Len(enrolled), NEW k \in 1..Len(p)
        PROVE  \/ enrolled[i] < trx'[p[k]]
               \/ /\ enrolled[i] = trx'[p[k]]
                  /\ pc'[p[k]] = "unregister"
                  /\ why'[p[k]] = "commit"
    <3>1. CASE k = Len(p)
      BY <1>2, <1>5, <3>1 DEF IInv, EnrolledInv
    <3>2. CASE k # Len(p)
      <4>1. k \in 1..(Len(p) - 1)
        BY <1>2, <3>2
      <4>2. p[k] = queue[k] /\ p[k] # w /\ k \in 1..Len(queue) /\ queue[k] \in Workers
        BY <1>1, <1>2, <1>3, <4>1
      <4>3. /\ trx'[p[k]] = trx[queue[k]]
            /\ pc'[p[k]] = pc[queue[k]]
            /\ why'[p[k]] = why[queue[k]]
        BY <1>5, <4>2
      <4>4. \/ enrolled[i] < trx[queue[k]]
            \/ /\ enrolled[i] = trx[queue[k]]
               /\ pc[queue[k]] = "unregister"
               /\ why[queue[k]] = "commit"
        BY <4>2 DEF IInv, EnrolledInv
      <4> QED BY <4>3, <4>4
    <3> QED BY <3>1, <3>2
  <2> QED BY <1>1, <1>5, <2>1, <2>2, <2>3 DEF EnrolledInv
<1> QED BY <1>6, <1>8, <1>9, <1>10, <1>11, <1>12, <1>13 DEF IInv

(* w asks for the row and may report the worker that holds it: w itself is *)
(* the earlier transaction that is blocked.                                *)
LEMMA LockRequestStep ==
    ASSUME IInv, NEW w \in Workers, add_to_waitq(w)
    PROVE  IInv'
<1> USE DEF managerVars, coordVars
<1> DEFINE h == Head(rowq)
           report == rowq # <<>> /\ trx[h] > trx[w]
<1>1. /\ TypeOK
      /\ rowq \in Seq(Workers) /\ Len(rowq) \in Nat
      /\ \A i \in 1..Len(rowq) : rowq[i] \in Workers
      /\ pc[w] = "apply" /\ trx[w] \in RowTrx /\ ~Held(w)
      /\ rowq' = Append(rowq, w)
      /\ UNCHANGED <<managerVars, why, trx, retries, killed, coordVars,
                     outcome, enrolled>>
  BY DEF IInv, TypeOK, add_to_waitq
<1>2. \A i \in 1..Len(rowq) : rowq[i] # w
  <2>1. \A i \in 1..Len(rowq) : i = 1 \/ i \in 2..Len(rowq)
    BY <1>1
  <2>2. \A i \in 2..Len(rowq) : rowq[i] # w
    BY <1>1 DEF IInv, RowInv
  <2>3. Len(rowq) >= 1 => rowq[1] # w
    BY <1>1 DEF Held
  <2> QED BY <1>1, <2>1, <2>2, <2>3
<1>3. rowq # <<>> => h \in Workers /\ h # w /\ h = rowq[1] /\ 1 \in 1..Len(rowq)
  BY <1>1, <1>2
<1>4. /\ pc' \in [Workers -> Locations]
      /\ pc'[w] = IF rowq = <<>> THEN "apply" ELSE "lockwait"
      /\ \A v \in Workers \ {w} :
            pc'[v] = pc[v] \/ (pc[v] = "wait" /\ pc'[v] = "turn")
      /\ deadlock' \in [Workers -> BOOLEAN]
      /\ \A v \in Workers : deadlock'[v] => deadlock[v] \/ (report /\ v = h)
  <2>1. CASE rowq = <<>>
    BY <1>1, <2>1 DEF TypeOK, add_to_waitq
  <2>2. CASE rowq # <<>>
    <3>1. /\ deadlock' = [deadlock EXCEPT ![h] = @ \/ trx[h] > trx[w]]
          /\ pc' = [(IF trx[h] > trx[w] THEN Woken(pc, h) ELSE pc)
                      EXCEPT ![w] = "lockwait"]
      BY <2>2 DEF add_to_waitq
    <3>2. Woken(pc, h) = [pc EXCEPT ![h] = IF pc[h] = "wait" THEN "turn" ELSE pc[h]]
      BY DEF Woken
    <3>3. /\ deadlock' \in [Workers -> BOOLEAN]
          /\ \A v \in Workers : deadlock'[v] => deadlock[v] \/ (report /\ v = h)
      BY <1>1, <1>3, <2>2, <3>1 DEF TypeOK
    <3>4. /\ pc' \in [Workers -> Locations]
          /\ pc'[w] = "lockwait"
          /\ \A v \in Workers \ {w} :
                pc'[v] = pc[v] \/ (pc[v] = "wait" /\ pc'[v] = "turn")
      <4> DEFINE g == IF trx[h] > trx[w] THEN Woken(pc, h) ELSE pc
      <4>1. /\ g \in [Workers -> Locations]
            /\ \A v \in Workers : g[v] = pc[v] \/ (pc[v] = "wait" /\ g[v] = "turn")
        <5>1. pc \in [Workers -> Locations] /\ "turn" \in Locations /\ h \in Workers
          BY <1>1, <1>3, <2>2 DEF TypeOK, Locations
        <5>2. CASE trx[h] > trx[w]
          BY <3>2, <5>1, <5>2
        <5>3. CASE ~(trx[h] > trx[w])
          BY <5>1, <5>3
        <5> QED BY <5>2, <5>3
      <4>2. pc' = [g EXCEPT ![w] = "lockwait"]
        BY <3>1
      <4> HIDE DEF g
      <4>3. "lockwait" \in Locations
        BY DEF Locations
      <4> QED BY <4>1, <4>2, <4>3
    <3> QED BY <2>2, <3>3, <3>4
  <2> QED BY <2>1, <2>2
<1>5. rowq # <<>> => trx[h] \in Nat
  BY <1>1, <1>3, NTrxAssumption DEF TypeOK
<1> HIDE DEF h, report
<1>6. /\ rowq' \in Seq(Workers) /\ Len(rowq') = Len(rowq) + 1
      /\ \A i \in 1..Len(rowq) : rowq'[i] = rowq[i]
      /\ rowq'[Len(rowq) + 1] = w
      /\ \A i \in 1..Len(rowq') : i \in 1..Len(rowq) \/ i = Len(rowq) + 1
      /\ rowq # <<>> => rowq' # <<>> /\ Head(rowq') = Head(rowq)
  BY <1>1
<1>7. TypeOK'
  BY <1>1, <1>4, <1>6 DEF TypeOK
<1>8. RowInv'
  <2>1. ASSUME NEW i \in 1..Len(rowq'), NEW j \in 1..Len(rowq'),
               rowq'[i] = rowq'[j]
        PROVE  i = j
    <3>1. \A k, l \in 1..Len(rowq) : rowq[k] = rowq[l] => k = l
      BY DEF IInv, RowInv
    <3>2. CASE i \in 1..Len(rowq) /\ j \in 1..Len(rowq)
      BY <1>6, <2>1, <3>1, <3>2, SMTT(20)
    <3>3. CASE i = Len(rowq) + 1 /\ j \in 1..Len(rowq)
      BY <1>2, <1>6, <2>1, <3>3, SMTT(20)
    <3>4. CASE j = Len(rowq) + 1 /\ i \in 1..Len(rowq)
      BY <1>2, <1>6, <2>1, <3>4, SMTT(20)
    <3>5. CASE i = Len(rowq) + 1 /\ j = Len(rowq) + 1
      BY <3>5
    <3> QED BY <1>6, <3>2, <3>3, <3>4, <3>5
  <2>2. ASSUME NEW i \in 2..Len(rowq')
        PROVE  pc'[rowq'[i]] = "lockwait"
    <3>1. CASE i = Len(rowq) + 1
      <4>1. rowq # <<>>
        BY <1>1, <3>1
      <4> QED BY <1>4, <1>6, <3>1, <4>1
    <3>2. CASE i # Len(rowq) + 1
      <4>1. i \in 2..Len(rowq) /\ i \in 1..Len(rowq)
        BY <1>1, <1>6, <3>2
      <4>2. pc[rowq[i]] = "lockwait" /\ rowq'[i] = rowq[i]
        BY <1>6, <4>1 DEF IInv, RowInv
      <4>3. rowq[i] \in Workers \ {w}
        BY <1>1, <1>2, <4>1
      <4> QED BY <1>4, <4>2, <4>3
    <3> QED BY <3>1, <3>2
  <2>3. ASSUME NEW i \in 1..Len(rowq')
        PROVE  /\ pc'[rowq'[i]] \notin {"idle", "retry", "clean", "ends_group", "exited"}
               /\ pc'[rowq'[i]] \in InTurn => why'[rowq'[i]] # "report_commit"
    <3>1. CASE i = Len(rowq) + 1
      BY <1>4, <1>6, <3>1 DEF InTurn
    <3>2. CASE i # Len(rowq) + 1
      <4>1. i \in 1..Len(rowq)
        BY <1>6, <3>2
      <4>2. rowq[i] \in Workers \ {w} /\ rowq'[i] = rowq[i] /\ why' = why
        BY <1>1, <1>2, <1>6, <4>1
      <4>3. /\ pc[rowq[i]] \notin {"idle", "retry", "clean", "ends_group", "exited"}
            /\ pc[rowq[i]] \in InTurn => why[rowq[i]] # "report_commit"
        BY <4>1 DEF IInv, RowInv
      <4>4. pc'[rowq[i]] = pc[rowq[i]]
            \/ (pc[rowq[i]] = "wait" /\ pc'[rowq[i]] = "turn")
        BY <1>4, <4>2
      <4> QED BY <4>2, <4>3, <4>4 DEF InTurn
    <3> QED BY <3>1, <3>2
  <2> QED BY <2>1, <2>2, <2>3, SMTT(20) DEF RowInv, InTurn
<1>9. \A v \in Workers : Held(v) => Held(v)'
  BY <1>6 DEF Held
<1>10. ASSUME NEW x \in Workers, Blocked(x)
       PROVE  Blocked(x)'
  BY <1>1, <1>4, <1>10 DEF Blocked, InTurn, Contains
<1>11. ASSUME ~rollback, report
       PROVE  Blocked(w)' /\ rowq' # <<>> /\ Head(rowq') = h /\ trx[w] < trx[h]
  <2>1. Contains(queue, w)
    BY <1>1, <1>11 DEF IInv, StatusInv, QueueInv
  <2>2. rowq # <<>>
    BY <1>11 DEF report
  <2>3. Blocked(w)'
    BY <1>1, <1>4, <2>1, <2>2 DEF Blocked, Contains
  <2>4. rowq' # <<>> /\ Head(rowq') = h
    BY <1>6, <2>2 DEF h
  <2>5. trx[w] < trx[h]
    BY <1>1, <1>5, <1>11, <2>2, NTrxAssumption DEF report, TypeOK
  <2> QED BY <2>3, <2>4, <2>5
<1>12. DeadlockInv'
  <2>1. ASSUME NEW v \in Workers, deadlock'[v]
        PROVE  /\ ~(pc'[v] \in InTurn /\ why[v] = "report_commit")
               /\ \/ rollback
                  \/ pc'[v] \in {"retry", "clean", "exited"}
                  \/ pc'[v] = "ends_group" /\ status[v] = "OCS_WAIT"
                  \/ Held(v)' /\ \E x \in Workers : Blocked(x)' /\ trx[x] < trx[v]
    <3>1. CASE report /\ v = h
      <4>1. v # w /\ v = rowq[1] /\ 1 \in 1..Len(rowq)
        BY <1>3, <3>1 DEF report
      <4>2. pc[v] \in InTurn => why[v] # "report_commit"
        BY <4>1 DEF IInv, RowInv
      <4>3. pc'[v] \in InTurn => why[v] # "report_commit"
        BY <1>4, <4>1, <4>2 DEF InTurn
      <4>4. CASE rollback
        BY <4>3, <4>4
      <4>5. CASE ~rollback
        <5>1. Blocked(w)' /\ Held(v)' /\ trx[w] < trx[v]
          BY <1>11, <3>1, <4>5 DEF Held
        <5> QED BY <4>3, <5>1
      <4> QED BY <4>4, <4>5
    <3>2. CASE deadlock[v]
      <4>1. ~(pc'[v] \in InTurn /\ why[v] = "report_commit")
        BY <1>4, <3>2 DEF IInv, DeadlockInv, InTurn
      <4>2. CASE Held(v) /\ \E x \in Workers : Blocked(x) /\ trx[x] < trx[v]
        BY <1>9, <1>10, <4>1, <4>2
      <4>3. CASE ~(Held(v) /\ \E x \in Workers : Blocked(x) /\ trx[x] < trx[v])
        BY <1>1, <1>4, <3>2, <4>1, <4>3 DEF IInv, DeadlockInv
      <4> QED BY <4>2, <4>3
    <3> QED BY <1>4, <2>1, <3>1, <3>2
  <2> QED BY <1>1, <2>1 DEF DeadlockInv, InTurn
<1>13. StatusInv'
  BY <1>1, <1>4 DEF IInv, StatusInv
<1>14. LocationInv'
  BY <1>1, <1>4 DEF IInv, LocationInv, InTurn, Resolved
<1>15. QueueInv'
  BY <1>1, <1>4 DEF IInv, QueueInv, QueueInDispatchOrder, TurnIsFront, queue_front, Contains
<1>16. EnrolledInv'
  <2>1. \A k \in 1..Len(queue) :
           pc[queue[k]] = "unregister" /\ why[queue[k]] = "commit"
              => pc'[queue[k]] = "unregister"
    <3>1. \A v \in Workers : pc[v] = "unregister" => pc'[v] = "unregister"
      BY <1>1, <1>4
    <3>2. \A k \in 1..Len(queue) : queue[k] \in Workers
      BY DEF IInv, TypeOK
    <3> QED BY <3>1, <3>2
  <2> QED BY <1>1, <2>1, ZenonT(40) DEF IInv, EnrolledInv, OrderPreserved
<1> QED BY <1>7, <1>8, <1>12, <1>13, <1>14, <1>15, <1>16 DEF IInv

=============================================================================
