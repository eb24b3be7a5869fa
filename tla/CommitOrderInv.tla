--------------------------- MODULE CommitOrderInv ---------------------------
(***************************************************************************)
(* The inductive invariant of CommitOrder, and the steps in which a worker *)
(* releases the row lock, retries, or enters wait_for_its_turn.            *)
(***************************************************************************)
EXTENDS CommitOrder, TLAPS

(* Locations inside wait_for_its_turn and the calls made after it.          *)
InTurn == {"turn", "wait", "signal", "stopped", "return", "unregister"}

(* Every transaction before t has been binlogged or had nothing to binlog. *)
Resolved(t) == \A u \in 1..(t - 1) : outcome[u] # None

(* The row's lock queue: nobody is in it twice, only its head holds the    *)
(* lock, and a worker that has finished with its transaction is not in it. *)
RowInv ==
    /\ \A i, j \in 1..Len(rowq) : rowq[i] = rowq[j] => i = j
    /\ \A i \in 2..Len(rowq) : pc[rowq[i]] = "lockwait"
    /\ \A i \in 1..Len(rowq) :
          /\ pc[rowq[i]] \notin {"idle", "retry", "clean", "ends_group", "exited"}
          /\ pc[rowq[i]] \in InTurn => why[rowq[i]] # "report_commit"

(* A worker that has not had its turn and cannot have it as a commit while *)
(* another worker holds the row.                                           *)
Blocked(w) ==
    /\ Contains(queue, w)
    /\ trx[w] \in RowTrx
    /\ \/ pc[w] \in {"apply", "lockwait", "retry", "clean", "exited"}
       \/ pc[w] \in InTurn /\ why[w] = "report_rollback"

(* A deadlock is reported to the holder of the row while an earlier        *)
(* transaction is blocked, and never to a worker in report_commit.         *)
DeadlockInv ==
    \A v \in Workers : deadlock[v] =>
        /\ ~(pc[v] \in InTurn /\ why[v] = "report_commit")
        /\ \/ rollback
           \/ pc[v] \in {"retry", "clean", "exited"}
           \/ pc[v] = "ends_group" /\ status[v] = "OCS_WAIT"
           \/ Held(v) /\ \E w \in Workers : Blocked(w) /\ trx[w] < trx[v]

(* What the location of a worker says about its status.                    *)
StatusInv ==
    \A w \in Workers :
        /\ pc[w] = "idle" => status[w] = "OCS_FINISH"
        /\ pc[w] \in {"apply", "lockwait", "retry"}
              => status[w] = "OCS_WAIT" \/ rollback
        /\ pc[w] \in {"turn", "wait", "signal"} => status[w] = "OCS_WAIT"
        /\ pc[w] \in {"stopped", "enroll"} => status[w] = "OCS_SIGNAL"
        /\ pc[w] = "return" /\ why[w] = "commit"
              => status[w] = "OCS_SIGNAL" \/ rollback
        /\ pc[w] = "unregister" /\ why[w] = "commit" => status[w] = "OCS_SIGNAL"
        /\ pc[w] \in {"return", "unregister"} /\ why[w] = "report_commit"
              => status[w] # "OCS_WAIT"
        /\ pc[w] = "engine_commit" => status[w] = "OCS_FINISH"

(* What the location of a worker says about its transaction.               *)
LocationInv ==
    \A w \in Workers :
        /\ pc[w] \in {"apply", "lockwait", "retry", "enroll", "engine_commit",
                      "ends_group"} => trx[w] # 0
        /\ pc[w] \in InTurn /\ why[w] # "report_rollback" => trx[w] # 0
        /\ pc[w] \in {"engine_commit", "ends_group"} => outcome[trx[w]] # None
        /\ pc[w] \in InTurn /\ why[w] = "report_commit" => outcome[trx[w]] # None
        /\ pc[w] = "unregister" /\ why[w] = "commit" => outcome[trx[w]] # None
        /\ pc[w] = "unregister" /\ why[w] = "report_rollback" => rollback
        /\ pc[w] \in {"leaving", "stopped"} => rollback
        /\ pc[w] = "enroll" => why[w] = "commit" /\ Resolved(trx[w])
        /\ pc[w] = "exited" => rollback \/ coord = "stopped"

(* The queue: workers in it are in dispatch order, and a transaction that  *)
(* is not in it is resolved unless an earlier one has failed.              *)
QueueInv ==
    /\ QueueInDispatchOrder
    /\ TurnIsFront
    /\ \A w \in Workers : trx[w] < next
    /\ \A w \in Workers : status[w] = "OCS_WAIT" => Contains(queue, w) \/ rollback
    /\ \A w \in Workers : status[w] = "OCS_FINISH" => ~Contains(queue, w)
    /\ \A u \in 1..(next - 1) :
          outcome[u] # None \/ rollback \/ \E i \in 1..Len(queue) : trx[queue[i]] = u
    /\ \A w \in Workers :
          status[w] = "OCS_FINISH" =>
              rollback \/ \A i \in 1..Len(queue) : trx[w] < trx[queue[i]]

(* What has entered the flush queue precedes everything still waiting.     *)
EnrolledInv ==
    /\ OrderPreserved
    /\ \A i \in 1..Len(enrolled) : \A k \in 1..Len(queue) :
          \/ enrolled[i] < trx[queue[k]]
          \/ /\ enrolled[i] = trx[queue[k]]
             /\ pc[queue[k]] = "unregister"
             /\ why[queue[k]] = "commit"
    /\ \A i \in 1..Len(enrolled) : enrolled[i] < next

IInv == /\ TypeOK
        /\ RowInv
        /\ DeadlockInv
        /\ StatusInv
        /\ LocationInv
        /\ QueueInv
        /\ EnrolledInv

-----------------------------------------------------------------------------
(* The two queues as sequences.                                            *)

(* register_trx's push: the new worker is the last, and what precedes it   *)
(* was there before.                                                       *)
LEMMA PushProperties ==
    ASSUME NEW q \in Seq(Workers), NEW w \in Workers
    PROVE  LET p == queue_push(q, w) IN
           /\ p \in Seq(Workers)
           /\ Len(p) \in 1..(Len(q) + 1)
           /\ p[Len(p)] = w
           /\ \A i \in 1..(Len(p) - 1) : i \in 1..Len(q) /\ p[i] = q[i]
           /\ q # <<>> => Head(p) = Head(q)
           /\ ~Contains(q, w) => Len(p) = Len(q) + 1
           /\ Contains(q, w) => Len(p) <= Len(q) /\ q[Len(p)] = w
<1>1. CASE Contains(q, w)
  <2>1. Position(q, w) \in 1..Len(q) /\ q[Position(q, w)] = w
    BY <1>1 DEF Contains, Position
  <2>2. queue_push(q, w) = SubSeq(q, 1, Position(q, w))
    BY <1>1, Zenon DEF queue_push
  <2> QED BY <1>1, <2>1, <2>2
<1>2. CASE ~Contains(q, w)
  <2>1. queue_push(q, w) = Append(q, w)
    BY <1>2 DEF queue_push
  <2> QED BY <1>2, <2>1
<1> QED BY <1>1, <1>2

(* unregister_trx's pop.                                                   *)
LEMMA PopProperties ==
    ASSUME NEW q \in Seq(Workers), q # <<>>
    PROVE  /\ Head(q) = q[1] /\ Len(q) >= 1 /\ 1 \in 1..Len(q)
           /\ Tail(q) \in Seq(Workers) /\ Len(Tail(q)) = Len(q) - 1
           /\ \A i \in 1..Len(Tail(q)) :
                 Tail(q)[i] = q[i + 1] /\ i + 1 \in 1..Len(q) /\ 1 < i + 1
           /\ \A i \in 1..Len(q) : i # 1 =>
                 i - 1 \in 1..Len(Tail(q)) /\ Tail(q)[i - 1] = q[i]
<1>1. /\ Head(q) = q[1] /\ Len(q) \in Nat /\ Len(q) >= 1
      /\ Tail(q) \in Seq(Workers) /\ Len(Tail(q)) = Len(q) - 1
  OBVIOUS
<1>2. \A i \in 1..Len(Tail(q)) : Tail(q)[i] = q[i + 1]
  OBVIOUS
<1>3. ASSUME NEW i \in 1..Len(q), i # 1
      PROVE  i - 1 \in 1..Len(Tail(q)) /\ Tail(q)[i - 1] = q[i]
  <2>1. i - 1 \in 1..Len(Tail(q)) /\ (i - 1) + 1 = i
    BY <1>1, <1>3
  <2> QED BY <1>2, <2>1
<1> QED BY <1>1, <1>2, <1>3

(* A signal moves a sleeping worker back into its loop and nobody else.    *)
LEMMA WokenProperties ==
    ASSUME NEW f \in [Workers -> Locations], NEW x \in Workers
    PROVE  /\ Woken(f, x) \in [Workers -> Locations]
           /\ \A v \in Workers :
                 \/ Woken(f, x)[v] = f[v]
                 \/ f[v] = "wait" /\ Woken(f, x)[v] = "turn"
<1> DEFINE y == IF f[x] = "wait" THEN "turn" ELSE f[x]
<1>1. Woken(f, x) = [f EXCEPT ![x] = y]
  BY DEF Woken
<1>2. y \in Locations /\ (y = f[x] \/ (f[x] = "wait" /\ y = "turn"))
  BY DEF Locations
<1> HIDE DEF y
<1>3. [f EXCEPT ![x] = y] \in [Workers -> Locations]
  BY <1>2
<1>4. \A v \in Workers : [f EXCEPT ![x] = y][v] = IF v = x THEN y ELSE f[v]
  OBVIOUS
<1>5. ASSUME NEW v \in Workers
      PROVE  \/ Woken(f, x)[v] = f[v]
             \/ f[v] = "wait" /\ Woken(f, x)[v] = "turn"
  <2>1. CASE v = x
    BY <1>1, <1>2, <1>4, <2>1
  <2>2. CASE v # x
    BY <1>1, <1>4, <2>2
  <2> QED BY <2>1, <2>2
<1>6. Woken(f, x) \in [Workers -> Locations]
  BY <1>1, <1>3
<1> QED BY <1>5, <1>6

(* Leaving the row's lock queue keeps the others in order.                 *)
LEMMA RemoveProperties ==
    ASSUME NEW S, NEW q \in Seq(S), NEW w \in S,
           \A i, j \in 1..Len(q) : q[i] = q[j] => i = j
    PROVE  LET r == IF Contains(q, w) THEN RemoveAt(q, Position(q, w)) ELSE q IN
           /\ r \in Seq(S)
           /\ ~Contains(r, w)
           /\ \A i, j \in 1..Len(r) : r[i] = r[j] => i = j
           /\ \A i \in 1..Len(r) : \E j \in 1..Len(q) : j >= i /\ r[i] = q[j]
           /\ q # <<>> /\ Head(q) # w => r # <<>> /\ Head(r) = Head(q)
<1>1. CASE ~Contains(q, w)
  BY <1>1 DEF Contains
<1>2. CASE Contains(q, w)
  <2> DEFINE p == Position(q, w)
             r == RemoveAt(q, p)
  <2>1. p \in 1..Len(q) /\ q[p] = w
    BY <1>2 DEF Contains, Position
  <2> HIDE DEF p
  <2>2. /\ r \in Seq(S)
        /\ Len(r) = Len(q) - 1
        /\ \A i \in 1..Len(r) : r[i] = IF i < p THEN q[i] ELSE q[i + 1]
    <3>1. r = [i \in 1..(Len(q) - 1) |-> IF i < p THEN q[i] ELSE q[i + 1]]
      BY DEF RemoveAt
    <3>2. \A i \in 1..(Len(q) - 1) : (IF i < p THEN q[i] ELSE q[i + 1]) \in S
      BY <2>1
    <3>3. Len(q) - 1 \in Nat
      BY <2>1
    <3> HIDE DEF r
    <3> QED BY <3>1, <3>2, <3>3
  <2> HIDE DEF r
  <2>3. ~Contains(r, w)
    <3>1. \A i \in 1..Len(r) : r[i] # w
      <4>1. ASSUME NEW i \in 1..Len(r) PROVE r[i] # w
        <5>1. CASE i < p
          BY <2>1, <2>2, <5>1
        <5>2. CASE ~(i < p)
          BY <2>1, <2>2, <5>2
        <5> QED BY <5>1, <5>2
      <4> QED BY <4>1
    <3> QED BY <3>1 DEF Contains
  <2>4. q # <<>> /\ Head(q) # w => r # <<>> /\ Head(r) = Head(q)
    BY <2>1, <2>2
  <2>5. \A i \in 1..Len(r) : \E j \in 1..Len(q) : j >= i /\ r[i] = q[j]
    BY <2>1, <2>2
  <2>6. \A i, j \in 1..Len(r) : r[i] = r[j] => i = j
    BY <2>1, <2>2
  <2>7. (IF Contains(q, w) THEN RemoveAt(q, Position(q, w)) ELSE q) = r
    BY <1>2 DEF r, p
  <2> QED BY <2>2, <2>3, <2>4, <2>5, <2>6, <2>7
<1> QED BY <1>1, <1>2

(* The row after a release.  Worker w gives up its lock or its request and *)
(* goes to l; the worker at the head of the lock queue, if it waited, goes *)
(* on applying.                                                            *)
LEMMA ReleaseRow ==
    ASSUME TypeOK, RowInv, NEW w \in Workers, NEW l \in Locations,
           l \in {"retry", "clean", "ends_group", "exited"},
           rowq' = RowReleased(w),
           pc' = Granted([pc EXCEPT ![w] = l], w),
           why' = why
    PROVE  /\ rowq' \in Seq(Workers)
           /\ pc' \in [Workers -> Locations]
           /\ pc'[w] = l
           /\ \A v \in Workers \ {w} :
                 pc'[v] = pc[v] \/ (pc[v] = "lockwait" /\ pc'[v] = "apply")
           /\ \A v \in Workers \ {w} : Held(v) => Held(v)'
           /\ RowInv'
<1> DEFINE r == RowReleased(w)
<1>1. rowq \in Seq(Workers) /\ pc \in [Workers -> Locations]
  BY DEF TypeOK
<1>2. /\ r \in Seq(Workers)
      /\ ~Contains(r, w)
      /\ \A i, j \in 1..Len(r) : r[i] = r[j] => i = j
      /\ \A i \in 1..Len(r) : \E j \in 1..Len(rowq) : j >= i /\ r[i] = rowq[j]
      /\ rowq # <<>> /\ Head(rowq) # w => r # <<>> /\ Head(r) = Head(rowq)
  BY <1>1, RemoveProperties DEF RowInv, RowReleased
<1> HIDE DEF r
<1>3. rowq' = r
  BY DEF r
<1>4. pc' = [v \in Workers |->
               IF r # <<>> /\ v = Head(r) /\ [pc EXCEPT ![w] = l][v] = "lockwait"
               THEN "apply" ELSE [pc EXCEPT ![w] = l][v]]
  BY DEF Granted, r
<1>5. pc' \in [Workers -> Locations]
  BY <1>1, <1>4, Zenon DEF Locations
<1>6. pc'[w] = l
  BY <1>1, <1>4, Zenon
<1>7. \A v \in Workers \ {w} :
         pc'[v] = pc[v] \/ (pc[v] = "lockwait" /\ pc'[v] = "apply")
  BY <1>1, <1>4, Zenon
<1>8. \A v \in Workers \ {w} : Held(v) => Held(v)'
  BY <1>2, <1>3 DEF Held
<1>9. RowInv'
  <2>1. \A i \in 1..Len(r) : r[i] \in Workers \ {w}
    BY <1>2 DEF Contains
  <2>2. ASSUME NEW i \in 2..Len(r)
        PROVE  pc'[r[i]] = "lockwait"
    <3>1. PICK j \in 1..Len(rowq) : j >= i /\ r[i] = rowq[j]
      BY <1>2
    <3>2. pc[r[i]] = "lockwait"
      BY <3>1 DEF RowInv
    <3>3. r # <<>> /\ r[i] # Head(r)
      BY <1>2
    <3>4. r[i] \in Workers \ {w}
      BY <1>2, <2>1
    <3>5. [pc EXCEPT ![w] = l][r[i]] = pc[r[i]]
      BY <1>1, <3>4
    <3> QED BY <1>4, <3>2, <3>3, <3>4, <3>5, Zenon
  <2>3. ASSUME NEW i \in 1..Len(r)
        PROVE  /\ pc'[r[i]] \notin {"idle", "retry", "clean", "ends_group", "exited"}
               /\ pc'[r[i]] \in InTurn => why'[r[i]] # "report_commit"
    <3>1. PICK j \in 1..Len(rowq) : r[i] = rowq[j]
      BY <1>2
    <3>2. r[i] \in Workers \ {w}
      BY <2>1
    <3>3. /\ pc[r[i]] \notin {"idle", "retry", "clean", "ends_group", "exited"}
          /\ pc[r[i]] \in InTurn => why[r[i]] # "report_commit"
      BY <3>1 DEF RowInv
    <3>4. pc'[r[i]] = pc[r[i]] \/ pc'[r[i]] = "apply"
      BY <1>7, <3>2, Zenon
    <3> QED BY <3>3, <3>4 DEF InTurn
  <2>4. \A i, j \in 1..Len(rowq') : rowq'[i] = rowq'[j] => i = j
    BY <1>2, <1>3
  <2>5. \A i \in 2..Len(rowq') : pc'[rowq'[i]] = "lockwait"
    BY <1>3, <2>2, Zenon
  <2>6. \A i \in 1..Len(rowq') :
          /\ pc'[rowq'[i]] \notin {"idle", "retry", "clean", "ends_group", "exited"}
          /\ pc'[rowq'[i]] \in InTurn => why'[rowq'[i]] # "report_commit"
    BY <1>3, <2>3, Zenon
  <2> QED BY <2>4, <2>5, <2>6, Zenon DEF RowInv, InTurn
<1> QED BY <1>2, <1>3, <1>5, <1>6, <1>7, <1>8, <1>9, Zenon

(* The parts of the invariant under a step that only releases the row.     *)
LEMMA ReleaseStep ==
    ASSUME IInv, NEW w \in Workers, NEW l \in Locations,
           l \in {"retry", "clean", "exited"},
           rowq' = RowReleased(w),
           pc' = Granted([pc EXCEPT ![w] = l], w),
           retries' \in [Workers -> 0..TransRetries],
           UNCHANGED <<managerVars, deadlock, why, trx, killed, coordVars,
                       outcome, enrolled>>,
           pc[w] # "unregister" \/ why[w] # "commit",
           l = "retry" => trx[w] # 0 /\ (status[w] = "OCS_WAIT" \/ rollback),
           l = "exited" => rollback \/ coord = "stopped",
           pc[w] # "signal",
           l = "exited" => pc[w] \in {"idle", "apply", "leaving"}
    PROVE  IInv'
<1> USE DEF managerVars, coordVars
<1>1. /\ rowq' \in Seq(Workers)
      /\ pc' \in [Workers -> Locations]
      /\ pc'[w] = l
      /\ \A v \in Workers \ {w} :
            pc'[v] = pc[v] \/ (pc[v] = "lockwait" /\ pc'[v] = "apply")
      /\ \A v \in Workers \ {w} : Held(v) => Held(v)'
      /\ RowInv'
  BY ReleaseRow, Zenon DEF IInv
<1>2. TypeOK'
  BY <1>1, Zenon DEF IInv, TypeOK
<1>3. ASSUME NEW x \in Workers, Blocked(x)
      PROVE  Blocked(x)'
  BY <1>1, <1>3, Zenon DEF Blocked, InTurn, Contains
<1>4. DeadlockInv'
  <2>1. ASSUME NEW v \in Workers, deadlock[v]
        PROVE  /\ ~(pc'[v] \in InTurn /\ why[v] = "report_commit")
               /\ \/ rollback
                  \/ pc'[v] \in {"retry", "clean", "exited"}
                  \/ pc'[v] = "ends_group" /\ status[v] = "OCS_WAIT"
                  \/ Held(v)' /\ \E x \in Workers : Blocked(x)' /\ trx[x] < trx[v]
    <3>1. CASE v = w
      BY <1>1, <3>1 DEF InTurn
    <3>2. CASE v # w
      <4>1. ~(pc'[v] \in InTurn /\ why[v] = "report_commit")
        BY <1>1, <2>1, <3>2, Zenon DEF IInv, DeadlockInv, InTurn
      <4>2. CASE Held(v) /\ \E x \in Workers : Blocked(x) /\ trx[x] < trx[v]
        BY <1>1, <1>3, <3>2, <4>1, <4>2
      <4>3. CASE ~(Held(v) /\ \E x \in Workers : Blocked(x) /\ trx[x] < trx[v])
        BY <1>1, <2>1, <3>2, <4>1, <4>3, Zenon DEF IInv, DeadlockInv
      <4> QED BY <4>2, <4>3
    <3> QED BY <3>1, <3>2
  <2> QED BY <2>1, Zenon DEF DeadlockInv
<1>5. StatusInv'
  BY <1>1, Zenon DEF IInv, StatusInv
<1>6. LocationInv'
  BY <1>1, Zenon DEF IInv, LocationInv, InTurn, Resolved
<1>7. QueueInv'
  BY <1>1, Zenon DEF IInv, QueueInv, QueueInDispatchOrder, TurnIsFront,
                     queue_front, Contains
<1>8. EnrolledInv'
  <2>1. \A k \in 1..Len(queue) :
           pc[queue[k]] = "unregister" /\ why[queue[k]] = "commit"
              => pc'[queue[k]] = "unregister"
    <3>1. \A v \in Workers : pc[v] = "unregister" /\ why[v] = "commit"
                               => pc'[v] = "unregister"
      BY <1>1, Zenon
    <3>2. \A k \in 1..Len(queue) : queue[k] \in Workers
      BY DEF IInv, TypeOK
    <3> QED BY <3>1, <3>2, Zenon
  <2> QED BY <2>1, ZenonT(40) DEF IInv, EnrolledInv, OrderPreserved
<1> QED BY <1>1, <1>2, <1>4, <1>5, <1>6, <1>7, <1>8 DEF IInv

(* Giving up a transaction, in all its forms.                              *)
LEMMA RetryStep ==
    ASSUME IInv, NEW w \in Workers, NEW error \in {"temporary", "fatal"},
           retry_transaction(w, error),
           pc[w] \notin {"signal", "unregister"},
           error = "temporary" =>
               trx[w] # 0 /\ (status[w] = "OCS_WAIT" \/ rollback)
    PROVE  IInv'
<1> DEFINE retry == error = "temporary" /\ retries[w] < TransRetries
           l == IF retry THEN "retry" ELSE "clean"
<1>1. l \in Locations /\ l \in {"retry", "clean"}
  BY DEF Locations
<1>2. retries' \in [Workers -> 0..TransRetries]
  BY RetriesAssumption DEF IInv, TypeOK, retry_transaction
<1>3. l = "retry" => trx[w] # 0 /\ (status[w] = "OCS_WAIT" \/ rollback)
  OBVIOUS
<1>4. /\ rowq' = RowReleased(w)
      /\ pc' = Granted([pc EXCEPT ![w] = l], w)
      /\ UNCHANGED <<managerVars, deadlock, why, trx, killed, coordVars,
                     outcome, enrolled>>
  BY DEF retry_transaction
<1> HIDE DEF l
<1> QED BY <1>1, <1>2, <1>3, <1>4, ReleaseStep

(* The transaction of w is committed in the engine.  If w was blocked it   *)
(* holds the row, and nobody else can have been told of a deadlock.        *)
LEMMA EndsGroupStep ==
    ASSUME IInv, NEW w \in Workers,
           pc[w] \in {"apply", "engine_commit"},
           pc[w] = "apply" /\ trx[w] \in RowTrx => Held(w),
           rowq' = RowReleased(w),
           pc' = Granted([pc EXCEPT ![w] = "ends_group"], w),
           outcome' \in [Trxs -> {None, "binlogged", "empty"}],
           \A u \in Trxs : outcome[u] # None => outcome'[u] # None,
           outcome'[trx[w]] # None,
           UNCHANGED <<managerVars, deadlock, why, trx, retries, killed,
                       coordVars, enrolled>>
    PROVE  IInv'
<1> USE DEF managerVars, coordVars
<1>1. /\ rowq' \in Seq(Workers)
      /\ pc' \in [Workers -> Locations]
      /\ pc'[w] = "ends_group"
      /\ \A v \in Workers \ {w} :
            pc'[v] = pc[v] \/ (pc[v] = "lockwait" /\ pc'[v] = "apply")
      /\ \A v \in Workers \ {w} : Held(v) => Held(v)'
      /\ RowInv'
  <2>1. "ends_group" \in Locations
    BY DEF Locations
  <2> QED BY <2>1, ReleaseRow, Zenon DEF IInv
<1>2. TypeOK'
  BY <1>1, Zenon DEF IInv, TypeOK
<1>3. ASSUME NEW x \in Workers, x # w, Blocked(x)
      PROVE  Blocked(x)'
  BY <1>1, <1>3, Zenon DEF Blocked, InTurn, Contains
<1>4. Blocked(w) => Held(w)
  BY DEF Blocked, InTurn
<1>5. deadlock[w] => rollback \/ status[w] = "OCS_WAIT"
  <2>1. CASE pc[w] = "apply"
    BY <2>1 DEF IInv, StatusInv
  <2>2. CASE pc[w] = "engine_commit" /\ deadlock[w] /\ ~rollback
    <3>1. PICK x \in Workers : Blocked(x) /\ trx[x] < trx[w]
      BY <2>2 DEF IInv, DeadlockInv
    <3>2. PICK i \in 1..Len(queue) : queue[i] = x
      BY <3>1 DEF Blocked, Contains
    <3>3. trx[w] < trx[x]
      BY <2>2, <3>2 DEF IInv, QueueInv, StatusInv
    <3> QED BY <3>1, <3>3 DEF IInv, TypeOK
  <2> QED BY <2>1, <2>2
<1>6. DeadlockInv'
  <2>1. ASSUME NEW v \in Workers, deadlock[v]
        PROVE  /\ ~(pc'[v] \in InTurn /\ why[v] = "report_commit")
               /\ \/ rollback
                  \/ pc'[v] \in {"retry", "clean", "exited"}
                  \/ pc'[v] = "ends_group" /\ status[v] = "OCS_WAIT"
                  \/ Held(v)' /\ \E x \in Workers : Blocked(x)' /\ trx[x] < trx[v]
    <3>1. CASE v = w
      BY <1>1, <1>5, <2>1, <3>1 DEF InTurn
    <3>2. CASE v # w
      <4>1. ~(pc'[v] \in InTurn /\ why[v] = "report_commit")
        BY <1>1, <2>1, <3>2, Zenon DEF IInv, DeadlockInv, InTurn
      <4>2. CASE Held(v) /\ \E x \in Workers : Blocked(x) /\ trx[x] < trx[v]
        <5>1. PICK x \in Workers : Blocked(x) /\ trx[x] < trx[v]
          BY <4>2
        <5>2. x # w
          BY <1>4, <3>2, <4>2, <5>1 DEF Held
        <5> QED BY <1>1, <1>3, <3>2, <4>1, <4>2, <5>1, <5>2
      <4>3. CASE ~(Held(v) /\ \E x \in Workers : Blocked(x) /\ trx[x] < trx[v])
        BY <1>1, <2>1, <3>2, <4>1, <4>3, Zenon DEF IInv, DeadlockInv
      <4> QED BY <4>2, <4>3
    <3> QED BY <3>1, <3>2
  <2> QED BY <2>1, Zenon DEF DeadlockInv
<1>7. StatusInv'
  BY <1>1, Zenon DEF IInv, StatusInv
<1>8. \A v \in Workers : trx[v] # 0 => trx[v] \in Trxs /\ trx[v] - 1 \in 0..NTrx
  BY NTrxAssumption DEF IInv, TypeOK, Trxs
<1>9. LocationInv'
  <2>1. trx[w] # 0
    BY DEF IInv, LocationInv
  <2>2. \A v \in Workers : Resolved(trx[v]) => Resolved(trx[v])'
    BY <1>8, NTrxAssumption DEF Resolved, IInv, TypeOK, Trxs
  <2> QED BY <1>1, <1>8, <2>1, <2>2, Zenon DEF IInv, LocationInv, InTurn
<1>10. QueueInv'
  <2>1. \A u \in 1..(next - 1) : u \in Trxs
    BY NTrxAssumption DEF IInv, TypeOK, Trxs
  <2> QED BY <1>1, <2>1, Zenon
          DEF IInv, QueueInv, QueueInDispatchOrder, TurnIsFront, queue_front, Contains
<1>11. EnrolledInv'
  <2>1. \A k \in 1..Len(queue) :
           pc[queue[k]] = "unregister" /\ why[queue[k]] = "commit"
              => pc'[queue[k]] = "unregister"
    <3>1. \A v \in Workers : pc[v] = "unregister" /\ why[v] = "commit"
                               => pc'[v] = "unregister"
      BY <1>1, Zenon
    <3>2. \A k \in 1..Len(queue) : queue[k] \in Workers
      BY DEF IInv, TypeOK
    <3> QED BY <3>1, <3>2, Zenon
  <2>2. \A i \in 1..Len(enrolled) : \A u \in 1..(enrolled[i] - 1) : u \in Trxs
    BY NTrxAssumption DEF IInv, TypeOK, Trxs
  <2>3. OrderPreserved'
    BY <2>2 DEF IInv, EnrolledInv, OrderPreserved
  <2> QED BY <2>1, <2>3, Zenon DEF IInv, EnrolledInv
<1> QED BY <1>1, <1>2, <1>6, <1>7, <1>9, <1>10, <1>11 DEF IInv

(* A caller enters wait_for_its_turn.  Entering it to commit the worker is *)
(* not blocked any more, so it must hold the row if it needs it.           *)
LEMMA EnterTurnStep ==
    ASSUME IInv, NEW w \in Workers, NEW reason \in Reasons,
           EnterTurn(w, reason),
           deadlock' \in [Workers -> BOOLEAN],
           \A v \in Workers : deadlock'[v] => deadlock[v],
           UNCHANGED <<managerVars, trx, retries, killed, coordVars, rowq,
                       outcome, enrolled>>,
           pc[w] \in {"idle", "apply", "clean", "ends_group"},
           pc[w] = "clean" => ~deadlock'[w],
           reason = "commit" =>
               pc[w] = "apply" /\ (rollback \/ (trx[w] \in RowTrx => Held(w))),
           reason = "report_commit" => pc[w] = "ends_group" /\ ~deadlock'[w],
           reason = "report_rollback" => pc[w] # "ends_group"
    PROVE  IInv'
<1> USE DEF managerVars, coordVars
<1>1. /\ pc' \in [Workers -> Locations]
      /\ pc'[w] = IF status[w] = "OCS_WAIT" THEN "turn" ELSE "return"
      /\ \A v \in Workers \ {w} : pc'[v] = pc[v]
      /\ why' \in [Workers -> Reasons]
      /\ why'[w] = reason
      /\ \A v \in Workers \ {w} : why'[v] = why[v]
  BY DEF IInv, TypeOK, EnterTurn, Goto, Locations
<1>2. TypeOK'
  BY <1>1, SMTT(20) DEF IInv, TypeOK
<1>3. \A i \in 1..Len(rowq) : rowq[i] \in Workers
  BY DEF IInv, TypeOK
<1>4. RowInv'
  <2>1. ASSUME NEW i \in 1..Len(rowq)
        PROVE  /\ i >= 2 => pc'[rowq[i]] = "lockwait"
               /\ pc'[rowq[i]] \notin {"idle", "retry", "clean", "ends_group", "exited"}
               /\ pc'[rowq[i]] \in InTurn => why'[rowq[i]] # "report_commit"
    <3>1. CASE rowq[i] = w
      BY <1>1, <3>1 DEF IInv, RowInv, InTurn
    <3>2. CASE rowq[i] # w
      BY <1>1, <1>3, <3>2 DEF IInv, RowInv, InTurn
    <3> QED BY <3>1, <3>2
  <2>2. \A i \in 2..Len(rowq) : pc'[rowq[i]] = "lockwait"
    BY <2>1 DEF IInv, TypeOK
  <2>3. \A i, j \in 1..Len(rowq) : rowq[i] = rowq[j] => i = j
    BY DEF IInv, RowInv
  <2> QED BY <2>1, <2>2, <2>3 DEF RowInv, InTurn
<1>5. DeadlockInv'
  <2>1. ASSUME NEW v \in Workers, deadlock'[v]
        PROVE  /\ ~(pc'[v] \in InTurn /\ why'[v] = "report_commit")
               /\ \/ rollback
                  \/ pc'[v] \in {"retry", "clean", "exited"}
                  \/ pc'[v] = "ends_group" /\ status[v] = "OCS_WAIT"
                  \/ Held(v)' /\ \E x \in Workers : Blocked(x)' /\ trx[x] < trx[v]
    <3>1. deadlock[v]
      BY <2>1
    <3>2. ~(pc'[v] \in InTurn /\ why'[v] = "report_commit")
      BY <1>1, <2>1, <3>1 DEF IInv, DeadlockInv
    <3>3. v = w => pc[w] \in {"idle", "apply"}
      BY <2>1 DEF Reasons
    <3>4. CASE Held(v) /\ ~rollback /\ \E x \in Workers : Blocked(x) /\ trx[x] < trx[v]
      <4>1. PICK x \in Workers : Blocked(x) /\ trx[x] < trx[v]
        BY <3>4
      <4>2. Blocked(x)'
        <5>1. CASE x # w
          BY <1>1, <4>1, <5>1 DEF Blocked, InTurn, Contains
        <5>2. CASE x = w
          <6>1. v # w
            BY <4>1, <5>2 DEF IInv, TypeOK
          <6>2. reason = "report_rollback"
            BY <3>4, <4>1, <5>2, <6>1 DEF Blocked, Held, InTurn, Reasons
          <6> QED BY <1>1, <4>1, <5>2, <6>2 DEF Blocked, InTurn, Contains
        <5> QED BY <5>1, <5>2
      <4> QED BY <3>2, <3>4, <4>1, <4>2 DEF Held
    <3>5. CASE rollback
      BY <3>2, <3>5
    <3>6. CASE ~rollback /\ ~(Held(v) /\ \E x \in Workers : Blocked(x) /\ trx[x] < trx[v])
      <4>1. v # w
        BY <3>1, <3>3, <3>6 DEF IInv, DeadlockInv
      <4> QED BY <1>1, <3>1, <3>2, <3>6, <4>1 DEF IInv, DeadlockInv
    <3> QED BY <3>4, <3>5, <3>6
  <2> QED BY <2>1 DEF DeadlockInv, InTurn
<1>6. StatusInv'
  BY <1>1, SMTT(20) DEF IInv, StatusInv, TypeOK, Statuses
<1>7. LocationInv'
  <2>1. \A v \in Workers \ {w} : LocationInv!(v) => LocationInv!(v)'
    BY <1>1 DEF InTurn, Resolved
  <2> QED BY <1>1, <2>1 DEF IInv, LocationInv, InTurn, Reasons
<1>8. QueueInv'
  BY <1>1 DEF IInv, QueueInv, QueueInDispatchOrder, TurnIsFront, queue_front, Contains
<1>9. EnrolledInv'
  <2>1. \A k \in 1..Len(queue) :
           pc[queue[k]] = "unregister" /\ why[queue[k]] = "commit"
              => pc'[queue[k]] = "unregister" /\ why'[queue[k]] = "commit"
    <3>1. \A v \in Workers : pc[v] = "unregister" /\ why[v] = "commit"
                               => pc'[v] = "unregister" /\ why'[v] = "commit"
      BY <1>1
    <3>2. \A k \in 1..Len(queue) : queue[k] \in Workers
      BY DEF IInv, TypeOK
    <3> QED BY <3>1, <3>2
  <2> QED BY <2>1 DEF IInv, EnrolledInv, OrderPreserved
<1> QED BY <1>1, <1>2, <1>4, <1>5, <1>6, <1>7, <1>8, <1>9 DEF IInv

=============================================================================
