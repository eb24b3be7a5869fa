------------------------- MODULE GtidStateSessions --------------------------
(***************************************************************************)
(* Every step of a session keeps the invariant of GtidStateInv.            *)
(***************************************************************************)
EXTENDS GtidStateInv

(* The loop of set_gtid_next, from a session that owns nothing.            *)
LEMMA TryGtidStep ==
    ASSUME IInv, NEW s \in Sessions, NEW t \in ThdType, NEW g \in Gtids,
           thd[s].owned = None, t.owned = None, t.gtid_next = g, server = "up",
           try_gtid(s, t, g), load' \in LoadType, UNCHANGED <<state, server>>
    PROVE  IInv'
<1>. DEFINE n == IF g \in state.executed THEN Idle
                 ELSE IF g \in Owned THEN [t EXCEPT !.pc = "wait_gtid"]
                 ELSE [t EXCEPT !.pc = "execute", !.owned = g]
<1>1. thd' = [thd EXCEPT ![s] = n]
  BY DEF try_gtid
<1>2. /\ n \in ThdType
      /\ n.owned \in {None, g}
      /\ n.owned # None => n.pc = "execute" /\ g \notin state.executed \cup Owned
      /\ n.pc # "flushed"
      /\ n.pc = "execute" => n.owned # None
      /\ n.pc \in Seeking => n.gtid_next # None
  <2>1. CASE g \in state.executed
    BY <2>1, IdleFact DEF Seeking
  <2>2. CASE g \notin state.executed /\ g \in Owned
    BY <2>2, LoadAssumption DEF ThdType
  <2>3. CASE g \notin state.executed /\ g \notin Owned
    BY <2>3, LoadAssumption DEF ThdType, Seeking
  <2>. QED  BY <2>1, <2>2, <2>3
<1>. HIDE DEF n
<1>3. /\ thd' \in [Sessions -> ThdType]
      /\ thd'[s] = n
      /\ \A u \in Sessions \ {s} : thd'[u] = thd[u]
      /\ OwnersAreBusy'
  BY <1>1, <1>2, OneSession
<1>4. Shape'
  BY <1>3 DEF IInv, Shape, StateShape
<1>5. OwnershipIsExclusive' /\ GapsAreFilled'
  <2>1. CASE n.owned = None
    BY <2>1, <1>3, SameOwners
  <2>2. CASE n.owned = g /\ g # None
    <3>1. OwnershipIsExclusive' /\ Owned' = Owned \cup {g}
      BY <2>2, <1>2, <1>3, NewOwner
    <3>2. GapsAreFilled'
      BY <3>1 DEF IInv, GapsAreFilled, Free
    <3>. QED  BY <3>1, <3>2
  <2>. QED  BY <2>1, <2>2, <1>2
<1>. QED  BY <1>3, <1>4, <1>5 DEF IInv

(* A session that owns nothing goes on owning nothing.                     *)
LEMMA QuietStep ==
    ASSUME IInv, NEW s \in Sessions, NEW t \in ThdType, thd' = [thd EXCEPT ![s] = t],
           thd[s].owned = None, t.owned = None, t.pc \notin Seeking \cup {"flushed"},
           s \in Appliers => t.pc # "execute",
           server = "up", UNCHANGED <<state, server>>, load' \in LoadType
    PROVE  IInv'
<1>1. /\ thd' \in [Sessions -> ThdType]
      /\ thd'[s] = t
      /\ \A u \in Sessions \ {s} : thd'[u] = thd[u]
      /\ OwnersAreBusy'
  BY OneSession
<1>2. Shape'
  BY <1>1 DEF IInv, Shape, StateShape
<1>3. OwnershipIsExclusive' /\ GapsAreFilled'
  BY <1>1, SameOwners
<1>. QED  BY <1>1, <1>2, <1>3 DEF IInv

(* Where wait_for_gtid_set goes.                                           *)
LEMMA ForLoopFact ==
    ASSUME NEW t \in ThdType, t.owned = None
    PROVE  for_loop(t) \in ThdType /\ for_loop(t).owned = None
           /\ for_loop(t).pc \in {"idle", "wait_set"}
<1>1. ASSUME NEW todo \in GtidSets
      PROVE  /\ Sleep(t, todo, FALSE) \in ThdType
             /\ Sleep(t, todo, FALSE).owned = None
             /\ Sleep(t, todo, FALSE).pc = "wait_set"
  <2>. DEFINE rest == {g \in todo : g[1] > Min(Missing(todo)) \/
                                    (g[1] = Min(Missing(todo)) /\ g \notin state.executed)}
  <2>1. Sleep(t, todo, FALSE) = [t EXCEPT !.pc = "wait_set", !.verified = FALSE, !.todo = rest]
    BY DEF Sleep
  <2>2. rest \in GtidSets
    BY DEF GtidSets
  <2>. HIDE DEF rest
  <2>. QED  BY <2>1, <2>2 DEF ThdType
<1>2. t.todo \in GtidSets /\ t.wait_for \in GtidSets
  BY DEF ThdType
<1>. QED  BY <1>1, <1>2, IdleFact DEF for_loop

(* The steps of a session that end, or do not begin, with a GTID.          *)
LEMMA FreeSessionStep ==
    ASSUME IInv, server = "up", NEW s \in Sessions,
           \/ \E k \in load.kinds : begin(s, k)
           \/ \E k \in load.kinds, g \in load.gtid_next : set_gtid_next(s, k, g)
           \/ set_gtid_next_woken(s)
           \/ killed(s)
           \/ \E w \in load.wait_for : wait_for_gtid_set(s, w)
           \/ wait_for_gtid_set_woken(s)
    PROVE  IInv'
<1>0. /\ load \in LoadType /\ thd[s] \in ThdType
      /\ thd[s].pc \notin {"execute", "flushed"} => thd[s].owned = None
      /\ {"trx", "kills", "waits"} \subseteq Counted
  BY DEF IInv, Shape, OwnersAreBusy, Counted
<1>1. ASSUME NEW k \in load.kinds, begin(s, k)
      PROVE  IInv'
  <2>1. load' \in LoadType
    BY <1>0, <1>1, CountFact DEF begin
  <2>. DEFINE t == [Idle EXCEPT !.pc = "execute", !.kind = k]
  <2>2. t \in ThdType /\ t.owned = None /\ t.pc = "execute"
    BY <1>0, <1>1 DEF ThdType, Idle, LoadType, GtidSets
  <2>3. thd' = [thd EXCEPT ![s] = t] /\ thd[s].owned = None /\ s \notin Appliers
    BY <1>0, <1>1, LoadAssumption DEF begin
  <2>. HIDE DEF t
  <2>. QED  BY <1>1, <2>1, <2>2, <2>3, QuietStep DEF begin, Seeking
<1>2. ASSUME NEW k \in load.kinds, NEW g \in load.gtid_next, set_gtid_next(s, k, g)
      PROVE  IInv'
  <2>1. load' \in LoadType
    BY <1>0, <1>2, CountFact DEF set_gtid_next
  <2>. DEFINE t == [Idle EXCEPT !.kind = k, !.gtid_next = g]
  <2>2. t \in ThdType /\ t.owned = None /\ t.gtid_next = g /\ g \in Gtids
    BY <1>0, <1>2 DEF ThdType, Idle, LoadType, GtidSets
  <2>3. try_gtid(s, t, g) /\ thd[s].owned = None
    BY <1>0, <1>2 DEF set_gtid_next
  <2>. HIDE DEF t
  <2>. QED  BY <1>2, <2>1, <2>2, <2>3, TryGtidStep DEF set_gtid_next
<1>3. ASSUME set_gtid_next_woken(s)
      PROVE  IInv'
  <2>1. thd[s].gtid_next \in Gtids
    BY <1>0, <1>3 DEF set_gtid_next_woken, IInv, OwnersAreBusy, Seeking, ThdType
  <2>. QED  BY <1>0, <1>3, <2>1, TryGtidStep DEF set_gtid_next_woken
<1>4. ASSUME killed(s)
      PROVE  IInv'
  <2>1. load' \in LoadType
    BY <1>0, <1>4, CountFact DEF killed
  <2>2. thd' = [thd EXCEPT ![s] = Idle] /\ thd[s].owned = None
    BY <1>0, <1>4 DEF killed, Asleep
  <2>. QED  BY <1>4, <2>1, <2>2, IdleFact, QuietStep DEF killed, Seeking
<1>5. ASSUME NEW w \in load.wait_for, wait_for_gtid_set(s, w)
      PROVE  IInv'
  <2>1. load' \in LoadType
    BY <1>0, <1>5, CountFact DEF wait_for_gtid_set
  <2>. DEFINE t == [Idle EXCEPT !.wait_for = w, !.todo = w]
  <2>2. t \in ThdType /\ t.owned = None
    BY <1>0, <1>5 DEF ThdType, Idle, LoadType
  <2>3. thd' = [thd EXCEPT ![s] = for_loop(t)] /\ thd[s].owned = None
    BY <1>0, <1>5 DEF wait_for_gtid_set
  <2>. HIDE DEF t
  <2>. QED  BY <1>5, <2>1, <2>2, <2>3, ForLoopFact, QuietStep DEF wait_for_gtid_set, Seeking
<1>6. ASSUME wait_for_gtid_set_woken(s)
      PROVE  IInv'
  <2>1. thd[s].owned = None /\ thd' = [thd EXCEPT ![s] = for_loop(thd[s])]
    BY <1>0, <1>6 DEF wait_for_gtid_set_woken
  <2>. QED  BY <1>0, <1>6, <2>1, ForLoopFact, QuietStep DEF wait_for_gtid_set_woken, Seeking
<1>. QED  BY <1>1, <1>2, <1>3, <1>4, <1>5, <1>6

(* flush: a GTID of its own stays; a generated one is free and fills the   *)
(* first gap at or after next_free_gno.                                    *)
LEMMA FlushStep ==
    ASSUME IInv, server = "up", NEW s \in Sessions, flush(s)
    PROVE  IInv'
<1>0. /\ load \in LoadType /\ thd \in [Sessions -> ThdType] /\ thd[s] \in ThdType /\ StateShape
      /\ load' = load /\ server' = server
  BY DEF IInv, Shape, flush
<1>1. CASE thd[s].owned # None
  <2>. DEFINE t == [thd[s] EXCEPT !.pc = "flushed"]
  <2>1. thd' = [thd EXCEPT ![s] = t] /\ state' = state
    BY <1>0, <1>1 DEF flush, generate_automatic_gtid
  <2>2. t \in ThdType /\ t.owned = thd[s].owned /\ t.pc = "flushed"
    BY <1>0 DEF ThdType
  <2>. HIDE DEF t
  <2>3. /\ thd' \in [Sessions -> ThdType]
        /\ thd'[s] = t
        /\ \A u \in Sessions \ {s} : thd'[u] = thd[u]
        /\ OwnersAreBusy'
    BY <1>0, <1>1, <2>1, <2>2, OneSession DEF Seeking
  <2>4. Shape'
    BY <1>0, <2>1, <2>3 DEF Shape, StateShape
  <2>5. OwnershipIsExclusive' /\ GapsAreFilled'
    BY <2>1, <2>2, <2>3, SameOwners
  <2>. QED  BY <2>3, <2>4, <2>5 DEF IInv
<1>2. ASSUME thd[s].owned = None, NEW n \in get_automatic_gno,
             thd' = [thd EXCEPT ![s].pc = "flushed", ![s].owned = <<server_sidno, n>>],
             state' = [state EXCEPT !.next_free_gno = next_free_gno(n)]
      PROVE  IInv'
  <2>. DEFINE g == <<server_sidno, n>>
              t == [thd[s] EXCEPT !.pc = "flushed", !.owned = g]
  <2>1. /\ n \in 1..MaxGno /\ n >= state.next_free_gno /\ Free(n)
        /\ \A m \in state.next_free_gno..(n - 1) : ~Free(m)
    BY <1>0, <1>2, LoadAssumption DEF get_automatic_gno, StateShape
  <2>2. g \in Gtids /\ g \notin state.executed /\ g \notin Owned /\ g # None
    BY <2>1, LoadAssumption DEF Gtids, Sidnos, server_sidno, Free
  <2>3. thd' = [thd EXCEPT ![s] = t]
    BY <1>0, <1>2
  <2>4. t \in ThdType /\ t.owned = g /\ t.pc = "flushed"
    BY <1>0, <2>2 DEF ThdType
  <2>5. /\ state' = [executed |-> state.executed, lost |-> state.lost,
                     only_in_table |-> state.only_in_table,
                     previous_logged |-> state.previous_logged, next_free_gno |-> n + 1]
    BY <1>0, <1>2 DEF StateShape, next_free_gno
  <2>. HIDE DEF t, g
  <2>6. /\ thd' \in [Sessions -> ThdType]
        /\ thd'[s] = t
        /\ \A u \in Sessions \ {s} : thd'[u] = thd[u]
        /\ OwnersAreBusy'
    BY <1>0, <2>2, <2>3, <2>4, OneSession DEF Seeking
  <2>7. Shape'
    BY <1>0, <2>1, <2>5, <2>6 DEF Shape, StateShape
  <2>8. OwnershipIsExclusive' /\ Owned' = Owned \cup {g}
    BY <1>2, <2>2, <2>4, <2>5, <2>6, NewOwner
  <2>9. GapsAreFilled'
    <3>1. SUFFICES ASSUME NEW m \in 1..n PROVE <<server_sidno, m>> \in state.executed \cup Owned \cup {g}
      BY <2>1, <2>5, <2>8 DEF GapsAreFilled, Free
    <3>2. CASE m < state.next_free_gno
      BY <1>0, <3>2 DEF IInv, GapsAreFilled, Free, StateShape
    <3>3. CASE m >= state.next_free_gno /\ m < n
      BY <1>0, <2>1, <3>3 DEF Free, StateShape
    <3>4. CASE m = n
      BY <3>4 DEF g
    <3>. QED  BY <1>0, <2>1, <3>2, <3>3, <3>4 DEF StateShape
  <2>. QED  BY <2>6, <2>7, <2>8, <2>9 DEF IInv
<1>. QED  BY <1>1, <1>2 DEF flush, generate_automatic_gtid

(* An applier saves its GTID in the table.                                 *)
LEMMA SaveStep ==
    ASSUME IInv, server = "up", NEW s \in Sessions, commit_owned_gtids(s)
    PROVE  IInv'
<1>0. /\ load \in LoadType /\ thd \in [Sessions -> ThdType] /\ thd[s] \in ThdType /\ StateShape
      /\ load' = load /\ server' = server /\ state' = state
      /\ thd[s].owned # None
  BY DEF IInv, Shape, commit_owned_gtids, OwnersAreBusy
<1>. DEFINE t == [thd[s] EXCEPT !.pc = "flushed"]
<1>1. thd' = [thd EXCEPT ![s] = t]
  BY <1>0 DEF commit_owned_gtids
<1>2. t \in ThdType /\ t.owned = thd[s].owned /\ t.pc = "flushed"
  BY <1>0 DEF ThdType
<1>. HIDE DEF t
<1>3. /\ thd' \in [Sessions -> ThdType]
      /\ thd'[s] = t
      /\ \A u \in Sessions \ {s} : thd'[u] = thd[u]
      /\ OwnersAreBusy'
  BY <1>0, <1>1, <1>2, OneSession DEF Seeking
<1>4. Shape'
  BY <1>0, <1>3 DEF Shape, StateShape
<1>5. OwnershipIsExclusive' /\ GapsAreFilled'
  BY <1>0, <1>2, <1>3, SameOwners
<1>. QED  BY <1>3, <1>4, <1>5 DEF IInv

-----------------------------------------------------------------------------
(* A session ends its transaction and wakes those that wait.               *)
LEMMA ReleaseFact ==
    ASSUME IInv, server = "up", server' = "up", NEW s \in Sessions, NEW D,
           thd' = broadcast([thd EXCEPT ![s] = Idle], D)
    PROVE  /\ thd' \in [Sessions -> ThdType]
           /\ thd'[s].owned = None
           /\ \A t \in Sessions \ {s} : thd'[t].owned = thd[t].owned
           /\ OwnersAreBusy'
<1>. DEFINE th == [thd EXCEPT ![s] = Idle]
<1>1. /\ th \in [Sessions -> ThdType]
      /\ th[s] = Idle
      /\ \A t \in Sessions \ {s} : th[t] = thd[t]
  BY IdleFact DEF IInv, Shape
<1>2. thd' = broadcast(th, D)
  OBVIOUS
<1>. HIDE DEF th
<1>3. /\ thd' \in [Sessions -> ThdType]
      /\ \A t \in Sessions : /\ thd'[t].owned = th[t].owned
                             /\ thd'[t].gtid_next = th[t].gtid_next
                             /\ thd'[t].pc \in Seeking => th[t].pc \in Seeking
                             /\ thd'[t].pc \in {"execute", "flushed"}
                                  \/ th[t].pc \in {"execute", "flushed"}
                                  => thd'[t].pc = th[t].pc
  <2>1. th \in [Sessions -> ThdType]
    BY <1>1
  <2>2. /\ broadcast(th, D) \in [Sessions -> ThdType]
        /\ \A t \in Sessions : /\ broadcast(th, D)[t].owned = th[t].owned
                               /\ broadcast(th, D)[t].gtid_next = th[t].gtid_next
                               /\ broadcast(th, D)[t].pc \in Seeking => th[t].pc \in Seeking
                               /\ broadcast(th, D)[t].pc \in {"execute", "flushed"}
                                    \/ th[t].pc \in {"execute", "flushed"}
                                    => broadcast(th, D)[t].pc = th[t].pc
    BY <2>1, BroadcastFact, Zenon
  <2>. QED  BY <1>2, <2>2, Zenon
<1>4. /\ \A t \in Sessions : th[t].owned # None => th[t].pc \in {"execute", "flushed"}
      /\ \A t \in Sessions : th[t].pc = "flushed" => th[t].owned # None
      /\ \A t \in Appliers : th[t].pc = "execute" => th[t].owned # None
      /\ \A t \in Sessions : th[t].pc \in Seeking => th[t].gtid_next # None
  BY <1>1, IdleFact DEF IInv, OwnersAreBusy, Sessions, Seeking
<1>5. OwnersAreBusy'
  BY <1>3, <1>4 DEF OwnersAreBusy, Sessions
<1>. QED  BY <1>1, <1>3, <1>5, IdleFact

(* A commit moves the GTID from the owned to the executed ones.            *)
LEMMA CommitStep ==
    ASSUME IInv, server = "up", NEW s \in Sessions, update_on_commit(s)
    PROVE  IInv'
<1>. DEFINE g == thd[s].owned
            only == IF s \in Appliers THEN {g} ELSE {}
<1>0. /\ load \in LoadType /\ StateShape
      /\ load' = load /\ server' = server /\ g # None
      /\ thd' = broadcast([thd EXCEPT ![s] = Idle], {g[1]})
      /\ state' = [state EXCEPT !.executed = @ \cup {g}, !.lost = @ \cup only,
                                !.only_in_table = @ \cup only]
  BY DEF IInv, Shape, update_on_commit, OwnersAreBusy
<1>1. /\ thd' \in [Sessions -> ThdType]
      /\ thd'[s].owned = None
      /\ \A t \in Sessions \ {s} : thd'[t].owned = thd[t].owned
      /\ OwnersAreBusy'
  BY <1>0, ReleaseFact
<1>2. state' = [executed |-> state.executed \cup {g}, lost |-> state.lost \cup only,
                only_in_table |-> state.only_in_table \cup only,
                previous_logged |-> state.previous_logged,
                next_free_gno |-> state.next_free_gno]
  BY <1>0 DEF StateShape
<1>. HIDE DEF only
<1>3. Shape'
  BY <1>0, <1>1, <1>2 DEF Shape, StateShape
<1>4. /\ Owned' = Owned \ {g}
      /\ \A t, u \in Sessions : thd'[t].owned = thd'[u].owned => t = u \/ thd'[t].owned = None
  BY <1>0, <1>1, OldOwner
<1>5. OwnershipIsExclusive'
  BY <1>2, <1>4 DEF IInv, OwnershipIsExclusive
<1>6. GapsAreFilled'
  BY <1>2, <1>4 DEF IInv, GapsAreFilled, Free
<1>. QED  BY <1>1, <1>3, <1>5, <1>6 DEF IInv

(* A rollback gives the GTID back, and next_free_gno goes back to it.      *)
LEMMA RollbackStep ==
    ASSUME IInv, server = "up", NEW s \in Sessions, update_on_rollback(s)
    PROVE  IInv'
<1>. DEFINE g == thd[s].owned
            n == next_free_gno_after(g)
<1>0. /\ load \in LoadType /\ StateShape /\ thd[s] \in ThdType
      /\ load' = load /\ server' = server
  BY DEF IInv, Shape, update_on_rollback
<1>1. CASE g = None
  BY <1>0, <1>1, IdleFact, QuietStep DEF update_on_rollback, Seeking
<1>2. CASE g # None
  <2>0. /\ thd' = broadcast([thd EXCEPT ![s] = Idle], {g[1]})
        /\ state' = [state EXCEPT !.next_free_gno = n]
    BY <1>2 DEF update_on_rollback
  <2>1. /\ thd' \in [Sessions -> ThdType]
        /\ thd'[s].owned = None
        /\ \A t \in Sessions \ {s} : thd'[t].owned = thd[t].owned
        /\ OwnersAreBusy'
    BY <1>0, <2>0, ReleaseFact
  <2>2. state' = [executed |-> state.executed, lost |-> state.lost,
                  only_in_table |-> state.only_in_table,
                  previous_logged |-> state.previous_logged, next_free_gno |-> n]
    BY <1>0, <2>0 DEF StateShape
  <2>3. g \in Sidnos \X (1..MaxGno)
    BY <1>0, <1>2 DEF ThdType, Gtids
  <2>4. g = <<g[1], g[2]>> /\ g[2] \in 1..MaxGno
    BY <2>3
  <2>5. /\ n \in Nat \ {0}
        /\ n <= state.next_free_gno
        /\ g[1] = server_sidno => n <= g[2]
    <3>. DEFINE free == state.next_free_gno
                gno == g[2]
    <3>1. free \in Nat \ {0}
      BY <1>0 DEF StateShape
    <3>2. gno \in Nat \ {0}
      BY <2>4, LoadAssumption
    <3>3. n = IF g[1] = server_sidno /\ free > gno THEN gno ELSE free
      BY DEF next_free_gno_after
    <3>. HIDE DEF free, gno, n, g
    <3>4. /\ n \in Nat \ {0}
          /\ n <= free
          /\ g[1] = server_sidno => n <= gno
      BY <3>1, <3>2, <3>3
    <3>. QED  BY <3>4 DEF free, gno
  <2>. HIDE DEF n
  <2>6. Shape'
    BY <1>0, <2>1, <2>2, <2>5 DEF Shape, StateShape
  <2>7. /\ Owned' = Owned \ {g}
        /\ \A t, u \in Sessions : thd'[t].owned = thd'[u].owned => t = u \/ thd'[t].owned = None
    BY <1>2, <2>1, OldOwner
  <2>8. OwnershipIsExclusive'
    BY <2>2, <2>7 DEF IInv, OwnershipIsExclusive
  <2>9. GapsAreFilled'
    <3>1. SUFFICES ASSUME NEW m \in 1..(n - 1)
                   PROVE  <<server_sidno, m>> \in state.executed \cup (Owned \ {g})
      BY <2>2, <2>7 DEF GapsAreFilled, Free
    <3>2. m \in 1..(state.next_free_gno - 1)
      BY <1>0, <2>5 DEF StateShape
    <3>3. <<server_sidno, m>> \in state.executed \cup Owned
      BY <3>2 DEF IInv, GapsAreFilled, Free
    <3>4. <<server_sidno, m>> # g
      BY <2>4, <2>5, LoadAssumption
    <3>. QED  BY <3>3, <3>4
  <2>. QED  BY <2>1, <2>6, <2>8, <2>9 DEF IInv
<1>. QED  BY <1>1, <1>2

=============================================================================
