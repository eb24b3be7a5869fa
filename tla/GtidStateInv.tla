---------------------------- MODULE GtidStateInv ----------------------------
(***************************************************************************)
(* The inductive invariant of GtidState, and what the lemmas about its     *)
(* steps rest on: what changes when a session gets, keeps or gives up a    *)
(* GTID.                                                                   *)
(***************************************************************************)
EXTENDS GtidState, TLAPS

(* The state is a record with these fields.                                *)
StateShape ==
    /\ state = [executed |-> state.executed, lost |-> state.lost,
                only_in_table |-> state.only_in_table,
                previous_logged |-> state.previous_logged,
                next_free_gno |-> state.next_free_gno]
    /\ state.next_free_gno \in Nat \ {0}

Shape ==
    /\ load \in LoadType
    /\ thd \in [Sessions -> ThdType]
    /\ StateShape

(* Where a session is in the loop of set_gtid_next.                        *)
Seeking == {"wait_gtid", "woken_gtid"}

(* Which sessions own a GTID: those that execute a transaction or have     *)
(* flushed it, but not those that wait; all those that have flushed; and   *)
(* none on a server that is not up.  A session in set_gtid_next has a      *)
(* GTID to look for.                                                       *)
OwnersAreBusy ==
    /\ \A s \in Sessions : thd[s].owned # None => thd[s].pc \in {"execute", "flushed"}
    /\ \A s \in Sessions : thd[s].pc = "flushed" => thd[s].owned # None
    /\ \A s \in Appliers : thd[s].pc = "execute" => thd[s].owned # None
    /\ \A s \in Sessions : thd[s].pc \in Seeking => thd[s].gtid_next # None
    /\ server # "up" => \A s \in Sessions : thd[s].owned = None

IInv == Shape /\ OwnersAreBusy /\ OwnershipIsExclusive /\ GapsAreFilled

-----------------------------------------------------------------------------
(* broadcast leaves the owners, and who executes or has flushed, alone.    *)
LEMMA BroadcastFact ==
    ASSUME NEW th \in [Sessions -> ThdType], NEW D
    PROVE  /\ broadcast(th, D) \in [Sessions -> ThdType]
           /\ \A s \in Sessions : /\ broadcast(th, D)[s].owned = th[s].owned
                                  /\ broadcast(th, D)[s].gtid_next = th[s].gtid_next
                                  /\ broadcast(th, D)[s].pc \in Seeking => th[s].pc \in Seeking
                                  /\ broadcast(th, D)[s].pc \in {"execute", "flushed"}
                                       \/ th[s].pc \in {"execute", "flushed"}
                                       => broadcast(th, D)[s].pc = th[s].pc
<1>1. \A s \in Sessions :
         \/ broadcast(th, D)[s] = th[s]
         \/ broadcast(th, D)[s] = [th[s] EXCEPT !.pc = "woken_set"] /\ th[s].pc = "wait_set"
         \/ broadcast(th, D)[s] = [th[s] EXCEPT !.pc = "woken_gtid"] /\ th[s].pc = "wait_gtid"
  BY DEF broadcast, Asleep
<1>3. \A s \in Sessions : /\ [th[s] EXCEPT !.pc = "woken_set"] \in ThdType
                          /\ [th[s] EXCEPT !.pc = "woken_gtid"] \in ThdType
  BY DEF ThdType
<1>4. broadcast(th, D) \in [Sessions -> ThdType]
  BY <1>1, <1>3 DEF broadcast
<1>5. ASSUME NEW s \in Sessions
      PROVE  /\ broadcast(th, D)[s].owned = th[s].owned
             /\ broadcast(th, D)[s].gtid_next = th[s].gtid_next
             /\ broadcast(th, D)[s].pc \in Seeking => th[s].pc \in Seeking
             /\ broadcast(th, D)[s].pc \in {"execute", "flushed"}
                  \/ th[s].pc \in {"execute", "flushed"}
                  => broadcast(th, D)[s].pc = th[s].pc
  <2>1. th[s] \in ThdType
    OBVIOUS
  <2>. QED  BY <2>1, <1>1 DEF ThdType, Seeking
<1>. QED  BY <1>4, <1>5

(* A session between two transactions.                                     *)
LEMMA IdleFact ==
    Idle \in ThdType /\ Idle.owned = None /\ Idle.pc = "idle"
BY DEF Idle, ThdType, GtidSets

(* The initial states.                                                     *)
LEMMA InitIInv ==
    Init => IInv
<1>. SUFFICES ASSUME Init PROVE IInv
  OBVIOUS
<1>1. Shape
  BY IdleFact, LoadAssumption DEF Init, Shape, StateShape, Cleared
<1>2. OwnersAreBusy
  BY IdleFact DEF Init, OwnersAreBusy, Sessions, Seeking
<1>3. OwnershipIsExclusive
  BY IdleFact DEF Init, OwnershipIsExclusive, Owned, Cleared
<1>4. GapsAreFilled
  BY DEF Init, GapsAreFilled, Cleared
<1>. QED  BY <1>1, <1>2, <1>3, <1>4 DEF IInv

-----------------------------------------------------------------------------
(* Steps in which no session gets or loses a GTID and gtid_executed and    *)
(* next_free_gno stay.                                                     *)
LEMMA SameOwners ==
    ASSUME IInv, \A s \in Sessions : thd'[s].owned = thd[s].owned,
           state'.executed = state.executed, state'.next_free_gno = state.next_free_gno
    PROVE  OwnershipIsExclusive' /\ GapsAreFilled'
<1>1. Owned' = Owned
  BY DEF Owned
<1>2. OwnershipIsExclusive'
  BY <1>1 DEF IInv, OwnershipIsExclusive
<1>3. GapsAreFilled'
  BY <1>1 DEF IInv, GapsAreFilled, Free
<1>. QED  BY <1>2, <1>3

(* Steps after which no session owns a GTID and next_free_gno is 1.        *)
LEMMA NoOwners ==
    ASSUME \A s \in Sessions : thd'[s].owned = None, state'.next_free_gno = 1
    PROVE  OwnershipIsExclusive' /\ GapsAreFilled'
<1>1. Owned' = {}
  BY DEF Owned
<1>2. OwnershipIsExclusive'
  BY <1>1 DEF OwnershipIsExclusive
<1>3. GapsAreFilled'
  BY DEF GapsAreFilled
<1>. QED  BY <1>2, <1>3

(* A session that owned nothing gets a GTID that is free.                  *)
LEMMA NewOwner ==
    ASSUME IInv, NEW s \in Sessions, NEW g \in Gtids, thd[s].owned = None,
           g \notin state.executed, g \notin Owned,
           thd'[s].owned = g,
           \A t \in Sessions \ {s} : thd'[t].owned = thd[t].owned,
           state'.executed = state.executed
    PROVE  OwnershipIsExclusive' /\ Owned' = Owned \cup {g}
<1>1. g # None
  BY LoadAssumption
<1>2. Owned' = Owned \cup {g}
  BY <1>1 DEF Owned
<1>3. \A t \in Sessions \ {s} : thd'[t].owned # g
  BY <1>1 DEF Owned
<1>4. \A t, u \in Sessions : thd'[t].owned = thd'[u].owned => t = u \/ thd'[t].owned = None
  BY <1>3 DEF IInv, OwnershipIsExclusive
<1>5. OwnershipIsExclusive'
  BY <1>2, <1>4 DEF IInv, OwnershipIsExclusive
<1>. QED  BY <1>2, <1>5

(* A session gives its GTID up.                                            *)
LEMMA OldOwner ==
    ASSUME IInv, NEW s \in Sessions, thd[s].owned # None, thd'[s].owned = None,
           \A t \in Sessions \ {s} : thd'[t].owned = thd[t].owned
    PROVE  /\ Owned' = Owned \ {thd[s].owned}
           /\ \A t, u \in Sessions : thd'[t].owned = thd'[u].owned
                                       => t = u \/ thd'[t].owned = None
<1>1. \A t \in Sessions \ {s} : thd'[t].owned # thd[s].owned
  BY DEF IInv, OwnershipIsExclusive
<1>2. Owned' = Owned \ {thd[s].owned}
  BY <1>1 DEF Owned
<1>3. \A t, u \in Sessions : thd'[t].owned = thd'[u].owned => t = u \/ thd'[t].owned = None
  BY <1>1 DEF IInv, OwnershipIsExclusive
<1>. QED  BY <1>2, <1>3

-----------------------------------------------------------------------------
(* The counters of a load.                                                 *)
Counted == {"trx", "waits", "rotations", "purges", "stops", "startup_stops", "resets", "kills"}

(* Using up one operation of a load leaves a load.                         *)
LEMMA CountFact ==
    ASSUME load \in LoadType, NEW what \in Counted, Count(what)
    PROVE  load' \in LoadType
BY DEF Count, Counted, LoadType

(* A session other than the one that moves keeps all there is to keep.     *)
LEMMA OneSession ==
    ASSUME IInv, NEW s \in Sessions, NEW t \in ThdType, thd' = [thd EXCEPT ![s] = t],
           server = "up", server' = "up",
           t.owned # None => t.pc \in {"execute", "flushed"},
           t.pc = "flushed" => t.owned # None,
           s \in Appliers /\ t.pc = "execute" => t.owned # None,
           t.pc \in Seeking => t.gtid_next # None
    PROVE  /\ thd' \in [Sessions -> ThdType]
           /\ thd'[s] = t
           /\ \A u \in Sessions \ {s} : thd'[u] = thd[u]
           /\ OwnersAreBusy'
<1>1. thd \in [Sessions -> ThdType]
  BY DEF IInv, Shape
<1>2. thd' \in [Sessions -> ThdType] /\ thd'[s] = t /\ \A u \in Sessions \ {s} : thd'[u] = thd[u]
  BY <1>1
<1>3. OwnersAreBusy'
  BY <1>2 DEF IInv, OwnersAreBusy, Sessions
<1>. QED  BY <1>2, <1>3

=============================================================================
