-------------------------- MODULE GtidStateProofs ---------------------------
(***************************************************************************)
(* For any number of sessions, servers, sequence numbers and loads: a GTID *)
(* has one owner and is not executed while it has one, and next_free_gno   *)
(* leaves no gap behind.                                                   *)
(***************************************************************************)
EXTENDS GtidStateSessions

(* Steps that leave the sessions, gtid_executed and next_free_gno alone.   *)
LEMMA AsideStep ==
    ASSUME IInv, load' \in LoadType, thd' = thd, StateShape',
           state'.executed = state.executed, state'.next_free_gno = state.next_free_gno,
           server' = "up" => server = "up" \/ \A s \in Sessions : thd[s].pc = "idle",
           server' # "up" => \A s \in Sessions : thd[s].owned = None
    PROVE  IInv'
<1>1. Shape'
  BY DEF IInv, Shape
<1>2. OwnersAreBusy'
  BY DEF IInv, OwnersAreBusy
<1>3. OwnershipIsExclusive' /\ GapsAreFilled'
  BY SameOwners
<1>. QED  BY <1>1, <1>2, <1>3 DEF IInv

(* Steps of an administrator that leave gtid_executed and next_free_gno    *)
(* alone: the three of a rotation, and a purge.                            *)
LEMMA FilesStep ==
    ASSUME IInv, server = "up",
           \/ new_file_impl
           \/ save_gtids_of_last_binlog_into_table
           \/ open_binlog
           \/ purge_logs
    PROVE  IInv'
<1>0. load \in LoadType /\ StateShape /\ {"rotations", "purges"} \subseteq Counted
  BY DEF IInv, Shape, Counted
<1>1. CASE new_file_impl
  <2>1. load' \in LoadType
    BY <1>0, <1>1, CountFact DEF new_file_impl
  <2>. DEFINE p == state.previous_logged \cup logged_gtids_last_binlog
  <2>2. state' = [executed |-> state.executed, lost |-> state.lost,
                  only_in_table |-> state.only_in_table, previous_logged |-> p,
                  next_free_gno |-> state.next_free_gno]
    BY <1>0, <1>1 DEF new_file_impl, StateShape
  <2>. HIDE DEF p
  <2>3. /\ StateShape' /\ state'.executed = state.executed
        /\ state'.next_free_gno = state.next_free_gno
    BY <1>0, <2>2 DEF StateShape
  <2>. QED  BY <1>1, <2>1, <2>3, AsideStep DEF new_file_impl
<1>2. CASE save_gtids_of_last_binlog_into_table
  BY <1>0, <1>2, AsideStep DEF save_gtids_of_last_binlog_into_table, StateShape
<1>3. CASE open_binlog
  BY <1>0, <1>3, AsideStep DEF open_binlog, StateShape
<1>4. CASE purge_logs
  <2>1. load' \in LoadType
    BY <1>0, <1>4, CountFact DEF purge_logs
  <2>. DEFINE l == state.lost \cup lost_gtids(Tail(files))
  <2>2. state' = [executed |-> state.executed, lost |-> l,
                  only_in_table |-> state.only_in_table,
                  previous_logged |-> state.previous_logged,
                  next_free_gno |-> state.next_free_gno]
    BY <1>0, <1>4 DEF purge_logs, StateShape
  <2>. HIDE DEF l
  <2>3. /\ StateShape' /\ state'.executed = state.executed
        /\ state'.next_free_gno = state.next_free_gno
    BY <1>0, <2>2 DEF StateShape
  <2>. QED  BY <1>4, <2>1, <2>3, AsideStep DEF purge_logs
<1>. QED  BY <1>1, <1>2, <1>3, <1>4

(* RESET MASTER, with transactions of any session in progress.             *)
LEMMA ResetStep ==
    ASSUME IInv, server = "up", reset_master
    PROVE  IInv'
<1>1. load' \in LoadType
  BY CountFact DEF reset_master, IInv, Shape, Counted
<1>2. thd' = thd /\ server' = server /\ state' = Cleared
  BY DEF reset_master
<1>3. Shape'
  BY <1>1, <1>2 DEF IInv, Shape, StateShape, Cleared
<1>4. OwnersAreBusy'
  BY <1>2 DEF IInv, OwnersAreBusy
<1>5. OwnershipIsExclusive'
  BY <1>2 DEF IInv, OwnershipIsExclusive, Owned, Cleared
<1>6. GapsAreFilled'
  BY <1>2 DEF GapsAreFilled, Cleared
<1>. QED  BY <1>3, <1>4, <1>5, <1>6 DEF IInv

(* SET GLOBAL gtid_purged: nobody owns a GTID.                             *)
LEMMA PurgedStep ==
    ASSUME IInv, server = "up", NEW S, add_lost_gtids(S)
    PROVE  IInv'
<1>. DEFINE D == {g[1] : g \in S}
<1>0. /\ load' = load /\ server' = server /\ load \in LoadType /\ StateShape
      /\ thd \in [Sessions -> ThdType]
      /\ Owned = {} /\ thd' = broadcast(thd, D)
      /\ state' = [state EXCEPT !.only_in_table = @ \cup S, !.lost = @ \cup S,
                                !.executed = @ \cup S]
  BY DEF add_lost_gtids, IInv, Shape
<1>. HIDE DEF D
<1>1. /\ broadcast(thd, D) \in [Sessions -> ThdType]
      /\ \A t \in Sessions : /\ broadcast(thd, D)[t].owned = thd[t].owned
                             /\ broadcast(thd, D)[t].gtid_next = thd[t].gtid_next
                             /\ broadcast(thd, D)[t].pc \in Seeking => thd[t].pc \in Seeking
                             /\ broadcast(thd, D)[t].pc \in {"execute", "flushed"}
                                  \/ thd[t].pc \in {"execute", "flushed"}
                                  => broadcast(thd, D)[t].pc = thd[t].pc
  BY <1>0, BroadcastFact, Zenon
<1>2. state' = [executed |-> state.executed \cup S, lost |-> state.lost \cup S,
                only_in_table |-> state.only_in_table \cup S,
                previous_logged |-> state.previous_logged,
                next_free_gno |-> state.next_free_gno]
  BY <1>0 DEF StateShape
<1>3. Shape'
  BY <1>0, <1>1, <1>2 DEF Shape, StateShape
<1>4. OwnersAreBusy'
  BY <1>0, <1>1 DEF IInv, OwnersAreBusy, Sessions
<1>5. \A t \in Sessions : thd'[t].owned = None
  BY <1>0, <1>1 DEF Owned
<1>6. Owned' = {}
  BY <1>5 DEF Owned
<1>7. OwnershipIsExclusive'
  BY <1>5, <1>6 DEF OwnershipIsExclusive
<1>8. GapsAreFilled'
  BY <1>0, <1>2, <1>6 DEF IInv, GapsAreFilled, Free
<1>. QED  BY <1>3, <1>4, <1>7, <1>8 DEF IInv

-----------------------------------------------------------------------------
(* A crash or a shutdown.                                                  *)
LEMMA HaltStep ==
    ASSUME IInv, crash \/ shutdown
    PROVE  IInv'
<1>1. load' \in LoadType
  BY CountFact DEF crash, shutdown, IInv, Shape, Counted
<1>2. thd' = [s \in Sessions |-> Idle] /\ server' = "down" /\ state' = Cleared
  BY DEF crash, shutdown, Halt
<1>3. \A s \in Sessions : thd'[s] = Idle
  BY <1>2
<1>4. Shape'
  BY <1>1, <1>2, IdleFact DEF Shape, StateShape, Cleared
<1>5. OwnersAreBusy'
  BY <1>3, IdleFact DEF OwnersAreBusy, Sessions, Seeking
<1>6. OwnershipIsExclusive' /\ GapsAreFilled'
  BY <1>2, <1>3, IdleFact, NoOwners DEF Cleared
<1>. QED  BY <1>4, <1>5, <1>6 DEF IInv

(* The start of a server: nobody owns a GTID, and the search for numbers   *)
(* begins with 1.                                                          *)
LEMMA StartStep ==
    ASSUME IInv, init_server_components \/ mysqld_main \/ write_previous_gtids
    PROVE  IInv'
<1>0. /\ load \in LoadType /\ StateShape /\ server # "up"
      /\ \A s \in Sessions : thd[s].owned = None
      /\ load' = load /\ thd' = thd
  BY DEF IInv, Shape, OwnersAreBusy, init_server_components, mysqld_main, write_previous_gtids
<1>1. Shape'
  <2>1. CASE init_server_components \/ write_previous_gtids
    BY <1>0, <2>1 DEF IInv, Shape, StateShape, init_server_components, write_previous_gtids
  <2>2. CASE mysqld_main
    BY <1>0, <2>2 DEF IInv, Shape, StateShape, mysqld_main
  <2>. QED  BY <2>1, <2>2
<1>2. OwnersAreBusy'
  BY <1>0 DEF IInv, OwnersAreBusy
<1>3. OwnershipIsExclusive' /\ GapsAreFilled'
  <2>1. CASE init_server_components \/ write_previous_gtids
    BY <1>0, <2>1, SameOwners DEF init_server_components, write_previous_gtids
  <2>2. CASE mysqld_main
    BY <1>0, <2>2, NoOwners DEF mysqld_main
  <2>. QED  BY <2>1, <2>2
<1>. QED  BY <1>1, <1>2, <1>3 DEF IInv

(* The invariant is inductive.                                             *)
LEMMA NextIInv ==
    IInv /\ [Next]_vars => IInv'
<1>. SUFFICES ASSUME IInv, [Next]_vars PROVE IInv'
  OBVIOUS
<1>1. ASSUME server = "up", NEW s \in Sessions, Session(s)
      PROVE  IInv'
  BY <1>1, FreeSessionStep, FlushStep, SaveStep, CommitStep, RollbackStep DEF Session
<1>2. ASSUME server = "up", Administration
      PROVE  IInv'
  BY <1>2, FilesStep, ResetStep, PurgedStep, HaltStep DEF Administration
<1>3. CASE UNCHANGED vars
  <2>1. load' = load /\ thd' = thd /\ state' = state /\ server' = server
    BY <1>3 DEF vars
  <2>2. StateShape'
    BY <2>1 DEF IInv, Shape, StateShape
  <2>. QED  BY <2>1, <2>2, AsideStep DEF IInv, Shape, OwnersAreBusy
<1>. QED  BY <1>1, <1>2, <1>3, HaltStep, StartStep DEF Next

(* What acquire_ownership and update_gtids_impl_own_gtid assert: a GTID is *)
(* owned by one session, and no owned GTID is executed.                    *)
THEOREM OwnershipIsAlwaysExclusive ==
    Spec => []OwnershipIsExclusive
<1>1. IInv => OwnershipIsExclusive
  BY DEF IInv
<1>. QED  BY <1>1, InitIInv, NextIInv, PTL DEF Spec

(* get_automatic_gno may start its search at next_free_gno.                *)
THEOREM GapsAreAlwaysFilled ==
    Spec => []GapsAreFilled
<1>1. IInv => GapsAreFilled
  BY DEF IInv
<1>. QED  BY <1>1, InitIInv, NextIInv, PTL DEF Spec

=============================================================================
