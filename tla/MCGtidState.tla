---------------------------- MODULE MCGtidState ----------------------------
(***************************************************************************)
(* Instances of GtidState: two clients and an applier, and GTIDs of this   *)
(* server (SIDNO 1) and of its master (SIDNO 2).                           *)
(***************************************************************************)
EXTENDS GtidState, TLC

Own(n) == <<1, n>>
Foreign(n) == <<2, n>>

(* Nothing but transactions of the given kinds.                            *)
Quiet(kinds, simple, trx) ==
    [kinds |-> kinds, simple_recovery |-> simple, gtid_next |-> {}, wait_for |-> {},
     purged |-> {}, trx |-> trx, waits |-> 0, rotations |-> 0, purges |-> 0, stops |-> 0,
     startup_stops |-> 0, resets |-> 0, kills |-> 0]

(* Owners: sessions that name the same GTIDs, wait for them, and are       *)
(* killed; RESET MASTER and SET gtid_purged in between.                    *)
OwnersLoad ==
    [Quiet({"query"}, TRUE, 4) EXCEPT
       !.gtid_next = {Own(1), Foreign(1)}, !.wait_for = {{Own(1), Foreign(1)}},
       !.purged = {{Foreign(1)}}, !.waits = 1, !.resets = 1, !.kills = 1]

(* Files: rotations, purges, a crash or shutdown, with Xid transactions.   *)
FilesLoad ==
    [Quiet({"xid"}, TRUE, 3) EXCEPT
       !.gtid_next = {Foreign(1)}, !.purged = {{Foreign(1)}},
       !.rotations = 2, !.purges = 1, !.stops = 2]

(* The same without simple recovery, when a start may fail too.            *)
StartsLoad ==
    [FilesLoad EXCEPT !.simple_recovery = FALSE, !.trx = 2, !.startup_stops = 2]

(* Any transactions, RESET MASTER and a crash, but no rotation.            *)
QueryLoad ==
    [Quiet({"xid", "query"}, TRUE, 4) EXCEPT !.gtid_next = {Own(2)}, !.resets = 1, !.stops = 1]

SafeLoads == {OwnersLoad, FilesLoad, StartsLoad, QueryLoad}

(* A rotation and transactions without an Xid event.                       *)
QueryRotationLoads == {[Quiet({"query"}, TRUE, 2) EXCEPT !.rotations = 1]}

Symmetry == Permutations(Clients)
=============================================================================
