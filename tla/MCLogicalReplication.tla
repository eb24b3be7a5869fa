------------------------ MODULE MCLogicalReplication ------------------------
(* LogicalReplication with rows of tables with a key (a, b) and without    *)
(* (n), transactions that write one or two of them, and a statement that   *)
(* locks all and cannot use write sets.                                    *)
EXTENDS LogicalReplication

CONSTANTS a, b, n

Kind(rows, use) == [locks |-> rows, usable |-> use]

RowKinds == {Kind({a}, TRUE), Kind({a, b}, TRUE), Kind({b, n}, TRUE),
             Kind({a, b, n}, FALSE)}

(* Every kind, mode and change of the mode; and enough transactions for    *)
(* the queue of the applier to wrap around.                                *)
AllLoads ==
    {[kinds |-> RowKinds, modes |-> AllModes, history_size |-> 2, trx |-> 3,
      rotations |-> 1, changes |-> 1],
     [kinds |-> {Kind({a}, TRUE), Kind({b}, TRUE)}, modes |-> {"WRITESET"},
      history_size |-> 2, trx |-> 4, rotations |-> 0, changes |-> 0]}

=============================================================================
