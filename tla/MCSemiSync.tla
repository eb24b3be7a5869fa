---------------------------- MODULE MCSemiSync ----------------------------
EXTENDS SemiSync

Bound(transactions, disconnects, commands) ==
    [transactions |-> transactions, disconnects |-> disconnects,
     commands |-> commands]

(* Three transactions on stable connections; two transactions with a       *)
(* broken connection or a command; one transaction with both.              *)
SafetyBounds ==
    {Bound(3, 0, 0), Bound(2, 1, 0), Bound(2, 0, 1), Bound(1, 1, 1)}
(* A few transactions and nothing else.                                    *)
QuietBounds == {Bound(3, 0, 0)}

=============================================================================
