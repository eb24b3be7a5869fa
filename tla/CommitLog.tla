----------------------------- MODULE CommitLog ------------------------------
(***************************************************************************)
(* What a durable binary log promises, with sync_binlog=1 and a server     *)
(* that stops when the log cannot be synced.  The log only grows.  A       *)
(* transaction is decided once, by entering the log or by a crash that     *)
(* finds it outside; only a transaction in the log is acknowledged to its  *)
(* client or delivered to a replica.  GroupCommit implements this.         *)
(***************************************************************************)
EXTENDS Sequences, SequencesExt

CONSTANT Transactions

VARIABLES
    log,       \* the committed transactions, in the order of their commit
    aborted,   \* the transactions that will never commit
    acked,     \* those whose commit has returned to the client
    delivered  \* those that replicas may have received

logVars == <<log, aborted, acked, delivered>>

Undecided == Transactions \ (ToSet(log) \cup aborted)

Init ==
    /\ log = <<>>
    /\ aborted \subseteq Transactions
    /\ acked = {}
    /\ delivered = {}

(* The log is extended by undecided transactions, each of them once.       *)
Extend ==
    /\ IsPrefix(log, log')
    /\ IsInjective(log')
    /\ ToSet(log') \subseteq ToSet(log) \cup Undecided

Deliver ==
    /\ delivered \subseteq delivered'
    /\ delivered' \subseteq ToSet(log')

Commit ==
    /\ Extend
    /\ Deliver
    /\ UNCHANGED <<aborted, acked>>

Acknowledge(t) ==
    /\ t \in ToSet(log)
    /\ acked' = acked \cup {t}
    /\ UNCHANGED <<log, aborted, delivered>>

(* A crash may let transactions into the log that were about to enter it,  *)
(* and aborts some of the others.                                          *)
Crash ==
    /\ Extend
    /\ aborted \subseteq aborted'
    /\ aborted' \subseteq Transactions \ ToSet(log')
    /\ UNCHANGED <<acked, delivered>>

Next == Commit \/ Crash \/ \E t \in Transactions : Acknowledge(t)

Spec == Init /\ [][Next]_logVars
=============================================================================
