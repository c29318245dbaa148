---------------------------- MODULE MCPgToPulsar ----------------------------
(* Instances of PgToPulsar for TLC.                                         *)
EXTENDS PgToPulsar

\* Transactions of one change, none, and one change.
MCSize == [l \in 1..MaxTx |-> l % 2]
=============================================================================
