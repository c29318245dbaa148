------------------------------ MODULE MCGateway ------------------------------
(* A gateway for one schedule: dumps of two records, one of them of a table *)
(* that the clients do not want.                                            *)
EXTENDS Gateway

CONSTANTS wanted, rejected

MCRows == [x \in Dumps |-> 2]

MCRowKey == <<1, 2>>

\* An update that gives the row of the first record the key of the second one.
Move == [op |-> "UPDATE", key |-> 2, oldKey |-> 1]

\* A delete of the row of the second record.
Delete == [op |-> "DELETE", key |-> 2, oldKey |-> NoKey]

Moves == {Move}
Deletes == {Delete}

=============================================================================
