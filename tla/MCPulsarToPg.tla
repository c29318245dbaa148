---------------------------- MODULE MCPulsarToPg ----------------------------
(* Topics for the model checker.  Three rows of table "t", one of table "u". *)
EXTENDS PulsarToPg

Row(t, k) == <<t, k>>
MCRows == {Row("t", 1), Row("t", 2), Row("t", 3), Row("u", 1)}

Ins(r, v)    == [op |-> "INSERT", row |-> r, val |-> v]
Upd(r, v)    == [op |-> "UPDATE", old |-> r, row |-> r, val |-> v]
Mov(r, q, v) == [op |-> "UPDATE", old |-> r, row |-> q, val |-> v]
Del(r)       == [op |-> "DELETE", row |-> r]
Create(o)    == [op |-> "CREATE", obj |-> o]
Ensure(o)    == [op |-> "CREATE IF NOT EXISTS", obj |-> o]
Refresh      == [op |-> "REFRESH"]

T1 == Row("t", 1)
T2 == Row("t", 2)
T3 == Row("t", 3)
U1 == Row("u", 1)

B(l)    == [type |-> "begin", lsn |-> l]
E(l)    == [type |-> "commit", lsn |-> l]
C(l, s) == [type |-> "change", lsn |-> l, stmt |-> s]
D(l, q) == [type |-> "ddl", lsn |-> l, query |-> q]

\* Inserts of two tables and more than a batch, a moved key, a row deleted and
\* inserted again, a transaction of no captured change.
Dml == << B(1), C(1, Ins(T1, 1)), C(1, Ins(T2, 1)), C(1, Ins(T3, 2)), C(1, Ins(U1, 1)), E(1),
          B(2), E(2),
          B(3), C(3, Del(T2)), C(3, Mov(T1, T2, 2)), C(3, Ins(T1, 1)), E(3),
          B(4), C(4, Del(U1)), C(4, Ins(U1, 2)), C(4, Upd(T2, 1)), E(4) >>

\* The retention of the topic has removed the beginning of a transaction, and
\* the last one is still arriving.
Trimmed == << C(1, Ins(T1, 1)), E(1),
              B(2), C(2, Ins(T2, 1)), C(2, Ins(U1, 2)), C(2, Upd(U1, 1)), E(2),
              B(3), C(3, Del(U1)), E(3),
              B(4), C(4, Ins(T3, 1)), C(4, Upd(T3, 2)) >>

\* A query of DML and two commands, followed by a statement of its own; then
\* a refresh of a materialized view.
Q == <<Upd(T1, 2), Create("x"), Upd(T1, 1), Create("y")>>
Mixed == << B(1), C(1, Ins(T1, 1)), E(1),
            B(2), C(2, Upd(T1, 2)), D(2, Q), C(2, Upd(T1, 1)), D(2, Q),
                  C(2, Ins(U1, 1)), E(2),
            B(3), D(3, <<Refresh>>), C(3, Ins(T2, 2)), E(3) >>

\* Transactions that a command makes durable before their checkpoint.
Early == << B(1), C(1, Ins(T1, 1)), E(1),
            B(2), C(2, Upd(T1, 2)), C(2, Ins(T2, 2)), E(2),
            B(3), D(3, <<Ensure("x")>>), C(3, Del(T1)), C(3, Ins(U1, 1)), E(3) >>

\* Every history of three statements the source may execute, in one, two or
\* three transactions.
Some == {T1, T2, U1}
Stmts == {Ins(r, v) : r \in Some, v \in Values} \cup {Upd(r, v) : r \in Some, v \in Values}
           \cup {Del(r) : r \in Some} \cup {Mov(T1, T2, 1), Mov(T2, T1, 2)}

TouchesRow(d, s) == s.op = "INSERT" \/ d.rows[IF s.op = "UPDATE" THEN s.old ELSE s.row] # Absent

Possible(h) == \A n \in 1..3 :
  LET d == ExecAll(EmptyDB, SubSeq(h, 1, n - 1))
  IN TouchesRow(d, h[n]) /\ ~Exec(d, h[n]).failed

Histories == {h \in [1..3 -> Stmts] : Possible(h)}

Short == {<<B(1), C(1, h[1]), C(1, h[2]), C(1, h[3]), E(1)>> : h \in Histories}
  \cup {<<B(1), C(1, h[1]), E(1), B(2), C(2, h[2]), C(2, h[3]), E(2)>> : h \in Histories}
  \cup {<<B(1), C(1, h[1]), E(1), B(2), C(2, h[2]), E(2), B(3), C(3, h[3]), E(3)>>
          : h \in Histories}

DmlTopics == {Dml, Trimmed}
DdlTopics == {Mixed, Early}
ASSUME DmlIsWhole == \A t \in DmlTopics \cup Short : Whole(t)

AllTopics == DmlTopics \cup DdlTopics \cup Short

\* The Commit of transaction 1 is missing.
IncompleteTopics ==
  { << B(1), C(1, Ins(T1, 1)), B(2), C(2, Ins(T2, 1)), E(2) >> }

\* UPDATE and CREATE as two queries of one transaction, and INSERT, CREATE and
\* DELETE as one query.
InsertedInQuery == <<Ins(T1, 1), Create("x"), Del(T1)>>
CommandTopics ==
  { << B(1), C(1, Ins(T1, 1)), E(1),
       B(2), C(2, Upd(T1, 2)), D(2, <<Create("x")>>), E(2) >>,
    << B(1), C(1, Ins(T1, 1)), D(1, InsertedInQuery), C(1, Del(T1)), E(1) >> }

=============================================================================
