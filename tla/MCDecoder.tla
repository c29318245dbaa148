------------------------------ MODULE MCDecoder ------------------------------
EXTENDS Decoder

MCColumns == {"a", "b"}

A  == [name |-> "a", oid |-> 1]
A2 == [name |-> "a", oid |-> 2]
B  == [name |-> "b", oid |-> 1]

\* t is altered, u is not; one column stands for those of the extension's tables.
MCCatalog == [t \in Tables |-> IF t = "t" THEN <<A, B>> ELSE <<A>>]

Alter(cols) == [op |-> "ALTER", table |-> "t", columns |-> cols]

Full    == [c \in MCColumns |-> "b"]
Key     == [c \in MCColumns |-> IF c = "a" THEN "b" ELSE "n"]
Toasted == [c \in MCColumns |-> IF c = "a" THEN "t" ELSE "u"]
Nulls   == [c \in MCColumns |-> "n"]

Write(op, t, parts) == [op |-> op, table |-> t, parts |-> parts]
Old(formats) == [kind |-> "K", formats |-> formats]
New(formats) == [kind |-> "N", formats |-> formats]

InsertT  == Write("I", "t", <<New(Full)>>)
InsertT2 == Write("I", "t", <<New(Key)>>)
InsertU  == Write("I", "u", <<New(Full)>>)
UpdateT  == Write("U", "t", <<Old(Key), New(Toasted)>>)
DeleteT  == Write("D", "t", <<Old(Key)>>)
DeleteNullT == Write("D", "t", <<Old(Nulls)>>)
Progress == Write("I", Sources, <<New(Full)>>)

MCTransactions ==
  { <<InsertT, InsertT2>>,                        \* a batch
    <<UpdateT, DeleteNullT, DeleteT>>,            \* one that says nothing among others
    <<InsertU, Progress>>,                        \* another table, and pgcapture.sources
    <<Alter(<<>>)>>,                              \* DROP TABLE
    <<Alter(<<B>>), InsertT>>,                    \* DROP COLUMN, the other one moves
    <<Alter(<<A2, B>>), InsertT>>,                \* another type, or CREATE TABLE
    <<Alter(<<A, B>>), InsertT, Alter(<<>>)>> }   \* a table that never is committed

\* A broken read misses all, or some columns: of those of ddl_logs only the first
\* read can miss any.
MCMisses == { Tables \X MCColumns, {<<"t", "b">>, <<DDLLogs, "a">>} }
=============================================================================
