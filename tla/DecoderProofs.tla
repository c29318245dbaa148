---------------------------- MODULE DecoderProofs ----------------------------
(***************************************************************************)
(* Proofs about the decoders, for any transactions, any number of them, and *)
(* any number of crashes and of reads of the catalog that break: messages   *)
(* say nothing that their rows do not say, and as long as the cache is whole *)
(* they say what they should, neighbouring inserts have the same columns,   *)
(* and a transaction that is decoded again gets the same numbers.           *)
(***************************************************************************)
EXTENDS Decoder, SequenceProofs, FiniteSetTheorems

-----------------------------------------------------------------------------
(* The inductive invariant.                                                 *)

\* A catalog, and in it the tables of the extension as they always are.
CatalogOK(c) ==
  /\ c \in Catalogs
  /\ \A t \in Tables : Distinct(c[t])
  /\ c[DDLLogs] = InitCatalog[DDLLogs]

\* The rows that the stream may hold.
WireParts == [kind : {"K", "O", "N"}, tuple : Seq(Formats)]
WireRows == [table : Tables, op : {"I", "U", "D"}, shape : Seq(ColumnDefs), parts : Seq(WireParts)]

RowOK(r) ==
  /\ r \in WireRows
  /\ r.shape # <<>> /\ Distinct(r.shape)
  /\ \A i \in DOMAIN r.parts : DOMAIN r.parts[i].tuple = DOMAIN r.shape
  /\ Len(r.parts) = (IF r.op = "U" /\ r.parts[1].kind # "N" THEN 2 ELSE 1)
  /\ r.op = "I" => /\ r.parts[1].kind = "N"
                   /\ \A i \in DOMAIN r.shape : r.parts[1].tuple[i] # "u"
  /\ r.op = "D" => r.parts[1].kind # "N"
  /\ Len(r.parts) = 2 => r.parts[2].kind = "N"
  /\ r.table = DDLLogs => r.op = "I" /\ r.shape = InitCatalog[DDLLogs]

\* A transaction that began with one catalog and ended with, or has come to,
\* another: its rows have the shapes of their time, and wherever a shape
\* changes there is an entry of ddl_logs.
LogIn(q, S) == \E k \in S \cap DOMAIN q : q[k].table = DDLLogs
TxOK(before, q, after) ==
  /\ q \in Seq(WireRows)
  /\ \A i \in DOMAIN q :
       /\ RowOK(q[i])
       /\ q[i].shape = before[q[i].table] \/ LogIn(q, 1..(i - 1))
       /\ q[i].shape = after[q[i].table] \/ LogIn(q, (i + 1)..Len(q))
  /\ \A i, j \in DOMAIN q :
       i < j /\ q[i].table = q[j].table /\ q[i].shape # q[j].shape => LogIn(q, (i + 1)..(j - 1))
  /\ after = before \/ LogIn(q, DOMAIN q)

PgInv ==
  /\ wal \in Seq(Seq(WireRows)) /\ Len(wal) <= MaxTx
  /\ catalogs \in Seq(Catalogs) /\ Len(catalogs) = Len(wal) + 1
  /\ \A k \in DOMAIN catalogs : CatalogOK(catalogs[k])
  /\ \A l \in DOMAIN wal : TxOK(catalogs[l], wal[l], catalogs[l + 1])
  /\ CatalogOK(cat)
  /\ TxOK(Catalog, rows, cat)
  /\ work \in Seq(Writes \cup Alters)
  /\ rows # <<>> \/ work # <<>> => Len(wal) < MaxTx

\* The process and its position in the stream.
ProcInv ==
  /\ proc \in {"down", "starting", "up"}
  /\ types \in [Tables -> [Columns -> Oids \cup {Missing}]]
  /\ relations \in [Tables -> Seq(Columns)]
  /\ announced = relations
  /\ pos \in [tx : Nat \ {0}, num : Nat] /\ pos.tx <= Len(wal) + 1
  /\ pos.num <= (IF pos.tx <= Len(wal) THEN Len(wal[pos.tx]) + 1 ELSE 0)
  /\ currentLsn \in 0..(MaxTx + 1) /\ currentSeq \in Nat
  /\ consistent \in BOOLEAN
  /\ crashes \in 0..MaxCrashes /\ breaks \in 0..MaxBreaks
  /\ whole \in BOOLEAN /\ guessed \subseteq DOMAIN wal
  /\ proc = "up" /\ pos.num > 0 => currentLsn = pos.tx

\* Row n of transaction l is still to be decoded, or is an entry of ddl_logs
\* which is.
Ahead(l, n) == l \in DOMAIN wal /\ n \in DOMAIN wal[l] /\ (l > pos.tx \/ (l = pos.tx /\ n >= pos.num))
LogAhead(l, n) == Ahead(l, n) /\ wal[l][n].table = DDLLogs

\* The cache has the types of these columns of table t.
Knows(t, cols) == \A d \in cols : types[t][d.name] = d.oid

Refreshed == \A t \in Tables : Knows(t, ToSet(Catalog[t]))

\* Of this row of transaction l it has the types of the columns that are kept,
\* and a type for those that remain.
Serves(l, row) ==
  /\ Knows(row.table, {d \in ToSet(row.shape) : Kept(l, row.table, d)})
  /\ \A d \in ToSet(row.shape) : Remains(l, row.table, d.name) => types[row.table][d.name] # Missing

ServesAll == \A l \in DOMAIN wal : \A n \in DOMAIN wal[l] : Serves(l, wal[l][n])

KnowsLog == Knows(DDLLogs, ToSet(InitCatalog[DDLLogs]))

\* What a cache that is whole knows: the columns of ddl_logs; those of now, unless
\* an entry of ddl_logs will have them read again; and of a row ahead those that are
\* kept or remain, unless such an entry comes before the row.
CacheInv ==
  whole =>
    /\ KnowsLog
    /\ \/ \E l, n \in Nat : LogAhead(l, n)
       \/ Refreshed
    /\ \A l, n \in Nat : Ahead(l, n) =>
         \/ \E k, i \in Nat : LogAhead(k, i) /\ (k < l \/ (k = l /\ i < n))
         \/ Serves(l, wal[l][n])

\* While the process starts: without a checkpoint the stream may still begin at
\* any transaction, and the cache serves those that were there when it was read.
StartInv ==
  proc = "starting" =>
    /\ ~consistent /\ pos.num = 0
    /\ IF topic = <<>> THEN prev = [lsn |-> 0, seq |-> 0]
       ELSE prev = [lsn |-> Last(topic).lsn, seq |-> Last(topic).seq] /\ pos.tx = Last(topic).lsn
    /\ whole => \A l \in DOMAIN wal : l < pos.tx /\ topic = <<>> =>
                   \A n \in DOMAIN wal[l] : Serves(l, wal[l][n])

\* What the topic holds; w: the cache was whole.
FaithfulTo(l, row, c, w) ==
  LET kept == Said(row, {d \in ToSet(row.shape) : Kept(l, row.table, d)})
      all  == Said(row, ToSet(row.shape))
  IN /\ c.table = row.table /\ c.op = row.op
     /\ w => kept.old \subseteq c.old /\ kept.new \subseteq c.new
     /\ Values(c.old) \subseteq Values(all.old)
     /\ Values(c.new) \subseteq Values(all.new)

FieldRecs == [name : Columns, oid : Oids, format : Formats]
ChangeRecs == [table : Tables \cup {"none"}, op : {"I", "U", "D", "none"},
               old : SUBSET FieldRecs, new : SUBSET FieldRecs]
Messages == [lsn : Nat, seq : Nat, change : ChangeRecs, num : Nat, epoch : Nat,
             whole : BOOLEAN]

MessageOK(e) ==
  /\ e.lsn \in DOMAIN wal /\ e.epoch <= crashes
  /\ proc # "up" => e.epoch < crashes
  /\ IsChange(e) => /\ e.num \in DOMAIN wal[e.lsn]
                     /\ FaithfulTo(e.lsn, wal[e.lsn][e.num], e.change, e.whole)

TopicInv ==
  /\ topic \in Seq(Messages)
  /\ \A n \in DOMAIN topic : MessageOK(topic[n])

\* The names that an insert of a row with these columns gets now.
Known(t, shape) == {d.name : d \in {x \in ToSet(shape) : types[t][x.name] # Missing}}

\* What the process published last, with a whole cache: behind it no entry of
\* ddl_logs has gone by.
LastInv ==
  proc = "up" /\ topic # <<>> /\ Last(topic).epoch = crashes =>
    LET e == Last(topic)
    IN /\ consistent
       /\ e.whole => KnowsLog
       /\ e.whole /\ IsChange(e) =>
            /\ e.lsn = pos.tx /\ e.num < pos.num
            /\ ~LogIn(wal[pos.tx], (e.num + 1)..(pos.num - 1))
            /\ e.change.op = "I" =>
                 {g.name : g \in e.change.new} = Known(e.change.table, Row(e).shape)

IInv == PgInv /\ ProcInv /\ CacheInv /\ StartInv /\ TopicInv /\ LastInv /\ BatchesUniform

\* The number that message n of transaction l gets: that of the messages up to
\* it which are due, after Begin.
Rank(l, n) == Cardinality({i \in Due(l) : 0 < i /\ i <= n})

\* The reader has gone past item n of transaction l.
Behind(l, n) == l < pos.tx \/ (l = pos.tx /\ n < pos.num)

\* The topic has the transactions in order, and of a steady one the messages that
\* are due, with their numbers.
NumberInv ==
  /\ \A i, j \in DOMAIN topic : i < j => topic[i].lsn <= topic[j].lsn
  /\ \A l \in DOMAIN wal, n \in Nat : Steady(l) =>
       \A i \in Mine(l) : topic[i].num = n => topic[i].seq = Rank(l, n)
  /\ ReplayKeepsNumbers

\* A process publishes all that is due: what is behind it is in the topic, ...
BehindPublished ==
  topic # <<>> =>
    \A l \in DOMAIN wal : topic[1].lsn <= l /\ Steady(l) =>
      \A n \in Due(l) : Behind(l, n) => n \in Nums(l)
\* ... once it has published something nothing else is, ...
NoneAhead ==
  consistent =>
    /\ \A i \in DOMAIN topic : topic[i].lsn <= pos.tx
    /\ \A l \in DOMAIN wal : Steady(l) /\ pos.tx = l => \A n \in Nums(l) : n < pos.num
\* ... and until then it replays the transaction of the last message.
Replaying ==
  /\ topic = <<>> => ~consistent /\ prev = [lsn |-> 0, seq |-> 0] /\ pos.num = 0
  /\ topic # <<>> /\ ~consistent =>
       /\ prev = [lsn |-> Last(topic).lsn, seq |-> Last(topic).seq]
       /\ pos.tx = Last(topic).lsn \/ (pos.tx = Last(topic).lsn + 1 /\ pos.num = 0)
\* It counts what is due.
Counted ==
  \A l \in DOMAIN wal, n \in Nat :
    Steady(l) /\ pos.tx = l /\ pos.num = n + 1 => currentSeq = Rank(l, n)

ReplayInv == proc = "up" => BehindPublished /\ NoneAhead /\ Replaying /\ Counted

NumInv == NumberInv /\ ReplayInv

-----------------------------------------------------------------------------
(* Transactions.                                                            *)

LEMMA EmptyFacts ==
  ASSUME NEW S
  PROVE  <<>> \in Seq(S) /\ Len(<<>>) = 0 /\ DOMAIN <<>> = {}
OBVIOUS

\* An entry of ddl_logs stays where it is when a row is appended.
LEMMA LogStays ==
  ASSUME NEW q \in Seq(WireRows), NEW r \in WireRows, NEW S, NEW T
  PROVE  /\ LogIn(q, S) /\ S \subseteq T => LogIn(Append(q, r), T)
         /\ r.table = DDLLogs /\ Len(q) + 1 \in S => LogIn(Append(q, r), S)
<1>1. /\ DOMAIN Append(q, r) = DOMAIN q \cup {Len(q) + 1}
      /\ \A i \in DOMAIN q : Append(q, r)[i] = q[i]
      /\ Append(q, r)[Len(q) + 1] = r
  BY AppendFacts
<1> DEFINE a == Append(q, r)
<1> HIDE DEF a
<1> QED
  BY <1>1 DEF LogIn, a

\* A row is appended that has the shape the transaction has come to, and is an
\* entry of ddl_logs if that changes with it.
LEMMA TxGrows ==
  ASSUME NEW before, NEW q, NEW after, TxOK(before, q, after),
         NEW r, RowOK(r), NEW next,
         r.shape = after[r.table], r.shape = next[r.table],
         next = after \/ r.table = DDLLogs
  PROVE  TxOK(before, Append(q, r), next) /\ Append(q, r) # <<>>
<1> DEFINE a == Append(q, r)
           n == Len(q) + 1
<1>1. q \in Seq(WireRows) /\ r \in WireRows
  BY DEF TxOK, RowOK
<1>2. /\ a \in Seq(WireRows) /\ a # <<>> /\ Len(a) = n /\ DOMAIN a = DOMAIN q \cup {n}
      /\ \A i \in DOMAIN q : a[i] = q[i]
      /\ a[n] = r
  BY <1>1, AppendFacts
<1>3. Len(q) \in Nat /\ DOMAIN q = 1..Len(q)
  BY <1>1, SeqFacts
<1>4. \A S, T : LogIn(q, S) /\ S \subseteq T => LogIn(a, T)
  BY <1>1, LogStays
<1>5. \A S : r.table = DDLLogs /\ n \in S => LogIn(a, S)
  BY <1>1, LogStays
<1>6. after = before \/ LogIn(q, 1..Len(q))
  BY <1>3 DEF TxOK
<1> HIDE DEF a
<1>7. ASSUME NEW i \in DOMAIN a
      PROVE  /\ RowOK(a[i])
             /\ a[i].shape = before[a[i].table] \/ LogIn(a, 1..(i - 1))
             /\ a[i].shape = next[a[i].table] \/ LogIn(a, (i + 1)..Len(a))
  <2>1. CASE i = n
    <3>1. LogIn(q, 1..Len(q)) => LogIn(a, 1..(i - 1))
      <4>1. 1..Len(q) = 1..(i - 1)
        BY <1>3, <2>1
      <4> QED
        BY <1>4, <4>1
    <3> QED
      BY <1>2, <1>6, <2>1, <3>1
  <2>2. CASE i \in DOMAIN q
    <3>1. /\ RowOK(q[i])
          /\ q[i].shape = before[q[i].table] \/ LogIn(q, 1..(i - 1))
          /\ q[i].shape = after[q[i].table] \/ LogIn(q, (i + 1)..Len(q))
      BY <2>2 DEF TxOK
    <3>2. LogIn(q, 1..(i - 1)) => LogIn(a, 1..(i - 1))
      BY <1>4
    <3>3. LogIn(q, (i + 1)..Len(q)) => LogIn(a, (i + 1)..Len(a))
      <4>1. (i + 1)..Len(q) \subseteq (i + 1)..Len(a)
        BY <1>2, <1>3, <2>2
      <4> QED
        BY <1>4, <4>1
    <3>4. r.table = DDLLogs => LogIn(a, (i + 1)..Len(a))
      <4>1. n \in (i + 1)..Len(a)
        BY <1>2, <1>3, <2>2
      <4> QED
        BY <1>5, <4>1
    <3>5. a[i] = q[i]
      BY <1>2, <2>2
    <3> QED
      BY <3>1, <3>2, <3>3, <3>4, <3>5
  <2> QED
    BY <1>2, <2>1, <2>2
<1>8. ASSUME NEW i \in DOMAIN a, NEW j \in DOMAIN a, i < j,
             a[i].table = a[j].table, a[i].shape # a[j].shape
      PROVE  LogIn(a, (i + 1)..(j - 1))
  <2>1. i \in DOMAIN q /\ a[i] = q[i]
    BY <1>2, <1>3, <1>8
  <2>2. CASE j \in DOMAIN q
    <3>1. LogIn(q, (i + 1)..(j - 1))
      BY <1>2, <1>8, <2>1, <2>2 DEF TxOK
    <3> QED
      BY <1>4, <3>1
  <2>3. CASE j = n
    <3>1. a[j] = r
      BY <1>2, <2>3
    <3>2. LogIn(q, (i + 1)..Len(q))
      BY <1>8, <2>1, <3>1 DEF TxOK
    <3>3. (i + 1)..Len(q) = (i + 1)..(j - 1)
      BY <1>3, <2>3
    <3> QED
      BY <1>4, <3>2, <3>3
  <2> QED
    BY <1>2, <2>2, <2>3
<1>9. next = before \/ LogIn(a, DOMAIN a)
  <2>1. LogIn(q, 1..Len(q)) => LogIn(a, DOMAIN a)
    BY <1>2, <1>3, <1>4
  <2>2. r.table = DDLLogs => LogIn(a, DOMAIN a)
    BY <1>2, <1>5
  <2> QED
    BY <1>6, <2>1, <2>2
<1>10. TxOK(before, a, next)
  BY <1>2, <1>7, <1>8, <1>9 DEF TxOK
<1> QED
  BY <1>2, <1>10 DEF a

\* A transaction that has just begun.
LEMMA TxStarts ==
  ASSUME NEW c
  PROVE  TxOK(c, <<>>, c)
<1>1. <<>> \in Seq(WireRows) /\ DOMAIN <<>> = {}
  BY EmptyFacts
<1> DEFINE q == <<>>
<1> HIDE DEF q
<1>2. q \in Seq(WireRows) /\ DOMAIN q = {}
  BY <1>1 DEF q
<1>3. TxOK(c, q, c)
  BY <1>2 DEF TxOK
<1> QED
  BY <1>3 DEF q

-----------------------------------------------------------------------------
(* PostgreSQL.                                                              *)

LEMMA TableFacts ==
  /\ DDLLogs \in Tables /\ Names \subseteq Tables /\ Sources \in Tables
  /\ DDLLogs \notin Names \cup {Sources}
BY DecoderAssumption DEF Tables, DDLLogs, Sources

\* The columns of a table.
LEMMA ShapeFacts ==
  ASSUME NEW shape \in Seq(ColumnDefs)
  PROVE  /\ Len(shape) \in Nat /\ DOMAIN shape = 1..Len(shape)
         /\ \A i \in DOMAIN shape : /\ shape[i] \in ColumnDefs
                                    /\ shape[i].name \in Columns /\ shape[i].oid \in Oids
<1>1. /\ Len(shape) \in Nat /\ DOMAIN shape = 1..Len(shape)
      /\ \A i \in DOMAIN shape : shape[i] \in ColumnDefs
  BY SeqFacts
<1>2. \A d \in ColumnDefs : d.name \in Columns /\ d.oid \in Oids
  BY DEF ColumnDefs
<1> QED
  BY <1>1, <1>2

\* A tuple of a row is as long as the row and has the formats of its columns.
LEMMA TupleFacts ==
  ASSUME NEW shape \in Seq(ColumnDefs), NEW formats \in [Columns -> Formats]
  PROVE  /\ Tuple(shape, formats) \in Seq(Formats)
         /\ DOMAIN Tuple(shape, formats) = DOMAIN shape
         /\ \A i \in DOMAIN shape : Tuple(shape, formats)[i] = formats[shape[i].name]
<1>1. Len(shape) \in Nat /\ DOMAIN shape = 1..Len(shape)
  BY ShapeFacts
<1>2. \A i \in DOMAIN shape : formats[shape[i].name] \in Formats
  BY ShapeFacts
<1> DEFINE q == Tuple(shape, formats)
<1>3. q = [i \in 1..Len(shape) |-> q[i]] /\ \A i \in 1..Len(shape) : q[i] \in Formats
  BY <1>1, <1>2 DEF Tuple
<1>4. q \in Seq(Formats)
  <2> HIDE DEF q
  <2> QED
    BY <1>1, <1>3, SeqOfFunction
<1> QED
  BY <1>4 DEF Tuple

\* The row that a statement writes.
LEMMA WireRowOK ==
  ASSUME CatalogOK(cat), NEW s \in Writes, cat[s.table] # <<>>
  PROVE  /\ RowOK(WireRow(s)) /\ WireRow(s).table = s.table
         /\ WireRow(s).shape = cat[s.table] /\ s.table # DDLLogs
<1> DEFINE t == s.table
           shape == cat[t]
           r == WireRow(s)
<1>1. /\ t \in Tables /\ t # DDLLogs /\ s.op \in {"I", "U", "D"}
      /\ s.parts \in Seq(Parts) /\ IsWrite(s)
  BY TableFacts DEF Writes
<1>2. shape \in Seq(ColumnDefs) /\ Distinct(shape)
  BY <1>1 DEF CatalogOK, Catalogs
<1>3. Len(s.parts) \in Nat /\ DOMAIN s.parts = 1..Len(s.parts)
      /\ \A i \in DOMAIN s.parts : s.parts[i] \in Parts
  BY <1>1, SeqFacts
<1>4. \A i \in DOMAIN s.parts : s.parts[i].kind \in {"K", "O", "N"}
                                /\ s.parts[i].formats \in [Columns -> Formats]
  BY <1>3 DEF Parts
<1>5. /\ r.table = t /\ r.op = s.op /\ r.shape = shape
      /\ r.parts = [i \in DOMAIN s.parts |->
                      [kind |-> s.parts[i].kind, tuple |-> Tuple(shape, s.parts[i].formats)]]
      /\ r = [table |-> r.table, op |-> r.op, shape |-> r.shape, parts |-> r.parts]
  BY DEF WireRow
<1> HIDE DEF r, shape
<1>6. DOMAIN r.parts = DOMAIN s.parts
      /\ \A i \in DOMAIN s.parts :
           /\ r.parts[i] \in WireParts
           /\ r.parts[i].kind = s.parts[i].kind
           /\ r.parts[i].tuple = Tuple(shape, s.parts[i].formats)
           /\ DOMAIN r.parts[i].tuple = DOMAIN shape
           /\ \A k \in DOMAIN shape : r.parts[i].tuple[k] = s.parts[i].formats[shape[k].name]
  <2>1. \A i \in DOMAIN s.parts :
           /\ Tuple(shape, s.parts[i].formats) \in Seq(Formats)
           /\ DOMAIN Tuple(shape, s.parts[i].formats) = DOMAIN shape
           /\ \A k \in DOMAIN shape :
                Tuple(shape, s.parts[i].formats)[k] = s.parts[i].formats[shape[k].name]
    BY <1>2, <1>4, TupleFacts
  <2> QED
    BY <1>4, <1>5, <2>1 DEF WireParts
<1>7. r.parts \in Seq(WireParts) /\ Len(r.parts) = Len(s.parts)
  <2>1. r.parts = [i \in 1..Len(s.parts) |-> r.parts[i]]
    BY <1>3, <1>5
  <2>2. \A i \in 1..Len(s.parts) : r.parts[i] \in WireParts
    BY <1>3, <1>6
  <2> QED
    BY <1>3, <2>1, <2>2, SeqOfFunction
<1>8. r \in WireRows
  BY <1>1, <1>2, <1>5, <1>7 DEF WireRows
<1>9. 1 \in DOMAIN s.parts /\ (Len(s.parts) = 2 => 2 \in DOMAIN s.parts)
  BY <1>1, <1>3 DEF IsWrite
<1>10. \A k \in DOMAIN shape : shape[k].name \in Columns
  BY <1>2, ShapeFacts
<1>11. r.op = "I" => /\ r.parts[1].kind = "N"
                     /\ \A i \in DOMAIN r.shape : r.parts[1].tuple[i] # "u"
  <2> SUFFICES ASSUME r.op = "I"
               PROVE  /\ r.parts[1].kind = "N"
                      /\ \A i \in DOMAIN r.shape : r.parts[1].tuple[i] # "u"
    OBVIOUS
  <2>1. /\ s.parts[1].kind = "N" /\ \A c \in Columns : s.parts[1].formats[c] # "u"
        /\ r.shape = shape
    BY <1>1, <1>5 DEF IsWrite
  <2>2. /\ r.parts[1].kind = s.parts[1].kind
        /\ \A k \in DOMAIN shape : r.parts[1].tuple[k] = s.parts[1].formats[shape[k].name]
    BY <1>6, <1>9
  <2> QED
    BY <1>10, <2>1, <2>2
<1>12. /\ Len(r.parts) = (IF r.op = "U" /\ r.parts[1].kind # "N" THEN 2 ELSE 1)
       /\ r.op = "D" => r.parts[1].kind # "N"
       /\ Len(r.parts) = 2 => r.parts[2].kind = "N"
  BY <1>1, <1>5, <1>6, <1>7, <1>9 DEF IsWrite
<1>13. RowOK(r)
  BY <1>1, <1>2, <1>5, <1>6, <1>8, <1>11, <1>12 DEF RowOK, shape
<1> QED
  BY <1>1, <1>5, <1>13 DEF r, shape

\* The row of ddl_logs.
LEMMA LogRowOK ==
  ASSUME CatalogOK(cat)
  PROVE  RowOK(LogRow) /\ LogRow.table = DDLLogs /\ LogRow.shape = cat[DDLLogs]
<1> DEFINE shape == cat[DDLLogs]
           tuple == [i \in DOMAIN shape |-> "b"]
           part == [kind |-> "N", tuple |-> tuple]
           r == LogRow
<1>1. shape \in Seq(ColumnDefs) /\ Distinct(shape) /\ shape # <<>> /\ shape = InitCatalog[DDLLogs]
  BY TableFacts, DecoderAssumption DEF CatalogOK, Catalogs
<1>2. Len(shape) \in Nat /\ DOMAIN shape = 1..Len(shape)
  BY <1>1, SeqFacts
<1>3. tuple \in Seq(Formats) /\ DOMAIN tuple = DOMAIN shape /\ \A i \in DOMAIN shape : tuple[i] = "b"
  <2>1. tuple \in [1..Len(shape) -> Formats]
    BY <1>2 DEF Formats
  <2> QED
    BY <1>2, <2>1
<1>4. /\ r.table = DDLLogs /\ r.op = "I" /\ r.shape = shape /\ r.parts = <<part>>
      /\ r = [table |-> r.table, op |-> r.op, shape |-> r.shape, parts |-> r.parts]
  BY DEF LogRow
<1> HIDE DEF r, shape, tuple
<1>5. part \in WireParts /\ part.kind = "N" /\ part.tuple = tuple
  BY <1>3 DEF WireParts
<1> HIDE DEF part
<1>6. <<part>> \in Seq(WireParts) /\ Len(<<part>>) = 1 /\ DOMAIN <<part>> = {1} /\ <<part>>[1] = part
  BY <1>5
<1>7. r \in WireRows
  BY <1>1, <1>4, <1>6, TableFacts DEF WireRows
<1>8. \A i \in DOMAIN r.parts : DOMAIN r.parts[i].tuple = DOMAIN r.shape
  BY <1>3, <1>4, <1>5, <1>6
<1>9. r.parts[1].kind = "N" /\ \A i \in DOMAIN r.shape : r.parts[1].tuple[i] # "u"
  BY <1>3, <1>4, <1>5, <1>6
<1>10. RowOK(r)
  BY <1>1, <1>4, <1>6, <1>7, <1>8, <1>9 DEF RowOK
<1> QED
  BY <1>4, <1>10 DEF r, shape

\* The lengths of the log and of the history of the catalog.
LEMMA LogFacts ==
  ASSUME PgInv
  PROVE  /\ Len(wal) \in Nat /\ DOMAIN wal = 1..Len(wal)
         /\ Len(catalogs) = Len(wal) + 1 /\ DOMAIN catalogs = 1..(Len(wal) + 1)
         /\ Catalog = catalogs[Len(wal) + 1] /\ CatalogOK(Catalog)
         /\ \A l \in DOMAIN wal : /\ Len(wal[l]) \in Nat /\ DOMAIN wal[l] = 1..Len(wal[l])
                                  /\ \A n \in DOMAIN wal[l] : RowOK(wal[l][n])
<1>1. Len(wal) \in Nat /\ DOMAIN wal = 1..Len(wal) /\ DOMAIN catalogs = 1..Len(catalogs)
      /\ Len(catalogs) = Len(wal) + 1
  BY SeqFacts DEF PgInv
<1>2. Catalog = catalogs[Len(wal) + 1]
  BY <1>1 DEF Catalog, Last
<1>3. CatalogOK(Catalog)
  BY <1>1, <1>2 DEF PgInv
<1>4. \A l \in DOMAIN wal : wal[l] \in Seq(WireRows) /\ \A n \in DOMAIN wal[l] : RowOK(wal[l][n])
  BY DEF PgInv, TxOK
<1>5. \A l \in DOMAIN wal : Len(wal[l]) \in Nat /\ DOMAIN wal[l] = 1..Len(wal[l])
  BY <1>4, SeqFacts
<1> QED
  BY <1>1, <1>2, <1>3, <1>4, <1>5

\* What a commit adds to them.
LEMMA CommitFacts ==
  ASSUME PgInv, PgCommit
  PROVE  /\ Len(wal') = Len(wal) + 1 /\ DOMAIN wal' = DOMAIN wal \cup {Len(wal) + 1}
         /\ \A l \in DOMAIN wal : wal'[l] = wal[l]
         /\ wal'[Len(wal) + 1] = rows
         /\ Len(catalogs') = Len(wal) + 2
         /\ DOMAIN catalogs' = DOMAIN catalogs \cup {Len(wal) + 2}
         /\ \A k \in DOMAIN catalogs : catalogs'[k] = catalogs[k]
         /\ catalogs'[Len(wal) + 2] = cat /\ Catalog' = cat
         /\ wal' \in Seq(Seq(WireRows)) /\ catalogs' \in Seq(Catalogs)
<1>1. wal' = Append(wal, rows) /\ catalogs' = Append(catalogs, cat)
  BY DEF PgCommit
<1>2. wal \in Seq(Seq(WireRows)) /\ catalogs \in Seq(Catalogs)
      /\ rows \in Seq(WireRows) /\ cat \in Catalogs
  BY DEF PgInv, TxOK, CatalogOK
<1>3. Len(wal) \in Nat /\ Len(catalogs) = Len(wal) + 1
  BY LogFacts
<1>4. /\ wal' \in Seq(Seq(WireRows))
      /\ Len(wal') = Len(wal) + 1 /\ DOMAIN wal' = DOMAIN wal \cup {Len(wal) + 1}
      /\ \A l \in DOMAIN wal : wal'[l] = wal[l]
      /\ wal'[Len(wal) + 1] = rows
  BY <1>1, <1>2, AppendFacts
<1>5. /\ catalogs' \in Seq(Catalogs)
      /\ Len(catalogs') = Len(catalogs) + 1
      /\ DOMAIN catalogs' = DOMAIN catalogs \cup {Len(catalogs) + 1}
      /\ \A k \in DOMAIN catalogs : catalogs'[k] = catalogs[k]
      /\ catalogs'[Len(catalogs) + 1] = cat
  BY <1>1, <1>2, AppendFacts
<1>6. Len(catalogs) + 1 = Len(wal) + 2
  BY <1>3
<1>7. Catalog' = cat
  BY <1>5 DEF Catalog, Last
<1> QED
  BY <1>4, <1>5, <1>6, <1>7

LEMMA PgBeginInv ==
  ASSUME PgInv, PgBegin
  PROVE  PgInv'
<1>1. /\ UNCHANGED <<cat, rows, wal, catalogs>> /\ Len(wal) < MaxTx /\ work' \in Transactions
      /\ Catalog' = Catalog
  BY DEF PgBegin, Catalog
<1>2. work' \in Seq(Writes \cup Alters)
  BY <1>1, DecoderAssumption
<1> QED
  BY <1>1, <1>2 DEF PgInv

LEMMA PgAlterInv ==
  ASSUME PgInv, PgAlter
  PROVE  PgInv'
<1>1. /\ work # <<>> /\ Head(work).op = "ALTER" /\ work' = Tail(work)
      /\ cat' = [cat EXCEPT ![Head(work).table] = Head(work).columns]
      /\ rows' = Append(rows, LogRow)
      /\ wal' = wal /\ catalogs' = catalogs /\ Catalog' = Catalog
  BY DEF PgAlter, Catalog
<1>2. /\ Head(work) \in Writes \cup Alters /\ work' \in Seq(Writes \cup Alters)
  BY <1>1, TailFacts DEF PgInv
<1>3. Head(work) \in Alters
  BY <1>1, <1>2 DEF Writes
<1>4. /\ Head(work).table \in Names /\ Head(work).columns \in Seq(ColumnDefs)
      /\ Distinct(Head(work).columns)
  BY <1>3 DEF Alters
<1>5. CatalogOK(cat) /\ CatalogOK(cat')
  BY <1>1, <1>4, TableFacts DEF PgInv, CatalogOK, Catalogs
<1>6. RowOK(LogRow) /\ LogRow.table = DDLLogs /\ LogRow.shape = cat[DDLLogs]
  BY <1>5, LogRowOK
<1>7. cat'[DDLLogs] = cat[DDLLogs]
  BY <1>5 DEF CatalogOK
<1>8. TxOK(Catalog, rows', cat')
  <2>1. TxOK(Catalog, rows, cat)
    BY DEF PgInv
  <2> DEFINE r == LogRow
  <2> HIDE DEF r
  <2>2. RowOK(r) /\ r.table = DDLLogs /\ r.shape = cat[r.table] /\ r.shape = cat'[r.table]
    BY <1>6, <1>7 DEF r
  <2>3. TxOK(Catalog, Append(rows, r), cat')
    BY <2>1, <2>2, TxGrows
  <2> QED
    BY <1>1, <2>3 DEF r
<1>9. Len(wal) < MaxTx
  BY <1>1 DEF PgInv
<1> QED
  BY <1>1, <1>2, <1>5, <1>8, <1>9 DEF PgInv

LEMMA PgWriteInv ==
  ASSUME PgInv, PgWrite
  PROVE  PgInv'
<1>1. /\ work # <<>> /\ Head(work).op # "ALTER" /\ work' = Tail(work)
      /\ cat[Head(work).table] # <<>> /\ cat' = cat
      /\ rows' = Append(rows, WireRow(Head(work)))
      /\ wal' = wal /\ catalogs' = catalogs /\ Catalog' = Catalog
  BY DEF PgWrite, Catalog
<1>2. /\ Head(work) \in Writes \cup Alters /\ work' \in Seq(Writes \cup Alters)
  BY <1>1, TailFacts DEF PgInv
<1>3. Head(work) \in Writes /\ CatalogOK(cat)
  BY <1>1, <1>2 DEF Alters, PgInv
<1>4. /\ RowOK(WireRow(Head(work)))
      /\ WireRow(Head(work)).shape = cat[WireRow(Head(work)).table]
  BY <1>1, <1>3, WireRowOK
<1>5. TxOK(Catalog, rows', cat)
  <2>1. TxOK(Catalog, rows, cat)
    BY DEF PgInv
  <2> DEFINE r == WireRow(Head(work))
  <2> HIDE DEF r
  <2>2. RowOK(r) /\ r.shape = cat[r.table]
    BY <1>4 DEF r
  <2>3. TxOK(Catalog, Append(rows, r), cat)
    BY <2>1, <2>2, TxGrows
  <2> QED
    BY <1>1, <2>3 DEF r
<1>6. Len(wal) < MaxTx
  BY <1>1 DEF PgInv
<1> QED
  BY <1>1, <1>2, <1>3, <1>5, <1>6 DEF PgInv

LEMMA PgRollbackInv ==
  ASSUME PgInv, PgRollback
  PROVE  PgInv'
<1>1. /\ work' = <<>> /\ rows' = <<>> /\ cat' = Catalog
      /\ wal' = wal /\ catalogs' = catalogs /\ Catalog' = Catalog
  BY DEF PgRollback, Catalog
<1>2. CatalogOK(Catalog)
  BY LogFacts
<1>3. TxOK(Catalog, <<>>, Catalog)
  BY TxStarts
<1>4. <<>> \in Seq(Writes \cup Alters)
  BY EmptyFacts
<1> QED
  BY <1>1, <1>2, <1>3, <1>4 DEF PgInv

LEMMA PgCommitInv ==
  ASSUME PgInv, PgCommit
  PROVE  PgInv'
<1>1. /\ work = <<>> /\ rows # <<>> /\ work' = work /\ cat' = cat /\ rows' = <<>>
  BY DEF PgCommit
<1>2. /\ Len(wal') = Len(wal) + 1 /\ DOMAIN wal' = DOMAIN wal \cup {Len(wal) + 1}
      /\ \A l \in DOMAIN wal : wal'[l] = wal[l]
      /\ wal'[Len(wal) + 1] = rows
      /\ Len(catalogs') = Len(wal) + 2
      /\ DOMAIN catalogs' = DOMAIN catalogs \cup {Len(wal) + 2}
      /\ \A k \in DOMAIN catalogs : catalogs'[k] = catalogs[k]
      /\ catalogs'[Len(wal) + 2] = cat /\ Catalog' = cat
      /\ wal' \in Seq(Seq(WireRows)) /\ catalogs' \in Seq(Catalogs)
  BY CommitFacts
<1>3. /\ Len(wal) \in Nat /\ DOMAIN wal = 1..Len(wal) /\ DOMAIN catalogs = 1..(Len(wal) + 1)
      /\ Catalog = catalogs[Len(wal) + 1]
  BY LogFacts
<1>4. Len(wal') <= MaxTx
  BY <1>1, <1>2, <1>3, DecoderAssumption DEF PgInv
<1>5. \A k \in DOMAIN catalogs' : CatalogOK(catalogs'[k])
  BY <1>2 DEF PgInv
<1>6. ASSUME NEW l \in DOMAIN wal'
      PROVE  TxOK(catalogs'[l], wal'[l], catalogs'[l + 1])
  <2>1. CASE l \in DOMAIN wal
    <3>1. TxOK(catalogs[l], wal[l], catalogs[l + 1])
      BY <2>1 DEF PgInv
    <3>2. l \in DOMAIN catalogs /\ l + 1 \in DOMAIN catalogs
      BY <1>3, <2>1
    <3> QED
      BY <1>2, <2>1, <3>1, <3>2
  <2>2. CASE l = Len(wal) + 1
    <3>1. TxOK(Catalog, rows, cat)
      BY DEF PgInv
    <3>2. l \in DOMAIN catalogs /\ l + 1 = Len(wal) + 2
      BY <1>3, <2>2
    <3> QED
      BY <1>2, <1>3, <2>2, <3>1, <3>2
  <2> QED
    BY <1>2, <2>1, <2>2
<1>7. TxOK(cat, <<>>, cat) /\ CatalogOK(cat)
  BY TxStarts DEF PgInv
<1>8. Len(catalogs') = Len(wal') + 1
  BY <1>2, <1>3
<1> QED
  BY <1>1, <1>2, <1>4, <1>5, <1>6, <1>7, <1>8 DEF PgInv

LEMMA PgKept ==
  ASSUME PgInv, UNCHANGED pgVars
  PROVE  PgInv' /\ wal' = wal /\ catalogs' = catalogs /\ Catalog' = Catalog
<1>1. /\ work' = work /\ cat' = cat /\ rows' = rows /\ wal' = wal /\ catalogs' = catalogs
      /\ Catalog' = Catalog
  BY DEF pgVars, txVars, Catalog
<1> QED
  BY <1>1 DEF PgInv

-----------------------------------------------------------------------------
(* Decoding a row.                                                          *)

\* The old and the new part of a row.
LEMMA PartsFacts ==
  ASSUME NEW row, RowOK(row)
  PROVE  /\ row.parts[1] \in WireParts /\ DOMAIN row.parts[1].tuple = DOMAIN row.shape
         /\ row.parts[1].kind # "N" => OldParts(row) = {row.parts[1]}
         /\ row.parts[1].kind = "N" => OldParts(row) = {} /\ NewParts(row) = {row.parts[1]}
         /\ row.parts[1].kind # "N" /\ row.op = "U" =>
              /\ row.parts[2] \in WireParts /\ DOMAIN row.parts[2].tuple = DOMAIN row.shape
              /\ row.parts[2].kind = "N" /\ NewParts(row) = {row.parts[2]}
         /\ row.parts[1].kind # "N" /\ row.op # "U" => NewParts(row) = {}
<1> DEFINE q == row.parts
<1>1. q \in Seq(WireParts)
  BY DEF RowOK, WireRows
<1>2. /\ Len(q) \in Nat /\ DOMAIN q = 1..Len(q)
      /\ \A i \in DOMAIN q : q[i] \in WireParts /\ DOMAIN q[i].tuple = DOMAIN row.shape
  BY <1>1, SeqFacts DEF RowOK
<1>3. /\ Len(q) = (IF row.op = "U" /\ q[1].kind # "N" THEN 2 ELSE 1)
      /\ Len(q) = 2 => q[2].kind = "N"
  BY DEF RowOK
<1> HIDE DEF q
<1>4. CASE row.op = "U" /\ q[1].kind # "N"
  <2>1. DOMAIN q = {1, 2} /\ q[2].kind = "N"
    BY <1>2, <1>3, <1>4
  <2>2. ToSet(q) = {q[1], q[2]}
    BY <2>1 DEF ToSet
  <2>3. {p \in ToSet(q) : p.kind # "N"} = {q[1]} /\ {p \in ToSet(q) : p.kind = "N"} = {q[2]}
    BY <1>4, <2>1, <2>2
  <2> QED
    BY <1>2, <1>4, <2>1, <2>3 DEF OldParts, NewParts, q
<1>5. CASE ~(row.op = "U" /\ q[1].kind # "N")
  <2>1. DOMAIN q = {1}
    BY <1>2, <1>3, <1>5
  <2>2. ToSet(q) = {q[1]}
    BY <2>1 DEF ToSet
  <2>3. CASE q[1].kind = "N"
    <3>1. {p \in ToSet(q) : p.kind # "N"} = {} /\ {p \in ToSet(q) : p.kind = "N"} = {q[1]}
      BY <2>2, <2>3
    <3> QED
      BY <1>2, <2>1, <2>3, <3>1 DEF OldParts, NewParts, q
  <2>4. CASE q[1].kind # "N"
    <3>1. {p \in ToSet(q) : p.kind # "N"} = {q[1]} /\ {p \in ToSet(q) : p.kind = "N"} = {}
      BY <2>2, <2>4
    <3> QED
      BY <1>2, <1>5, <2>1, <2>4, <3>1 DEF OldParts, NewParts, q
  <2> QED
    BY <2>3, <2>4
<1> QED
  BY <1>4, <1>5

\* The fields that makePBTuple makes of a part: for these columns.
Shown(row, p, noNull) ==
  {j \in DOMAIN row.shape : /\ noNull => p.tuple[j] \in {"b", "t"}
                            /\ types[row.table][row.shape[j].name] # Missing
                            /\ p.tuple[j] # "u"}
PartFields(row, p, noNull) ==
  {[name |-> row.shape[i].name, oid |-> types[row.table][row.shape[i].name], format |-> p.tuple[i]]
     : i \in Shown(row, p, noNull)}

\* The decoder has been told the columns of the row.
Told(row) == row.shape # <<>> /\ relations[row.table] = ColumnNames(row.shape)

LEMMA TupleDecoded ==
  ASSUME NEW row, Told(row), NEW p, DOMAIN p.tuple = DOMAIN row.shape, NEW noNull \in BOOLEAN
  PROVE  MakePBTuple(row.table, relations[row.table], ReadTuple(p.tuple), noNull)
           = PartFields(row, p, noNull)
<1> DEFINE src == ReadTuple(p.tuple)
           rel == relations[row.table]
<1>1. /\ DOMAIN src = DOMAIN row.shape
      /\ \A i \in DOMAIN row.shape : src[i].format = p.tuple[i]
                                     /\ (src[i].datum <=> p.tuple[i] \in {"b", "t"})
  BY DEF ReadTuple
<1>2. \A i \in DOMAIN row.shape : rel[i] = row.shape[i].name
  BY DEF Told, ColumnNames
<1> HIDE DEF src, rel
<1>3. {j \in DOMAIN src : /\ noNull => src[j].datum
                          /\ types[row.table][rel[j]] # Missing
                          /\ src[j].format # "u"} = Shown(row, p, noNull)
  BY <1>1, <1>2 DEF Shown
<1>4. \A i \in Shown(row, p, noNull) :
        /\ rel[i] = row.shape[i].name /\ src[i].format = p.tuple[i]
  BY <1>1, <1>2 DEF Shown
<1>5. {[name |-> rel[i], oid |-> types[row.table][rel[i]], format |-> src[i].format]
         : i \in Shown(row, p, noNull)} = PartFields(row, p, noNull)
  BY <1>4 DEF PartFields
<1> QED
  BY <1>3, <1>5 DEF MakePBTuple, GetTypeOID, src, rel

LEMMA EmptyDecoded ==
  ASSUME NEW t, NEW rel, NEW noNull
  PROVE  MakePBTuple(t, rel, <<>>, noNull) = {}
<1>1. DOMAIN <<>> = {}
  OBVIOUS
<1> DEFINE q == <<>>
<1> HIDE DEF q
<1>2. DOMAIN q = {}
  BY <1>1 DEF q
<1>3. MakePBTuple(t, rel, q, noNull) = {}
  BY <1>2 DEF MakePBTuple
<1> QED
  BY <1>3 DEF q

\* The change that Decode makes, part by part.
LEMMA ChangeDecoded ==
  ASSUME NEW row, RowOK(row), Told(row)
  PROVE  /\ DecodedChange(row).table = row.table /\ DecodedChange(row).op = row.op
         /\ DecodedChange(row) = [table |-> row.table, op |-> row.op,
              old |-> DecodedChange(row).old, new |-> DecodedChange(row).new]
         /\ \/ OldParts(row) = {} /\ DecodedChange(row).old = {}
            \/ \E p \in WireParts : /\ DOMAIN p.tuple = DOMAIN row.shape /\ OldParts(row) = {p}
                                     /\ DecodedChange(row).old = PartFields(row, p, TRUE)
         /\ \/ NewParts(row) = {} /\ DecodedChange(row).new = {}
            \/ \E p \in WireParts : /\ DOMAIN p.tuple = DOMAIN row.shape /\ NewParts(row) = {p}
                                     /\ DecodedChange(row).new = PartFields(row, p, FALSE)
<1> DEFINE first == row.parts[1]
           new == IF first.kind # "N" /\ row.op = "U" THEN row.parts[2] ELSE first
           c == DecodedChange(row)
           rel == relations[row.table]
<1>1. /\ first \in WireParts /\ DOMAIN first.tuple = DOMAIN row.shape
      /\ new \in WireParts /\ DOMAIN new.tuple = DOMAIN row.shape
      /\ OldParts(row) = IF first.kind # "N" THEN {first} ELSE {}
      /\ NewParts(row) = IF new.kind = "N" THEN {new} ELSE {}
  BY PartsFacts
<1>2. /\ c.table = row.table /\ c.op = row.op
      /\ c = [table |-> row.table, op |-> row.op, old |-> c.old, new |-> c.new]
      /\ c.old = MakePBTuple(row.table, rel,
                             IF first.kind # "N" THEN ReadTuple(first.tuple) ELSE <<>>, TRUE)
      /\ c.new = MakePBTuple(row.table, rel,
                             IF new.kind = "N" THEN ReadTuple(new.tuple) ELSE <<>>, FALSE)
  BY DEF DecodedChange, ReadRowChange
<1> HIDE DEF first, new, c, rel
<1>3. c.old = IF first.kind # "N" THEN PartFields(row, first, TRUE) ELSE {}
  BY <1>1, <1>2, TupleDecoded, EmptyDecoded DEF rel
<1>4. c.new = IF new.kind = "N" THEN PartFields(row, new, FALSE) ELSE {}
  BY <1>1, <1>2, TupleDecoded, EmptyDecoded DEF rel
<1>5. \/ OldParts(row) = {} /\ c.old = {}
      \/ \E p \in WireParts : /\ DOMAIN p.tuple = DOMAIN row.shape /\ OldParts(row) = {p}
                               /\ c.old = PartFields(row, p, TRUE)
  BY <1>1, <1>3
<1>6. \/ NewParts(row) = {} /\ c.new = {}
      \/ \E p \in WireParts : /\ DOMAIN p.tuple = DOMAIN row.shape /\ NewParts(row) = {p}
                               /\ c.new = PartFields(row, p, FALSE)
  BY <1>1, <1>4
<1> QED
  BY <1>2, <1>5, <1>6 DEF c

\* A part says what the row says of the columns the cache knows, and of the
\* others no value that the row does not have.
LEMMA PartFaithful ==
  ASSUME NEW row, RowOK(row), NEW p \in WireParts, DOMAIN p.tuple = DOMAIN row.shape,
         NEW cols, cols \subseteq ToSet(row.shape), Knows(row.table, cols)
  PROVE  /\ {f \in Fields(row, cols, {p}) : f.format \in {"b", "t"}} \subseteq PartFields(row, p, TRUE)
         /\ {f \in Fields(row, cols, {p}) : f.format # "u"} \subseteq PartFields(row, p, FALSE)
         /\ Values(PartFields(row, p, TRUE))
              \subseteq Values({f \in Fields(row, ToSet(row.shape), {p}) : f.format \in {"b", "t"}})
         /\ Values(PartFields(row, p, FALSE))
              \subseteq Values({f \in Fields(row, ToSet(row.shape), {p}) : f.format # "u"})
<1> DEFINE shape == row.shape
           F(i) == [name |-> shape[i].name, oid |-> shape[i].oid, format |-> p.tuple[i]]
           G(i) == [name |-> shape[i].name, oid |-> types[row.table][shape[i].name],
                    format |-> p.tuple[i]]
<1>1. shape \in Seq(ColumnDefs)
  BY DEF RowOK, WireRows
<1>2. \A i \in DOMAIN shape : shape[i].oid \in Oids /\ shape[i] \in ToSet(shape)
  BY <1>1, ShapeFacts DEF ToSet
<1>3. \A i \in DOMAIN shape : shape[i] \in cols =>
        types[row.table][shape[i].name] = shape[i].oid /\ shape[i].oid # Missing
  BY <1>2, DecoderAssumption DEF Knows
<1>4. Fields(row, cols, {p}) = {F(i) : i \in {j \in DOMAIN shape : shape[j] \in cols}}
  BY DEF Fields
<1>5. Fields(row, ToSet(shape), {p}) = {F(i) : i \in DOMAIN shape}
  BY <1>2 DEF Fields
<1>6. \A b \in BOOLEAN : PartFields(row, p, b) = {G(i) : i \in Shown(row, p, b)}
  BY DEF PartFields
<1>7. \A i \in DOMAIN shape : /\ F(i).name = shape[i].name /\ F(i).format = p.tuple[i]
                              /\ G(i).name = shape[i].name /\ G(i).format = p.tuple[i]
  OBVIOUS
<1>8. \A i \in DOMAIN shape : shape[i] \in cols => F(i) = G(i)
  BY <1>3
<1>9. \A i \in Shown(row, p, TRUE) : i \in DOMAIN shape /\ p.tuple[i] \in {"b", "t"}
  BY DEF Shown
<1>10. \A i \in Shown(row, p, FALSE) : i \in DOMAIN shape /\ p.tuple[i] # "u"
  BY DEF Shown
<1>11. \A i \in DOMAIN shape : shape[i] \in cols /\ p.tuple[i] \in {"b", "t"} =>
         i \in Shown(row, p, TRUE)
  BY <1>3 DEF Shown
<1>12. \A i \in DOMAIN shape : shape[i] \in cols /\ p.tuple[i] # "u" =>
         i \in Shown(row, p, FALSE)
  BY <1>3 DEF Shown
<1> HIDE DEF F, G, shape
<1>13. {f \in Fields(row, cols, {p}) : f.format \in {"b", "t"}} \subseteq PartFields(row, p, TRUE)
  BY <1>4, <1>6, <1>7, <1>8, <1>11
<1>14. {f \in Fields(row, cols, {p}) : f.format # "u"} \subseteq PartFields(row, p, FALSE)
  BY <1>4, <1>6, <1>7, <1>8, <1>12
<1>15. Values(PartFields(row, p, TRUE))
         \subseteq Values({f \in Fields(row, ToSet(shape), {p}) : f.format \in {"b", "t"}})
  <2> DEFINE S == {f \in Fields(row, ToSet(shape), {p}) : f.format \in {"b", "t"}}
  <2>1. ASSUME NEW v \in Values(PartFields(row, p, TRUE))
        PROVE  v \in Values(S)
    <3>1. PICK g \in PartFields(row, p, TRUE) : v = <<g.name, g.format>>
      BY DEF Values
    <3>2. PICK i \in Shown(row, p, TRUE) : g = G(i)
      BY <1>6
    <3>3. F(i) \in S /\ v = <<F(i).name, F(i).format>>
      BY <1>5, <1>7, <1>9, <3>1, <3>2
    <3> HIDE DEF S
    <3> QED
      BY <3>3 DEF Values
  <2> QED
    BY <2>1
<1>16. Values(PartFields(row, p, FALSE))
         \subseteq Values({f \in Fields(row, ToSet(shape), {p}) : f.format # "u"})
  <2> DEFINE S == {f \in Fields(row, ToSet(shape), {p}) : f.format # "u"}
  <2>1. ASSUME NEW v \in Values(PartFields(row, p, FALSE))
        PROVE  v \in Values(S)
    <3>1. PICK g \in PartFields(row, p, FALSE) : v = <<g.name, g.format>>
      BY DEF Values
    <3>2. PICK i \in Shown(row, p, FALSE) : g = G(i)
      BY <1>6
    <3>3. F(i) \in S /\ v = <<F(i).name, F(i).format>>
      BY <1>5, <1>7, <1>10, <3>1, <3>2
    <3> HIDE DEF S
    <3> QED
      BY <3>3 DEF Values
  <2> QED
    BY <2>1
<1> QED
  BY <1>13, <1>14, <1>15, <1>16 DEF shape

\* The decoded change is faithful to its row, and says what is kept if the cache
\* knows those columns.
LEMMA ChangeFaithful ==
  ASSUME NEW l, NEW row, RowOK(row), Told(row), NEW w,
         w => Knows(row.table, {d \in ToSet(row.shape) : Kept(l, row.table, d)})
  PROVE  FaithfulTo(l, row, DecodedChange(row), w)
<1> DEFINE c == DecodedChange(row)
           kept == {d \in ToSet(row.shape) : Kept(l, row.table, d)}
           cols == IF w THEN kept ELSE {}
           all == ToSet(row.shape)
<1>1. /\ c.table = row.table /\ c.op = row.op
      /\ \/ OldParts(row) = {} /\ c.old = {}
         \/ \E p \in WireParts : /\ DOMAIN p.tuple = DOMAIN row.shape /\ OldParts(row) = {p}
                                  /\ c.old = PartFields(row, p, TRUE)
      /\ \/ NewParts(row) = {} /\ c.new = {}
         \/ \E p \in WireParts : /\ DOMAIN p.tuple = DOMAIN row.shape /\ NewParts(row) = {p}
                                  /\ c.new = PartFields(row, p, FALSE)
  BY ChangeDecoded
<1>2. cols \subseteq all /\ Knows(row.table, cols) /\ (w => cols = kept)
  BY DEF Knows
<1> HIDE DEF c, cols, all, kept
<1>3. \A S : Fields(row, S, {}) = {}
  BY DEF Fields
<1>4. Values({}) = {}
  BY DEF Values
<1>5. /\ {f \in Fields(row, cols, OldParts(row)) : f.format \in {"b", "t"}} \subseteq c.old
      /\ Values(c.old) \subseteq Values({f \in Fields(row, all, OldParts(row)) : f.format \in {"b", "t"}})
  <2>1. CASE OldParts(row) = {} /\ c.old = {}
    BY <1>3, <1>4, <2>1
  <2>2. ASSUME NEW p \in WireParts, DOMAIN p.tuple = DOMAIN row.shape, OldParts(row) = {p},
               c.old = PartFields(row, p, TRUE)
        PROVE  /\ {f \in Fields(row, cols, OldParts(row)) : f.format \in {"b", "t"}} \subseteq c.old
               /\ Values(c.old)
                    \subseteq Values({f \in Fields(row, all, OldParts(row)) : f.format \in {"b", "t"}})
    <3>1. cols \subseteq ToSet(row.shape) /\ Knows(row.table, cols)
      BY <1>2 DEF all
    <3>2. /\ {f \in Fields(row, cols, {p}) : f.format \in {"b", "t"}} \subseteq PartFields(row, p, TRUE)
          /\ Values(PartFields(row, p, TRUE))
               \subseteq Values({f \in Fields(row, ToSet(row.shape), {p}) : f.format \in {"b", "t"}})
      BY <2>2, <3>1, PartFaithful
    <3> QED
      BY <2>2, <3>2 DEF all
  <2> QED
    BY <1>1, <2>1, <2>2
<1>6. /\ {f \in Fields(row, cols, NewParts(row)) : f.format # "u"} \subseteq c.new
      /\ Values(c.new) \subseteq Values({f \in Fields(row, all, NewParts(row)) : f.format # "u"})
  <2>1. CASE NewParts(row) = {} /\ c.new = {}
    BY <1>3, <1>4, <2>1
  <2>2. ASSUME NEW p \in WireParts, DOMAIN p.tuple = DOMAIN row.shape, NewParts(row) = {p},
               c.new = PartFields(row, p, FALSE)
        PROVE  /\ {f \in Fields(row, cols, NewParts(row)) : f.format # "u"} \subseteq c.new
               /\ Values(c.new)
                    \subseteq Values({f \in Fields(row, all, NewParts(row)) : f.format # "u"})
    <3>1. cols \subseteq ToSet(row.shape) /\ Knows(row.table, cols)
      BY <1>2 DEF all
    <3>2. /\ {f \in Fields(row, cols, {p}) : f.format # "u"} \subseteq PartFields(row, p, FALSE)
          /\ Values(PartFields(row, p, FALSE))
               \subseteq Values({f \in Fields(row, ToSet(row.shape), {p}) : f.format # "u"})
      BY <2>2, <3>1, PartFaithful
    <3> QED
      BY <2>2, <3>2 DEF all
  <2> QED
    BY <1>1, <2>1, <2>2
<1>7. /\ Said(row, cols).old \subseteq c.old /\ Said(row, cols).new \subseteq c.new
      /\ Values(c.old) \subseteq Values(Said(row, all).old)
      /\ Values(c.new) \subseteq Values(Said(row, all).new)
  BY <1>5, <1>6 DEF Said
<1>8. w => Said(row, kept).old \subseteq c.old /\ Said(row, kept).new \subseteq c.new
  BY <1>2, <1>7
<1> QED
  BY <1>1, <1>7, <1>8 DEF FaithfulTo, kept, all, c

\* The decoded change of an insert names the columns the cache knows.
LEMMA InsertNames ==
  ASSUME NEW row, RowOK(row), Told(row), row.op = "I"
  PROVE  {g.name : g \in DecodedChange(row).new} = Known(row.table, row.shape)
<1>1. row.parts[1].kind = "N" /\ \A i \in DOMAIN row.shape : row.parts[1].tuple[i] # "u"
  BY DEF RowOK
<1>2. NewParts(row) = {row.parts[1]}
  BY <1>1, PartsFacts
<1>3. PICK p \in WireParts : /\ NewParts(row) = {p}
                             /\ DecodedChange(row).new = PartFields(row, p, FALSE)
  BY <1>2, ChangeDecoded
<1>4. p = row.parts[1]
  BY <1>2, <1>3
<1>5. Shown(row, p, FALSE) = {j \in DOMAIN row.shape : types[row.table][row.shape[j].name] # Missing}
  BY <1>1, <1>4 DEF Shown
<1>6. {g.name : g \in PartFields(row, p, FALSE)} = {row.shape[i].name : i \in Shown(row, p, FALSE)}
  <2> DEFINE G(i) == [name |-> row.shape[i].name, oid |-> types[row.table][row.shape[i].name],
                      format |-> p.tuple[i]]
  <2>1. PartFields(row, p, FALSE) = {G(i) : i \in Shown(row, p, FALSE)}
    BY DEF PartFields
  <2>2. \A i \in Shown(row, p, FALSE) : G(i).name = row.shape[i].name
    OBVIOUS
  <2> DEFINE S == Shown(row, p, FALSE)
             N(i) == row.shape[i].name
  <2> HIDE DEF G, S, N
  <2>3. \A i \in S : G(i).name = N(i)
    BY <2>2 DEF S, N
  <2>4. {g.name : g \in {G(i) : i \in S}} = {N(i) : i \in S}
    BY ONLY <2>3
  <2> QED
    BY <2>1, <2>4 DEF S, N
<1>7. Known(row.table, row.shape)
        = {row.shape[i].name : i \in {j \in DOMAIN row.shape :
                                       types[row.table][row.shape[j].name] # Missing}}
  BY DEF Known, ToSet
<1> QED
  BY <1>3, <1>5, <1>6, <1>7

\* The type of a decoded change.
LEMMA ChangeType ==
  ASSUME NEW row, RowOK(row), Told(row), ProcInv
  PROVE  DecodedChange(row) \in ChangeRecs
<1> DEFINE c == DecodedChange(row)
<1>1. row.table \in Tables /\ row.op \in {"I", "U", "D"} /\ row.shape \in Seq(ColumnDefs)
  BY DEF RowOK, WireRows
<1>2. ASSUME NEW p \in WireParts, NEW b \in BOOLEAN, DOMAIN p.tuple = DOMAIN row.shape
      PROVE  PartFields(row, p, b) \subseteq FieldRecs
  <2>1. p.tuple \in Seq(Formats)
    BY DEF WireParts
  <2>2. \A i \in DOMAIN row.shape : p.tuple[i] \in Formats
    BY <1>2, <2>1, SeqFacts
  <2>3. \A i \in DOMAIN row.shape : row.shape[i].name \in Columns
    BY <1>1, ShapeFacts
  <2>4. \A i \in DOMAIN row.shape : types[row.table][row.shape[i].name] \in Oids \cup {Missing}
    BY <1>1, <2>3 DEF ProcInv
  <2>5. \A i \in Shown(row, p, b) : i \in DOMAIN row.shape
                                    /\ types[row.table][row.shape[i].name] # Missing
    BY DEF Shown
  <2> QED
    BY <2>2, <2>3, <2>4, <2>5 DEF PartFields, FieldRecs
<1>3. /\ c = [table |-> row.table, op |-> row.op, old |-> c.old, new |-> c.new]
      /\ c.old \subseteq FieldRecs /\ c.new \subseteq FieldRecs
  <2> HIDE DEF c
  <2>1. /\ c = [table |-> row.table, op |-> row.op, old |-> c.old, new |-> c.new]
        /\ \/ c.old = {}
           \/ \E p \in WireParts : /\ DOMAIN p.tuple = DOMAIN row.shape
                                    /\ c.old = PartFields(row, p, TRUE)
        /\ \/ c.new = {}
           \/ \E p \in WireParts : /\ DOMAIN p.tuple = DOMAIN row.shape
                                    /\ c.new = PartFields(row, p, FALSE)
    BY ChangeDecoded DEF c
  <2> QED
    BY <1>2, <2>1
<1> QED
  BY <1>1, <1>3 DEF ChangeRecs

-----------------------------------------------------------------------------
(* The cache of types.                                                      *)

LEMMA RefreshFacts ==
  ASSUME CatalogOK(Catalog), NEW cache \in [Tables -> [Columns -> Oids \cup {Missing}]], NEW missed
  PROVE  /\ RefreshType(cache, missed) \in [Tables -> [Columns -> Oids \cup {Missing}]]
         /\ \A t \in Tables : \A d \in ToSet(Catalog[t]) :
              missed = {} \/ cache[t][d.name] = d.oid => RefreshType(cache, missed)[t][d.name] = d.oid
<1> DEFINE has(t, c) == \E i \in DOMAIN Catalog[t] : Catalog[t][i].name = c
           oid(t, c) == (CHOOSE d \in ToSet(Catalog[t]) : d.name = c).oid
<1>1. ASSUME NEW t \in Tables, NEW d \in ToSet(Catalog[t])
      PROVE  /\ has(t, d.name) /\ oid(t, d.name) = d.oid
             /\ d.name \in Columns /\ d.oid \in Oids
  <2>1. Catalog[t] \in Seq(ColumnDefs) /\ Distinct(Catalog[t])
    BY DEF CatalogOK, Catalogs
  <2>2. PICK i \in DOMAIN Catalog[t] : d = Catalog[t][i]
    BY DEF ToSet
  <2>3. d.name \in Columns /\ d.oid \in Oids
    BY <2>1, <2>2, ShapeFacts
  <2>4. \A x \in ToSet(Catalog[t]) : x.name = d.name => x = d
    BY <2>1, <2>2 DEF ToSet, Distinct
  <2>5. (CHOOSE x \in ToSet(Catalog[t]) : x.name = d.name) = d
    BY <2>4
  <2> QED
    BY <2>2, <2>3, <2>5
<1>2. ASSUME NEW t \in Tables, NEW c \in Columns, has(t, c)
      PROVE  oid(t, c) \in Oids
  <2>1. PICK i \in DOMAIN Catalog[t] : Catalog[t][i].name = c
    BY <1>2
  <2>2. Catalog[t][i] \in ToSet(Catalog[t])
    BY DEF ToSet
  <2> QED
    BY <1>1, <2>1, <2>2
<1>3. RefreshType(cache, missed)
        = [t \in Tables |-> [c \in Columns |->
             IF <<t, c>> \notin missed /\ has(t, c) THEN oid(t, c) ELSE cache[t][c]]]
  BY DEF RefreshType
<1> HIDE DEF has, oid
<1>4. RefreshType(cache, missed) \in [Tables -> [Columns -> Oids \cup {Missing}]]
  BY <1>2, <1>3
<1>5. \A t \in Tables : \A d \in ToSet(Catalog[t]) :
        missed = {} \/ cache[t][d.name] = d.oid => RefreshType(cache, missed)[t][d.name] = d.oid
  BY <1>1, <1>3
<1> QED
  BY <1>4, <1>5

\* A refresh keeps the types of ddl_logs, and one that misses nothing reads all.
LEMMA RefreshStep ==
  ASSUME PgInv, NEW cache \in [Tables -> [Columns -> Oids \cup {Missing}]], Refresh(cache),
         breaks \in 0..MaxBreaks, UNCHANGED <<wal, catalogs>>
  PROVE  /\ types' \in [Tables -> [Columns -> Oids \cup {Missing}]]
         /\ whole' \in BOOLEAN /\ breaks' \in 0..MaxBreaks
         /\ whole' => Refreshed'
         /\ (\A d \in ToSet(InitCatalog[DDLLogs]) : cache[DDLLogs][d.name] = d.oid) => KnowsLog'
<1>1. PICK missed : /\ missed # {} => breaks < MaxBreaks
                    /\ types' = RefreshType(cache, missed)
                    /\ whole' = (missed = {})
                    /\ breaks' = IF missed = {} THEN breaks ELSE breaks + 1
  BY DEF Refresh
<1>2. CatalogOK(Catalog) /\ Catalog' = Catalog
  BY LogFacts DEF Catalog
<1>3. /\ RefreshType(cache, missed) \in [Tables -> [Columns -> Oids \cup {Missing}]]
      /\ \A t \in Tables : \A d \in ToSet(Catalog[t]) :
           missed = {} \/ cache[t][d.name] = d.oid => RefreshType(cache, missed)[t][d.name] = d.oid
  BY <1>2, RefreshFacts
<1>4. breaks' \in 0..MaxBreaks
  BY <1>1, DecoderAssumption
<1>5. missed = {} => Refreshed'
  BY <1>1, <1>2, <1>3 DEF Refreshed, Knows
<1>6. Catalog[DDLLogs] = InitCatalog[DDLLogs] /\ DDLLogs \in Tables
  BY <1>2, TableFacts DEF CatalogOK
<1>7. (\A d \in ToSet(InitCatalog[DDLLogs]) : cache[DDLLogs][d.name] = d.oid) => KnowsLog'
  BY <1>1, <1>3, <1>6 DEF KnowsLog, Knows
<1> QED
  BY <1>1, <1>3, <1>4, <1>5, <1>7

LEMMA LoaderType ==
  NewPGXSchemaLoader \in [Tables -> [Columns -> Oids \cup {Missing}]]
BY DEF NewPGXSchemaLoader

\* A cache that has just been read serves every row of the log, ...
LEMMA FreshServes ==
  PgInv /\ Refreshed => ServesAll
<1> SUFFICES ASSUME PgInv, Refreshed, NEW l \in DOMAIN wal, NEW n \in DOMAIN wal[l]
             PROVE  Serves(l, wal[l][n])
  BY DEF ServesAll
<1>1. /\ Len(wal) \in Nat /\ DOMAIN wal = 1..Len(wal) /\ Len(catalogs) = Len(wal) + 1
      /\ Catalog = catalogs[Len(wal) + 1] /\ CatalogOK(Catalog)
      /\ RowOK(wal[l][n])
  BY LogFacts
<1>2. wal[l][n].table \in Tables
  BY <1>1 DEF RowOK, WireRows
<1>3. Len(wal) + 1 \in Since(l)
  BY <1>1 DEF Since
<1>4. \A d : Kept(l, wal[l][n].table, d) => d \in ToSet(Catalog[wal[l][n].table])
  BY <1>1, <1>3 DEF Kept
<1>5. ASSUME NEW name, Remains(l, wal[l][n].table, name)
      PROVE  types[wal[l][n].table][name] # Missing
  <2>1. PICK i \in DOMAIN Catalog[wal[l][n].table] : Catalog[wal[l][n].table][i].name = name
    BY <1>1, <1>3, <1>5 DEF Remains
  <2>2. Catalog[wal[l][n].table] \in Seq(ColumnDefs)
    BY <1>1, <1>2 DEF CatalogOK, Catalogs
  <2>3. /\ Catalog[wal[l][n].table][i].oid \in Oids
        /\ Catalog[wal[l][n].table][i] \in ToSet(Catalog[wal[l][n].table])
    BY <2>2, ShapeFacts DEF ToSet
  <2> QED
    BY <1>2, <2>1, <2>3, DecoderAssumption DEF Refreshed, Knows
<1> QED
  BY <1>2, <1>4, <1>5 DEF Refreshed, Knows, Serves

\* ... and so knows all that it has to.
LEMMA CacheFresh ==
  PgInv /\ Refreshed => CacheInv
<1> SUFFICES ASSUME PgInv, Refreshed PROVE CacheInv
  OBVIOUS
<1>1. KnowsLog
  BY LogFacts, TableFacts DEF CatalogOK, Refreshed, KnowsLog
<1>2. \A l, n \in Nat : Ahead(l, n) => Serves(l, wal[l][n])
  BY FreshServes DEF Ahead, ServesAll
<1> QED
  BY <1>1, <1>2 DEF CacheInv

\* The reader goes on, past nothing that has the types read again.
LEMMA CacheMoves ==
  ASSUME CacheInv, whole' => whole, UNCHANGED <<wal, catalogs, types>>,
         \A l, n \in Nat : Ahead(l, n)' => Ahead(l, n),
         \A l, n \in Nat : LogAhead(l, n) => LogAhead(l, n)'
  PROVE  CacheInv'
<1> SUFFICES ASSUME whole' PROVE CacheInv'
  BY DEF CacheInv
<1>1. wal' = wal /\ catalogs' = catalogs /\ types' = types
  OBVIOUS
<1>2. \A t, cols : Knows(t, cols)' <=> Knows(t, cols)
  BY <1>1 DEF Knows
<1>3. Refreshed' <=> Refreshed
  BY <1>1 DEF Refreshed, Knows, Catalog, Last
<1>4. \A l, t, d : Kept(l, t, d)' <=> Kept(l, t, d)
  BY <1>1 DEF Kept, Since
<1>5. \A l, n \in Nat : {d \in ToSet(wal[l][n].shape) : Kept(l, wal[l][n].table, d)}'
                          = {d \in ToSet(wal[l][n].shape) : Kept(l, wal[l][n].table, d)}
  BY <1>1 DEF Kept, Since
<1>6. KnowsLog'
  BY <1>1 DEF CacheInv, KnowsLog, Knows
<1>7. (\E l, n \in Nat : LogAhead(l, n)') \/ Refreshed'
  BY <1>3 DEF CacheInv
<1>8. ASSUME NEW l \in Nat, NEW n \in Nat, Ahead(l, n)'
      PROVE  \/ \E k, i \in Nat : LogAhead(k, i)' /\ (k < l \/ (k = l /\ i < n))
             \/ Serves(l, wal[l][n])'
  <2>1. \/ \E k, i \in Nat : LogAhead(k, i) /\ (k < l \/ (k = l /\ i < n))
        \/ Serves(l, wal[l][n])
    BY <1>8 DEF CacheInv
  <2> QED
    BY <1>1, <2>1 DEF Serves, Knows, Kept, Remains, Since
<1> QED
  BY <1>6, <1>7, <1>8 DEF CacheInv

-----------------------------------------------------------------------------
(* What is in the topic.                                                    *)

\* PostgreSQL does nothing, or commits.
LogGrows ==
  /\ \A l \in DOMAIN wal : l \in DOMAIN wal' /\ wal'[l] = wal[l]
  /\ Len(catalogs') \in Nat /\ Len(catalogs') >= Len(catalogs)
  /\ \A k \in DOMAIN catalogs : catalogs'[k] = catalogs[k]

LEMMA Grows ==
  ASSUME PgInv, PgCommit \/ UNCHANGED <<wal, catalogs>>
  PROVE  LogGrows
<1>1. Len(wal) \in Nat /\ Len(catalogs) = Len(wal) + 1
  BY LogFacts
<1>2. CASE PgCommit
  BY <1>1, <1>2, CommitFacts DEF LogGrows
<1>3. CASE UNCHANGED <<wal, catalogs>>
  BY <1>1, <1>3 DEF LogGrows
<1> QED
  BY <1>2, <1>3

\* A later catalog can only say less of a row.
LEMMA SaidShrinks ==
  ASSUME NEW row, NEW S, NEW T, S \subseteq T
  PROVE  Said(row, S).old \subseteq Said(row, T).old /\ Said(row, S).new \subseteq Said(row, T).new
<1>1. \A P : Fields(row, S, P) \subseteq Fields(row, T, P)
  BY DEF Fields
<1> QED
  BY <1>1 DEF Said

LEMMA KeptShrinks ==
  ASSUME PgInv, LogGrows, NEW l \in DOMAIN wal, NEW t, NEW d, Kept(l, t, d)'
  PROVE  Kept(l, t, d)
<1>1. /\ Len(wal) \in Nat /\ DOMAIN wal = 1..Len(wal)
      /\ Len(catalogs) = Len(wal) + 1 /\ DOMAIN catalogs = 1..(Len(wal) + 1)
  BY LogFacts
<1>2. Since(l) = (l + 1)..Len(catalogs) /\ Since(l)' = (l + 1)..Len(catalogs')
  BY DEF Since
<1>3. \A k \in Since(l) : k \in Since(l)' /\ k \in DOMAIN catalogs
  BY <1>1, <1>2 DEF LogGrows
<1>4. \A k \in Since(l) : catalogs'[k] = catalogs[k]
  BY <1>3 DEF LogGrows
<1>5. \A k \in Since(l)' : d \in ToSet(catalogs'[k][t])
  BY DEF Kept
<1> QED
  BY <1>3, <1>4, <1>5 DEF Kept

LEMMA RemainsShrinks ==
  ASSUME PgInv, LogGrows, NEW l \in DOMAIN wal, NEW t, NEW name, Remains(l, t, name)'
  PROVE  Remains(l, t, name)
<1>1. /\ Len(wal) \in Nat /\ DOMAIN wal = 1..Len(wal)
      /\ Len(catalogs) = Len(wal) + 1 /\ DOMAIN catalogs = 1..(Len(wal) + 1)
  BY LogFacts
<1>2. Since(l) = (l + 1)..Len(catalogs) /\ Since(l)' = (l + 1)..Len(catalogs')
  BY DEF Since
<1>3. \A k \in Since(l) : k \in Since(l)' /\ k \in DOMAIN catalogs
  BY <1>1, <1>2 DEF LogGrows
<1>4. \A k \in Since(l) : catalogs'[k] = catalogs[k]
  BY <1>3 DEF LogGrows
<1>5. \A k \in Since(l)' : \E i \in DOMAIN catalogs'[k][t] : catalogs'[k][t][i].name = name
  BY DEF Remains
<1> QED
  BY <1>3, <1>4, <1>5 DEF Remains

LEMMA FaithfulStays ==
  ASSUME PgInv, LogGrows, NEW l \in DOMAIN wal, NEW row, NEW c, NEW w, FaithfulTo(l, row, c, w)
  PROVE  FaithfulTo(l, row, c, w)'
<1> DEFINE now == {d \in ToSet(row.shape) : Kept(l, row.table, d)}
           then == {d \in ToSet(row.shape) : Kept(l, row.table, d)'}
<1>1. then \subseteq now
  BY KeptShrinks
<1>2. /\ c.table = row.table /\ c.op = row.op
      /\ w => Said(row, now).old \subseteq c.old /\ Said(row, now).new \subseteq c.new
      /\ Values(c.old) \subseteq Values(Said(row, ToSet(row.shape)).old)
      /\ Values(c.new) \subseteq Values(Said(row, ToSet(row.shape)).new)
  BY DEF FaithfulTo
<1> HIDE DEF now, then
<1>3. Said(row, then).old \subseteq Said(row, now).old /\ Said(row, then).new \subseteq Said(row, now).new
  BY <1>1, SaidShrinks
<1>4. /\ c.table = row.table /\ c.op = row.op
      /\ w => Said(row, then).old \subseteq c.old /\ Said(row, then).new \subseteq c.new
      /\ Values(c.old) \subseteq Values(Said(row, ToSet(row.shape)).old)
      /\ Values(c.new) \subseteq Values(Said(row, ToSet(row.shape)).new)
  BY <1>2, <1>3
<1> QED
  BY <1>4 DEF FaithfulTo, then

\* A message stays as it should be.
LEMMA MessageStays ==
  ASSUME PgInv, LogGrows, NEW e, MessageOK(e),
         crashes \in Nat, e.epoch \in Nat,
         \/ crashes' = crashes /\ (proc' # "up" => proc # "up")
         \/ crashes' = crashes + 1
  PROVE  MessageOK(e)'
<1>1. e.lsn \in DOMAIN wal /\ e.lsn \in DOMAIN wal' /\ wal'[e.lsn] = wal[e.lsn]
  BY DEF MessageOK, LogGrows
<1>2. e.epoch <= crashes' /\ (proc' # "up" => e.epoch < crashes')
  BY DEF MessageOK
<1>3. ASSUME IsChange(e)
      PROVE  e.num \in DOMAIN wal'[e.lsn] /\ FaithfulTo(e.lsn, wal[e.lsn][e.num], e.change, e.whole)'
  <2>1. e.num \in DOMAIN wal[e.lsn] /\ FaithfulTo(e.lsn, wal[e.lsn][e.num], e.change, e.whole)
    BY <1>3 DEF MessageOK
  <2> DEFINE S == {wal[e.lsn][e.num]}
  <2>2. PICK row \in S : row = wal[e.lsn][e.num]
    OBVIOUS
  <2>3. FaithfulTo(e.lsn, row, e.change, e.whole)
    BY <2>1, <2>2
  <2>4. FaithfulTo(e.lsn, row, e.change, e.whole)'
    BY <1>1, <2>3, FaithfulStays
  <2>5. row = wal'[e.lsn][e.num]
    BY <1>1, <2>2
  <2> QED
    BY <1>1, <2>1, <2>4, <2>5 DEF FaithfulTo, Kept, Since
<1> QED
  BY <1>1, <1>2, <1>3 DEF MessageOK, IsChange, FaithfulTo, Kept, Since

LEMMA TopicKept ==
  ASSUME PgInv, ProcInv, TopicInv, LogGrows, topic' = topic,
         \/ crashes' = crashes /\ (proc' # "up" => proc # "up")
         \/ crashes' = crashes + 1
  PROVE  TopicInv'
<1>1. crashes \in Nat
  BY DecoderAssumption DEF ProcInv
<1>2. ASSUME NEW n \in DOMAIN topic
      PROVE  MessageOK(topic[n])'
  <2>1. PICK e \in Messages : e = topic[n]
    BY SeqFacts DEF TopicInv
  <2>2. MessageOK(e) /\ e.epoch \in Nat
    BY <2>1 DEF TopicInv, Messages
  <2>3. MessageOK(e)'
    BY <1>1, <2>2, MessageStays
  <2>4. topic'[n] = e
    BY <2>1
  <2> QED
    BY <2>3, <2>4 DEF MessageOK, IsChange, FaithfulTo, Kept, Since
<1> QED
  BY <1>2 DEF TopicInv

\* The topic as PulsarSink.Apply leaves it: with the message or without.
Published(e, pass) == topic' = IF pass THEN Append(topic, e) ELSE topic

LEMMA TopicGrows ==
  ASSUME PgInv, ProcInv, TopicInv, UNCHANGED <<wal, catalogs, crashes, proc>>,
         NEW e \in Messages, MessageOK(e)', topic' = Append(topic, e)
  PROVE  TopicInv' /\ Last(topic') = e /\ Len(topic') = Len(topic) + 1
         /\ Len(topic) \in Nat /\ DOMAIN topic = 1..Len(topic)
         /\ \A n \in DOMAIN topic : topic'[n] = topic[n]
         /\ (topic # <<>> => Len(topic) \in DOMAIN topic /\ Last(topic) = topic[Len(topic)])
<1>1. topic \in Seq(Messages) /\ crashes \in Nat /\ crashes' = crashes /\ proc' = proc
  BY DecoderAssumption DEF TopicInv, ProcInv
<1>2. /\ topic' \in Seq(Messages) /\ Len(topic') = Len(topic) + 1
      /\ DOMAIN topic' = DOMAIN topic \cup {Len(topic) + 1}
      /\ \A i \in DOMAIN topic : topic'[i] = topic[i]
      /\ topic'[Len(topic) + 1] = e
  BY <1>1, AppendFacts
<1>3. Len(topic) \in Nat /\ DOMAIN topic = 1..Len(topic)
      /\ (topic # <<>> => Len(topic) \in DOMAIN topic)
  BY <1>1, SeqFacts
<1>4. LogGrows
  BY Grows
<1>5. ASSUME NEW n \in DOMAIN topic'
      PROVE  MessageOK(topic[n])'
  <2>1. PICK m \in Messages : m = topic'[n]
    BY <1>2, SeqFacts
  <2>2. MessageOK(m)'
    <3>1. CASE n \in DOMAIN topic
      <4>1. m = topic[n]
        BY <1>2, <2>1, <3>1
      <4>2. MessageOK(m) /\ m.epoch \in Nat
        BY <3>1, <4>1 DEF TopicInv, Messages
      <4> QED
        BY <1>1, <1>4, <4>2, MessageStays
    <3>2. CASE n = Len(topic) + 1
      <4>1. m = e
        BY <1>2, <2>1, <3>2
      <4> QED
        BY <4>1
    <3> QED
      BY <1>2, <3>1, <3>2
  <2> QED
    BY <2>1, <2>2 DEF MessageOK, IsChange, FaithfulTo, Kept, Since
<1>6. Last(topic') = e /\ Last(topic) = topic[Len(topic)]
  BY <1>2 DEF Last
<1> QED
  BY <1>2, <1>3, <1>5, <1>6 DEF TopicInv

\* Two messages that follow each other.
Uniform(e, f) ==
  /\ IsChange(e) /\ IsChange(f)
  /\ e.lsn = f.lsn /\ e.epoch = f.epoch /\ e.whole
  /\ e.change.table = f.change.table
  /\ e.change.op = "I" /\ f.change.op = "I"
  => {g.name : g \in e.change.new} = {g.name : g \in f.change.new}

\* A message is published, or not because the topic held it when the process
\* started.
LEMMA Publish ==
  ASSUME PgInv, ProcInv, TopicInv, LastInv, BatchesUniform,
         UNCHANGED <<wal, catalogs, crashes, proc>>, proc = "up",
         NEW e \in Messages, MessageOK(e)', e.epoch = crashes,
         NEW pass \in BOOLEAN, consistent => pass, consistent' = pass, Published(e, pass),
         topic # <<>> => Uniform(Last(topic), e)
  PROVE  /\ TopicInv' /\ BatchesUniform'
         /\ topic' # <<>> /\ Last(topic').epoch = crashes' => consistent' /\ Last(topic') = e
<1>1. CASE pass
  <2>1. topic' = Append(topic, e)
    BY <1>1 DEF Published
  <2>2. /\ TopicInv' /\ Last(topic') = e /\ Len(topic') = Len(topic) + 1
        /\ Len(topic) \in Nat /\ DOMAIN topic = 1..Len(topic)
        /\ \A n \in DOMAIN topic : topic'[n] = topic[n]
        /\ (topic # <<>> => Last(topic) = topic[Len(topic)])
    BY <2>1, TopicGrows
  <2>3. \A n \in 1..(Len(topic) - 1) : Uniform(topic[n], topic[n + 1])
    BY DEF BatchesUniform, Uniform
  <2>4. ASSUME NEW n \in 1..(Len(topic') - 1)
        PROVE  Uniform(topic'[n], topic'[n + 1])
    <3>1. n \in DOMAIN topic /\ topic'[n] = topic[n]
      BY <2>2
    <3>2. CASE n \in 1..(Len(topic) - 1)
      <4>1. n + 1 \in DOMAIN topic
        BY <2>2, <3>2
      <4> QED
        BY <2>2, <2>3, <3>1, <3>2, <4>1
    <3>3. CASE n = Len(topic)
      <4>1. topic # <<>>
        BY <2>2, <3>1
      <4>2. topic'[n + 1] = e
        BY <2>2, <3>3 DEF Last
      <4> QED
        BY <2>2, <3>1, <3>3, <4>1, <4>2
    <3>4. n \in 1..(Len(topic) - 1) \/ n = Len(topic)
      <4>1. Len(topic) \in Nat /\ Len(topic') - 1 = Len(topic)
        BY <2>2
      <4>2. n \in 1..Len(topic)
        BY <4>1
      <4> QED
        BY <4>1, <4>2
    <3> QED
      BY <3>2, <3>3, <3>4
  <2>5. BatchesUniform'
    BY <2>4 DEF BatchesUniform, Uniform, IsChange, NoChange
  <2> QED
    BY <1>1, <2>2, <2>5
<1>2. CASE ~pass
  <2>1. topic' = topic /\ crashes' = crashes /\ proc' = proc /\ ~consistent
    BY <1>2 DEF Published
  <2>2. TopicInv'
    BY <2>1, Grows, TopicKept
  <2>3. BatchesUniform'
    BY <2>1 DEF BatchesUniform, IsChange, NoChange
  <2>4. ~(topic # <<>> /\ Last(topic).epoch = crashes)
    BY <2>1 DEF LastInv
  <2>5. ~(topic' # <<>> /\ Last(topic').epoch = crashes')
    BY <2>1, <2>4 DEF Last
  <2> QED
    BY <2>2, <2>3, <2>5
<1> QED
  BY <1>1, <1>2

-----------------------------------------------------------------------------
(* Steps of PostgreSQL.                                                     *)

\* Until it commits, nothing that concerns the process changes.
LEMMA ReaderKept ==
  ASSUME IInv, PgInv', UNCHANGED <<wal, catalogs, pgFrame>>
  PROVE  IInv'
<1>1. /\ wal' = wal /\ catalogs' = catalogs /\ announced' = announced /\ proc' = proc
      /\ types' = types /\ relations' = relations /\ pos' = pos
      /\ currentLsn' = currentLsn /\ currentSeq' = currentSeq
      /\ consistent' = consistent /\ topic' = topic /\ crashes' = crashes /\ prev' = prev
      /\ breaks' = breaks /\ whole' = whole /\ guessed' = guessed
  BY DEF pgFrame, decVars, sinkVars, faultVars, histVars
<1>2. ProcInv'
  BY <1>1 DEF IInv, ProcInv
<1>3. CacheInv'
  <2>1. \A l, n \in Nat : Ahead(l, n)' <=> Ahead(l, n)
    BY <1>1 DEF Ahead
  <2>2. \A l, n \in Nat : LogAhead(l, n)' <=> LogAhead(l, n)
    BY <1>1 DEF Ahead, LogAhead
  <2> QED
    BY <1>1, <2>1, <2>2, CacheMoves DEF IInv
<1>4. TopicInv'
  BY <1>1, Grows, TopicKept DEF IInv
<1>5. LastInv'
  BY <1>1 DEF IInv, LastInv, Last, IsChange, NoChange, LogIn, Known, Row, KnowsLog, Knows
<1>6. BatchesUniform'
  BY <1>1 DEF IInv, BatchesUniform, IsChange, NoChange
<1>7. StartInv'
  BY <1>1 DEF IInv, StartInv, Last, Serves, Knows, Kept, Remains, Since
<1> QED
  BY <1>2, <1>3, <1>4, <1>5, <1>6, <1>7 DEF IInv

LEMMA PgQuiet ==
  ASSUME IInv, PgBegin \/ PgAlter \/ PgWrite \/ PgRollback
  PROVE  IInv'
<1>1. PgInv'
  BY PgBeginInv, PgAlterInv, PgWriteInv, PgRollbackInv DEF IInv
<1>2. UNCHANGED <<wal, catalogs, pgFrame>>
  BY DEF PgBegin, PgAlter, PgWrite, PgRollback
<1> QED
  BY <1>1, <1>2, ReaderKept

\* A row of the transaction that is committed comes after an entry of ddl_logs,
\* or has the shape that the table had before.
LEMMA CacheCommit ==
  ASSUME IInv, PgCommit
  PROVE  CacheInv'
<1>1. /\ whole' = whole /\ types' = types /\ pos' = pos
  BY DEF PgCommit, pgFrame, decVars, histVars
<1> SUFFICES ASSUME whole PROVE CacheInv'
  BY <1>1 DEF CacheInv
<1>2. /\ Len(wal') = Len(wal) + 1 /\ DOMAIN wal' = DOMAIN wal \cup {Len(wal) + 1}
      /\ \A l \in DOMAIN wal : wal'[l] = wal[l]
      /\ wal'[Len(wal) + 1] = rows
      /\ Len(catalogs') = Len(wal) + 2
      /\ \A k \in DOMAIN catalogs : catalogs'[k] = catalogs[k]
      /\ Catalog' = cat
  BY CommitFacts DEF IInv
<1>3. /\ Len(wal) \in Nat /\ DOMAIN wal = 1..Len(wal) /\ DOMAIN catalogs = 1..(Len(wal) + 1)
      /\ Catalog = catalogs[Len(wal) + 1]
  BY LogFacts DEF IInv
<1>4. /\ TxOK(Catalog, rows, cat) /\ rows \in Seq(WireRows)
      /\ Len(rows) \in Nat /\ DOMAIN rows = 1..Len(rows)
  BY SeqFacts DEF IInv, PgInv, TxOK
<1>5. pos.tx \in Nat /\ pos.num \in Nat /\ pos.tx <= Len(wal) + 1
      /\ (pos.tx = Len(wal) + 1 => pos.num = 0)
  BY <1>3 DEF IInv, ProcInv
<1>6. /\ KnowsLog
      /\ (\E l, n \in Nat : LogAhead(l, n)) \/ Refreshed
      /\ \A l, n \in Nat : Ahead(l, n) =>
         \/ \E k, i \in Nat : LogAhead(k, i) /\ (k < l \/ (k = l /\ i < n))
         \/ Serves(l, wal[l][n])
  BY DEF IInv, CacheInv
<1>7. \A l, n \in Nat : LogAhead(l, n) => LogAhead(l, n)' /\ l < Len(wal) + 1
  BY <1>1, <1>2, <1>3 DEF LogAhead, Ahead
<1> PICK m \in Nat : m = Len(wal) + 1
  BY <1>3
<1>8. \A n \in DOMAIN rows : Ahead(m, n)'
  BY <1>1, <1>2, <1>3, <1>4, <1>5 DEF Ahead
<1>9. \A n \in DOMAIN rows : rows[n].table = DDLLogs => LogAhead(m, n)'
  BY <1>2, <1>8 DEF LogAhead
<1>10. KnowsLog'
  BY <1>1, <1>6 DEF KnowsLog, Knows
<1>11. (\E l, n \in Nat : LogAhead(l, n)') \/ Refreshed'
  <2>1. CASE \E l, n \in Nat : LogAhead(l, n)
    BY <1>7, <2>1
  <2>2. CASE LogIn(rows, DOMAIN rows)
    <3>1. PICK n \in DOMAIN rows : rows[n].table = DDLLogs
      BY <2>2 DEF LogIn
    <3> QED
      BY <1>3, <1>4, <1>9, <3>1
  <2>3. CASE Refreshed /\ cat = Catalog
    BY <1>1, <1>2, <2>3 DEF Refreshed, Knows
  <2> QED
    BY <1>4, <1>6, <2>1, <2>2, <2>3 DEF TxOK
<1>12. ASSUME NEW l \in Nat, NEW n \in Nat, Ahead(l, n)'
       PROVE  \/ \E k, i \in Nat : LogAhead(k, i)' /\ (k < l \/ (k = l /\ i < n))
              \/ Serves(l, wal[l][n])'
  <2>1. l \in DOMAIN wal' /\ n \in DOMAIN wal'[l]
    BY <1>12 DEF Ahead
  <2> DEFINE R == {wal'[l][n]}
  <2>2. PICK row \in R : row = wal'[l][n]
    OBVIOUS
  <2> DEFINE log == \E k, i \in Nat : LogAhead(k, i)' /\ (k < l \/ (k = l /\ i < n))
  <2> HIDE DEF R, log
  <2>3. CASE l \in DOMAIN wal
    <3>1. wal[l][n] = row /\ Ahead(l, n)
      BY <1>1, <1>2, <1>12, <2>2, <2>3 DEF Ahead
    <3>2. CASE \E k, i \in Nat : LogAhead(k, i) /\ (k < l \/ (k = l /\ i < n))
      BY <1>7, <3>2 DEF log
    <3>3. CASE Serves(l, row)
      <4>1. \A d : /\ Kept(l, row.table, d)' => Kept(l, row.table, d)
                   /\ Remains(l, row.table, d)' => Remains(l, row.table, d)
        BY <2>3, Grows, KeptShrinks, RemainsShrinks DEF IInv
      <4>2. Serves(l, row)'
        BY <1>1, <3>3, <4>1 DEF Serves, Knows
      <4> QED
        BY <2>2, <4>2 DEF Serves, Knows, Kept, Remains, Since
    <3> QED
      BY <1>6, <3>1, <3>2, <3>3 DEF log
  <2>4. CASE l = Len(wal) + 1
    <3>1. row = rows[n] /\ n \in DOMAIN rows
      BY <1>2, <2>1, <2>2, <2>4
    <3>2. row.shape = Catalog[row.table] \/ LogIn(rows, 1..(n - 1))
      BY <1>4, <3>1 DEF TxOK
    <3>3. CASE LogIn(rows, 1..(n - 1))
      <4>1. PICK i \in 1..(n - 1) \cap DOMAIN rows : rows[i].table = DDLLogs
        BY <3>3 DEF LogIn
      <4>2. LogAhead(m, i)' /\ i \in Nat /\ i < n
        BY <1>4, <1>9, <4>1
      <4> QED
        BY <1>3, <2>4, <4>2 DEF log
    <3>4. CASE \E k, i \in Nat : LogAhead(k, i)
      BY <1>7, <2>4, <3>4 DEF log
    <3>5. CASE Refreshed /\ row.shape = Catalog[row.table]
      <4>1. row.table \in Tables
        BY <1>4, <3>1 DEF TxOK, RowOK, WireRows
      <4>2. \A d \in ToSet(row.shape) : types[row.table][d.name] = d.oid /\ d.oid # Missing
        <5>1. row.shape \in Seq(ColumnDefs)
          BY <1>4, <3>1 DEF TxOK, RowOK, WireRows
        <5>2. \A d \in ToSet(row.shape) : d.oid \in Oids
          BY <5>1, ShapeFacts DEF ToSet
        <5> QED
          BY <3>5, <4>1, <5>2, DecoderAssumption DEF Knows, Refreshed
      <4>3. Serves(l, row)'
        BY <1>1, <4>2 DEF Serves, Knows
      <4> QED
        BY <2>2, <4>3 DEF Serves, Knows, Kept, Remains, Since
    <3> QED
      BY <1>6, <3>2, <3>3, <3>4, <3>5
  <2> QED
    BY <1>2, <2>1, <2>3, <2>4 DEF log
<1> QED
  BY <1>10, <1>11, <1>12 DEF CacheInv

LEMMA PgCommitStep ==
  ASSUME IInv, PgCommit
  PROVE  IInv'
<1>1. /\ announced' = announced /\ proc' = proc
      /\ types' = types /\ relations' = relations /\ pos' = pos
      /\ currentLsn' = currentLsn /\ currentSeq' = currentSeq
      /\ consistent' = consistent /\ topic' = topic /\ crashes' = crashes /\ prev' = prev
      /\ breaks' = breaks /\ whole' = whole /\ guessed' = guessed
  BY DEF PgCommit, pgFrame, decVars, sinkVars, faultVars, histVars
<1>2. /\ Len(wal') = Len(wal) + 1 /\ DOMAIN wal' = DOMAIN wal \cup {Len(wal) + 1}
      /\ \A l \in DOMAIN wal : wal'[l] = wal[l]
      /\ wal'[Len(wal) + 1] = rows
  BY CommitFacts DEF IInv
<1>3. /\ Len(wal) \in Nat /\ DOMAIN wal = 1..Len(wal)
  BY LogFacts DEF IInv
<1>4. PgInv'
  BY PgCommitInv DEF IInv
<1>5. ProcInv'
  <2>1. pos.tx \in Nat /\ pos.tx >= 1 /\ pos.num \in Nat /\ pos.tx <= Len(wal) + 1
        /\ pos.num <= (IF pos.tx <= Len(wal) THEN Len(wal[pos.tx]) + 1 ELSE 0)
    BY DEF IInv, ProcInv
  <2>2. pos.num <= (IF pos.tx <= Len(wal') THEN Len(wal'[pos.tx]) + 1 ELSE 0)
    <3>1. CASE pos.tx <= Len(wal)
      BY <1>2, <1>3, <2>1, <3>1
    <3>2. CASE pos.tx = Len(wal) + 1
      <4>1. Len(rows) \in Nat
        BY SeqFacts DEF IInv, PgInv, TxOK
      <4> QED
        BY <1>2, <1>3, <2>1, <3>2, <4>1
    <3> QED
      BY <1>3, <2>1, <3>1, <3>2
  <2>3. pos.tx <= Len(wal') + 1
    BY <1>2, <1>3, <2>1
  <2>4. guessed' \subseteq DOMAIN wal'
    BY <1>1, <1>2 DEF IInv, ProcInv
  <2> QED
    BY <1>1, <2>2, <2>3, <2>4 DEF IInv, ProcInv
<1>6. CacheInv'
  BY CacheCommit
<1>7. TopicInv'
  BY <1>1, Grows, TopicKept DEF IInv
<1>8. LastInv'
  <2> SUFFICES ASSUME proc = "up", topic # <<>>, Last(topic).epoch = crashes
               PROVE  LastInv'
    BY <1>1 DEF LastInv, Last
  <2> DEFINE e == Last(topic)
  <2>1. /\ e.lsn \in DOMAIN wal /\ Last(topic)' = Last(topic)
    BY <1>1, SeqFacts DEF IInv, TopicInv, MessageOK, Last
  <2>2. /\ consistent /\ (e.whole => KnowsLog)
        /\ e.whole /\ IsChange(e) =>
             /\ e.lsn = pos.tx /\ e.num < pos.num
             /\ ~LogIn(wal[pos.tx], (e.num + 1)..(pos.num - 1))
             /\ e.change.op = "I" =>
                  {g.name : g \in e.change.new} = Known(e.change.table, wal[e.lsn][e.num].shape)
    BY DEF IInv, LastInv, Row
  <2> HIDE DEF e
  <2>3. /\ consistent' /\ (e.whole => KnowsLog')
        /\ e.whole /\ IsChange(e) =>
             /\ e.lsn = pos.tx /\ e.num < pos.num
             /\ ~LogIn(wal'[pos.tx], (e.num + 1)..(pos.num - 1))
             /\ e.change.op = "I" =>
                  {g.name : g \in e.change.new}
                    = {d.name : d \in {x \in ToSet(wal'[e.lsn][e.num].shape) :
                                         types[e.change.table][x.name] # Missing}}
    BY <1>1, <1>2, <2>1, <2>2 DEF e, Known, KnowsLog, Knows
  <2> QED
    BY <1>1, <2>1, <2>3 DEF LastInv, e, IsChange, Row, Known, LogIn
<1>9. BatchesUniform'
  BY <1>1 DEF IInv, BatchesUniform, IsChange, NoChange
<1>10. StartInv'
  <2> SUFFICES ASSUME proc = "starting" PROVE StartInv'
    BY <1>1 DEF StartInv
  <2>1. /\ ~consistent /\ pos.num = 0
        /\ IF topic = <<>> THEN prev = [lsn |-> 0, seq |-> 0]
           ELSE prev = [lsn |-> Last(topic).lsn, seq |-> Last(topic).seq] /\ pos.tx = Last(topic).lsn
        /\ whole => \A l \in DOMAIN wal : l < pos.tx /\ topic = <<>> =>
                       \A n \in DOMAIN wal[l] : Serves(l, wal[l][n])
    BY DEF IInv, StartInv
  <2>2. ASSUME whole, NEW l \in DOMAIN wal', l < pos.tx, topic = <<>>, NEW n \in DOMAIN wal'[l]
        PROVE  Serves(l, wal[l][n])'
    <3>1. pos.tx \in Nat /\ pos.tx <= Len(wal) + 1 /\ l \in DOMAIN wal
      BY <1>2, <1>3, <2>2 DEF IInv, ProcInv
    <3>2. PICK row \in {wal[l][n]} : row = wal[l][n]
      OBVIOUS
    <3>3. wal'[l][n] = row /\ Serves(l, row)
      BY <1>2, <2>1, <2>2, <3>1, <3>2
    <3>4. \A d : /\ Kept(l, row.table, d)' => Kept(l, row.table, d)
                 /\ Remains(l, row.table, d)' => Remains(l, row.table, d)
      BY <3>1, Grows, KeptShrinks, RemainsShrinks DEF IInv
    <3>5. Serves(l, row)'
      BY <1>1, <3>3, <3>4 DEF Serves, Knows
    <3> QED
      BY <3>3, <3>5 DEF Serves, Knows, Kept, Remains, Since
  <2> QED
    BY <1>1, <2>1, <2>2 DEF StartInv, Last
<1> QED
  BY <1>4, <1>5, <1>6, <1>7, <1>8, <1>9, <1>10 DEF IInv

-----------------------------------------------------------------------------
(* Begin and Commit.                                                        *)

\* The message of a Begin or a Commit.
LEMMA MarkEmitted ==
  ASSUME IInv, UNCHANGED <<wal, catalogs, crashes, proc, types>>, proc = "up",
         NEW l \in DOMAIN wal, NEW seq \in Nat, Emit(l, seq, NoChange)
  PROVE  TopicInv' /\ BatchesUniform' /\ LastInv'
<1>1. /\ PgInv /\ ProcInv /\ TopicInv /\ LastInv /\ BatchesUniform
      /\ l \in Nat /\ pos.num \in Nat /\ crashes \in Nat /\ whole \in BOOLEAN
  BY LogFacts, DecoderAssumption DEF IInv, ProcInv
<1>2. NoChange \in ChangeRecs
  BY DEF NoChange, ChangeRecs
<1> DEFINE m == [lsn |-> l, seq |-> seq, change |-> NoChange, num |-> pos.num, epoch |-> crashes,
                 whole |-> whole]
           b == consistent \/ After(l, seq, prev)
<1>3. m \in Messages /\ m.lsn = l /\ m.epoch = crashes /\ m.change = NoChange /\ m.whole = whole
  <2> HIDE DEF NoChange
  <2> QED
    BY <1>1, <1>2 DEF Messages
<1>4. /\ consistent' = b /\ (consistent => b) /\ topic' = IF b THEN Append(topic, m) ELSE topic
  BY DEF Emit
<1> HIDE DEF m, b
<1>5. PICK e \in Messages : e = m
  BY <1>3
<1>6. PICK pass \in BOOLEAN : pass = (b = TRUE)
  OBVIOUS
<1>7. (consistent => pass) /\ consistent' = pass /\ Published(e, pass)
  <2>1. b \in BOOLEAN
    BY <1>1 DEF b, After, ProcInv
  <2> QED
    BY <1>4, <1>5, <1>6, <2>1 DEF Published
<1>8. e.lsn = l /\ e.epoch = crashes /\ ~IsChange(e) /\ e.whole = whole
  BY <1>3, <1>5 DEF IsChange
<1>9. MessageOK(e)'
  <2>1. wal' = wal /\ crashes' = crashes /\ proc' = "up"
    OBVIOUS
  <2>2. e.lsn \in DOMAIN wal' /\ e.epoch <= crashes' /\ e.change = NoChange
    BY <1>1, <1>8, <2>1 DEF IsChange
  <2> QED
    BY <2>1, <2>2 DEF MessageOK, IsChange, NoChange
<1>10. Uniform(Last(topic), e)
  BY <1>8 DEF Uniform
<1>11. /\ TopicInv' /\ BatchesUniform'
       /\ topic' # <<>> /\ Last(topic').epoch = crashes' => consistent' /\ Last(topic') = e
  BY <1>1, <1>7, <1>8, <1>9, <1>10, Publish
<1>12. LastInv'
  <2>1. e.change = NoChange
    BY <1>8 DEF IsChange
  <2>2. Last(topic') = e => ~IsChange(Last(topic))'
    BY <2>1 DEF IsChange, NoChange
  <2>3. e.whole => KnowsLog'
    BY <1>8 DEF IInv, CacheInv, KnowsLog, Knows
  <2> QED
    BY <1>11, <2>2, <2>3 DEF LastInv
<1> QED
  BY <1>11, <1>12

LEMMA DecodeBeginStep ==
  ASSUME IInv, DecodeBegin
  PROVE  IInv'
<1>1. /\ proc = "up" /\ pos.tx <= Len(wal) /\ pos.num = 0
      /\ Emit(pos.tx, 0, NoChange) /\ currentLsn' = pos.tx /\ currentSeq' = 0
      /\ pos' = [pos EXCEPT !.num = 1]
      /\ UNCHANGED pgVars /\ announced' = announced /\ proc' = proc
      /\ types' = types /\ relations' = relations /\ crashes' = crashes
      /\ breaks' = breaks /\ whole' = whole /\ guessed' = guessed
  BY DEF DecodeBegin, Streaming, Emit, decVars, faultVars, histVars
<1>2. PgInv' /\ wal' = wal /\ catalogs' = catalogs /\ Catalog' = Catalog
  BY <1>1, PgKept DEF IInv
<1>3. /\ PgInv /\ ProcInv /\ CacheInv
      /\ Len(wal) \in Nat /\ DOMAIN wal = 1..Len(wal)
      /\ \A l \in DOMAIN wal : Len(wal[l]) \in Nat /\ DOMAIN wal[l] = 1..Len(wal[l])
  BY LogFacts DEF IInv
<1>4. pos \in [tx : Nat \ {0}, num : Nat] /\ pos.tx \in DOMAIN wal
  BY <1>1, <1>3 DEF ProcInv
<1>5. pos'.tx = pos.tx /\ pos'.num = 1 /\ pos' \in [tx : Nat \ {0}, num : Nat]
  BY <1>1, <1>4
<1>6. PICK l \in DOMAIN wal : l = pos.tx
  BY <1>4
<1>7. TopicInv' /\ BatchesUniform' /\ LastInv'
  <2>1. Emit(l, 0, NoChange)
    BY <1>1, <1>6 DEF Emit
  <2> QED
    BY <1>1, <1>2, <2>1, MarkEmitted
<1>8. ProcInv'
  <2>1. currentLsn' \in 0..(MaxTx + 1) /\ currentSeq' \in Nat
    BY <1>1, <1>3, <1>4, DecoderAssumption DEF PgInv
  <2>2. consistent' \in BOOLEAN
    BY <1>1 DEF Emit, After
  <2>3. /\ pos'.tx <= Len(wal') + 1
        /\ pos'.num <= (IF pos'.tx <= Len(wal') THEN Len(wal'[pos'.tx]) + 1 ELSE 0)
    BY <1>1, <1>2, <1>3, <1>4, <1>5
  <2> QED
    BY <1>1, <1>2, <1>3, <1>5, <2>1, <2>2, <2>3 DEF ProcInv
<1>9. CacheInv'
  <2>1. \A k, n \in Nat : Ahead(k, n)' => Ahead(k, n)
    BY <1>1, <1>2, <1>4, <1>5 DEF Ahead
  <2>2. \A k, n \in Nat : LogAhead(k, n) => LogAhead(k, n)'
    BY <1>1, <1>2, <1>3, <1>4, <1>5 DEF LogAhead, Ahead
  <2> QED
    BY <1>1, <1>2, <1>3, <2>1, <2>2, CacheMoves
<1>10. StartInv'
  BY <1>1 DEF StartInv
<1> QED
  BY <1>2, <1>7, <1>8, <1>9, <1>10 DEF IInv

LEMMA DecodeCommitStep ==
  ASSUME IInv, DecodeCommit
  PROVE  IInv'
<1>1. /\ proc = "up" /\ pos.tx <= Len(wal) /\ pos.num = Len(wal[pos.tx]) + 1
      /\ Emit(pos.tx, currentSeq + 1, NoChange)
      /\ currentLsn' = pos.tx /\ currentSeq' = currentSeq + 1
      /\ pos' = [tx |-> pos.tx + 1, num |-> 0]
      /\ UNCHANGED pgVars /\ announced' = announced /\ proc' = proc
      /\ types' = types /\ relations' = relations /\ crashes' = crashes
      /\ breaks' = breaks /\ whole' = whole /\ guessed' = guessed
  BY DEF DecodeCommit, Streaming, Emit, decVars, faultVars, histVars
<1>2. PgInv' /\ wal' = wal /\ catalogs' = catalogs /\ Catalog' = Catalog
  BY <1>1, PgKept DEF IInv
<1>3. /\ PgInv /\ ProcInv /\ CacheInv
      /\ Len(wal) \in Nat /\ DOMAIN wal = 1..Len(wal)
      /\ \A l \in DOMAIN wal : Len(wal[l]) \in Nat /\ DOMAIN wal[l] = 1..Len(wal[l])
  BY LogFacts DEF IInv
<1>4. pos \in [tx : Nat \ {0}, num : Nat] /\ pos.tx \in DOMAIN wal /\ currentSeq + 1 \in Nat
  BY <1>1, <1>3 DEF ProcInv
<1>5. pos'.tx = pos.tx + 1 /\ pos'.num = 0 /\ pos' \in [tx : Nat \ {0}, num : Nat]
  BY <1>1, <1>4
<1>6. PICK l \in DOMAIN wal : l = pos.tx
  BY <1>4
<1>7. PICK seq \in Nat : seq = currentSeq + 1
  BY <1>4
<1>8. TopicInv' /\ BatchesUniform' /\ LastInv'
  <2>1. Emit(l, seq, NoChange)
    BY <1>1, <1>6, <1>7 DEF Emit
  <2> QED
    BY <1>1, <1>2, <2>1, MarkEmitted
<1>9. ProcInv'
  <2>1. currentLsn' \in 0..(MaxTx + 1) /\ currentSeq' \in Nat
    BY <1>1, <1>3, <1>4, DecoderAssumption DEF PgInv
  <2>2. consistent' \in BOOLEAN
    BY <1>1 DEF Emit, After
  <2>3. CASE pos.tx + 1 <= Len(wal)
    <3>1. Len(wal[pos.tx + 1]) \in Nat
      BY <1>3, <1>4, <2>3
    <3>2. /\ pos'.tx <= Len(wal') + 1
          /\ pos'.num <= (IF pos'.tx <= Len(wal') THEN Len(wal'[pos'.tx]) + 1 ELSE 0)
      BY <1>2, <1>3, <1>4, <1>5, <2>3, <3>1
    <3> QED
      BY <1>1, <1>2, <1>3, <1>5, <2>1, <2>2, <3>2 DEF ProcInv
  <2>4. CASE pos.tx + 1 = Len(wal) + 1
    <3>1. /\ pos'.tx <= Len(wal') + 1
          /\ pos'.num <= (IF pos'.tx <= Len(wal') THEN Len(wal'[pos'.tx]) + 1 ELSE 0)
      BY <1>2, <1>3, <1>4, <1>5, <2>4
    <3> QED
      BY <1>1, <1>2, <1>3, <1>5, <2>1, <2>2, <3>1 DEF ProcInv
  <2> QED
    BY <1>1, <1>3, <1>4, <2>3, <2>4
<1>10. CacheInv'
  <2>1. \A k, n \in Nat : Ahead(k, n)' => Ahead(k, n)
    BY <1>1, <1>2, <1>3, <1>4, <1>5 DEF Ahead
  <2>2. \A k, n \in Nat : LogAhead(k, n) => LogAhead(k, n)'
    BY <1>1, <1>2, <1>3, <1>4, <1>5 DEF LogAhead, Ahead
  <2> QED
    BY <1>1, <1>2, <1>3, <2>1, <2>2, CacheMoves
<1>11. StartInv'
  BY <1>1 DEF StartInv
<1> QED
  BY <1>2, <1>8, <1>9, <1>10, <1>11 DEF IInv

-----------------------------------------------------------------------------
(* The start and the end of the process.                                    *)

LEMMA CaptureStep ==
  ASSUME IInv, Capture
  PROVE  IInv'
<1> DEFINE start == IF topic = <<>> THEN Len(wal) + 1 ELSE Last(topic).lsn
<1>1. /\ proc = "down" /\ proc' = "starting" /\ Refresh(NewPGXSchemaLoader)
      /\ relations' = [t \in Tables |-> <<>>] /\ announced' = relations'
      /\ consistent' = FALSE /\ currentLsn' = currentLsn /\ currentSeq' = currentSeq
      /\ UNCHANGED pgVars /\ topic' = topic /\ crashes' = crashes /\ guessed' = guessed
  BY DEF Capture, CaptureTypes, Unknown
<1>2. PgInv' /\ wal' = wal /\ catalogs' = catalogs /\ Catalog' = Catalog
  BY <1>1, PgKept DEF IInv
<1>3. /\ PgInv /\ ProcInv /\ TopicInv
      /\ Len(wal) \in Nat /\ DOMAIN wal = 1..Len(wal)
      /\ \A l \in DOMAIN wal : Len(wal[l]) \in Nat
  BY LogFacts DEF IInv
<1>4. topic # <<>> => /\ Last(topic).lsn \in DOMAIN wal /\ Last(topic).lsn \in Nat
                      /\ Last(topic).lsn # 0
  BY <1>3, SeqFacts DEF TopicInv, Last, MessageOK
<1>5. /\ pos' = [tx |-> start, num |-> 0]
      /\ prev' = IF topic = <<>> THEN [lsn |-> 0, seq |-> 0]
                 ELSE [lsn |-> Last(topic).lsn, seq |-> Last(topic).seq]
  BY <1>4 DEF Capture, Checkpoint
<1>6. start \in Nat \ {0} /\ start <= Len(wal) + 1 /\ (topic # <<>> => start = Last(topic).lsn)
  BY <1>3, <1>4
<1> HIDE DEF start
<1>7. pos'.tx = start /\ pos'.num = 0 /\ pos' \in [tx : Nat \ {0}, num : Nat]
  BY <1>5, <1>6
<1>8. /\ types' \in [Tables -> [Columns -> Oids \cup {Missing}]]
      /\ whole' \in BOOLEAN /\ breaks' \in 0..MaxBreaks
      /\ whole' => Refreshed'
  <2>1. PICK cache \in [Tables -> [Columns -> Oids \cup {Missing}]] : cache = NewPGXSchemaLoader
    BY LoaderType
  <2>2. Refresh(cache)
    BY <1>1, <2>1
  <2> QED
    BY <1>2, <1>3, <2>2, RefreshStep DEF ProcInv
<1>9. relations' \in [Tables -> Seq(Columns)]
  <2> DEFINE q == <<>>
             Q == Seq(Columns)
  <2>1. q \in Q
    BY EmptyFacts
  <2> HIDE DEF q, Q
  <2>2. [t \in Tables |-> q] \in [Tables -> Q]
    BY <2>1
  <2> QED
    BY <1>1, <2>2 DEF q, Q
<1>10. ProcInv'
  <2>1. /\ pos'.tx <= Len(wal') + 1
        /\ pos'.num <= (IF pos'.tx <= Len(wal') THEN Len(wal'[pos'.tx]) + 1 ELSE 0)
    BY <1>2, <1>3, <1>6, <1>7
  <2> QED
    BY <1>1, <1>2, <1>3, <1>7, <1>8, <1>9, <2>1 DEF ProcInv
<1>11. whole' => CacheInv' /\ ServesAll'
  BY <1>2, <1>8, CacheFresh, FreshServes, PTL
<1>12. CacheInv'
  BY <1>11 DEF CacheInv
<1>13. StartInv'
  BY <1>1, <1>5, <1>6, <1>7, <1>11 DEF StartInv, ServesAll
<1>14. TopicInv'
  BY <1>1, <1>2, <1>3, Grows, TopicKept
<1>15. LastInv'
  BY <1>1 DEF LastInv
<1>16. BatchesUniform'
  BY <1>1 DEF IInv, BatchesUniform, IsChange, NoChange
<1> QED
  BY <1>2, <1>10, <1>12, <1>13, <1>14, <1>15, <1>16 DEF IInv

\* Of what the process then reads it has missed nothing: what comes earlier than
\* it might have is served, and if it starts later nothing was altered in between.
LEMMA StartReplicationStep ==
  ASSUME IInv, StartReplication
  PROVE  IInv'
<1>1. PICK tx \in 1..(Len(wal) + 1) :
        /\ prev.lsn # 0 => tx = pos.tx
        /\ pos' = [pos EXCEPT !.tx = tx]
        /\ currentLsn' = tx
        /\ whole' = (whole /\ \A l \in pos.tx..(tx - 1) : ~Logs(l))
  BY DEF StartReplication
<1>2. /\ proc = "starting" /\ proc' = "up" /\ currentSeq' = prev.seq
      /\ UNCHANGED pgVars /\ announced' = announced /\ types' = types /\ relations' = relations
      /\ prev' = prev /\ consistent' = consistent /\ topic' = topic
      /\ crashes' = crashes /\ breaks' = breaks /\ guessed' = guessed
  BY DEF StartReplication, decVars, sinkVars, faultVars
<1>3. PgInv' /\ wal' = wal /\ catalogs' = catalogs /\ Catalog' = Catalog
  BY <1>2, PgKept DEF IInv
<1>4. /\ PgInv /\ ProcInv /\ TopicInv /\ CacheInv
      /\ Len(wal) \in Nat /\ DOMAIN wal = 1..Len(wal) /\ Len(wal) <= MaxTx /\ MaxTx \in Nat
      /\ \A l \in DOMAIN wal : Len(wal[l]) \in Nat /\ DOMAIN wal[l] = 1..Len(wal[l])
  BY LogFacts, DecoderAssumption DEF IInv, PgInv
<1>5. /\ pos.num = 0
      /\ IF topic = <<>> THEN prev = [lsn |-> 0, seq |-> 0]
         ELSE prev = [lsn |-> Last(topic).lsn, seq |-> Last(topic).seq] /\ pos.tx = Last(topic).lsn
      /\ whole => \A l \in DOMAIN wal : l < pos.tx /\ topic = <<>> =>
                     \A n \in DOMAIN wal[l] : Serves(l, wal[l][n])
  BY <1>2 DEF IInv, StartInv
<1>6. topic # <<>> => /\ Last(topic).seq \in Nat /\ Last(topic).lsn \in Nat /\ Last(topic).lsn # 0
                      /\ Last(topic).epoch \in Nat /\ Last(topic).epoch < crashes
  <2> SUFFICES ASSUME topic # <<>>
               PROVE  /\ Last(topic).seq \in Nat /\ Last(topic).lsn \in Nat /\ Last(topic).lsn # 0
                      /\ Last(topic).epoch \in Nat /\ Last(topic).epoch < crashes
    OBVIOUS
  <2>1. Last(topic) \in Messages /\ MessageOK(Last(topic))
    BY <1>4, SeqFacts DEF TopicInv, Last
  <2>2. /\ Last(topic).seq \in Nat /\ Last(topic).lsn \in Nat /\ Last(topic).epoch \in Nat
    BY <2>1 DEF Messages
  <2> QED
    BY <1>2, <1>4, <2>1, <2>2 DEF MessageOK
<1>7. prev.seq \in Nat /\ (topic # <<>> => tx = pos.tx)
  BY <1>1, <1>5, <1>6
<1>8. /\ tx \in Nat \ {0} /\ tx <= Len(wal) + 1 /\ pos \in [tx : Nat \ {0}, num : Nat]
      /\ pos'.tx = tx /\ pos'.num = 0 /\ pos' \in [tx : Nat \ {0}, num : Nat]
  BY <1>1, <1>4, <1>5 DEF ProcInv
<1>9. ProcInv'
  <2>1. /\ pos'.tx <= Len(wal') + 1
        /\ pos'.num <= (IF pos'.tx <= Len(wal') THEN Len(wal'[pos'.tx]) + 1 ELSE 0)
    BY <1>3, <1>4, <1>8
  <2>2. currentLsn' \in 0..(MaxTx + 1) /\ currentSeq' \in Nat
    BY <1>1, <1>2, <1>4, <1>7, <1>8
  <2>3. whole' \in BOOLEAN
    BY <1>1, <1>4 DEF ProcInv
  <2> QED
    BY <1>2, <1>3, <1>4, <1>8, <2>1, <2>2, <2>3 DEF ProcInv
<1>10. CacheInv'
  <2> SUFFICES ASSUME whole' PROVE CacheInv'
    BY DEF CacheInv
  <2>1. whole /\ \A l \in pos.tx..(tx - 1) : ~Logs(l)
    BY <1>1
  <2>2. KnowsLog'
    BY <1>2, <1>4, <2>1 DEF CacheInv, KnowsLog, Knows
  <2>3. ASSUME NEW l \in Nat, NEW n \in Nat, LogAhead(l, n) PROVE LogAhead(l, n)'
    <3>1. /\ l \in DOMAIN wal /\ n \in DOMAIN wal[l] /\ wal[l][n].table = DDLLogs
          /\ l >= pos.tx
      BY <1>8, <2>3 DEF LogAhead, Ahead
    <3>2. Logs(l)
      BY <3>1 DEF Logs
    <3>3. l >= tx
      BY <1>8, <2>1, <3>1, <3>2
    <3> QED
      BY <1>3, <1>8, <3>1, <3>3 DEF LogAhead, Ahead
  <2>4. Refreshed' <=> Refreshed
    BY <1>2, <1>3 DEF Refreshed, Knows
  <2>5. (\E l, n \in Nat : LogAhead(l, n)') \/ Refreshed'
    BY <1>4, <2>1, <2>3, <2>4 DEF CacheInv
  <2>6. ASSUME NEW l \in Nat, NEW n \in Nat, Ahead(l, n)'
        PROVE  \/ \E k, i \in Nat : LogAhead(k, i)' /\ (k < l \/ (k = l /\ i < n))
               \/ Serves(l, wal[l][n])'
    <3>1. l \in DOMAIN wal /\ n \in DOMAIN wal[l] /\ l >= tx
      BY <1>3, <1>8, <2>6 DEF Ahead
    <3>2. \/ \E k, i \in Nat : LogAhead(k, i) /\ (k < l \/ (k = l /\ i < n))
          \/ Serves(l, wal[l][n])
      <4>1. CASE l < pos.tx
        <5>1. topic = <<>>
          BY <1>7, <1>8, <3>1, <4>1
        <5> QED
          BY <1>5, <2>1, <3>1, <4>1, <5>1
      <4>2. CASE l >= pos.tx
        <5>1. Ahead(l, n)
          BY <1>5, <1>8, <3>1, <4>2 DEF Ahead
        <5> QED
          BY <1>4, <2>1, <5>1 DEF CacheInv
      <4> QED
        BY <1>8, <4>1, <4>2
    <3> QED
      BY <1>2, <1>3, <2>3, <3>2 DEF Serves, Knows, Kept, Remains, Since
  <2> QED
    BY <2>2, <2>5, <2>6 DEF CacheInv
<1>11. TopicInv'
  BY <1>2, <1>3, <1>4, Grows, TopicKept
<1>12. LastInv'
  <2>1. ~(topic' # <<>> /\ Last(topic').epoch = crashes')
    <3>1. crashes \in Nat
      BY <1>4, DecoderAssumption DEF ProcInv
    <3> QED
      BY <1>2, <1>6, <3>1
  <2> QED
    BY <2>1 DEF LastInv
<1>13. BatchesUniform'
  BY <1>2 DEF IInv, BatchesUniform, IsChange, NoChange
<1>14. StartInv'
  BY <1>2 DEF StartInv
<1> QED
  BY <1>3, <1>9, <1>10, <1>11, <1>12, <1>13, <1>14 DEF IInv

LEMMA CrashStep ==
  ASSUME IInv, Crash
  PROVE  IInv'
<1>1. /\ crashes < MaxCrashes /\ crashes' = crashes + 1 /\ proc' = "down"
      /\ UNCHANGED pgVars /\ announced' = announced /\ types' = types /\ relations' = relations
      /\ pos' = pos /\ currentLsn' = currentLsn /\ currentSeq' = currentSeq
      /\ consistent' = consistent /\ topic' = topic
      /\ breaks' = breaks /\ whole' = FALSE /\ guessed' = guessed
  BY DEF Crash, decVars, sinkVars
<1>2. PgInv' /\ wal' = wal /\ catalogs' = catalogs
  BY <1>1, PgKept DEF IInv
<1>3. crashes' \in 0..MaxCrashes
  BY <1>1, DecoderAssumption DEF IInv, ProcInv
<1>4. ProcInv'
  BY <1>1, <1>2, <1>3 DEF IInv, ProcInv
<1>5. TopicInv'
  BY <1>1, <1>2, Grows, TopicKept DEF IInv
<1>6. CacheInv' /\ LastInv' /\ StartInv'
  BY <1>1 DEF CacheInv, LastInv, StartInv
<1>7. BatchesUniform'
  BY <1>1 DEF IInv, BatchesUniform, IsChange, NoChange
<1> QED
  BY <1>2, <1>4, <1>5, <1>6, <1>7 DEF IInv

-----------------------------------------------------------------------------
(* Rows.                                                                    *)

\* Where the stream is.
LEMMA AtRowFacts ==
  ASSUME IInv, AtRow
  PROVE  /\ proc = "up" /\ pos.tx \in DOMAIN wal /\ pos.num \in DOMAIN wal[pos.tx]
         /\ pos \in [tx : Nat \ {0}, num : Nat] /\ pos.num > 0
         /\ pos.tx <= Len(wal) /\ Len(wal) \in Nat /\ pos.num <= Len(wal[pos.tx])
         /\ Len(wal[pos.tx]) \in Nat /\ DOMAIN wal[pos.tx] = 1..Len(wal[pos.tx])
         /\ Item = wal[pos.tx][pos.num] /\ RowOK(Item) /\ currentLsn = pos.tx
<1>1. /\ proc = "up" /\ pos.tx <= Len(wal) /\ pos.num \in DOMAIN wal[pos.tx]
      /\ Item = wal[pos.tx][pos.num]
  BY DEF AtRow, Streaming, Item
<1>2. /\ Len(wal) \in Nat /\ DOMAIN wal = 1..Len(wal)
      /\ \A l \in DOMAIN wal : /\ Len(wal[l]) \in Nat /\ DOMAIN wal[l] = 1..Len(wal[l])
                               /\ \A n \in DOMAIN wal[l] : RowOK(wal[l][n])
  BY LogFacts DEF IInv
<1>3. pos \in [tx : Nat \ {0}, num : Nat] /\ (pos.num > 0 => currentLsn = pos.tx)
  BY <1>1 DEF IInv, ProcInv
<1>4. pos.tx \in DOMAIN wal
  BY <1>1, <1>2, <1>3
<1> QED
  BY <1>1, <1>2, <1>3, <1>4

LEMMA NamesType ==
  ASSUME NEW shape \in Seq(ColumnDefs)
  PROVE  /\ ColumnNames(shape) \in Seq(Columns)
         /\ shape # <<>> => ColumnNames(shape) # <<>>
<1>1. Len(shape) \in Nat /\ DOMAIN shape = 1..Len(shape)
      /\ \A i \in DOMAIN shape : shape[i].name \in Columns
  BY ShapeFacts
<1>2. ColumnNames(shape) = [i \in 1..Len(shape) |-> shape[i].name]
  BY <1>1 DEF ColumnNames
<1>3. ColumnNames(shape) \in Seq(Columns) /\ Len(ColumnNames(shape)) = Len(shape)
  <2> DEFINE q == ColumnNames(shape)
  <2>1. q = [i \in 1..Len(shape) |-> q[i]] /\ \A i \in 1..Len(shape) : q[i] \in Columns
    BY <1>1, <1>2
  <2> HIDE DEF q
  <2>2. q \in Seq(Columns) /\ Len(q) = Len(shape)
    BY <1>1, <2>1, SeqOfFunction
  <2> QED
    BY <2>2 DEF q
<1>4. Len(ColumnNames(shape)) = 0 <=> ColumnNames(shape) = <<>>
  BY <1>3, SeqFacts
<1>5. Len(shape) = 0 <=> shape = <<>>
  BY SeqFacts
<1> QED
  BY <1>3, <1>4, <1>5

LEMMA DecodeRelationStep ==
  ASSUME IInv, DecodeRelation
  PROVE  IInv'
<1> DEFINE names == ColumnNames(Item.shape)
<1>1. /\ AtRow
      /\ announced' = [announced EXCEPT ![Item.table] = names]
      /\ relations' = [relations EXCEPT ![Item.table] = names]
      /\ UNCHANGED pgVars /\ proc' = proc /\ types' = types /\ pos' = pos
      /\ currentLsn' = currentLsn /\ currentSeq' = currentSeq
      /\ consistent' = consistent /\ topic' = topic /\ crashes' = crashes
      /\ breaks' = breaks /\ whole' = whole /\ guessed' = guessed
  BY DEF DecodeRelation, ReadRelation, sinkVars, faultVars, histVars
<1>2. PgInv' /\ wal' = wal /\ catalogs' = catalogs
  BY <1>1, PgKept DEF IInv
<1>3. RowOK(Item) /\ proc = "up"
  BY <1>1, AtRowFacts
<1>4. names \in Seq(Columns) /\ Item.table \in Tables
  BY <1>3, NamesType DEF RowOK, WireRows
<1>5. ProcInv'
  <2> HIDE DEF names
  <2>1. announced = relations /\ relations \in [Tables -> Seq(Columns)]
    BY DEF IInv, ProcInv
  <2>2. announced' = relations' /\ relations' \in [Tables -> Seq(Columns)]
    BY <1>1, <1>4, <2>1
  <2> QED
    BY <1>1, <1>2, <2>2 DEF IInv, ProcInv
<1>6. CacheInv'
  <2>1. \A l, n \in Nat : Ahead(l, n)' <=> Ahead(l, n)
    BY <1>1, <1>2 DEF Ahead
  <2>2. \A l, n \in Nat : LogAhead(l, n)' <=> LogAhead(l, n)
    BY <1>1, <1>2 DEF Ahead, LogAhead
  <2> QED
    BY <1>1, <1>2, <1>3, <2>1, <2>2, CacheMoves DEF IInv
<1>7. TopicInv'
  BY <1>1, <1>2, Grows, TopicKept DEF IInv
<1>8. LastInv'
  BY <1>1, <1>2 DEF IInv, LastInv, Last, IsChange, NoChange, LogIn, Known, Row, KnowsLog, Knows
<1>9. BatchesUniform'
  BY <1>1 DEF IInv, BatchesUniform, IsChange, NoChange
<1>10. StartInv'
  BY <1>1, <1>3 DEF StartInv
<1> QED
  BY <1>2, <1>5, <1>6, <1>7, <1>8, <1>9, <1>10 DEF IInv

\* A whole cache knows what it has to for the row being decoded.
LEMMA KnowsRow ==
  ASSUME IInv, AtRow, whole
  PROVE  Serves(pos.tx, Item)
<1>1. /\ proc = "up" /\ pos.tx \in DOMAIN wal /\ pos.num \in DOMAIN wal[pos.tx]
      /\ pos.tx \in Nat /\ pos.num \in Nat /\ Item = wal[pos.tx][pos.num]
  BY AtRowFacts
<1>2. Ahead(pos.tx, pos.num)
  BY <1>1 DEF Ahead
<1>3. ~\E k, i \in Nat : LogAhead(k, i) /\ (k < pos.tx \/ (k = pos.tx /\ i < pos.num))
  BY <1>1 DEF LogAhead, Ahead
<1> QED
  BY <1>1, <1>2, <1>3 DEF IInv, CacheInv

\* All columns of ddl_logs are known.
LogNames == {d.name : d \in ToSet(InitCatalog[DDLLogs])}

LEMMA LogColumns ==
  KnowsLog =>
    Known(DDLLogs, InitCatalog[DDLLogs]) = LogNames /\ LogNames # {}
<1> SUFFICES ASSUME KnowsLog
             PROVE  Known(DDLLogs, InitCatalog[DDLLogs]) = LogNames /\ LogNames # {}
  OBVIOUS
<1> DEFINE shape == InitCatalog[DDLLogs]
<1>1. shape \in Seq(ColumnDefs) /\ shape # <<>>
  BY DecoderAssumption, TableFacts DEF Catalogs
<1>2. \A d \in ToSet(shape) : d.oid \in Oids
  BY <1>1, ShapeFacts DEF ToSet
<1>3. \A d \in ToSet(shape) : types[DDLLogs][d.name] # Missing
  BY <1>2, DecoderAssumption DEF KnowsLog, Knows
<1>4. {x \in ToSet(shape) : types[DDLLogs][x.name] # Missing} = ToSet(shape)
  BY <1>3
<1>5. shape[1] \in ToSet(shape)
  BY <1>1, SeqFacts DEF ToSet
<1> HIDE DEF shape
<1>6. {d.name : d \in ToSet(shape)} # {}
  BY <1>5
<1> QED
  BY <1>4, <1>6 DEF Known, LogNames, shape

\* What a step that decodes a row does: the row makes no message, it makes one,
\* or it makes one and has the types read again.
SilentStep(row, c) ==
  /\ (c.old = {} /\ c.new = {}) \/ row.table = Sources
  /\ UNCHANGED <<types, whole, breaks>>
  /\ consistent' = consistent /\ topic' = topic /\ prev' = prev
  /\ currentLsn' = currentLsn /\ currentSeq' = currentSeq
MessageStep(row, c) ==
  /\ c.old # {} \/ c.new # {}
  /\ row.table # Sources
  /\ IF row.table = DDLLogs THEN Refresh(types) ELSE UNCHANGED <<types, whole, breaks>>
  /\ Emit(currentLsn, currentSeq + 1, c)

LEMMA DecodeChangeFacts ==
  ASSUME IInv, DecodeChange
  PROVE  /\ AtRow /\ RowOK(Item) /\ Told(Item)
         /\ DecodedChange(Item) \in ChangeRecs /\ DecodedChange(Item).table = Item.table
         /\ proc' = proc /\ pos' = [pos EXCEPT !.num = @ + 1]
         /\ UNCHANGED pgVars /\ announced' = announced /\ relations' = relations
         /\ crashes' = crashes /\ guessed' = (IF whole THEN guessed ELSE guessed \cup {pos.tx})
         /\ \/ SilentStep(Item, DecodedChange(Item))
            \/ MessageStep(Item, DecodedChange(Item))
<1>1. AtRow /\ announced[Item.table] = ColumnNames(Item.shape)
  BY DEF DecodeChange
<1>2. RowOK(Item)
  BY <1>1, AtRowFacts
<1>3. Item.shape \in Seq(ColumnDefs) /\ Item.shape # <<>>
  BY <1>2 DEF RowOK, WireRows
<1>4. Told(Item) /\ relations[Item.table] # <<>>
  BY <1>1, <1>3, NamesType DEF IInv, ProcInv, Told
<1> DEFINE c == DecodedChange(Item)
<1>5. c \in ChangeRecs /\ c.table = Item.table
  BY <1>2, <1>4, ChangeType, ChangeDecoded DEF IInv
<1> DEFINE silent == (c.old = {} /\ c.new = {}) \/ c.table = Sources
<1>6. /\ proc' = proc /\ pos' = [pos EXCEPT !.num = @ + 1]
      /\ IF ~silent /\ c.table = DDLLogs THEN Refresh(types) ELSE UNCHANGED <<types, whole, breaks>>
      /\ IF silent THEN UNCHANGED <<currentLsn, currentSeq, sinkVars>>
         ELSE Emit(currentLsn, currentSeq + 1, c)
      /\ UNCHANGED pgVars /\ announced' = announced /\ relations' = relations
      /\ crashes' = crashes /\ guessed' = (IF whole THEN guessed ELSE guessed \cup {pos.tx})
  BY <1>4 DEF DecodeChange, Unknown, Refreshes, IsDDL, Ignore
<1> HIDE DEF c
<1>7. SilentStep(Item, c) \/ MessageStep(Item, c)
  <2>1. CASE silent
    BY <1>5, <1>6, <2>1 DEF SilentStep, sinkVars
  <2>2. CASE ~silent
    BY <1>5, <1>6, <2>2 DEF MessageStep
  <2> QED
    BY <2>1, <2>2
<1> QED
  BY <1>1, <1>2, <1>4, <1>5, <1>6, <1>7 DEF c

\* An entry of ddl_logs makes a message, if its columns are known.
LEMMA LogNotSilent ==
  ASSUME IInv, AtRow, RowOK(Item), Told(Item), Item.table = DDLLogs, KnowsLog
  PROVE  DecodedChange(Item).new # {} /\ Item.table # Sources
<1>1. proc = "up"
  BY AtRowFacts
<1>2. Item.op = "I" /\ Item.shape = InitCatalog[DDLLogs]
  BY DEF RowOK
<1>3. Known(DDLLogs, InitCatalog[DDLLogs]) # {}
  BY LogColumns
<1>4. {g.name : g \in DecodedChange(Item).new} # {}
  BY <1>2, <1>3, InsertNames
<1> QED
  BY <1>4, TableFacts

\* The type and the place of the process after a row.
LEMMA RowProc ==
  ASSUME IInv, DecodeChange
  PROVE  ProcInv' /\ PgInv'
<1>1. /\ AtRow /\ proc' = proc /\ pos' = [pos EXCEPT !.num = @ + 1]
      /\ UNCHANGED pgVars /\ announced' = announced /\ relations' = relations
      /\ crashes' = crashes /\ guessed' = (IF whole THEN guessed ELSE guessed \cup {pos.tx})
      /\ \/ SilentStep(Item, DecodedChange(Item))
         \/ MessageStep(Item, DecodedChange(Item))
  BY DecodeChangeFacts
<1>2. PgInv' /\ wal' = wal
  BY <1>1, PgKept DEF IInv
<1>3. /\ pos.tx \in DOMAIN wal /\ pos.num \in DOMAIN wal[pos.tx]
      /\ pos \in [tx : Nat \ {0}, num : Nat] /\ pos.num > 0
      /\ pos.tx <= Len(wal) /\ Len(wal) \in Nat /\ pos.num <= Len(wal[pos.tx])
      /\ Len(wal[pos.tx]) \in Nat /\ currentLsn = pos.tx
  BY <1>1, AtRowFacts
<1>4. /\ pos'.tx = pos.tx /\ pos'.num = pos.num + 1 /\ pos' \in [tx : Nat \ {0}, num : Nat]
  BY <1>1, <1>3
<1>5. /\ types' \in [Tables -> [Columns -> Oids \cup {Missing}]]
      /\ whole' \in BOOLEAN /\ breaks' \in 0..MaxBreaks /\ guessed' \subseteq DOMAIN wal'
  <2>1. /\ types \in [Tables -> [Columns -> Oids \cup {Missing}]] /\ breaks \in 0..MaxBreaks
        /\ whole \in BOOLEAN /\ guessed \subseteq DOMAIN wal /\ PgInv
    BY DEF IInv, ProcInv
  <2>2. CASE UNCHANGED <<types, whole, breaks>>
    BY <1>1, <1>2, <1>3, <2>1, <2>2
  <2>3. CASE Refresh(types)
    <3>1. catalogs' = catalogs
      BY <1>1 DEF pgVars
    <3>2. /\ types' \in [Tables -> [Columns -> Oids \cup {Missing}]]
          /\ whole' \in BOOLEAN /\ breaks' \in 0..MaxBreaks
      BY <1>2, <2>1, <2>3, <3>1, RefreshStep
    <3> QED
      BY <1>1, <1>2, <1>3, <2>1, <3>2
  <2> QED
    BY <1>1, <2>2, <2>3 DEF SilentStep, MessageStep
<1>6. currentLsn' = currentLsn /\ currentSeq' \in Nat /\ consistent' \in BOOLEAN
  <2>1. currentSeq \in Nat /\ consistent \in BOOLEAN
    BY DEF IInv, ProcInv
  <2>2. CASE SilentStep(Item, DecodedChange(Item))
    BY <2>1, <2>2 DEF SilentStep
  <2>3. CASE MessageStep(Item, DecodedChange(Item))
    <3>1. currentLsn' = currentLsn /\ currentSeq' = currentSeq + 1
      BY <2>3 DEF MessageStep, Emit
    <3>2. consistent' \in BOOLEAN
      BY <2>3 DEF MessageStep, Emit, After
    <3> QED
      BY <2>1, <3>1, <3>2
  <2> QED
    BY <1>1, <2>2, <2>3
<1>7. /\ pos'.tx <= Len(wal') + 1
      /\ pos'.num <= (IF pos'.tx <= Len(wal') THEN Len(wal'[pos'.tx]) + 1 ELSE 0)
  BY <1>2, <1>3, <1>4
<1> QED
  BY <1>1, <1>2, <1>3, <1>4, <1>5, <1>6, <1>7 DEF IInv, ProcInv

\* The cache after a row.
LEMMA RowCache ==
  ASSUME IInv, DecodeChange
  PROVE  CacheInv' /\ (KnowsLog => KnowsLog')
<1>1. /\ AtRow /\ RowOK(Item) /\ Told(Item) /\ proc' = proc /\ pos' = [pos EXCEPT !.num = @ + 1]
      /\ UNCHANGED pgVars
      /\ \/ SilentStep(Item, DecodedChange(Item))
         \/ MessageStep(Item, DecodedChange(Item))
  BY DecodeChangeFacts
<1>2. PgInv' /\ wal' = wal /\ catalogs' = catalogs
  BY <1>1, PgKept DEF IInv
<1>3. /\ pos \in [tx : Nat \ {0}, num : Nat] /\ Item = wal[pos.tx][pos.num]
      /\ pos'.tx = pos.tx /\ pos'.num = pos.num + 1
  BY <1>1, AtRowFacts
<1>4. CASE Refresh(types)
  <2>1. /\ types \in [Tables -> [Columns -> Oids \cup {Missing}]] /\ breaks \in 0..MaxBreaks
        /\ PgInv
    BY DEF IInv, ProcInv
  <2>2. /\ whole' => Refreshed'
        /\ (\A d \in ToSet(InitCatalog[DDLLogs]) : types[DDLLogs][d.name] = d.oid) => KnowsLog'
    BY <1>2, <1>4, <2>1, RefreshStep
  <2>3. whole' => CacheInv'
    BY <1>2, <2>2, CacheFresh, PTL
  <2> QED
    BY <2>2, <2>3 DEF CacheInv, KnowsLog, Knows
<1>5. CASE UNCHANGED <<types, whole, breaks>> /\ Item.table # DDLLogs
  <2>1. \A l, n \in Nat : Ahead(l, n)' => Ahead(l, n)
    BY <1>2, <1>3 DEF Ahead
  <2>2. \A l, n \in Nat : LogAhead(l, n) => LogAhead(l, n)'
    BY <1>2, <1>3, <1>5 DEF LogAhead, Ahead
  <2>3. CacheInv'
    BY <1>2, <1>5, <2>1, <2>2, CacheMoves DEF IInv
  <2> QED
    BY <1>5, <2>3 DEF KnowsLog, Knows
<1>6. CASE SilentStep(Item, DecodedChange(Item)) /\ Item.table = DDLLogs
  <2>1. ~KnowsLog
    BY <1>1, <1>6, LogNotSilent DEF SilentStep
  <2>2. ~whole /\ whole' = whole
    BY <1>6, <2>1 DEF SilentStep, IInv, CacheInv
  <2> QED
    BY <2>1, <2>2 DEF CacheInv
<1> QED
  BY <1>1, <1>4, <1>5, <1>6 DEF SilentStep, MessageStep

\* A row that makes no message is not an entry of ddl_logs if those are known, so
\* what LastInv says of the last message stays true.
LEMMA RowSilent ==
  ASSUME IInv, DecodeChange, SilentStep(Item, DecodedChange(Item))
  PROVE  TopicInv' /\ LastInv' /\ BatchesUniform'
<1>1. /\ AtRow /\ RowOK(Item) /\ Told(Item) /\ proc' = proc /\ pos' = [pos EXCEPT !.num = @ + 1]
      /\ UNCHANGED pgVars /\ crashes' = crashes
      /\ types' = types /\ consistent' = consistent /\ topic' = topic
  BY DecodeChangeFacts DEF SilentStep
<1>2. PgInv' /\ wal' = wal /\ catalogs' = catalogs
  BY <1>1, PgKept DEF IInv
<1>3. /\ pos \in [tx : Nat \ {0}, num : Nat] /\ Item = wal[pos.tx][pos.num]
      /\ pos'.tx = pos.tx /\ pos'.num = pos.num + 1
  BY <1>1, AtRowFacts
<1>4. KnowsLog => Item.table # DDLLogs
  BY <1>1, LogNotSilent DEF SilentStep
<1>5. TopicInv'
  BY <1>1, <1>2, Grows, TopicKept DEF IInv
<1>6. BatchesUniform'
  BY <1>1 DEF IInv, BatchesUniform, IsChange, NoChange
<1>7. LastInv'
  <2> SUFFICES ASSUME proc = "up", topic # <<>>, Last(topic).epoch = crashes
               PROVE  LastInv'
    BY <1>1 DEF LastInv, Last
  <2>1. PICK e \in Messages : e = Last(topic)
    BY SeqFacts DEF IInv, TopicInv, Last
  <2>2. e.num \in Nat
    BY DEF Messages
  <2>3. /\ consistent /\ (e.whole => KnowsLog)
        /\ e.whole /\ IsChange(e) =>
             /\ e.lsn = pos.tx /\ e.num < pos.num
             /\ ~LogIn(wal[pos.tx], (e.num + 1)..(pos.num - 1))
             /\ e.change.op = "I" =>
                  {g.name : g \in e.change.new} = Known(e.change.table, wal[e.lsn][e.num].shape)
    BY <2>1 DEF IInv, LastInv, Row
  <2>4. \A k \in (e.num + 1)..pos.num : k \in (e.num + 1)..(pos.num - 1) \/ k = pos.num
    BY <1>3, <2>2
  <2>5. e.whole /\ ~LogIn(wal[pos.tx], (e.num + 1)..(pos.num - 1)) =>
          ~LogIn(wal[pos.tx], (e.num + 1)..pos.num)
    BY <1>3, <1>4, <2>3, <2>4 DEF LogIn
  <2>6. pos'.num - 1 = pos.num
    BY <1>3
  <2>7. e.num < pos.num => e.num < pos'.num
    BY <1>3, <2>2
  <2>8. Known(e.change.table, wal[e.lsn][e.num].shape)' = Known(e.change.table, wal[e.lsn][e.num].shape)
    BY <1>1, <1>2 DEF Known
  <2>9. Last(topic') = e
    BY <1>1, <2>1
  <2>10. /\ consistent' /\ (e.whole => KnowsLog')
         /\ e.whole /\ IsChange(e) =>
             /\ e.lsn = pos'.tx /\ e.num < pos'.num
             /\ ~LogIn(wal'[pos'.tx], (e.num + 1)..(pos'.num - 1))
             /\ e.change.op = "I" =>
                  {g.name : g \in e.change.new} = Known(e.change.table, wal[e.lsn][e.num].shape)'
    BY <1>1, <1>2, <1>3, <2>3, <2>5, <2>6, <2>7, <2>8, RowCache
  <2> QED
    BY <2>9, <2>10 DEF LastInv, IsChange, NoChange, Row, Known, LogIn
<1> QED
  BY <1>5, <1>6, <1>7

\* The message of a row, after one of the same process with a whole cache: inserts into one table
\* with no entry of ddl_logs between them have the same columns.
LEMMA RowUniform ==
  ASSUME IInv, AtRow, Told(Item), topic # <<>>,
         NEW e \in Messages, e.lsn = pos.tx, e.epoch = crashes, e.change = DecodedChange(Item)
  PROVE  Uniform(Last(topic), e)
<1>1. PICK m \in Messages : m = Last(topic)
  BY SeqFacts DEF IInv, TopicInv, Last
<1> SUFFICES ASSUME m.whole, IsChange(m), m.lsn = e.lsn, m.epoch = e.epoch,
                    m.change.table = e.change.table, m.change.op = "I", e.change.op = "I"
             PROVE  {g.name : g \in m.change.new} = {g.name : g \in e.change.new}
  BY <1>1 DEF Uniform
<1>2. /\ proc = "up" /\ pos.tx \in DOMAIN wal /\ pos.num \in DOMAIN wal[pos.tx]
      /\ Item = wal[pos.tx][pos.num] /\ RowOK(Item)
  BY AtRowFacts
<1>3. /\ m.num \in DOMAIN wal[m.lsn] /\ FaithfulTo(m.lsn, wal[m.lsn][m.num], m.change, m.whole)
  BY <1>1, SeqFacts DEF IInv, TopicInv, MessageOK, Last
<1>4. m.change.table = wal[m.lsn][m.num].table
  BY <1>3 DEF FaithfulTo
<1>5. e.change.table = Item.table /\ e.change.op = Item.op
  <2>1. PICK row : row = Item
    OBVIOUS
  <2>2. DecodedChange(row).table = row.table /\ DecodedChange(row).op = row.op
    BY <1>2, <2>1, ChangeDecoded
  <2> QED
    BY <2>1, <2>2
<1>6. /\ m.num < pos.num /\ ~LogIn(wal[pos.tx], (m.num + 1)..(pos.num - 1))
      /\ {g.name : g \in m.change.new} = Known(m.change.table, wal[m.lsn][m.num].shape)
  BY <1>1, <1>2 DEF IInv, LastInv, Row
<1>7. wal[m.lsn][m.num].shape = Item.shape
  <2>1. TxOK(catalogs[pos.tx], wal[pos.tx], catalogs[pos.tx + 1])
    BY <1>2 DEF IInv, PgInv
  <2>2. \A i, j \in DOMAIN wal[pos.tx] :
          i < j /\ wal[pos.tx][i].table = wal[pos.tx][j].table
            /\ wal[pos.tx][i].shape # wal[pos.tx][j].shape
          => LogIn(wal[pos.tx], (i + 1)..(j - 1))
    BY <2>1 DEF TxOK
  <2> QED
    BY <1>2, <1>3, <1>4, <1>5, <1>6, <2>2
<1>8. {g.name : g \in e.change.new} = Known(Item.table, Item.shape)
  BY <1>2, <1>5, InsertNames
<1> QED
  BY <1>5, <1>6, <1>7, <1>8

\* A row that makes a message.
LEMMA RowEmitted ==
  ASSUME IInv, DecodeChange, MessageStep(Item, DecodedChange(Item))
  PROVE  TopicInv' /\ LastInv' /\ BatchesUniform'
<1>1. /\ AtRow /\ RowOK(Item) /\ Told(Item) /\ proc' = proc /\ pos' = [pos EXCEPT !.num = @ + 1]
      /\ DecodedChange(Item) \in ChangeRecs /\ DecodedChange(Item).table = Item.table
      /\ UNCHANGED pgVars /\ crashes' = crashes
      /\ Item.table # DDLLogs => types' = types
      /\ Emit(currentLsn, currentSeq + 1, DecodedChange(Item))
  BY DecodeChangeFacts DEF MessageStep
<1>2. PgInv' /\ wal' = wal /\ catalogs' = catalogs
  BY <1>1, PgKept DEF IInv
<1>3. /\ proc = "up" /\ pos.tx \in DOMAIN wal /\ pos.num \in DOMAIN wal[pos.tx]
      /\ pos \in [tx : Nat \ {0}, num : Nat] /\ Item = wal[pos.tx][pos.num]
      /\ currentLsn = pos.tx
  BY <1>1, AtRowFacts
<1>4. /\ pos.tx \in Nat /\ pos.num \in Nat /\ pos'.tx = pos.tx /\ pos'.num = pos.num + 1
      /\ crashes \in Nat /\ currentSeq + 1 \in Nat /\ consistent \in BOOLEAN
      /\ whole \in BOOLEAN
  BY <1>1, <1>3, DecoderAssumption DEF IInv, ProcInv
<1> DEFINE m == [lsn |-> currentLsn, seq |-> currentSeq + 1, change |-> DecodedChange(Item),
                 num |-> pos.num, epoch |-> crashes, whole |-> whole]
           b == consistent \/ After(currentLsn, currentSeq + 1, prev)
<1>5. /\ m \in Messages /\ m.lsn = pos.tx /\ m.num = pos.num /\ m.epoch = crashes
      /\ m.change = DecodedChange(Item) /\ m.whole = whole
  BY <1>1, <1>3, <1>4 DEF Messages
<1>6. /\ consistent' = b /\ (consistent => b) /\ topic' = IF b THEN Append(topic, m) ELSE topic
      /\ b \in BOOLEAN
  BY <1>1, <1>4 DEF Emit, After
<1> HIDE DEF m, b
<1>7. PICK e \in Messages : e = m
  BY <1>5
<1>8. PICK row \in {wal[pos.tx][pos.num]} : row = Item
  BY <1>3
<1>9. PICK pass \in BOOLEAN : pass = b
  BY <1>6
<1>10. (consistent => pass) /\ consistent' = pass /\ Published(e, pass)
  BY <1>6, <1>7, <1>9 DEF Published
<1>11. /\ e.lsn = pos.tx /\ e.num = pos.num /\ e.epoch = crashes /\ e.change = DecodedChange(Item)
       /\ e.whole = whole
  BY <1>5, <1>7
<1>12. FaithfulTo(e.lsn, row, e.change, e.whole)
  <2>1. e.whole => Knows(row.table, {d \in ToSet(row.shape) : Kept(e.lsn, row.table, d)})
    BY <1>1, <1>8, <1>11, KnowsRow DEF Serves
  <2> QED
    BY <1>1, <1>8, <1>11, <2>1, ChangeFaithful
<1>13. MessageOK(e)'
  <2>1. FaithfulTo(e.lsn, row, e.change, e.whole)'
    BY <1>2, <1>3, <1>11, <1>12, Grows, FaithfulStays DEF IInv
  <2>2. /\ e.lsn \in DOMAIN wal' /\ e.epoch <= crashes' /\ proc' = "up"
        /\ e.num \in DOMAIN wal'[e.lsn] /\ wal'[e.lsn][e.num] = row
    BY <1>1, <1>2, <1>3, <1>4, <1>8, <1>11
  <2> QED
    BY <2>1, <2>2 DEF MessageOK, FaithfulTo, Kept, Since
<1>14. topic # <<>> => Uniform(Last(topic), e)
  BY <1>1, <1>11, RowUniform
<1>15. /\ TopicInv' /\ BatchesUniform'
       /\ topic' # <<>> /\ Last(topic').epoch = crashes' => consistent' /\ Last(topic') = e
  BY <1>1, <1>2, <1>3, <1>10, <1>11, <1>13, <1>14, Publish DEF IInv
<1>16. e.whole /\ row.op = "I" => {g.name : g \in e.change.new} = Known(row.table, row.shape)'
  <2> SUFFICES ASSUME e.whole, row.op = "I"
               PROVE  {g.name : g \in e.change.new} = Known(row.table, row.shape)'
    OBVIOUS
  <2>1. {g.name : g \in e.change.new} = Known(row.table, row.shape)
    BY <1>1, <1>8, <1>11, InsertNames
  <2>2. CASE row.table # DDLLogs
    <3>1. types' = types
      BY <1>1, <1>8, <2>2
    <3> QED
      BY <2>1, <3>1 DEF Known
  <2>3. CASE row.table = DDLLogs
    <3>1. row.shape = InitCatalog[DDLLogs]
      BY <1>1, <1>8, <2>3 DEF RowOK
    <3>2. KnowsLog
      BY <1>11 DEF IInv, CacheInv
    <3>3. KnowsLog'
      BY <3>2, RowCache
    <3>4. Known(DDLLogs, InitCatalog[DDLLogs]) = LogNames
      BY <3>2, LogColumns
    <3>5. (Known(DDLLogs, InitCatalog[DDLLogs]) = LogNames)'
      BY <3>3, LogColumns, PTL
    <3> QED
      BY <2>1, <2>3, <3>1, <3>4, <3>5 DEF Known, LogNames
  <2> QED
    BY <2>2, <2>3
<1>17. LastInv'
  <2>1. e.change.table = row.table /\ e.change.op = row.op
    BY <1>12 DEF FaithfulTo
  <2>2. ~LogIn(wal'[pos'.tx], (e.num + 1)..(pos'.num - 1))
    <3>1. (e.num + 1)..(pos'.num - 1) = {}
      BY <1>4, <1>11
    <3> QED
      BY <3>1 DEF LogIn
  <2>3. wal'[e.lsn][e.num] = row /\ e.lsn = pos'.tx /\ e.num < pos'.num
    BY <1>2, <1>3, <1>4, <1>8, <1>11
  <2>4. e.whole /\ e.change.op = "I" =>
          {g.name : g \in e.change.new} = Known(e.change.table, wal[e.lsn][e.num].shape)'
    BY <1>16, <2>1, <2>3 DEF Known
  <2> SUFFICES ASSUME consistent', Last(topic') = e
               PROVE  LastInv'
    BY <1>15 DEF LastInv
  <2>5. e.whole => KnowsLog'
    BY <1>11, RowCache DEF IInv, CacheInv
  <2> QED
    BY <2>2, <2>3, <2>4, <2>5 DEF LastInv, IsChange, NoChange, Row, Known, LogIn
<1> QED
  BY <1>15, <1>17

LEMMA DecodeChangeStep ==
  ASSUME IInv, DecodeChange
  PROVE  IInv'
<1>1. \/ SilentStep(Item, DecodedChange(Item))
      \/ MessageStep(Item, DecodedChange(Item))
  BY DecodeChangeFacts
<1>2. TopicInv' /\ LastInv' /\ BatchesUniform'
  BY <1>1, RowSilent, RowEmitted
<1>3. StartInv'
  <2>1. proc' = "up"
    BY DecodeChangeFacts, AtRowFacts
  <2> QED
    BY <2>1 DEF StartInv
<1> QED
  BY <1>2, <1>3, RowProc, RowCache DEF IInv

-----------------------------------------------------------------------------
(* The numbers.                                                             *)

LEMMA DueFacts ==
  ASSUME PgInv, NEW l \in DOMAIN wal
  PROVE  /\ Len(wal[l]) \in Nat /\ l \in Nat /\ l >= 1
         /\ Due(l) \subseteq 0..(Len(wal[l]) + 1)
         /\ 0 \in Due(l) /\ Len(wal[l]) + 1 \in Due(l)
<1>1. Len(wal[l]) \in Nat /\ DOMAIN wal[l] = 1..Len(wal[l]) /\ l \in Nat /\ l >= 1
  BY LogFacts
<1> QED
  BY <1>1 DEF Due

\* Every item that is due gets the number after the one before it.
LEMMA RankFacts ==
  ASSUME PgInv, NEW l \in DOMAIN wal
  PROVE  /\ Rank(l, 0) = 0
         /\ \A n \in Nat : Rank(l, n) \in Nat
         /\ \A n \in Nat : Rank(l, n + 1) = Rank(l, n) + (IF n + 1 \in Due(l) THEN 1 ELSE 0)
         /\ \A m, n \in Nat : m <= n => Rank(l, m) <= Rank(l, n)
         /\ \A m, n \in Nat : m < n /\ n \in Due(l) => Rank(l, m) < Rank(l, n)
<1> DEFINE D(n) == {i \in Due(l) : 0 < i /\ i <= n}
<1>1. Due(l) \subseteq Nat
  BY DueFacts
<1>2. \A n \in Nat : IsFiniteSet(D(n)) /\ Cardinality(D(n)) \in Nat
  <2> SUFFICES ASSUME NEW n \in Nat PROVE IsFiniteSet(D(n)) /\ Cardinality(D(n)) \in Nat
    OBVIOUS
  <2>1. D(n) \in SUBSET Nat /\ \A i \in D(n) : i <= n
    BY <1>1
  <2> HIDE DEF D
  <2>2. IsFiniteSet(D(n))
    BY <2>1, FS_BoundedSetOfNaturals
  <2> QED
    BY <2>2, FS_CardinalityType
<1>3. \A n \in Nat : Rank(l, n) = Cardinality(D(n))
  BY DEF Rank
<1>4. D(0) = {}
  BY <1>1
<1>5. \A n \in Nat : /\ n + 1 \in Due(l) => D(n + 1) = D(n) \cup {n + 1} /\ n + 1 \notin D(n)
                     /\ n + 1 \notin Due(l) => D(n + 1) = D(n)
  BY <1>1
<1>6. \A m, n \in Nat : m <= n => D(m) \in SUBSET D(n)
  BY <1>1
<1> HIDE DEF D
<1>7. Rank(l, 0) = 0
  BY <1>3, <1>4, FS_EmptySet
<1>8. ASSUME NEW n \in Nat
      PROVE  Rank(l, n + 1) = Rank(l, n) + (IF n + 1 \in Due(l) THEN 1 ELSE 0)
  <2>1. CASE n + 1 \in Due(l)
    <3>1. Cardinality(D(n) \cup {n + 1}) = Cardinality(D(n)) + 1
      BY <1>2, <1>5, <2>1, FS_AddElement
    <3> QED
      BY <1>3, <1>5, <2>1, <3>1
  <2>2. CASE n + 1 \notin Due(l)
    BY <1>2, <1>3, <1>5, <2>2
  <2> QED
    BY <2>1, <2>2
<1>9. ASSUME NEW m \in Nat, NEW n \in Nat, m <= n
      PROVE  Rank(l, m) <= Rank(l, n)
  <2>1. D(m) \in SUBSET D(n) /\ IsFiniteSet(D(n))
    BY <1>2, <1>6, <1>9
  <2>2. Cardinality(D(m)) <= Cardinality(D(n))
    BY <2>1, FS_Subset
  <2> QED
    BY <1>3, <2>2
<1>10. ASSUME NEW m \in Nat, NEW n \in Nat, m < n, n \in Due(l)
       PROVE  Rank(l, m) < Rank(l, n)
  <2>1. PICK k \in Nat : k + 1 = n
    <3>1. n - 1 \in Nat /\ (n - 1) + 1 = n
      BY <1>10
    <3> QED
      BY <3>1
  <2>2. Rank(l, n) = Rank(l, k) + 1
    BY <1>8, <1>10, <2>1
  <2>3. m <= k
    BY <1>10, <2>1
  <2>4. Rank(l, m) <= Rank(l, k) /\ Rank(l, m) \in Nat /\ Rank(l, k) \in Nat
    BY <1>2, <1>3, <1>9, <2>3
  <2> QED
    BY <2>2, <2>4
<1> QED
  BY <1>2, <1>3, <1>7, <1>8, <1>9, <1>10

\* What has been committed stays due, with its numbers; a transaction can only
\* cease to be steady.
LEMMA DueStays ==
  ASSUME PgInv, LogGrows, guessed \subseteq guessed', NEW l \in DOMAIN wal
  PROVE  /\ l \in DOMAIN wal' /\ wal'[l] = wal[l] /\ Due(l)' = Due(l)
         /\ \A n : Rank(l, n)' = Rank(l, n)
         /\ Steady(l)' => Steady(l)
<1>1. l \in DOMAIN wal' /\ wal'[l] = wal[l]
  BY DEF LogGrows
<1>2. Due(l)' = Due(l)
  BY <1>1 DEF Due
<1>3. \A n : Rank(l, n)' = Rank(l, n)
  BY <1>2 DEF Rank
<1>4. ASSUME Steady(l)' PROVE Steady(l)
  <2>1. l \notin guessed
    BY <1>4 DEF Steady
  <2> SUFFICES ASSUME NEW i \in Due(l) \cap DOMAIN wal[l]
               PROVE  Said(wal[l][i], {d \in ToSet(wal[l][i].shape) : Remains(l, wal[l][i].table, d.name)})
                        # [old |-> {}, new |-> {}]
    BY <2>1 DEF Steady
  <2>2. PICK row \in {wal[l][i]} : row = wal[l][i]
    OBVIOUS
  <2> DEFINE now == {d \in ToSet(row.shape) : Remains(l, row.table, d.name)}
             then == {d \in ToSet(row.shape) : Remains(l, row.table, d.name)'}
             later(r) == {d \in ToSet(r.shape) : \A k \in (l + 1)..Len(catalogs') :
                            \E j \in DOMAIN catalogs'[k][r.table] :
                              catalogs'[k][r.table][j].name = d.name}
  <2>3. Said(row, then) # [old |-> {}, new |-> {}]
    <3>1. \A j \in Due(l)' \cap DOMAIN wal'[l] :
            Said(wal'[l][j], later(wal'[l][j])) # [old |-> {}, new |-> {}]
      BY <1>4 DEF Steady, Remains, Since
    <3>2. later(row) = then
      BY DEF Remains, Since
    <3> HIDE DEF later, then
    <3>3. i \in Due(l)' \cap DOMAIN wal'[l] /\ wal'[l][i] = row
      BY <1>1, <1>2, <2>2
    <3> QED
      BY <3>1, <3>2, <3>3
  <2>4. then \subseteq now
    BY RemainsShrinks
  <2> HIDE DEF now, then
  <2>5. Said(row, then).old \subseteq Said(row, now).old /\ Said(row, then).new \subseteq Said(row, now).new
    BY <2>4, SaidShrinks
  <2>6. Said(row, then) = [old |-> Said(row, then).old, new |-> Said(row, then).new]
    BY DEF Said
  <2>7. Said(row, now) # [old |-> {}, new |-> {}]
    BY <2>3, <2>5, <2>6
  <2> QED
    BY <2>2, <2>7 DEF now
<1> QED
  BY <1>1, <1>2, <1>3, <1>4

\* A row that the cache serves makes a message only if it says something, and
\* does make one if it says something of a column that remains.
LEMMA MessageMade ==
  ASSUME NEW l, NEW row, RowOK(row), Told(row), Serves(l, row)
  PROVE  /\ ~Says(row) => DecodedChange(row).old = {} /\ DecodedChange(row).new = {}
         /\ Said(row, {d \in ToSet(row.shape) : Remains(l, row.table, d.name)})
              # [old |-> {}, new |-> {}]
            => DecodedChange(row).old # {} \/ DecodedChange(row).new # {}
<1> DEFINE c == DecodedChange(row)
           left == {d \in ToSet(row.shape) : Remains(l, row.table, d.name)}
<1>1. ASSUME ~Says(row) PROVE c.old = {} /\ c.new = {}
  <2> DEFINE all == Said(row, ToSet(row.shape))
  <2>1. all.old = {} /\ all.new = {}
    BY <1>1 DEF Says
  <2>2. FaithfulTo(l, row, c, FALSE)
    BY ChangeFaithful
  <2> HIDE DEF all, c
  <2>3. Values(c.old) \subseteq Values(all.old) /\ Values(c.new) \subseteq Values(all.new)
    BY <2>2 DEF FaithfulTo, all
  <2>4. Values({}) = {} /\ \A S : S # {} => Values(S) # {}
    BY DEF Values
  <2> QED
    BY <2>1, <2>3, <2>4
<1>2. ASSUME NEW p \in WireParts, DOMAIN p.tuple = DOMAIN row.shape, NEW b \in BOOLEAN,
             NEW f \in Fields(row, left, {p}), f.format # "u", b => f.format \in {"b", "t"}
      PROVE  PartFields(row, p, b) # {}
  <2>1. PICK i \in DOMAIN row.shape : row.shape[i] \in left /\ f.format = p.tuple[i]
    BY DEF Fields
  <2>2. types[row.table][row.shape[i].name] # Missing
    BY <2>1 DEF Serves
  <2>3. i \in Shown(row, p, b)
    BY <1>2, <2>1, <2>2 DEF Shown
  <2> QED
    BY <2>3 DEF PartFields
<1> HIDE DEF left
<1>3. ASSUME Said(row, left) # [old |-> {}, new |-> {}]
      PROVE  c.old # {} \/ c.new # {}
  <2> HIDE DEF c
  <2>1. /\ \/ OldParts(row) = {} /\ c.old = {}
           \/ \E p \in WireParts : /\ DOMAIN p.tuple = DOMAIN row.shape /\ OldParts(row) = {p}
                                    /\ c.old = PartFields(row, p, TRUE)
        /\ \/ NewParts(row) = {} /\ c.new = {}
           \/ \E p \in WireParts : /\ DOMAIN p.tuple = DOMAIN row.shape /\ NewParts(row) = {p}
                                    /\ c.new = PartFields(row, p, FALSE)
    BY ChangeDecoded DEF c
  <2>2. \/ \E f \in Fields(row, left, OldParts(row)) : f.format \in {"b", "t"}
        \/ \E f \in Fields(row, left, NewParts(row)) : f.format # "u"
    BY <1>3 DEF Said
  <2>3. Fields(row, left, {}) = {}
    BY DEF Fields
  <2>4. CASE \E f \in Fields(row, left, OldParts(row)) : f.format \in {"b", "t"}
    <3>1. PICK f \in Fields(row, left, OldParts(row)) : f.format \in {"b", "t"}
      BY <2>4
    <3>2. PICK p \in WireParts : /\ DOMAIN p.tuple = DOMAIN row.shape /\ OldParts(row) = {p}
                                  /\ c.old = PartFields(row, p, TRUE)
      BY <2>1, <2>3, <3>1
    <3> QED
      BY <1>2, <3>1, <3>2
  <2>5. CASE \E f \in Fields(row, left, NewParts(row)) : f.format # "u"
    <3>1. PICK f \in Fields(row, left, NewParts(row)) : f.format # "u"
      BY <2>5
    <3>2. PICK p \in WireParts : /\ DOMAIN p.tuple = DOMAIN row.shape /\ NewParts(row) = {p}
                                  /\ c.new = PartFields(row, p, FALSE)
      BY <2>1, <2>3, <3>1
    <3> QED
      BY <1>2, <3>1, <3>2
  <2> QED
    BY <2>2, <2>4, <2>5
<1> QED
  BY <1>1, <1>3 DEF left

\* Of a steady transaction exactly the rows that are due make a message,
\* whichever catalog the types were read from.
LEMMA RowDue ==
  ASSUME IInv, DecodeChange, NEW l \in DOMAIN wal, l = pos.tx, Steady(l)'
  PROVE  /\ SilentStep(Item, DecodedChange(Item)) => pos.num \notin Due(l)
         /\ MessageStep(Item, DecodedChange(Item)) => pos.num \in Due(l)
<1>1. /\ AtRow /\ RowOK(Item) /\ Told(Item) /\ UNCHANGED pgVars
      /\ guessed' = (IF whole THEN guessed ELSE guessed \cup {pos.tx})
  BY DecodeChangeFacts
<1>2. /\ pos.tx \in DOMAIN wal /\ pos.num \in DOMAIN wal[pos.tx] /\ Item = wal[pos.tx][pos.num]
      /\ Len(wal[pos.tx]) \in Nat /\ DOMAIN wal[pos.tx] = 1..Len(wal[pos.tx])
  BY <1>1, AtRowFacts
<1>3. whole /\ Steady(l)
  <2>1. whole
    BY <1>1 DEF Steady
  <2>2. Steady(l)
    BY <1>1, Grows, DueStays DEF IInv, pgVars
  <2> QED
    BY <2>1, <2>2
<1>4. Serves(pos.tx, Item)
  BY <1>1, <1>3, KnowsRow
<1>5. pos.num \in Due(l) <=> Item.table # Sources /\ Says(Item)
  BY <1>2 DEF Due, Ignore
<1>6. pos.num \in Due(l) =>
        Said(Item, {d \in ToSet(Item.shape) : Remains(pos.tx, Item.table, d.name)})
          # [old |-> {}, new |-> {}]
  BY <1>2, <1>3 DEF Steady
<1>7. /\ ~Says(Item) => DecodedChange(Item).old = {} /\ DecodedChange(Item).new = {}
      /\ pos.num \in Due(l) => DecodedChange(Item).old # {} \/ DecodedChange(Item).new # {}
  <2>1. PICK row, tx : row = Item /\ tx = pos.tx
    OBVIOUS
  <2>2. RowOK(row) /\ Told(row) /\ Serves(tx, row)
    BY <1>1, <1>4, <2>1
  <2>3. /\ ~Says(row) => DecodedChange(row).old = {} /\ DecodedChange(row).new = {}
        /\ Said(row, {d \in ToSet(row.shape) : Remains(tx, row.table, d.name)})
             # [old |-> {}, new |-> {}]
           => DecodedChange(row).old # {} \/ DecodedChange(row).new # {}
    BY <2>2, MessageMade
  <2> QED
    BY <1>6, <2>1, <2>3
<1> QED
  BY <1>5, <1>7 DEF SilentStep, MessageStep

\* The messages of a transaction are the topic's business only.
LEMMA NumsFacts ==
  ASSUME NEW l
  PROVE  /\ \A i \in DOMAIN topic : topic[i].lsn = l => i \in Mine(l) /\ topic[i].num \in Nums(l)
         /\ \A n \in Nums(l) : \E i \in DOMAIN topic : topic[i].lsn = l /\ topic[i].num = n
         /\ \A i \in Mine(l) : i \in DOMAIN topic /\ topic[i].lsn = l
BY DEF Mine, Nums

LEMMA LastFacts ==
  ASSUME PgInv, TopicInv
  PROVE  /\ Len(topic) \in Nat /\ DOMAIN topic = 1..Len(topic)
         /\ topic # <<>> => /\ Len(topic) \in DOMAIN topic /\ Last(topic) = topic[Len(topic)]
                            /\ 1..Last(topic).lsn \subseteq DOMAIN wal
                            /\ Last(topic).lsn \in 1..Last(topic).lsn
                            /\ topic[1].lsn \in Nat /\ topic[1].lsn >= 1 /\ 1 \in DOMAIN topic
                            /\ topic[1].lsn..Last(topic).lsn \subseteq DOMAIN wal
         /\ \A i \in DOMAIN topic : /\ topic[i].lsn \in DOMAIN wal /\ topic[i].lsn \in Nat
                                    /\ topic[i].seq \in Nat /\ topic[i].num \in Nat
<1>1. topic \in Seq(Messages) /\ \A i \in DOMAIN topic : MessageOK(topic[i])
  BY DEF TopicInv
<1>2. /\ Len(topic) \in Nat /\ DOMAIN topic = 1..Len(topic)
      /\ \A i \in DOMAIN topic : topic[i] \in Messages
      /\ topic # <<>> => Len(topic) \in DOMAIN topic
  BY <1>1, SeqFacts
<1>3. \A i \in DOMAIN topic : topic[i].lsn \in DOMAIN wal /\ topic[i].lsn \in Nat
                              /\ topic[i].seq \in Nat /\ topic[i].num \in Nat
  BY <1>1, <1>2 DEF MessageOK, Messages
<1>4. Len(wal) \in Nat /\ DOMAIN wal = 1..Len(wal)
  BY LogFacts
<1>5. Last(topic) = topic[Len(topic)]
  BY DEF Last
<1>6. topic # <<>> => 1 \in DOMAIN topic /\ topic[1].lsn \in Nat /\ topic[1].lsn >= 1
  BY <1>2, <1>3, <1>4
<1> QED
  BY <1>2, <1>3, <1>4, <1>5, <1>6

\* The first message and the last.
LEMMA FirstFacts ==
  ASSUME PgInv, TopicInv, NumberInv
  PROVE  \A i \in DOMAIN topic : topic # <<>> /\ topic[i].lsn \in topic[1].lsn..Last(topic).lsn
<1> SUFFICES ASSUME NEW i \in DOMAIN topic
             PROVE  topic # <<>> /\ topic[i].lsn \in topic[1].lsn..Last(topic).lsn
  OBVIOUS
<1>1. topic # <<>>
  BY EmptyFacts
<1>2. /\ Len(topic) \in DOMAIN topic /\ Last(topic) = topic[Len(topic)] /\ 1 \in DOMAIN topic
      /\ Len(topic) \in Nat /\ DOMAIN topic = 1..Len(topic)
      /\ \A j \in DOMAIN topic : topic[j].lsn \in Nat
  BY <1>1, LastFacts
<1>3. topic[1].lsn <= topic[i].lsn
  <2>1. i = 1 \/ 1 < i
    BY <1>2
  <2> QED
    BY <1>2, <2>1 DEF NumberInv
<1>4. topic[i].lsn <= topic[Len(topic)].lsn
  <2>1. i = Len(topic) \/ i < Len(topic)
    BY <1>2
  <2> QED
    BY <1>2, <2>1 DEF NumberInv
<1> QED
  BY <1>1, <1>2, <1>3, <1>4

\* Nothing is published.
LEMMA NumberKept ==
  ASSUME PgInv, TopicInv, NumberInv, LogGrows, guessed \subseteq guessed', topic' = topic
  PROVE  NumberInv'
<1>1. \A l : Mine(l)' = Mine(l) /\ Nums(l)' = Nums(l)
  BY DEF Mine, Nums
<1>2. /\ Len(topic) \in Nat /\ DOMAIN topic = 1..Len(topic)
      /\ topic # <<>> => topic[1].lsn..Last(topic).lsn \subseteq DOMAIN wal
      /\ \A i \in DOMAIN topic : topic[i].lsn \in DOMAIN wal
  BY LastFacts
<1>3. \A l \in DOMAIN wal : /\ Due(l)' = Due(l) /\ (\A n : Rank(l, n)' = Rank(l, n))
                            /\ Steady(l)' => Steady(l)
  BY DueStays
<1>4. ASSUME NEW l \in DOMAIN wal', NEW n \in Nat, Steady(l)', NEW i \in Mine(l),
             topic[i].num = n
      PROVE  topic[i].seq = Rank(l, n)'
  <2>1. l \in DOMAIN wal
    BY <1>2 DEF Mine
  <2> QED
    BY <1>3, <1>4, <2>1 DEF NumberInv
<1>5. ReplayKeepsNumbers'
  <2> SUFFICES ASSUME topic # <<>>, NEW l \in topic[1].lsn..Last(topic).lsn, Steady(l)'
               PROVE  /\ \A i, j \in Mine(l) : i < j => topic[i].num < topic[j].num
                      /\ Nums(l) \subseteq Due(l)
                      /\ \A d \in Due(l) \ Nums(l) : l = Last(topic).lsn /\ \A n \in Nums(l) : n < d
    BY <1>1, <1>2, <1>3 DEF ReplayKeepsNumbers
  <2> QED
    BY <1>2, <1>3 DEF NumberInv, ReplayKeepsNumbers
<1>6. \A i, j \in DOMAIN topic' : i < j => topic'[i].lsn <= topic'[j].lsn
  BY DEF NumberInv
<1> QED
  BY <1>1, <1>4, <1>5, <1>6 DEF NumberInv

\* PostgreSQL goes on, and the process does nothing that concerns the numbers.
LEMMA NumbersWait ==
  ASSUME IInv, NumInv, PgInv', PgCommit \/ UNCHANGED <<wal, catalogs>>,
         UNCHANGED <<proc, pos, currentSeq, prev, consistent, topic, guessed>>
  PROVE  NumInv'
<1>1. /\ PgInv /\ ProcInv /\ TopicInv /\ NumberInv /\ LogGrows
      /\ proc' = proc /\ pos' = pos /\ currentSeq' = currentSeq /\ prev' = prev
      /\ consistent' = consistent /\ topic' = topic /\ guessed \subseteq guessed'
  BY Grows DEF IInv, NumInv
<1>2. NumberInv'
  BY <1>1, NumberKept
<1>3. ReplayInv'
  <2> SUFFICES ASSUME proc = "up"
               PROVE  BehindPublished' /\ NoneAhead' /\ Replaying' /\ Counted'
    BY <1>1 DEF ReplayInv
  <2>1. BehindPublished /\ NoneAhead /\ Replaying /\ Counted
    BY DEF NumInv, ReplayInv
  <2>2. \A l \in DOMAIN wal : /\ Due(l)' = Due(l) /\ (\A n : Rank(l, n)' = Rank(l, n))
                              /\ Steady(l)' => Steady(l)
    BY <1>1, DueStays
  <2>3. \A l : Nums(l)' = Nums(l) /\ \A n : Behind(l, n)' <=> Behind(l, n)
    BY <1>1 DEF Mine, Nums, Behind
  <2>4. pos.tx \in Nat /\ pos.num \in Nat
        /\ \A l \in DOMAIN wal' : l \notin DOMAIN wal =>
             l \in Nat /\ l >= pos.tx /\ (l = pos.tx => pos.num = 0)
    <3>1. Len(wal) \in Nat /\ DOMAIN wal = 1..Len(wal)
      BY <1>1, LogFacts
    <3>2. \A l \in DOMAIN wal' : l \notin DOMAIN wal => l = Len(wal) + 1
      BY <1>1, CommitFacts
    <3>3. /\ pos.tx \in Nat /\ pos.num \in Nat /\ pos.tx <= Len(wal) + 1
          /\ (pos.tx = Len(wal) + 1 => pos.num = 0)
      BY <1>1, <3>1 DEF ProcInv
    <3> QED
      BY <3>1, <3>2, <3>3
  <2>5. \A l \in DOMAIN wal' : \A n \in Due(l)' : n \in Nat
    <3>1. \A l \in DOMAIN wal' : DOMAIN wal'[l] \subseteq Nat /\ Len(wal'[l]) \in Nat
      BY SeqFacts DEF PgInv
    <3> QED
      BY <3>1 DEF Due
  <2>6. BehindPublished'
    <3> SUFFICES ASSUME topic # <<>>, NEW l \in DOMAIN wal', topic[1].lsn <= l, Steady(l)', NEW n \in Due(l)', Behind(l, n)
                 PROVE  n \in Nums(l)
      BY <1>1, <2>3 DEF BehindPublished
    <3>1. l \in DOMAIN wal
      BY <2>4, <2>5 DEF Behind
    <3> QED
      BY <2>1, <2>2, <3>1 DEF BehindPublished
  <2>7. NoneAhead'
    <3> SUFFICES ASSUME consistent
                 PROVE  /\ \A i \in DOMAIN topic : topic[i].lsn <= pos.tx
                        /\ \A l \in DOMAIN wal' : Steady(l)' /\ pos.tx = l =>
                             \A n \in Nums(l) : n < pos.num
      BY <1>1, <2>3 DEF NoneAhead
    <3>1. \A l \in DOMAIN wal' : \A n \in Nums(l) : l \in DOMAIN wal
      BY <1>1, LastFacts, NumsFacts
    <3> QED
      BY <2>1, <2>2, <3>1 DEF NoneAhead
  <2>8. Replaying'
    BY <1>1, <2>1 DEF Replaying, Last
  <2>9. Counted'
    <3> SUFFICES ASSUME NEW l \in DOMAIN wal', NEW n \in Nat, Steady(l)', pos.tx = l, pos.num = n + 1
                 PROVE  currentSeq = Rank(l, n)'
      BY <1>1 DEF Counted
    <3>1. l \in DOMAIN wal
      BY <2>4
    <3> QED
      BY <2>1, <2>2, <3>1 DEF Counted
  <2> QED
    BY <2>6, <2>7, <2>8, <2>9
<1> QED
  BY <1>2, <1>3 DEF NumInv

\* The process ends, and replays the transaction of the last message when it
\* starts: those before it are complete.
LEMMA NumbersDown ==
  ASSUME IInv, NumInv, Crash \/ Capture
  PROVE  NumInv'
<1>1. proc' # "up" /\ topic' = topic /\ wal' = wal /\ catalogs' = catalogs /\ guessed' = guessed
  BY DEF Crash, Capture, pgVars, sinkVars
<1>2. NumberInv'
  BY <1>1, Grows, NumberKept DEF IInv, NumInv
<1> QED
  BY <1>1, <1>2 DEF NumInv, ReplayInv

LEMMA NumbersStart ==
  ASSUME IInv, NumInv, StartReplication
  PROVE  NumInv'
<1>1. /\ PgInv /\ ProcInv /\ TopicInv /\ NumberInv /\ proc = "starting"
      /\ wal' = wal /\ catalogs' = catalogs /\ topic' = topic /\ consistent' = consistent
      /\ prev' = prev /\ guessed' = guessed
  BY DEF IInv, NumInv, StartReplication, pgVars, sinkVars
<1>2. LogGrows
  BY <1>1, Grows
<1>3. NumberInv'
  BY <1>1, <1>2, NumberKept
<1>4. topic # <<>> => /\ Last(topic).lsn \in Nat /\ Last(topic).lsn # 0
                      /\ topic[1].lsn \in Nat /\ topic[1].lsn..Last(topic).lsn \subseteq DOMAIN wal
  BY <1>1, LastFacts
<1>5. /\ ~consistent /\ pos.num = 0
      /\ IF topic = <<>> THEN prev = [lsn |-> 0, seq |-> 0]
         ELSE prev = [lsn |-> Last(topic).lsn, seq |-> Last(topic).seq] /\ pos.tx = Last(topic).lsn
  BY <1>1 DEF IInv, StartInv
<1>6. pos'.num = 0 /\ (topic # <<>> => pos'.tx = Last(topic).lsn)
  <2>1. PICK tx : (prev.lsn # 0 => tx = pos.tx) /\ pos' = [pos EXCEPT !.tx = tx]
    BY DEF StartReplication
  <2>2. pos \in [tx : Nat \ {0}, num : Nat]
    BY <1>1 DEF ProcInv
  <2>3. pos'.num = pos.num /\ pos'.tx = tx
    BY <2>1, <2>2
  <2> QED
    BY <1>4, <1>5, <2>1, <2>3
<1>7. Replaying'
  BY <1>1, <1>5, <1>6 DEF Replaying
<1>8. \A l \in DOMAIN wal : /\ Due(l)' = Due(l) /\ Due(l) \subseteq Nat /\ l \in Nat
                            /\ Steady(l)' => Steady(l)
  BY <1>1, <1>2, DueStays, DueFacts
<1>9. BehindPublished'
  <2> SUFFICES ASSUME topic # <<>>, NEW l \in DOMAIN wal, topic[1].lsn <= l, Steady(l)',
                      NEW n \in Due(l), Behind(l, n)'
               PROVE  n \in Nums(l)
    BY <1>1, <1>8 DEF BehindPublished, Nums, Mine
  <2>1. l < Last(topic).lsn /\ Steady(l) /\ l \in Nat
    BY <1>6, <1>8 DEF Behind
  <2>2. l \in topic[1].lsn..Last(topic).lsn /\ l # Last(topic).lsn
    BY <1>4, <2>1
  <2> QED
    BY <1>1, <2>1, <2>2 DEF NumberInv, ReplayKeepsNumbers
<1>10. NoneAhead' /\ Counted'
  BY <1>1, <1>5, <1>6 DEF NoneAhead, Counted
<1> QED
  BY <1>3, <1>7, <1>9, <1>10 DEF NumInv, ReplayInv

\* The reader goes past item n of transaction l.
Passes(l, n) ==
  /\ pos.tx = l /\ pos.num = n
  /\ IF n = Len(wal[l]) + 1 THEN pos'.tx = l + 1 /\ pos'.num = 0
                            ELSE pos'.tx = l /\ pos'.num = n + 1

LEMMA BehindGrows ==
  ASSUME PgInv, NEW l \in DOMAIN wal, NEW n \in 0..(Len(wal[l]) + 1), Passes(l, n)
  PROVE  \A k \in DOMAIN wal : \A d \in Due(k) :
           Behind(k, d)' <=> Behind(k, d) \/ (k = l /\ d = n)
<1> SUFFICES ASSUME NEW k \in DOMAIN wal, NEW d \in Due(k)
             PROVE  Behind(k, d)' <=> Behind(k, d) \/ (k = l /\ d = n)
  OBVIOUS
<1>1. /\ k \in Nat /\ l \in Nat /\ Len(wal[l]) \in Nat /\ d \in Nat /\ Len(wal[k]) \in Nat
      /\ d <= Len(wal[k]) + 1 /\ n <= Len(wal[l]) + 1 /\ n \in Nat
  BY DueFacts
<1>2. Behind(k, d) <=> k < l \/ (k = l /\ d < n)
  BY DEF Behind, Passes
<1>3. Behind(k, d)' <=> k < pos'.tx \/ (k = pos'.tx /\ d < pos'.num)
  BY DEF Behind
<1>4. CASE n = Len(wal[l]) + 1
  <2>1. pos'.tx = l + 1 /\ pos'.num = 0
    BY <1>4 DEF Passes
  <2>2. k = l => d <= n
    BY <1>1, <1>4
  <2> QED
    BY <1>1, <1>2, <1>3, <2>1, <2>2
<1>5. CASE n # Len(wal[l]) + 1
  <2>1. pos'.tx = l /\ pos'.num = n + 1
    BY <1>5 DEF Passes
  <2> QED
    BY <1>1, <1>2, <1>3, <2>1
<1> QED
  BY <1>4, <1>5

\* It goes past a row that makes no message, and of a steady transaction is not due.
LEMMA NumbersSkip ==
  ASSUME IInv, NumInv, proc = "up", UNCHANGED <<wal, catalogs, proc, currentSeq, prev, consistent, topic>>,
         NEW l \in DOMAIN wal, NEW n \in DOMAIN wal[l], Passes(l, n),
         guessed \subseteq guessed', Steady(l)' => n \notin Due(l)
  PROVE  NumInv'
<1>1. /\ PgInv /\ TopicInv /\ NumberInv /\ wal' = wal /\ catalogs' = catalogs
      /\ proc' = "up" /\ currentSeq' = currentSeq /\ prev' = prev
      /\ consistent' = consistent /\ topic' = topic
      /\ BehindPublished /\ NoneAhead /\ Replaying /\ Counted
  BY DEF IInv, NumInv, ReplayInv
<1>2. /\ n \in Nat /\ n >= 1 /\ l \in Nat /\ n \in 0..(Len(wal[l]) + 1)
      /\ pos.tx = l /\ pos.num = n /\ pos'.tx = l /\ pos'.num = n + 1
  BY <1>1, LogFacts DEF Passes
<1>3. LogGrows
  BY <1>1, Grows
<1>4. NumberInv'
  BY <1>1, <1>3, NumberKept
<1>5. \A k \in DOMAIN wal : /\ Due(k)' = Due(k) /\ (\A d : Rank(k, d)' = Rank(k, d))
                            /\ Steady(k)' => Steady(k)
  BY <1>1, <1>3, DueStays
<1>6. \A k : Nums(k)' = Nums(k)
  BY <1>1 DEF Nums, Mine
<1>7. BehindPublished'
  <2> SUFFICES ASSUME topic # <<>>, NEW k \in DOMAIN wal, topic[1].lsn <= k, Steady(k), Steady(k)',
                      NEW d \in Due(k), Behind(k, d)'
               PROVE  d \in Nums(k)
    BY <1>1, <1>5, <1>6 DEF BehindPublished
  <2>1. Behind(k, d)
    BY <1>1, <1>2, BehindGrows
  <2> QED
    BY <1>1, <2>1 DEF BehindPublished
<1>8. NoneAhead'
  <2> SUFFICES ASSUME consistent
               PROVE  /\ \A i \in DOMAIN topic : topic[i].lsn <= l
                      /\ Steady(l) => \A m \in Nums(l) : m < n + 1
    BY <1>1, <1>2, <1>5, <1>6 DEF NoneAhead
  <2>1. \A m \in Nums(l) : m \in Nat
    BY <1>1, LastFacts, NumsFacts
  <2> QED
    BY <1>1, <1>2, <2>1 DEF NoneAhead
<1>9. Replaying'
  BY <1>1, <1>2 DEF Replaying, Last
<1>10. Counted'
  <2> SUFFICES ASSUME Steady(l), Steady(l)' PROVE currentSeq = Rank(l, n)
    BY <1>1, <1>2, <1>5 DEF Counted
  <2>1. PICK m \in Nat : m + 1 = n
    <3>1. n - 1 \in Nat /\ (n - 1) + 1 = n
      BY <1>2
    <3> QED
      BY <3>1
  <2>2. Rank(l, n) = Rank(l, m) + 0 /\ Rank(l, m) \in Nat
    BY <1>1, <2>1, RankFacts
  <2>3. currentSeq = Rank(l, m)
    BY <1>1, <1>2, <2>1 DEF Counted
  <2> QED
    BY <2>2, <2>3
<1> QED
  BY <1>1, <1>4, <1>7, <1>8, <1>9, <1>10 DEF NumInv, ReplayInv

\* It goes past an item that makes the message e.
Emits(l, n, e) ==
  /\ e \in Messages /\ e.lsn = l /\ e.num = n
  /\ currentSeq' = e.seq /\ prev' = prev
  /\ consistent' = (consistent \/ After(l, e.seq, prev))
  /\ Published(e, consistent')
  /\ Steady(l)' => n \in Due(l) /\ e.seq = Rank(l, n)

\* The number of the last message of the topic, when it is the one being replayed.
LEMMA LastNumber ==
  ASSUME PgInv, TopicInv, NumberInv, topic # <<>>, Steady(Last(topic).lsn)
  PROVE  \E m \in Nums(Last(topic).lsn) :
           /\ m \in Nat /\ m \in Due(Last(topic).lsn) /\ Last(topic).seq = Rank(Last(topic).lsn, m)
           /\ \A k \in Nums(Last(topic).lsn) : k \in Nat /\ k <= m
<1>1. /\ Len(topic) \in Nat /\ DOMAIN topic = 1..Len(topic)
      /\ Len(topic) \in DOMAIN topic /\ Last(topic) = topic[Len(topic)]
      /\ 1..Last(topic).lsn \subseteq DOMAIN wal
      /\ Last(topic).lsn \in 1..Last(topic).lsn
      /\ \A i \in DOMAIN topic : topic[i].num \in Nat
  BY LastFacts
<1>2. PICK l \in topic[1].lsn..Last(topic).lsn : l = Last(topic).lsn
  BY <1>1, FirstFacts
<1>3. PICK m \in Nat : m = topic[Len(topic)].num
  BY <1>1
<1>4. Len(topic) \in Mine(l) /\ m \in Nums(l)
  BY <1>1, <1>2, <1>3, NumsFacts
<1>5. Steady(l) /\ l \in DOMAIN wal
  BY <1>1, <1>2
<1>6. /\ \A i, j \in Mine(l) : i < j => topic[i].num < topic[j].num
      /\ Nums(l) \subseteq Due(l)
  BY <1>5 DEF NumberInv, ReplayKeepsNumbers
<1>7. Last(topic).seq = Rank(l, m)
  BY <1>1, <1>3, <1>4, <1>5 DEF NumberInv
<1>8. ASSUME NEW k \in Nums(l) PROVE k \in Nat /\ k <= m
  <2>1. PICK i \in DOMAIN topic : topic[i].lsn = l /\ topic[i].num = k
    BY NumsFacts
  <2>2. i \in Mine(l) /\ k \in Nat /\ (i = Len(topic) \/ i < Len(topic))
    BY <1>1, <2>1, NumsFacts
  <2> QED
    BY <1>3, <1>4, <1>6, <2>1, <2>2
<1> QED
  BY <1>2, <1>3, <1>4, <1>6, <1>7, <1>8

\* The message is dropped: then it is in the topic.
LEMMA NumbersDrop ==
  ASSUME IInv, NumInv, proc = "up", UNCHANGED <<wal, catalogs, proc>>,
         guessed \subseteq guessed',
         NEW l \in DOMAIN wal, NEW n \in 0..(Len(wal[l]) + 1), Passes(l, n),
         NEW e, Emits(l, n, e), ~consistent'
  PROVE  NumInv'
<1>1. /\ PgInv /\ TopicInv /\ NumberInv /\ wal' = wal /\ catalogs' = catalogs
      /\ proc' = "up" /\ currentSeq' = e.seq /\ prev' = prev
      /\ ~consistent /\ ~After(l, e.seq, prev) /\ topic' = topic
      /\ BehindPublished /\ Replaying
      /\ e.seq \in Nat /\ (Steady(l)' => n \in Due(l) /\ e.seq = Rank(l, n))
  BY DEF IInv, NumInv, ReplayInv, Emits, Published, Messages
<1>2. LogGrows
  BY <1>1, Grows
<1>3. /\ n \in Nat /\ l \in Nat /\ l >= 1 /\ pos.tx = l /\ pos.num = n /\ Len(wal[l]) \in Nat
  BY <1>1, DueFacts DEF Passes
<1>4. topic # <<>> => Last(topic).lsn \in Nat /\ Last(topic).seq \in Nat
                      /\ Last(topic).lsn \in 1..Last(topic).lsn
  BY <1>1, LastFacts
<1>5. topic # <<>> /\ l = Last(topic).lsn /\ e.seq <= Last(topic).seq
  <2>1. CASE topic = <<>>
    BY <1>1, <1>3, <2>1 DEF Replaying, After
  <2>2. CASE topic # <<>>
    <3>1. prev.lsn = Last(topic).lsn /\ prev.seq = Last(topic).seq
          /\ (l = Last(topic).lsn \/ l = Last(topic).lsn + 1)
      BY <1>1, <1>3, <2>2 DEF Replaying
    <3> QED
      BY <1>1, <1>3, <1>4, <2>2, <3>1 DEF After
  <2> QED
    BY <2>1, <2>2
<1>6. ASSUME Steady(l), Steady(l)' PROVE n \in Nums(l)
  <2>1. PICK m \in Nums(l) : m \in Nat /\ Last(topic).seq = Rank(l, m)
    BY <1>1, <1>5, <1>6, LastNumber
  <2>2. ~(m < n)
    <3>1. m < n => Rank(l, m) < Rank(l, n)
      BY <1>1, <1>3, <1>6, <2>1, RankFacts
    <3>2. Rank(l, m) \in Nat /\ Rank(l, n) \in Nat /\ Rank(l, n) <= Rank(l, m)
      BY <1>1, <1>3, <1>5, <1>6, <2>1, RankFacts
    <3> QED
      BY <3>1, <3>2
  <2>3. n \in Due(l) /\ l \in topic[1].lsn..Last(topic).lsn
    BY <1>1, <1>5, <1>6, FirstFacts, LastFacts
  <2>4. \A d \in Due(l) \ Nums(l) : \A k \in Nums(l) : k < d
    BY <1>1, <1>5, <1>6, <2>3 DEF NumberInv, ReplayKeepsNumbers
  <2> QED
    BY <2>1, <2>2, <2>3, <2>4
<1>7. NumberInv'
  BY <1>1, <1>2, NumberKept
<1>8. \A k \in DOMAIN wal : /\ Due(k)' = Due(k) /\ (\A d : Rank(k, d)' = Rank(k, d))
                            /\ Steady(k)' => Steady(k)
  BY <1>1, <1>2, DueStays
<1>9. BehindPublished'
  <2> SUFFICES ASSUME topic # <<>>, NEW k \in DOMAIN wal, topic[1].lsn <= k, Steady(k), Steady(k)',
                      NEW d \in Due(k), Behind(k, d)'
               PROVE  d \in Nums(k)
    BY <1>1, <1>8 DEF BehindPublished, Nums, Mine
  <2>1. Behind(k, d) \/ (k = l /\ d = n)
    BY <1>1, BehindGrows
  <2> QED
    BY <1>1, <1>6, <2>1 DEF BehindPublished
<1>10. NoneAhead'
  BY DEF NoneAhead
<1>11. Replaying'
  <2>1. pos'.tx = l \/ (pos'.tx = l + 1 /\ pos'.num = 0)
    BY DEF Passes
  <2>2. prev = [lsn |-> Last(topic).lsn, seq |-> Last(topic).seq]
    BY <1>1, <1>5 DEF Replaying
  <2> QED
    BY <1>1, <1>5, <2>1, <2>2 DEF Replaying, Last
<1>12. Counted'
  <2>1. pos'.num = 0 \/ (pos'.tx = l /\ pos'.num = n + 1)
    BY DEF Passes
  <2> QED
    BY <1>1, <1>3, <1>8, <2>1 DEF Counted
<1> QED
  BY <1>1, <1>7, <1>9, <1>10, <1>11, <1>12 DEF NumInv, ReplayInv

\* The message is published: then the topic has nothing that comes after it.
LEMMA NothingAfter ==
  ASSUME IInv, NumInv, proc = "up", UNCHANGED <<wal, catalogs>>, guessed \subseteq guessed',
         NEW l \in DOMAIN wal, NEW n \in 0..(Len(wal[l]) + 1), Passes(l, n),
         NEW e, Emits(l, n, e), consistent'
  PROVE  /\ \A i \in DOMAIN topic : topic[i].lsn <= l
         /\ Steady(l)' => \A k \in Nums(l) : k \in Nat /\ k < n
<1>1. /\ PgInv /\ TopicInv /\ NumberInv
      /\ consistent \/ After(l, e.seq, prev)
      /\ NoneAhead /\ Replaying
      /\ e.seq \in Nat /\ (Steady(l)' => n \in Due(l) /\ e.seq = Rank(l, n))
  BY DEF IInv, NumInv, ReplayInv, Emits, Messages
<1>2. /\ n \in Nat /\ l \in Nat /\ l >= 1 /\ pos.tx = l /\ pos.num = n /\ Len(wal[l]) \in Nat
  BY <1>1, DueFacts DEF Passes
<1>3. /\ Len(topic) \in Nat /\ DOMAIN topic = 1..Len(topic)
      /\ topic # <<>> => Len(topic) \in DOMAIN topic /\ Last(topic) = topic[Len(topic)]
      /\ \A i \in DOMAIN topic : topic[i].lsn \in Nat /\ topic[i].num \in Nat /\ topic[i].seq \in Nat
  BY <1>1, LastFacts
<1>4. \A k \in Nums(l) : k \in Nat
  BY <1>3, NumsFacts
<1>5. Steady(l)' => Steady(l)
  BY <1>1, Grows, DueStays
<1>6. CASE consistent
  BY <1>1, <1>2, <1>4, <1>6, <1>5 DEF NoneAhead
<1>7. CASE ~consistent /\ topic = <<>>
  <2>1. DOMAIN topic = {}
    BY <1>7, EmptyFacts
  <2>2. Nums(l) = {}
    BY <2>1 DEF Nums, Mine
  <2> QED
    BY <2>1, <2>2
<1>8. CASE ~consistent /\ topic # <<>>
  <2>1. \A i \in DOMAIN topic : topic[i].lsn <= Last(topic).lsn
    BY <1>1, <1>3, <1>8 DEF NumberInv
  <2>2. /\ prev.lsn = Last(topic).lsn /\ prev.seq = Last(topic).seq
        /\ l = Last(topic).lsn \/ l = Last(topic).lsn + 1
        /\ Last(topic).lsn \in Nat /\ Last(topic).seq \in Nat
    BY <1>1, <1>2, <1>3, <1>8 DEF Replaying
  <2>3. \A i \in DOMAIN topic : topic[i].lsn <= l
    BY <1>3, <2>1, <2>2
  <2>4. CASE l = Last(topic).lsn + 1
    <3>1. Nums(l) = {}
      BY <1>3, <2>1, <2>2, <2>4, NumsFacts
    <3> QED
      BY <2>3, <3>1
  <2>5. CASE l = Last(topic).lsn /\ Steady(l)'
    <3>1. PICK m \in Nums(l) : /\ m \in Nat /\ Last(topic).seq = Rank(l, m)
                               /\ \A k \in Nums(l) : k \in Nat /\ k <= m
      BY <1>1, <1>8, <1>5, <2>5, LastNumber
    <3>2. Rank(l, n) > Rank(l, m)
      BY <1>1, <1>2, <1>8, <2>2, <2>5, <3>1 DEF After
    <3>3. n <= m => Rank(l, n) <= Rank(l, m)
      BY <1>1, <1>2, <3>1, RankFacts
    <3>4. Rank(l, n) \in Nat /\ Rank(l, m) \in Nat
      BY <1>1, <1>2, <3>1, RankFacts
    <3>5. m < n
      BY <1>2, <3>1, <3>2, <3>3, <3>4
    <3> QED
      BY <1>2, <2>3, <3>1, <3>5
  <2> QED
    BY <2>2, <2>3, <2>4, <2>5
<1> QED
  BY <1>6, <1>7, <1>8

LEMMA NumbersPublish ==
  ASSUME IInv, NumInv, proc = "up", UNCHANGED <<wal, catalogs, proc>>,
         guessed \subseteq guessed',
         NEW l \in DOMAIN wal, NEW n \in 0..(Len(wal[l]) + 1), Passes(l, n),
         NEW e, Emits(l, n, e), consistent'
  PROVE  NumInv'
<1>1. /\ PgInv /\ TopicInv /\ NumberInv /\ wal' = wal /\ catalogs' = catalogs
      /\ proc' = "up" /\ currentSeq' = e.seq /\ topic' = Append(topic, e)
      /\ topic \in Seq(Messages) /\ e \in Messages
      /\ BehindPublished /\ Replaying /\ e.lsn = l /\ e.num = n
      /\ e.seq \in Nat /\ (Steady(l)' => n \in Due(l) /\ e.seq = Rank(l, n))
  BY DEF IInv, NumInv, ReplayInv, Emits, Published, Messages, TopicInv
<1>2. /\ n \in Nat /\ l \in Nat /\ l >= 1 /\ pos.tx = l /\ pos.num = n /\ Len(wal[l]) \in Nat
  BY <1>1, DueFacts DEF Passes
<1>3. /\ Len(topic) \in Nat /\ DOMAIN topic = 1..Len(topic)
      /\ topic # <<>> => Len(topic) \in DOMAIN topic /\ Last(topic) = topic[Len(topic)]
      /\ \A i \in DOMAIN topic : topic[i].lsn \in Nat /\ topic[i].num \in Nat
  BY <1>1, LastFacts
<1> DEFINE new == Len(topic) + 1
<1>4. /\ Len(topic') = new /\ DOMAIN topic' = DOMAIN topic \cup {new} /\ topic' # <<>>
      /\ \A i \in DOMAIN topic : topic'[i] = topic[i]
      /\ topic'[new] = e /\ new \notin DOMAIN topic
  BY <1>1, AppendFacts
<1>5. Last(topic') = e /\ \A i \in DOMAIN topic : i < new
  BY <1>3, <1>4 DEF Last
<1>6. /\ \A i \in DOMAIN topic : topic[i].lsn <= l
      /\ Steady(l)' => \A k \in Nums(l) : k \in Nat /\ k < n
  BY <1>1, NothingAfter
<1> HIDE DEF new
<1>7. IF topic = <<>> THEN topic'[1].lsn = l /\ n = 0 ELSE topic'[1].lsn = topic[1].lsn
  <2>1. CASE topic = <<>>
    <3>1. new = 1
      BY <1>3, <2>1, EmptyFacts DEF new
    <3> QED
      BY <1>1, <1>2, <1>4, <2>1, <3>1 DEF Replaying
  <2>2. CASE topic # <<>>
    BY <1>1, <1>4, <2>2, LastFacts
  <2> QED
    BY <2>1, <2>2
<1>8. \A k : Mine(k)' = Mine(k) \cup (IF k = l THEN {new} ELSE {})
  BY <1>1, <1>4 DEF Mine
<1>9. \A k : Nums(k)' = Nums(k) \cup (IF k = l THEN {n} ELSE {})
  <2>1. \A k : Nums(k)' = {topic'[i].num : i \in Mine(k)'}
    BY DEF Nums
  <2>2. \A k : \A i \in Mine(k) : topic'[i] = topic[i]
    BY <1>4 DEF Mine
  <2>3. topic'[new].num = n
    BY <1>1, <1>4
  <2> QED
    BY <1>8, <2>1, <2>2, <2>3 DEF Nums
<1>10. LogGrows
  BY <1>1, Grows
<1>11. \A k \in DOMAIN wal : /\ Due(k)' = Due(k) /\ (\A d : Rank(k, d)' = Rank(k, d))
                             /\ Steady(k)' => Steady(k)
  BY <1>1, <1>10, DueStays
<1>12. \A i, j \in DOMAIN topic' : i < j => topic'[i].lsn <= topic'[j].lsn
  <2> SUFFICES ASSUME NEW i \in DOMAIN topic', NEW j \in DOMAIN topic', i < j
               PROVE  topic'[i].lsn <= topic'[j].lsn
    OBVIOUS
  <2>1. i \in DOMAIN topic
    BY <1>3, <1>4, <1>5 DEF new
  <2>2. CASE j \in DOMAIN topic
    BY <1>1, <1>4, <2>1, <2>2 DEF NumberInv
  <2>3. CASE j = new
    BY <1>1, <1>4, <1>6, <2>1, <2>3
  <2> QED
    BY <1>4, <2>2, <2>3
<1>13. ASSUME NEW k \in DOMAIN wal, NEW m \in Nat, Steady(k), Steady(k)', NEW i \in Mine(k)', topic'[i].num = m
       PROVE  topic'[i].seq = Rank(k, m)
  <2>1. CASE i \in Mine(k)
    <3>1. topic'[i] = topic[i]
      BY <1>4, <2>1 DEF Mine
    <3> QED
      BY <1>1, <1>13, <2>1, <3>1 DEF NumberInv
  <2>2. CASE k = l /\ i = new
    BY <1>1, <1>4, <1>13, <2>2
  <2> QED
    BY <1>8, <1>13, <2>1, <2>2
<1>14. ASSUME NEW k \in topic'[1].lsn..l, Steady(k), Steady(k)'
       PROVE  /\ \A i, j \in Mine(k)' : i < j => topic'[i].num < topic'[j].num
              /\ Nums(k)' \subseteq Due(k)
              /\ \A d \in Due(k) \ Nums(k)' : k = l /\ \A m \in Nums(k)' : m < d
  <2>1. k \in DOMAIN wal /\ k \in Nat /\ k <= l
    <3>1. topic'[1].lsn \in Nat /\ topic'[1].lsn >= 1
      BY <1>1, <1>2, <1>7, LastFacts
    <3> QED
      BY <1>1, <1>2, <3>1, LogFacts
  <2>2. Mine(k) # {} => topic # <<>> /\ k \in topic[1].lsn..Last(topic).lsn
    BY <1>1, FirstFacts DEF Mine
  <2>3. /\ \A i, j \in Mine(k) : i < j => topic[i].num < topic[j].num
        /\ Nums(k) \subseteq Due(k)
    <3>1. CASE Mine(k) = {}
      BY <3>1 DEF Nums
    <3>2. CASE Mine(k) # {}
      BY <1>1, <1>14, <2>2, <3>2 DEF NumberInv, ReplayKeepsNumbers
    <3> QED
      BY <3>1, <3>2
  <2>4. ASSUME NEW i \in Mine(k)', NEW j \in Mine(k)', i < j
        PROVE  topic'[i].num < topic'[j].num
    <3>1. i \in DOMAIN topic /\ i \in Mine(k) /\ topic'[i] = topic[i]
      <4>1. i \in DOMAIN topic' /\ j \in DOMAIN topic'
        BY DEF Mine
      <4>2. i # new
        BY <1>3, <1>4, <2>4, <4>1 DEF new
      <4> QED
        BY <1>4, <1>8, <2>4, <4>1, <4>2
    <3>2. CASE j \in Mine(k)
      <4>1. topic'[j] = topic[j]
        BY <1>4, <3>2 DEF Mine
      <4> QED
        BY <2>3, <2>4, <3>1, <3>2, <4>1
    <3>3. CASE k = l /\ j = new
      <4>1. topic[i].num \in Nums(l)
        BY <3>1, <3>3 DEF Nums
      <4> QED
        BY <1>1, <1>4, <1>6, <1>14, <3>1, <3>3, <4>1
    <3> QED
      BY <1>8, <2>4, <3>2, <3>3
  <2>5. Nums(k)' \subseteq Due(k)
    BY <1>1, <1>9, <1>14, <2>3
  <2>6. ASSUME NEW d \in Due(k) \ Nums(k)'
        PROVE  k = l /\ \A m \in Nums(k)' : m < d
    <3>1. d \in Nat
      BY <1>1, <2>1, DueFacts
    <3>2. ~Behind(k, d)
      <4>1. CASE topic = <<>>
        BY <1>2, <1>14, <1>7, <2>1, <3>1, <4>1 DEF Behind
      <4>2. CASE topic # <<>>
        <5>1. topic[1].lsn <= k
          BY <1>2, <1>3, <1>14, <1>7, <4>2
        <5> QED
          BY <1>1, <1>9, <1>14, <2>1, <2>6, <4>2, <5>1 DEF BehindPublished
      <4> QED
        BY <4>1, <4>2
    <3>3. k = l /\ d >= n /\ d # n
      BY <1>2, <1>9, <2>1, <2>6, <3>2, <3>1 DEF Behind
    <3> QED
      BY <1>2, <1>6, <1>9, <1>14, <3>1, <3>3
  <2> QED
    BY <2>4, <2>5, <2>6
<1>15. ReplayKeepsNumbers'
  <2>1. topic'[1].lsn..l \subseteq DOMAIN wal
    <3>1. topic'[1].lsn \in Nat /\ topic'[1].lsn >= 1
      BY <1>1, <1>2, <1>7, LastFacts
    <3> QED
      BY <1>1, <1>2, <3>1, LogFacts
  <2> SUFFICES ASSUME NEW k \in topic'[1].lsn..l, Steady(k), Steady(k)'
               PROVE  /\ \A i, j \in Mine(k)' : i < j => topic'[i].num < topic'[j].num
                      /\ Nums(k)' \subseteq Due(k)
                      /\ \A d \in Due(k) \ Nums(k)' : k = l /\ \A m \in Nums(k)' : m < d
    <3> SUFFICES ASSUME NEW k \in topic'[1].lsn..Last(topic').lsn, Steady(k)'
                 PROVE  /\ \A i, j \in Mine(k)' : i < j => topic'[i].num < topic'[j].num
                        /\ Nums(k)' \subseteq Due(k)'
                        /\ \A d \in Due(k)' \ Nums(k)' :
                             k = Last(topic').lsn /\ \A m \in Nums(k)' : m < d
      BY DEF ReplayKeepsNumbers
    <3>1. k \in topic'[1].lsn..l /\ Last(topic').lsn = l
      BY <1>1, <1>5
    <3>2. Steady(k) /\ Due(k)' = Due(k)
      BY <1>11, <2>1, <3>1
    <3> QED
      BY <3>1, <3>2
  <2> QED
    BY <1>14
<1>16. NumberInv'
  <2>1. \A k \in DOMAIN wal', m \in Nat : Steady(k)' =>
          \A i \in Mine(k)' : topic'[i].num = m => topic'[i].seq = Rank(k, m)'
    <3> SUFFICES ASSUME NEW k \in DOMAIN wal', NEW m \in Nat, Steady(k)',
                        NEW i \in Mine(k)', topic'[i].num = m
                 PROVE  topic'[i].seq = Rank(k, m)'
      OBVIOUS
    <3>1. k \in DOMAIN wal /\ Steady(k) /\ Rank(k, m)' = Rank(k, m)
      BY <1>1, <1>11
    <3>2. topic'[i].seq = Rank(k, m)
      BY <1>13, <3>1
    <3> QED
      BY <3>1, <3>2
  <2> QED
    BY <1>12, <1>15, <2>1 DEF NumberInv
<1>17. BehindPublished'
  <2> SUFFICES ASSUME NEW k \in DOMAIN wal, topic'[1].lsn <= k, Steady(k), Steady(k)',
                      NEW d \in Due(k), Behind(k, d)'
               PROVE  d \in Nums(k)'
    BY <1>1, <1>11 DEF BehindPublished
  <2>1. Behind(k, d) \/ (k = l /\ d = n)
    BY <1>1, BehindGrows
  <2>2. CASE k = l /\ d = n
    BY <1>9, <2>2
  <2>3. CASE Behind(k, d)
    <3>1. topic # <<>>
      <4>1. k \in Nat /\ d \in Nat
        BY <1>1, DueFacts
      <4> QED
        BY <1>2, <1>7, <2>3, <4>1 DEF Behind
    <3> QED
      BY <1>1, <1>9, <1>7, <2>3, <3>1 DEF BehindPublished
  <2> QED
    BY <2>1, <2>2, <2>3
<1>18. pos'.tx \in {l, l + 1} /\ (pos'.tx = l => pos'.num = n + 1)
       /\ (pos'.num = 0 \/ (pos'.tx = l /\ pos'.num = n + 1))
  BY <1>2 DEF Passes
<1>19. NoneAhead'
  <2>1. \A i \in DOMAIN topic' : topic'[i].lsn <= l /\ topic'[i].lsn \in Nat
    BY <1>1, <1>2, <1>3, <1>4, <1>6
  <2>2. \A i \in DOMAIN topic' : topic'[i].lsn <= pos'.tx
    BY <1>2, <1>18, <2>1
  <2>3. ASSUME NEW k \in DOMAIN wal, Steady(k)', pos'.tx = k, NEW m \in Nums(k)'
        PROVE  m < pos'.num
    <3>1. PICK i \in DOMAIN topic' : topic'[i].lsn = k
      BY <2>3 DEF Nums, Mine
    <3>2. k = l /\ pos'.num = n + 1
      BY <1>2, <1>18, <2>1, <2>3, <3>1
    <3> QED
      BY <1>2, <1>6, <1>9, <2>3, <3>2
  <2> QED
    BY <1>1, <1>11, <2>2, <2>3 DEF NoneAhead
<1>20. Replaying'
  BY <1>4 DEF Replaying
<1>21. Counted'
  BY <1>1, <1>2, <1>11, <1>18 DEF Counted
<1> QED
  BY <1>1, <1>16, <1>17, <1>19, <1>20, <1>21 DEF NumInv, ReplayInv

\* An item that makes a message, published or not.
LEMMA NumbersEmit ==
  ASSUME IInv, NumInv, proc = "up", UNCHANGED <<wal, catalogs, proc>>,
         guessed \subseteq guessed',
         NEW l \in DOMAIN wal, NEW n \in 0..(Len(wal[l]) + 1), Passes(l, n),
         NEW seq \in Nat, NEW change \in ChangeRecs, Emit(l, seq, change),
         Steady(l)' => n \in Due(l) /\ seq = Rank(l, n)
  PROVE  NumInv'
<1>1. pos.num = n /\ n \in Nat /\ l \in Nat /\ crashes \in Nat /\ consistent \in BOOLEAN
      /\ whole \in BOOLEAN
  BY LogFacts, DueFacts, DecoderAssumption DEF Passes, IInv, ProcInv
<1> DEFINE m == [lsn |-> l, seq |-> seq, change |-> change, num |-> pos.num, epoch |-> crashes,
                 whole |-> whole]
<1>2. m \in Messages /\ m.lsn = l /\ m.num = n /\ m.seq = seq
  BY <1>1 DEF Messages
<1>3. /\ currentSeq' = seq /\ prev' = prev
      /\ consistent' = (consistent \/ After(l, seq, prev))
      /\ topic' = IF consistent \/ After(l, seq, prev) THEN Append(topic, m) ELSE topic
  BY DEF Emit
<1> HIDE DEF m
<1>4. PICK e \in Messages : e = m
  BY <1>2
<1>5. Published(e, consistent')
  BY <1>3, <1>4 DEF Published
<1>6. Emits(l, n, e)
  BY <1>2, <1>3, <1>4, <1>5 DEF Emits
<1>7. CASE consistent'
  BY <1>6, <1>7, NumbersPublish
<1>8. CASE ~consistent'
  BY <1>6, <1>8, NumbersDrop
<1> QED
  BY <1>7, <1>8

LEMMA NoChangeType == NoChange \in ChangeRecs
BY DEF NoChange, ChangeRecs

LEMMA NumbersBegin ==
  ASSUME IInv, NumInv, DecodeBegin
  PROVE  NumInv'
<1>1. /\ proc = "up" /\ pos.tx <= Len(wal) /\ pos.num = 0
      /\ Emit(pos.tx, 0, NoChange) /\ pos' = [pos EXCEPT !.num = 1]
      /\ wal' = wal /\ catalogs' = catalogs /\ proc' = proc /\ guessed' = guessed
  BY DEF DecodeBegin, Streaming, pgVars, histVars
<1>2. PgInv /\ pos \in [tx : Nat \ {0}, num : Nat] /\ Len(wal) \in Nat /\ DOMAIN wal = 1..Len(wal)
  BY LogFacts DEF IInv, ProcInv
<1>3. PICK l \in DOMAIN wal : l = pos.tx
  BY <1>1, <1>2
<1>4. Len(wal[l]) \in Nat /\ 0 \in Due(l) /\ Rank(l, 0) = 0
  BY <1>2, DueFacts, RankFacts
<1>5. Passes(l, 0)
  BY <1>1, <1>2, <1>3, <1>4 DEF Passes
<1>6. Emit(l, 0, NoChange)
  BY <1>1, <1>3 DEF Emit
<1>7. 0 \in 0..(Len(wal[l]) + 1)
  BY <1>4
<1> QED
  BY <1>1, <1>4, <1>5, <1>6, <1>7, NoChangeType, NumbersEmit

LEMMA NumbersCommit ==
  ASSUME IInv, NumInv, DecodeCommit
  PROVE  NumInv'
<1>1. /\ proc = "up" /\ pos.tx <= Len(wal) /\ pos.num = Len(wal[pos.tx]) + 1
      /\ Emit(pos.tx, currentSeq + 1, NoChange) /\ pos' = [tx |-> pos.tx + 1, num |-> 0]
      /\ wal' = wal /\ catalogs' = catalogs /\ proc' = proc /\ guessed' = guessed
  BY DEF DecodeCommit, Streaming, pgVars, histVars
<1>2. /\ PgInv /\ pos \in [tx : Nat \ {0}, num : Nat] /\ Len(wal) \in Nat /\ DOMAIN wal = 1..Len(wal)
      /\ currentSeq \in Nat
  BY LogFacts DEF IInv, ProcInv
<1>3. PICK l \in DOMAIN wal : l = pos.tx
  BY <1>1, <1>2
<1>4. PICK k \in Nat : k = Len(wal[l])
  BY <1>2, DueFacts
<1>5. PICK seq \in Nat : seq = currentSeq + 1
  BY <1>2
<1>6. k + 1 \in Due(l) /\ Rank(l, k + 1) = Rank(l, k) + 1
  BY <1>2, <1>4, DueFacts, RankFacts
<1>7. Steady(l)' => currentSeq = Rank(l, k)
  <2>1. Steady(l)' => Steady(l)
    BY <1>1, <1>2, Grows, DueStays
  <2> QED
    BY <1>1, <1>3, <1>4, <2>1 DEF NumInv, ReplayInv, Counted
<1>8. Passes(l, k + 1)
  BY <1>1, <1>2, <1>3, <1>4 DEF Passes
<1>9. Emit(l, seq, NoChange)
  BY <1>1, <1>3, <1>5 DEF Emit
<1>10. k + 1 \in 0..(Len(wal[l]) + 1)
  BY <1>4
<1> QED
  BY <1>1, <1>5, <1>6, <1>7, <1>8, <1>9, <1>10, NoChangeType, NumbersEmit

LEMMA NumbersChange ==
  ASSUME IInv, NumInv, DecodeChange
  PROVE  NumInv'
<1>1. /\ AtRow /\ DecodedChange(Item) \in ChangeRecs /\ UNCHANGED pgVars
      /\ proc' = proc /\ pos' = [pos EXCEPT !.num = @ + 1] /\ guessed \subseteq guessed'
      /\ SilentStep(Item, DecodedChange(Item)) \/ MessageStep(Item, DecodedChange(Item))
  BY DecodeChangeFacts
<1>2. /\ proc = "up" /\ pos.tx \in DOMAIN wal /\ pos.num \in DOMAIN wal[pos.tx]
      /\ pos \in [tx : Nat \ {0}, num : Nat] /\ pos.num > 0 /\ pos.num <= Len(wal[pos.tx])
      /\ Len(wal[pos.tx]) \in Nat /\ currentLsn = pos.tx
  BY <1>1, AtRowFacts
<1>3. PgInv /\ currentSeq \in Nat /\ wal' = wal /\ catalogs' = catalogs
  BY <1>1 DEF IInv, ProcInv, pgVars
<1>4. PICK l \in DOMAIN wal : l = pos.tx
  BY <1>2
<1>5. PICK n \in DOMAIN wal[l] : n = pos.num
  BY <1>2, <1>4
<1>6. n \in Nat /\ n >= 1 /\ n # Len(wal[l]) + 1 /\ n \in 0..(Len(wal[l]) + 1)
  BY <1>2, <1>4, <1>5
<1>7. Passes(l, n)
  BY <1>1, <1>2, <1>4, <1>5, <1>6 DEF Passes
<1>8. Steady(l)' => /\ SilentStep(Item, DecodedChange(Item)) => n \notin Due(l)
                    /\ MessageStep(Item, DecodedChange(Item)) => n \in Due(l)
  BY <1>4, <1>5, RowDue
<1>9. Steady(l)' => Steady(l)
  BY <1>1, <1>3, Grows, DueStays
<1>10. CASE SilentStep(Item, DecodedChange(Item))
  <2>1. currentSeq' = currentSeq /\ prev' = prev /\ consistent' = consistent /\ topic' = topic
    BY <1>10 DEF SilentStep
  <2> QED
    BY <1>1, <1>2, <1>3, <1>7, <1>8, <1>10, <2>1, NumbersSkip
<1>11. CASE MessageStep(Item, DecodedChange(Item))
  <2>1. PICK k \in Nat : k + 1 = n
    <3>1. n - 1 \in Nat /\ (n - 1) + 1 = n
      BY <1>6
    <3> QED
      BY <3>1
  <2>2. Steady(l)' => currentSeq = Rank(l, k)
    BY <1>9, <1>2, <1>4, <1>5, <2>1 DEF NumInv, ReplayInv, Counted
  <2>3. PICK seq \in Nat : seq = currentSeq + 1
    BY <1>3
  <2>4. Steady(l)' => n \in Due(l) /\ seq = Rank(l, n)
    BY <1>3, <1>8, <1>11, <2>1, <2>2, <2>3, RankFacts
  <2>5. PICK change \in ChangeRecs : change = DecodedChange(Item)
    BY <1>1
  <2>6. Emit(l, seq, change)
    BY <1>2, <1>4, <1>11, <2>3, <2>5 DEF MessageStep, Emit
  <2> QED
    BY <1>1, <1>2, <1>3, <1>6, <1>7, <2>4, <2>6, NumbersEmit
<1> QED
  BY <1>1, <1>10, <1>11

-----------------------------------------------------------------------------
(* The theorems.                                                            *)

LEMMA InitInv ==
  ASSUME Init
  PROVE  IInv
<1>1. /\ work = <<>> /\ cat = InitCatalog /\ rows = <<>> /\ wal = <<>>
      /\ catalogs = <<InitCatalog>> /\ proc = "down" /\ types = NewPGXSchemaLoader
      /\ relations = [t \in Tables |-> <<>>] /\ announced = relations
      /\ pos = [tx |-> 1, num |-> 0] /\ currentLsn = 0 /\ currentSeq = 0
      /\ consistent = FALSE /\ topic = <<>> /\ crashes = 0
      /\ breaks = 0 /\ whole = FALSE /\ guessed = {}
  BY DEF Init, Unknown
<1>2. CatalogOK(InitCatalog) /\ InitCatalog \in Catalogs
  BY DecoderAssumption DEF CatalogOK
<1>3. /\ catalogs \in Seq(Catalogs) /\ Len(catalogs) = 1 /\ DOMAIN catalogs = {1}
      /\ catalogs[1] = InitCatalog
  BY <1>1, <1>2
<1>4. wal \in Seq(Seq(WireRows)) /\ Len(wal) = 0 /\ DOMAIN wal = {}
  BY <1>1, EmptyFacts
<1>5. work \in Seq(Writes \cup Alters)
  BY <1>1, EmptyFacts
<1>6. Catalog = InitCatalog
  BY <1>3 DEF Catalog, Last
<1>7. TxOK(Catalog, rows, cat)
  BY <1>1, <1>6, TxStarts
<1>8. PgInv
  BY <1>1, <1>2, <1>3, <1>4, <1>5, <1>7, DecoderAssumption DEF PgInv
<1>9. relations \in [Tables -> Seq(Columns)]
  <2> DEFINE q == <<>>
             Q == Seq(Columns)
  <2>1. q \in Q
    BY EmptyFacts
  <2> HIDE DEF q, Q
  <2>2. [t \in Tables |-> q] \in [Tables -> Q]
    BY <2>1
  <2> QED
    BY <1>1, <2>2 DEF q, Q
<1>10. types \in [Tables -> [Columns -> Oids \cup {Missing}]]
  BY <1>1, LoaderType
<1>11. pos \in [tx : Nat \ {0}, num : Nat] /\ pos.tx = 1 /\ pos.num = 0
  BY <1>1
<1>12. ProcInv
  <2>1. pos.num <= (IF pos.tx <= Len(wal) THEN Len(wal[pos.tx]) + 1 ELSE 0)
        /\ pos.tx <= Len(wal) + 1
    BY <1>4, <1>11
  <2>2. MaxTx \in Nat /\ MaxCrashes \in Nat /\ MaxBreaks \in Nat
    BY DecoderAssumption
  <2>3. currentLsn = 0 /\ currentSeq = 0 /\ crashes = 0 /\ consistent = FALSE /\ proc = "down"
        /\ announced = relations /\ breaks = 0 /\ whole = FALSE /\ guessed = {}
    BY DEF Init
  <2>4. currentLsn \in 0..(MaxTx + 1) /\ currentSeq \in Nat /\ crashes \in 0..MaxCrashes
        /\ breaks \in 0..MaxBreaks /\ whole \in BOOLEAN /\ guessed \subseteq DOMAIN wal
    <3>1. 0 \in 0..(MaxTx + 1) /\ 0 \in Nat /\ 0 \in 0..MaxCrashes /\ 0 \in 0..MaxBreaks
      BY <2>2
    <3> QED
      BY <2>3, <3>1
  <2> QED
    BY <1>9, <1>10, <1>11, <2>1, <2>3, <2>4 DEF ProcInv
<1>13. CacheInv /\ LastInv /\ StartInv
  BY <1>1 DEF CacheInv, LastInv, StartInv
<1>14. topic \in Seq(Messages) /\ DOMAIN topic = {} /\ Len(topic) = 0
  BY <1>1, EmptyFacts
<1>15. TopicInv
  BY <1>14 DEF TopicInv
<1>16. BatchesUniform
  <2>1. 1..(Len(topic) - 1) = {}
    BY <1>14
  <2> QED
    BY <2>1 DEF BatchesUniform
<1> QED
  BY <1>8, <1>12, <1>13, <1>15, <1>16 DEF IInv

\* The inductive invariant holds of every behaviour: what a whole cache knows, and
\* what is published with and without it.
THEOREM InductiveInvariant == Spec => []IInv
<1>1. Init => IInv
  BY InitInv
<1>2. IInv /\ [Next]_vars => IInv'
  <2> SUFFICES ASSUME IInv, [Next]_vars PROVE IInv'
    OBVIOUS
  <2>1. CASE PgBegin \/ PgAlter \/ PgWrite \/ PgRollback
    BY <2>1, PgQuiet
  <2>2. CASE PgCommit
    BY <2>2, PgCommitStep
  <2>3. CASE Capture
    BY <2>3, CaptureStep
  <2>4. CASE StartReplication
    BY <2>4, StartReplicationStep
  <2>5. CASE DecodeBegin
    BY <2>5, DecodeBeginStep
  <2>6. CASE DecodeRelation
    BY <2>6, DecodeRelationStep
  <2>7. CASE DecodeChange
    BY <2>7, DecodeChangeStep
  <2>8. CASE DecodeCommit
    BY <2>8, DecodeCommitStep
  <2>9. CASE Crash
    BY <2>9, CrashStep
  <2>10. CASE UNCHANGED vars
    <3>1. UNCHANGED pgVars /\ UNCHANGED <<wal, catalogs, pgFrame>>
      BY <2>10 DEF vars, pgVars, txVars, pgFrame
    <3>2. PgInv'
      BY <3>1, PgKept DEF IInv
    <3> QED
      BY <3>1, <3>2, ReaderKept
  <2> QED
    BY <2>1, <2>2, <2>3, <2>5, <2>6, <2>7, <2>8, <2>9, <2>10, <2>4 DEF Next
<1> QED
  BY <1>1, <1>2, PTL DEF Spec

\* Type correctness; and the decoder, which is told every relation before a row
\* of it, never returns the error for a relation it does not know (Decode).
THEOREM TypeCorrect == Spec => [](TypeOK /\ proc # "failed")
<1>1. IInv => TypeOK /\ proc # "failed"
  <2> SUFFICES ASSUME IInv PROVE TypeOK /\ proc # "failed"
    OBVIOUS
  <2>1. PgInv /\ ProcInv /\ Len(wal) \in Nat
        /\ \A l \in DOMAIN wal : Len(wal[l]) \in Nat
        /\ DOMAIN wal = 1..Len(wal)
    BY LogFacts DEF IInv
  <2>2. ToSet(catalogs) \subseteq Catalogs
    BY <2>1, SeqFacts DEF PgInv, ToSet
  <2>3. pos.tx \in 1..(Len(wal) + 1)
    BY <2>1 DEF ProcInv
  <2>4. pos.num \in 0..(IF pos.tx <= Len(wal) THEN Len(wal[pos.tx]) + 1 ELSE 0)
    BY <2>1, <2>3 DEF ProcInv
  <2>5. Len(wal) <= MaxTx /\ Len(catalogs) = Len(wal) + 1
    BY <2>1 DEF PgInv
  <2> QED
    BY <2>1, <2>2, <2>3, <2>4, <2>5 DEF ProcInv, TypeOK
<1> QED
  BY <1>1, InductiveInvariant, PTL

\* A message of the topic says nothing that its row does not say, and if the cache
\* was whole it says of the row every column that has kept its name and type since,
\* whatever catalog the types were read from (RefreshType, makePBTuple).
THEOREM MessagesFaithful == Spec => []ChangesFaithful
<1>1. IInv => ChangesFaithful
  BY DEF IInv, TopicInv, MessageOK, FaithfulTo, ChangesFaithful, Row
<1> QED
  BY <1>1, InductiveInvariant, PTL

\* Inserts into one table that follow each other in a transaction, published by
\* one process with a whole cache, have the same columns (flushInsert).
THEOREM InsertBatchesUniform == Spec => []BatchesUniform
<1>1. IInv => BatchesUniform
  BY DEF IInv
<1> QED
  BY <1>1, InductiveInvariant, PTL

\* The second inductive invariant: the topic has the numbers of what is due, and
\* a process counts to the same ones, whatever catalog it has read, where no row
\* was decoded with a cache that is not whole.
THEOREM NumbersInvariant == Spec => []NumInv
<1>1. Init => NumInv
  <2> SUFFICES ASSUME Init PROVE NumInv
    OBVIOUS
  <2>1. proc = "down" /\ topic = <<>> /\ DOMAIN topic = {}
    BY EmptyFacts DEF Init
  <2> QED
    BY <2>1 DEF NumInv, NumberInv, ReplayInv, ReplayKeepsNumbers, Mine
<1>2. IInv /\ IInv' /\ NumInv /\ [Next]_vars => NumInv'
  <2> SUFFICES ASSUME IInv, IInv', NumInv, [Next]_vars PROVE NumInv'
    OBVIOUS
  <2>1. PgInv'
    BY DEF IInv
  <2>2. CASE PgBegin \/ PgAlter \/ PgWrite \/ PgRollback \/ PgCommit \/ DecodeRelation \/ UNCHANGED vars
    <3>1. PgCommit \/ UNCHANGED <<wal, catalogs>>
      BY <2>2 DEF PgBegin, PgAlter, PgWrite, PgRollback, DecodeRelation, vars, pgVars
    <3>2. UNCHANGED <<proc, pos, currentSeq, prev, consistent, topic, guessed>>
      BY <2>2 DEF PgBegin, PgAlter, PgWrite, PgRollback, PgCommit, DecodeRelation, vars, pgFrame,
                  sinkVars, histVars
    <3> QED
      BY <2>1, <3>1, <3>2, NumbersWait
  <2>3. CASE Capture \/ Crash
    BY <2>3, NumbersDown
  <2>4. CASE DecodeBegin
    BY <2>4, NumbersBegin
  <2>5. CASE DecodeChange
    BY <2>5, NumbersChange
  <2>6. CASE DecodeCommit
    BY <2>6, NumbersCommit
  <2>7. CASE StartReplication
    BY <2>7, NumbersStart
  <2> QED
    BY <2>2, <2>3, <2>4, <2>5, <2>6, <2>7 DEF Next
<1> QED
  BY <1>1, <1>2, InductiveInvariant, PTL DEF Spec

\* Of a transaction none of whose changes has lost all of its columns since, and no
\* row of which was decoded with a cache that is not whole, the topic holds each
\* message once and in order, and the whole of it once it holds a later one, for any
\* number of restarts and alterations: Apply drops exactly the messages that are in
\* the topic.
THEOREM ReplayCountsAlike == Spec => []ReplayKeepsNumbers
<1>1. NumInv => ReplayKeepsNumbers
  BY DEF NumInv, NumberInv
<1> QED
  BY <1>1, NumbersInvariant, PTL

=============================================================================
