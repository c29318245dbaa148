-------------------------- MODULE PulsarToPgProofs --------------------------
(***************************************************************************)
(* Proofs about PulsarToPg, for every ordered topic, every size of a batch  *)
(* and any number of crashes: the checkpoint only moves forward, to a       *)
(* Commit of the topic; the buffers of the sink keep their types and        *)
(* bounds; and the target holds exactly what the source had at the          *)
(* checkpoint, for topics without commands.  The last one needs to know     *)
(* what a list of statements does to a database, and what the topic says    *)
(* of the source after each message: both are recursions, treated with the  *)
(* induction of SequenceProofs.                                             *)
(***************************************************************************)
EXTENDS PulsarToPg, SequenceProofs

\* The topic is one of Topics, and pgcapture.sources names a Commit of it.
SourcesInv ==
  /\ topic \in Topics /\ base \in Nat
  /\ sources \in [lsn : Nat, mid : Nat]
  /\ sources # Fresh => /\ sources.mid \in DOMAIN topic
                        /\ topic[sources.mid].type = "commit"
                        /\ topic[sources.mid].lsn = sources.lsn

\* The buffers of the sink.
BufferInv ==
  /\ inserts \in Seq(Record) /\ Len(inserts) <= MaxInserts
  /\ pendingCommits \in Seq(Nat)
  /\ BatchTXSize > 0 => Len(pendingCommits) < BatchTXSize
  /\ crashes \in 0..MaxCrashes

\* Message i is not covered by pgcapture.sources and lies behind the message
\* that it names.
New(i) == topic[i].lsn > Covered /\ i > sources.mid

\* The channel holds messages the reader has passed, in the order of the topic.
ChannelInv ==
  /\ rpos \in 1..(Len(topic) + 1)
  /\ changes \in Seq(DOMAIN topic) /\ Len(changes) <= ChanCap
  /\ \A k \in DOMAIN changes : changes[k] < rpos
  /\ \A j, k \in DOMAIN changes : j < k => changes[j] < changes[k]
  /\ proc \in {"down", "up", "failed"}
  /\ proc = "down" => changes = <<>>
  /\ consistent \in BOOLEAN

\* While a process runs, everything in the channel, and once the reader is
\* consistent everything it will read, is new; before that, nothing was put
\* into the channel and the checkpoint is still the one Capture was given.
NewInv ==
  proc # "down" =>
    /\ \A k \in DOMAIN changes : New(changes[k])
    /\ consistent => \A i \in DOMAIN topic : i >= rpos => New(i)
    /\ ~consistent => changes = <<>> /\ cp = FindCheckpoint

IInv == SourcesInv /\ BufferInv /\ ChannelInv /\ NewInv

\* Everything the sink keeps has its type; the target never holds a failed
\* transaction.
TypeInv ==
  /\ base \in LSNs \cup {0}
  /\ target \in DB /\ ~target.failed
  /\ cp \in [lsn : LSNs \cup {0}, mid : 0..Len(topic)]
  /\ inTX \in BOOLEAN
  /\ skip \subseteq {Table(r) : r \in Rows}
  /\ pendingChanges \in Seq(Statement) /\ pipeline \in Seq(Statement)
  /\ ddl \in Seq(DML \cup DDL)
  /\ ahead \in LSNs \cup {0}

\* The last message that the sink took, or that the reader skipped.
Taken == rpos - 1 - Len(changes)

\* The statements that the next sync would execute.
Sent == pipeline \o Flushed

\* A complete transaction has messages on both sides of the n-th.
Cut(t, n) == \E i \in 1..n, j \in (n + 1)..Len(t) :
               t[i].lsn = t[j].lsn /\ CompleteIn(t, t[i].lsn)

\* Once consistent, the reader puts every message into the channel.
ConsecutiveInv ==
  proc # "down" /\ consistent =>
    Taken \in 0..Len(topic) /\ \A k \in DOMAIN changes : changes[k] = Taken + k

\* What the reader skipped is covered by the checkpoint, or is of transactions
\* without a Begin.
SkippedInv ==
  proc # "down" /\ ~consistent =>
    /\ cp.lsn # 0 => \A i \in 1..(rpos - 1) : topic[i].lsn <= cp.lsn
    /\ cp.lsn = 0 => \A i \in 1..(rpos - 1) : topic[i].type # "begin"

\* Between two transactions nothing is collected, and the pipeline leads to the
\* state of the source at the message taken last.
BetweenInv ==
  /\ inserts = <<>> /\ pendingChanges = <<>>
  /\ ExecAll(target, pipeline) = SourceStates(topic)[Taken]
  /\ ~Cut(topic, Taken)

\* Inside of a transaction that has its Commit, so do the pipeline and what is
\* collected.
InsideInv ==
  /\ Taken > 0 /\ topic[Taken].type # "commit"
  /\ \E b \in 1..Taken : topic[b].type = "begin" /\ topic[b].lsn = topic[Taken].lsn
  /\ CompleteIn(topic, topic[Taken].lsn) => ExecAll(target, Sent) = SourceStates(topic)[Taken]

\* The target is where the checkpoint says: at the end of the n messages that
\* are covered.
TargetInv ==
  \E n \in 0..Len(topic) : /\ \A i \in DOMAIN topic : topic[i].lsn <= Covered <=> i <= n
                           /\ target = SourceStates(topic)[n]

\* Everything between the checkpoint and the message taken last is in the
\* buffers of the sink, and nothing else is.
SinkInv ==
  /\ ddl = <<>> /\ skip = {} /\ proc # "failed"
  /\ TargetInv
  /\ proc = "down" \/ ~consistent =>
       inTX = FALSE /\ inserts = <<>> /\ pendingChanges = <<>> /\ pipeline = <<>>
  /\ proc # "down" /\ consistent => IF inTX THEN InsideInv ELSE BetweenInv

DataInv == ~HasDDL /\ Whole(topic) => SinkInv

\* All of it.
FullInv == IInv /\ TypeInv /\ ConsecutiveInv /\ SkippedInv /\ DataInv

-----------------------------------------------------------------------------
(* The databases.                                                           *)

\* A statement of either database.
AnyStatement == Statement \cup DML \cup DDL

\* The record that a row is found by in a batch is there.
LEMMA FirstFacts ==
  ASSUME NEW q \in Seq(Record), NEW r, \E i \in DOMAIN q : q[i].row = r
  PROVE  /\ First(q, r) \in DOMAIN q /\ q[First(q, r)].row = r
         /\ \A j \in 1..(First(q, r) - 1) : q[j].row # r
<1>1. Len(q) \in Nat /\ DOMAIN q = 1..Len(q)
  BY SeqFacts
<1> DEFINE T == {i \in 0..Len(q) : \A j \in 1..i : q[j].row # r}
<1>2. \E i \in DOMAIN q : q[i].row = r /\ \A j \in 1..(i - 1) : q[j].row # r
  <2> SUFFICES ASSUME \A i \in DOMAIN q : q[i].row = r => \E j \in 1..(i - 1) : q[j].row = r
               PROVE  FALSE
    BY <1>1
  <2>1. 0 \in T
    BY <1>1
  <2>2. ASSUME NEW i \in 1..Len(q), i - 1 \in T PROVE i \in T
    BY <1>1, <2>2
  <2>3. 0..Len(q) \subseteq T
    <3> HIDE DEF T
    <3> QED
      BY <1>1, <2>1, <2>2, IntervalInduction
  <2>4. Len(q) \in T
    BY <1>1, <2>3
  <2> QED
    BY <1>1, <2>4
<1> QED
  BY <1>2 DEF First

\* A row is the first one of its kind in at most one place.
LEMMA FirstIs ==
  ASSUME NEW q \in Seq(Record), NEW i \in DOMAIN q, \A j \in 1..(i - 1) : q[j].row # q[i].row
  PROVE  First(q, q[i].row) = i
<1>1. Len(q) \in Nat /\ DOMAIN q = 1..Len(q)
  BY SeqFacts
<1> DEFINE f == First(q, q[i].row)
<1>2. f \in DOMAIN q /\ q[f].row = q[i].row /\ \A j \in 1..(f - 1) : q[j].row # q[i].row
  BY FirstFacts
<1> HIDE DEF f
<1>3. ~(f < i) /\ ~(i < f)
  BY <1>1, <1>2
<1> QED
  BY <1>1, <1>2, <1>3 DEF f

\* What an insert of several rows leaves in the database.
LEMMA InsertRowsType ==
  ASSUME NEW d \in DB, NEW q \in Seq(Record)
  PROVE  /\ InsertRows(d, q) \in DB /\ InsertRows(d, q).failed = d.failed
         /\ InsertRows(d, q).objects = d.objects
         /\ \A r \in Rows :
              InsertRows(d, q).rows[r] =
                IF d.rows[r] = Absent /\ \E i \in DOMAIN q : q[i].row = r
                THEN q[First(q, r)].val ELSE d.rows[r]
<1> DEFINE rs == [r \in Rows |-> IF d.rows[r] = Absent /\ \E i \in DOMAIN q : q[i].row = r
                                 THEN q[First(q, r)].val ELSE d.rows[r]]
<1>1. rs \in [Rows -> Values \cup {Absent}]
  <2> SUFFICES ASSUME NEW r \in Rows
               PROVE  rs[r] \in Values \cup {Absent}
    OBVIOUS
  <2>1. d.rows[r] \in Values \cup {Absent}
    BY DEF DB
  <2>2. ASSUME \E i \in DOMAIN q : q[i].row = r
        PROVE  q[First(q, r)].val \in Values
    <3>1. First(q, r) \in DOMAIN q
      BY <2>2, FirstFacts
    <3>2. q[First(q, r)] \in Record
      BY <3>1, SeqFacts
    <3> QED
      BY <3>2 DEF Record
  <2> QED
    BY <2>1, <2>2
<1>2. InsertRows(d, q) = [d EXCEPT !.rows = rs]
  BY DEF InsertRows
<1>3. \A r \in Rows : rs[r] = IF d.rows[r] = Absent /\ \E i \in DOMAIN q : q[i].row = r
                              THEN q[First(q, r)].val ELSE d.rows[r]
  OBVIOUS
<1> HIDE DEF rs
<1> QED
  BY <1>1, <1>2, <1>3 DEF DB

LEMMA InsertRowType ==
  ASSUME NEW d \in DB, NEW w, w.row \in Rows, w.val \in Values
  PROVE  /\ InsertRow(d, w) \in DB /\ InsertRow(d, w).failed = d.failed
         /\ InsertRow(d, w).objects = d.objects
         /\ \A r \in Rows :
              InsertRow(d, w).rows[r] = IF r = w.row /\ d.rows[r] = Absent THEN w.val ELSE d.rows[r]
BY DEF InsertRow, DB

\* Databases are equal when their parts are.
LEMMA SameDB ==
  ASSUME NEW d \in DB, NEW e \in DB, d.failed = e.failed, d.objects = e.objects,
         \A r \in Rows : d.rows[r] = e.rows[r]
  PROVE  d = e
<1>1. d.rows = e.rows
  BY DEF DB
<1> QED
  BY <1>1 DEF DB

\* A batch of inserts with one record more inserts that record last.
LEMMA InsertRowsAppend ==
  ASSUME NEW d \in DB, NEW q \in Seq(Record), NEW w \in Record
  PROVE  InsertRows(d, Append(q, w)) = InsertRow(InsertRows(d, q), w)
<1> DEFINE a == Append(q, w)
           e == InsertRows(d, q)
<1>1. /\ a \in Seq(Record) /\ Len(a) = Len(q) + 1 /\ DOMAIN a = DOMAIN q \cup {Len(q) + 1}
      /\ \A i \in DOMAIN q : a[i] = q[i]
      /\ a[Len(q) + 1] = w /\ Len(q) + 1 \notin DOMAIN q
      /\ Len(q) \in Nat /\ DOMAIN q = 1..Len(q)
  BY AppendFacts, SeqFacts
<1>2. w.row \in Rows /\ w.val \in Values
  BY DEF Record
<1>3. \A i \in DOMAIN q : q[i].row \in Rows /\ q[i].val \in Values
  <2>1. \A i \in DOMAIN q : q[i] \in Record
    BY SeqFacts
  <2> QED
    BY <2>1 DEF Record
<1> HIDE DEF a
<1>4. /\ e \in DB /\ e.failed = d.failed /\ e.objects = d.objects
      /\ \A r \in Rows : e.rows[r] = IF d.rows[r] = Absent /\ \E i \in DOMAIN q : q[i].row = r
                                     THEN q[First(q, r)].val ELSE d.rows[r]
  BY InsertRowsType
<1>5. /\ InsertRows(d, a) \in DB /\ InsertRows(d, a).failed = d.failed
      /\ InsertRows(d, a).objects = d.objects
      /\ \A r \in Rows : InsertRows(d, a).rows[r] =
                           IF d.rows[r] = Absent /\ \E i \in DOMAIN a : a[i].row = r
                           THEN a[First(a, r)].val ELSE d.rows[r]
  BY <1>1, InsertRowsType
<1> HIDE DEF e
<1>6. /\ InsertRow(e, w) \in DB /\ InsertRow(e, w).failed = e.failed
      /\ InsertRow(e, w).objects = e.objects
      /\ \A r \in Rows : InsertRow(e, w).rows[r] =
                           IF r = w.row /\ e.rows[r] = Absent THEN w.val ELSE e.rows[r]
  BY <1>2, <1>4, InsertRowType
<1>7. ASSUME NEW r \in Rows
      PROVE  InsertRows(d, a).rows[r] = InsertRow(e, w).rows[r]
  <2>1. CASE d.rows[r] # Absent
    BY <1>4, <1>5, <1>6, <2>1
  <2>2. CASE d.rows[r] = Absent /\ \E i \in DOMAIN q : q[i].row = r
    <3> DEFINE f == First(q, r)
    <3>1. f \in DOMAIN q /\ q[f].row = r /\ \A j \in 1..(f - 1) : q[j].row # r
      BY <2>2, FirstFacts
    <3> HIDE DEF f
    <3>2. f \in DOMAIN a /\ a[f] = q[f] /\ \A j \in 1..(f - 1) : a[j].row # r
      BY <1>1, <3>1
    <3>3. First(a, r) = f
      BY <1>1, <3>1, <3>2, FirstIs
    <3>4. e.rows[r] = q[f].val /\ InsertRows(d, a).rows[r] = q[f].val
      BY <1>4, <1>5, <2>2, <3>2, <3>3, <3>1 DEF f
    <3>5. e.rows[r] # Absent
      BY <1>3, <3>1, <3>4, SinkAssumption
    <3> QED
      BY <1>6, <3>4, <3>5
  <2>3. CASE d.rows[r] = Absent /\ ~\E i \in DOMAIN q : q[i].row = r
    <3>1. e.rows[r] = Absent
      BY <1>4, <2>3
    <3>2. CASE r = w.row
      <4>1. \A j \in 1..((Len(q) + 1) - 1) : a[j].row # r
        BY <1>1, <2>3
      <4>2. Len(q) + 1 \in DOMAIN a /\ a[Len(q) + 1].row = r
        BY <1>1, <3>2
      <4>3. First(a, r) = Len(q) + 1
        <5>1. \A k \in DOMAIN a : (\A j \in 1..(k - 1) : a[j].row # a[k].row)
                                    => First(a, a[k].row) = k
          BY <1>1, FirstIs
        <5> QED
          BY <4>1, <4>2, <5>1
      <4> QED
        BY <1>1, <1>5, <1>6, <2>3, <3>1, <3>2, <4>2, <4>3
    <3>3. CASE r # w.row
      <4>1. ~\E i \in DOMAIN a : a[i].row = r
        BY <1>1, <2>3, <3>3
      <4> QED
        BY <1>5, <1>6, <2>3, <3>1, <3>3, <4>1
    <3> QED
      BY <3>2, <3>3
  <2> QED
    BY <2>1, <2>2, <2>3
<1> DEFINE x == InsertRows(d, a)
           y == InsertRow(e, w)
<1>8. x \in DB /\ y \in DB /\ x.failed = y.failed /\ x.objects = y.objects
      /\ \A r \in Rows : x.rows[r] = y.rows[r]
  BY <1>4, <1>5, <1>6, <1>7
<1> HIDE DEF x, y
<1>9. x = y
  BY <1>8, SameDB
<1> QED
  BY <1>9 DEF x, y, a, e

\* No record, no row.
LEMMA InsertRowsNone ==
  ASSUME NEW d \in DB
  PROVE  InsertRows(d, <<>>) = d
<1>1. <<>> \in Seq(Record) /\ DOMAIN <<>> = {}
  OBVIOUS
<1> DEFINE n == <<>>
<1>2. n \in Seq(Record) /\ DOMAIN n = {}
  BY <1>1
<1> HIDE DEF n
<1>3. InsertRows(d, n) \in DB /\ InsertRows(d, n).failed = d.failed
      /\ InsertRows(d, n).objects = d.objects
      /\ \A r \in Rows : InsertRows(d, n).rows[r] = d.rows[r]
  BY <1>2, InsertRowsType
<1> DEFINE x == InsertRows(d, n)
<1> HIDE DEF x
<1>4. x = d
  BY <1>3, SameDB DEF x
<1> QED
  BY <1>4 DEF x, n

\* A statement leaves a database.
LEMMA ExecType ==
  ASSUME NEW d \in DB, NEW s \in AnyStatement
  PROVE  Exec(d, s) \in DB
<1>1. Fail(d) \in DB
  BY DEF Fail, DB
<1>2. CASE d.failed
  BY <1>2 DEF Exec
<1>3. CASE ~d.failed /\ s \in [op : {"INSERTS"}, rows : Seq(Record)]
  BY <1>3, InsertRowsType DEF Exec
<1>4. CASE ~d.failed /\ s \in [op : {"INSERT"}, row : Rows, val : Values]
  BY <1>1, <1>4, InsertRowType DEF Exec
<1>5. CASE ~d.failed /\ s \in [op : {"UPDATE"}, old : Rows, row : Rows, val : Values]
  <2>1. UpdateRow(d, s) \in DB
    BY <1>1, <1>5 DEF UpdateRow, DB
  <2> QED
    BY <1>5, <2>1 DEF Exec
<1>6. CASE ~d.failed /\ s \in [op : {"DELETE"}, row : Rows]
  <2>1. [d EXCEPT !.rows[s.row] = Absent] \in DB
    BY <1>6 DEF DB
  <2> QED
    BY <1>6, <2>1 DEF Exec
<1>7. CASE ~d.failed /\ s \in [op : {"CREATE", "CREATE IF NOT EXISTS"}, obj : Objects]
  <2>1. [d EXCEPT !.objects = @ \cup {s.obj}] \in DB
    BY <1>7 DEF DB
  <2> QED
    BY <1>1, <1>7, <2>1 DEF Exec
<1>8. CASE ~d.failed /\ s \in [op : {"REFRESH"}]
  BY <1>8 DEF Exec
<1> QED
  BY <1>2, <1>3, <1>4, <1>5, <1>6, <1>7, <1>8 DEF AnyStatement, Statement, DML, DDL


\* Statements executed in turn: the states between them.
Runs(d, q) ==
  CHOOSE run : run = [i \in 0..Len(q) |-> IF i = 0 THEN d ELSE Exec(run[i - 1], q[i])]

LEMMA RunsFacts ==
  ASSUME NEW d \in DB, NEW q \in Seq(AnyStatement)
  PROVE  /\ Runs(d, q) \in [0..Len(q) -> DB] /\ Runs(d, q)[0] = d
         /\ \A i \in 1..Len(q) : Runs(d, q)[i] = Exec(Runs(d, q)[i - 1], q[i])
<1> DEFINE n == Len(q)
           G == [i \in 1..n |-> [x \in DB |-> Exec(x, q[i])]]
<1>1. n \in Nat /\ \A i \in 1..n : q[i] \in AnyStatement
  BY SeqFacts
<1>2. G \in [1..n -> [DB -> DB]]
  BY <1>1, ExecType
<1>3. PICK f : Recurses(f, n, DB, d, G)
  <2> HIDE DEF G, n
  <2> QED
    BY <1>1, <1>2, Recursion
<1>4. f \in [0..n -> DB] /\ f[0] = d /\ \A i \in 1..n : f[i] = G[i][f[i - 1]]
  BY <1>3 DEF Recurses
<1>5. f = [i \in 0..n |-> IF i = 0 THEN d ELSE Exec(f[i - 1], q[i])]
  <2>1. ASSUME NEW i \in 0..n
        PROVE  f[i] = IF i = 0 THEN d ELSE Exec(f[i - 1], q[i])
    <3>1. CASE i = 0
      BY <1>4, <3>1
    <3>2. CASE i # 0
      <4>1. i \in 1..n /\ f[i - 1] \in DB
        BY <1>1, <1>4, <3>2
      <4> QED
        BY <1>4, <3>2, <4>1
    <3> QED
      BY <3>1, <3>2
  <2> QED
    BY <1>4, <2>1
<1>6. Runs(d, q) = [i \in 0..n |-> IF i = 0 THEN d ELSE Exec(Runs(d, q)[i - 1], q[i])]
  BY <1>5 DEF Runs
<1> DEFINE r == Runs(d, q)
<1> HIDE DEF r
<1>7. r[0] = d /\ \A i \in 1..n : r[i] = Exec(r[i - 1], q[i])
  BY <1>1, <1>6 DEF r
<1>8. \A i \in 1..n : r[i - 1] \in DB => r[i] \in DB
  BY <1>1, <1>7, ExecType
<1>9. \A i \in 0..n : r[i] \in DB
  <2> HIDE DEF n
  <2> QED
    BY <1>1, <1>7, <1>8, RecursionType
<1>10. r \in [0..n -> DB]
  BY <1>6, <1>9 DEF r
<1> QED
  BY <1>7, <1>10 DEF r

LEMMA ExecAllRuns ==
  ASSUME NEW d, NEW q
  PROVE  ExecAll(d, q) = Runs(d, q)[Len(q)]
BY DEF ExecAll, Runs

\* What a list of statements does, by its last one.
LEMMA ExecAllFacts ==
  ASSUME NEW d \in DB, NEW q \in Seq(AnyStatement)
  PROVE  /\ ExecAll(d, q) \in DB
         /\ ExecAll(d, <<>>) = d
         /\ \A s \in AnyStatement : ExecAll(d, Append(q, s)) = Exec(ExecAll(d, q), s)
<1>1. Len(q) \in Nat /\ DOMAIN q = 1..Len(q)
  BY SeqFacts
<1>2. ExecAll(d, q) \in DB
  BY <1>1, RunsFacts, ExecAllRuns
<1>3. ExecAll(d, <<>>) = d
  <2> DEFINE e == <<>>
  <2>1. e \in Seq(AnyStatement) /\ Len(e) = 0
    OBVIOUS
  <2> HIDE DEF e
  <2>2. ExecAll(d, e) = d
    BY <2>1, RunsFacts, ExecAllRuns
  <2> QED
    BY <2>2 DEF e
<1>4. ASSUME NEW s \in AnyStatement
      PROVE  ExecAll(d, Append(q, s)) = Exec(ExecAll(d, q), s)
  <2> DEFINE a == Append(q, s)
             n == Len(q)
             f == Runs(d, q)
             g == Runs(d, a)
  <2>1. /\ a \in Seq(AnyStatement) /\ Len(a) = n + 1 /\ n \in Nat
        /\ \A i \in 1..n : a[i] = q[i]
        /\ a[n + 1] = s
    BY <1>1, AppendFacts
  <2> HIDE DEF a
  <2>2. f[0] = d /\ \A i \in 1..n : f[i] = Exec(f[i - 1], q[i])
    BY RunsFacts
  <2>3. g[0] = d /\ \A i \in 1..(n + 1) : g[i] = Exec(g[i - 1], a[i])
    BY <2>1, RunsFacts
  <2> HIDE DEF f, g, n
  <2>4. \A i \in 1..n : f[i - 1] = g[i - 1] => f[i] = g[i]
    BY <2>1, <2>2, <2>3
  <2>5. \A i \in 0..n : f[i] = g[i]
    <3>1. n \in Nat /\ f[0] = g[0]
      BY <2>1, <2>2, <2>3
    <3> QED
      BY <2>4, <3>1, RecursionUnique
  <2>6. f[n] = g[n] /\ g[n + 1] = Exec(g[n], s)
    BY <2>1, <2>3, <2>5
  <2>7. ExecAll(d, q) = f[n] /\ ExecAll(d, a) = g[n + 1]
    BY <2>1, ExecAllRuns DEF f, g, n
  <2> QED
    BY <2>6, <2>7 DEF a
<1> QED
  BY <1>2, <1>3, <1>4

\* One statement.
LEMMA ExecOne ==
  ASSUME NEW d \in DB, NEW s \in AnyStatement
  PROVE  ExecAll(d, <<s>>) = Exec(d, s)
<1> DEFINE e == <<>>
<1>1. e \in Seq(AnyStatement) /\ Append(e, s) = <<s>>
  OBVIOUS
<1> HIDE DEF e
<1>2. ExecAll(d, Append(e, s)) = Exec(ExecAll(d, e), s) /\ ExecAll(d, <<>>) = d
  BY <1>1, ExecAllFacts
<1> QED
  BY <1>1, <1>2 DEF e

\* A query without some of its statements is a list of its other ones.
Keeps(q, ops) ==
  CHOOSE kept : kept = [i \in 0..Len(q) |->
     IF i = 0 THEN <<>>
     ELSE IF q[i].op \in ops THEN kept[i - 1] ELSE Append(kept[i - 1], q[i])]

LEMMA WithoutType ==
  ASSUME NEW S, NEW q \in Seq(S), NEW ops
  PROVE  Without(q, ops) \in Seq(S)
<1> DEFINE n == Len(q)
           D == Seq(S)
           G == [i \in 1..n |-> [x \in D |-> IF q[i].op \in ops THEN x ELSE Append(x, q[i])]]
<1>1. n \in Nat /\ \A i \in 1..n : q[i] \in S
  BY SeqFacts
<1>2. /\ G \in [1..n -> [D -> D]]
      /\ \A i \in 1..n, x \in D : G[i][x] = IF q[i].op \in ops THEN x ELSE Append(x, q[i])
  BY <1>1, AppendFacts
<1>3. <<>> \in D
  OBVIOUS
<1> DEFINE e == <<>>
<1> HIDE DEF D, e, G
<1>4. PICK f : Recurses(f, n, D, e, G)
  <2> HIDE DEF n
  <2>1. e \in D
    BY <1>3 DEF e
  <2> QED
    BY <1>1, <1>2, <2>1, Recursion
<1>5. f \in [0..n -> D] /\ f[0] = e /\ \A i \in 1..n : f[i] = G[i][f[i - 1]]
  BY <1>4 DEF Recurses
<1>6. f = [i \in 0..n |-> IF i = 0 THEN e
                         ELSE IF q[i].op \in ops THEN f[i - 1] ELSE Append(f[i - 1], q[i])]
  <2>1. ASSUME NEW i \in 0..n
        PROVE  f[i] = IF i = 0 THEN e
                      ELSE IF q[i].op \in ops THEN f[i - 1] ELSE Append(f[i - 1], q[i])
    <3>1. CASE i = 0
      BY <1>5, <3>1
    <3>2. CASE i # 0
      <4>1. i \in 1..n /\ f[i - 1] \in D
        BY <1>1, <1>5, <3>2
      <4> QED
        BY <1>2, <1>5, <3>2, <4>1
    <3> QED
      BY <3>1, <3>2
  <2> QED
    BY <1>5, <2>1
<1> DEFINE k == Keeps(q, ops)
<1>7. k = [i \in 0..n |-> IF i = 0 THEN e
                          ELSE IF q[i].op \in ops THEN k[i - 1] ELSE Append(k[i - 1], q[i])]
  BY <1>6 DEF Keeps, e
<1> HIDE DEF k
<1>8. \A i \in 0..n : k[i] = IF i = 0 THEN e
                          ELSE IF q[i].op \in ops THEN k[i - 1] ELSE Append(k[i - 1], q[i])
  BY <1>7
<1>9. k[0] = e /\ \A i \in 1..n : k[i - 1] \in D => k[i] \in D
  <2>1. k[0] = e
    BY <1>1, <1>8
  <2>2. ASSUME NEW i \in 1..n, k[i - 1] \in D
        PROVE  k[i] \in D
    <3>1. k[i] = IF q[i].op \in ops THEN k[i - 1] ELSE Append(k[i - 1], q[i])
      BY <1>1, <1>8
    <3>2. Append(k[i - 1], q[i]) \in D
      BY <1>1, <2>2, AppendFacts DEF D
    <3> QED
      BY <2>2, <3>1, <3>2
  <2> QED
    BY <2>1, <2>2
<1>10. k[n] \in D
  <2>1. e \in D
    BY <1>3 DEF e
  <2>2. \A i \in 0..n : k[i] \in D
    <3> HIDE DEF n
    <3> QED
      BY <1>1, <1>9, <2>1, RecursionType
  <2> QED
    BY <1>1, <2>2
<1>11. Without(q, ops) = k[n]
  BY DEF Without, Keeps, k
<1> QED
  BY <1>10, <1>11 DEF D

\* The statements of a message.
LEMMA StatementsType ==
  ASSUME NEW m \in Message
  PROVE  /\ SourceStatements(m) \in Seq(AnyStatement)
         /\ m.type = "change" => m.stmt \in DML /\ SourceStatements(m) = <<m.stmt>>
         /\ m.type \in {"begin", "commit"} => SourceStatements(m) = <<>>
         /\ m.type = "ddl" => m.query \in Seq(DML \cup DDL)
<1>1. m.type = "change" => m.stmt \in DML
  BY DEF Message
<1>2. m.type = "ddl" => m.query \in Seq(DML \cup DDL)
  BY DEF Message
<1>3. m.type \in {"begin", "commit", "change", "ddl"}
  BY DEF Message
<1>4. CASE m.type \in {"begin", "commit"}
  <2>1. SourceStatements(m) = <<>>
    BY <1>4 DEF SourceStatements
  <2>2. <<>> \in Seq(AnyStatement)
    OBVIOUS
  <2> QED
    BY <1>4, <2>1, <2>2
<1>5. CASE m.type = "change"
  <2>1. SourceStatements(m) = <<m.stmt>>
    BY <1>5 DEF SourceStatements
  <2>2. m.stmt \in AnyStatement
    BY <1>1, <1>5 DEF AnyStatement
  <2> QED
    BY <1>1, <1>5, <2>1, <2>2
<1>6. CASE m.type = "ddl"
  <2>1. SourceStatements(m) = Without(m.query, {"INSERT", "UPDATE", "DELETE"})
    BY <1>6 DEF SourceStatements
  <2>2. m.query \in Seq(AnyStatement)
    BY <1>2, <1>6 DEF AnyStatement
  <2>3. SourceStatements(m) \in Seq(AnyStatement)
    BY <2>1, <2>2, WithoutType
  <2> QED
    BY <1>2, <1>6, <2>3
<1> QED
  BY <1>3, <1>4, <1>5, <1>6

\* What one message does to the state of the source.
SourceStep(t, i, d) ==
  IF CompleteIn(t, t[i].lsn) /\ ~Repeated(t, i) THEN ExecAll(d, SourceStatements(t[i])) ELSE d

\* The states of the source, message by message.
LEMMA SourceStatesFacts ==
  ASSUME NEW t \in Seq(Message)
  PROVE  /\ SourceStates(t) \in [0..Len(t) -> DB]
         /\ SourceStates(t)[0] = EmptyDB
         /\ \A i \in 1..Len(t) : SourceStates(t)[i] = SourceStep(t, i, SourceStates(t)[i - 1])
<1> DEFINE n == Len(t)
           G == [i \in 1..n |-> [x \in DB |-> SourceStep(t, i, x)]]
           s == SourceStates(t)
<1>1. n \in Nat /\ \A i \in 1..n : t[i] \in Message
  BY SeqFacts
<1>2. \A i \in 1..n, x \in DB : SourceStep(t, i, x) \in DB
  BY <1>1, StatementsType, ExecAllFacts DEF SourceStep
<1>3. G \in [1..n -> [DB -> DB]]
  BY <1>2
<1>4. EmptyDB \in DB
  BY DEF EmptyDB, DB
<1>5. PICK f : Recurses(f, n, DB, EmptyDB, G)
  <2> HIDE DEF G, n
  <2> QED
    BY <1>1, <1>3, <1>4, Recursion
<1>6. f \in [0..n -> DB] /\ f[0] = EmptyDB /\ \A i \in 1..n : f[i] = G[i][f[i - 1]]
  BY <1>5 DEF Recurses
<1>7. f = [i \in 0..n |-> IF i = 0 THEN EmptyDB ELSE SourceStep(t, i, f[i - 1])]
  <2>1. ASSUME NEW i \in 0..n
        PROVE  f[i] = IF i = 0 THEN EmptyDB ELSE SourceStep(t, i, f[i - 1])
    <3>1. CASE i = 0
      BY <1>6, <3>1
    <3>2. CASE i # 0
      <4>1. i \in 1..n /\ f[i - 1] \in DB
        BY <1>1, <1>6, <3>2
      <4> QED
        BY <1>6, <3>2, <4>1
    <3> QED
      BY <3>1, <3>2
  <2> QED
    BY <1>6, <2>1
<1>8. s = CHOOSE r : r = [i \in 0..n |-> IF i = 0 THEN EmptyDB ELSE SourceStep(t, i, r[i - 1])]
  BY DEF SourceStates, SourceStep
<1> HIDE DEF s
<1>9. s = [i \in 0..n |-> IF i = 0 THEN EmptyDB ELSE SourceStep(t, i, s[i - 1])]
  BY <1>7, <1>8
<1>10. s[0] = EmptyDB /\ \A i \in 1..n : s[i] = SourceStep(t, i, s[i - 1])
  BY <1>1, <1>9
<1>11. \A i \in 1..n : s[i - 1] \in DB => s[i] \in DB
  BY <1>2, <1>10
<1>12. \A i \in 0..n : s[i] \in DB
  <2> HIDE DEF n
  <2> QED
    BY <1>1, <1>4, <1>10, <1>11, RecursionType
<1>13. s \in [0..n -> DB]
  BY <1>9, <1>12
<1> QED
  BY <1>10, <1>13 DEF s

-----------------------------------------------------------------------------
(* The topic and the channel.                                               *)

LEMMA EmptyFacts ==
  ASSUME NEW S
  PROVE  <<>> \in Seq(S) /\ Len(<<>>) = 0 /\ DOMAIN <<>> = {}
OBVIOUS

LEMMA TopicFacts ==
  ASSUME SourcesInv
  PROVE  /\ Len(topic) \in Nat /\ DOMAIN topic = 1..Len(topic) /\ topic \in Seq(Message)
         /\ \A i \in DOMAIN topic : topic[i] \in Message
         /\ \A i \in DOMAIN topic : topic[i].lsn \in Nat /\ topic[i].lsn > 0
         /\ \A i, j \in DOMAIN topic : i < j => topic[i].lsn <= topic[j].lsn
         /\ \A i, j \in DOMAIN topic :
              i < j /\ topic[i].type = "commit" => topic[i].lsn < topic[j].lsn
<1>1. topic \in Seq(Message) /\ Ordered(topic)
  BY SinkAssumption DEF SourcesInv
<1>2. Len(topic) \in Nat /\ DOMAIN topic = 1..Len(topic) /\ \A i \in DOMAIN topic : topic[i] \in Message
  BY <1>1, SeqFacts
<1>3. \A m \in Message : m.lsn \in Nat /\ m.lsn > 0
  BY DEF Message
<1> QED
  BY <1>1, <1>2, <1>3 DEF Ordered

\* What the checkpoint that Setup finds covers.
LEMMA CoveredFacts ==
  ASSUME SourcesInv
  PROVE  /\ Covered \in Nat /\ sources.mid \in Nat /\ sources.lsn \in Nat
         /\ Covered = IF sources.mid # 0 THEN sources.lsn ELSE base
         /\ sources.mid # 0 => /\ sources.mid \in DOMAIN topic
                               /\ topic[sources.mid].lsn = sources.lsn
                               /\ sources.lsn > 0
<1>1. sources.mid \in Nat /\ sources.lsn \in Nat /\ base \in Nat
  BY DEF SourcesInv
<1>2. Covered = IF sources.mid # 0 THEN sources.lsn ELSE base
  BY DEF Covered, FindCheckpoint
<1>3. ASSUME sources.mid # 0
      PROVE  /\ sources.mid \in DOMAIN topic
             /\ topic[sources.mid].lsn = sources.lsn
             /\ sources.lsn > 0
  <2>1. sources # Fresh
    BY <1>3 DEF Fresh
  <2> QED
    BY <2>1, TopicFacts DEF SourcesInv
<1> QED
  BY <1>1, <1>2, <1>3

\* Everything from a message on that the checkpoint does not cover is new.
LEMMA NewFrom ==
  ASSUME SourcesInv, NEW i \in DOMAIN topic, topic[i].lsn > Covered
  PROVE  \A j \in DOMAIN topic : j >= i => New(j)
<1> SUFFICES ASSUME NEW j \in DOMAIN topic, j >= i
             PROVE  New(j)
  OBVIOUS
<1>1. /\ i \in Nat /\ j \in Nat /\ topic[i].lsn \in Nat /\ topic[j].lsn \in Nat
      /\ topic[i].lsn <= topic[j].lsn
  <2>1. i \in Nat /\ j \in Nat /\ topic[i].lsn \in Nat /\ topic[j].lsn \in Nat
    BY TopicFacts
  <2>2. CASE i = j
    BY <2>1, <2>2
  <2>3. CASE i < j
    BY <2>3, TopicFacts
  <2> QED
    BY <2>1, <2>2, <2>3
<1>2. topic[j].lsn > Covered
  BY <1>1, CoveredFacts
<1>3. j > sources.mid
  <2>1. CASE sources.mid = 0
    BY <2>1, TopicFacts
  <2>2. CASE sources.mid # 0
    <3>1. /\ sources.mid \in DOMAIN topic /\ sources.mid \in Nat
          /\ topic[sources.mid].lsn = Covered /\ Covered \in Nat
      BY <2>2, CoveredFacts
    <3>2. j # sources.mid
      BY <1>1, <1>2, <3>1
    <3>3. ~(j < sources.mid)
      <4>1. j < sources.mid => topic[j].lsn <= topic[sources.mid].lsn
        BY <3>1, TopicFacts
      <4> QED
        BY <1>1, <1>2, <3>1, <4>1
    <3> QED
      BY <1>1, <3>1, <3>2, <3>3
  <2> QED
    BY <2>1, <2>2
<1> QED
  BY <1>2, <1>3 DEF New

\* The facts about the first message of the channel.
LEMMA HeadFacts ==
  ASSUME IInv, proc = "up", changes # <<>>
  PROVE  /\ consistent
         /\ Head(changes) \in DOMAIN topic /\ Head(changes) < rpos
         /\ Head(changes) \in Nat /\ rpos \in Nat
         /\ New(Head(changes))
         /\ Tail(changes) \in Seq(DOMAIN topic)
         /\ Len(Tail(changes)) = Len(changes) - 1 /\ Len(changes) \in Nat
         /\ \A k \in DOMAIN Tail(changes) :
              /\ k + 1 \in DOMAIN changes /\ k \in Nat
              /\ Tail(changes)[k] = changes[k + 1]
              /\ Tail(changes)[k] > Head(changes)
<1>1. changes \in Seq(DOMAIN topic) /\ SourcesInv
  BY DEF IInv, ChannelInv
<1>2. /\ Tail(changes) \in Seq(DOMAIN topic) /\ Len(Tail(changes)) = Len(changes) - 1
      /\ Head(changes) = changes[1] /\ Head(changes) \in DOMAIN topic /\ 1 \in DOMAIN changes
      /\ \A k \in DOMAIN Tail(changes) : k + 1 \in DOMAIN changes
                                          /\ Tail(changes)[k] = changes[k + 1]
      /\ DOMAIN Tail(changes) \subseteq DOMAIN changes
  BY <1>1, TailFacts
<1>3. Len(changes) \in Nat /\ DOMAIN changes = 1..Len(changes)
  BY <1>1, SeqFacts
<1>4. DOMAIN topic \subseteq Nat /\ rpos \in Nat
  BY <1>1, TopicFacts DEF IInv, ChannelInv
<1>5. consistent /\ New(changes[1])
  BY <1>2 DEF IInv, NewInv
<1>6. changes[1] < rpos
  BY <1>2 DEF IInv, ChannelInv
<1>7. ASSUME NEW k \in DOMAIN Tail(changes)
      PROVE  k \in Nat /\ changes[k + 1] > changes[1]
  <2>1. k \in Nat /\ k >= 1
    BY <1>2, <1>3
  <2>2. k + 1 \in DOMAIN changes /\ 1 < k + 1
    BY <1>2, <2>1
  <2>3. changes[1] < changes[k + 1]
    BY <1>2, <2>2 DEF IInv, ChannelInv
  <2>4. changes[1] \in Nat /\ changes[k + 1] \in Nat
    BY <1>1, <1>2, <1>4, <2>2, SeqFacts
  <2> QED
    BY <2>1, <2>3, <2>4
<1> QED
  BY <1>2, <1>3, <1>4, <1>5, <1>6, <1>7

-----------------------------------------------------------------------------
(* The steps.                                                               *)

LEMMA InitInv ==
  Init => IInv
<1> SUFFICES ASSUME Init PROVE IInv
  OBVIOUS
<1>1. SourcesInv
  BY SinkAssumption DEF Init, SourcesInv, Fresh
<1>2. BufferInv
  <2>1. inserts = <<>> /\ pendingCommits = <<>> /\ crashes = 0
    BY DEF Init
  <2> QED
    BY <2>1, SinkAssumption DEF BufferInv
<1>3. ChannelInv /\ NewInv
  <2>1. rpos \in 1..(Len(topic) + 1)
    BY <1>1, TopicFacts DEF Init
  <2>2. changes = <<>> /\ proc = "down" /\ consistent = FALSE
    BY DEF Init
  <2>3. changes \in Seq(DOMAIN topic) /\ Len(changes) = 0 /\ DOMAIN changes = {}
    BY <2>2, EmptyFacts
  <2>4. (\A k \in DOMAIN changes : changes[k] < rpos)
        /\ (\A j, k \in DOMAIN changes : j < k => changes[j] < changes[k])
        /\ Len(changes) <= ChanCap
    <3>1. ChanCap \in Nat
      BY SinkAssumption
    <3> QED
      BY ONLY <2>3, <3>1
  <2> QED
    BY <2>1, <2>2, <2>3, <2>4 DEF ChannelInv, NewInv
<1> QED
  BY <1>1, <1>2, <1>3 DEF IInv

\* A step that keeps the checkpoint keeps what SourcesInv says of it.
LEMMA SourcesKept ==
  ASSUME SourcesInv, UNCHANGED <<fixed, sources>>
  PROVE  /\ SourcesInv' /\ FindCheckpoint' = FindCheckpoint
         /\ \A i : New(i)' <=> New(i)
<1>1. topic' = topic /\ base' = base /\ sources' = sources
  BY DEF fixed
<1>2. SourcesInv'
  BY <1>1 DEF SourcesInv
<1>3. FindCheckpoint' = FindCheckpoint
  BY <1>1 DEF FindCheckpoint
<1>4. \A i : New(i)' <=> New(i)
  BY <1>1, <1>3 DEF New, Covered
<1> QED
  BY <1>2, <1>3, <1>4

LEMMA StartStep ==
  ASSUME IInv, Start
  PROVE  IInv'
<1>1. UNCHANGED <<fixed, sources>> /\ UNCHANGED changes
  BY DEF Start
<1>2. /\ SourcesInv' /\ FindCheckpoint' = FindCheckpoint
      /\ topic' = topic /\ changes' = changes
  BY <1>1, SourcesKept DEF IInv, fixed
<1>3. BufferInv'
  BY <1>2 DEF Start, bufVars, pipeVars, IInv, BufferInv
<1>4. rpos' \in 1..(Len(topic) + 1)
  <2>1. rpos' \in ReaderStarts(FindCheckpoint)
    BY DEF Start
  <2>2. Len(topic) \in Nat /\ DOMAIN topic = 1..Len(topic)
    BY TopicFacts DEF IInv
  <2>3. FindCheckpoint.mid # 0 => FindCheckpoint.mid \in DOMAIN topic
    BY CoveredFacts DEF IInv, FindCheckpoint
  <2> QED
    BY <2>1, <2>2, <2>3 DEF ReaderStarts
<1>5. changes' = <<>> /\ DOMAIN changes' = {} /\ changes' \in Seq(DOMAIN topic')
      /\ Len(changes') = 0
  BY <1>2, EmptyFacts DEF Start, IInv, ChannelInv
<1>6. proc' = "up" /\ consistent' = FALSE /\ cp' = FindCheckpoint'
  BY <1>2 DEF Start
<1>7. ChannelInv'
  <2>1. (\A k \in DOMAIN changes' : changes'[k] < rpos')
        /\ (\A j, k \in DOMAIN changes' : j < k => changes'[j] < changes'[k])
        /\ Len(changes') <= ChanCap
    <3>1. ChanCap \in Nat
      BY SinkAssumption
    <3> QED
      BY ONLY <1>5, <3>1
  <2> QED
    BY <1>2, <1>4, <1>5, <1>6, <2>1 DEF ChannelInv
<1>8. NewInv'
  BY <1>5, <1>6 DEF NewInv
<1> QED
  BY <1>2, <1>3, <1>7, <1>8 DEF IInv

LEMMA ReadStep ==
  ASSUME IInv, Read
  PROVE  IInv'
<1>1. UNCHANGED <<fixed, sources>>
  BY DEF Read
<1>2. /\ SourcesInv' /\ FindCheckpoint' = FindCheckpoint
      /\ topic' = topic /\ \A i : New(i)' <=> New(i)
  BY <1>1, SourcesKept DEF IInv, fixed
<1>3. BufferInv'
  BY <1>2 DEF Read, bufVars, pipeVars, IInv, BufferInv
<1>4. /\ proc = "up" /\ proc' = "up" /\ cp' = cp /\ rpos' = rpos + 1 /\ rpos <= Len(topic)
      /\ Len(changes) < ChanCap /\ consistent' = Delivers(topic[rpos])
      /\ changes' = IF Delivers(topic[rpos]) THEN Append(changes, rpos) ELSE changes
  BY DEF Read
<1>5. /\ rpos \in DOMAIN topic /\ rpos \in Nat /\ Len(topic) \in Nat
      /\ DOMAIN topic = 1..Len(topic) /\ changes \in Seq(DOMAIN topic)
      /\ Len(changes) \in Nat /\ consistent \in BOOLEAN
      /\ rpos' \in 1..(Len(topic) + 1)
  BY <1>4, TopicFacts, SeqFacts DEF IInv, ChannelInv
<1>6. \A k \in DOMAIN changes : changes[k] < rpos /\ changes[k] \in Nat /\ New(changes[k])
  BY <1>4, <1>5, SeqFacts DEF IInv, ChannelInv, NewInv
<1>7. CASE ~Delivers(topic[rpos])
  <2>1. ~consistent /\ consistent' = FALSE /\ changes' = changes
    BY <1>4, <1>7 DEF Delivers
  <2>2. changes = <<>> /\ cp = FindCheckpoint
    BY <1>4, <2>1 DEF IInv, NewInv
  <2>3. changes' = <<>> /\ DOMAIN changes' = {} /\ changes' \in Seq(DOMAIN topic')
        /\ Len(changes') = 0
    BY <2>1, <2>2, EmptyFacts
  <2>4. ChannelInv'
    <3>1. (\A k \in DOMAIN changes' : changes'[k] < rpos')
          /\ (\A j, k \in DOMAIN changes' : j < k => changes'[j] < changes'[k])
          /\ Len(changes') <= ChanCap
      <4>1. ChanCap \in Nat
        BY SinkAssumption
      <4> QED
        BY ONLY <2>3, <4>1
    <3> QED
      BY <1>2, <1>4, <1>5, <2>1, <2>3, <3>1 DEF ChannelInv
  <2>5. NewInv'
    BY <1>2, <1>4, <2>1, <2>2, <2>3 DEF NewInv
  <2> QED
    BY <1>2, <1>3, <2>4, <2>5 DEF IInv
<1>8. CASE Delivers(topic[rpos])
  <2>1. consistent' = TRUE /\ changes' = Append(changes, rpos)
    BY <1>4, <1>8 DEF Delivers
  <2>2. \A j \in DOMAIN topic : j >= rpos => New(j)
    <3>1. CASE consistent
      BY <1>4, <3>1 DEF IInv, NewInv
    <3>2. CASE ~consistent
      <4>1. cp = FindCheckpoint /\ cp.lsn = Covered
        BY <1>4, <3>2 DEF IInv, NewInv, Covered
      <4>2. topic[rpos].lsn > Covered
        BY <1>5, <1>8, <3>2, <4>1, TopicFacts, CoveredFacts DEF Delivers, IInv
      <4> QED
        BY <1>5, <4>2, NewFrom DEF IInv
    <3> QED
      BY <3>1, <3>2
  <2>3. /\ changes' \in Seq(DOMAIN topic) /\ Len(changes') = Len(changes) + 1
        /\ DOMAIN changes' = DOMAIN changes \cup {Len(changes) + 1}
        /\ \A k \in DOMAIN changes : changes'[k] = changes[k]
        /\ changes'[Len(changes) + 1] = rpos
        /\ DOMAIN changes = 1..Len(changes)
    BY <1>5, <2>1, AppendFacts, SeqFacts
  <2>4. ChannelInv'
    <3>1. \A k \in DOMAIN changes' : changes'[k] < rpos'
      BY <1>4, <1>5, <1>6, <2>3
    <3>2. \A j, k \in DOMAIN changes' : j < k => changes'[j] < changes'[k]
      <4> SUFFICES ASSUME NEW j \in DOMAIN changes', NEW k \in DOMAIN changes', j < k
                   PROVE  changes'[j] < changes'[k]
        OBVIOUS
      <4>1. j \in DOMAIN changes
        BY <1>5, <2>3
      <4>2. CASE k \in DOMAIN changes
        BY <2>3, <4>1, <4>2 DEF IInv, ChannelInv
      <4>3. CASE k = Len(changes) + 1
        BY <1>6, <2>3, <4>1, <4>3
      <4> QED
        BY <2>3, <4>2, <4>3
    <3>3. Len(changes') <= ChanCap
      BY <1>4, <1>5, <2>3, SinkAssumption
    <3> QED
      BY <1>2, <1>4, <1>5, <2>1, <2>3, <3>1, <3>2, <3>3 DEF ChannelInv
  <2>5. \A k \in DOMAIN changes' : New(changes'[k])
    BY <1>5, <1>6, <2>2, <2>3
  <2>6. \A i \in DOMAIN topic : i >= rpos' => New(i)
    BY <1>4, <1>5, <2>2
  <2>7. NewInv'
    BY <1>2, <2>1, <2>5, <2>6 DEF NewInv
  <2> QED
    BY <1>2, <1>3, <2>4, <2>7 DEF IInv
<1> QED
  BY <1>7, <1>8

\* The sink has taken a message and has not moved the checkpoint.
LEMMA TakeKeeps ==
  ASSUME IInv, UNCHANGED <<fixed, sources, srcVars>>, proc = "up", changes # <<>>,
         changes' = Tail(changes), proc' \in {"up", "failed"}
  PROVE  SourcesInv' /\ ChannelInv' /\ NewInv'
<1>1. /\ SourcesInv' /\ FindCheckpoint' = FindCheckpoint
      /\ topic' = topic /\ \A i : New(i)' <=> New(i)
  BY SourcesKept DEF IInv, fixed
<1>2. rpos' = rpos /\ cp' = cp /\ consistent' = consistent
  BY DEF srcVars
<1>3. /\ Tail(changes) \in Seq(DOMAIN topic) /\ Len(Tail(changes)) = Len(changes) - 1
      /\ Len(changes) \in Nat /\ consistent
      /\ \A k \in DOMAIN Tail(changes) : /\ k + 1 \in DOMAIN changes /\ k \in Nat
                                          /\ Tail(changes)[k] = changes[k + 1]
  BY HeadFacts
<1>4. Len(changes') <= ChanCap
  BY <1>3, SinkAssumption DEF IInv, ChannelInv
<1>5. \A k \in DOMAIN changes' : changes'[k] < rpos
  BY <1>3 DEF IInv, ChannelInv
<1>6. \A j, k \in DOMAIN changes' : j < k => changes'[j] < changes'[k]
  <2> SUFFICES ASSUME NEW j \in DOMAIN changes', NEW k \in DOMAIN changes', j < k
               PROVE  changes'[j] < changes'[k]
    OBVIOUS
  <2>1. j + 1 \in DOMAIN changes /\ k + 1 \in DOMAIN changes /\ j + 1 < k + 1
    BY <1>3
  <2> QED
    BY <1>3, <2>1 DEF IInv, ChannelInv
<1>7. ChannelInv'
  BY <1>1, <1>2, <1>3, <1>4, <1>5, <1>6 DEF IInv, ChannelInv
<1>8. \A k \in DOMAIN changes' : New(changes'[k])
  BY <1>3 DEF IInv, NewInv
<1>9. \A i \in DOMAIN topic : i >= rpos => New(i)
  BY <1>3 DEF IInv, NewInv
<1>10. NewInv'
  BY <1>1, <1>2, <1>3, <1>8, <1>9 DEF NewInv
<1> QED
  BY <1>1, <1>7, <1>10

LEMMA ApplyBeginStep ==
  ASSUME IInv, ApplyBegin
  PROVE  IInv'
<1>1. SourcesInv' /\ ChannelInv' /\ NewInv'
  BY TakeKeeps DEF ApplyBegin, Take
<1>2. /\ topic' = topic /\ inserts' = inserts /\ pendingCommits' = pendingCommits
      /\ crashes' = crashes
  BY DEF ApplyBegin, fixed, pipeVars
<1>3. BufferInv'
  BY <1>2 DEF IInv, BufferInv
<1> QED
  BY <1>1, <1>3 DEF IInv

\* A row goes into the batch, or into the next one when the batch has no room
\* for it.
LEMMA InsertFits ==
  ASSUME IInv, NEW w \in Record, NEW ok \in BOOLEAN, ok => Len(inserts) < MaxInserts
  PROVE  LET q == Append(IF ok THEN inserts ELSE <<>>, w)
         IN  q \in Seq(Record) /\ Len(q) <= MaxInserts
<1>1. inserts \in Seq(Record) /\ MaxInserts \in Nat /\ MaxInserts >= 1
  BY SinkAssumption DEF IInv, BufferInv
<1>2. CASE ok
  <2>1. Append(inserts, w) \in Seq(Record) /\ Len(Append(inserts, w)) = Len(inserts) + 1
    BY <1>1, AppendFacts
  <2>2. Len(inserts) \in Nat
    BY <1>1, SeqFacts
  <2> QED
    BY <1>1, <1>2, <2>1, <2>2
<1>3. CASE ~ok
  <2>1. <<>> \in Seq(Record) /\ Len(<<>>) = 0
    BY EmptyFacts
  <2>2. Append(<<>>, w) \in Seq(Record) /\ Len(Append(<<>>, w)) = Len(<<>>) + 1
    BY <2>1, AppendFacts
  <2> QED
    BY <1>1, <1>3, <2>1, <2>2
<1> QED
  BY <1>2, <1>3

LEMMA ApplyChangeStep ==
  ASSUME IInv, ApplyChange
  PROVE  IInv'
<1>1. SourcesInv' /\ ChannelInv' /\ NewInv'
  BY TakeKeeps DEF ApplyChange, Take
<1>2. topic' = topic /\ pendingCommits' = pendingCommits /\ crashes' = crashes
  BY DEF ApplyChange, fixed, pipeVars
<1>3. inserts' \in Seq(Record) /\ Len(inserts') <= MaxInserts
  <2>1. CASE inserts' = inserts
    BY <2>1 DEF IInv, BufferInv
  <2>2. CASE inserts' = <<>>
    <3>1. <<>> \in Seq(Record) /\ Len(<<>>) = 0
      BY EmptyFacts
    <3> QED
      BY <2>2, <3>1, SinkAssumption
  <2>3. CASE HandleInsert(Msg.stmt) /\ Msg.stmt.op = "INSERT"
    <3> DEFINE w == [row |-> Msg.stmt.row, val |-> Msg.stmt.val]
               ok == Len(inserts) < MaxInserts
                       /\ (inserts # <<>> => Table(inserts[1].row) = Table(Msg.stmt.row))
    <3>1. /\ Head(changes) \in DOMAIN topic /\ topic[Head(changes)].type = "change"
          /\ topic[Head(changes)].stmt.op = "INSERT"
      BY <2>3, HeadFacts DEF ApplyChange, Take, Msg
    <3>2. w \in Record
      <4>1. topic[Head(changes)] \in Message
        BY <3>1, TopicFacts DEF IInv
      <4>2. Msg.stmt \in DML /\ Msg.stmt.op = "INSERT"
        BY <3>1, <4>1, StatementsType DEF Msg
      <4>3. Msg.stmt.row \in Rows /\ Msg.stmt.val \in Values
        BY <4>2 DEF DML
      <4> QED
        BY <4>3 DEF Record
    <3>3. inserts' = Append(IF ok THEN inserts ELSE <<>>, w)
      BY <2>3 DEF HandleInsert, BatchOK
    <3>4. ok \in BOOLEAN /\ (ok => Len(inserts) < MaxInserts)
      OBVIOUS
    <3> HIDE DEF w, ok
    <3> QED
      BY <3>2, <3>3, <3>4, InsertFits
  <2> QED
    BY <2>1, <2>2, <2>3 DEF ApplyChange, HandleUpdateDelete, bufVars
<1>4. BufferInv'
  BY <1>2, <1>3 DEF IInv, BufferInv
<1> QED
  BY <1>1, <1>4 DEF IInv

\* A pipeline that has been synced holds no commits.
LEMMA SyncedBounds ==
  <<>> \in Seq(Nat) /\ (BatchTXSize > 0 => Len(<<>>) < BatchTXSize)
<1>1. <<>> \in Seq(Nat) /\ Len(<<>>) = 0
  BY EmptyFacts
<1> QED
  BY <1>1

\* A command syncs the pipeline, without a checkpoint.
LEMMA ApplyDDLStep ==
  ASSUME IInv, ApplyDDL
  PROVE  IInv' /\ sources' = sources
<1>1. /\ sources' = sources /\ proc' \in {"up", "failed"}
      /\ proc = "up" /\ changes # <<>> /\ changes' = Tail(changes)
  BY DEF ApplyDDL, Take, PerformDDL, Commit
<1>2. UNCHANGED <<fixed, sources, srcVars>>
  BY <1>1 DEF ApplyDDL
<1>3. SourcesInv' /\ ChannelInv' /\ NewInv'
  BY <1>1, <1>2, TakeKeeps
<1>4. topic' = topic /\ inserts' = inserts /\ crashes' = crashes
  BY DEF ApplyDDL, fixed
<1>5. pendingCommits' = pendingCommits \/ pendingCommits' = <<>>
  BY DEF ApplyDDL, PerformDDL, pipeVars
<1>6. pendingCommits' \in Seq(Nat) /\ (BatchTXSize > 0 => Len(pendingCommits') < BatchTXSize)
  BY <1>5, SyncedBounds DEF IInv, BufferInv
<1>7. BufferInv'
  BY <1>4, <1>6 DEF IInv, BufferInv
<1> QED
  BY <1>1, <1>3, <1>7 DEF IInv

LEMMA ExecDDLStep ==
  ASSUME IInv, ExecDDL
  PROVE  IInv' /\ sources' = sources
<1>1. sources' = sources /\ proc' \in {"up", "failed"} /\ proc = "up"
  BY DEF ExecDDL, Commit
<1>2. UNCHANGED <<fixed, sources>>
  BY <1>1 DEF ExecDDL
<1>3. /\ SourcesInv' /\ FindCheckpoint' = FindCheckpoint
      /\ \A i : New(i)' <=> New(i)
  BY <1>2, SourcesKept DEF IInv
<1>4. /\ topic' = topic /\ inserts' = inserts /\ pendingCommits' = pendingCommits
      /\ crashes' = crashes /\ changes' = changes
      /\ rpos' = rpos /\ cp' = cp /\ consistent' = consistent
  BY DEF ExecDDL, fixed, srcVars, bufVars, pipeVars
<1>5. BufferInv'
  BY <1>3, <1>4 DEF IInv, BufferInv
<1>6. ChannelInv'
  BY <1>1, <1>4 DEF IInv, ChannelInv
<1>7. NewInv'
  BY <1>1, <1>3, <1>4 DEF IInv, NewInv
<1> QED
  BY <1>1, <1>3, <1>5, <1>6, <1>7 DEF IInv

LEMMA CrashStep ==
  ASSUME IInv, Crash
  PROVE  IInv' /\ sources' = sources
<1>1. UNCHANGED <<fixed, sources>> /\ proc' = "down"
  BY DEF Crash
<1>2. /\ topic' = topic /\ sources' = sources /\ rpos' = rpos /\ consistent' = consistent
      /\ inserts' = <<>> /\ pendingCommits' = <<>> /\ changes' = <<>>
      /\ crashes' = crashes + 1 /\ crashes < MaxCrashes
  BY DEF Crash, fixed, srcVars
<1>3. SourcesInv'
  BY <1>1, SourcesKept DEF IInv
<1>4. BufferInv'
  <2>1. inserts' \in Seq(Record) /\ Len(inserts') <= MaxInserts
    <3>1. <<>> \in Seq(Record) /\ Len(<<>>) = 0
      BY EmptyFacts
    <3> QED
      BY <1>2, <3>1, SinkAssumption
  <2>2. pendingCommits' \in Seq(Nat) /\ (BatchTXSize > 0 => Len(pendingCommits') < BatchTXSize)
    BY <1>2, SyncedBounds
  <2>3. crashes' \in 0..MaxCrashes
    BY <1>2, SinkAssumption DEF IInv, BufferInv
  <2> QED
    BY <2>1, <2>2, <2>3 DEF BufferInv
<1>5. ChannelInv'
  <2>1. changes' \in Seq(DOMAIN topic') /\ Len(changes') = 0 /\ DOMAIN changes' = {}
    BY <1>2, EmptyFacts
  <2>2. (\A k \in DOMAIN changes' : changes'[k] < rpos')
        /\ (\A j, k \in DOMAIN changes' : j < k => changes'[j] < changes'[k])
        /\ Len(changes') <= ChanCap
    <3>1. ChanCap \in Nat
      BY SinkAssumption
    <3> QED
      BY ONLY <2>1, <3>1
  <2>3. rpos' \in 1..(Len(topic') + 1) /\ consistent' \in BOOLEAN
    BY <1>2 DEF IInv, ChannelInv
  <2> QED
    BY <1>1, <1>2, <2>1, <2>2, <2>3 DEF ChannelInv
<1>6. NewInv'
  BY <1>1 DEF NewInv
<1> QED
  BY <1>2, <1>3, <1>4, <1>5, <1>6 DEF IInv

\* What a move of the checkpoint must be.
Advance ==
  /\ sources'.lsn > Covered
  /\ sources'.mid > sources.mid
  /\ topic[sources'.mid].type = "commit"
  /\ topic[sources'.mid].lsn = sources'.lsn

\* The checkpoint moves to the first message of the channel: what is behind
\* it in the topic, and so in the channel, stays new.
LEMMA CheckpointMoves ==
  ASSUME IInv, UNCHANGED <<fixed, srcVars>>, proc = "up", proc' = "up",
         changes # <<>>, changes' = Tail(changes), Msg.type = "commit",
         sources' = [lsn |-> Msg.lsn, mid |-> Head(changes)]
  PROVE  SourcesInv' /\ ChannelInv' /\ NewInv' /\ Advance
<1> DEFINE h == Head(changes)
<1>1. /\ h \in DOMAIN topic /\ h < rpos /\ h \in Nat /\ rpos \in Nat /\ New(h) /\ consistent
      /\ Tail(changes) \in Seq(DOMAIN topic)
      /\ Len(Tail(changes)) = Len(changes) - 1 /\ Len(changes) \in Nat
      /\ \A k \in DOMAIN Tail(changes) : /\ k + 1 \in DOMAIN changes /\ k \in Nat
                                          /\ Tail(changes)[k] = changes[k + 1]
                                          /\ Tail(changes)[k] > h
  BY HeadFacts
<1>2. /\ topic' = topic /\ base' = base /\ rpos' = rpos /\ consistent' = consistent
  BY DEF fixed, srcVars
<1>3. topic[h].type = "commit" /\ sources'.mid = h /\ sources'.lsn = topic[h].lsn
  BY DEF Msg
<1>4. /\ Len(topic) \in Nat /\ DOMAIN topic = 1..Len(topic)
      /\ topic[h].lsn \in Nat /\ topic[h].lsn > 0 /\ h # 0
  BY <1>1, TopicFacts DEF IInv
<1>5. SourcesInv'
  <2>1. sources' \in [lsn : Nat, mid : Nat]
    BY <1>1, <1>4 DEF Msg
  <2>2. topic' \in Topics /\ base' \in Nat
    BY <1>2 DEF IInv, SourcesInv
  <2> QED
    BY <1>1, <1>2, <1>3, <2>1, <2>2 DEF SourcesInv
<1>6. Advance
  BY <1>1, <1>3 DEF Advance, New
<1>7. Covered' = topic[h].lsn
  BY <1>3, <1>4 DEF Covered, FindCheckpoint
<1>8. \A j \in DOMAIN topic : j > h => topic'[j].lsn > Covered' /\ j > sources'.mid
  BY <1>1, <1>2, <1>3, <1>4, <1>7, TopicFacts DEF IInv
<1>9. ChannelInv'
  <2>1. Len(changes') <= ChanCap
    BY <1>1, SinkAssumption DEF IInv, ChannelInv
  <2>2. \A k \in DOMAIN changes' : changes'[k] < rpos
    BY <1>1 DEF IInv, ChannelInv
  <2>3. \A j, k \in DOMAIN changes' : j < k => changes'[j] < changes'[k]
    <3> SUFFICES ASSUME NEW j \in DOMAIN changes', NEW k \in DOMAIN changes', j < k
                 PROVE  changes'[j] < changes'[k]
      OBVIOUS
    <3>1. j + 1 \in DOMAIN changes /\ k + 1 \in DOMAIN changes /\ j + 1 < k + 1
      BY <1>1
    <3> QED
      BY <1>1, <3>1 DEF IInv, ChannelInv
  <2> QED
    BY <1>1, <1>2, <2>1, <2>2, <2>3 DEF IInv, ChannelInv
<1>10. NewInv'
  <2>1. \A k \in DOMAIN changes' : changes'[k] \in DOMAIN topic /\ changes'[k] > h
    BY <1>1, SeqFacts
  <2>2. \A i \in DOMAIN topic' : i >= rpos' => i \in DOMAIN topic /\ i > h
    BY <1>1, <1>2, <1>4
  <2> QED
    BY <1>1, <1>2, <1>8, <2>1, <2>2 DEF NewInv, New
<1> QED
  BY <1>5, <1>6, <1>9, <1>10

LEMMA ApplyCommitStep ==
  ASSUME IInv, ApplyCommit
  PROVE  IInv' /\ (sources' # sources => Advance)
<1>1. /\ UNCHANGED <<fixed, srcVars>> /\ crashes' = crashes /\ topic' = topic
      /\ proc = "up" /\ changes # <<>> /\ changes' = Tail(changes) /\ Msg.type = "commit"
  BY DEF ApplyCommit, Take, fixed
<1>2. \/ sources' = sources /\ proc' \in {"up", "failed"}
      \/ sources' = [lsn |-> Msg.lsn, mid |-> Head(changes)] /\ proc' = "up"
  BY <1>1 DEF ApplyCommit, HandleCommit, UpdateSource, Commit
<1>3. SourcesInv' /\ ChannelInv' /\ NewInv' /\ (sources' # sources => Advance)
  <2>1. CASE sources' = sources /\ proc' \in {"up", "failed"}
    <3>1. UNCHANGED <<fixed, sources, srcVars>>
      BY <1>1, <2>1
    <3> QED
      BY <1>1, <2>1, <3>1, TakeKeeps
  <2>2. CASE sources' = [lsn |-> Msg.lsn, mid |-> Head(changes)] /\ proc' = "up"
    BY <1>1, <2>2, CheckpointMoves
  <2> QED
    BY <1>2, <2>1, <2>2
<1>4. inserts' \in Seq(Record) /\ Len(inserts') <= MaxInserts
  <2>1. <<>> \in Seq(Record) /\ Len(<<>>) = 0
    BY EmptyFacts
  <2>2. inserts' = inserts \/ inserts' = <<>>
    BY DEF ApplyCommit, HandleCommit, bufVars
  <2>3. Len(<<>>) <= MaxInserts
    BY <2>1, SinkAssumption
  <2>4. inserts \in Seq(Record) /\ Len(inserts) <= MaxInserts
    BY DEF IInv, BufferInv
  <2> QED
    BY <2>1, <2>2, <2>3, <2>4
<1>5. pendingCommits' \in Seq(Nat) /\ (BatchTXSize > 0 => Len(pendingCommits') < BatchTXSize)
  <2>1. CASE pendingCommits' = pendingCommits \/ pendingCommits' = <<>>
    BY <2>1, SyncedBounds DEF IInv, BufferInv
  <2>2. CASE /\ pendingCommits' = Append(pendingCommits, Msg.lsn)
             /\ Len(Append(pendingCommits, Msg.lsn)) # BatchTXSize
    <3>1. Msg.lsn \in Nat
      BY <1>1, HeadFacts, TopicFacts DEF Msg, IInv
    <3>2. pendingCommits \in Seq(Nat) /\ (BatchTXSize > 0 => Len(pendingCommits) < BatchTXSize)
      BY DEF IInv, BufferInv
    <3>3. /\ Append(pendingCommits, Msg.lsn) \in Seq(Nat)
          /\ Len(Append(pendingCommits, Msg.lsn)) = Len(pendingCommits) + 1
          /\ Len(pendingCommits) \in Nat
      BY <3>1, <3>2, AppendFacts, SeqFacts
    <3> QED
      BY <2>2, <3>2, <3>3, SinkAssumption
  <2> QED
    BY <2>1, <2>2 DEF ApplyCommit, HandleCommit, EndsBatch, pipeVars
<1>6. BufferInv'
  BY <1>1, <1>4, <1>5 DEF IInv, BufferInv
<1> QED
  BY <1>3, <1>6 DEF IInv

\* Every step keeps the invariant, and moves the checkpoint only forward.
LEMMA NextStep ==
  ASSUME IInv, [Next]_vars
  PROVE  IInv' /\ (sources' # sources => Advance)
<1>1. CASE Start
  BY <1>1, StartStep DEF Start
<1>2. CASE Read
  BY <1>2, ReadStep DEF Read
<1>3. CASE ApplyBegin
  BY <1>3, ApplyBeginStep DEF ApplyBegin
<1>4. CASE ApplyChange
  BY <1>4, ApplyChangeStep DEF ApplyChange
<1>5. CASE ApplyDDL \/ ExecDDL \/ Crash
  BY <1>5, ApplyDDLStep, ExecDDLStep, CrashStep
<1>6. CASE ApplyCommit
  BY <1>6, ApplyCommitStep
<1>7. CASE UNCHANGED vars
  <2>1. /\ topic' = topic /\ base' = base /\ sources' = sources /\ proc' = proc
        /\ rpos' = rpos /\ cp' = cp /\ consistent' = consistent /\ changes' = changes
        /\ inserts' = inserts /\ pendingCommits' = pendingCommits /\ crashes' = crashes
    BY <1>7 DEF vars, fixed, srcVars, bufVars, pipeVars
  <2>2. /\ SourcesInv' /\ FindCheckpoint' = FindCheckpoint
        /\ \A i : New(i)' <=> New(i)
    BY <2>1, SourcesKept DEF IInv, fixed
  <2>3. BufferInv' /\ ChannelInv'
    BY <2>1, <2>2 DEF IInv, BufferInv, ChannelInv
  <2>4. NewInv'
    BY <2>1, <2>2 DEF IInv, NewInv
  <2> QED
    BY <2>1, <2>2, <2>3, <2>4 DEF IInv
<1> QED
  BY <1>1, <1>2, <1>3, <1>4, <1>5, <1>6, <1>7 DEF Next

-----------------------------------------------------------------------------
(* The history of the source.                                               *)

\* The messages up to an LSN are the first ones of the topic.
LEMMA UpToIs ==
  ASSUME SourcesInv, NEW l, NEW n \in 0..Len(topic),
         \A i \in DOMAIN topic : topic[i].lsn <= l <=> i <= n
  PROVE  UpTo(l) = n /\ SourceAt(l) = SourceStates(topic)[n]
<1>1. Len(topic) \in Nat /\ DOMAIN topic = 1..Len(topic)
  BY TopicFacts
<1> DEFINE P(k) == \A i \in DOMAIN topic : topic[i].lsn <= l <=> i <= k
<1>2. UpTo(l) \in 0..Len(topic) /\ P(UpTo(l))
  <2>1. P(n)
    OBVIOUS
  <2>2. UpTo(l) = CHOOSE k \in 0..Len(topic) : P(k)
    BY DEF UpTo
  <2> HIDE DEF P
  <2> QED
    BY <2>1, <2>2
<1>3. UpTo(l) = n
  <2> DEFINE k == UpTo(l)
  <2> HIDE DEF k
  <2>1. k \in 0..Len(topic) /\ \A i \in 1..Len(topic) : i <= n <=> i <= k
    BY <1>1, <1>2 DEF k
  <2>2. k = n
    BY <1>1, <2>1
  <2> QED
    BY <2>2 DEF k
<1> QED
  BY <1>3 DEF SourceAt

\* The messages of a topic in order divide at every LSN.
LEMMA UpToExists ==
  ASSUME SourcesInv, NEW l \in Nat
  PROVE  UpTo(l) \in 0..Len(topic) /\ \A i \in DOMAIN topic : topic[i].lsn <= l <=> i <= UpTo(l)
<1>1. /\ Len(topic) \in Nat /\ DOMAIN topic = 1..Len(topic)
      /\ \A i \in DOMAIN topic : topic[i].lsn \in Nat
      /\ \A i, j \in DOMAIN topic : i < j => topic[i].lsn <= topic[j].lsn
  BY TopicFacts
<1> DEFINE N == Len(topic)
           P(k) == \A i \in DOMAIN topic : topic[i].lsn <= l <=> i <= k
           S == {m \in 0..N : m = 0 \/ topic[m].lsn <= l}
<1>2. \E n \in 0..N : P(n)
  <2> SUFFICES ASSUME \A n \in 0..N : ~P(n)
               PROVE  FALSE
    OBVIOUS
  <2> HIDE DEF P
  <2>1. 0 \in S
    BY <1>1
  <2>2. ASSUME NEW i \in 1..N, i - 1 \in S
        PROVE  i \in S
    <3> SUFFICES ASSUME ~(topic[i].lsn <= l)
                 PROVE  FALSE
      BY <1>1
    <3>1. ASSUME NEW j \in DOMAIN topic
          PROVE  topic[j].lsn <= l <=> j <= i - 1
      <4>1. CASE j <= i - 1
        <5>1. i - 1 \in DOMAIN topic /\ topic[i - 1].lsn <= l
          BY <1>1, <2>2, <4>1
        <5>2. j = i - 1 \/ j < i - 1
          BY <1>1, <4>1
        <5>3. topic[j].lsn <= topic[i - 1].lsn
          BY <1>1, <5>1, <5>2
        <5> QED
          BY <1>1, <4>1, <5>1, <5>3
      <4>2. CASE ~(j <= i - 1)
        <5>1. i \in DOMAIN topic /\ (j = i \/ i < j)
          BY <1>1, <4>2
        <5>2. topic[i].lsn <= topic[j].lsn
          BY <1>1, <5>1
        <5> QED
          BY <1>1, <4>2, <5>1, <5>2
      <4> QED
        BY <4>1, <4>2
    <3>2. P(i - 1) /\ i - 1 \in 0..N
      BY <1>1, <3>1 DEF P
    <3> QED
      BY <3>2
  <2>3. 0..N \subseteq S
    <3> HIDE DEF S
    <3> QED
      BY <1>1, <2>1, <2>2, IntervalInduction
  <2>4. P(N)
    <3>1. \A i \in 1..N : topic[i].lsn <= l /\ i <= N
      BY <1>1, <2>3
    <3> QED
      BY <1>1, <3>1 DEF P
  <2> QED
    BY <1>1, <2>4
<1>3. UpTo(l) = CHOOSE k \in 0..N : P(k)
  BY DEF UpTo
<1>4. UpTo(l) \in 0..N /\ P(UpTo(l))
  <2> HIDE DEF P
  <2> QED
    BY <1>2, <1>3
<1> QED
  BY <1>4

\* The states of the source.
LEMMA HistoryFacts ==
  ASSUME SourcesInv
  PROVE  /\ SourceStates(topic)[0] = EmptyDB
         /\ \A i \in 0..Len(topic) : SourceStates(topic)[i] \in DB /\ ~SourceStates(topic)[i].failed
         /\ \A i \in 1..Len(topic) :
              /\ ~CompleteIn(topic, topic[i].lsn) => SourceStates(topic)[i] = SourceStates(topic)[i - 1]
              /\ topic[i].type \in {"begin", "commit"} =>
                   SourceStates(topic)[i] = SourceStates(topic)[i - 1]
              /\ topic[i].type = "change" /\ CompleteIn(topic, topic[i].lsn) =>
                   SourceStates(topic)[i] = Exec(SourceStates(topic)[i - 1], topic[i].stmt)
<1> DEFINE s == SourceStates(topic)
<1>1. /\ Len(topic) \in Nat /\ DOMAIN topic = 1..Len(topic) /\ topic \in Seq(Message)
      /\ \A i \in DOMAIN topic : topic[i] \in Message
  BY TopicFacts
<1>2. /\ s \in [0..Len(topic) -> DB] /\ s[0] = EmptyDB
      /\ \A i \in 1..Len(topic) : s[i] = SourceStep(topic, i, s[i - 1])
  BY <1>1, SourceStatesFacts
<1>3. \A i \in 0..Len(topic) : ~s[i].failed
  BY SinkAssumption DEF SourcesInv
<1> HIDE DEF s
<1>4. ASSUME NEW i \in 1..Len(topic)
      PROVE  /\ ~CompleteIn(topic, topic[i].lsn) => s[i] = s[i - 1]
             /\ topic[i].type \in {"begin", "commit"} => s[i] = s[i - 1]
             /\ topic[i].type = "change" /\ CompleteIn(topic, topic[i].lsn) =>
                  s[i] = Exec(s[i - 1], topic[i].stmt)
  <2>1. topic[i] \in Message /\ s[i - 1] \in DB /\ s[i] = SourceStep(topic, i, s[i - 1])
    BY <1>1, <1>2
  <2>2. ~CompleteIn(topic, topic[i].lsn) => s[i] = s[i - 1]
    BY <2>1 DEF SourceStep
  <2>3. topic[i].type \in {"begin", "commit"} => s[i] = s[i - 1]
    <3>1. ExecAll(s[i - 1], <<>>) = s[i - 1]
      BY <2>1, ExecAllFacts, EmptyFacts
    <3>2. topic[i].type \in {"begin", "commit"} => SourceStatements(topic[i]) = <<>>
      BY <2>1, StatementsType
    <3> QED
      BY <2>1, <3>1, <3>2 DEF SourceStep
  <2>4. topic[i].type = "change" /\ CompleteIn(topic, topic[i].lsn) => s[i] = Exec(s[i - 1], topic[i].stmt)
    <3> SUFFICES ASSUME topic[i].type = "change", CompleteIn(topic, topic[i].lsn)
                 PROVE  s[i] = Exec(s[i - 1], topic[i].stmt)
      OBVIOUS
    <3>1. ~Repeated(topic, i)
      BY DEF Repeated
    <3>2. SourceStatements(topic[i]) = <<topic[i].stmt>> /\ topic[i].stmt \in AnyStatement
      BY <2>1, StatementsType DEF AnyStatement
    <3>3. s[i] = ExecAll(s[i - 1], <<topic[i].stmt>>)
      BY <2>1, <3>1, <3>2 DEF SourceStep
    <3>4. ExecAll(s[i - 1], <<topic[i].stmt>>) = Exec(s[i - 1], topic[i].stmt)
      BY <2>1, <3>2, ExecOne
    <3> QED
      BY <3>3, <3>4
  <2> QED
    BY <2>2, <2>3, <2>4
<1> QED
  BY <1>2, <1>3, <1>4 DEF s

-----------------------------------------------------------------------------
(* Types.                                                                   *)

\* What the sink has collected, as statements.
LEMMA FlushedType ==
  ASSUME IInv, TypeInv
  PROVE  /\ Flushed \in Seq(Statement) /\ Sent \in Seq(Statement)
         /\ inserts # <<>> => [op |-> "INSERTS", rows |-> inserts] \in Statement
<1>1. /\ inserts \in Seq(Record) /\ pendingChanges \in Seq(Statement)
      /\ pipeline \in Seq(Statement)
  BY DEF IInv, BufferInv, TypeInv
<1>2. [op |-> "INSERTS", rows |-> inserts] \in Statement
  BY <1>1 DEF Statement
<1>3. Flushed \in Seq(Statement)
  BY <1>1, <1>2, AppendFacts DEF Flushed
<1>4. Sent \in Seq(Statement)
  BY <1>1, <1>3 DEF Sent
<1> QED
  BY <1>2, <1>3, <1>4

LEMMA AnySeq ==
  /\ \A q \in Seq(Statement) : q \in Seq(AnyStatement)
  /\ \A q \in Seq(DML \cup DDL) : q \in Seq(AnyStatement)
<1>1. Statement \subseteq AnyStatement /\ DML \cup DDL \subseteq AnyStatement
  BY DEF AnyStatement
<1> DEFINE C == DML \cup DDL
<1> HIDE DEF C
<1>2. \A S, T : S \subseteq T => \A q \in Seq(S) : q \in Seq(T)
  OBVIOUS
<1> QED
  BY <1>1, <1>2

\* The checkpoint that Setup finds.
LEMMA CheckpointType ==
  ASSUME SourcesInv, base \in LSNs \cup {0}
  PROVE  /\ FindCheckpoint \in [lsn : LSNs \cup {0}, mid : 0..Len(topic)]
         /\ sources \in [lsn : LSNs \cup {0}, mid : 0..Len(topic)]
<1>1. Len(topic) \in Nat /\ DOMAIN topic = 1..Len(topic)
  BY TopicFacts
<1>2. sources \in [lsn : LSNs \cup {0}, mid : 0..Len(topic)]
  <2>1. CASE sources = Fresh
    BY <1>1, <2>1 DEF Fresh
  <2>2. CASE sources # Fresh
    <3>1. sources.mid \in DOMAIN topic /\ sources.lsn \in LSNs
      BY <2>2 DEF SourcesInv, LSNs
    <3> QED
      BY <1>1, <3>1 DEF SourcesInv
  <2> QED
    BY <2>1, <2>2
<1> QED
  BY <1>1, <1>2 DEF FindCheckpoint

LEMMA InitType ==
  ASSUME Init, IInv
  PROVE  TypeInv
<1>1. /\ base \in LSNs \cup {0} /\ target = SourceAt(base)
      /\ cp = Fresh /\ inTX = FALSE /\ skip = {} /\ ahead = 0
  BY DEF Init
<1>2. SourcesInv /\ base \in Nat
  BY DEF IInv, SourcesInv
<1>3. target \in DB /\ ~target.failed
  BY <1>1, <1>2, UpToExists, HistoryFacts DEF SourceAt
<1>4. cp \in [lsn : LSNs \cup {0}, mid : 0..Len(topic)]
  BY <1>1, <1>2, TopicFacts DEF Fresh
<1>5. pendingChanges \in Seq(Statement) /\ pipeline \in Seq(Statement) /\ ddl \in Seq(DML \cup DDL)
  <2>1. pendingChanges = <<>> /\ pipeline = <<>> /\ ddl = <<>>
    BY DEF Init
  <2> QED
    BY <2>1, EmptyFacts
<1> QED
  BY <1>1, <1>3, <1>4, <1>5 DEF TypeInv

\* The actions that leave the buffers, the target and the commands alone.
LEMMA StartReadType ==
  ASSUME IInv, TypeInv, Start \/ Read
  PROVE  TypeInv'
<1>1. /\ topic' = topic /\ base' = base /\ target' = target /\ inTX' = inTX /\ skip' = skip
      /\ pendingChanges' = pendingChanges /\ pipeline' = pipeline /\ ddl' = ddl /\ ahead' = ahead
      /\ cp' = cp \/ cp' = FindCheckpoint
  BY DEF Start, Read, fixed, txVars, bufVars, pipeVars
<1>2. LSNs' = LSNs
  BY <1>1 DEF LSNs
<1>3. cp' \in [lsn : LSNs \cup {0}, mid : 0..Len(topic)]
  BY <1>1, CheckpointType DEF IInv, TypeInv
<1> QED
  BY <1>1, <1>2, <1>3 DEF TypeInv

LEMMA CrashType ==
  ASSUME IInv, TypeInv, Crash
  PROVE  TypeInv'
<1>1. /\ topic' = topic /\ base' = base /\ target' = target /\ inTX' = FALSE /\ skip' = {}
      /\ cp' = cp /\ ahead' = ahead
  BY DEF Crash, fixed, srcVars
<1>2. LSNs' = LSNs
  BY <1>1 DEF LSNs
<1>3. pendingChanges' \in Seq(Statement) /\ pipeline' \in Seq(Statement)
      /\ ddl' \in Seq(DML \cup DDL)
  <2>1. pendingChanges' = <<>> /\ pipeline' = <<>> /\ ddl' = <<>>
    BY DEF Crash
  <2> QED
    BY <2>1, EmptyFacts
<1> QED
  BY <1>1, <1>2, <1>3 DEF TypeInv

LEMMA ApplyBeginType ==
  ASSUME IInv, TypeInv, ApplyBegin
  PROVE  TypeInv'
<1>1. /\ topic' = topic /\ base' = base /\ target' = target /\ inTX' = TRUE /\ skip' = skip
      /\ cp' = cp /\ ahead' = ahead /\ pipeline' = pipeline /\ ddl' = ddl
  BY DEF ApplyBegin, fixed, srcVars, pipeVars
<1>2. LSNs' = LSNs
  BY <1>1 DEF LSNs
<1>3. pendingChanges' \in Seq(Statement)
  <2>1. pendingChanges' = <<>> \/ pendingChanges' = pendingChanges
    BY DEF ApplyBegin
  <2> QED
    BY <2>1, EmptyFacts DEF TypeInv
<1> QED
  BY <1>1, <1>2, <1>3 DEF TypeInv

\* The message that the sink takes, by its type.
LEMMA MsgFacts ==
  ASSUME IInv, NEW ty, Take(ty)
  PROVE  /\ Head(changes) \in DOMAIN topic /\ Msg \in Message /\ Msg.lsn \in LSNs
         /\ Msg.lsn \in Nat /\ Msg.lsn > 0
         /\ Msg.type = ty
         /\ ty = "change" => /\ Msg.stmt \in DML
                             /\ Msg.stmt.op # "INSERT" => Msg.stmt \in Statement
                             /\ Msg.stmt.op = "INSERT" => Msg.stmt.row \in Rows /\ Msg.stmt.val \in Values
         /\ ty = "ddl" => Msg.query \in Seq(DML \cup DDL)
<1>1. Head(changes) \in DOMAIN topic
  BY HeadFacts DEF Take
<1>2. Msg \in Message /\ Msg.lsn \in Nat /\ Msg.lsn > 0
  BY <1>1, TopicFacts DEF IInv, Msg
<1>3. Msg.lsn \in LSNs
  BY <1>1 DEF LSNs, Msg
<1>4. Msg.type = ty
  BY DEF Take
<1>5. ty = "change" => Msg.stmt \in DML
  BY <1>2, <1>4, StatementsType
<1>6. ty = "ddl" => Msg.query \in Seq(DML \cup DDL)
  BY <1>2, <1>4, StatementsType
<1>7. ty = "change" => /\ Msg.stmt.op # "INSERT" => Msg.stmt \in Statement
                       /\ Msg.stmt.op = "INSERT" => Msg.stmt.row \in Rows /\ Msg.stmt.val \in Values
  BY <1>5 DEF DML, Statement
<1> QED
  BY <1>1, <1>2, <1>3, <1>4, <1>5, <1>6, <1>7

LEMMA ApplyChangeType ==
  ASSUME IInv, TypeInv, ApplyChange
  PROVE  TypeInv'
<1>1. /\ topic' = topic /\ base' = base /\ target' = target /\ inTX' = inTX /\ skip' = skip
      /\ cp' = cp /\ ahead' = ahead /\ pipeline' = pipeline /\ ddl' = ddl
  BY DEF ApplyChange, fixed, srcVars, txVars, pipeVars
<1>2. LSNs' = LSNs
  BY <1>1 DEF LSNs
<1>3. pendingChanges' \in Seq(Statement)
  <2>1. pendingChanges \in Seq(Statement) /\ Flushed \in Seq(Statement)
    BY FlushedType DEF TypeInv
  <2>2. \/ pendingChanges' = pendingChanges
        \/ pendingChanges' = Flushed
        \/ Msg.stmt.op # "INSERT" /\ pendingChanges' = Append(Flushed, Msg.stmt)
    BY DEF ApplyChange, bufVars, HandleInsert, HandleUpdateDelete
  <2>3. Msg.stmt.op # "INSERT" => Msg.stmt \in Statement
    BY MsgFacts DEF ApplyChange
  <2> QED
    BY <2>1, <2>2, <2>3, AppendFacts
<1> QED
  BY <1>1, <1>2, <1>3 DEF TypeInv

LEMMA ApplyDDLType ==
  ASSUME IInv, TypeInv, ApplyDDL
  PROVE  TypeInv'
<1>1. topic' = topic /\ base' = base /\ inTX' = inTX /\ cp' = cp
  BY DEF ApplyDDL, fixed, srcVars
<1>2. LSNs' = LSNs
  BY <1>1 DEF LSNs
<1>3. Msg.lsn \in LSNs /\ Msg.query \in Seq(DML \cup DDL) /\ Msg.lsn \in Nat
  BY MsgFacts DEF ApplyDDL
<1>4. CASE ~IsNewDDL(Msg.query)
  <2>1. /\ target' = target /\ skip' = skip /\ ahead' = ahead /\ pipeline' = pipeline
        /\ ddl' = ddl /\ pendingChanges' = pendingChanges
    BY <1>4 DEF ApplyDDL, pipeVars
  <2> QED
    BY <1>1, <1>2, <2>1 DEF TypeInv
<1>5. CASE IsNewDDL(Msg.query)
  <2>1. PerformDDL(Msg.query)
    BY <1>5 DEF ApplyDDL
  <2>2. pendingChanges' \in Seq(Statement) /\ pipeline' \in Seq(Statement)
    <3>1. pendingChanges' = <<>> /\ pipeline' = <<>>
      BY <2>1 DEF PerformDDL
    <3> QED
      BY <3>1, EmptyFacts
  <2>3. target' \in DB /\ ~target'.failed
    <3>1. pipeline \in Seq(AnyStatement) /\ target \in DB /\ ~target.failed
      BY AnySeq DEF TypeInv
    <3>2. \/ UNCHANGED target
          \/ target' = ExecAll(target, pipeline) /\ ~ExecAll(target, pipeline).failed
      BY <2>1 DEF PerformDDL, Commit
    <3> QED
      BY <3>1, <3>2, ExecAllFacts
  <2>4. ddl' \in Seq(DML \cup DDL)
    <3>1. ddl' = Without(Msg.query, {"REFRESH"})
      BY <2>1 DEF PerformDDL, Command
    <3> QED
      BY <1>3, <3>1, WithoutType
  <2>5. skip' \subseteq {Table(r) : r \in Rows}
    <3>1. skip' = {Table(s.row) : s \in {t \in ToSet(Msg.query) : IsDML(t)}}
      BY <2>1 DEF PerformDDL, Relations
    <3>2. \A t \in ToSet(Msg.query) : t \in DML \cup DDL
      BY <1>3, SeqFacts DEF ToSet
    <3>3. \A t \in DML \cup DDL : IsDML(t) => t.row \in Rows
      BY DEF DML, DDL, IsDML
    <3> QED
      BY <3>1, <3>2, <3>3
  <2>6. ahead' \in LSNs \cup {0}
    <3>1. ahead' = Max({ahead, Msg.lsn})
      BY <2>1 DEF PerformDDL
    <3>2. ahead \in LSNs \cup {0} /\ ahead \in Nat
      BY TopicFacts DEF TypeInv, LSNs, IInv
    <3>3. \E x \in {ahead, Msg.lsn} : \A y \in {ahead, Msg.lsn} : x >= y
      BY <1>3, <3>2
    <3>4. Max({ahead, Msg.lsn}) \in {ahead, Msg.lsn}
      BY <3>3 DEF Max
    <3> QED
      BY <1>3, <3>1, <3>2, <3>4
  <2> QED
    BY <1>1, <1>2, <2>2, <2>3, <2>4, <2>5, <2>6 DEF TypeInv
<1> QED
  BY <1>4, <1>5

LEMMA ExecDDLType ==
  ASSUME IInv, TypeInv, ExecDDL
  PROVE  TypeInv'
<1>1. /\ topic' = topic /\ base' = base /\ inTX' = inTX /\ skip' = skip
      /\ cp' = cp /\ ahead' = ahead /\ pipeline' = pipeline /\ pendingChanges' = pendingChanges
  BY DEF ExecDDL, fixed, srcVars, txVars, bufVars, pipeVars
<1>2. LSNs' = LSNs
  BY <1>1 DEF LSNs
<1>3. ddl' \in Seq(DML \cup DDL)
  <2>1. ddl' = <<>>
    BY DEF ExecDDL
  <2> QED
    BY <2>1, EmptyFacts
<1>4. target' \in DB /\ ~target'.failed
  <2>1. ddl \in Seq(AnyStatement) /\ target \in DB /\ ~target.failed
    BY AnySeq DEF TypeInv
  <2>2. \/ UNCHANGED target
        \/ target' = ExecAll(target, ddl) /\ ~ExecAll(target, ddl).failed
    BY DEF ExecDDL, Commit
  <2> QED
    BY <2>1, <2>2, ExecAllFacts
<1> QED
  BY <1>1, <1>2, <1>3, <1>4 DEF TypeInv

LEMMA ApplyCommitType ==
  ASSUME IInv, TypeInv, ApplyCommit
  PROVE  TypeInv'
<1>1. /\ topic' = topic /\ base' = base /\ inTX' = FALSE /\ skip' = {}
      /\ cp' = cp /\ ahead' = ahead /\ ddl' = ddl
  BY DEF ApplyCommit, fixed, srcVars
<1>2. LSNs' = LSNs
  BY <1>1 DEF LSNs
<1>3. Sent \in Seq(Statement) /\ Sent \in Seq(AnyStatement)
  BY FlushedType, AnySeq
<1>4. pendingChanges' \in Seq(Statement)
  <2>1. pendingChanges' = <<>> \/ pendingChanges' = pendingChanges
    BY DEF ApplyCommit, HandleCommit, bufVars
  <2> QED
    BY <2>1, EmptyFacts DEF TypeInv
<1>5. pipeline' \in Seq(Statement)
  <2>1. pipeline' = <<>> \/ pipeline' = pipeline \/ pipeline' = Sent
    BY DEF ApplyCommit, HandleCommit, pipeVars, Sent
  <2> QED
    BY <1>3, <2>1, EmptyFacts DEF TypeInv
<1>6. target' \in DB /\ ~target'.failed
  <2>1. target \in DB /\ ~target.failed
    BY DEF TypeInv
  <2>2. \/ UNCHANGED target
        \/ target' = ExecAll(target, Sent) /\ ~ExecAll(target, Sent).failed
    BY DEF ApplyCommit, HandleCommit, Commit, Sent
  <2> QED
    BY <1>3, <2>1, <2>2, ExecAllFacts
<1> QED
  BY <1>1, <1>2, <1>4, <1>5, <1>6 DEF TypeInv

LEMMA NextType ==
  ASSUME IInv, TypeInv, [Next]_vars
  PROVE  TypeInv'
<1>1. CASE UNCHANGED vars
  <2>1. /\ topic' = topic /\ base' = base /\ target' = target /\ inTX' = inTX /\ skip' = skip
        /\ cp' = cp /\ pendingChanges' = pendingChanges /\ pipeline' = pipeline /\ ddl' = ddl
        /\ ahead' = ahead
    BY <1>1 DEF vars, fixed, srcVars, txVars, bufVars, pipeVars
  <2> QED
    BY <2>1 DEF TypeInv, LSNs
<1> QED
  BY <1>1, StartReadType, CrashType, ApplyBeginType, ApplyChangeType, ApplyDDLType, ExecDDLType,
     ApplyCommitType DEF Next

-----------------------------------------------------------------------------
(* Transactions in a topic.                                                 *)

\* The Begin of a complete transaction is not behind any of its messages.
LEMMA BeginBefore ==
  ASSUME SourcesInv, Whole(topic), NEW i \in DOMAIN topic, CompleteIn(topic, topic[i].lsn)
  PROVE  \E b \in 1..i : topic[b].type = "begin" /\ topic[b].lsn = topic[i].lsn
<1>1. /\ Len(topic) \in Nat /\ DOMAIN topic = 1..Len(topic)
      /\ \A k \in DOMAIN topic : topic[k].lsn \in Nat
  BY TopicFacts
<1>2. PICK b \in DOMAIN topic, c \in DOMAIN topic :
        /\ b < c /\ topic[b].type = "begin" /\ \A k \in b..c : topic[k].lsn = topic[i].lsn
  BY DEF CompleteIn
<1>3. topic[b].lsn = topic[i].lsn
  BY <1>1, <1>2
<1>4. \A j \in 1..(b - 1) : topic[j].lsn < topic[b].lsn
  BY <1>2 DEF Whole
<1>5. b <= i
  BY <1>1, <1>3, <1>4
<1> QED
  BY <1>1, <1>2, <1>3, <1>5

\* Between transactions only a Begin starts one that is complete.
LEMMA BetweenNext ==
  ASSUME SourcesInv, Whole(topic), NEW q \in 0..Len(topic), q + 1 \in DOMAIN topic,
         ~Cut(topic, q), topic[q + 1].type # "begin"
  PROVE  ~CompleteIn(topic, topic[q + 1].lsn) /\ ~Cut(topic, q + 1)
<1>1. Len(topic) \in Nat /\ DOMAIN topic = 1..Len(topic)
  BY TopicFacts
<1>2. ~CompleteIn(topic, topic[q + 1].lsn)
  <2> SUFFICES ASSUME CompleteIn(topic, topic[q + 1].lsn)
               PROVE  FALSE
    OBVIOUS
  <2>1. PICK b \in 1..(q + 1) : topic[b].type = "begin" /\ topic[b].lsn = topic[q + 1].lsn
    BY BeginBefore
  <2>2. b \in 1..q /\ q + 1 \in (q + 1)..Len(topic)
    BY <1>1, <2>1
  <2> QED
    BY <2>1, <2>2 DEF Cut
<1>3. ~Cut(topic, q + 1)
  <2> SUFFICES ASSUME NEW i \in 1..(q + 1), NEW j \in ((q + 1) + 1)..Len(topic),
                      topic[i].lsn = topic[j].lsn, CompleteIn(topic, topic[i].lsn)
               PROVE  FALSE
    BY DEF Cut
  <2>1. i # q + 1
    BY <1>2
  <2>2. i \in 1..q /\ j \in (q + 1)..Len(topic)
    BY <1>1, <2>1
  <2> QED
    BY <2>2 DEF Cut
<1> QED
  BY <1>2, <1>3

\* A Commit is the end of its transaction.
LEMMA CommitEnds ==
  ASSUME SourcesInv, NEW h \in DOMAIN topic, topic[h].type = "commit"
  PROVE  /\ ~Cut(topic, h)
         /\ \A i \in DOMAIN topic : topic[i].lsn <= topic[h].lsn <=> i <= h
<1>1. /\ Len(topic) \in Nat /\ DOMAIN topic = 1..Len(topic)
      /\ \A i \in DOMAIN topic : topic[i].lsn \in Nat
      /\ \A i, j \in DOMAIN topic : i < j => topic[i].lsn <= topic[j].lsn
      /\ \A i, j \in DOMAIN topic : i < j /\ topic[i].type = "commit" => topic[i].lsn < topic[j].lsn
  BY TopicFacts
<1>2. ASSUME NEW i \in DOMAIN topic
      PROVE  topic[i].lsn <= topic[h].lsn <=> i <= h
  <2>1. CASE i < h
    BY <1>1, <2>1
  <2>2. CASE i = h
    BY <1>1, <2>2
  <2>3. CASE h < i
    BY <1>1, <2>3
  <2> QED
    BY <1>1, <2>1, <2>2, <2>3
<1>3. ~Cut(topic, h)
  <2> SUFFICES ASSUME NEW i \in 1..h, NEW j \in (h + 1)..Len(topic), topic[i].lsn = topic[j].lsn
               PROVE  FALSE
    BY DEF Cut
  <2>1. i \in DOMAIN topic /\ j \in DOMAIN topic /\ i <= h /\ ~(j <= h)
    BY <1>1
  <2> QED
    BY <1>2, <2>1
<1> QED
  BY <1>2, <1>3

\* Inside of a transaction, until its Commit, the next message is of the same
\* transaction, and is not a Begin.
LEMMA InsideNext ==
  ASSUME SourcesInv, Whole(topic), NEW q \in DOMAIN topic, q + 1 \in DOMAIN topic,
         topic[q].type # "commit",
         NEW b \in 1..q, topic[b].type = "begin", topic[b].lsn = topic[q].lsn
  PROVE  topic[q + 1].lsn = topic[q].lsn /\ topic[q + 1].type # "begin"
<1>1. /\ Len(topic) \in Nat /\ DOMAIN topic = 1..Len(topic)
      /\ \A i \in DOMAIN topic : topic[i].lsn \in Nat
      /\ \A i, j \in DOMAIN topic : i < j => topic[i].lsn <= topic[j].lsn
      /\ \A i, j \in DOMAIN topic : i < j /\ topic[i].type = "commit" => topic[i].lsn < topic[j].lsn
  BY TopicFacts
<1>2. topic[q].lsn <= topic[q + 1].lsn /\ b \in DOMAIN topic
  BY <1>1
<1>3. topic[q + 1].lsn = topic[q].lsn
  <2> SUFFICES ASSUME topic[q + 1].lsn > topic[b].lsn
               PROVE  FALSE
    BY <1>1, <1>2
  <2>1. CompleteIn(topic, topic[b].lsn)
    BY <1>2 DEF Whole
  <2>2. PICK i \in DOMAIN topic, j \in DOMAIN topic :
          i < j /\ topic[j].type = "commit" /\ \A k \in i..j : topic[k].lsn = topic[b].lsn
    BY <2>1 DEF CompleteIn
  <2>3. topic[j].lsn = topic[b].lsn
    BY <1>1, <2>2
  <2>4. CASE j < q
    BY <1>1, <2>2, <2>3, <2>4
  <2>5. CASE j = q
    BY <2>2, <2>5
  <2>6. CASE j = q + 1
    BY <1>1, <1>2, <2>3, <2>6
  <2>7. CASE q + 1 < j
    BY <1>1, <1>2, <2>3, <2>7
  <2> QED
    BY <1>1, <2>4, <2>5, <2>6, <2>7
<1>4. topic[q + 1].type # "begin"
  <2> SUFFICES ASSUME topic[q + 1].type = "begin"
               PROVE  FALSE
    OBVIOUS
  <2>1. \A j \in 1..((q + 1) - 1) : topic[j].lsn < topic[q + 1].lsn
    BY DEF Whole
  <2>2. q \in 1..((q + 1) - 1)
    BY <1>1
  <2>3. topic[q].lsn < topic[q + 1].lsn
    BY <2>1, <2>2
  <2> QED
    BY <1>1, <1>3, <2>3
<1> QED
  BY <1>3, <1>4

\* A transaction with a Begin and a Commit is complete.
LEMMA BeginToCommit ==
  ASSUME SourcesInv, NEW h \in DOMAIN topic, NEW b \in DOMAIN topic, b < h,
         topic[b].type = "begin", topic[h].type = "commit", topic[b].lsn = topic[h].lsn
  PROVE  CompleteIn(topic, topic[h].lsn)
<1>1. /\ Len(topic) \in Nat /\ DOMAIN topic = 1..Len(topic)
      /\ \A i \in DOMAIN topic : topic[i].lsn \in Nat
      /\ \A i, j \in DOMAIN topic : i < j => topic[i].lsn <= topic[j].lsn
  BY TopicFacts
<1>2. ASSUME NEW k \in b..h
      PROVE  topic[k].lsn = topic[h].lsn
  <2>1. k \in DOMAIN topic /\ (k = b \/ b < k) /\ (k = h \/ k < h)
    BY <1>1
  <2>2. topic[b].lsn <= topic[k].lsn /\ topic[k].lsn <= topic[h].lsn
    BY <1>1, <2>1
  <2> QED
    BY <1>1, <2>1, <2>2
<1> QED
  BY <1>2 DEF CompleteIn

\* Messages in front of the first Begin belong to no complete transaction: the
\* source is where it was.
LEMMA BeforeBegin ==
  ASSUME SourcesInv, Whole(topic), NEW n \in 0..Len(topic),
         \A i \in 1..n : topic[i].type # "begin"
  PROVE  SourceStates(topic)[n] = SourceStates(topic)[0] /\ ~Cut(topic, n)
<1>1. Len(topic) \in Nat /\ DOMAIN topic = 1..Len(topic) /\ n \in Nat
  BY TopicFacts
<1>2. ASSUME NEW i \in 1..n
      PROVE  ~CompleteIn(topic, topic[i].lsn)
  <2> SUFFICES ASSUME CompleteIn(topic, topic[i].lsn)
               PROVE  FALSE
    OBVIOUS
  <2>1. i \in DOMAIN topic
    BY <1>1
  <2>2. PICK b \in 1..i : topic[b].type = "begin"
    BY <2>1, BeginBefore
  <2>3. b \in 1..n
    BY <1>1, <2>2
  <2> QED
    BY <2>2, <2>3
<1> DEFINE s == SourceStates(topic)
           e == s[0]
           T == {i \in 0..n : s[i] = e}
<1>3. 0 \in T
  BY <1>1
<1>4. ASSUME NEW i \in 1..n, i - 1 \in T
      PROVE  i \in T
  <2>1. i \in 1..Len(topic)
    BY <1>1
  <2>2. s[i] = s[i - 1]
    BY <1>2, <2>1, HistoryFacts
  <2> HIDE DEF s, e
  <2> QED
    BY <1>1, <1>4, <2>2
<1>5. 0..n \subseteq T
  <2> HIDE DEF T
  <2> QED
    BY <1>1, <1>3, <1>4, IntervalInduction
<1>6. s[n] = s[0]
  <2> HIDE DEF s
  <2> QED
    BY <1>1, <1>5
<1>7. ~Cut(topic, n)
  BY <1>2 DEF Cut
<1> QED
  BY <1>6, <1>7

-----------------------------------------------------------------------------
(* The reader and the channel.                                              *)

\* The message at the head of the channel is the one behind the last taken.
LEMMA TakenFacts ==
  ASSUME IInv, ConsecutiveInv, proc = "up", changes # <<>>
  PROVE  /\ Taken \in 0..Len(topic) /\ Head(changes) = Taken + 1 /\ Taken + 1 \in DOMAIN topic
         /\ consistent
<1>1. /\ consistent /\ Head(changes) \in DOMAIN topic /\ changes \in Seq(DOMAIN topic)
  BY HeadFacts DEF IInv, ChannelInv
<1>2. Taken \in 0..Len(topic) /\ \A k \in DOMAIN changes : changes[k] = Taken + k
  BY <1>1 DEF ConsecutiveInv
<1>3. 1 \in DOMAIN changes /\ Head(changes) = changes[1]
  BY <1>1, TailFacts
<1> QED
  BY <1>1, <1>2, <1>3

\* The sink takes a message and leaves the others where they are.
LEMMA TakeConsecutive ==
  ASSUME IInv, ConsecutiveInv, proc = "up", changes # <<>>, changes' = Tail(changes),
         topic' = topic, rpos' = rpos, consistent' = consistent
  PROVE  ConsecutiveInv' /\ Taken' = Taken + 1
<1>1. /\ Taken \in 0..Len(topic) /\ Taken + 1 \in DOMAIN topic /\ consistent
  BY TakenFacts
<1>2. /\ Len(Tail(changes)) = Len(changes) - 1 /\ Len(changes) \in Nat /\ rpos \in Nat
      /\ \A k \in DOMAIN Tail(changes) : /\ k + 1 \in DOMAIN changes /\ k \in Nat
                                          /\ Tail(changes)[k] = changes[k + 1]
  BY HeadFacts
<1>3. Taken' = Taken + 1
  BY <1>2 DEF Taken
<1>4. Len(topic) \in Nat /\ DOMAIN topic = 1..Len(topic)
  BY TopicFacts DEF IInv
<1>5. Taken + 1 \in 0..Len(topic)
  BY <1>1, <1>4
<1>6. \A k \in DOMAIN changes : changes[k] = Taken + k
  BY <1>1 DEF ConsecutiveInv
<1>7. \A k \in DOMAIN changes' : changes'[k] = (Taken + 1) + k
  <2> SUFFICES ASSUME NEW k \in DOMAIN Tail(changes)
               PROVE  Tail(changes)[k] = (Taken + 1) + k
    OBVIOUS
  <2>1. Tail(changes)[k] = Taken + (k + 1) /\ k \in Nat /\ Taken \in Nat
    BY <1>1, <1>2, <1>4, <1>6
  <2> QED
    BY <2>1
<1>8. Taken' \in 0..Len(topic') /\ \A k \in DOMAIN changes' : changes'[k] = Taken' + k
  BY <1>3, <1>5, <1>7
<1> QED
  BY <1>3, <1>8 DEF ConsecutiveInv

\* The reader puts a message into the channel: it is the next one.
LEMMA ReadConsecutive ==
  ASSUME IInv, ConsecutiveInv, Read
  PROVE  /\ ConsecutiveInv'
         /\ consistent => Taken' = Taken
         /\ ~consistent /\ consistent' => Taken' = rpos - 1
<1>1. /\ proc = "up" /\ topic' = topic /\ rpos' = rpos + 1 /\ rpos <= Len(topic)
      /\ consistent' = Delivers(topic[rpos])
      /\ changes' = IF Delivers(topic[rpos]) THEN Append(changes, rpos) ELSE changes
  BY DEF Read, fixed
<1>2. /\ rpos \in 1..Len(topic) /\ Len(topic) \in Nat /\ DOMAIN topic = 1..Len(topic)
      /\ changes \in Seq(DOMAIN topic) /\ Len(changes) \in Nat /\ DOMAIN changes = 1..Len(changes)
      /\ consistent \in BOOLEAN /\ rpos \in Nat
  BY <1>1, TopicFacts, SeqFacts DEF IInv, ChannelInv
<1>3. CASE ~Delivers(topic[rpos])
  <2>1. consistent = FALSE /\ consistent' = FALSE
    BY <1>1, <1>2, <1>3 DEF Delivers
  <2> QED
    BY <2>1 DEF ConsecutiveInv
<1>4. CASE Delivers(topic[rpos])
  <2>1. /\ changes' = Append(changes, rpos) /\ Len(changes') = Len(changes) + 1
        /\ DOMAIN changes' = DOMAIN changes \cup {Len(changes) + 1}
        /\ \A k \in DOMAIN changes : changes'[k] = changes[k]
        /\ changes'[Len(changes) + 1] = rpos
    BY <1>1, <1>2, <1>4, AppendFacts
  <2>2. Taken' = Taken /\ Taken = (rpos - 1) - Len(changes) /\ Taken \in Int
    BY <1>1, <1>2, <2>1 DEF Taken
  <2>3. /\ Taken \in 0..Len(topic) /\ \A k \in DOMAIN changes : changes[k] = Taken + k
        /\ ~consistent => Taken = rpos - 1
    <3>1. CASE consistent
      BY <1>1, <3>1 DEF ConsecutiveInv
    <3>2. CASE ~consistent
      <4>1. changes = <<>> /\ Len(changes) = 0 /\ DOMAIN changes = {}
        BY <1>1, <3>2, EmptyFacts DEF IInv, NewInv
      <4> QED
        BY <1>2, <2>2, <4>1
    <3> QED
      BY <3>1, <3>2
  <2>4. \A k \in DOMAIN changes' : changes'[k] = Taken + k
    <3>1. rpos = Taken + (Len(changes) + 1)
      BY <1>2, <2>2
    <3> QED
      BY <2>1, <2>3, <3>1
  <2>5. ConsecutiveInv'
    BY <1>1, <2>2, <2>3, <2>4 DEF ConsecutiveInv
  <2> QED
    BY <2>2, <2>3, <2>5
<1> QED
  BY <1>3, <1>4

LEMMA InitReader ==
  ASSUME Init
  PROVE  ConsecutiveInv /\ SkippedInv
BY DEF Init, ConsecutiveInv, SkippedInv

\* Where Capture starts to read, everything behind it is covered.
LEMMA StartReader ==
  ASSUME IInv, TypeInv, Start
  PROVE  ConsecutiveInv' /\ SkippedInv'
<1>1. /\ topic' = topic /\ cp' = FindCheckpoint /\ rpos' \in ReaderStarts(FindCheckpoint)
      /\ consistent' = FALSE
  BY DEF Start, fixed
<1>2. SourcesInv /\ FindCheckpoint.lsn \in Nat
  BY CoveredFacts DEF IInv, Covered
<1>3. /\ Len(topic) \in Nat /\ DOMAIN topic = 1..Len(topic)
      /\ \A i \in DOMAIN topic : topic[i].lsn \in Nat
      /\ \A i, j \in DOMAIN topic : i < j => topic[i].lsn <= topic[j].lsn
  BY <1>2, TopicFacts
<1> DEFINE c == FindCheckpoint
<1>4. c.mid # 0 => c.mid \in DOMAIN topic /\ topic[c.mid].lsn = c.lsn /\ c.lsn > 0
  BY <1>2, CoveredFacts DEF FindCheckpoint
<1> HIDE DEF c
<1>5. /\ c.lsn # 0 => \A i \in 1..(rpos' - 1) : topic[i].lsn <= c.lsn
      /\ c.lsn = 0 => \A i \in 1..(rpos' - 1) : topic[i].type # "begin"
  <2>1. CASE c.mid # 0
    <3>1. rpos' = c.mid /\ c.lsn # 0
      BY <1>1, <1>2, <1>4, <2>1 DEF ReaderStarts, c
    <3>2. ASSUME NEW i \in 1..(c.mid - 1)
          PROVE  topic[i].lsn <= c.lsn
      <4>1. i \in DOMAIN topic /\ i < c.mid
        BY <1>3, <1>4, <2>1
      <4> QED
        BY <1>3, <1>4, <2>1, <4>1
    <3> QED
      BY <3>1, <3>2
  <2>2. CASE c.mid = 0 /\ c.lsn = 0
    <3>1. rpos' = 1
      BY <1>1, <2>2 DEF ReaderStarts, c
    <3> QED
      BY <2>2, <3>1
  <2>3. CASE c.mid = 0 /\ c.lsn # 0
    BY <1>1, <2>3 DEF ReaderStarts, c
  <2> QED
    BY <2>1, <2>2, <2>3
<1>6. SkippedInv'
  BY <1>1, <1>5 DEF SkippedInv, c
<1>7. ConsecutiveInv'
  BY <1>1 DEF ConsecutiveInv
<1> QED
  BY <1>6, <1>7

LEMMA ReadSkipped ==
  ASSUME IInv, SkippedInv, Read
  PROVE  SkippedInv'
<1>1. /\ proc = "up" /\ topic' = topic /\ cp' = cp /\ rpos' = rpos + 1 /\ rpos <= Len(topic)
      /\ consistent' = Delivers(topic[rpos])
  BY DEF Read, fixed
<1>2. rpos \in Nat /\ rpos \in DOMAIN topic /\ consistent \in BOOLEAN
  BY <1>1, TopicFacts DEF IInv, ChannelInv
<1>3. CASE Delivers(topic[rpos])
  BY <1>1, <1>3 DEF SkippedInv
<1>4. CASE ~Delivers(topic[rpos])
  <2>1. /\ ~consistent
        /\ cp.lsn # 0 => ~(topic[rpos].lsn > cp.lsn)
        /\ cp.lsn = 0 => topic[rpos].type # "begin"
    BY <1>2, <1>4 DEF Delivers
  <2>2. cp = FindCheckpoint
    BY <1>1, <2>1 DEF IInv, NewInv
  <2>3. cp.lsn \in Nat /\ topic[rpos].lsn \in Nat
    BY <1>2, <2>2, TopicFacts, CoveredFacts DEF IInv, Covered
  <2>4. cp.lsn # 0 => topic[rpos].lsn <= cp.lsn
    BY <2>1, <2>3
  <2>5. \A i \in 1..(rpos' - 1) : i \in 1..(rpos - 1) \/ i = rpos
    BY <1>1, <1>2
  <2>6. /\ cp.lsn # 0 => \A i \in 1..(rpos - 1) : topic[i].lsn <= cp.lsn
        /\ cp.lsn = 0 => \A i \in 1..(rpos - 1) : topic[i].type # "begin"
    BY <1>1, <2>1 DEF SkippedInv
  <2>7. /\ cp.lsn # 0 => \A i \in 1..(rpos' - 1) : topic[i].lsn <= cp.lsn
        /\ cp.lsn = 0 => \A i \in 1..(rpos' - 1) : topic[i].type # "begin"
    BY <2>1, <2>4, <2>5, <2>6
  <2> QED
    BY <1>1, <2>7 DEF SkippedInv
<1> QED
  BY <1>3, <1>4

\* The steps that leave the reader alone.
LEMMA SkippedKept ==
  ASSUME SkippedInv, topic' = topic, rpos' = rpos, cp' = cp, consistent' = consistent,
         proc' # "down" => proc # "down"
  PROVE  SkippedInv'
BY DEF SkippedInv

LEMMA NextReader ==
  ASSUME IInv, TypeInv, ConsecutiveInv, SkippedInv, [Next]_vars
  PROVE  ConsecutiveInv' /\ SkippedInv'
<1>1. CASE Start
  BY <1>1, StartReader
<1>2. CASE Read
  BY <1>2, ReadConsecutive, ReadSkipped
<1>3. CASE ApplyBegin \/ ApplyChange \/ ApplyDDL \/ ApplyCommit
  <2>1. /\ proc = "up" /\ changes # <<>> /\ changes' = Tail(changes)
        /\ topic' = topic /\ rpos' = rpos /\ cp' = cp /\ consistent' = consistent
    BY <1>3 DEF ApplyBegin, ApplyChange, ApplyDDL, ApplyCommit, Take, fixed, srcVars
  <2> QED
    BY <2>1, TakeConsecutive, SkippedKept
<1>4. CASE ExecDDL
  <2>1. /\ proc = "up" /\ changes' = changes
        /\ topic' = topic /\ rpos' = rpos /\ cp' = cp /\ consistent' = consistent
    BY <1>4 DEF ExecDDL, fixed, srcVars
  <2> QED
    BY <2>1, SkippedKept DEF ConsecutiveInv, Taken
<1>5. CASE Crash
  BY <1>5 DEF Crash, ConsecutiveInv, SkippedInv
<1>6. CASE UNCHANGED vars
  BY <1>6 DEF vars, fixed, srcVars, ConsecutiveInv, SkippedInv, Taken
<1> QED
  BY <1>1, <1>2, <1>3, <1>4, <1>5, <1>6 DEF Next

-----------------------------------------------------------------------------
(* The data.                                                                *)

\* An update or a delete is sent behind everything collected so far.
LEMMA UpdateSent ==
  ASSUME IInv, TypeInv, HandleUpdateDelete(Msg.stmt), Msg.stmt \in Statement, pipeline' = pipeline
  PROVE  Sent' = Append(Sent, Msg.stmt)
<1>1. pipeline \in Seq(Statement) /\ Flushed \in Seq(Statement)
  BY FlushedType DEF TypeInv
<1>2. Flushed' = Append(Flushed, Msg.stmt)
  BY DEF HandleUpdateDelete, Flushed
<1>3. Sent' = pipeline \o Append(Flushed, Msg.stmt)
  BY <1>2 DEF Sent
<1> QED
  BY <1>1, <1>3, ConcatAppend DEF Sent

\* What the target would be after an insert has been collected.
LEMMA InsertSent ==
  ASSUME IInv, TypeInv, HandleInsert(Msg.stmt), Msg.stmt.row \in Rows, Msg.stmt.val \in Values,
         pipeline' = pipeline, target' = target, ~ExecAll(target, Sent).failed
  PROVE  ExecAll(target, Sent)' = InsertRow(ExecAll(target, Sent), Msg.stmt)
<1> DEFINE w == [row |-> Msg.stmt.row, val |-> Msg.stmt.val]
           I(q) == [op |-> "INSERTS", rows |-> q]
<1>1. /\ pipeline \in Seq(Statement) /\ Flushed \in Seq(Statement) /\ Sent \in Seq(Statement)
      /\ pendingChanges \in Seq(Statement) /\ inserts \in Seq(Record) /\ target \in DB
  BY FlushedType DEF TypeInv, IInv, BufferInv
<1>2. w \in Record
  BY DEF Record
<1>3. \A d \in DB : InsertRow(d, w) = InsertRow(d, Msg.stmt)
  BY DEF InsertRow
<1> HIDE DEF w
<1>4. \A q \in Seq(Record) : I(q) \in Statement /\ I(q) \in AnyStatement
  BY DEF Statement, AnyStatement
<1>5. \A d \in DB, q \in Seq(Record) : ~d.failed => Exec(d, I(q)) = InsertRows(d, q)
  BY DEF Exec
<1>6. \A d \in DB, q \in Seq(Record) : d.failed => Exec(d, I(q)) = d
  BY DEF Exec
<1>7. \A q \in Seq(Record) : Append(q, w) \in Seq(Record) /\ Append(q, w) # <<>>
  BY <1>2, AppendFacts
<1> HIDE DEF I
<1>8. pendingChanges' = (IF BatchOK(Msg.stmt) THEN pendingChanges ELSE Flushed)
      /\ inserts' = Append(IF BatchOK(Msg.stmt) THEN inserts ELSE <<>>, w)
  BY DEF HandleInsert, w
<1>9. CASE BatchOK(Msg.stmt)
  <2> DEFINE p == pipeline \o pendingChanges
             d == ExecAll(target, p)
  <2>1. /\ p \in Seq(Statement) /\ p \in Seq(AnyStatement)
        /\ \A e \in Statement : pipeline \o Append(pendingChanges, e) = Append(p, e)
    BY <1>1, ConcatAppend, AnySeq
  <2>2. inserts' = Append(inserts, w) /\ inserts' # <<>> /\ pendingChanges' = pendingChanges
    BY <1>1, <1>7, <1>8, <1>9
  <2>3. Sent' = Append(p, I(Append(inserts, w)))
    <3>1. Flushed' = Append(pendingChanges, I(Append(inserts, w)))
      BY <2>2 DEF Flushed, I
    <3>2. Sent' = pipeline \o Append(pendingChanges, I(Append(inserts, w)))
      BY <3>1 DEF Sent
    <3> QED
      BY <1>1, <1>4, <1>7, <2>1, <3>2
  <2> HIDE DEF p
  <2>4. d \in DB /\ \A e \in AnyStatement : ExecAll(target, Append(p, e)) = Exec(d, e)
    BY <1>1, <2>1, ExecAllFacts
  <2>5. ExecAll(target, Sent)' = Exec(d, I(Append(inserts, w)))
    BY <1>1, <1>4, <1>7, <2>3, <2>4
  <2>6. ~d.failed /\ ExecAll(target, Sent) = InsertRows(d, inserts)
    <3>1. CASE inserts = <<>>
      <4>1. Sent = p
        BY <3>1 DEF Sent, Flushed, p
      <4> QED
        BY <2>4, <3>1, <4>1, InsertRowsNone
    <3>2. CASE inserts # <<>>
      <4>1. Sent = Append(p, I(inserts))
        BY <1>1, <1>4, <2>1, <3>2 DEF Sent, Flushed, I
      <4>2. ExecAll(target, Sent) = Exec(d, I(inserts))
        BY <1>1, <1>4, <2>4, <4>1
      <4>3. ~d.failed
        BY <1>1, <1>6, <2>4, <4>2
      <4> QED
        BY <1>1, <1>5, <2>4, <4>2, <4>3
    <3> QED
      BY <3>1, <3>2
  <2> HIDE DEF d
  <2>7. Exec(d, I(Append(inserts, w))) = InsertRows(d, Append(inserts, w))
    BY <1>1, <1>5, <1>7, <2>4, <2>6
  <2>8. InsertRows(d, Append(inserts, w)) = InsertRow(InsertRows(d, inserts), w)
    BY <1>1, <1>2, <2>4, InsertRowsAppend
  <2>9. InsertRows(d, inserts) \in DB
    BY <1>1, <2>4, InsertRowsType
  <2> QED
    BY <1>3, <2>5, <2>6, <2>7, <2>8, <2>9
<1>10. CASE ~BatchOK(Msg.stmt)
  <2> DEFINE e == <<>>
             d == ExecAll(target, Sent)
  <2>1. e \in Seq(Record)
    OBVIOUS
  <2>2. inserts' = Append(e, w) /\ inserts' # <<>> /\ pendingChanges' = Flushed
    BY <1>7, <1>8, <1>10, <2>1
  <2> HIDE DEF e
  <2>3. Sent' = Append(Sent, I(Append(e, w)))
    <3>1. Flushed' = Append(Flushed, I(Append(e, w)))
      BY <2>2 DEF Flushed, I
    <3>2. Sent' = pipeline \o Append(Flushed, I(Append(e, w)))
      BY <3>1 DEF Sent
    <3> QED
      BY <1>1, <1>4, <1>7, <2>1, <3>2, ConcatAppend DEF Sent
  <2>4. d \in DB /\ \A x \in AnyStatement : ExecAll(target, Append(Sent, x)) = Exec(d, x)
    BY <1>1, AnySeq, ExecAllFacts
  <2>5. ExecAll(target, Sent)' = Exec(d, I(Append(e, w)))
    BY <1>4, <1>7, <2>1, <2>3, <2>4
  <2>6. ~d.failed
    OBVIOUS
  <2> HIDE DEF d
  <2>7. Exec(d, I(Append(e, w))) = InsertRows(d, Append(e, w))
    BY <1>5, <1>7, <2>1, <2>4, <2>6
  <2>8. InsertRows(d, Append(e, w)) = InsertRow(InsertRows(d, e), w)
    BY <1>2, <2>1, <2>4, InsertRowsAppend
  <2>9. InsertRows(d, e) = d
    BY <2>4, InsertRowsNone DEF e
  <2> QED
    BY <1>3, <2>4, <2>5, <2>7, <2>8, <2>9 DEF d
<1> QED
  BY <1>9, <1>10

\* The assumptions of the steps that follow.
Running == IInv /\ TypeInv /\ ConsecutiveInv /\ SkippedInv /\ ~HasDDL /\ Whole(topic) /\ SinkInv

\* The target and its checkpoint stay.
LEMMA TargetKept ==
  ASSUME TargetInv, topic' = topic, base' = base, target' = target, sources' = sources
  PROVE  TargetInv'
<1>1. Covered' = Covered
  BY DEF Covered, FindCheckpoint
<1> QED
  BY <1>1 DEF TargetInv

LEMMA InitData ==
  ASSUME Init, IInv
  PROVE  SinkInv
<1>1. /\ base \in Nat /\ SourcesInv
  BY DEF IInv, SourcesInv
<1>2. TargetInv
  <2>1. Covered = base /\ target = SourceStates(topic)[UpTo(base)]
    BY DEF Init, Covered, FindCheckpoint, Fresh, SourceAt
  <2>2. /\ UpTo(base) \in 0..Len(topic)
        /\ \A i \in DOMAIN topic : topic[i].lsn <= base <=> i <= UpTo(base)
    BY <1>1, UpToExists
  <2> QED
    BY <2>1, <2>2 DEF TargetInv
<1> QED
  BY <1>2 DEF Init, SinkInv

LEMMA StartData ==
  ASSUME Running, Start
  PROVE  SinkInv'
<1>1. /\ topic' = topic /\ base' = base /\ target' = target /\ sources' = sources /\ proc = "down"
      /\ proc' = "up" /\ consistent' = FALSE /\ ddl' = ddl /\ skip' = skip /\ inTX' = inTX
      /\ inserts' = inserts /\ pendingChanges' = pendingChanges /\ pipeline' = pipeline
  BY DEF Start, fixed, txVars, bufVars, pipeVars
<1>2. TargetInv'
  BY <1>1, TargetKept DEF Running, SinkInv
<1> QED
  BY <1>1, <1>2 DEF Running, SinkInv

\* The first message that the reader delivers: what is in front of it does not
\* matter to the target.
LEMMA FirstDelivered ==
  ASSUME Running, proc = "up", ~consistent, rpos \in DOMAIN topic, Delivers(topic[rpos])
  PROVE  target = SourceStates(topic)[rpos - 1] /\ ~Cut(topic, rpos - 1)
<1>1. SourcesInv /\ Whole(topic) /\ cp = FindCheckpoint /\ cp.lsn = Covered /\ Covered \in Nat
  BY CoveredFacts DEF Running, IInv, NewInv, Covered
<1>2. /\ Len(topic) \in Nat /\ DOMAIN topic = 1..Len(topic)
      /\ \A i \in DOMAIN topic : topic[i].lsn \in Nat /\ topic[i].lsn > 0
      /\ \A i, j \in DOMAIN topic : i < j => topic[i].lsn <= topic[j].lsn
  BY <1>1, TopicFacts
<1>3. PICK n \in 0..Len(topic) : /\ \A i \in DOMAIN topic : topic[i].lsn <= Covered <=> i <= n
                                 /\ target = SourceStates(topic)[n]
  BY DEF Running, SinkInv, TargetInv
<1>4. rpos \in Nat /\ rpos - 1 \in 0..Len(topic)
  BY <1>2
<1>5. CASE Covered = 0
  <2>1. \A i \in 1..(rpos - 1) : topic[i].type # "begin"
    BY <1>1, <1>5 DEF Running, SkippedInv
  <2>2. SourceStates(topic)[rpos - 1] = SourceStates(topic)[0] /\ ~Cut(topic, rpos - 1)
    BY <1>1, <1>4, <2>1, BeforeBegin
  <2>3. n = 0
    <3>1. n # 0 => n \in DOMAIN topic
      BY <1>2
    <3>2. n \in DOMAIN topic => topic[n].lsn <= Covered /\ topic[n].lsn > 0 /\ topic[n].lsn \in Nat
      BY <1>2, <1>3
    <3> QED
      BY <1>5, <3>1, <3>2
  <2> QED
    BY <1>3, <2>2, <2>3
<1>6. CASE Covered # 0
  <2>1. topic[rpos].lsn > Covered
    BY <1>1, <1>6 DEF Delivers
  <2>2. \A i \in 1..(rpos - 1) : topic[i].lsn <= Covered
    BY <1>1, <1>6 DEF Running, SkippedInv
  <2>3. ~(rpos <= n)
    BY <1>1, <1>2, <1>3, <2>1
  <2>4. n = rpos - 1
    <3>1. rpos - 1 = 0 \/ rpos - 1 \in DOMAIN topic
      BY <1>2, <1>4
    <3>2. rpos - 1 \in DOMAIN topic => rpos - 1 \in 1..(rpos - 1)
      BY <1>2, <1>4
    <3>3. rpos - 1 \in DOMAIN topic => rpos - 1 <= n
      BY <1>3, <2>2, <3>2
    <3> QED
      BY <1>2, <1>4, <2>3, <3>1, <3>3
  <2>5. ~Cut(topic, rpos - 1)
    <3> SUFFICES ASSUME NEW i \in 1..(rpos - 1), NEW j \in ((rpos - 1) + 1)..Len(topic),
                        topic[i].lsn = topic[j].lsn
                 PROVE  FALSE
      BY DEF Cut
    <3>1. i \in DOMAIN topic /\ j \in DOMAIN topic /\ ~(j <= n)
      BY <1>2, <1>4, <2>4
    <3>2. topic[i].lsn <= Covered
      BY <2>2
    <3> QED
      BY <1>3, <3>1, <3>2
  <2> QED
    BY <1>3, <2>4, <2>5
<1> QED
  BY <1>5, <1>6

LEMMA ReadData ==
  ASSUME Running, Read
  PROVE  SinkInv'
<1>1. /\ topic' = topic /\ base' = base /\ target' = target /\ sources' = sources /\ proc = "up"
      /\ proc' = "up" /\ ddl' = ddl /\ skip' = skip /\ inTX' = inTX
      /\ inserts' = inserts /\ pendingChanges' = pendingChanges /\ pipeline' = pipeline
      /\ rpos <= Len(topic) /\ consistent' = Delivers(topic[rpos])
  BY DEF Read, fixed, txVars, bufVars, pipeVars
<1>2. TargetInv'
  BY <1>1, TargetKept DEF Running, SinkInv
<1>3. ddl' = <<>> /\ skip' = {} /\ proc' # "failed"
  BY <1>1 DEF Running, SinkInv
<1>4. rpos \in DOMAIN topic /\ consistent \in BOOLEAN
  BY <1>1, TopicFacts DEF Running, IInv, ChannelInv
<1>5. CASE consistent
  <2>1. consistent' = TRUE /\ Taken' = Taken
    BY <1>1, <1>5, ReadConsecutive DEF Running, Delivers
  <2>2. IF inTX THEN InsideInv ELSE BetweenInv
    BY <1>1, <1>5 DEF Running, SinkInv
  <2>3. Sent' = Sent
    BY <1>1 DEF Sent, Flushed
  <2>4. IF inTX' THEN InsideInv' ELSE BetweenInv'
    BY <1>1, <2>1, <2>2, <2>3 DEF InsideInv, BetweenInv
  <2> QED
    BY <1>1, <1>2, <1>3, <2>1, <2>4 DEF SinkInv
<1>6. CASE ~consistent /\ ~Delivers(topic[rpos])
  BY <1>1, <1>2, <1>3, <1>6 DEF Running, SinkInv
<1>7. CASE ~consistent /\ Delivers(topic[rpos])
  <2>1. inTX = FALSE /\ inserts = <<>> /\ pendingChanges = <<>> /\ pipeline = <<>>
    BY <1>7 DEF Running, SinkInv
  <2>2. target = SourceStates(topic)[rpos - 1] /\ ~Cut(topic, rpos - 1)
    BY <1>1, <1>4, <1>7, FirstDelivered
  <2>3. ExecAll(target, <<>>) = target
    BY ExecAllFacts, EmptyFacts DEF Running, TypeInv
  <2>4. consistent' = TRUE
    BY <1>1, <1>7 DEF Delivers
  <2>5. Taken' = rpos - 1
    BY <1>7, <2>4, ReadConsecutive DEF Running
  <2>6. ExecAll(target, pipeline)' = SourceStates(topic)[rpos - 1]
    BY <1>1, <2>1, <2>2, <2>3
  <2>7. BetweenInv'
    BY <1>1, <2>1, <2>2, <2>5, <2>6 DEF BetweenInv
  <2> QED
    BY <1>1, <1>2, <1>3, <2>1, <2>4, <2>7 DEF SinkInv
<1> QED
  BY <1>4, <1>5, <1>6, <1>7

\* The facts that the steps taking a message share.
LEMMA TakeData ==
  ASSUME Running, NEW ty, Take(ty), topic' = topic, UNCHANGED srcVars
  PROVE  /\ SourcesInv /\ proc = "up" /\ consistent /\ consistent' = consistent
         /\ Taken \in 0..Len(topic) /\ Taken \in Nat /\ Taken + 1 \in DOMAIN topic
         /\ Taken + 1 \in 1..Len(topic) /\ Head(changes) = Taken + 1
         /\ Msg = topic[Taken + 1] /\ topic[Taken + 1].type = ty /\ ty # "ddl"
         /\ Taken' = Taken + 1
         /\ IF inTX THEN InsideInv ELSE BetweenInv
<1>1. proc = "up" /\ changes # <<>> /\ changes' = Tail(changes) /\ Msg.type = ty
  BY DEF Take
<1>2. Taken \in 0..Len(topic) /\ Head(changes) = Taken + 1 /\ Taken + 1 \in DOMAIN topic /\ consistent
  BY <1>1, TakenFacts DEF Running
<1>3. rpos' = rpos /\ consistent' = consistent
  BY DEF srcVars
<1>4. Taken' = Taken + 1
  BY <1>1, <1>3, TakeConsecutive DEF Running
<1>5. SourcesInv /\ DOMAIN topic = 1..Len(topic) /\ Len(topic) \in Nat
  BY TopicFacts DEF Running, IInv
<1>6. topic[Taken + 1].type = ty /\ ty # "ddl" /\ Msg = topic[Taken + 1]
  BY <1>1, <1>2 DEF Msg, HasDDL, Running
<1>7. IF inTX THEN InsideInv ELSE BetweenInv
  BY <1>1, <1>2 DEF Running, SinkInv
<1> QED
  BY <1>1, <1>2, <1>3, <1>4, <1>5, <1>6, <1>7

\* Inside of a transaction, as far as the topic is concerned.
LEMMA InsideFacts ==
  ASSUME SourcesInv, Whole(topic), InsideInv, Taken \in Nat, Taken + 1 \in DOMAIN topic
  PROVE  /\ topic[Taken + 1].lsn = topic[Taken].lsn /\ topic[Taken + 1].type # "begin"
         /\ \E b \in 1..Taken : topic[b].type = "begin" /\ topic[b].lsn = topic[Taken + 1].lsn
         /\ topic[Taken + 1].type = "commit" => CompleteIn(topic, topic[Taken].lsn)
<1>1. PICK b \in 1..Taken : topic[b].type = "begin" /\ topic[b].lsn = topic[Taken].lsn
  BY DEF InsideInv
<1>2. Len(topic) \in Nat /\ DOMAIN topic = 1..Len(topic)
  BY TopicFacts
<1>3. Taken \in DOMAIN topic /\ topic[Taken].type # "commit"
  BY <1>2 DEF InsideInv
<1>4. topic[Taken + 1].lsn = topic[Taken].lsn /\ topic[Taken + 1].type # "begin"
  BY <1>1, <1>3, InsideNext
<1>5. b \in DOMAIN topic /\ b < Taken + 1
  BY <1>2, <1>3
<1>6. topic[Taken + 1].type = "commit" => CompleteIn(topic, topic[Taken].lsn)
  BY <1>1, <1>4, <1>5, BeginToCommit
<1> QED
  BY <1>1, <1>4, <1>6

LEMMA ApplyBeginData ==
  ASSUME Running, ApplyBegin
  PROVE  SinkInv'
<1>1. /\ topic' = topic /\ base' = base /\ target' = target /\ sources' = sources /\ proc' = proc
      /\ ddl' = ddl /\ skip' = skip /\ inTX' = TRUE /\ inserts' = inserts /\ pipeline' = pipeline
      /\ pendingChanges' = IF inTX THEN <<>> ELSE pendingChanges
      /\ UNCHANGED srcVars /\ Take("begin")
  BY DEF ApplyBegin, fixed, pipeVars
<1>2. /\ SourcesInv /\ proc = "up" /\ consistent /\ consistent' = consistent
      /\ Taken \in 0..Len(topic) /\ Taken \in Nat /\ Taken + 1 \in DOMAIN topic
      /\ Taken + 1 \in 1..Len(topic) /\ topic[Taken + 1].type = "begin"
      /\ Taken' = Taken + 1
      /\ IF inTX THEN InsideInv ELSE BetweenInv
  BY <1>1, TakeData
<1>3. ~inTX /\ BetweenInv
  BY <1>2, InsideFacts DEF Running
<1>4. TargetInv'
  BY <1>1, TargetKept DEF Running, SinkInv
<1>5. ExecAll(target, Sent)' = SourceStates(topic)[Taken + 1]
  <2>1. inserts' = <<>> /\ pendingChanges' = <<>>
    BY <1>1, <1>3 DEF BetweenInv
  <2>2. pipeline \in Seq(Statement)
    BY DEF Running, TypeInv
  <2>3. Sent' = pipeline \o <<>>
    BY <1>1, <2>1 DEF Sent, Flushed
  <2>4. Sent' = pipeline
    BY <2>2, <2>3
  <2>5. ExecAll(target, pipeline) = SourceStates(topic)[Taken]
    BY <1>3 DEF BetweenInv
  <2>6. SourceStates(topic)[Taken + 1] = SourceStates(topic)[(Taken + 1) - 1] /\ (Taken + 1) - 1 = Taken
    BY <1>2, HistoryFacts
  <2> QED
    BY <1>1, <2>4, <2>5, <2>6
<1>6. InsideInv'
  <2>1. /\ Taken + 1 > 0 /\ topic[Taken + 1].type # "commit"
        /\ Taken + 1 \in 1..(Taken + 1)
    BY <1>2
  <2>2. \E b \in 1..(Taken + 1) : topic[b].type = "begin" /\ topic[b].lsn = topic[Taken + 1].lsn
    BY <1>2, <2>1
  <2> QED
    BY <1>1, <1>2, <1>5, <2>1, <2>2 DEF InsideInv
<1> QED
  BY <1>1, <1>2, <1>4, <1>6 DEF Running, SinkInv

\* Messages outside of a transaction are ignored, and the source did nothing.
LEMMA OutsideData ==
  ASSUME Running, NEW ty, Take(ty), ty # "begin", BetweenInv,
         topic' = topic, target' = target, UNCHANGED srcVars,
         inserts' = inserts, pendingChanges' = pendingChanges, pipeline' = pipeline
  PROVE  BetweenInv'
<1>1. /\ SourcesInv
      /\ Taken \in 0..Len(topic) /\ Taken \in Nat /\ Taken + 1 \in DOMAIN topic
      /\ Taken + 1 \in 1..Len(topic) /\ topic[Taken + 1].type # "begin"
      /\ Taken' = Taken + 1
  BY TakeData
<1>2. ~CompleteIn(topic, topic[Taken + 1].lsn) /\ ~Cut(topic, Taken + 1)
  BY <1>1, BetweenNext DEF BetweenInv, Running
<1>3. SourceStates(topic)[Taken + 1] = SourceStates(topic)[(Taken + 1) - 1] /\ (Taken + 1) - 1 = Taken
  BY <1>1, <1>2, HistoryFacts
<1>4. ExecAll(target, pipeline)' = SourceStates(topic)[Taken + 1]
  BY <1>3 DEF BetweenInv
<1> QED
  BY <1>1, <1>2, <1>4 DEF BetweenInv

LEMMA ApplyChangeData ==
  ASSUME Running, ApplyChange
  PROVE  SinkInv'
<1>1. /\ topic' = topic /\ base' = base /\ target' = target /\ sources' = sources /\ proc' = proc
      /\ ddl' = ddl /\ skip' = skip /\ inTX' = inTX /\ pipeline' = pipeline
      /\ UNCHANGED srcVars /\ Take("change")
  BY DEF ApplyChange, fixed, txVars, pipeVars
<1>2. /\ SourcesInv /\ proc = "up" /\ consistent /\ consistent' = consistent
      /\ Taken \in 0..Len(topic) /\ Taken \in Nat /\ Taken + 1 \in DOMAIN topic
      /\ Taken + 1 \in 1..Len(topic) /\ topic[Taken + 1].type = "change"
      /\ Taken' = Taken + 1 /\ Msg = topic[Taken + 1]
      /\ IF inTX THEN InsideInv ELSE BetweenInv
  BY <1>1, TakeData
<1>3. TargetInv'
  BY <1>1, TargetKept DEF Running, SinkInv
<1>4. CASE ~inTX
  <2>1. inserts' = inserts /\ pendingChanges' = pendingChanges
    BY <1>4 DEF ApplyChange, bufVars
  <2>2. BetweenInv'
    BY <1>1, <1>2, <1>4, <2>1, OutsideData
  <2> QED
    BY <1>1, <1>2, <1>3, <1>4, <2>2 DEF Running, SinkInv
<1>5. CASE inTX
  <2>1. InsideInv
    BY <1>2, <1>5
  <2>2. /\ topic[Taken + 1].lsn = topic[Taken].lsn
        /\ \E b \in 1..Taken : topic[b].type = "begin" /\ topic[b].lsn = topic[Taken + 1].lsn
    BY <1>2, <2>1, InsideFacts DEF Running
  <2>3. \E b \in 1..(Taken + 1) : topic[b].type = "begin" /\ topic[b].lsn = topic[Taken + 1].lsn
    BY <1>2, <2>2
  <2>4. ASSUME CompleteIn(topic, topic[Taken + 1].lsn)
        PROVE  ExecAll(target, Sent)' = SourceStates(topic)[Taken + 1]
    <3> DEFINE s == SourceStates(topic)
               d == ExecAll(target, Sent)
    <3>1. d = s[Taken] /\ s[Taken] \in DB /\ ~s[Taken].failed
      BY <1>2, <2>1, <2>2, <2>4, HistoryFacts DEF InsideInv
    <3>2. s[Taken + 1] = Exec(s[Taken], Msg.stmt) /\ ~s[Taken + 1].failed
      <4>1. s[Taken + 1] = Exec(s[(Taken + 1) - 1], topic[Taken + 1].stmt) /\ (Taken + 1) - 1 = Taken
        BY <1>2, <2>4, HistoryFacts
      <4>2. ~s[Taken + 1].failed
        BY <1>2, HistoryFacts
      <4> QED
        BY <1>2, <4>1, <4>2
    <3>3. /\ Msg.stmt \in DML
          /\ Msg.stmt.op # "INSERT" => Msg.stmt \in Statement
          /\ Msg.stmt.op = "INSERT" => Msg.stmt.row \in Rows /\ Msg.stmt.val \in Values
      BY <1>1, MsgFacts DEF Running
    <3>4. Table(Msg.stmt.row) \notin skip
      BY DEF Running, SinkInv
    <3>5. CASE Msg.stmt.op = "INSERT"
      <4>1. HandleInsert(Msg.stmt)
        BY <1>5, <3>4, <3>5 DEF ApplyChange
      <4>2. ExecAll(target, Sent)' = InsertRow(d, Msg.stmt)
        BY <1>1, <3>1, <3>3, <3>5, <4>1, InsertSent DEF Running
      <4>3. Exec(d, Msg.stmt) = InsertRow(d, Msg.stmt)
        <5>1. Exec(d, Msg.stmt) = IF d.rows[Msg.stmt.row] = Absent THEN InsertRow(d, Msg.stmt) ELSE Fail(d)
          BY <3>1, <3>5 DEF Exec
        <5>2. Fail(d).failed
          BY <3>1 DEF Fail, DB
        <5> QED
          BY <3>1, <3>2, <5>1, <5>2
      <4> QED
        BY <3>1, <3>2, <4>2, <4>3
    <3>6. CASE Msg.stmt.op # "INSERT"
      <4>1. HandleUpdateDelete(Msg.stmt)
        BY <1>5, <3>4, <3>6 DEF ApplyChange
      <4>2. Sent' = Append(Sent, Msg.stmt)
        BY <1>1, <3>3, <3>6, <4>1, UpdateSent DEF Running
      <4>3. Sent \in Seq(AnyStatement) /\ target \in DB /\ Msg.stmt \in AnyStatement
        BY <3>3, FlushedType, AnySeq DEF Running, TypeInv, AnyStatement
      <4>4. ExecAll(target, Append(Sent, Msg.stmt)) = Exec(d, Msg.stmt)
        BY <4>3, ExecAllFacts
      <4>5. ExecAll(target, Sent)' = Exec(d, Msg.stmt)
        BY <1>1, <4>2, <4>4
      <4> QED
        BY <3>1, <3>2, <4>5
    <3> QED
      BY <3>5, <3>6
  <2>5. InsideInv'
    <3>1. Taken + 1 > 0 /\ topic[Taken + 1].type # "commit"
      BY <1>2
    <3> QED
      BY <1>1, <1>2, <2>3, <2>4, <3>1 DEF InsideInv
  <2> QED
    BY <1>1, <1>2, <1>3, <1>5, <2>5 DEF Running, SinkInv
<1> QED
  BY <1>4, <1>5 DEF Running, TypeInv

LEMMA ApplyCommitData ==
  ASSUME Running, ApplyCommit
  PROVE  SinkInv'
<1>1. /\ topic' = topic /\ base' = base /\ ddl' = ddl /\ skip' = {} /\ inTX' = FALSE
      /\ UNCHANGED srcVars /\ Take("commit")
  BY DEF ApplyCommit, fixed
<1>2. /\ SourcesInv /\ proc = "up" /\ consistent /\ consistent' = consistent
      /\ Taken \in 0..Len(topic) /\ Taken \in Nat /\ Taken + 1 \in DOMAIN topic
      /\ Taken + 1 \in 1..Len(topic) /\ topic[Taken + 1].type = "commit"
      /\ Taken' = Taken + 1 /\ Msg = topic[Taken + 1] /\ Head(changes) = Taken + 1
      /\ IF inTX THEN InsideInv ELSE BetweenInv
  BY <1>1, TakeData
<1>3. CASE ~inTX
  <2>1. /\ target' = target /\ sources' = sources /\ proc' = proc /\ inserts' = inserts
        /\ pendingChanges' = pendingChanges /\ pipeline' = pipeline
    BY <1>3 DEF ApplyCommit, bufVars, pipeVars
  <2>2. TargetInv'
    BY <1>1, <2>1, TargetKept DEF Running, SinkInv
  <2>3. BetweenInv'
    BY <1>1, <1>2, <1>3, <2>1, OutsideData
  <2> QED
    BY <1>1, <1>2, <2>1, <2>2, <2>3 DEF Running, SinkInv
<1>4. CASE inTX
  <2>1. InsideInv
    BY <1>2, <1>4
  <2>2. CompleteIn(topic, topic[Taken].lsn)
    BY <1>2, <2>1, InsideFacts DEF Running
  <2> DEFINE s == SourceStates(topic)
             d == ExecAll(target, Sent)
  <2>3. d = s[Taken + 1] /\ ~d.failed /\ d \in DB
    <3>1. d = s[Taken]
      BY <2>1, <2>2 DEF InsideInv
    <3>2. s[Taken + 1] = s[(Taken + 1) - 1] /\ (Taken + 1) - 1 = Taken
      BY <1>2, HistoryFacts
    <3>3. ~s[Taken].failed /\ s[Taken] \in DB
      BY <1>2, HistoryFacts
    <3> QED
      BY <3>1, <3>2, <3>3
  <2>4. /\ ~Cut(topic, Taken + 1)
        /\ \A i \in DOMAIN topic : topic[i].lsn <= topic[Taken + 1].lsn <=> i <= Taken + 1
    BY <1>2, CommitEnds
  <2>5. HandleCommit
    BY <1>4 DEF ApplyCommit
  <2>6. inserts' = <<>> /\ pendingChanges' = <<>>
    BY <2>5 DEF HandleCommit
  <2>7. CASE EndsBatch(Append(pendingCommits, Msg.lsn))
    <3>1. Commit(Sent, UpdateSource) /\ pipeline' = <<>>
      BY <2>5, <2>7 DEF HandleCommit, Sent
    <3>2. target' = d /\ sources' = UpdateSource /\ proc' = proc
      BY <2>3, <3>1 DEF Commit
    <3>3. Covered' = topic[Taken + 1].lsn
      <4>1. sources'.mid = Taken + 1 /\ sources'.lsn = topic[Taken + 1].lsn /\ Taken + 1 # 0
        BY <1>2, <3>2 DEF UpdateSource
      <4> QED
        BY <4>1 DEF Covered, FindCheckpoint
    <3>4. TargetInv'
      <4>1. /\ Taken + 1 \in 0..Len(topic)
            /\ \A i \in DOMAIN topic : topic[i].lsn <= topic[Taken + 1].lsn <=> i <= Taken + 1
            /\ target' = SourceStates(topic)[Taken + 1]
        BY <1>2, <2>3, <2>4, <3>2
      <4> QED
        BY <1>1, <3>3, <4>1 DEF TargetInv
    <3>5. ExecAll(target, pipeline)' = s[Taken + 1]
      <4>1. ExecAll(d, <<>>) = d
        BY <2>3, ExecAllFacts, EmptyFacts
      <4> QED
        BY <2>3, <3>1, <3>2, <4>1
    <3>6. BetweenInv'
      BY <1>1, <1>2, <2>4, <2>6, <3>5 DEF BetweenInv
    <3> QED
      BY <1>1, <1>2, <3>2, <3>4, <3>6 DEF Running, SinkInv
  <2>8. CASE ~EndsBatch(Append(pendingCommits, Msg.lsn))
    <3>1. pipeline' = Sent /\ target' = target /\ sources' = sources /\ proc' = proc
      BY <2>5, <2>8 DEF HandleCommit, Sent
    <3>2. TargetInv'
      BY <1>1, <3>1, TargetKept DEF Running, SinkInv
    <3>3. ExecAll(target, pipeline)' = s[Taken + 1]
      BY <2>3, <3>1
    <3>4. BetweenInv'
      BY <1>1, <1>2, <2>4, <2>6, <3>3 DEF BetweenInv
    <3> QED
      BY <1>1, <1>2, <3>1, <3>2, <3>4 DEF Running, SinkInv
  <2> QED
    BY <2>7, <2>8
<1> QED
  BY <1>3, <1>4

LEMMA CrashData ==
  ASSUME Running, Crash
  PROVE  SinkInv'
<1>1. /\ topic' = topic /\ base' = base /\ target' = target /\ sources' = sources
      /\ proc' = "down" /\ ddl' = <<>> /\ skip' = {} /\ inTX' = FALSE
      /\ inserts' = <<>> /\ pendingChanges' = <<>> /\ pipeline' = <<>>
  BY DEF Crash, fixed
<1>2. TargetInv'
  BY <1>1, TargetKept DEF Running, SinkInv
<1> QED
  BY <1>1, <1>2 DEF SinkInv

\* Without commands in the topic there is none to execute.
LEMMA NoCommand ==
  ASSUME Running
  PROVE  ~ApplyDDL /\ ~ExecDDL
<1>1. ~ExecDDL
  BY DEF ExecDDL, Running, SinkInv
<1>2. ~ApplyDDL
  <2> SUFFICES ASSUME ApplyDDL
               PROVE  FALSE
    OBVIOUS
  <2>1. Take("ddl") /\ topic' = topic /\ UNCHANGED srcVars
    BY DEF ApplyDDL, fixed
  <2> QED
    BY <2>1, TakeData
<1> QED
  BY <1>1, <1>2

LEMMA NextData ==
  ASSUME IInv, TypeInv, ConsecutiveInv, SkippedInv, DataInv, [Next]_vars
  PROVE  DataInv'
<1>1. topic' = topic
  BY DEF Next, vars, Start, Read, ApplyBegin, ApplyChange, ApplyDDL, ExecDDL, ApplyCommit, Crash, fixed
<1>2. HasDDL' = HasDDL
  BY <1>1 DEF HasDDL
<1>3. SUFFICES ASSUME ~HasDDL, Whole(topic)
               PROVE  SinkInv'
  BY <1>1, <1>2 DEF DataInv
<1>4. Running
  BY <1>3 DEF Running, DataInv
<1>5. CASE UNCHANGED vars
  <2>1. /\ base' = base /\ target' = target /\ sources' = sources /\ proc' = proc /\ rpos' = rpos
        /\ consistent' = consistent /\ changes' = changes /\ inTX' = inTX /\ skip' = skip
        /\ ddl' = ddl /\ inserts' = inserts /\ pendingChanges' = pendingChanges
        /\ pipeline' = pipeline
    BY <1>5 DEF vars, fixed, srcVars, txVars, bufVars, pipeVars
  <2>2. Taken' = Taken /\ Sent' = Sent
    BY <2>1 DEF Taken, Sent, Flushed
  <2>3. TargetInv'
    BY <1>1, <1>4, <2>1, TargetKept DEF Running, SinkInv
  <2>4. InsideInv' = InsideInv /\ BetweenInv' = BetweenInv
    BY <1>1, <2>1, <2>2 DEF InsideInv, BetweenInv
  <2> QED
    BY <1>4, <2>1, <2>3, <2>4 DEF Running, SinkInv
<1> QED
  BY <1>4, <1>5, StartData, ReadData, ApplyBeginData, ApplyChangeData, ApplyCommitData, CrashData,
     NoCommand DEF Next

-----------------------------------------------------------------------------
(* The theorems.                                                            *)

\* The channel, the reader and the checkpoint of the pulsar2pg pipeline stay
\* related as IInv says: whatever is still to be applied is behind the message
\* that pgcapture.sources names.
THEOREM InductiveInvariant ==
  Spec => []IInv
<1>1. IInv /\ [Next]_vars => IInv'
  BY NextStep
<1> QED
  BY <1>1, InitInv, PTL DEF Spec

\* The sink never stores behind the end of its array of insert records, never
\* leaves a full batch of commits unsynced, and reads only what the topic has.
THEOREM BuffersBounded ==
  Spec => []WithinBounds
<1>1. IInv => WithinBounds
  <2> SUFFICES ASSUME IInv PROVE WithinBounds
    OBVIOUS
  <2>1. \A k \in DOMAIN changes : changes[k] \in DOMAIN topic
    BY SeqFacts DEF IInv, ChannelInv
  <2> QED
    BY <2>1 DEF IInv, BufferInv, ChannelInv, WithinBounds
<1> QED
  BY <1>1, InductiveInvariant, PTL

\* pgcapture.sources moves only forward, to a Commit of the topic that it does
\* not cover yet: after any crash, for an empty target and for a restored one.
THEOREM CheckpointOnlyAdvances ==
  Spec => CheckpointAdvances
<1>1. IInv /\ [Next]_vars => [sources' # sources => Advance]_vars
  BY NextStep
<1>2. IInv /\ [Next]_vars =>
        [sources' # sources => /\ sources'.lsn > Covered
                               /\ sources'.mid > sources.mid
                               /\ topic[sources'.mid].type = "commit"
                               /\ topic[sources'.mid].lsn = sources'.lsn]_vars
  BY <1>1 DEF Advance
<1> QED
  BY <1>2, InductiveInvariant, PTL DEF Spec, CheckpointAdvances

\* What is in the channel and in the buffers of the sink leads, at every moment,
\* from the state of the target to that of the source.
THEOREM FullInvariant ==
  Spec => []FullInv
<1>1. Init => FullInv
  BY InitInv, InitType, InitReader, InitData DEF FullInv, DataInv
<1>2. FullInv /\ [Next]_vars => FullInv'
  BY NextStep, NextType, NextReader, NextData DEF FullInv
<1> QED
  BY <1>1, <1>2, PTL DEF Spec

\* The target never takes over a failed transaction, and everything the sink
\* collects and sends is a list of its own statements.
THEOREM TypesKept ==
  Spec => []TypeOK
<1>1. FullInv => TypeOK
  <2> SUFFICES ASSUME FullInv PROVE TypeOK
    OBVIOUS
  <2>1. IInv /\ TypeInv
    BY DEF FullInv
  <2>2. WithinBounds
    <3>1. \A k \in DOMAIN changes : changes[k] \in DOMAIN topic
      BY <2>1, SeqFacts DEF IInv, ChannelInv
    <3> QED
      BY <2>1, <3>1 DEF IInv, BufferInv, ChannelInv, WithinBounds
  <2>3. sources \in [lsn : LSNs \cup {0}, mid : 0..Len(topic)]
    BY <2>1, CheckpointType DEF IInv, TypeInv
  <2> QED
    BY <2>1, <2>2, <2>3 DEF IInv, BufferInv, ChannelInv, TypeInv, TypeOK
<1> QED
  BY <1>1, FullInvariant, PTL

\* Between commands the target is the source as of its checkpoint.
LEMMA TargetIs ==
  FullInv /\ ~HasDDL /\ Whole(topic) => target = SourceAt(Covered) /\ proc # "failed"
<1> SUFFICES ASSUME FullInv, ~HasDDL, Whole(topic)
             PROVE  target = SourceAt(Covered) /\ proc # "failed"
  OBVIOUS
<1>1. SinkInv /\ SourcesInv
  BY DEF FullInv, DataInv, IInv
<1>2. PICK n \in 0..Len(topic) :
        /\ \A i \in DOMAIN topic : topic[i].lsn <= Covered <=> i <= n
        /\ target = SourceStates(topic)[n]
  BY <1>1 DEF SinkInv, TargetInv
<1>3. SourceAt(Covered) = SourceStates(topic)[n]
  BY <1>1, <1>2, UpToIs
<1> QED
  BY <1>1, <1>2, <1>3 DEF SinkInv

\* The rows of the target are those of the source at the transaction that
\* pgcapture.sources names, whatever was batched, in flight or lost in a crash,
\* and no statement fails.
THEOREM TargetMatchesCheckpoint ==
  Spec => []CheckpointMatchesData
<1>1. FullInv => CheckpointMatchesData
  BY TargetIs DEF CheckpointMatchesData
<1> QED
  BY <1>1, FullInvariant, PTL

\* Where there are no commands to get ahead of the pipeline, every move of the
\* checkpoint comes with the rows and objects of the source at that transaction.
\* (With commands some topics break this: see the run apply_command.)
THEOREM ExactWithoutCommands ==
  Spec /\ [](~HasDDL /\ Whole(topic)) => ExactAtCheckpoint
<1> DEFINE Exact == sources' # sources /\ sources'.lsn >= ahead' =>
                      /\ target.rows' = SourceAt(sources'.lsn).rows
                      /\ target.objects' = SourceAt(sources'.lsn).objects
<1>1. IInv /\ [Next]_vars /\ (target = SourceAt(Covered))' => [Exact]_vars
  <2> SUFFICES ASSUME IInv, [Next]_vars, (target = SourceAt(Covered))', sources' # sources
               PROVE  target' = SourceAt(sources'.lsn)
    OBVIOUS
  <2>1. topic' = topic /\ base' = base
    BY DEF Next, Start, Read, ApplyBegin, ApplyChange, ApplyDDL, ExecDDL, ApplyCommit, Crash,
           vars, fixed
  <2>2. sources'.mid > sources.mid /\ sources.mid \in Nat
    BY NextStep DEF Advance, IInv, SourcesInv
  <2>3. Covered' = sources'.lsn
    BY <2>2 DEF Covered, FindCheckpoint
  <2> QED
    BY <2>1, <2>3 DEF SourceAt, UpTo
<1>2. FullInv /\ ~HasDDL /\ Whole(topic) => target = SourceAt(Covered)
  BY TargetIs
<1> QED
  BY <1>1, <1>2, FullInvariant, InductiveInvariant, PTL DEF Spec, ExactAtCheckpoint

=============================================================================
