----------------------------- MODULE PulsarToPg -----------------------------
(***************************************************************************)
(* The pulsar2pg pipeline: PulsarReaderSource reads the topic from the      *)
(* checkpoint that the target database keeps in pgcapture.sources, and      *)
(* PGXSink applies the transactions to that database.  It collects inserts  *)
(* into multi-row statements, sends the statements of several transactions  *)
(* through one pipeline that the server commits as a whole together with    *)
(* the new checkpoint, and executes DDL commands outside of the pipeline.   *)
(* A crash anywhere rolls the open pipeline back.                           *)
(*                                                                          *)
(* A row is <<table, key>> with one value.  A message has a type ("begin",  *)
(* "change", "ddl", "commit") and an LSN; a change carries a statement      *)
(* (stmt), an entry of pgcapture.ddl_logs the statements of the query the   *)
(* event trigger saw (query), DML sent along with the DDL included.  The    *)
(* messages arrive over time: the reader may be arbitrarily slow.           *)
(***************************************************************************)
EXTENDS Integers, Sequences, SequencesExt

CONSTANTS
  Topics,       \* the contents the topic may have: sequences of messages
  Rows,         \* the rows of the target, <<table, key>>
  Values,       \* what a row may hold
  Absent,       \* the row does not exist
  Objects,      \* what a command may create
  Restored,     \* LSNs a target restored from a backup may be at; 0: empty
  BatchTXSize,  \* PGXSink.BatchTXSize
  MaxInserts,   \* records of an insert batch (2500)
  ChanCap,      \* capacity of the changes channel (1000)
  MaxCrashes    \* bound on crashes

Table(row) == row[1]
IsDML(s) == s.op \in {"INSERT", "UPDATE", "DELETE"}

-----------------------------------------------------------------------------
(* The databases.  An empty database, and what a statement does to one.     *)

\* The statements of the source: on one row, and commands.
DML ==
  [op : {"INSERT"}, row : Rows, val : Values]
    \cup [op : {"UPDATE"}, old : Rows, row : Rows, val : Values]
    \cup [op : {"DELETE"}, row : Rows]

DDL == [op : {"CREATE", "CREATE IF NOT EXISTS"}, obj : Objects] \cup [op : {"REFRESH"}]

\* The statements of the sink.
Record == [row : Rows, val : Values]

Statement ==
  [op : {"INSERTS"}, rows : Seq(Record)]
    \cup [op : {"UPDATE"}, old : Rows, row : Rows, val : Values]
    \cup [op : {"DELETE"}, row : Rows]

DB == [rows : [Rows -> Values \cup {Absent}], objects : SUBSET Objects, failed : BOOLEAN]

EmptyDB == [rows |-> [r \in Rows |-> Absent], objects |-> {}, failed |-> FALSE]

Fail(d) == [d EXCEPT !.failed = TRUE]

\* A row of the source's insert, or of the sink's: ON CONFLICT (keys) DO NOTHING.
InsertRow(d, w) == IF d.rows[w.row] = Absent THEN [d EXCEPT !.rows[w.row] = w.val] ELSE d

\* The sink's insert statement: of several records for a row the first counts.
First(records, r) ==
  CHOOSE i \in DOMAIN records : /\ records[i].row = r
                                /\ \A j \in 1..(i - 1) : records[j].row # r

InsertRows(d, records) ==
  [d EXCEPT !.rows = [r \in Rows |->
     IF d.rows[r] = Absent /\ \E i \in DOMAIN records : records[i].row = r
     THEN records[First(records, r)].val ELSE d.rows[r]]]

\* An update finds its row by the old key and may give it another key.
UpdateRow(d, s) ==
  IF d.rows[s.old] = Absent THEN d
  ELSE IF s.row # s.old /\ d.rows[s.row] # Absent THEN Fail(d)
  ELSE [d EXCEPT !.rows = [@ EXCEPT ![s.old] = Absent, ![s.row] = s.val]]

\* One statement in PostgreSQL: of the source's query (INSERT, UPDATE, DELETE,
\* CREATE, CREATE IF NOT EXISTS) or of the sink (INSERTS, UPDATE, DELETE).
Exec(d, s) ==
  IF d.failed THEN d ELSE
  CASE s.op = "INSERTS"    -> InsertRows(d, s.rows)
    [] s.op = "INSERT"     -> IF d.rows[s.row] = Absent THEN InsertRow(d, s) ELSE Fail(d)
    [] s.op = "UPDATE"     -> UpdateRow(d, s)
    [] s.op = "DELETE"     -> [d EXCEPT !.rows[s.row] = Absent]
    [] s.op = "CREATE"     -> IF s.obj \in d.objects THEN Fail(d)
                              ELSE [d EXCEPT !.objects = @ \cup {s.obj}]
    [] s.op = "CREATE IF NOT EXISTS" -> [d EXCEPT !.objects = @ \cup {s.obj}]
    [] s.op = "REFRESH"    -> d

ExecAll(d, stmts) ==
  LET run[i \in 0..Len(stmts)] == IF i = 0 THEN d ELSE Exec(run[i - 1], stmts[i])
  IN run[Len(stmts)]

-----------------------------------------------------------------------------
(* What a topic says of the source database, as far as the topic holds      *)
(* whole transactions.                                                      *)

Message ==
  [type : {"begin", "commit"}, lsn : Nat \ {0}]
    \cup [type : {"change"}, lsn : Nat \ {0}, stmt : DML]
    \cup [type : {"ddl"}, lsn : Nat \ {0}, query : Seq(DML \cup DDL)]

\* The transactions follow each other, and nothing of a transaction comes after
\* its Commit (TopicInOrder of PgToPulsar).  Parts may be missing.
Ordered(t) ==
  \A i, j \in DOMAIN t : i < j =>
    t[i].lsn <= t[j].lsn /\ (t[i].type = "commit" => t[i].lsn < t[j].lsn)

CompleteIn(t, l) ==
  \E i, j \in DOMAIN t :
    /\ i < j
    /\ t[i].type = "begin" /\ t[j].type = "commit"
    /\ \A k \in i..j : t[k].lsn = l

\* A query without the statements of some kinds.
Without(query, ops) ==
  LET kept[i \in 0..Len(query)] ==
        IF i = 0 THEN <<>>
        ELSE IF query[i].op \in ops THEN kept[i - 1] ELSE Append(kept[i - 1], query[i])
  IN kept[Len(query)]

\* The statements the source executed for message m: a change is one; of a
\* query in ddl_logs only the commands are, its DML has messages of its own.
SourceStatements(m) ==
  CASE m.type = "change" -> <<m.stmt>>
    [] m.type = "ddl"    -> Without(m.query, {"INSERT", "UPDATE", "DELETE"})
    [] OTHER             -> <<>>

\* ddl_logs has one entry per command of a query: the first one counts.
Repeated(t, i) == t[i].type = "ddl" /\ \E j \in 1..(i - 1) : t[j] = t[i]

\* The states of the source after each message.
SourceStates(t) ==
  LET state[i \in 0..Len(t)] ==
        IF i = 0 THEN EmptyDB
        ELSE IF CompleteIn(t, t[i].lsn) /\ ~Repeated(t, i)
             THEN ExecAll(state[i - 1], SourceStatements(t[i]))
        ELSE state[i - 1]
  IN state

\* A topic is in order, and what it holds did happen at the source.
ASSUME SinkAssumption ==
  /\ \A t \in Topics : /\ t \in Seq(Message) /\ Ordered(t)
                       /\ \A i \in 0..Len(t) : ~SourceStates(t)[i].failed
  /\ Absent \notin Values
  /\ Restored \subseteq Nat
  /\ BatchTXSize \in Nat
  /\ MaxInserts \in Nat \ {0}
  /\ ChanCap \in Nat \ {0}
  /\ MaxCrashes \in Nat

-----------------------------------------------------------------------------
VARIABLES
  topic,        \* the messages, never changed
  base,         \* LSN the log of the target's recovery names, never changed
  target,       \* committed state of the target database ...
  sources,      \* ... and of its row of pgcapture.sources
  proc,         \* "down", "up", "failed" (an error stopped the sink)
  rpos,         \* PulsarReaderSource: index of the next message
  cp,           \* the checkpoint Capture was called with
  consistent,   \* PulsarReaderSource.consistent
  changes,      \* the channel, holding indices of topic
  inTX, skip, prevDDL,      \* fields of PGXSink
  ddl,          \* the command performDDL is about to execute, <<>>: none
  inserts,      \* the insert batch
  pendingChanges,  \* statements of the transaction, not sent yet
  pipeline,     \* statements sent and not synced
  pendingCommits,  \* LSNs of the transactions in the pipeline
  ahead,        \* history: the last transaction with a command so far
  crashes

srcVars  == <<rpos, cp, consistent>>
txVars   == <<inTX, skip, prevDDL>>
bufVars  == <<inserts, pendingChanges>>
pipeVars == <<pipeline, pendingCommits>>
fixed    == <<topic, base>>
vars == <<fixed, target, sources, proc, srcVars, changes, txVars, ddl, bufVars, pipeVars, ahead, crashes>>

Fresh == [lsn |-> 0, mid |-> 0]

\* One database transaction, of statements and an update of pgcapture.sources:
\* all of it, or nothing and an error.
Commit(stmts, source) ==
  LET done == ExecAll(target, stmts)
  IN IF done.failed THEN proc' = "failed" /\ UNCHANGED <<target, sources>>
     ELSE target' = done /\ sources' = source /\ UNCHANGED proc

\* What the topic says: the state of the source database after LSN l.
UpTo(l) == CHOOSE n \in 0..Len(topic) : \A i \in DOMAIN topic : topic[i].lsn <= l <=> i <= n

SourceAt(l) == SourceStates(topic)[UpTo(l)]

Complete(l) == CompleteIn(topic, l)

LSNs == {topic[i].lsn : i \in DOMAIN topic}

-----------------------------------------------------------------------------
\* The target is empty, or was restored from a backup of the source that ended
\* at a transaction (base); then the log of that recovery is at hand.
Init ==
  /\ topic \in Topics
  /\ base \in Restored \cap (LSNs \cup {0})
  /\ target = SourceAt(base)
  /\ sources = Fresh
  /\ proc = "down"
  /\ rpos = 1 /\ cp = Fresh /\ consistent = FALSE
  /\ changes = <<>>
  /\ inTX = FALSE /\ skip = {} /\ prevDDL = <<>> /\ ddl = <<>>
  /\ inserts = <<>> /\ pendingChanges = <<>>
  /\ pipeline = <<>> /\ pendingCommits = <<>>
  /\ ahead = 0 /\ crashes = 0

-----------------------------------------------------------------------------
(* PGXSink.Setup and PulsarReaderSource.Capture.                            *)

\* findCheckpoint: the row of pgcapture.sources, or else what the log names.  (A
\* log that gives only a time, no LSN, is not modelled.)
FindCheckpoint == IF sources.mid # 0 THEN sources ELSE [lsn |-> base, mid |-> 0]

\* Where the reader starts: at the message of the checkpoint, inclusive; with
\* a timestamp only, somewhere not behind what follows the LSN; or at the start.
ReaderStarts(c) ==
  IF c.mid # 0 THEN {c.mid}
  ELSE IF c.lsn = 0 THEN {1}
  ELSE {n \in 1..(Len(topic) + 1) : \A i \in 1..(n - 1) : topic[i].lsn <= c.lsn}

Start ==
  /\ proc = "down"
  /\ proc' = "up"
  /\ cp' = FindCheckpoint
  /\ rpos' \in ReaderStarts(FindCheckpoint)
  /\ consistent' = FALSE
  /\ UNCHANGED <<fixed, target, sources, changes, txVars, ddl, bufVars, pipeVars, ahead, crashes>>

\* Skip what the checkpoint covers; without one, skip up to the first Begin.
Delivers(m) == consistent \/ (IF cp.lsn # 0 THEN m.lsn > cp.lsn ELSE m.type = "begin")

\* The read function of PulsarReaderSource, for one message.
Read ==
  /\ proc = "up"
  /\ rpos <= Len(topic)
  /\ Len(changes) < ChanCap
  /\ rpos' = rpos + 1
  /\ consistent' = Delivers(topic[rpos])
  /\ changes' = IF Delivers(topic[rpos]) THEN Append(changes, rpos) ELSE changes
  /\ UNCHANGED <<fixed, target, sources, proc, cp, txVars, ddl, bufVars, pipeVars, ahead, crashes>>

-----------------------------------------------------------------------------
(* PGXSink.Apply, one action per kind of message.                           *)

Msg == topic[Head(changes)]

\* The sink takes a message of this type; Remaining are left in the channel.
Take(type) ==
  /\ proc = "up"
  /\ ddl = <<>>
  /\ changes # <<>>
  /\ Msg.type = type
  /\ changes' = Tail(changes)

Remaining == Len(changes) - 1

\* A Begin inside a transaction: the earlier one is incomplete, and the
\* statements it left are dropped.  The insert batch stays as it is.
ApplyBegin ==
  /\ Take("begin")
  /\ inTX' = TRUE
  /\ pendingChanges' = IF inTX THEN <<>> ELSE pendingChanges
  /\ UNCHANGED <<fixed, target, sources, proc, srcVars, skip, prevDDL, ddl, inserts, pipeVars, ahead,
                 crashes>>

\* flushInsert: the batch becomes one statement.  (It asks for the columns of the
\* table; when that fails the process panics, one of the points of Crash.)
Flushed ==
  IF inserts = <<>> THEN pendingChanges
  ELSE Append(pendingChanges, [op |-> "INSERTS", rows |-> inserts])

\* Mutant: a batch takes rows of its table without end.
BatchOK_NoLimit(s) == inserts # <<>> => Table(inserts[1].row) = Table(s.row)

\* insertBatch.ok: there is room, and the rows are of the same table.
BatchOK(s) ==
  /\ Len(inserts) < MaxInserts
  /\ inserts # <<>> => Table(inserts[1].row) = Table(s.row)

HandleInsert(s) ==
  /\ pendingChanges' = IF BatchOK(s) THEN pendingChanges ELSE Flushed
  /\ inserts' = Append(IF BatchOK(s) THEN inserts ELSE <<>>, [row |-> s.row, val |-> s.val])

\* Mutant: the batch is not flushed before the statement.
HandleUpdateDelete_NoFlush(s) ==
  /\ pendingChanges' = Append(pendingChanges, s)
  /\ inserts' = inserts

\* (An update that sets no column sends nothing; here a row has one to set.  An
\* error of GetColumnInfo ends the sink, as Crash does.)
HandleUpdateDelete(s) ==
  /\ pendingChanges' = Append(Flushed, s)
  /\ inserts' = <<>>

\* A change outside of a transaction is ignored, and so is one of a table the
\* DDL command before it wrote to.
ApplyChange ==
  /\ Take("change")
  /\ IF ~inTX \/ Table(Msg.stmt.row) \in skip THEN UNCHANGED bufVars
     ELSE IF Msg.stmt.op = "INSERT" THEN HandleInsert(Msg.stmt)
     ELSE HandleUpdateDelete(Msg.stmt)
  /\ UNCHANGED <<fixed, target, sources, proc, srcVars, txVars, ddl, pipeVars, ahead, crashes>>

\* parseDDL: the command without the refreshes of materialized views, and the
\* tables its DML writes.  (CREATE TABLE AS and SELECT INTO write the table they
\* create: here they are a CREATE and an INSERT of one query.)
Command(query) == Without(query, {"REFRESH"})
Relations(query) == {Table(s.row) : s \in {t \in ToSet(query) : IsDML(t)}}

\* The command has statements and is not the one executed just before.
IsNewDDL(query) ==
  /\ inTX
  /\ Command(query) # <<>>
  /\ Command(query) # prevDDL

\* Mutant: statements collected before the command are kept.
PerformDDL_KeepPending(query) ==
  /\ pendingChanges' = pendingChanges
  /\ skip' = Relations(query)
  /\ prevDDL' = Command(query)
  /\ ddl' = Command(query)
  /\ Commit(pipeline, sources)
  /\ pipeline' = <<>> /\ pendingCommits' = <<>>
  /\ ahead' = Max({ahead, Msg.lsn})

\* performDDL up to the command: drop the statements collected so far, sync
\* the pipeline (whole transactions, but not their checkpoint).
PerformDDL(query) ==
  /\ pendingChanges' = <<>>
  /\ skip' = Relations(query)
  /\ prevDDL' = Command(query)
  /\ ddl' = Command(query)
  /\ Commit(pipeline, sources)
  /\ pipeline' = <<>> /\ pendingCommits' = <<>>
  /\ ahead' = Max({ahead, Msg.lsn})

ApplyDDL ==
  /\ Take("ddl")
  /\ IF IsNewDDL(Msg.query) THEN PerformDDL(Msg.query)
     ELSE UNCHANGED <<target, sources, proc, skip, prevDDL, ddl, pendingChanges, pipeVars, ahead>>
  /\ UNCHANGED <<fixed, srcVars, inTX, inserts, crashes>>

\* conn.Exec: the command is a transaction of its own; then the schema is
\* loaded again and the next pipeline starts.
ExecDDL ==
  /\ proc = "up"
  /\ ddl # <<>>
  /\ Commit(ddl, sources)
  /\ ddl' = <<>>
  /\ UNCHANGED <<fixed, srcVars, changes, txVars, bufVars, pipeVars, ahead, crashes>>

\* Mutant: only full batches are synced.
EndsBatch_Full(commits) == Len(commits) = BatchTXSize

\* The pipeline is synced when the batch is full or the channel is empty.
EndsBatch(commits) == Len(commits) = BatchTXSize \/ Remaining = 0

\* Mutant: the message that was read last is taken for the Commit.
UpdateSource_LastRead == [lsn |-> Msg.lsn, mid |-> rpos - 1]

\* UpdateSourceSQL: the row of pgcapture.sources names this Commit.
UpdateSource == [lsn |-> Msg.lsn, mid |-> Head(changes)]

\* handleCommit: send the statements; at the end of a batch, the checkpoint of
\* this commit too, and sync.
HandleCommit ==
  LET stmts   == pipeline \o Flushed
      commits == Append(pendingCommits, Msg.lsn)
  IN /\ pendingChanges' = <<>> /\ inserts' = <<>>
     /\ IF EndsBatch(commits)
        THEN Commit(stmts, UpdateSource) /\ pipeline' = <<>> /\ pendingCommits' = <<>>
        ELSE pipeline' = stmts /\ pendingCommits' = commits /\ UNCHANGED <<target, sources, proc>>

ApplyCommit ==
  /\ Take("commit")
  /\ IF inTX THEN HandleCommit ELSE UNCHANGED <<target, sources, proc, bufVars, pipeVars>>
  /\ inTX' = FALSE /\ skip' = {} /\ prevDDL' = <<>>
  /\ UNCHANGED <<fixed, srcVars, ddl, ahead, crashes>>

\* The process dies or is stopped, in any state: the open pipeline is rolled
\* back, everything in memory is gone.
Crash ==
  /\ proc # "down"
  /\ crashes < MaxCrashes
  /\ crashes' = crashes + 1
  /\ proc' = "down"
  /\ changes' = <<>>
  /\ inTX' = FALSE /\ skip' = {} /\ prevDDL' = <<>> /\ ddl' = <<>>
  /\ inserts' = <<>> /\ pendingChanges' = <<>>
  /\ pipeline' = <<>> /\ pendingCommits' = <<>>
  /\ UNCHANGED <<fixed, target, sources, srcVars, ahead>>

-----------------------------------------------------------------------------
Next ==
  \/ Start \/ Read
  \/ ApplyBegin \/ ApplyChange \/ ApplyDDL \/ ExecDDL \/ ApplyCommit
  \/ Crash

Spec == Init /\ [][Next]_vars

\* The two goroutines keep running, and a process that is down is started.
Fairness ==
  /\ WF_vars(Start) /\ WF_vars(Read)
  /\ WF_vars(ApplyBegin) /\ WF_vars(ApplyChange) /\ WF_vars(ApplyDDL)
  /\ WF_vars(ExecDDL) /\ WF_vars(ApplyCommit)

FairSpec == Spec /\ Fairness

-----------------------------------------------------------------------------
(* Properties.                                                              *)

HasDDL == \E i \in DOMAIN topic : topic[i].type = "ddl"

\* Nothing of a transaction comes before its Begin, and only the last one may
\* still miss its Commit.  A transaction without a Begin may be anywhere.
Whole(t) ==
  \A i \in DOMAIN t : t[i].type = "begin" =>
    /\ \A j \in 1..(i - 1) : t[j].lsn < t[i].lsn
    /\ (\E j \in DOMAIN t : t[j].lsn > t[i].lsn) => CompleteIn(t, t[i].lsn)

Covered == FindCheckpoint.lsn

\* The insert batch never grows past its fixed array, whose records
\* handleInsert stores into by offset, a pipeline never holds a whole batch of
\* commits, and neither the reader nor the channel runs ahead of the topic.
WithinBounds ==
  /\ Len(inserts) <= MaxInserts
  /\ BatchTXSize > 0 => Len(pendingCommits) < BatchTXSize
  /\ Len(changes) <= ChanCap
  /\ rpos \in 1..(Len(topic) + 1)
  /\ \A k \in DOMAIN changes : changes[k] \in DOMAIN topic
  /\ crashes \in 0..MaxCrashes

\* Types and bounds.
TypeOK ==
  /\ WithinBounds
  /\ target \in DB /\ ~target.failed
  /\ sources \in [lsn : LSNs \cup {0}, mid : 0..Len(topic)]
  /\ proc \in {"down", "up", "failed"}
  /\ cp \in [lsn : LSNs \cup {0}, mid : 0..Len(topic)]
  /\ consistent \in BOOLEAN
  /\ inTX \in BOOLEAN
  /\ skip \subseteq {Table(r) : r \in Rows}
  /\ inserts \in Seq(Record)
  /\ pendingChanges \in Seq(Statement) /\ pipeline \in Seq(Statement)
  /\ ddl \in Seq(DML \cup DDL)
  /\ ahead \in LSNs \cup {0}

\* The rows of the target are at every moment, after any crash, exactly what
\* the source had after the transaction that pgcapture.sources names: the
\* pipeline commits rows and checkpoint together, batching and the rewriting
\* of inserts lose nothing and repeat nothing, whatever the reader delivered
\* in between; and no statement ever conflicts.  (Topics without DDL, which
\* commits outside of the pipeline, and without a transaction whose Commit is
\* missing in the middle: IncompleteIgnored is about those.)
CheckpointMatchesData ==
  ~HasDDL /\ Whole(topic) =>
             /\ target.rows = SourceAt(Covered).rows
             /\ proc # "failed"

\* Whenever the checkpoint moves, it moves forward, to a Commit of the topic
\* behind the last one: also after a crash, and for a target restored from a
\* backup, whose first checkpoint comes from a log.  What pgcapture.sources
\* covers is not applied again.
CheckpointAdvances ==
  [][sources' # sources => /\ sources'.lsn > Covered
                           /\ sources'.mid > sources.mid
                           /\ topic[sources'.mid].type = "commit"
                           /\ topic[sources'.mid].lsn = sources'.lsn]_vars

\* When the checkpoint moves and has reached the commands executed so far, the
\* rows and objects of the target are those of the source at that transaction:
\* also when commands were executed outside of the pipeline, when their query
\* carried DML that has messages of its own, and when a crash made the sink
\* repeat transactions that were durable.
ExactAtCheckpoint ==
  [][sources' # sources /\ sources'.lsn >= ahead' =>
       /\ target.rows' = SourceAt(sources'.lsn).rows
       /\ target.objects' = SourceAt(sources'.lsn).objects]_vars

\* The topic ends inside of a transaction.
Open == Last(topic).type # "commit"

\* The target reaches the last complete transaction of the topic and stays,
\* unless a crash after a command makes the sink repeat it and the database
\* refuses: such a sink fails again after every start.  (Transactions in front
\* of one that is still arriving wait in the pipeline for its Commit.)
Converges ==
  <>[](\/ \A l \in LSNs : Complete(l) => l <= Covered \/ (Open /\ l \in ToSet(pendingCommits))
       \/ proc = "failed" /\ crashes > 0 /\ ahead > Covered)

\* Nothing of a transaction whose Commit is missing reaches the target: a row
\* that exists was written by a complete transaction.
IncompleteIgnored ==
  \A r \in Rows : target.rows[r] # Absent =>
    \E i \in DOMAIN topic : /\ Complete(topic[i].lsn)
                            /\ \E s \in ToSet(SourceStatements(topic[i])) :
                                 s.op \in {"INSERT", "UPDATE"} /\ s.row = r

=============================================================================
