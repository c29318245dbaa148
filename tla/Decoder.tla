------------------------------ MODULE Decoder ------------------------------
(***************************************************************************)
(* The decoders (pkg/decode) between the replication stream of PostgreSQL   *)
(* and the topic.  The stream names the columns of a row but not reliably   *)
(* their types, so a decoder keeps a cache of the column types of the       *)
(* database, read when the source starts and again whenever an entry of     *)
(* pgcapture.ddl_logs goes by.  The cache is read from the catalog as it is *)
(* now, which may be ahead of the stream; a column it does not know is left *)
(* out, a change without columns makes no message and takes no number, and  *)
(* PulsarSink relies on the numbers when a transaction is replayed.         *)
(*                                                                          *)
(* RefreshType does not ask for the error that ended its result: a read     *)
(* that breaks off puts what it got into the cache, and nobody is told.     *)
(* The properties say what holds in spite of it, and what holds as long as  *)
(* the cache is whole.                                                      *)
(*                                                                          *)
(* pgoutput and pglogical_output differ in bytes only and are one here.     *)
(* What lies between the decoder and the topic is PgToPulsar's subject: a   *)
(* message is numbered, filtered and published in one step, which a crash   *)
(* may undo only as far as the topic does not hold it.                      *)
(***************************************************************************)
EXTENDS Integers, Sequences, SequencesExt

CONSTANTS
  Names,         \* names of tables of users
  Columns,       \* names of columns
  Oids,          \* oids of types
  InitCatalog,   \* the columns of each table at the start
  Transactions,  \* what a transaction may consist of: sequences of statements
  Misses,        \* the columns that a broken read of the catalog may miss
  MaxTx,         \* bound on the transactions PostgreSQL commits
  MaxCrashes,    \* bound on crashes
  MaxBreaks      \* bound on reads of the catalog that break

VARIABLES
  work,         \* PostgreSQL: what is left of the transaction in progress,
  cat,          \* the catalog as it sees it,
  rows,         \* and its changes so far
  wal,          \* PostgreSQL: the changes of each committed transaction
  catalogs,     \* PostgreSQL: its catalog after each of them, and at first
  announced,    \* PostgreSQL: the columns of each relation sent on this connection
  proc,         \* "down", "starting" (in Capture), "up", or "failed" (the
                \* decoder returned an error)
  types,        \* PGXSchemaLoader.types
  relations,    \* the decoder's relations: the columns it was told
  pos,          \* the stream: transaction and number of what comes next
  currentLsn, currentSeq,  \* fields of PGXSource
  prev, consistent,        \* fields of PulsarSink
  topic,
  crashes, breaks,
  whole,        \* history: between them the cache and the stream have missed nothing
  guessed       \* history: the transactions of which a row was decoded without that

txVars   == <<work, cat, rows>>
pgVars   == <<txVars, wal, catalogs>>
decVars  == <<types, relations>>
sinkVars == <<prev, consistent, topic>>
faultVars == <<crashes, breaks>>
histVars == <<whole, guessed>>
vars == <<pgVars, announced, proc, decVars, pos, currentLsn, currentSeq, sinkVars,
          faultVars, histVars>>

DDLLogs == "ddl_logs"
Sources == "sources"
Tables  == Names \cup {DDLLogs, Sources}

\* A table's columns in order, each with its type; a table that does not
\* exist has none.  The tables of the extension are never altered.
ColumnDefs == [name : Columns, oid : Oids]
Catalogs   == [Tables -> Seq(ColumnDefs)]

Missing == 0   \* no entry in the cache
Unknown == <<>>

\* The names of a table's columns differ.
Distinct(shape) == \A i, j \in DOMAIN shape : shape[i].name = shape[j].name => i = j

Formats == {"b", "t", "n", "u"}
Parts   == [kind : {"K", "O", "N"}, formats : [Columns -> Formats]]

\* A statement writes a row (an insert a new row with all its values, a delete
\* an old one, an update a new one and before it perhaps an old one), or gives a
\* table of users other columns.
IsWrite(s) ==
  /\ Len(s.parts) = (IF s.op = "U" /\ s.parts[1].kind # "N" THEN 2 ELSE 1)
  /\ s.op = "I" => s.parts[1].kind = "N" /\ \A c \in Columns : s.parts[1].formats[c] # "u"
  /\ s.op = "D" => s.parts[1].kind # "N"
  /\ Len(s.parts) = 2 => s.parts[2].kind = "N"

Writes == {s \in [op : {"I", "U", "D"}, table : Names \cup {Sources}, parts : Seq(Parts)] :
             IsWrite(s)}
Alters == {s \in [op : {"ALTER"}, table : Names, columns : Seq(ColumnDefs)] : Distinct(s.columns)}

ASSUME DecoderAssumption ==
  /\ Names \cap {DDLLogs, Sources} = {}
  /\ Missing \notin Oids
  /\ MaxTx \in Nat /\ MaxCrashes \in Nat /\ MaxBreaks \in Nat
  /\ InitCatalog \in Catalogs
  /\ \A t \in Tables : Distinct(InitCatalog[t])
  /\ InitCatalog[DDLLogs] # <<>> /\ InitCatalog[Sources] # <<>>
  /\ \A tx \in Transactions : tx \in Seq(Writes \cup Alters) /\ tx # <<>>

Catalog == Last(catalogs)

-----------------------------------------------------------------------------
(* PostgreSQL.  A statement gives a table other columns, or writes a row.   *)
(* The event trigger of the extension logs the former as a row of ddl_logs  *)
(* before the transaction can write to the altered table: at the end of the *)
(* command or, of those that write rows themselves (CREATE TABLE AS, SELECT *)
(* INTO), at its start.                                                     *)
(*                                                                          *)
(* On the wire a row is one or two tuples, each with its kind ("K", "O":    *)
(* the old row or its key; "N": the new row), and a tuple is the format of  *)
(* each column: "b" and "t" (a value), "n" (null) or "u" (an unchanged      *)
(* value stored out of line).  shape records the columns the row really has.*)

\* The tuple of a row that has the given formats.
Tuple(shape, formats) == [i \in DOMAIN shape |-> formats[shape[i].name]]

WireRow(s) ==
  [table |-> s.table, op |-> s.op, shape |-> cat[s.table],
   parts |-> [i \in DOMAIN s.parts |->
                [kind |-> s.parts[i].kind, tuple |-> Tuple(cat[s.table], s.parts[i].formats)]]]

\* pgcapture.log_ddl
LogRow ==
  [table |-> DDLLogs, op |-> "I", shape |-> cat[DDLLogs],
   parts |-> <<[kind |-> "N", tuple |-> [i \in DOMAIN cat[DDLLogs] |-> "b"]]>>]

pgFrame == <<announced, proc, decVars, pos, currentLsn, currentSeq, sinkVars,
             faultVars, histVars>>

Idle == work = <<>> /\ rows = <<>>

PgBegin ==
  /\ Idle
  /\ Len(wal) < MaxTx
  /\ work' \in Transactions
  /\ UNCHANGED <<cat, rows, wal, catalogs, pgFrame>>

PgAlter ==
  /\ work # <<>>
  /\ Head(work).op = "ALTER"
  /\ work' = Tail(work)
  /\ cat' = [cat EXCEPT ![Head(work).table] = Head(work).columns]
  /\ rows' = Append(rows, LogRow)
  /\ UNCHANGED <<wal, catalogs, pgFrame>>

PgWrite ==
  /\ work # <<>>
  /\ Head(work).op # "ALTER"
  /\ cat[Head(work).table] # <<>>
  /\ work' = Tail(work)
  /\ rows' = Append(rows, WireRow(Head(work)))
  /\ UNCHANGED <<cat, wal, catalogs, pgFrame>>

\* A write to a table that does not exist fails, and the transaction with it.
PgRollback ==
  /\ work # <<>>
  /\ Head(work).op # "ALTER"
  /\ cat[Head(work).table] = <<>>
  /\ work' = <<>> /\ rows' = <<>>
  /\ cat' = Catalog
  /\ UNCHANGED <<wal, catalogs, pgFrame>>

PgCommit ==
  /\ work = <<>> /\ rows # <<>>
  /\ wal' = Append(wal, rows)
  /\ catalogs' = Append(catalogs, cat)
  /\ rows' = <<>>
  /\ UNCHANGED <<work, cat, pgFrame>>

-----------------------------------------------------------------------------
(* PGXSchemaLoader.                                                         *)

NewPGXSchemaLoader == [t \in Tables |-> [c \in Columns |-> Missing]]

\* What the catalog has now goes into the cache, but for what the read missed;
\* what the catalog has no longer stays there.
RefreshType(cache, missed) ==
  [t \in Tables |->
     [c \in Columns |->
        IF <<t, c>> \notin missed /\ \E i \in DOMAIN Catalog[t] : Catalog[t][i].name = c
        THEN (CHOOSE d \in ToSet(Catalog[t]) : d.name = c).oid
        ELSE cache[t][c]]]

\* A read may miss something without an error (rows.Err is not asked for).  An
\* error that RefreshType does return ends the process: a Crash.
Refresh(cache) ==
  \E missed \in Misses \cup {{}} :
    /\ missed # {} => breaks < MaxBreaks
    /\ types' = RefreshType(cache, missed)
    /\ whole' = (missed = {})
    /\ breaks' = IF missed = {} THEN breaks ELSE breaks + 1

\* Mutant: the type is asked from the database, not from the cache.
GetTypeOID_Live(table, field) == RefreshType(NewPGXSchemaLoader, {})[table][field]

GetTypeOID(table, field) == types[table][field]

-----------------------------------------------------------------------------
(* The decoder.                                                             *)

Item == wal[pos.tx][pos.num]

\* readTuple: "b" and "t" are followed by a value, "n" and "u" are not.
ReadTuple(tuple) == [i \in DOMAIN tuple |-> [format |-> tuple[i], datum |-> tuple[i] \in {"b", "t"}]]

\* ReadRowChange: an old tuple comes first if there is one; after it only an
\* update has another.
ReadRowChange(row) ==
  LET first == row.parts[1]
      new   == IF first.kind # "N" /\ row.op = "U" THEN row.parts[2] ELSE first
  IN [old |-> IF first.kind # "N" THEN ReadTuple(first.tuple) ELSE <<>>,
      new |-> IF new.kind = "N" THEN ReadTuple(new.tuple) ELSE <<>>]

\* makePBTuple: a field for every column whose type is known, except nulls of
\* an old tuple and unchanged values.
MakePBTuple(table, rel, src, noNull) ==
  {[name |-> rel[i], oid |-> GetTypeOID(table, rel[i]), format |-> src[i].format] :
     i \in {j \in DOMAIN src : /\ noNull => src[j].datum
                               /\ GetTypeOID(table, rel[j]) # Missing
                               /\ src[j].format # "u"}}

\* The change that Decode makes of a row.
DecodedChange(row) ==
  LET r == ReadRowChange(row)
  IN [table |-> row.table, op |-> row.op,
      old |-> MakePBTuple(row.table, relations[row.table], r.old, TRUE),
      new |-> MakePBTuple(row.table, relations[row.table], r.new, FALSE)]

IsDDL(c)  == c.table = DDLLogs
Ignore(c) == c.table = Sources

-----------------------------------------------------------------------------
(* PGXSource.fetching, and PulsarSink behind it.                            *)

After(lsn, seq, cp) == lsn > cp.lsn \/ (lsn = cp.lsn /\ seq > cp.seq)

\* The message gets the position (lsn, seq); the sink publishes it unless the
\* topic held that position when the process started.  Of the item that it
\* comes from, of the process that publishes it and of its cache there is a record.
Emit(lsn, seq, change) ==
  LET pass == consistent \/ After(lsn, seq, prev)
  IN /\ currentLsn' = lsn
     /\ currentSeq' = seq
     /\ consistent' = pass
     /\ topic' = IF pass THEN Append(topic, [lsn |-> lsn, seq |-> seq, change |-> change,
                                             num |-> pos.num, epoch |-> crashes,
                                             whole |-> whole])
                         ELSE topic
     /\ UNCHANGED prev

NoChange == [table |-> "none", op |-> "none", old |-> {}, new |-> {}]

Streaming == proc = "up" /\ pos.tx <= Len(wal)

\* Begin is the number 0 of its transaction, Commit the one after its changes.
DecodeBegin ==
  /\ Streaming
  /\ pos.num = 0
  /\ Emit(pos.tx, 0, NoChange)
  /\ pos' = [pos EXCEPT !.num = 1]
  /\ UNCHANGED <<pgVars, announced, proc, decVars, faultVars, histVars>>

DecodeCommit ==
  /\ Streaming
  /\ pos.num = Len(wal[pos.tx]) + 1
  /\ Emit(pos.tx, currentSeq + 1, NoChange)
  /\ pos' = [tx |-> pos.tx + 1, num |-> 0]
  /\ UNCHANGED <<pgVars, announced, proc, decVars, faultVars, histVars>>

AtRow == Streaming /\ pos.num \in DOMAIN wal[pos.tx]

ColumnNames(shape) == [i \in DOMAIN shape |-> shape[i].name]

\* Mutant: a relation that is known is not replaced.
ReadRelation_Once(table, fields) ==
  relations' = [relations EXCEPT ![table] = IF @ = Unknown THEN fields ELSE @]

ReadRelation(table, fields) == relations' = [relations EXCEPT ![table] = fields]

\* The server announces a relation before the first change of it, and again
\* when it has been altered since.
DecodeRelation ==
  /\ AtRow
  /\ announced[Item.table] # ColumnNames(Item.shape)
  /\ announced' = [announced EXCEPT ![Item.table] = ColumnNames(Item.shape)]
  /\ ReadRelation(Item.table, ColumnNames(Item.shape))
  /\ UNCHANGED <<pgVars, proc, types, pos, currentLsn, currentSeq, sinkVars, faultVars, histVars>>

\* Mutant: the types are read at the start only.
Refreshes_Never(c) == FALSE

Refreshes(c) == IsDDL(c)

\* A change without fields and one of pgcapture.sources make no message; an
\* entry of ddl_logs has the types read again.
DecodeChange ==
  LET c == DecodedChange(Item)
      silent == (c.old = {} /\ c.new = {}) \/ Ignore(c)
  IN /\ AtRow
     /\ announced[Item.table] = ColumnNames(Item.shape)
     /\ IF relations[Item.table] = Unknown
        THEN /\ proc' = "failed"
             /\ UNCHANGED <<types, pos, currentLsn, currentSeq, sinkVars, breaks, histVars>>
        ELSE /\ proc' = proc
             /\ pos' = [pos EXCEPT !.num = @ + 1]
             /\ IF ~silent /\ Refreshes(c) THEN Refresh(types)
                ELSE UNCHANGED <<types, whole, breaks>>
             /\ guessed' = IF whole THEN guessed ELSE guessed \cup {pos.tx}
             /\ IF silent THEN UNCHANGED <<currentLsn, currentSeq, sinkVars>>
                ELSE Emit(currentLsn, currentSeq + 1, c)
     /\ UNCHANGED <<pgVars, announced, relations, crashes>>

-----------------------------------------------------------------------------
(* PulsarSink.Setup and PGXSource.Capture: read the types, then replay the  *)
(* transaction of the last message in the topic, or start at the configured *)
(* position.  PostgreSQL goes on in between.                                *)

\* Mutant: the types are not read before the first command.
CaptureTypes_Empty == types' = NewPGXSchemaLoader /\ whole' = TRUE /\ UNCHANGED breaks

CaptureTypes == Refresh(NewPGXSchemaLoader)

Checkpoint == IF topic = <<>> THEN [lsn |-> 0, seq |-> 0]
              ELSE [lsn |-> Last(topic).lsn, seq |-> Last(topic).seq]

\* Up to the choice of the position; pos is the end of the stream if there is no
\* checkpoint.
Capture ==
  /\ proc = "down"
  /\ proc' = "starting"
  /\ CaptureTypes
  /\ relations' = [t \in Tables |-> Unknown]
  /\ announced' = [t \in Tables |-> Unknown]
  /\ prev' = Checkpoint
  /\ consistent' = FALSE
  /\ pos' = [tx |-> IF Checkpoint.lsn # 0 THEN Checkpoint.lsn ELSE Len(wal) + 1, num |-> 0]
  /\ UNCHANGED <<pgVars, currentLsn, currentSeq, topic, crashes, guessed>>

Logs(l) == \E i \in DOMAIN wal[l] : wal[l][i].table = DDLLogs

\* Without a checkpoint the stream begins where the server was asked last
\* (XLogPos), at StartLSN, or where the slot is.  What was altered after the types
\* were read and before that is in neither.
StartReplication ==
  /\ proc = "starting"
  /\ \E tx \in 1..(Len(wal) + 1) :
       /\ prev.lsn # 0 => tx = pos.tx
       /\ pos' = [pos EXCEPT !.tx = tx]
       /\ currentLsn' = tx
       /\ whole' = (whole /\ \A l \in pos.tx..(tx - 1) : ~Logs(l))
  /\ currentSeq' = prev.seq
  /\ proc' = "up"
  /\ UNCHANGED <<pgVars, announced, decVars, sinkVars, faultVars, guessed>>

\* The process dies, is stopped, or loses its connection.
Crash ==
  /\ proc # "down"
  /\ crashes < MaxCrashes
  /\ crashes' = crashes + 1
  /\ proc' = "down"
  /\ whole' = FALSE
  /\ UNCHANGED <<pgVars, announced, decVars, pos, currentLsn, currentSeq, sinkVars, breaks, guessed>>

Init ==
  /\ work = <<>> /\ cat = InitCatalog /\ rows = <<>>
  /\ wal = <<>>
  /\ catalogs = <<InitCatalog>>
  /\ announced = [t \in Tables |-> Unknown]
  /\ proc = "down"
  /\ types = NewPGXSchemaLoader
  /\ relations = [t \in Tables |-> Unknown]
  /\ pos = [tx |-> 1, num |-> 0]
  /\ currentLsn = 0 /\ currentSeq = 0
  /\ prev = [lsn |-> 0, seq |-> 0] /\ consistent = FALSE
  /\ topic = <<>>
  /\ crashes = 0 /\ breaks = 0
  /\ whole = FALSE /\ guessed = {}

Next ==
  \/ PgBegin \/ PgAlter \/ PgWrite \/ PgRollback \/ PgCommit
  \/ Capture \/ StartReplication
  \/ DecodeBegin \/ DecodeRelation \/ DecodeChange \/ DecodeCommit
  \/ Crash

Spec == Init /\ [][Next]_vars

-----------------------------------------------------------------------------
(* Properties.                                                              *)

\* The catalogs at and after the commit of transaction l.
Since(l) == (l + 1)..Len(catalogs)

\* The column of table t with that name is in every catalog since transaction l ...
Remains(l, t, name) ==
  \A k \in Since(l) : \E i \in DOMAIN catalogs[k][t] : catalogs[k][t][i].name = name

\* ... with the same type.
Kept(l, t, d) == \A k \in Since(l) : d \in ToSet(catalogs[k][t])

\* What a faithful message says of the given columns, with the types they have
\* in the row: of an old tuple the values, of a new one the nulls too.
Fields(row, cols, parts) ==
  {[name |-> row.shape[i].name, oid |-> row.shape[i].oid, format |-> p.tuple[i]] :
     p \in parts, i \in {j \in DOMAIN row.shape : row.shape[j] \in cols}}
OldParts(row) == {p \in ToSet(row.parts) : p.kind # "N"}
NewParts(row) == {p \in ToSet(row.parts) : p.kind = "N"}
Said(row, cols) ==
  [old |-> {f \in Fields(row, cols, OldParts(row)) : f.format \in {"b", "t"}},
   new |-> {f \in Fields(row, cols, NewParts(row)) : f.format # "u"}]

Values(fields) == {<<f.name, f.format>> : f \in fields}

Row(e) == wal[e.lsn][e.num]
IsChange(e) == e.change # NoChange

\* The values of every variable; the decoder knows the relations as the server
\* announced them on this connection (Decode, 'R').
TypeOK ==
  /\ Len(wal) <= MaxTx /\ Len(catalogs) = Len(wal) + 1
  /\ ToSet(catalogs) \subseteq Catalogs
  /\ proc \in {"down", "starting", "up", "failed"}
  /\ types \in [Tables -> [Columns -> Oids \cup {Missing}]]
  /\ announced = relations
  /\ pos.tx \in 1..(Len(wal) + 1)
  /\ pos.num \in 0..(IF pos.tx <= Len(wal) THEN Len(wal[pos.tx]) + 1 ELSE 0)
  /\ currentLsn \in 0..(MaxTx + 1) /\ currentSeq \in Nat
  /\ consistent \in BOOLEAN
  /\ crashes \in 0..MaxCrashes /\ breaks \in 0..MaxBreaks
  /\ whole \in BOOLEAN /\ guessed \subseteq DOMAIN wal

\* A message of the topic says nothing that its row does not say, whatever the
\* cache was, and if the cache was whole it says of every column that has kept its
\* name and type since (so that reading the catalog late does no harm) its type and
\* value (RefreshType, makePBTuple: the cache is complete for the row being
\* decoded).
ChangesFaithful ==
  \A n \in DOMAIN topic : LET e == topic[n] IN IsChange(e) =>
    LET row  == Row(e)
        kept == Said(row, {d \in ToSet(row.shape) : Kept(e.lsn, row.table, d)})
        all  == Said(row, ToSet(row.shape))
    IN /\ e.change.table = row.table
       /\ e.whole => kept.old \subseteq e.change.old /\ kept.new \subseteq e.change.new
       /\ Values(e.change.old) \subseteq Values(all.old)
       /\ Values(e.change.new) \subseteq Values(all.new)

\* The items of transaction l that have to be in the topic: Begin, the changes
\* that say something (but not of pgcapture.sources), and Commit.
Says(row) == Said(row, ToSet(row.shape)) # [old |-> {}, new |-> {}]
Due(l) == {0, Len(wal[l]) + 1} \cup
          {i \in DOMAIN wal[l] : ~Ignore(wal[l][i]) /\ Says(wal[l][i])}

\* No row of transaction l was decoded with a cache that is not whole, and of every
\* change of it that says something, some column it speaks of is still there and
\* always was since.
Steady(l) ==
  /\ l \notin guessed
  /\ \A i \in Due(l) \cap DOMAIN wal[l] :
       LET row == wal[l][i]
       IN Said(row, {d \in ToSet(row.shape) : Remains(l, row.table, d.name)})
            # [old |-> {}, new |-> {}]

\* The messages of transaction l in the topic, and the items they come from.
Mine(l) == {i \in DOMAIN topic : topic[i].lsn = l}
Nums(l) == {topic[i].num : i \in Mine(l)}

\* Of a transaction none of whose changes has lost all of its columns since, and
\* no row of which was decoded with a cache that is not whole, the topic holds
\* each message once and in order, no message that is not due, and all that are due
\* up to the last one it holds, or the whole of them once it holds a message of a
\* later transaction: decoding it again after a restart, with the catalog of that
\* time, counts to the same numbers, so that PulsarSink.Apply drops exactly the
\* messages that are in the topic.
ReplayKeepsNumbers ==
  topic # <<>> =>
    \A l \in topic[1].lsn..Last(topic).lsn : Steady(l) =>
      /\ \A i, j \in Mine(l) : i < j => topic[i].num < topic[j].num
      /\ Nums(l) \subseteq Due(l)
      /\ \A d \in Due(l) \ Nums(l) : l = Last(topic).lsn /\ \A n \in Nums(l) : n < d

\* Two inserts into one table that follow each other in a transaction of the
\* topic, the first published by the same process with a whole cache, name the same
\* columns, whatever has become of the table: where PGXSink puts both into one batch
\* it writes them with the columns of the first one (flushInsert).
BatchesUniform ==
  \A n \in 1..(Len(topic) - 1) :
    LET e == topic[n]  f == topic[n + 1]
    IN /\ IsChange(e) /\ IsChange(f)
       /\ e.lsn = f.lsn /\ e.epoch = f.epoch /\ e.whole
       /\ e.change.table = f.change.table
       /\ e.change.op = "I" /\ f.change.op = "I"
       => {g.name : g \in e.change.new} = {g.name : g \in f.change.new}

=============================================================================
