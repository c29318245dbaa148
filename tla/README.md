# pgcapture: TLA+ models, model checks and proofs

pgcapture copies the logical replication stream of PostgreSQL into a Pulsar
topic (`pg2pulsar`), applies topics to other PostgreSQL databases
(`pulsar2pg`), and lets consumers follow a topic together with on-demand dumps
of tables (gateway, controller, agent, client library). Paths below are
relative to the repository.

## Inventory

| Component | State | Operations | Hard behaviour |
|---|---|---|---|
| `pkg/cursor` | a checkpoint (LSN, number); the position of a subscription | order, key, `Last`, `Commit`, ack loop | what a restarted process learns about the topic |
| `pkg/source/postgres.go` | current LSN and number, acknowledged LSN | `Capture`, `fetching`, `Commit`, report | replay after a crash; what the slot may discard |
| `pkg/sink/pulsar.go` | last position, consistent flag, producer | `Setup`, `Apply`, send callbacks, `CleanFn` | asynchronous sends, late messages of a dead process, failed sends |
| `pkg/source/main.go`, `pkg/sink/main.go` | state word, channels, error | capture/apply loops, `Stop` | stopping from several goroutines, closing channels, draining |
| `pkg/source/pulsar.go` | reader or consumer, consistent flag | `Capture`, `Commit`, `Requeue` | where to start, what to skip |
| `pkg/sink/postgres.go` | insert batch, pending statements and commits, pipeline, DDL memory | `Setup`, `Apply` per kind of message | batching, DDL outside of the transaction, crash between two commits |
| `pkg/dblog/scheduler.go`, `control.go` | pending dumps and client tracks, two mutexes | `Schedule`, `Register`, `Ack`, `StopSchedule`, `SetCoolDown`, goroutine | check-then-act across critical sections |
| `pkg/dblog/gateway.go`, `dumper.go`, `puller.go` | map of dumps in progress | merging dumps into the stream | watermark of the dump, two senders, acks |
| `pkg/pgcapture` | debounce store | `ConsumeAsync`, debouncing, acks | order of acks, replaced events |
| `pkg/decode` | the types of columns, the columns of each relation | `Decode` of two formats, `RefreshType` | a catalog that is ahead of the stream; replay after a schema change |
| `cmd/agent.go`, `cmd/root.go` | references to the parts of the configured pipeline, its errors | `Configure`, `check`, `report`, `cleanup`, `Dump`, source-to-sink | a new pipeline beside one that is stopping; signals |

How they interact: `sourceToSink` (`cmd/root.go`) calls `sink.Setup`, passes the
checkpoint it returns to `source.Capture`, connects the `changes` channel of the
source to the sink and feeds the `committed` channel of the sink back to
`source.Commit`. Topic and target database are the only memory that survives a
process; the slot is the memory of the server.

What makes each part correct: the topic is an ordered copy of the stream without
holes or repetitions; the slot confirms only what is in the topic; the target
holds at each checkpoint what the source held there; a dump is processed at a
time by one client, and not forgotten; a message says what its row says, and a
replay numbers it as before; a pipeline that failed comes to its end, and channels
are closed only by the last who could send to them; what the agent reports is the
pipeline it was configured with.

The hazards, each at its line and with the properties aimed at it, are listed
in `PROJECT.json`.

## Modules

| Module | Models |
|---|---|
| `Checkpoint` | order of checkpoints, key of a message and its parsing |
| `LogCopy` | abstract: a log is copied, message by message, from the beginning of some transaction |
| `PgToPulsar` | `pg2pulsar`: PGXSource, channels, PulsarSink, both trackers, the broker's queue, the slot |
| `PulsarToPg` | `pulsar2pg`: PulsarReaderSource, PGXSink, the target database |
| `Scheduler` | MemoryScheduler and the PullDumpInfo handlers, one action per critical section |
| `Gateway` | sessions of Gateway.Capture, PGXSourceDumper, the puller and its streams, PulsarConsumerSource and the client |
| `Consumer` | the bouncers of the consumer library, as operators on the debounce store; the client of `Gateway` |
| `Lifecycle` | BaseSource and BaseSink: the goroutines, the state words, `Stop` from each of its callers |
| `Agent` | the agent over `Lifecycle`: configuring, watching, reporting and stopping pipelines |
| `Decoder` | the decoders and the type cache between PostgreSQL's catalog and stream and the topic |
| `SequenceProofs` | facts about sequences, induction and recursive functions that the other proofs cite |
| `CheckpointProofs`, `PgToPulsarProofs`, `PulsarToPgProofs`, `SchedulerProofs`, `GatewayProofs`, `AgentProofs`, `DecoderProofs` | theorems about the module of that name |
| `MCPgToPulsar`, `MCPulsarToPg`, `MCScheduler`, `MCGateway`, `MCAgent`, `MCDecoder` | instances for TLC |

Definitions named `..._Something` marked "Mutant" are plausible bugs of the
definition that follows them. They are used by no specification; putting one in
place of the original makes TLC violate the property it is listed with.

### PgToPulsar

An LSN is the rank of a transaction in commit order; transaction `l` has
`Size[l]` changes. The process runs through CreateProducer, SetupLast and Capture
(the two halves of `Setup` are separate because messages of a dead process may
arrive between them, unless the producer is exclusive). Fetching numbers and
queues one message; Apply filters and gives it to the producer; BrokerPersist
appends it to the topic, in order; SendCallback and SendError are the two
outcomes seen by the callback; SrcCommit and ReportLSN carry the position to the
slot. SinkStop, SinkEnd, Drain, CleanFn and Exit are the orderly end, SrcError a
lost replication connection, Crash the end at any point. After a Crash what was
in flight may still be persisted.

External parts are modelled from how the code uses them: the server streams whole
transactions from the requested position, not before the confirmed one; the
broker keeps the order of one producer and admits one producer of a name.

`origin` (history) is the position at which a process started on an empty topic.
Before the first message is persisted every restart may choose a later one: the
code has no place where it would remember the earlier (listed as a hazard).

### PulsarToPg

A row has one value, a statement names its row. The sink's own multi-row insert
ignores conflicts; a statement of the source's query does not. `target` is a
record of rows and of the objects that DDL created, `sources` the row of `pgcapture.sources`, which is
written in the same PostgreSQL transaction; a
pipeline is a sequence of statements that Commit executes as a whole or not at
all. A multi-row insert of the sink is one statement (InsertRows): of several records for
a row the first counts. SourceStates(t) is the reference, the state of the source after each message of
a topic, SourceAt(l) the one after transaction `l`.
The topic is chosen in Init, in the order that PgToPulsar shows of it (`Ordered`: parts may be missing), and never changes; the reader may lag arbitrarily,
which stands for messages that arrive later. What a topic holds did happen at the source: none of its
statements failed there (SinkAssumption). The `committed` channel leads to
PulsarReaderSource.Commit, which does nothing, and is left out. After an error
the sink only drains its channel; nothing but a restart follows. A stop of the process is a Crash:
both close the connection and lose the pipeline.

Two things the properties exempt by name. `Whole`: CheckpointMatchesData is stated for topics in which
a transaction that has its Begin also has its Commit, unless it is the last one; the others are the
subject of `apply_incomplete`. `Open`: transactions that were committed while the next one was already
in the channel wait in the pipeline for its Commit, so if the topic ends inside of a transaction, Converges
says of those only that they are in the pipeline.

For a target that was restored from a backup, `findCheckpoint` learns an LSN and
a time from the server's log; a seek by time lands anywhere not behind the first
message after that LSN.

### Scheduler

The two mutexes are never held together, so each critical section is an action
and the locals of the goroutine (candidate, busy, remain, the dump it took)
are variables. The handler of a client is in `recv`, between the sections of
`Ack` (`push`), or about to leave the map (`delete`). Durations are abstracted
to one bit per client; backoff to whether it is zero.

### Gateway

A session is one call of `Capture`. Its loop sends changes and the records of
dumps (SendChange, SkipChange, LoadDump, SendRecord, SkipDump, EmptyDump, DumpError), and is
busy while it sends a dump; `acknowledge` takes the client's answers (AckChange,
AckRecord) concurrently. The client is the consumer library: Consume takes what was sent, in order, and Flush is
the timer of the debounce store. `broker` says where each change of the shared subscription
is, `controller` to which session and on which of its pull streams each dump was handed;
the second stands for the Scheduler, whose client gets one dump at a time and whose answers name no dump.
A pull stream may break while its session goes on (PullBreaks): the puller opens
the next one, the controller requeues what it had handed out on the old one when it notices
(PullCanceled), and what the session still holds of the old stream is answered to nobody.
The stream of a session ends by Disconnect or SendFails; CleanUp (the consumer is
closed, its changes go back) and PullCanceled (the controller requeues) follow in
any order, and `acknowledge` may still take answers before CleanUp. The channel
between PulsarConsumerSource and the loop is left out: what waits in it is unacknowledged
and the same to Pulsar as what was not received. Checksums of different dumps are
assumed to differ. Pulsar keeps a message acknowledged once one answer acknowledged it. `at` and `after` in a record are the replica's LSN when it was
read and the highest LSN sent before it; `high`, `orderly`, `handled` and `superseded`
are history.

PGXSourceDumper reads a dump over its one connection to the replica, which nothing opens again
(`conn`). Its transaction or query may return an error, and the dump is requeued (DumpError); or the read breaks off
after some rows, which `load` does not notice because it never asks for `rows.Err()` (`dumper.go:145`): what it got
is sent as the dump, with the last record it got marked as the last (LoadDump), and if it got nothing the dump is acknowledged at once
(EmptyDump). The records behind the break reach nobody, and no property says otherwise: DoneWhenLastHandled says that a dump
is done only when a record that was sent as its last was handled, or when a read of it was empty (`empty`, history); Drains says
that the dumps are settled as long as the connection lives, and after that only the changes. A missing table is a dump of no records
(ErrMissingTable is acknowledged too). SkipLSNCheck is set by tests only.

### Consumer

What a bouncer does with a change is a sequence of calls, each of which handles an event or only
commits it (an update whose place in the store another one takes). Handlers are the synchronous ones
of Consume, each free to accept or to refuse. Records of dumps are updates and are debounced with
the changes of their key. What the code does, and the properties therefore do not exclude:

* What a change finds in the store under its (old) key is handled and stays there. The
  timer handles it again, behind its successor: the handler may see an update after the delete of its row,
  and the source gets two answers.
* The replaced update is committed before its successor is handled, and the successor is the one that
  *came* later: a redelivered older change replaces a newer one. If a change that was refused is still in the
  store when it is delivered again, it replaces itself, is committed, and is lost should the process end before
  the flush. AtLeastOnce therefore says "handled or superseded", and no more of the successor.

### Lifecycle and Agent

A pipeline is a BaseSource with its BaseSink. Its goroutines are the reader of `capture`, the
loop of `apply` with its label `cleanup` and the drain behind it, and the callbacks of
PulsarSink's producer; `Stop` is called by the loop (in a goroutine), by a failed
callback, by the agent's watcher and by its cleanup, and each call is split where the
code looks at the state word, swaps it, waits for the value 4, and enters `cleanOnce`. A
change is only counted. While PulsarSink is not `consistent` it may skip changes; from the first one it sends, the
goroutine of `apply` gives every change to the producer and waits there when `unsettled`, what the producer holds, is at its limit.
(Other callbacks are assumed to run while one of them waits in `Stop`.) Flush is assumed to wait for the callbacks of what was sent
before, and a failing callback that itself waits in `Stop` to have settled its message.

`Agent` adds what `cmd/agent.go` keeps: references to the configured pipeline (`params`),
the dumper, the sinks and the source, the two errors, one watcher per pipeline, and
cleanup on a signal. `Configure` and `check` hold the mutex throughout and are one
action each; cleanup holds it while it waits for `Stop`. Setup and Capture may fail at any time (Fatalf:
the process ends), and do fail while an earlier pipeline of the same direction still has the exclusive
producer, the slot or the advisory lock.

What the model reaches and its properties exempt by name:

* `Spins`: `Stop` tries to swap 2 for 3 in a loop without another way out
  (`pkg/sink/main.go:86`, `pkg/source/main.go:53`). A caller that read 2 before another caller,
  or the loop itself, moved the word never returns.
* A `Stop` that comes before `Apply` (which another goroutine calls) cleans a sink whose state
  is 0; `Apply` then runs on the cleaned sink and nobody closes `committed`.
* `StaleSink`: after the source of a pulsar2pg pipeline failed, `check` keeps the reference to its
  sink, and `report` prefers it to the source of a pg2pulsar pipeline configured next.
* `ConfigureFatal`: the watcher forgets the parameters before it stops the pipeline, so the
  next Configure in the same direction may meet its locks and end the agent.
* On a signal `serveGRPC` returns once the server has stopped (`cmd/root.go:97`); nobody waits for
  cleanup, of whose progress nothing is claimed.

### Decoder

A row on the wire is one or two tuples, a tuple the format of each of its columns;
pgoutput and pglogical_output differ in bytes only and are one here. `catalogs` is the
history of PostgreSQL's catalog, `types` the loader's cache, which RefreshType fills from the
catalog of *now*, `relations` what the stream announced. A transaction of PostgreSQL is
stepwise: PgBegin chooses its statements, PgAlter gives a table other columns (or none, or its first) and logs
that in `ddl_logs`, as the event trigger does, ahead of the rows that follow, PgWrite writes a row with the columns
of that moment, PgRollback is a write to a table that does not exist, PgCommit makes all of it visible to the stream
and the catalog. Numbering,
the filter of the sink and the topic are one step (their interleavings are the subject of
PgToPulsar). PgCommit is one step, so a commit is never in the stream before the catalog shows it.

RefreshType returns an error only if the query cannot be sent or a row cannot be scanned: that ends the process, a Crash. It does
not ask for `rows.Err()` (`schema.go:122-138`), so that a read which fails on the server or breaks off returns nil and leaves
what it did not get as it was: the read of an action misses any of the sets of columns in `Misses` (Refresh), at the start or at an entry of `ddl_logs`.
The start is two steps, Capture (up to reading the types) and StartReplication (the position, chosen later), and PostgreSQL may
commit in between; with a checkpoint the stream begins at its transaction, so nothing is missed, but on a first start what was altered
in between is in neither cache nor stream. `whole` (history) says that neither has happened since the cache was last read, `guessed` (history)
of which transactions a row was decoded without that. The properties say what holds in spite of it (no message says what its row does not say, the
decoder keeps to the relations it was told) and what holds with a whole cache.

What a message may say when the catalog moved on before it was decoded, or the cache has a hole:

* With a hole in the cache, columns are left out, changes without a column left make no message, and the numbers of the transaction
  shift; ChangesFaithful, ReplayKeepsNumbers and BatchesUniform claim nothing of this but that nothing is invented.
* A column that was dropped may be missing, or have the type of an entry the cache never
  forgets; ChangesFaithful claims types of the columns that have kept name and type since, and
  of the others that nothing is invented.
* When all columns a change speaks of were dropped (or the table was), it makes no message and
  takes no number. If that happened between two decodings of the transaction the numbers shift, and
  the sink's filter may drop messages that were never published (the Commit even) or repeat some.
  ReplayKeepsNumbers is stated for the transactions to which this did not happen and of which no row was guessed (`Steady`): of such a
  one the topic holds (`Mine`, `Nums`) only what is due, once and in order, and all of it up to its last
  message, or altogether once a later transaction is in the topic.
* Across a restart two neighbouring inserts of a transaction may name different columns;
  `flushInsert` writes by position. BatchesUniform is stated per process, and for inserts that are neighbours in the topic. It does not
  show that every batch of the sink is uniform: a batch survives performDDL (and, after a hole, a Begin), and
  INSERT, ALTER, INSERT in one transaction put records of different columns into one batch.
* A DELETE whose old tuple is all null makes no message.

## Runs

| Run | Checks | Bounds |
|---|---|---|
| `capture` | TypeOK, TopicInOrder, NothingSkipped, SlotKeepsUnpublished, KeysNamePositions; IInv, the invariant of the proofs; Replicated, WalReleased; CopiesLog (refinement of LogCopy) | 3 transactions (with and without changes), channels of 2, 3 faults, no failed send |
| `capture_subscription` | TopicInOrder, BacklogAcked with the subscription tracker | 2 transactions, 2 faults, sends may fail |
| `subscription_resume` | SetupResumesAtLast: **violated** | as above |
| `apply` | TypeOK, CheckpointMatchesData, CheckpointAdvances, ExactAtCheckpoint, Converges | four long topics (one begins and ends inside of a transaction) and all possible histories of three statements in 1 to 3 transactions; batches of 2 transactions and 2 inserts; empty and restored targets; 2 crashes |
| `apply_incomplete` | IncompleteIgnored: **violated** | one topic with a missing Commit |
| `apply_command` | ExactAtCheckpoint: **violated** | two topics with DML before a command |
| `scheduler` | TypeOK, OnePlace, InboxTracked, NothingDropped, ScheduleEnds | 2 clients, schedules of 2 dumps and of 1, stopped or not, 1 fault |
| `scheduler_lost` | AllProcessed: **violated** | 2 clients, 1 dump, 1 fault |
| `gateway` | TypeOK, AtLeastOnce, DumpIsFresh, DoneWhenLastHandled, Drains | 2 sessions, 2 changes and 2 dumps of 2 records (one of each filtered out), 1 fault (a session, a pull stream, a refusal, or a read of the replica that fails or breaks off), debouncing clients |
| `gateway_dump` | WholeDumpHandled: **violated** | 1 session, 1 dump of 2 records, 1 requeue, answers in order, reads that do not fail |
| `agent` | TypeOK, ClosedAfterUse, CleanAfterApply, PollsCurrent, ReportsCurrent, PipelineEnds | 2 pipelines of either direction, the first failing up to twice, a signal during the first, channel and producer queue of 1 |
| `decoder` | TypeOK, ChangesFaithful, ReplayKeepsNumbers, BatchesUniform | 3 transactions out of 9 (two tables of up to two columns and two types; drop, create, alter), 1 crash, 1 read of the catalog that misses everything or a column of a table and one of `ddl_logs` |

Why the bounds are enough to be interesting: three transactions and three faults
let a replay begin before, in and behind the transaction the topic ends in, with
a second crash during the replay; failed sends are in the run with the subscription tracker and in the
proofs, which also have any StartLSN (it is 1 in `capture`, 0 in the other). Channels of two make
sources and callbacks wait. A batch of two transactions can be full, ended by an
empty channel, and ended by DDL. Two schedules let an answer arrive late; with one fault
two requeues do not meet in one behaviour. Two changes let
the replica be behind the watermark and still have a checkpoint; one fault, with two
sessions, covers each kind of end, of requeue and of failing read at every point, but not two in
one behaviour (the state space with two is beyond the time of a run); a dump without records happens there as one whose read broke at once. The change moves the row of one
record to the key of the other: it finds the first in the store under its old key, replaces the second
or is replaced by it. (With `Kinds <- Deletes`, a delete instead, the run passes too; with both kinds in
one run it takes too long.) Two pipelines are a failed one
and its successor, in all four combinations of directions; two faults let the error of a send
meet the error of a read. Three transactions let a table be written, altered and dropped, and the first be
decoded, in part or again, at each of these points.

Deadlock checking is off for `pulsar2pg`, the scheduler, the gateway, the decoder and the agent, where
everything may be done (the end of the topic or of the log, no schedule, an agent that has exited); in
`pg2pulsar` periodic reports make every state have a successor while a process runs.

### Disagreements found

1. `subscription_resume`. `PulsarSubscriptionTracker.Last` returns the zero checkpoint
   when its subscription has acknowledged the whole topic. The source then begins
   at the current WAL position (or StartLSN).
2. `apply_incomplete`. A Begin inside a transaction drops its pending statements,
   not its insert batch; those rows are applied with the next transaction.
3. `apply_command`. A statement sent before a DDL command in the same transaction is
   dropped with the pending statements, although the command does not contain it. The
   second topic of the run (`INSERT; CREATE; DELETE` as one query) ends with the row
   inserted again: the batch survives performDDL and the later delete is skipped.
4. `scheduler_lost`. A schedule can end while a requeued dump is between the two
   critical sections of `Ack`, or after a dump went to a client that had left.
5. `gateway_dump`. A dump has the same id each time it is delivered. A client that refuses
   its first record and accepts its last settles, with the second answer, the next
   delivery of the dump: the controller counts it as done before the client has
   handled it, and a second refusal reaches nobody. (A client that answers out of order,
   with asynchronous handlers or debouncing, needs no requeue for that: only the answer to the
   last record counts.)

`apply` also shows what follows a crash between a DDL command and the
checkpoint: Converges allows the sink to stay failed, since a command that cannot be
repeated is repeated after each start.

### Fairness

Weak fairness of the steps of running goroutines and of the broker's answers: each is
a loop that does not wait on anything but its guard. A process that is down is started
again (by its supervisor). In the scheduler, clients register, time passes and a client
answers the dump it holds; in the gateway clients connect, take what they are sent and flush their store. In the gateway the loop is strongly fair to the channel of
changes, since a Go `select` chooses among the ready channels at random. In the agent the goroutines
run, a read of the source ends (its deadline), the ticker ticks, and the broker answers every send one way
or the other. No fault, stop, signal or call of Configure is assumed to happen.

## Proofs

`KeyRoundTrip`: FromKey(ToKey(cp)) = cp, for every size of half an LSN.

`PgToPulsarProofs` proves, for all numbers and sizes of transactions, capacities and
numbers of faults, and for the tracker that reads the topic (`Tracker = "pulsar"`):

* `Invariance`: `Spec => []IInv`;
* `TypeCorrect`, `TopicOrdered`, `KeysCorrect`, `NothingSkippedEver`, `SlotSafe`: the
  safety properties of `capture`, here with failed sends too;
* `ImplementsLogCopy`: without failed sends, `Spec => CopiesLog`.

That the topic is ordered is not inductive: one has to know that what is in flight comes
after the topic (InvOrder), that the next message the sink is given comes after both
once it is consistent (InvConsistent), and that before, it is at most the message which
follows the last one of the topic (InvResume); the latter needs the position the tracker
returned, which is right because keys name positions (InvNumbered), which rests on the
counters standing at the message before (InvCounters) and the channel holding
consecutive messages (InvStream). That nothing is skipped needs the same for coverage
(InvCovered); that the slot is safe needs every position on its way back to it to
be bounded by the topic (InvSlot). Each action has a lemma. The refinement adds that
only committed messages travel (InvCommitted) and that no message fails.

With the subscription tracker the theorems do not hold (`subscription_resume`).

`SchedulerProofs` (any number of clients, schedules, dumps, requeues and disconnections; assumed: finitely many
clients, and a None that is neither client nor dump): `TypeCorrect`, `DumpsInOnePlace`, `InboxesTracked` and
`FirstScheduleKeepsDumps`. OnePlace counts the places of a dump; the invariant says instead that the places are
pairwise apart (Apart), that none holds a dump twice (Single), and, for the first schedule, that each
dump is in one (Kept). This is inductive only with what the goroutine and the handlers rely on between two critical
sections: at each of them which locals are set, and that the candidate it is about to give a dump has none on its
track or on its way (GoInv, ConnInv). That the offset never leaves the list, also when a late answer of an earlier
schedule is pushed, is part of the types.

`GatewayProofs` (any number of sessions, changes, dumps, records and faults, with and without debouncing; assumed: the
names of sessions, states and dumps differ): `TypeCorrect`, `ChangesAtLeastOnce`, `DumpsAreFresh`,
`DumpsDoneWhenHandled`; reads may fail, or break after any record. For AtLeastOnce every answer on its way that is not a requeue must already be for something handled or
superseded (Answered, in ChannelInv), which comes down to what a bouncer calls and keeps (the lemmas about `Consumer`'s operators). For
DumpIsFresh the watermark bounds what was sent while the LSNs of a session went up (FreshInv). For
DoneWhenLastHandled an answer must settle the dump that it is for: what a session holds of its current pull stream
is exactly what the controller believes it to hold, at most one dump per stream (PullInv), and what is on its way carries the mark of the
record that was read last.

`AgentProofs` (any number of pipelines, capacities and faults, Setup failing at any time): `TypeCorrect`, `ClosedChannelsUnused`,
`CleanedAfterApply`, `PolledPipelineCurrent`, `ReportedPipelineCurrent`. The state word of a sink tells how far the
loop of `apply` is, and a `Stop` past its wait saw 4 (SinkInv); the references are to the configured pipeline or to an
earlier one whose source failed (RefInv).

`PulsarToPgProofs` (every ordered topic of what happened at the source, size of batches and channel, any number of
crashes, empty and restored targets):

* `InductiveInvariant`, `CheckpointOnlyAdvances` (the action property CheckpointAdvances) and `BuffersBounded` (the part WithinBounds of
  TypeOK). What is in the channel, and what a consistent reader will still read, is behind the message that
  `pgcapture.sources` names and has a greater LSN than it covers (NewInv); a restart loses the channel and begins from the checkpoint.
* `FullInvariant`, `TypesKept` (TypeOK), `TargetMatchesCheckpoint` (CheckpointMatchesData) and `ExactWithoutCommands`
  (ExactAtCheckpoint for topics that are Whole and have no command). That the target is where the checkpoint says (TargetInv) is not
  inductive: one has to know what lies between the two. The channel holds consecutive messages up to the reader (ConsecutiveInv); what the reader
  skipped is covered or of transactions without a Begin (SkippedInv); executing the pipeline, the collected statements and the
  insert batch on the target gives the state of the source at the message the sink took last (InsideInv), and between
  transactions nothing is collected (BetweenInv). Each kind of message is one step of both sides. The lemma of the batch is
  that one statement with the record at its end does what the INSERT of the source does, which needs that this INSERT did not
  fail: the reason why SinkAssumption speaks of failures.

That topics are ordered is assumed here and what `TopicOrdered` shows of the topics pg2pulsar writes.

`DecoderProofs` (any transactions with DDL between and inside them, any number of them, of crashes and of reads that miss anything; assumed: the
columns of a table have different names, and a statement is of the kinds that the protocol can send): `MessagesFaithful`,
`InsertBatchesUniform`, `ReplayCountsAlike`, `TypeCorrect`, which includes that the decoder never returns the error for a relation it was not
told. Wherever the shape of a table changes in the stream there is an entry of `ddl_logs` (TxOK, in PgInv); a row that is
still ahead either has such an entry before it, or a cache that is whole has the types of all its columns that are kept (CacheInv);
and if no entry is ahead at all, it is the catalog of now, which is what the next transaction begins with. Between Capture and
StartReplication the cache serves every transaction that was there when it was read, wherever the stream will begin, and a first start
that skips an entry is not whole (StartInv). A later
catalog only shrinks what is kept, so what was said stays faithful (TopicInv). Since the last message of this process no entry has
gone by, so the names an insert had are the names an insert of the same shape would get now (LastInv).

ReplayKeepsNumbers has an invariant of its own on top of this one (NumInv, `NumbersInvariant`): the number of a message of a steady transaction
is its rank among what is due (NumberInv), and a process that has read item `n` has counted to the rank of `n`
(Counted), has published what is due behind it (BehindPublished) and, once consistent, nothing ahead of it
(NoneAhead); before, it replays the transaction of the last message (Replaying). Both sides count alike because a row
makes a message exactly if it is due: CacheInv therefore also says that a whole cache has some type for each column
that remains by name (Serves), so a row of a steady transaction never decodes to nothing. A transaction leaves the steady ones for good when one of
its rows is decoded without a whole cache, also in a replay.

Induction over data. The library states its induction theorems with an operator as parameter, which the provers cannot
instantiate. `SequenceProofs` states them with sets instead: a set that contains 0, and `n + 1`
whenever it contains `n`, contains all of Nat (SetInduction, IntervalInduction, from the existence of minimal elements, WFMin), and from it that a recursive
function is what its equation says, of its type and unique (Recursion, RecursionType, RecursionUnique). ExecAll, Without and
SourceStates are recursive functions for that reason.

Only model-checked:

* liveness (Replicated, WalReleased, BacklogAcked, Converges, ScheduleEnds, Drains, PipelineEnds): out of the prover's reach;
* ExactAtCheckpoint for topics with commands: a command is durable before its checkpoint, and some topics break the
  property (`apply_command`); the condition under which a transaction of DML and commands is repeated exactly depends on the queries it is made
  of, and `apply` checks it on two such topics;
* PgToPulsar with the subscription tracker.

Every other invariant and action property of the passing runs is a theorem.

## Not modelled

The bytes of the two replication formats, malformed messages, and the key cache of PGXSink
(RefreshColumnInfo; an error of GetColumnInfo ends the sink in handleUpdate and handleDelete, and in flushInsert,
which ignores it, the missing entry is dereferenced and the process panics: all are the Crash of PulsarToPg);
a target whose log gives a time but no LSN (the reader seeks by time and delivers from the first Begin it meets, which
may be of a transaction the backup holds already); CREATE TABLE AS and SELECT INTO as statements of their own (a CREATE and an INSERT of one query stand
for them) and the default schema of a relation; several URIs (they share nothing but the mutexes), the advisory
lock of PGXSink beyond its effect on Configure, the text of statements and logs, generated
code, the Python client. In PgToPulsar a transaction has the same messages in every replay (when
that is so, is what Decoder says), in PulsarToPg a row has one value. In the gateway: AgentSource (a missing
table behind the agent is reported by the stream, not by the call, and requeued for ever), a new PGXSourceDumper after the
connection to the replica was lost (a restart of the gateway), and two faults in one
behaviour; `acknowledge` ends with its session, where in the code its goroutine may stay behind, sending the
error of Recv to a channel that nobody reads any more (`gateway.go:78`). Handlers of ConsumeAsync that answer
later than they return. The agent's Dump and the parsing of its parameters.

## Plan

1. Done: Checkpoint, LogCopy, PgToPulsar with proofs; PulsarToPg; Scheduler; Gateway with its pull
   streams and the consumer library as its client; Lifecycle and Agent; Decoder.
2. Done: proofs of the safety properties of PgToPulsar, PulsarToPg, Scheduler, Gateway, Agent and Decoder, and of the refinement
   of LogCopy.
3. Open: a condition on topics with commands under which ExactAtCheckpoint holds, and its proof; AgentSource; asynchronous handlers.
