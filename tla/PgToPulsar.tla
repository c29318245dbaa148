----------------------------- MODULE PgToPulsar -----------------------------
(***************************************************************************)
(* The pg2pulsar pipeline: PGXSource reads the logical replication stream   *)
(* of PostgreSQL, PulsarSink publishes it to one topic, and the positions   *)
(* that were published flow back to the replication slot, which then lets   *)
(* the server discard that part of its log.  After a crash or a restart the *)
(* sink asks a tracker for the last position in the topic, the source asks  *)
(* the server to replay from there, and the sink drops the messages that    *)
(* are in the topic already.                                                *)
(*                                                                          *)
(* An LSN is the rank of a transaction in commit order.  The stream of      *)
(* transaction l is Begin (0), its Size[l] changes (1 .. Size[l]) and       *)
(* Commit (Size[l] + 1).  WAL records the decoder turns into nothing        *)
(* (relations, types, keepalives, changes of pgcapture's own tables) touch  *)
(* no counter of the source and are not in the stream.                      *)
(***************************************************************************)
EXTENDS Checkpoint, Sequences, FiniteSetsExt

CONSTANTS
  MaxTx,       \* bound on the transactions PostgreSQL commits
  Size,        \* Size[l]: the captured changes of transaction l
  StartLSN,    \* PGXSource.StartLSN, 0 when it is not configured
  Tracker,     \* which cursor.Tracker the sink uses
  ChanCap,     \* capacity of the changes and committed channels (1000)
  MaxPending,  \* MaxPendingMessages of the producer (2000)
  SendErrors,  \* whether the broker may refuse a message
  MaxFaults    \* bound on crashes, stops, disconnections and send errors

ASSUME ConfigAssumption ==
  /\ MaxTx \in Nat
  /\ Size \in [1..MaxTx -> Nat]
  /\ StartLSN \in 0..(MaxTx + 1)
  /\ Tracker \in {"pulsar", "pulsarSub"}
  /\ ChanCap \in Nat \ {0}
  /\ MaxPending \in Nat \ {0}
  /\ SendErrors \in BOOLEAN
  /\ MaxFaults \in Nat

VARIABLES
  wal,         \* PostgreSQL: number of committed transactions
  confirmed,   \* PostgreSQL: confirmed_flush_lsn of the slot, 0: no slot
  sender,      \* PostgreSQL: position of the walsender of the connection
  srcState,    \* BaseSource: "off", "on", or "closed" (its changes channel)
  currentLsn, currentSeq, ackLsn,  \* fields of PGXSource
  changes,     \* the channel from the source to the sink
  sinkState,   \* "off" | "fenced" | "ready" | "on" | "stopping" | "closed"
  prev, consistent,                \* fields of PulsarSink
  inflight,    \* messages given to SendAsync, not persisted yet
  receipts,    \* persisted messages whose callback has not run
  committed,   \* the channel of checkpoints from the sink to src.Commit
  topic,       \* the messages of the topic
  cursor,      \* SubscriptionTracker.cursor, an index of topic, 0: nil
  acked,       \* cumulative ack of the tracker's subscription, in the broker
  origin,      \* history: the LSN at which the content of the topic begins
  failed,      \* history: messages whose send was reported as failed
  faults       \* number of faults so far

pgVars   == <<wal, confirmed, sender>>
srcVars  == <<srcState, currentLsn, currentSeq, ackLsn, changes>>
sinkVars == <<sinkState, prev, consistent, inflight, receipts, committed>>
trkVars  == <<cursor, acked>>
histVars == <<origin, failed, faults>>
vars == <<pgVars, srcVars, sinkVars, topic, trkVars, histVars>>

-----------------------------------------------------------------------------
(* The stream.                                                              *)

Txs == 1..MaxTx

\* Positions of messages of the stream, identified by (LSN, number).
Msgs == UNION {[lsn : {l}, seq : 0..(Size[l] + 1)] : l \in Txs}

\* The position after m: the next message, or the next transaction's Begin.
Succ(m) == IF m.seq <= Size[m.lsn] THEN [lsn |-> m.lsn, seq |-> m.seq + 1]
                                   ELSE [lsn |-> m.lsn + 1, seq |-> 0]

Begin(l) == [lsn |-> l, seq |-> 0]

IsBegin(m)  == m.seq = 0
IsCommit(m) == m.seq = Size[m.lsn] + 1

\* What travels on the changes channel, and what the topic stores.
Changes == [cp : Checkpoints, msg : Msgs]
Entries == [key : Keys, msg : Msgs]

\* The position the sink will be given next.
NextApply == IF changes = <<>> THEN sender ELSE changes[1].msg

Published(m) == \E i \in DOMAIN topic : topic[i].msg = m

-----------------------------------------------------------------------------
Init ==
  /\ wal = 0
  /\ confirmed = 0
  /\ sender = Begin(1)
  /\ srcState = "off"
  /\ currentLsn = 0 /\ currentSeq = 0 /\ ackLsn = 0
  /\ changes = <<>>
  /\ sinkState = "off"
  /\ prev = NoCheckpoint
  /\ consistent = FALSE
  /\ inflight = <<>> /\ receipts = <<>> /\ committed = <<>>
  /\ topic = <<>>
  /\ cursor = 0 /\ acked = 0
  /\ origin = 0 /\ failed = {} /\ faults = 0

\* PostgreSQL commits a transaction.
PgCommit ==
  /\ wal < MaxTx
  /\ wal' = wal + 1
  /\ UNCHANGED <<confirmed, sender, srcVars, sinkVars, topic, trkVars, histVars>>

-----------------------------------------------------------------------------
(* PulsarSink.Setup and PGXSource.Capture, in the order of sourceToSink.    *)

\* Mutant: a producer the broker admits beside one that still delivers.
CreateProducer_NotExclusive ==
  /\ sinkState = "off"
  /\ sinkState' = "fenced"
  /\ UNCHANGED <<pgVars, srcVars, prev, consistent, inflight, receipts, committed,
                 topic, trkVars, histVars>>

\* Setup creates the producer first: its name is fixed, so the broker admits
\* it only when the connection of an earlier process is gone, and what that
\* process still had in flight can no longer arrive.
CreateProducer ==
  /\ sinkState = "off"
  /\ sinkState' = "fenced"
  /\ inflight' = <<>>
  /\ UNCHANGED <<pgVars, srcVars, prev, consistent, receipts, committed, topic,
                 trkVars, histVars>>

\* PulsarSubscriptionTracker receives what its subscription has not
\* acknowledged yet, until nothing comes for a while.
NothingReceived == acked = Len(topic)

\* PulsarTracker.Last reads from the latest message (inclusive) to the end of
\* the topic.  Both trackers return the zero value if nothing came.
Last ==
  IF topic = <<>> \/ (Tracker = "pulsarSub" /\ NothingReceived)
  THEN NoCheckpoint
  ELSE FromKey(topic[Len(topic)].key)

\* ... and asks the tracker for the last position afterwards.
SetupLast ==
  /\ sinkState = "fenced"
  /\ sinkState' = "ready"
  /\ prev' = Last
  /\ consistent' = FALSE
  /\ cursor' = 0
  /\ UNCHANGED <<pgVars, srcVars, inflight, receipts, committed, topic, acked,
                 histVars>>

\* Mutant: resume after the transaction of the last message.
StartPosition_After(xLogPos) ==
  IF prev.lsn # 0 THEN prev.lsn + 1
  ELSE IF StartLSN # 0 THEN StartLSN ELSE xLogPos

\* Mutant: resume at the last message, its number taken for an offset in the log.
StartPosition_Offset(xLogPos) ==
  IF prev.lsn # 0 THEN prev.lsn + prev.seq
  ELSE IF StartLSN # 0 THEN StartLSN ELSE xLogPos

\* Where Capture asks the server to start: at the transaction of the sink's
\* last message, or at the configured or the current position.
StartPosition(xLogPos) ==
  IF prev.lsn # 0 THEN prev.lsn
  ELSE IF StartLSN # 0 THEN StartLSN ELSE xLogPos

\* The server streams every transaction that committed at or after the
\* requested position, and none that the slot has confirmed before.
StreamFrom(start, slot) == Begin(Max({start, slot}))

\* PGXSource.Capture(prev), then PulsarSink.Apply starts both loops.
Capture ==
  LET xLogPos == wal + 1
      slot  == IF confirmed = 0 THEN xLogPos ELSE confirmed
      start == StartPosition(xLogPos)
  IN /\ sinkState = "ready"
     /\ confirmed' = slot
     /\ currentLsn' = start
     /\ currentSeq' = IF prev.lsn # 0 THEN prev.seq ELSE 0
     /\ ackLsn' = start
     /\ sender' = StreamFrom(start, slot)
     /\ origin' = IF prev.lsn # 0 THEN origin ELSE Max({start, slot})
     /\ srcState' = "on"
     /\ sinkState' = "on"
     /\ changes' = <<>>
     /\ UNCHANGED <<wal, prev, consistent, inflight, receipts, committed, topic,
                    trkVars, failed, faults>>

-----------------------------------------------------------------------------
(* PGXSource: the capture goroutine.                                        *)

\* Mutant: Begin does not reset the counter.
NextSeq_NoReset(m) == currentSeq + 1

\* Begin resets the counter, a change or a commit adds one to it.
NextSeq(m) == IF IsBegin(m) THEN 0 ELSE currentSeq + 1

\* fetching: receive one message, number it, and put it on the channel.  A
\* change takes the LSN of the Begin before it.
Fetching ==
  /\ srcState = "on"
  /\ sender.lsn <= wal
  /\ Len(changes) < ChanCap
  /\ currentLsn' = IF IsBegin(sender) \/ IsCommit(sender) THEN sender.lsn
                                                          ELSE currentLsn
  /\ currentSeq' = NextSeq(sender)
  /\ changes' = Append(changes, [cp  |-> [lsn |-> currentLsn', seq |-> currentSeq'],
                                 msg |-> sender])
  /\ sender' = Succ(sender)
  /\ UNCHANGED <<wal, confirmed, srcState, ackLsn, sinkVars, topic, trkVars,
                 histVars>>

\* The server moves the confirmed position of a slot only forward.
Confirm(lsn) == Max({confirmed, lsn})

\* Mutant: report what was read, not what was committed.
ReportedLSN_Read == currentLsn

\* committedLSN: the position the next status update carries.
ReportedLSN == ackLsn

\* reportLSN: every 5 seconds, or when the server asks for it.
ReportLSN ==
  /\ srcState = "on"
  /\ confirmed' = Confirm(ReportedLSN)
  /\ UNCHANGED <<wal, sender, srcVars, sinkVars, topic, trkVars, histVars>>

\* Mutant: Commit stores nothing.
CommitLSN_Lost(cp) == ackLsn

\* PGXSource.Commit(cp): the new ackLsn.
CommitLSN(cp) == IF cp.lsn # 0 THEN cp.lsn ELSE ackLsn

\* sourceToSink: for cp := range checkpoints { src.Commit(cp) }.
SrcCommit ==
  /\ srcState # "off"
  /\ committed # <<>>
  /\ ackLsn' = CommitLSN(Head(committed))
  /\ committed' = Tail(committed)
  /\ UNCHANGED <<pgVars, srcState, currentLsn, currentSeq, changes, sinkState,
                 prev, consistent, inflight, receipts, topic, trkVars, histVars>>

\* The replication connection breaks: the goroutine stores the error and
\* returns; cleanup tries to report once more, which may or may not arrive.
SrcError ==
  /\ srcState = "on"
  /\ faults < MaxFaults
  /\ faults' = faults + 1
  /\ srcState' = "closed"
  /\ confirmed' \in {confirmed, Confirm(ReportedLSN)}
  /\ UNCHANGED <<wal, sender, currentLsn, currentSeq, ackLsn, changes, sinkVars,
                 topic, trkVars, origin, failed>>

-----------------------------------------------------------------------------
(* PulsarSink: the apply goroutine, the producer and its callbacks.         *)

\* Mutants: take the last message again; compare transactions only.
Accepts_Equal(change) == consistent \/ ~After(prev, change.cp)
Accepts_ByTx(change)  == consistent \/ change.cp.lsn > prev.lsn

Accepts(change) == consistent \/ After(change.cp, prev)

\* Apply for one change: drop it until the first one after prev has come.
Apply ==
  LET change == Head(changes)
      now    == Accepts(change)
  IN /\ sinkState = "on"
     /\ changes # <<>>
     /\ Len(inflight) + Len(receipts) < MaxPending
     /\ changes' = Tail(changes)
     /\ consistent' = now
     /\ inflight' = IF now THEN Append(inflight, change) ELSE inflight
     /\ UNCHANGED <<pgVars, srcState, currentLsn, currentSeq, ackLsn, sinkState,
                    prev, receipts, committed, topic, trkVars, histVars>>

\* The broker persists the oldest message in flight.  A process that died in
\* the meantime gets no receipt.
BrokerPersist ==
  /\ inflight # <<>>
  /\ topic' = Append(topic, [key |-> ToKey(Head(inflight).cp), msg |-> Head(inflight).msg])
  /\ receipts' = IF sinkState = "off" THEN receipts
                 ELSE Append(receipts, [cp |-> Head(inflight).cp, id |-> Len(topic) + 1])
  /\ inflight' = Tail(inflight)
  /\ UNCHANGED <<pgVars, srcVars, sinkState, prev, consistent, committed,
                 trkVars, histVars>>

\* The callback of a successful send: tracker.Commit, then committed <- cp.
SendCallback ==
  /\ receipts # <<>>
  /\ Len(committed) < ChanCap
  /\ cursor' = IF Tracker = "pulsarSub" THEN Head(receipts).id ELSE cursor
  /\ committed' = Append(committed, Head(receipts).cp)
  /\ receipts' = Tail(receipts)
  /\ UNCHANGED <<pgVars, srcVars, sinkState, prev, consistent, inflight, topic,
                 acked, histVars>>

\* The callback of a failed send stores the error and stops the sink.  The
\* messages behind it are in the hands of the producer and may yet arrive.
SendError ==
  /\ SendErrors
  /\ sinkState \in {"on", "stopping"}
  /\ inflight # <<>>
  /\ faults < MaxFaults
  /\ faults' = faults + 1
  /\ failed' = failed \cup {Head(inflight).msg}
  /\ inflight' = Tail(inflight)
  /\ sinkState' = "stopping"
  /\ UNCHANGED <<pgVars, srcVars, prev, consistent, receipts, committed, topic,
                 trkVars, origin>>

\* Mutant: only the first cursor is acknowledged.
CursorMoved_Once == cursor # 0 /\ acked = 0

\* There is a cursor, and it is not the one acknowledged last.
CursorMoved == cursor # 0 /\ cursor # acked

\* PulsarSubscriptionTracker.tryAck, on every tick of waitCommit.
TryAck ==
  /\ Tracker = "pulsarSub"
  /\ sinkState \in {"on", "stopping"}
  /\ CursorMoved
  /\ acked' = cursor
  /\ UNCHANGED <<pgVars, srcVars, sinkVars, topic, cursor, histVars>>

-----------------------------------------------------------------------------
(* Stopping and crashing.                                                   *)

\* BaseSink leaves its loop: sk.Stop() on a signal ...
SinkStop ==
  /\ sinkState = "on"
  /\ faults < MaxFaults
  /\ faults' = faults + 1
  /\ sinkState' = "stopping"
  /\ UNCHANGED <<pgVars, srcVars, prev, consistent, inflight, receipts, committed,
                 topic, trkVars, origin, failed>>

\* ... or the source has closed the channel and everything in it was applied.
SinkEnd ==
  /\ sinkState = "on"
  /\ srcState = "closed"
  /\ changes = <<>>
  /\ sinkState' = "stopping"
  /\ UNCHANGED <<pgVars, srcVars, prev, consistent, inflight, receipts, committed,
                 topic, trkVars, histVars>>

\* A sink that left its loop throws away what the source still delivers.
Drain ==
  /\ sinkState \in {"stopping", "closed"}
  /\ changes # <<>>
  /\ changes' = Tail(changes)
  /\ UNCHANGED <<pgVars, srcState, currentLsn, currentSeq, ackLsn, sinkVars,
                 topic, trkVars, histVars>>

\* CleanFn: Flush returns when every message was answered; then the producer
\* and the committed channel are closed.
CleanFn ==
  /\ sinkState = "stopping"
  /\ inflight = <<>> /\ receipts = <<>>
  /\ sinkState' = "closed"
  /\ UNCHANGED <<pgVars, srcVars, prev, consistent, inflight, receipts, committed,
                 topic, trkVars, histVars>>

\* Memory of the process is gone.
Halt ==
  /\ srcState' = "off" /\ sinkState' = "off"
  /\ currentLsn' = 0 /\ currentSeq' = 0 /\ ackLsn' = 0
  /\ changes' = <<>> /\ receipts' = <<>> /\ committed' = <<>>
  /\ prev' = NoCheckpoint /\ consistent' = FALSE
  /\ cursor' = 0

\* sk.Stop() has returned, src.Stop() reports for the last time, main ends;
\* the loop over committed may not have seen all of it.
Exit ==
  /\ sinkState = "closed"
  /\ confirmed' = IF srcState = "on" THEN Confirm(ReportedLSN) ELSE confirmed
  /\ Halt
  /\ UNCHANGED <<wal, sender, inflight, topic, acked, histVars>>

\* The process dies; what it sent may still reach the broker.
Crash ==
  /\ sinkState # "off"
  /\ faults < MaxFaults
  /\ faults' = faults + 1
  /\ Halt
  /\ UNCHANGED <<wal, confirmed, sender, inflight, topic, acked, origin, failed>>

-----------------------------------------------------------------------------
Next ==
  \/ PgCommit
  \/ CreateProducer \/ SetupLast \/ Capture
  \/ Fetching \/ ReportLSN \/ SrcCommit \/ SrcError
  \/ Apply \/ BrokerPersist \/ SendCallback \/ SendError \/ TryAck
  \/ SinkStop \/ SinkEnd \/ Drain \/ CleanFn \/ Exit \/ Crash

Spec == Init /\ [][Next]_vars

\* The goroutines of the process keep running, the broker answers, and a
\* process that is down is started again.  Faults and signals need not come.
Fairness ==
  /\ WF_vars(CreateProducer) /\ WF_vars(SetupLast) /\ WF_vars(Capture)
  /\ WF_vars(Fetching) /\ WF_vars(ReportLSN) /\ WF_vars(SrcCommit)
  /\ WF_vars(Apply) /\ WF_vars(BrokerPersist) /\ WF_vars(SendCallback)
  /\ WF_vars(TryAck) /\ WF_vars(SinkEnd) /\ WF_vars(Drain) /\ WF_vars(CleanFn)

FairSpec == Spec /\ Fairness

-----------------------------------------------------------------------------
(* Properties.                                                              *)

Positions == [lsn : 1..(MaxTx + 1), seq : Nat]

TypePg ==
  /\ wal \in 0..MaxTx
  /\ confirmed \in 0..(MaxTx + 1)
  /\ sender \in Positions

TypeSrc ==
  /\ srcState \in {"off", "on", "closed"}
  /\ currentLsn \in Nat /\ currentSeq \in Nat
  /\ ackLsn \in 0..(MaxTx + 1)
  /\ changes \in Seq(Changes)

TypeSink ==
  /\ sinkState \in {"off", "fenced", "ready", "on", "stopping", "closed"}
  /\ prev \in Checkpoints
  /\ consistent \in BOOLEAN
  /\ inflight \in Seq(Changes)
  /\ receipts \in Seq([cp : Checkpoints, id : Nat])
  /\ committed \in Seq(Checkpoints)

TypeRest ==
  /\ topic \in Seq(Entries)
  /\ cursor \in Nat /\ acked \in Nat
  /\ origin \in 0..(MaxTx + 1)
  /\ failed \subseteq Msgs
  /\ faults \in 0..MaxFaults

\* The values the variables take; that a position never leaves the stream and
\* a key always parses rests on the numbering of the messages.
TypeOK == TypePg /\ TypeSrc /\ TypeSink /\ TypeRest

\* The topic holds the stream in order and no message twice, whatever crashes,
\* replays and late arrivals of a dead process's messages there were: this is
\* what dropping by After(prev) behind an exclusive producer has to achieve.
TopicInOrder ==
  \A i, j \in DOMAIN topic : i < j => After(topic[j].msg, topic[i].msg)

\* A message that the topic has passed is in it, or its send was reported as
\* failed: no restart skips one.
NothingSkipped ==
  \A m \in Msgs, j \in DOMAIN topic :
    origin <= m.lsn /\ After(topic[j].msg, m) => Published(m) \/ m \in failed

\* The slot never confirms (and so never lets the server discard) a
\* transaction of which a message neither is in the topic nor failed.
SlotKeepsUnpublished ==
  \A m \in Msgs :
    origin <= m.lsn /\ m.lsn < confirmed => Published(m) \/ m \in failed

\* The key of a message, numbered from the counters of the source, names the
\* place the message has in the stream, in every replay.
KeysNamePositions ==
  \A i \in DOMAIN topic : FromKey(topic[i].key) = topic[i].msg

\* Setup of the sink resumes at the last message of a topic that has one
\* (pkg/sink/pulsar_test.go: "checkpoint of non empty topic should be last
\* message").
SetupResumesAtLast ==
  sinkState = "ready" /\ topic # <<>> =>
    Equal(prev, FromKey(topic[Len(topic)].key))

\* Every committed transaction that the pipeline covers gets published, or the
\* pipeline has stopped on an error and waits for a signal.
Replicated ==
  \A l \in Txs :
    (origin # 0 /\ origin <= l /\ l <= wal)
      ~> (sinkState = "closed" \/ \A m \in Msgs : m.lsn = l => Published(m))

\* What was published is eventually confirmed to the slot, so that the server
\* can discard it, unless the pipeline has stopped on an error.
WalReleased ==
  \A l \in Txs :
    (\E m \in Msgs : m.lsn = l /\ IsCommit(m) /\ Published(m))
      ~> (sinkState = "closed" \/ confirmed >= l)

\* The subscription of the tracker is acknowledged up to what the callbacks
\* committed, so its backlog does not grow, unless the process goes down.
BacklogAcked ==
  \A k \in 1..Cardinality(Msgs) :
    cursor = k ~> (acked >= k \/ sinkState \in {"closed", "off"})

\* The pipeline implements the copying of a log, provided no send fails.
Abstract == INSTANCE LogCopy WITH
  Starts    <- {m \in Msgs : IsBegin(m)},
  Following <- Succ,
  available <- {m \in Msgs : m.lsn <= wal},
  copy      <- [i \in DOMAIN topic |-> topic[i].msg]

\* The topic grows only by the message that follows its last one, after that
\* message was committed by the server (LogCopy as seen through the topic).
CopiesLog == Abstract!Spec

-----------------------------------------------------------------------------
(* The inductive invariant behind the safety properties, for the tracker    *)
(* that reads the topic.                                                    *)

InFlight(m) == \E i \in DOMAIN inflight : inflight[i].msg = m
Settled(m)  == Published(m) \/ InFlight(m) \/ m \in failed
LastMsg     == topic[Len(topic)].msg

\* The phases of the two halves of the process fit together.
InvPhase ==
  /\ sinkState \in {"off", "fenced", "ready"} =>
       srcState = "off" /\ changes = <<>> /\ receipts = <<>> /\ committed = <<>>
  /\ sinkState \in {"on", "stopping", "closed"} => srcState # "off"
  /\ sinkState \in {"fenced", "ready"} => inflight = <<>>
  /\ sinkState = "ready" => ~consistent
  /\ sinkState = "on" /\ ~consistent => inflight = <<>>

\* The channel holds consecutive messages and the walsender continues them.
InvStream ==
  /\ sender \in Msgs \cup {Begin(MaxTx + 1)}
  /\ \A i \in 1..(Len(changes) - 1) : changes[i + 1].msg = Succ(changes[i].msg)
  /\ changes # <<>> => sender = Succ(changes[Len(changes)].msg)

\* Within a transaction the counters stand at the message before.
InvCounters ==
  srcState = "on" /\ sender.seq > 0 =>
    currentLsn = sender.lsn /\ currentSeq = sender.seq - 1

InvNumbered ==
  /\ \A i \in DOMAIN changes : changes[i].cp = changes[i].msg
  /\ \A i \in DOMAIN inflight : inflight[i].cp = inflight[i].msg
  /\ KeysNamePositions

\* What is in flight is in order and comes after the whole topic.
InvOrder ==
  /\ TopicInOrder
  /\ \A i, j \in DOMAIN inflight : i < j => After(inflight[j].msg, inflight[i].msg)
  /\ \A i \in DOMAIN topic, j \in DOMAIN inflight :
       After(inflight[j].msg, topic[i].msg)

\* Nothing before a published message or one in flight is missing.
InvCovered ==
  \A m \in Msgs : origin <= m.lsn =>
    /\ \A i \in DOMAIN topic : After(topic[i].msg, m) => Settled(m)
    /\ \A i \in DOMAIN inflight : After(inflight[i].msg, m) => Settled(m)

\* Until the sink is consistent it is given nothing beyond the message that
\* follows the last one of the topic ...
InvResume ==
  /\ sinkState = "ready" \/ (sinkState = "on" /\ ~consistent) =>
       prev = IF topic = <<>> THEN NoCheckpoint ELSE LastMsg
  /\ sinkState = "on" /\ ~consistent =>
       IF topic = <<>> THEN NextApply = Begin(origin)
                       ELSE ~After(NextApply, Succ(LastMsg))

\* ... and then it is given the stream without a hole.
InvConsistent ==
  sinkState = "on" /\ consistent =>
    /\ \A i \in DOMAIN topic : After(NextApply, topic[i].msg)
    /\ \A i \in DOMAIN inflight : After(NextApply, inflight[i].msg)
    /\ \A m \in Msgs : origin <= m.lsn /\ After(NextApply, m) => Settled(m)

InvOrigin ==
  /\ \A i \in DOMAIN topic : origin <= topic[i].msg.lsn
  /\ \A i \in DOMAIN inflight : origin <= inflight[i].msg.lsn
  /\ sinkState = "on" => origin <= NextApply.lsn

\* A confirmed or acknowledged position is not beyond the topic.
Bounded(lsn) == IF topic = <<>> THEN lsn <= origin ELSE lsn <= LastMsg.lsn

InvSlot ==
  /\ Bounded(confirmed)
  /\ srcState # "off" => Bounded(ackLsn)
  /\ confirmed = 0 => srcState = "off" /\ topic = <<>> /\ inflight = <<>>
  /\ \A i \in DOMAIN receipts : topic # <<>> /\ receipts[i].cp.lsn <= LastMsg.lsn
  /\ \A i \in DOMAIN committed : topic # <<>> /\ committed[i].lsn <= LastMsg.lsn

\* Whatever left the walsender belongs to a committed transaction.
InvCommitted ==
  /\ \A i \in DOMAIN changes : changes[i].msg.lsn <= wal
  /\ \A i \in DOMAIN inflight : inflight[i].msg.lsn <= wal

\* Every safety property of the pipeline follows from this invariant, and each
\* of its parts is needed to carry another across some step.
IInv == /\ TypeOK /\ InvPhase /\ InvStream /\ InvCounters /\ InvNumbered
        /\ InvOrder /\ InvCovered /\ InvResume /\ InvConsistent /\ InvOrigin
        /\ InvSlot

=============================================================================
