------------------------------- MODULE Gateway -------------------------------
(***************************************************************************)
(* Gateway.Capture of pkg/dblog and what it connects: a Pulsar subscription *)
(* with the latest changes, the dumps it pulls from the controller and      *)
(* loads from a replica, and a client that answers everything it is sent.   *)
(* A session is one call of Capture, with three goroutines: the loop of     *)
(* capture, acknowledge, and the puller.  Sessions of one URI share the     *)
(* subscription and the controller's dumps.                                 *)
(*                                                                          *)
(* A change is named by its position in the topic, which is also its LSN.   *)
(* A record of a dump carries the LSN of the replica it was read at.  A     *)
(* dump id (a checksum of table and pages) is the dump itself.              *)
(***************************************************************************)
EXTENDS Consumer, Integers, Sequences, FiniteSets

CONSTANTS
  Sessions,       \* calls of Capture, one after the other or at the same time
  NumChanges,     \* changes in the topic
  Dumps,          \* dumps of a schedule of the controller
  Rows,           \* records a dump has in the replica; 0: empty, or no such table
  FilteredOut,    \* changes and dumps of tables the client's TableRegex rejects
  Kinds,          \* what a change may be: its operation and its keys
  RowKey,         \* the key of each record of a dump
  ReadFails,      \* reads of the replica may fail
  MaxFaults       \* bound on failing reads, requeues, disconnections, failing sends and
                  \* broken pull streams

Changes == 1..NumChanges

ASSUME GatewayAssumption ==
  /\ IsFiniteSet(Sessions) /\ IsFiniteSet(Dumps)
  /\ NumChanges \in Nat \ {0} /\ MaxFaults \in Nat /\ ReadFails \in BOOLEAN
  /\ Rows \in [Dumps -> Nat]
  /\ FilteredOut \subseteq Changes \cup Dumps
  /\ Kinds \subseteq [op : Ops, key : Nat \ {NoKey}, oldKey : Nat]
  /\ \A d \in Dumps : \A i \in 1..Rows[d] : RowKey[i] \in Nat \ {NoKey}
  /\ Sessions \cap {"waiting", "done", "ready", "nacked", "acked"} = {}
  /\ (Sessions \cup {"waiting", "done", "ready", "nacked", "acked", "change"}) \cap Dumps = {}

VARIABLES
  broker,     \* per change: "ready", the session that holds it, "nacked", "acked"
  topic,      \* per change: what it is
  replica,    \* highest commit in pgcapture.sources of the replica; 0: none
  conn,       \* the connection of PGXSourceDumper, of which there is one, is alive
  controller, \* per dump: "waiting", the session it was handed to (and on which of
              \* its pull streams), "done"
  status,     \* per session: "new" | "open" | "gone" (the stream ended) | "closed"
  lsn,        \* per session: the local lsn of capture
  stream,     \* per session: number of the puller's stream to the controller
  pulled,     \* per session: dumps from the puller, in the channel or waiting for room
  sending,    \* per session: what the loop still has to send of a dump
  ongoing,    \* per session: ongoingDumps
  toClient,   \* per session: sent and not answered
  toServer,   \* per session: answers on their way
  store,      \* per session: DebounceHandler.store of its client
  faults,
  high,       \* history, per session: highest LSN sent
  orderly,    \* history, per session: LSNs never went back
  handled,    \* history: changes and records a handler accepted
  superseded, \* history: those another took the place of in a store
  empty       \* history: dumps of which a read gave no record

envVars == <<topic, replica, conn>>
clientVars == <<toClient, toServer, store>>
sessionVars == <<status, lsn, stream, pulled, sending, ongoing, clientVars>>
histVars == <<high, orderly, handled, superseded, empty>>
vars == <<broker, envVars, controller, sessionVars, faults, histVars>>

Records(d) == {<<d, i, i = Rows[d]>> : i \in 1..Rows[d]}

Init ==
  /\ broker = [m \in Changes |-> "ready"]
  /\ topic \in [Changes \ FilteredOut -> Kinds]
  /\ replica = 0 /\ conn = TRUE
  /\ controller = [d \in Dumps |-> [at |-> "waiting", stream |-> 0]]
  /\ status = [s \in Sessions |-> "new"]
  /\ lsn = [s \in Sessions |-> 0]
  /\ stream = [s \in Sessions |-> 1]
  /\ pulled = [s \in Sessions |-> <<>>]
  /\ sending = [s \in Sessions |-> <<>>]
  /\ ongoing = [s \in Sessions |-> {}]
  /\ toClient = [s \in Sessions |-> <<>>]
  /\ toServer = [s \in Sessions |-> <<>>]
  /\ store = [s \in Sessions |-> {}]
  /\ faults = 0
  /\ high = [s \in Sessions |-> 0]
  /\ orderly = [s \in Sessions |-> TRUE]
  /\ handled = {} /\ superseded = {} /\ empty = {}

-----------------------------------------------------------------------------
(* The environment: Pulsar, the replica, the controller.                    *)

\* The replica's sink applies the next change.
Replicate ==
  /\ replica < NumChanges
  /\ replica' = replica + 1
  /\ UNCHANGED <<broker, topic, conn, controller, sessionVars, faults, histVars>>

\* A nacked message is offered again after the client library's delay.
Redeliver(m) ==
  /\ broker[m] = "nacked"
  /\ broker' = [broker EXCEPT ![m] = "ready"]
  /\ UNCHANGED <<envVars, controller, sessionVars, faults, histVars>>

\* What the controller knows as a client: a stream of a session.
Client(s) == [at |-> s, stream |-> stream[s]]

\* The controller hands a dump to a client that has none; the puller passes it
\* on with the stream to answer on.
Pull(s, d) ==
  /\ status[s] = "open"
  /\ controller[d].at = "waiting"
  /\ \A e \in Dumps : controller[e] # Client(s)
  /\ controller' = [controller EXCEPT ![d] = Client(s)]
  /\ pulled' = [pulled EXCEPT ![s] = Append(@, [dump |-> d, stream |-> stream[s]])]
  /\ UNCHANGED <<broker, envVars, status, lsn, stream, sending, ongoing, clientVars, faults,
                 histVars>>

\* DumpInfo.Ack: an answer names no dump; the controller takes it for the one
\* the session was handed last.  It hands out no other before the answer has
\* arrived, so that the answer may as well arrive at once.  On a stream that has
\* broken it does not arrive.
Answer(s, on, requeue) ==
  controller' = [d \in Dumps |->
    IF controller[d] = Client(s) /\ on = stream[s]
    THEN [at |-> IF requeue THEN "waiting" ELSE "done", stream |-> 0] ELSE controller[d]]

\* The stream to the controller breaks by itself: pulling returns an error that
\* is not Canceled, and Pull opens another stream.
PullBreaks(s) ==
  /\ status[s] = "open"
  /\ faults < MaxFaults
  /\ faults' = faults + 1
  /\ stream' = [stream EXCEPT ![s] = @ + 1]
  /\ UNCHANGED <<broker, envVars, controller, status, lsn, pulled, sending, ongoing, clientVars,
                 histVars>>

-----------------------------------------------------------------------------
(* The loop of capture.                                                     *)

Open(s) ==
  /\ status[s] = "new"
  /\ status' = [status EXCEPT ![s] = "open"]
  /\ UNCHANGED <<broker, envVars, controller, lsn, stream, pulled, sending, ongoing, clientVars,
                 faults, histVars>>

Running(s) == status[s] = "open" /\ sending[s] = <<>>

\* What Pulsar offers next.  (Begin and Commit messages are acknowledged by the
\* source itself and are not in the model's topic.)
Offered(m) == broker[m] = "ready" /\ \A k \in 1..(m - 1) : broker[k] # "ready"

\* A change as the client gets it.
Message(m) == [lsn |-> m, op |-> topic[m].op, key |-> topic[m].key, oldKey |-> topic[m].oldKey]

\* A change of a table the client wants is sent.
SendChange(s, m) ==
  /\ Running(s)
  /\ Offered(m)
  /\ m \notin FilteredOut
  /\ broker' = [broker EXCEPT ![m] = s]
  /\ toClient' = [toClient EXCEPT ![s] = Append(@, Message(m))]
  /\ lsn' = [lsn EXCEPT ![s] = m]
  /\ high' = [high EXCEPT ![s] = IF m > @ THEN m ELSE @]
  /\ orderly' = [orderly EXCEPT ![s] = @ /\ m > lsn[s]]
  /\ UNCHANGED <<envVars, controller, status, stream, pulled, sending, ongoing, toServer, store,
                 faults, handled, superseded, empty>>

\* Mutant: what the client does not want stays in the subscription.
SkipChange_Kept(s, m) ==
  /\ Running(s)
  /\ Offered(m)
  /\ m \in FilteredOut
  /\ broker' = [broker EXCEPT ![m] = s]
  /\ lsn' = [lsn EXCEPT ![s] = m]
  /\ orderly' = [orderly EXCEPT ![s] = @ /\ m > lsn[s]]
  /\ UNCHANGED <<envVars, controller, status, stream, pulled, sending, ongoing, clientVars,
                 faults, high, handled, superseded, empty>>

\* Anything else is acknowledged to Pulsar at once.
SkipChange(s, m) ==
  /\ Running(s)
  /\ Offered(m)
  /\ m \in FilteredOut
  /\ broker' = [broker EXCEPT ![m] = "acked"]
  /\ lsn' = [lsn EXCEPT ![s] = m]
  /\ orderly' = [orderly EXCEPT ![s] = @ /\ m > lsn[s]]
  /\ UNCHANGED <<envVars, controller, status, stream, pulled, sending, ongoing, clientVars,
                 faults, high, handled, superseded, empty>>

\* Mutant: only the presence of a commit is checked.
CheckLSN_Missing(minLSN) == replica # 0

\* The replica has a checkpoint, and it is not behind minLSN.
CheckLSN(minLSN) == replica # 0 /\ replica >= minLSN

\* A dump of a table the client does not want is acknowledged.
SkipDump(s) ==
  /\ Running(s)
  /\ pulled[s] # <<>>
  /\ Head(pulled[s]).dump \in FilteredOut
  /\ pulled' = [pulled EXCEPT ![s] = Tail(@)]
  /\ Answer(s, Head(pulled[s]).stream, FALSE)
  /\ UNCHANGED <<broker, envVars, status, lsn, stream, sending, ongoing, clientVars, faults,
                 histVars>>

\* PGXSourceDumper.LoadDump, for a dump the client wants.  The check and the query
\* run in one transaction; what the replica commits between them is as if
\* committed before.  (SkipLSNCheck is set by tests only.)
Loading(s) ==
  /\ Running(s)
  /\ pulled[s] # <<>>
  /\ Head(pulled[s]).dump \notin FilteredOut
  /\ pulled' = [pulled EXCEPT ![s] = Tail(@)]
  /\ UNCHANGED <<broker, topic, replica, status, lsn, stream, clientVars>>

\* A statement fails, or the connection does, which is not opened again.
Breaks ==
  /\ ReadFails
  /\ faults < MaxFaults
  /\ faults' = faults + 1
  /\ conn' \in BOOLEAN

\* The loop over the rows of dump d ends after n of them, at their end or, because
\* rows.Err is not asked for, wherever the read broke.
Reads(s, d, n) ==
  /\ conn
  /\ CheckLSN(lsn[s])
  /\ IF n = Rows[d] THEN UNCHANGED <<conn, faults>> ELSE Breaks

\* A dump without records: acknowledged.
EmptyDump(s) ==
  /\ Loading(s)
  /\ Reads(s, Head(pulled[s]).dump, 0)
  /\ Answer(s, Head(pulled[s]).stream, FALSE)
  /\ empty' = empty \cup {Head(pulled[s]).dump}
  /\ UNCHANGED <<sending, ongoing, high, orderly, handled, superseded>>

\* LoadDump returns an error, its own or that the replica is behind: requeued.
DumpError(s) ==
  /\ Loading(s)
  /\ \/ ~(conn /\ CheckLSN(lsn[s])) /\ UNCHANGED <<conn, faults>>
     \/ conn /\ Breaks
  /\ Answer(s, Head(pulled[s]).stream, TRUE)
  /\ UNCHANGED <<sending, ongoing, histVars>>

\* A dump with records: dumpMap.store; the last one that was read is marked.
LoadDump(s) ==
  /\ Loading(s)
  /\ LET info == Head(pulled[s])
         d == info.dump
     IN /\ \E n \in 1..Rows[d] :
             /\ Reads(s, d, n)
             /\ sending' = [sending EXCEPT ![s] =
                  [i \in 1..n |->
                     [stream |-> info.stream,
                      msg |-> [dump |-> d, row |-> i, last |-> i = n,
                               at |-> replica, after |-> high[s],
                               op |-> "UPDATE", key |-> RowKey[i], oldKey |-> NoKey]]]]
        /\ ongoing' = [ongoing EXCEPT ![s] = {o \in @ : o.dump # d} \cup {info}]
  /\ UNCHANGED <<controller, histVars>>

SendRecord(s) ==
  /\ status[s] = "open"
  /\ sending[s] # <<>>
  /\ toClient' = [toClient EXCEPT ![s] = Append(@, Head(sending[s]).msg)]
  /\ sending' = [sending EXCEPT ![s] = Tail(@)]
  /\ UNCHANGED <<broker, envVars, controller, status, lsn, stream, pulled, ongoing, toServer,
                 store, faults, histVars>>

\* Send returns an error: a dump is requeued, a change is left unacknowledged,
\* and capture returns.  ongoingDumps keeps its copy of the DumpInfo.
SendFails(s) ==
  /\ status[s] = "open"
  /\ faults < MaxFaults
  /\ faults' = faults + 1
  /\ \/ sending[s] # <<>> /\ Answer(s, Head(sending[s]).stream, TRUE)
     \/ /\ Running(s)
        /\ \E m \in Changes \ FilteredOut : Offered(m)
        /\ UNCHANGED controller
  /\ sending' = [sending EXCEPT ![s] = <<>>]
  /\ status' = [status EXCEPT ![s] = "gone"]
  /\ UNCHANGED <<broker, envVars, lsn, stream, pulled, ongoing, clientVars, histVars>>

-----------------------------------------------------------------------------
(* The end of a session.                                                    *)

\* The client's stream ends: its context is done and Recv fails.  A step the
\* loop takes before it notices is a step before the end, or a failing Send.  The
\* client's bouncer flushes its store once more, but no answer arrives.
Disconnect(s) ==
  /\ status[s] = "open"
  /\ faults < MaxFaults
  /\ faults' = faults + 1
  /\ status' = [status EXCEPT ![s] = "gone"]
  /\ sending' = [sending EXCEPT ![s] = <<>>]
  /\ toClient' = [toClient EXCEPT ![s] = <<>>]
  /\ store' = [store EXCEPT ![s] = {}]
  /\ UNCHANGED <<broker, envVars, controller, lsn, stream, pulled, ongoing, toServer, histVars>>

\* cleanUp stops the source, and with it the consumer: Pulsar offers what it
\* held to others.  The acknowledge goroutine has nothing left to act on.
CleanUp(s) ==
  /\ status[s] = "gone"
  /\ status' = [status EXCEPT ![s] = "closed"]
  /\ broker' = [m \in Changes |-> IF broker[m] = s THEN "ready" ELSE broker[m]]
  /\ pulled' = [pulled EXCEPT ![s] = <<>>]
  /\ ongoing' = [ongoing EXCEPT ![s] = {}]
  /\ toClient' = [toClient EXCEPT ![s] = <<>>]
  /\ toServer' = [toServer EXCEPT ![s] = <<>>]
  /\ store' = [store EXCEPT ![s] = {}]
  /\ UNCHANGED <<envVars, controller, lsn, stream, sending, faults, histVars>>

\* The controller notices the end of a stream, which broke or had the context of
\* a session that is over, and requeues what it had handed out on it.
PullCanceled(s) ==
  /\ \E d \in Dumps :
       /\ controller[d].at = s
       /\ status[s] \in {"gone", "closed"} \/ controller[d].stream # stream[s]
       /\ controller' = [controller EXCEPT ![d] = [at |-> "waiting", stream |-> 0]]
  /\ UNCHANGED <<broker, envVars, sessionVars, faults, histVars>>

-----------------------------------------------------------------------------
(* The client, and the goroutine that receives its answers.                 *)

IsChange(msg) == "lsn" \in DOMAIN msg

\* What a message stands for, in the history.
Subject(msg) == IF IsChange(msg) THEN <<"change", msg.lsn>> ELSE <<msg.dump, msg.row, msg.last>>

\* The calls of a bouncer, of which the handler refuses some: Commit and Requeue
\* of DBLogGatewayConsumer.
Answers(s, calls, refusals) ==
  /\ \A i \in refusals : calls[i].handle
  /\ faults + Cardinality(refusals) <= MaxFaults
  /\ faults' = faults + Cardinality(refusals)
  /\ toServer' = [toServer EXCEPT ![s] =
       @ \o [i \in DOMAIN calls |-> [msg |-> calls[i].event, requeue |-> i \in refusals]]]
  /\ handled' = handled \cup
       {Subject(calls[i].event) : i \in {j \in DOMAIN calls \ refusals : calls[j].handle}}
  /\ superseded' = superseded \cup
       {Subject(calls[i].event) : i \in {j \in DOMAIN calls : ~calls[j].handle}}
  /\ UNCHANGED <<broker, envVars, controller, status, lsn, stream, pulled, sending, ongoing,
                 high, orderly, empty>>

\* ConsumeAsync takes the next message.  One of a table without a handler, or one
\* that cannot be decoded, is committed like one that its handler accepted.
Consume(s) ==
  /\ toClient[s] # <<>>
  /\ LET bounced == Bounce(store[s], Head(toClient[s]))
     IN /\ \E refusals \in SUBSET DOMAIN bounced.calls :
             Answers(s, bounced.calls, refusals)
        /\ store' = [store EXCEPT ![s] = bounced.store]
  /\ toClient' = [toClient EXCEPT ![s] = Tail(@)]

\* The interval of DebounceHandler has passed.
Flush(s) ==
  /\ store[s] # {}
  /\ \E calls \in Flushes(store[s]) : \E refusals \in SUBSET DOMAIN calls :
       Answers(s, calls, refusals)
  /\ store' = [store EXCEPT ![s] = {}]
  /\ UNCHANGED toClient

\* Mutant: a requeue is acknowledged.
Settled_Acked(requeue) == "acked"

\* Commit and Requeue of PulsarConsumerSource: AckID, NackID.
Settled(requeue) == IF requeue THEN "nacked" ELSE "acked"

\* acknowledge, a change.  Pulsar forgets what was acknowledged once.
AckChange(s) ==
  /\ toServer[s] # <<>>
  /\ LET ack == Head(toServer[s])
     IN /\ IsChange(ack.msg)
        /\ broker' = [broker EXCEPT ![ack.msg.lsn] =
                        IF @ = "acked" THEN @ ELSE Settled(ack.requeue)]
  /\ toServer' = [toServer EXCEPT ![s] = Tail(@)]
  /\ UNCHANGED <<envVars, controller, status, lsn, stream, pulled, sending, ongoing, toClient,
                 store, faults, histVars>>

\* Mutant: the first answer to a record settles the dump.
Settles_Any(ack) == TRUE

\* The answers that settle a dump.
Settles(ack) == ack.msg.last \/ ack.requeue

\* Mutant: the dump stays in the map.
Forget_Kept(s, id) == ongoing

\* The end of dumpMap.ack.
Forget(s, id) == [ongoing EXCEPT ![s] = {o \in @ : o.dump # id}]

\* acknowledge, a record of a dump: dumpMap.ack.  When the stream of the puller
\* has ended the answer may not arrive.
AckRecord(s) ==
  /\ toServer[s] # <<>>
  /\ LET ack == Head(toServer[s])
     IN /\ ~IsChange(ack.msg)
        /\ IF Settles(ack) /\ \E o \in ongoing[s] : o.dump = ack.msg.dump
           THEN /\ \/ \E o \in ongoing[s] :
                        o.dump = ack.msg.dump /\ Answer(s, o.stream, ack.requeue)
                   \/ status[s] = "gone" /\ UNCHANGED controller
                /\ ongoing' = Forget(s, ack.msg.dump)
           ELSE UNCHANGED <<controller, ongoing>>
  /\ toServer' = [toServer EXCEPT ![s] = Tail(@)]
  /\ UNCHANGED <<broker, envVars, status, lsn, stream, pulled, sending, toClient, store, faults,
                 histVars>>

-----------------------------------------------------------------------------
\* What the loop of capture does with a dump.
LoopStep(s) == SkipDump(s) \/ EmptyDump(s) \/ DumpError(s) \/ LoadDump(s) \/ SendRecord(s)

Next ==
  \/ Replicate
  \/ \E m \in Changes : Redeliver(m)
  \/ \E s \in Sessions :
       \/ Open(s) \/ LoopStep(s)
       \/ SendFails(s) \/ Disconnect(s) \/ CleanUp(s) \/ PullBreaks(s) \/ PullCanceled(s)
       \/ AckChange(s) \/ AckRecord(s)
       \/ \E m \in Changes : SendChange(s, m) \/ SkipChange(s, m)
       \/ \E d \in Dumps : Pull(s, d)
       \/ Consume(s) \/ Flush(s)

Spec == Init /\ [][Next]_vars

\* The goroutines and the services run, a select serves each of its channels,
\* clients connect and answer.  Nobody has to fail, leave or ask again.
Fairness ==
  /\ WF_vars(Replicate)
  /\ WF_vars(\E m \in Changes : Redeliver(m))
  /\ \A s \in Sessions :
       /\ WF_vars(Open(s) \/ LoopStep(s) \/ CleanUp(s))
       /\ SF_vars(\E m \in Changes : SendChange(s, m) \/ SkipChange(s, m))
       /\ WF_vars(\E d \in Dumps : Pull(s, d))
       /\ WF_vars(PullCanceled(s))
       /\ WF_vars(AckChange(s) \/ AckRecord(s))
       /\ WF_vars(Consume(s) \/ Flush(s))

FairSpec == Spec /\ Fairness

-----------------------------------------------------------------------------
(* Properties.                                                              *)

DumpInfos == [dump : Dumps, stream : Nat]

Messages ==
  [lsn : Changes, op : Ops, key : Nat, oldKey : Nat]
    \cup [dump : Dumps, row : Nat, last : BOOLEAN, at : 0..NumChanges, after : 0..NumChanges,
          op : Ops, key : Nat, oldKey : Nat]

\* Types, and the channel of the puller holds at most one dump of a stream, which
\* is its capacity: a dump is answered once, so the controller never hands out a
\* second one before the loop has taken the first.
TypeOK ==
  /\ broker \in [Changes -> Sessions \cup {"ready", "nacked", "acked"}]
  /\ topic \in [Changes \ FilteredOut -> Kinds]
  /\ replica \in 0..NumChanges /\ conn \in BOOLEAN
  /\ controller \in [Dumps -> [at : Sessions \cup {"waiting", "done"}, stream : Nat]]
  /\ status \in [Sessions -> {"new", "open", "gone", "closed"}]
  /\ lsn \in [Sessions -> 0..NumChanges]
  /\ stream \in [Sessions -> Nat \ {0}]
  /\ pulled \in [Sessions -> Seq(DumpInfos)]
  /\ \A s \in Sessions : Cardinality({info.stream : info \in ToSet(pulled[s])}) = Len(pulled[s])
  /\ \A s \in Sessions : ongoing[s] \subseteq DumpInfos
  /\ sending \in [Sessions -> Seq([stream : Nat, msg : Messages])]
  /\ toClient \in [Sessions -> Seq(Messages)]
  /\ toServer \in [Sessions -> Seq([msg : Messages, requeue : BOOLEAN])]
  /\ \A s \in Sessions :
       /\ store[s] \subseteq Messages
       /\ \A e, f \in store[s] : e.key = f.key => e = f
  /\ faults \in 0..MaxFaults
  /\ high \in [Sessions -> 0..NumChanges]
  /\ orderly \in [Sessions -> BOOLEAN]

\* A change the client wants leaves the subscription only when a client has
\* handled it or debounced it (another took its place in the store), over requeues,
\* redeliveries, sessions that end at any point, and changes answered twice.
AtLeastOnce ==
  \A m \in Changes \ FilteredOut : broker[m] = "acked" =>
    <<"change", m>> \in handled \cup superseded

\* A client that applies what arrives in the order it arrives never replaces a
\* change by an older record of a dump: records are read from a replica that
\* has all changes sent before.  Redelivered changes take the watermark back,
\* so this holds as long as the changes of the session came in order.
DumpIsFresh ==
  \A s \in Sessions : orderly[s] =>
    \A i \in DOMAIN toClient[s] :
      LET msg == toClient[s][i] IN ~IsChange(msg) => msg.at >= msg.after

\* A dump that the client wants is done only when the record sent as its last one
\* was handled or debounced, or when a read of it gave none: over reads that break
\* off, requeues of its records, dumps handed out again on another stream or to
\* another session, and answers to records of an earlier load.
DoneWhenLastHandled ==
  \A d \in Dumps \ FilteredOut : controller[d].at = "done" =>
    \/ d \in empty
    \/ \E i \in 1..Rows[d] : <<d, i, TRUE>> \in handled \cup superseded

\* The whole dump is acknowledged to the puller: each record was handled.
WholeDumpHandled ==
  \A d \in Dumps \ FilteredOut : controller[d].at = "done" => Records(d) \subseteq handled

\* While a client is connected, the subscription is drained and, unless the
\* connection to the replica is lost, every dump ends: no change and no dump is left
\* with a session that is over, and no answer is waited for that cannot come.
Drained ==
  /\ \A m \in Changes : broker[m] = "acked"
  /\ conn => \A d \in Dumps : controller[d].at = "done"
Drains == <>[](Drained \/ \A s \in Sessions : status[s] \in {"gone", "closed"})

=============================================================================
