---------------------------- MODULE GatewayProofs ----------------------------
(***************************************************************************)
(* Proofs of the safety properties of the gateway, for any number of        *)
(* sessions, changes, dumps, records and faults, and for clients that       *)
(* debounce and clients that do not.                                        *)
(***************************************************************************)
EXTENDS Gateway, SequenceProofs, FiniteSetTheorems

-----------------------------------------------------------------------------
(* The bouncers.                                                            *)

\* A sequence of calls for events of M.
Calls(M) == Seq([event : M, handle : BOOLEAN])

\* The entries of a store under a key are a sequence of entries of the store.
LEMMA StoredFacts ==
  ASSUME NEW M, NEW st \in SUBSET M, IsFiniteSet(st), NEW k
  PROVE  Stored(st, k) \in Seq(M)
<1> DEFINE S == {e \in st : e.key = k}
<1>1. IsFiniteSet(S)
  BY FS_Subset
<1>2. Cardinality(S) \in Nat /\ ExistsBijection(1..Cardinality(S), S)
  BY <1>1, FS_CardinalityType
<1>3. PICK f \in Bijection(1..Cardinality(S), S) : TRUE
  BY <1>2 DEF ExistsBijection
<1>4. f \in [1..Cardinality(S) -> S] /\ IsInjective(f)
  BY <1>3 DEF Bijection, Injection
<1>5. SetToSeq(S) \in [1..Cardinality(S) -> S]
  BY <1>4 DEF SetToSeq
<1>6. SetToSeq(S) \in Seq(S)
  BY <1>2, <1>5
<1>7. S \subseteq M
  OBVIOUS
<1> QED
  BY <1>6, <1>7, SeqMonotonic DEF Stored

\* Handling, or dropping, each event of a sequence is a sequence of calls.
LEMMA CallsOfSeq ==
  ASSUME NEW M, NEW q \in Seq(M)
  PROVE  /\ [i \in DOMAIN q |-> Handle(q[i])] \in Calls(M)
         /\ [i \in DOMAIN q |-> Drop(q[i])] \in Calls(M)
<1>1. Len(q) \in Nat /\ DOMAIN q = 1..Len(q) /\ \A i \in 1..Len(q) : q[i] \in M
  BY SeqFacts
<1>2. \A i \in 1..Len(q) : /\ Handle(q[i]) \in [event : M, handle : BOOLEAN]
                           /\ Drop(q[i]) \in [event : M, handle : BOOLEAN]
  BY <1>1 DEF Handle, Drop
<1> QED
  BY <1>1, <1>2 DEF Calls

\* No two entries of a store have one key.
Keyed(st) == \A e, f \in st : e.key = f.key => e = f

\* A bouncer calls the handler with what it was given or what it had stored, and
\* keeps nothing else.
LEMMA BounceFacts ==
  ASSUME NEW M, NEW st \in SUBSET M, IsFiniteSet(st), Keyed(st), NEW e \in M
  PROVE  /\ Bounce(st, e).calls \in Calls(M)
         /\ Bounce(st, e).store \in SUBSET M
         /\ IsFiniteSet(Bounce(st, e).store)
         /\ Keyed(Bounce(st, e).store)
<1>1. <<Handle(e)>> \in Calls(M)
  BY DEF Handle, Calls
<1>2. \A k : /\ [i \in DOMAIN Stored(st, k) |-> Handle(Stored(st, k)[i])] \in Calls(M)
             /\ [i \in DOMAIN Stored(st, k) |-> Drop(Stored(st, k)[i])] \in Calls(M)
  BY StoredFacts, CallsOfSeq
<1>3. \A p, q \in Calls(M) : p \o q \in Calls(M)
  BY DEF Calls
<1>4. CASE ~Debounce
  <2>1. Bounce(st, e) = NoBounce(st, e)
    BY <1>4 DEF Bounce
  <2> QED
    BY <2>1, <1>1 DEF NoBounce
<1>5. CASE Debounce /\ e.op = "UPDATE"
  <2>1. Bounce(st, e) = HandleUpdate(st, e)
    BY <1>5 DEF Bounce
  <2> DEFINE kept == {f \in st : f.key # e.key}
  <2>2. IsFiniteSet(kept)
    BY FS_Subset
  <2>3. IsFiniteSet(kept \cup {e})
    BY <2>2, FS_AddElement
  <2>4. Keyed(kept \cup {e}) /\ kept \cup {e} \in SUBSET M
    BY DEF Keyed
  <2>5. HandleUpdate(st, e).store = kept \cup {e} /\ HandleUpdate(st, e).calls \in Calls(M)
    BY <1>2, <1>3 DEF HandleUpdate
  <2> QED
    BY <2>1, <2>3, <2>4, <2>5
<1>6. CASE Debounce /\ e.op # "UPDATE"
  <2>1. Bounce(st, e) = HandleNow(st, e)
    BY <1>6 DEF Bounce
  <2>2. HandleNow(st, e).store = st /\ HandleNow(st, e).calls \in Calls(M)
    BY <1>1, <1>2, <1>3 DEF HandleNow
  <2> QED
    BY <2>1, <2>2
<1> QED
  BY <1>4, <1>5, <1>6

\* A flush calls the handler with what was stored.
LEMMA FlushFacts ==
  ASSUME NEW M, NEW st \in SUBSET M, IsFiniteSet(st), NEW calls \in Flushes(st)
  PROVE  calls \in Calls(M)
<1>1. PICK order \in SetToSeqs(st) : calls = [i \in DOMAIN order |-> Handle(order[i])]
  BY DEF Flushes
<1>2. order \in [1..Cardinality(st) -> st] /\ Cardinality(st) \in Nat
  BY FS_CardinalityType DEF SetToSeqs
<1>3. order \in Seq(st)
  BY <1>2
<1>4. order \in Seq(M)
  BY <1>3, SeqMonotonic
<1> QED
  BY <1>1, <1>4, CallsOfSeq

-----------------------------------------------------------------------------
(* Messages.                                                                *)

\* The two kinds of messages and their fields.
LEMMA MessageFacts ==
  ASSUME NEW msg \in Messages
  PROVE  /\ IsChange(msg) => msg.lsn \in Changes /\ Subject(msg) = <<"change", msg.lsn>>
         /\ ~IsChange(msg) => /\ msg.dump \in Dumps /\ msg.row \in Nat /\ msg.last \in BOOLEAN
                              /\ msg.at \in 0..NumChanges /\ msg.after \in 0..NumChanges
                              /\ Subject(msg) = <<msg.dump, msg.row, msg.last>>
BY DEF Messages, IsChange, Subject

\* Messages of which a record of a dump is one that the dump has.
Valid == {msg \in Messages : ~IsChange(msg) => msg.row \in 1..Rows[msg.dump]}

\* Messages that are no record older than a change sent before it.
Fresh == {msg \in Messages : ~IsChange(msg) => msg.at >= msg.after}

\* A change as it is sent.
LEMMA ChangeMessage ==
  ASSUME NEW m \in Changes \ FilteredOut, topic \in [Changes \ FilteredOut -> Kinds]
  PROVE  Message(m) \in Valid /\ Message(m) \in Fresh /\ IsChange(Message(m))
<1>1. topic[m] \in [op : Ops, key : Nat \ {NoKey}, oldKey : Nat]
  BY GatewayAssumption
<1>2. Message(m) \in [lsn : Changes, op : Ops, key : Nat, oldKey : Nat]
  BY <1>1 DEF Message
<1>3. Message(m) \in Messages /\ IsChange(Message(m))
  BY <1>2 DEF Messages, IsChange
<1> QED
  BY <1>3 DEF Valid, Fresh

\* A record of a dump as it is loaded.
Record(s, d, i, n) ==
  [dump |-> d, row |-> i, last |-> i = n, at |-> replica, after |-> high[s],
   op |-> "UPDATE", key |-> RowKey[i], oldKey |-> NoKey]

LEMMA RecordMessage ==
  ASSUME NEW s \in Sessions, NEW d \in Dumps, NEW n \in 1..Rows[d], NEW i \in 1..n,
         replica \in 0..NumChanges, high \in [Sessions -> 0..NumChanges]
  PROVE  /\ Record(s, d, i, n) \in Valid
         /\ replica >= high[s] => Record(s, d, i, n) \in Fresh
<1>1. i \in 1..Rows[d] /\ RowKey[i] \in Nat /\ Rows[d] \in Nat
  BY GatewayAssumption
<1>2. Record(s, d, i, n) \in [dump : Dumps, row : Nat, last : BOOLEAN, at : 0..NumChanges,
                           after : 0..NumChanges, op : Ops, key : Nat, oldKey : Nat]
  BY <1>1 DEF Record, NoKey, Ops
<1>3. Record(s, d, i, n) \in Messages /\ ~IsChange(Record(s, d, i, n))
  BY <1>2 DEF Messages, IsChange, Record
<1>4. Record(s, d, i, n).row \in 1..Rows[Record(s, d, i, n).dump]
  BY <1>1 DEF Record
<1>5. replica >= high[s] => Record(s, d, i, n).at >= Record(s, d, i, n).after
  BY DEF Record
<1> QED
  BY <1>3, <1>4, <1>5 DEF Valid, Fresh

-----------------------------------------------------------------------------
(* The inductive invariant.                                                 *)

\* Answers of which those that are no requeue are accounted for.
Answered ==
  {ack \in [msg : Valid, requeue : BOOLEAN] :
     ~ack.requeue => Subject(ack.msg) \in handled \cup superseded}

\* Positions, the states of changes and sessions.
PlainInv ==
  /\ broker \in [Changes -> Sessions \cup {"ready", "nacked", "acked"}]
  /\ topic \in [Changes \ FilteredOut -> Kinds]
  /\ replica \in 0..NumChanges /\ conn \in BOOLEAN
  /\ status \in [Sessions -> {"new", "open", "gone", "closed"}]
  /\ lsn \in [Sessions -> 0..NumChanges]
  /\ high \in [Sessions -> 0..NumChanges]
  /\ orderly \in [Sessions -> BOOLEAN]
  /\ faults \in 0..MaxFaults

\* What is between the loop, the client and the acknowledge goroutine.
ChannelInv ==
  /\ sending \in [Sessions -> Seq([stream : Nat, msg : Valid])]
  /\ toClient \in [Sessions -> Seq(Valid)]
  /\ toServer \in [Sessions -> Seq(Answered)]
  /\ store \in [Sessions -> SUBSET Valid]
  /\ \A s \in Sessions : IsFiniteSet(store[s]) /\ Keyed(store[s])

\* As long as the LSNs of a session went up, its watermark has no change above it
\* that was sent, and what was loaded under it is fresh.
FreshInv ==
  \A s \in Sessions : orderly[s] =>
    /\ high[s] <= lsn[s]
    /\ sending[s] \in Seq([stream : Nat, msg : Fresh])
    /\ toClient[s] \in Seq(Fresh)

\* Types of what the puller and dumpMap keep.
PullType ==
  /\ controller \in [Dumps -> [at : Sessions \cup {"waiting", "done"}, stream : Nat]]
  /\ stream \in [Sessions -> Nat \ {0}]
  /\ pulled \in [Sessions -> Seq(DumpInfos)]
  /\ ongoing \in [Sessions -> SUBSET DumpInfos]

\* The dumps a session holds: from the puller, and in dumpMap.
Held(s) == ToSet(pulled[s]) \cup ongoing[s]

\* The streams a session has had so far.
StreamInv ==
  \A s \in Sessions :
    /\ \A o \in Held(s) : o.stream <= stream[s]
    /\ \A d \in Dumps : controller[d].at = s => controller[d].stream <= stream[s]

\* What a session holds from its current stream is what the controller believes
\* it to hold; once the session is over the controller may have taken it back.
Live(s) == status[s] \in {"new", "open"}

Matches(s, info) ==
  info.stream = stream[s] =>
    /\ Live(s) => controller[info.dump] = Client(s)
    /\ \A d \in Dumps : controller[d] = Client(s) => d = info.dump

HandedInv ==
  \A s \in Sessions :
    /\ \A d, e \in Dumps : controller[d] = Client(s) /\ controller[e] = Client(s) => d = e
    /\ \A o \in Held(s) : Matches(s, o)

\* A session was handed at most one dump of a stream that it has not finished.
ApartInv ==
  \A s \in Sessions :
    /\ \A i, j \in DOMAIN pulled[s] : i < j => pulled[s][i].stream < pulled[s][j].stream
    /\ \A i \in DOMAIN pulled[s] : \A o \in ongoing[s] : pulled[s][i].stream # o.stream

PullInv == StreamInv /\ HandedInv /\ ApartInv

IInv ==
  /\ PlainInv /\ ChannelInv /\ FreshInv
  /\ PullType /\ PullInv
  /\ AtLeastOnce /\ DoneWhenLastHandled

-----------------------------------------------------------------------------
(* The client's answers.                                                    *)

\* What it takes to be accounted for after a step.
LEMMA AnsweredNext ==
  ASSUME NEW msg \in Valid, NEW requeue \in BOOLEAN,
         ~requeue => Subject(msg) \in handled' \cup superseded'
  PROVE  [msg |-> msg, requeue |-> requeue] \in Answered'
<1> DEFINE ack == [msg |-> msg, requeue |-> requeue]
<1>1. ack \in [msg : Valid, requeue : BOOLEAN] /\ ack.msg = msg /\ ack.requeue = requeue
  OBVIOUS
<1> HIDE DEF ack
<1>2. ack \in Answered'
  BY <1>1 DEF Answered
<1> QED
  BY <1>2 DEF ack

\* A bouncer's calls add answers that are accounted for, and lose no account.
LEMMA AnswersFacts ==
  ASSUME ChannelInv, PlainInv,
         NEW s \in Sessions, NEW calls \in Calls(Valid), NEW refusals \in SUBSET DOMAIN calls,
         Answers(s, calls, refusals)
  PROVE  /\ toServer' \in [Sessions -> Seq(Answered')]
         /\ faults' \in 0..MaxFaults
         /\ handled \subseteq handled' /\ superseded \subseteq superseded'
<1>1. /\ Len(calls) \in Nat /\ DOMAIN calls = 1..Len(calls)
      /\ \A i \in DOMAIN calls : calls[i] \in [event : Valid, handle : BOOLEAN]
  BY SeqFacts DEF Calls
<1>2. handled \subseteq handled' /\ superseded \subseteq superseded'
  BY DEF Answers
<1>3. Answered \subseteq Answered'
  BY <1>2 DEF Answered, Valid
<1>4. \A r \in Sessions : toServer[r] \in Seq(Answered')
  BY <1>3, SeqMonotonic DEF ChannelInv
<1> DEFINE acks == [i \in DOMAIN calls |-> [msg |-> calls[i].event, requeue |-> i \in refusals]]
<1>5. ASSUME NEW i \in DOMAIN calls
      PROVE  acks[i] \in Answered'
  <2>1. calls[i].event \in Valid /\ calls[i].handle \in BOOLEAN
    BY <1>1
  <2>2. acks[i] = [msg |-> calls[i].event, requeue |-> i \in refusals]
    OBVIOUS
  <2>3. i \notin refusals => Subject(calls[i].event) \in handled' \cup superseded'
    <3>1. CASE calls[i].handle
      BY <3>1 DEF Answers
    <3>2. CASE ~calls[i].handle
      BY <3>2 DEF Answers
    <3> QED
      BY <3>1, <3>2
  <2> QED
    <3>1. (i \in refusals) \in BOOLEAN
      OBVIOUS
    <3>2. [msg |-> calls[i].event, requeue |-> i \in refusals] \in Answered'
      BY <2>1, <2>3, <3>1, AnsweredNext
    <3> QED
      BY <2>2, <3>2
<1>6. acks \in Seq(Answered')
  BY <1>1, <1>5
<1>7. toServer' = [toServer EXCEPT ![s] = @ \o acks]
  BY DEF Answers
<1>8. toServer' \in [Sessions -> Seq(Answered')]
  <2> DEFINE A == Answered'
  <2>1. toServer[s] \o acks \in Seq(A) /\ \A r \in Sessions : toServer[r] \in Seq(A)
    BY <1>4, <1>6
  <2>2. toServer = [r \in Sessions |-> toServer[r]]
    BY DEF ChannelInv
  <2> HIDE DEF A, acks
  <2>3. toServer' \in [Sessions -> Seq(A)]
    BY <1>7, <2>1, <2>2
  <2> QED
    BY <2>3 DEF A
<1>9. IsFiniteSet(refusals)
  <2>1. IsFiniteSet(DOMAIN calls)
    BY <1>1, FS_Interval
  <2> QED
    BY <2>1, FS_Subset
<1>10. faults' \in 0..MaxFaults
  BY <1>9, FS_CardinalityType, GatewayAssumption DEF Answers, PlainInv
<1> QED
  BY <1>2, <1>8, <1>10

\* The calls of a message, and of a flush, are calls for valid messages.
LEMMA ConsumeFacts ==
  ASSUME ChannelInv, NEW s \in Sessions, toClient[s] # <<>>
  PROVE  /\ Head(toClient[s]) \in Valid
         /\ Bounce(store[s], Head(toClient[s])).calls \in Calls(Valid)
         /\ Bounce(store[s], Head(toClient[s])).store \in SUBSET Valid
         /\ IsFiniteSet(Bounce(store[s], Head(toClient[s])).store)
         /\ Keyed(Bounce(store[s], Head(toClient[s])).store)
<1>1. toClient[s] \in Seq(Valid)
  BY DEF ChannelInv
<1>2. Head(toClient[s]) \in Valid
  BY <1>1, TailFacts
<1>3. store[s] \in SUBSET Valid /\ IsFiniteSet(store[s]) /\ Keyed(store[s])
  BY DEF ChannelInv
<1> DEFINE st == store[s]
           e == Head(toClient[s])
<1> HIDE DEF st, e
<1>4. st \in SUBSET Valid /\ IsFiniteSet(st) /\ Keyed(st) /\ e \in Valid
  BY <1>2, <1>3 DEF st, e
<1>5. /\ Bounce(st, e).calls \in Calls(Valid) /\ Bounce(st, e).store \in SUBSET Valid
      /\ IsFiniteSet(Bounce(st, e).store) /\ Keyed(Bounce(st, e).store)
  BY <1>4, BounceFacts
<1> QED
  BY <1>2, <1>5 DEF st, e

-----------------------------------------------------------------------------
(* Positions, the states of changes and sessions.                           *)

LEMMA PlainStep ==
  ASSUME PlainInv, ChannelInv, [Next]_vars
  PROVE  PlainInv'
<1>1. CASE UNCHANGED vars
  BY <1>1 DEF vars, envVars, sessionVars, histVars, PlainInv
<1>2. CASE Replicate
  BY <1>2, GatewayAssumption DEF Replicate, sessionVars, histVars, PlainInv
<1>3. ASSUME NEW m \in Changes, Redeliver(m)
      PROVE  PlainInv'
  BY <1>3 DEF Redeliver, envVars, sessionVars, histVars, PlainInv
<1>4. ASSUME NEW s \in Sessions, Open(s)
      PROVE  PlainInv'
  BY <1>4 DEF Open, envVars, histVars, PlainInv
<1>5. ASSUME NEW s \in Sessions, LoopStep(s) \/ PullCanceled(s)
      PROVE  PlainInv'
  <2>1. CASE SkipDump(s) \/ SendRecord(s) \/ PullCanceled(s)
    BY <2>1 DEF SkipDump, SendRecord, PullCanceled, envVars, sessionVars, histVars, PlainInv
  <2>2. CASE EmptyDump(s) \/ DumpError(s) \/ LoadDump(s)
    <3>1. /\ UNCHANGED <<broker, topic, replica, status, lsn, high, orderly>>
          /\ UNCHANGED <<conn, faults>> \/ Breaks
      BY <2>2 DEF EmptyDump, DumpError, LoadDump, Loading, Reads, histVars
    <3>2. conn' \in BOOLEAN /\ faults' \in 0..MaxFaults
      BY <3>1, GatewayAssumption DEF Breaks, PlainInv
    <3> QED
      BY <3>1, <3>2 DEF PlainInv
  <2> QED
    BY <1>5, <2>1, <2>2 DEF LoopStep
<1>6. ASSUME NEW s \in Sessions, SendFails(s) \/ Disconnect(s) \/ PullBreaks(s)
      PROVE  PlainInv'
  <2>1. faults' \in 0..MaxFaults
    <3>1. faults < MaxFaults /\ faults' = faults + 1 /\ MaxFaults \in Nat
      BY <1>6, GatewayAssumption DEF SendFails, Disconnect, PullBreaks
    <3> QED
      BY <3>1 DEF PlainInv
  <2>2. status' \in [Sessions -> {"new", "open", "gone", "closed"}]
    BY <1>6 DEF SendFails, Disconnect, PullBreaks, PlainInv
  <2>3. UNCHANGED <<broker, topic, replica, conn, lsn, high, orderly>>
    BY <1>6 DEF SendFails, Disconnect, PullBreaks, envVars, histVars
  <2> QED
    BY <2>1, <2>2, <2>3 DEF PlainInv
<1>7. ASSUME NEW s \in Sessions, CleanUp(s)
      PROVE  PlainInv'
  BY <1>7 DEF CleanUp, envVars, histVars, PlainInv
<1>8. ASSUME NEW s \in Sessions, AckChange(s)
      PROVE  PlainInv'
  BY <1>8 DEF AckChange, Settled, envVars, histVars, PlainInv
<1>9. ASSUME NEW s \in Sessions, AckRecord(s)
      PROVE  PlainInv'
  BY <1>9 DEF AckRecord, envVars, histVars, PlainInv
<1>10. ASSUME NEW s \in Sessions, NEW m \in Changes, SendChange(s, m) \/ SkipChange(s, m)
       PROVE  PlainInv'
  <2>1. m \in 1..NumChanges /\ NumChanges \in Nat
    BY GatewayAssumption DEF Changes
  <2>2. broker' \in [Changes -> Sessions \cup {"ready", "nacked", "acked"}]
    BY <1>10 DEF SendChange, SkipChange, PlainInv
  <2>3. lsn' \in [Sessions -> 0..NumChanges] /\ high' \in [Sessions -> 0..NumChanges]
    <3> DEFINE h == IF m > high[s] THEN m ELSE high[s]
    <3>1. /\ lsn' = [lsn EXCEPT ![s] = m]
          /\ high' = high \/ high' = [high EXCEPT ![s] = h]
      BY <1>10 DEF SendChange, SkipChange
    <3>2. m \in 0..NumChanges /\ h \in 0..NumChanges
      BY <2>1 DEF PlainInv
    <3> HIDE DEF h
    <3> QED
      BY <3>1, <3>2 DEF PlainInv
  <2>4. orderly' \in [Sessions -> BOOLEAN]
    <3> DEFINE b == orderly[s] /\ m > lsn[s]
    <3>1. orderly' = [orderly EXCEPT ![s] = b] /\ b \in BOOLEAN
      BY <1>10 DEF SendChange, SkipChange
    <3> HIDE DEF b
    <3> QED
      BY <3>1 DEF PlainInv
  <2>5. UNCHANGED <<topic, replica, conn, status, faults>>
    BY <1>10 DEF SendChange, SkipChange, envVars
  <2> QED
    BY <2>2, <2>3, <2>4, <2>5 DEF PlainInv
<1>11. ASSUME NEW s \in Sessions, NEW d \in Dumps, Pull(s, d)
       PROVE  PlainInv'
  BY <1>11 DEF Pull, envVars, histVars, PlainInv
<1>12. ASSUME NEW s \in Sessions, NEW calls \in Calls(Valid),
              NEW refusals \in SUBSET DOMAIN calls, Answers(s, calls, refusals)
       PROVE  PlainInv'
  <2>1. faults' \in 0..MaxFaults
    BY <1>12, AnswersFacts
  <2> QED
    BY <1>12, <2>1 DEF Answers, envVars, PlainInv
<1>13. ASSUME NEW s \in Sessions, Consume(s)
       PROVE  PlainInv'
  BY <1>12, <1>13, ConsumeFacts DEF Consume
<1>14. ASSUME NEW s \in Sessions, Flush(s)
       PROVE  PlainInv'
  BY <1>12, <1>14, FlushFacts DEF Flush, ChannelInv
<1> QED
  BY <1>1, <1>2, <1>3, <1>4, <1>5, <1>6, <1>7, <1>8, <1>9, <1>10, <1>11, <1>13, <1>14 DEF Next

-----------------------------------------------------------------------------
(* Channels and stores.                                                     *)

\* Steps that leave the channels and the client alone.
LEMMA ChannelFrame ==
  ASSUME ChannelInv, UNCHANGED <<sending, toClient, toServer, store, handled, superseded>>
  PROVE  ChannelInv'
BY DEF ChannelInv, Answered

\* The loop sends a change, loads a dump and sends its records.
LEMMA ChannelSend ==
  ASSUME PlainInv, PullType, ChannelInv, NEW s \in Sessions,
         \/ \E m \in Changes : SendChange(s, m)
         \/ LoadDump(s) \/ SendRecord(s)
  PROVE  ChannelInv'
<1>1. ASSUME NEW m \in Changes, SendChange(s, m)
      PROVE  ChannelInv'
  <2>1. Message(m) \in Valid
    BY <1>1, ChangeMessage DEF SendChange, PlainInv
  <2>2. Append(toClient[s], Message(m)) \in Seq(Valid)
    BY <2>1 DEF ChannelInv
  <2>3. /\ toClient' = [toClient EXCEPT ![s] = Append(toClient[s], Message(m))]
        /\ UNCHANGED <<sending, toServer, store, handled, superseded>>
    BY <1>1 DEF SendChange
  <2> QED
    BY <2>2, <2>3 DEF ChannelInv, Answered
<1>2. CASE LoadDump(s)
  <2> DEFINE info == Head(pulled[s])
  <2>1. PICK n \in 1..Rows[info.dump] :
          sending' = [sending EXCEPT ![s] =
            [i \in 1..n |-> [stream |-> info.stream, msg |-> Record(s, info.dump, i, n)]]]
    BY <1>2 DEF LoadDump, Record
  <2> DEFINE recs == [i \in 1..n |->
                        [stream |-> info.stream, msg |-> Record(s, info.dump, i, n)]]
  <2>2. info \in DumpInfos
    BY <1>2, TailFacts DEF LoadDump, Loading, PullType
  <2>3. info.dump \in Dumps /\ info.stream \in Nat /\ n \in Nat
    BY <2>2, GatewayAssumption DEF DumpInfos
  <2>4. \A i \in 1..n : recs[i] \in [stream : Nat, msg : Valid]
    BY <2>3, RecordMessage DEF PlainInv
  <2>5. recs = [i \in 1..n |-> recs[i]]
    OBVIOUS
  <2>6. sending' = [sending EXCEPT ![s] = recs]
    BY <2>1
  <2>7. UNCHANGED <<toClient, toServer, store, handled, superseded>>
    BY <1>2 DEF LoadDump, Loading, clientVars, histVars
  <2> HIDE DEF recs
  <2>8. recs \in Seq([stream : Nat, msg : Valid])
    BY <2>3, <2>4, <2>5, SeqOfFunction
  <2> QED
    BY <2>6, <2>7, <2>8 DEF ChannelInv, Answered
<1>3. CASE SendRecord(s)
  <2>1. sending[s] \in Seq([stream : Nat, msg : Valid]) /\ sending[s] # <<>>
    BY <1>3 DEF ChannelInv, SendRecord
  <2>2. /\ Head(sending[s]).msg \in Valid
        /\ Tail(sending[s]) \in Seq([stream : Nat, msg : Valid])
    <3>1. /\ Head(sending[s]) \in [stream : Nat, msg : Valid]
          /\ Tail(sending[s]) \in Seq([stream : Nat, msg : Valid])
      BY <2>1, TailFacts
    <3> QED
      BY <3>1
  <2>3. Append(toClient[s], Head(sending[s]).msg) \in Seq(Valid)
    BY <2>2 DEF ChannelInv
  <2>4. /\ toClient' = [toClient EXCEPT ![s] = Append(toClient[s], Head(sending[s]).msg)]
        /\ sending' = [sending EXCEPT ![s] = Tail(sending[s])]
        /\ UNCHANGED <<toServer, store, handled, superseded>>
    BY <1>3 DEF SendRecord, histVars
  <2> QED
    BY <2>2, <2>3, <2>4 DEF ChannelInv, Answered
<1> QED
  BY <1>1, <1>2, <1>3

\* A session ends.
LEMMA ChannelEnd ==
  ASSUME ChannelInv, NEW s \in Sessions, SendFails(s) \/ Disconnect(s) \/ CleanUp(s)
  PROVE  ChannelInv'
<1>1. /\ sending' = sending \/ sending' = [sending EXCEPT ![s] = <<>>]
      /\ toClient' = toClient \/ toClient' = [toClient EXCEPT ![s] = <<>>]
      /\ toServer' = toServer \/ toServer' = [toServer EXCEPT ![s] = <<>>]
      /\ store' = store \/ store' = [store EXCEPT ![s] = {}]
      /\ UNCHANGED <<handled, superseded>>
  BY DEF SendFails, Disconnect, CleanUp, clientVars, histVars
<1>2. Answered' = Answered
  BY <1>1 DEF Answered
<1>3. /\ sending' \in [Sessions -> Seq([stream : Nat, msg : Valid])]
      /\ toClient' \in [Sessions -> Seq(Valid)]
      /\ toServer' \in [Sessions -> Seq(Answered)]
  <2>1. /\ sending \in [Sessions -> Seq([stream : Nat, msg : Valid])]
        /\ toClient \in [Sessions -> Seq(Valid)]
        /\ toServer \in [Sessions -> Seq(Answered)]
    BY DEF ChannelInv
  <2>2. sending' \in [Sessions -> Seq([stream : Nat, msg : Valid])]
    <3>1. [sending EXCEPT ![s] = <<>>] \in [Sessions -> Seq([stream : Nat, msg : Valid])]
      BY <2>1, EmptiedType
    <3> QED
      BY <1>1, <2>1, <3>1
  <2>3. toClient' \in [Sessions -> Seq(Valid)]
    <3>1. [toClient EXCEPT ![s] = <<>>] \in [Sessions -> Seq(Valid)]
      BY <2>1, EmptiedType
    <3> QED
      BY <1>1, <2>1, <3>1
  <2>4. toServer' \in [Sessions -> Seq(Answered)]
    <3>1. [toServer EXCEPT ![s] = <<>>] \in [Sessions -> Seq(Answered)]
      BY <2>1, EmptiedType
    <3> QED
      BY <1>1, <2>1, <3>1
  <2> QED
    BY <2>2, <2>3, <2>4
<1>4. store' \in [Sessions -> SUBSET Valid]
  BY <1>1 DEF ChannelInv
<1>5. \A r \in Sessions : IsFiniteSet(store'[r]) /\ Keyed(store'[r])
  <2>1. \A r \in Sessions : store'[r] = store[r] \/ store'[r] = {}
    BY <1>1 DEF ChannelInv
  <2>2. IsFiniteSet({}) /\ Keyed({})
    BY FS_EmptySet DEF Keyed
  <2> QED
    BY <2>1, <2>2 DEF ChannelInv
<1> QED
  BY <1>2, <1>3, <1>4, <1>5 DEF ChannelInv, Keyed

\* The acknowledge goroutine takes an answer.
LEMMA ChannelAck ==
  ASSUME ChannelInv, NEW s \in Sessions, AckChange(s) \/ AckRecord(s)
  PROVE  ChannelInv'
<1>1. /\ toServer[s] # <<>> /\ toServer' = [toServer EXCEPT ![s] = Tail(toServer[s])]
      /\ UNCHANGED <<sending, toClient, store, handled, superseded>>
  BY DEF AckChange, AckRecord, histVars
<1>2. Tail(toServer[s]) \in Seq(Answered)
  BY <1>1, TailFacts DEF ChannelInv
<1>3. Answered' = Answered
  BY <1>1 DEF Answered
<1> QED
  BY <1>1, <1>2, <1>3 DEF ChannelInv

\* The client consumes a message, or its timer flushes.
LEMMA ChannelClient ==
  ASSUME PlainInv, ChannelInv, NEW s \in Sessions, Consume(s) \/ Flush(s)
  PROVE  ChannelInv'
<1>1. CASE Consume(s)
  <2> DEFINE b == Bounce(store[s], Head(toClient[s]))
  <2>1. /\ toClient[s] # <<>>
        /\ toClient' = [toClient EXCEPT ![s] = Tail(toClient[s])]
        /\ store' = [store EXCEPT ![s] = b.store]
    BY <1>1 DEF Consume
  <2>2. PICK refusals \in SUBSET DOMAIN b.calls : Answers(s, b.calls, refusals)
    BY <1>1 DEF Consume
  <2>3. /\ b.calls \in Calls(Valid) /\ b.store \in SUBSET Valid
        /\ IsFiniteSet(b.store) /\ Keyed(b.store)
    BY <2>1, ConsumeFacts
  <2> HIDE DEF b
  <2>4. toServer' \in [Sessions -> Seq(Answered')]
    BY <2>2, <2>3, AnswersFacts
  <2>5. Tail(toClient[s]) \in Seq(Valid)
    BY <2>1, TailFacts DEF ChannelInv
  <2>6. toClient' \in [Sessions -> Seq(Valid)] /\ store' \in [Sessions -> SUBSET Valid]
    BY <2>1, <2>3, <2>5 DEF ChannelInv
  <2>7. \A r \in Sessions : IsFiniteSet(store'[r]) /\ Keyed(store'[r])
    BY <2>1, <2>3 DEF ChannelInv
  <2>8. UNCHANGED sending
    BY <2>2 DEF Answers
  <2> QED
    BY <2>4, <2>6, <2>7, <2>8 DEF ChannelInv, Keyed
<1>2. CASE Flush(s)
  <2>1. store' = [store EXCEPT ![s] = {}] /\ UNCHANGED toClient
    BY <1>2 DEF Flush
  <2>2. PICK calls \in Flushes(store[s]) :
          \E refusals \in SUBSET DOMAIN calls : Answers(s, calls, refusals)
    BY <1>2 DEF Flush
  <2>3. calls \in Calls(Valid)
    BY FlushFacts DEF ChannelInv
  <2>4. toServer' \in [Sessions -> Seq(Answered')]
    BY <2>2, <2>3, AnswersFacts
  <2>5. IsFiniteSet({}) /\ Keyed({})
    BY FS_EmptySet DEF Keyed
  <2>6. store' \in [Sessions -> SUBSET Valid]
    BY <2>1 DEF ChannelInv
  <2>7. \A r \in Sessions : IsFiniteSet(store'[r]) /\ Keyed(store'[r])
    BY <2>1, <2>5 DEF ChannelInv
  <2>8. UNCHANGED sending
    BY <2>2 DEF Answers
  <2> QED
    BY <2>1, <2>4, <2>6, <2>7, <2>8 DEF ChannelInv, Keyed
<1> QED
  BY <1>1, <1>2

LEMMA ChannelStep ==
  ASSUME PlainInv, PullType, ChannelInv, [Next]_vars
  PROVE  ChannelInv'
<1>1. CASE \/ UNCHANGED vars \/ Replicate \/ \E m \in Changes : Redeliver(m)
           \/ \E s \in Sessions : \/ Open(s) \/ SkipDump(s) \/ EmptyDump(s)
                                  \/ DumpError(s) \/ PullBreaks(s)
                                  \/ PullCanceled(s)
                                  \/ \E m \in Changes : SkipChange(s, m)
                                  \/ \E d \in Dumps : Pull(s, d)
  <2>1. UNCHANGED <<sending, toClient, toServer, store, handled, superseded>>
    BY <1>1 DEF vars, sessionVars, clientVars, histVars, Replicate, Redeliver, Open, SkipDump,
                EmptyDump, DumpError, Loading, PullBreaks, PullCanceled, SkipChange, Pull
  <2> QED
    BY <2>1, ChannelFrame
<1> QED
  BY <1>1, ChannelSend, ChannelEnd, ChannelAck, ChannelClient DEF Next, LoopStep

-----------------------------------------------------------------------------
(* The watermark.                                                           *)

\* A change is sent or skipped: the watermark is its LSN, and it does not fall as
\* long as the session is orderly.
LEMMA FreshChange ==
  ASSUME PlainInv, FreshInv, NEW s \in Sessions, NEW m \in Changes,
         SendChange(s, m) \/ SkipChange(s, m)
  PROVE  FreshInv'
<1> SUFFICES ASSUME NEW r \in Sessions, orderly'[r]
             PROVE  /\ high'[r] <= lsn'[r]
                    /\ sending'[r] \in Seq([stream : Nat, msg : Fresh])
                    /\ toClient'[r] \in Seq(Fresh)
  BY DEF FreshInv
<1>1. m \in Nat /\ \A q \in Sessions : lsn[q] \in Nat /\ high[q] \in Nat
  BY GatewayAssumption DEF PlainInv, Changes
<1>2. /\ lsn' = [lsn EXCEPT ![s] = m]
      /\ orderly' = [orderly EXCEPT ![s] = orderly[s] /\ m > lsn[s]]
      /\ high' = high \/ high' = [high EXCEPT ![s] = IF m > high[s] THEN m ELSE high[s]]
      /\ UNCHANGED sending
  BY DEF SendChange, SkipChange
<1>3. orderly[r]
  BY <1>2 DEF PlainInv
<1>4. high'[r] <= lsn'[r]
  <2>1. CASE r # s
    BY <2>1, <1>1, <1>2, <1>3 DEF PlainInv, FreshInv
  <2>2. CASE r = s
    <3>1. m > lsn[s] /\ high[s] <= lsn[s]
      BY <2>2, <1>2, <1>3 DEF PlainInv, FreshInv
    <3> QED
      BY <2>2, <3>1, <1>1, <1>2 DEF PlainInv
  <2> QED
    BY <2>1, <2>2
<1>5. toClient'[r] \in Seq(Fresh)
  <2>1. CASE SendChange(s, m)
    <3>1. Message(m) \in Fresh
      BY <2>1, ChangeMessage DEF SendChange, PlainInv
    <3>2. toClient' = [toClient EXCEPT ![s] = Append(toClient[s], Message(m))]
      BY <2>1 DEF SendChange
    <3>3. toClient[r] \in Seq(Fresh)
      BY <1>3 DEF FreshInv
    <3>4. Append(toClient[r], Message(m)) \in Seq(Fresh)
      BY <3>1, <3>3
    <3>5. toClient'[r] = toClient[r] \/ toClient'[r] = Append(toClient[r], Message(m))
      BY <3>2
    <3> QED
      BY <3>3, <3>4, <3>5
  <2>2. CASE SkipChange(s, m)
    BY <2>2, <1>3 DEF SkipChange, clientVars, FreshInv
  <2> QED
    BY <2>1, <2>2
<1> QED
  BY <1>2, <1>3, <1>4, <1>5 DEF FreshInv

\* A dump is loaded only from a replica that has what the session was sent.
LEMMA FreshLoad ==
  ASSUME PlainInv, PullType, FreshInv, NEW s \in Sessions, LoadDump(s)
  PROVE  FreshInv'
<1> SUFFICES ASSUME NEW r \in Sessions, orderly'[r]
             PROVE  /\ high'[r] <= lsn'[r]
                    /\ sending'[r] \in Seq([stream : Nat, msg : Fresh])
                    /\ toClient'[r] \in Seq(Fresh)
  BY DEF FreshInv
<1> DEFINE info == Head(pulled[s])
<1>1. UNCHANGED <<lsn, high, orderly, toClient>>
  BY DEF LoadDump, Loading, clientVars, histVars
<1>2. high[r] <= lsn[r] /\ toClient[r] \in Seq(Fresh)
      /\ sending[r] \in Seq([stream : Nat, msg : Fresh])
  BY <1>1 DEF FreshInv
<1>3. PICK n \in 1..Rows[info.dump] :
        sending' = [sending EXCEPT ![s] =
          [i \in 1..n |-> [stream |-> info.stream, msg |-> Record(s, info.dump, i, n)]]]
  BY DEF LoadDump, Record
<1> DEFINE recs == [i \in 1..n |-> [stream |-> info.stream, msg |-> Record(s, info.dump, i, n)]]
<1>4. sending'[r] = sending[r] \/ (r = s /\ sending'[r] = recs)
  BY <1>3
<1>5. ASSUME r = s
      PROVE  recs \in Seq([stream : Nat, msg : Fresh])
  <2>1. info \in DumpInfos
    BY TailFacts DEF LoadDump, Loading, PullType
  <2>2. info.dump \in Dumps /\ info.stream \in Nat /\ n \in Nat
    BY <2>1, GatewayAssumption DEF DumpInfos
  <2>3. replica >= high[s]
    <3>1. replica >= lsn[s]
      BY DEF LoadDump, Reads, CheckLSN
    <3>2. replica \in Nat /\ lsn[s] \in Nat /\ high[s] \in Nat
      BY GatewayAssumption DEF PlainInv
    <3> QED
      BY <1>2, <1>5, <3>1, <3>2
  <2>4. \A i \in 1..n : Record(s, info.dump, i, n) \in Fresh
    BY <2>2, <2>3, RecordMessage DEF PlainInv
  <2>5. recs = [i \in 1..n |-> recs[i]]
    OBVIOUS
  <2>6. \A i \in 1..n : recs[i] \in [stream : Nat, msg : Fresh]
    BY <2>2, <2>4
  <2> HIDE DEF recs
  <2> QED
    BY <2>2, <2>5, <2>6, SeqOfFunction
<1> HIDE DEF recs
<1> QED
  BY <1>1, <1>2, <1>4, <1>5

\* The other steps send what was loaded, or take messages away.
LEMMA FreshMove ==
  ASSUME ChannelInv, FreshInv, NEW s \in Sessions, UNCHANGED <<lsn, high, orderly>>,
         \/ SendRecord(s)
         \/ /\ sending' = sending \/ sending' = [sending EXCEPT ![s] = <<>>]
            /\ \/ toClient' = toClient
               \/ toClient' = [toClient EXCEPT ![s] = <<>>]
               \/ toClient[s] # <<>> /\ toClient' = [toClient EXCEPT ![s] = Tail(toClient[s])]
  PROVE  FreshInv'
<1> SUFFICES ASSUME NEW r \in Sessions, orderly[r]
             PROVE  /\ sending'[r] \in Seq([stream : Nat, msg : Fresh])
                    /\ toClient'[r] \in Seq(Fresh)
  BY DEF FreshInv
<1>1. sending[r] \in Seq([stream : Nat, msg : Fresh]) /\ toClient[r] \in Seq(Fresh)
  BY DEF FreshInv
<1>2. r \in DOMAIN sending /\ r \in DOMAIN toClient
  BY DEF ChannelInv
<1>3. CASE SendRecord(s)
  <2>1. CASE r = s
    <3>1. /\ sending[s] # <<>> /\ sending'[s] = Tail(sending[s])
          /\ toClient'[s] = Append(toClient[s], Head(sending[s]).msg)
      BY <1>2, <1>3, <2>1 DEF SendRecord
    <3>2. /\ Head(sending[s]) \in [stream : Nat, msg : Fresh]
          /\ Tail(sending[s]) \in Seq([stream : Nat, msg : Fresh])
      BY <1>1, <2>1, <3>1, TailFacts
    <3>3. Head(sending[s]).msg \in Fresh
      BY <3>2
    <3>4. Append(toClient[s], Head(sending[s]).msg) \in Seq(Fresh)
      BY <1>1, <2>1, <3>3
    <3> QED
      BY <2>1, <3>1, <3>2, <3>4
  <2>2. CASE r # s
    BY <1>1, <1>3, <2>2 DEF SendRecord
  <2> QED
    BY <2>1, <2>2
<1>4. CASE ~SendRecord(s)
  <2>1. \A S : <<>> \in Seq(S)
    OBVIOUS
  <2>2. sending'[r] = sending[r] \/ sending'[r] = <<>>
    BY <1>2, <1>4
  <2>3. toClient'[r] = toClient[r] \/ toClient'[r] = <<>>
        \/ (toClient[r] # <<>> /\ toClient'[r] = Tail(toClient[r]))
    BY <1>2, <1>4
  <2>4. toClient[r] # <<>> => Tail(toClient[r]) \in Seq(Fresh)
    BY <1>1, TailFacts
  <2>5. sending'[r] \in Seq([stream : Nat, msg : Fresh])
    BY <1>1, <2>1, <2>2
  <2>6. toClient'[r] \in Seq(Fresh)
    BY <1>1, <2>1, <2>3, <2>4
  <2> QED
    BY <2>5, <2>6
<1> QED
  BY <1>3, <1>4

LEMMA FreshStep ==
  ASSUME PlainInv, PullType, ChannelInv, FreshInv, [Next]_vars
  PROVE  FreshInv'
<1>1. CASE \/ UNCHANGED vars \/ Replicate \/ \E m \in Changes : Redeliver(m)
           \/ \E s \in Sessions : \/ Open(s) \/ SkipDump(s) \/ EmptyDump(s)
                                  \/ DumpError(s) \/ PullBreaks(s)
                                  \/ PullCanceled(s) \/ AckChange(s) \/ AckRecord(s)
                                  \/ \E d \in Dumps : Pull(s, d)
  <2>1. UNCHANGED <<sending, toClient, lsn, high, orderly>>
    BY <1>1 DEF vars, sessionVars, clientVars, histVars, Replicate, Redeliver, Open, SkipDump,
                EmptyDump, DumpError, Loading, PullBreaks, PullCanceled, AckChange, AckRecord, Pull
  <2> QED
    BY <2>1 DEF FreshInv, Fresh
<1>2. ASSUME NEW s \in Sessions, SendFails(s) \/ Disconnect(s) \/ CleanUp(s)
      PROVE  FreshInv'
  <2>1. /\ sending' = sending \/ sending' = [sending EXCEPT ![s] = <<>>]
        /\ toClient' = toClient \/ toClient' = [toClient EXCEPT ![s] = <<>>]
        /\ UNCHANGED <<lsn, high, orderly>>
    BY <1>2 DEF SendFails, Disconnect, CleanUp, clientVars, histVars
  <2> QED
    BY <2>1, FreshMove
<1>3. ASSUME NEW s \in Sessions, Consume(s) \/ Flush(s)
      PROVE  FreshInv'
  <2>1. /\ UNCHANGED <<sending, lsn, high, orderly>>
        /\ \/ toClient' = toClient
           \/ toClient[s] # <<>> /\ toClient' = [toClient EXCEPT ![s] = Tail(toClient[s])]
    BY <1>3 DEF Consume, Flush, Answers
  <2> QED
    BY <2>1, FreshMove
<1>4. ASSUME NEW s \in Sessions, SendRecord(s)
      PROVE  FreshInv'
  <2>1. UNCHANGED <<lsn, high, orderly>>
    BY <1>4 DEF SendRecord, histVars
  <2> QED
    BY <1>4, <2>1, FreshMove
<1> QED
  BY <1>1, <1>2, <1>3, <1>4, FreshChange, FreshLoad DEF Next, LoopStep

-----------------------------------------------------------------------------
(* What the controller and the sessions hold.                               *)

\* The elements of a queue that grows, shrinks or is emptied.
LEMMA ToSetFacts ==
  ASSUME NEW S, NEW q \in Seq(S)
  PROVE  /\ ToSet(q) \subseteq S
         /\ \A e \in S : ToSet(Append(q, e)) = ToSet(q) \cup {e}
         /\ q # <<>> => Head(q) \in ToSet(q) /\ ToSet(Tail(q)) \subseteq ToSet(q)
         /\ ToSet(<<>>) = {}
<1>1. ToSet(q) \subseteq S
  BY SeqFacts DEF ToSet
<1>2. \A e \in S : ToSet(Append(q, e)) = ToSet(q) \cup {e}
  BY AppendFacts DEF ToSet
<1>3. q # <<>> => Head(q) \in ToSet(q) /\ ToSet(Tail(q)) \subseteq ToSet(q)
  BY TailFacts DEF ToSet
<1>4. ToSet(<<>>) = {}
  BY DEF ToSet
<1> QED
  BY <1>1, <1>2, <1>3, <1>4

\* What an answer changes: the dump the session was handed on that stream.
LEMMA AnswerFacts ==
  ASSUME PullType, NEW s \in Sessions, NEW on, NEW requeue \in BOOLEAN, Answer(s, on, requeue)
  PROVE  /\ controller' \in [Dumps -> [at : Sessions \cup {"waiting", "done"}, stream : Nat]]
         /\ \A d \in Dumps : \/ controller'[d] = controller[d]
                             \/ /\ controller[d] = Client(s) /\ on = stream[s]
                                /\ controller'[d].at = IF requeue THEN "waiting" ELSE "done"
<1> DEFINE new == [at |-> IF requeue THEN "waiting" ELSE "done", stream |-> 0]
<1>1. new \in [at : Sessions \cup {"waiting", "done"}, stream : Nat]
  OBVIOUS
<1>2. new.at = IF requeue THEN "waiting" ELSE "done"
  OBVIOUS
<1>3. controller' = [d \in Dumps |-> IF controller[d] = Client(s) /\ on = stream[s]
                                     THEN new ELSE controller[d]]
  BY DEF Answer
<1> HIDE DEF new
<1> QED
  BY <1>1, <1>2, <1>3 DEF PullType

\* Steps that hand out nothing: nobody holds more, and no live session loses what
\* it keeps of its current stream.
LEMMA HandedShrink ==
  ASSUME HandedInv, UNCHANGED stream,
         \A r \in Sessions : Held(r)' \subseteq Held(r) /\ (Live(r)' => Live(r)),
         \A r \in Sessions : \A d \in Dumps : controller'[d] = Client(r) => controller[d] = Client(r),
         \A r \in Sessions : \A o \in Held(r)' :
            Live(r)' /\ o.stream = stream[r] /\ controller[o.dump] = Client(r) =>
              controller'[o.dump] = Client(r)
  PROVE  HandedInv'
<1>1. \A r \in Sessions : Client(r)' = Client(r)
  BY DEF Client
<1> QED
  BY <1>1 DEF HandedInv, Matches

\* The loop takes a dump from the puller.
LEMMA HeadFacts ==
  ASSUME PullType, NEW s \in Sessions, pulled[s] # <<>>
  PROVE  /\ Head(pulled[s]) \in DumpInfos /\ Head(pulled[s]) = pulled[s][1]
         /\ 1 \in DOMAIN pulled[s]
         /\ Head(pulled[s]).dump \in Dumps /\ Head(pulled[s]).stream \in Nat
         /\ Head(pulled[s]) \in Held(s)
         /\ [pulled EXCEPT ![s] = Tail(@)] \in [Sessions -> Seq(DumpInfos)]
         /\ ToSet(Tail(pulled[s])) \subseteq ToSet(pulled[s])
<1>1. pulled[s] \in Seq(DumpInfos)
  BY DEF PullType
<1>2. /\ Head(pulled[s]) \in DumpInfos /\ Head(pulled[s]) = pulled[s][1]
      /\ 1 \in DOMAIN pulled[s] /\ Tail(pulled[s]) \in Seq(DumpInfos)
  BY <1>1, TailFacts
<1>3. Head(pulled[s]).dump \in Dumps /\ Head(pulled[s]).stream \in Nat
  BY <1>2 DEF DumpInfos
<1>4. [pulled EXCEPT ![s] = Tail(pulled[s])] \in [Sessions -> Seq(DumpInfos)]
  BY <1>2, ExceptType DEF PullType
<1>5. Head(pulled[s]) \in Held(s) /\ ToSet(Tail(pulled[s])) \subseteq ToSet(pulled[s])
  BY <1>1, ToSetFacts DEF Held
<1> QED
  BY <1>2, <1>3, <1>4, <1>5

LEMMA PullTypeStep ==
  ASSUME PullType, ChannelInv, [Next]_vars
  PROVE  PullType'
<1>1. CASE \/ UNCHANGED vars \/ Replicate \/ \E m \in Changes : Redeliver(m)
           \/ \E s \in Sessions : \/ Open(s) \/ SendRecord(s) \/ Disconnect(s) \/ AckChange(s)
                                  \/ Consume(s) \/ Flush(s)
                                  \/ \E m \in Changes : SendChange(s, m) \/ SkipChange(s, m)
  <2>1. UNCHANGED <<controller, stream, pulled, ongoing>>
    BY <1>1 DEF vars, sessionVars, Replicate, Redeliver, Open, SendRecord, Disconnect,
                AckChange, Consume, Flush, Answers, SendChange, SkipChange
  <2> QED
    BY <2>1 DEF PullType
<1>2. ASSUME NEW s \in Sessions, NEW d \in Dumps, Pull(s, d)
      PROVE  PullType'
  <2> DEFINE info == [dump |-> d, stream |-> stream[s]]
  <2>1. /\ controller' = [controller EXCEPT ![d] = Client(s)]
        /\ pulled' = [pulled EXCEPT ![s] = Append(pulled[s], info)]
        /\ UNCHANGED <<stream, ongoing>>
    BY <1>2 DEF Pull
  <2>2. info \in DumpInfos /\ Client(s) \in [at : Sessions \cup {"waiting", "done"}, stream : Nat]
    BY DEF DumpInfos, Client, PullType
  <2>3. Append(pulled[s], info) \in Seq(DumpInfos)
    BY <2>2 DEF PullType
  <2> HIDE DEF info
  <2> QED
    BY <2>1, <2>2, <2>3, ExceptType DEF PullType
<1>3. ASSUME NEW s \in Sessions, SkipDump(s) \/ EmptyDump(s) \/ DumpError(s)
      PROVE  PullType'
  <2>1. /\ pulled[s] # <<>> /\ pulled' = [pulled EXCEPT ![s] = Tail(@)]
        /\ UNCHANGED <<stream, ongoing>>
        /\ \E requeue \in BOOLEAN : Answer(s, Head(pulled[s]).stream, requeue)
    BY <1>3 DEF SkipDump, EmptyDump, DumpError, Loading
  <2> QED
    BY <2>1, HeadFacts, AnswerFacts DEF PullType
<1>4. ASSUME NEW s \in Sessions, LoadDump(s)
      PROVE  PullType'
  <2> DEFINE info == Head(pulled[s])
             kept == {o \in ongoing[s] : o.dump # info.dump} \cup {info}
  <2>1. /\ pulled[s] # <<>> /\ pulled' = [pulled EXCEPT ![s] = Tail(@)]
        /\ ongoing' = [ongoing EXCEPT ![s] = kept] /\ UNCHANGED <<controller, stream>>
    BY <1>4 DEF LoadDump, Loading
  <2>2. kept \in SUBSET DumpInfos
    BY <2>1, HeadFacts DEF PullType
  <2> HIDE DEF kept
  <2> QED
    BY <2>1, <2>2, HeadFacts DEF PullType
<1>5. ASSUME NEW s \in Sessions, SendFails(s)
      PROVE  PullType'
  <2>1. /\ UNCHANGED <<stream, pulled, ongoing>>
        /\ UNCHANGED controller \/ Answer(s, Head(sending[s]).stream, TRUE)
    BY <1>5 DEF SendFails
  <2> QED
    BY <2>1, AnswerFacts DEF PullType
<1>6. ASSUME NEW s \in Sessions, CleanUp(s)
      PROVE  PullType'
  <2>1. /\ pulled' = [pulled EXCEPT ![s] = <<>>] /\ ongoing' = [ongoing EXCEPT ![s] = {}]
        /\ UNCHANGED <<controller, stream>>
    BY <1>6 DEF CleanUp
  <2>2. pulled' \in [Sessions -> Seq(DumpInfos)]
    BY <2>1, EmptiedType DEF PullType
  <2>3. ongoing' \in [Sessions -> SUBSET DumpInfos]
    BY <2>1 DEF PullType
  <2> QED
    BY <2>1, <2>2, <2>3 DEF PullType
<1>7. ASSUME NEW s \in Sessions, PullBreaks(s)
      PROVE  PullType'
  <2>1. /\ stream' = [stream EXCEPT ![s] = stream[s] + 1]
        /\ UNCHANGED <<controller, pulled, ongoing>>
    BY <1>7 DEF PullBreaks
  <2>2. stream[s] + 1 \in Nat \ {0}
    BY DEF PullType
  <2> QED
    BY <2>1, <2>2, ExceptType DEF PullType
<1>8. ASSUME NEW s \in Sessions, PullCanceled(s)
      PROVE  PullType'
  <2>1. PICK d \in Dumps : controller' = [controller EXCEPT ![d] = [at |-> "waiting", stream |-> 0]]
    BY <1>8 DEF PullCanceled
  <2>2. [at |-> "waiting", stream |-> 0] \in [at : Sessions \cup {"waiting", "done"}, stream : Nat]
    OBVIOUS
  <2>3. UNCHANGED <<stream, pulled, ongoing>>
    BY <1>8 DEF PullCanceled, sessionVars
  <2> QED
    BY <2>1, <2>2, <2>3, ExceptType DEF PullType
<1>9. ASSUME NEW s \in Sessions, AckRecord(s)
      PROVE  PullType'
  <2> DEFINE ack == Head(toServer[s])
             kept == {o \in ongoing[s] : o.dump # ack.msg.dump}
  <2>1. ack.requeue \in BOOLEAN
    <3>1. ack \in Answered
      BY <1>9, TailFacts DEF AckRecord, ChannelInv
    <3> QED
      BY <3>1 DEF Answered
  <2>2. /\ \/ UNCHANGED controller \/ \E o \in ongoing[s] : Answer(s, o.stream, ack.requeue)
        /\ \/ UNCHANGED ongoing \/ ongoing' = [ongoing EXCEPT ![s] = kept]
        /\ UNCHANGED <<stream, pulled>>
    BY <1>9 DEF AckRecord, Forget
  <2>3. kept \in SUBSET DumpInfos
    BY DEF PullType
  <2>4. controller' \in [Dumps -> [at : Sessions \cup {"waiting", "done"}, stream : Nat]]
    BY <2>1, <2>2, AnswerFacts DEF PullType
  <2> HIDE DEF kept
  <2>5. ongoing' \in [Sessions -> SUBSET DumpInfos]
    BY <2>2, <2>3 DEF PullType
  <2> QED
    BY <2>2, <2>4, <2>5 DEF PullType
<1> QED
  BY <1>1, <1>2, <1>3, <1>4, <1>5, <1>6, <1>7, <1>8, <1>9 DEF Next, LoopStep

\* Steps that leave the queue, dumpMap, the streams and the controller alone.
LEMMA PullFrame ==
  ASSUME PullType, PullInv, UNCHANGED <<controller, stream, pulled, ongoing>>,
         \A r \in Sessions : Live(r)' => Live(r)
  PROVE  PullInv'
<1>1. \A r \in Sessions : Held(r)' = Held(r) /\ Client(r)' = Client(r)
  BY DEF Held, Client
<1>2. StreamInv' /\ ApartInv'
  BY <1>1 DEF PullInv, StreamInv, ApartInv
<1>3. HandedInv'
  BY <1>1, HandedShrink DEF PullInv
<1> QED
  BY <1>2, <1>3 DEF PullInv

\* A client is a session and its stream.
LEMMA ClientFacts ==
  ASSUME NEW s \in Sessions, NEW r \in Sessions
  PROVE  /\ Client(s) = Client(r) => s = r
         /\ Client(s).at = s /\ Client(s).stream = stream[s]
         /\ Client(s).at \notin {"waiting", "done"}
<1>1. Client(s).at = s /\ Client(s).stream = stream[s] /\ Client(r).at = r
  BY DEF Client
<1> QED
  BY <1>1, GatewayAssumption

\* The puller's stream breaks: what the session holds is of an earlier stream.
LEMMA PullBreaksStep ==
  ASSUME PullType, PullInv, NEW s \in Sessions, PullBreaks(s)
  PROVE  PullInv'
<1>1. /\ stream' = [stream EXCEPT ![s] = stream[s] + 1]
      /\ UNCHANGED <<controller, pulled, ongoing, status>>
  BY DEF PullBreaks
<1>2. \A r \in Sessions : Held(r)' = Held(r) /\ Held(r) \subseteq DumpInfos /\ Live(r)' = Live(r)
  <2>1. \A r \in Sessions : ToSet(pulled[r]) \subseteq DumpInfos
    BY ToSetFacts DEF PullType
  <2> QED
    BY <1>1, <2>1 DEF Held, Live, PullType
<1>3. \A r \in Sessions : stream[r] \in Nat /\ stream'[r] >= stream[r]
                          /\ stream'[r] = IF r = s THEN stream[r] + 1 ELSE stream[r]
  BY <1>1 DEF PullType
<1>4. \A r \in Sessions : \A o \in Held(r) : o.stream \in Nat
  BY <1>2 DEF DumpInfos
<1>5. \A d \in Dumps : controller[d].stream \in Nat
  BY DEF PullType
<1>6. StreamInv'
  BY <1>1, <1>2, <1>3, <1>4, <1>5 DEF PullInv, StreamInv
<1>7. ApartInv'
  BY <1>1 DEF PullInv, ApartInv
<1>8. ASSUME NEW r \in Sessions, r # s
      PROVE  Client(r)' = Client(r) /\ \A o \in Held(r) : Matches(r, o) => Matches(r, o)'
  BY <1>1, <1>2, <1>3, <1>8 DEF Client, Matches
<1>9. \A o \in Held(s) : o.stream # stream'[s]
  BY <1>3, <1>4 DEF PullInv, StreamInv
<1>10. \A d \in Dumps : controller[d] # Client(s)'
  <2>1. Client(s)'.at = s /\ Client(s)'.stream = stream[s] + 1
    BY <1>3 DEF Client
  <2> QED
    BY <1>3, <1>5, <2>1 DEF PullInv, StreamInv
<1>11. HandedInv'
  BY <1>1, <1>2, <1>8, <1>9, <1>10 DEF PullInv, HandedInv, Matches
<1> QED
  BY <1>6, <1>7, <1>11 DEF PullInv

\* A dump is handed to a session that holds nothing of its current stream.
LEMMA PullStep ==
  ASSUME PullType, PullInv, NEW s \in Sessions, NEW d \in Dumps, Pull(s, d)
  PROVE  PullInv'
<1> DEFINE info == [dump |-> d, stream |-> stream[s]]
<1>1. /\ status[s] = "open" /\ controller[d].at = "waiting"
      /\ \A e \in Dumps : controller[e] # Client(s)
      /\ controller' = [controller EXCEPT ![d] = Client(s)]
      /\ pulled' = [pulled EXCEPT ![s] = Append(pulled[s], info)]
      /\ UNCHANGED <<stream, ongoing, status>>
  BY DEF Pull
<1>2. info \in DumpInfos /\ info.dump = d /\ info.stream = stream[s]
  BY DEF DumpInfos, PullType
<1> HIDE DEF info
<1>3. \A r \in Sessions : Client(r)' = Client(r) /\ Live(r)' = Live(r)
  BY <1>1 DEF Client, Live
<1>4. \A r \in Sessions : pulled[r] \in Seq(DumpInfos) /\ ToSet(pulled[r]) \subseteq DumpInfos
  BY ToSetFacts DEF PullType
<1>5. \A r \in Sessions : Held(r)' = IF r = s THEN Held(r) \cup {info} ELSE Held(r)
  BY <1>1, <1>2, <1>4, ToSetFacts DEF Held, PullType
<1>6. \A o \in Held(s) : o \in DumpInfos /\ o.stream < stream[s]
  <2>1. \A o \in Held(s) : o \in DumpInfos
    BY <1>4 DEF Held, PullType
  <2>2. \A o \in Held(s) : o.stream # stream[s]
    BY <1>1, <2>1 DEF PullInv, HandedInv, Matches, Live, DumpInfos
  <2> QED
    BY <2>1, <2>2 DEF PullInv, StreamInv, DumpInfos, PullType
<1>7. \A r \in Sessions : \A e \in Dumps : controller'[e] = Client(r) =>
         \/ controller[e] = Client(r)
         \/ r = s /\ e = d
  BY <1>1, ClientFacts DEF PullType
<1>8. StreamInv'
  <2>1. \A r \in Sessions : \A o \in Held(r)' : o.stream <= stream[r]
    <3>1. stream[s] <= stream[s]
      BY DEF PullType
    <3> QED
      BY <1>2, <1>5, <3>1 DEF PullInv, StreamInv
  <2>2. \A r \in Sessions : \A e \in Dumps : controller'[e].at = r => controller'[e].stream <= stream[r]
    BY <1>1, ClientFacts DEF PullInv, StreamInv, PullType
  <2> QED
    BY <1>1, <2>1, <2>2 DEF StreamInv
<1>9. HandedInv'
  <2>1. ASSUME NEW r \in Sessions, NEW o \in Held(r)'
        PROVE  Matches(r, o)'
    <3>1. CASE r = s
      <4>1. CASE o = info
        <5>1. controller'[d] = Client(s) /\ \A e \in Dumps : controller'[e] = Client(s) => e = d
          BY <1>1, <1>7 DEF PullType
        <5> QED
          BY <1>1, <1>2, <1>3, <3>1, <4>1, <5>1 DEF Matches
      <4>2. CASE o \in Held(s)
        <5>1. o.stream # stream[s]
          BY <1>6, <4>2 DEF DumpInfos, PullType
        <5> QED
          BY <1>1, <3>1, <5>1 DEF Matches
      <4> QED
        BY <1>5, <2>1, <3>1, <4>1, <4>2
    <3>2. CASE r # s
      <4>1. o \in Held(r) /\ Matches(r, o)
        BY <1>5, <2>1, <3>2 DEF PullInv, HandedInv
      <4>2. controller[o.dump] = Client(r) => controller'[o.dump] = controller[o.dump]
        BY <1>1, <3>2, ClientFacts DEF PullType
      <4> QED
        BY <1>1, <1>3, <1>7, <3>2, <4>1, <4>2 DEF Matches
    <3> QED
      BY <3>1, <3>2
  <2>2. \A r \in Sessions : \A e, f \in Dumps :
          controller'[e] = Client(r) /\ controller'[f] = Client(r) => e = f
    BY <1>1, <1>7 DEF PullInv, HandedInv
  <2> QED
    BY <1>3, <2>1, <2>2 DEF HandedInv
<1>10. ApartInv'
  <2>1. ASSUME NEW r \in Sessions, NEW i \in DOMAIN pulled'[r], NEW j \in DOMAIN pulled'[r], i < j
        PROVE  pulled'[r][i].stream < pulled'[r][j].stream
    <3>1. CASE r = s
      <4>1. pulled'[s] = Append(pulled[s], info) /\ pulled[s] \in Seq(DumpInfos)
        BY <1>1, <1>4 DEF PullType
      <4>2. \A k \in DOMAIN pulled[s] : pulled[s][k] \in Held(s)
        BY DEF Held, ToSet
      <4>3. CASE j \in DOMAIN pulled[s]
        <5>1. i \in DOMAIN pulled[s]
          BY <1>2, <2>1, <3>1, <4>1, <4>3, AppendFacts, SeqFacts
        <5> QED
          BY <1>2, <2>1, <3>1, <4>1, <4>3, <5>1, AppendFacts DEF PullInv, ApartInv
      <4>4. CASE j \notin DOMAIN pulled[s]
        <5>1. j = Len(pulled[s]) + 1 /\ pulled'[s][j] = info
          BY <1>2, <2>1, <3>1, <4>1, <4>4, AppendFacts
        <5>2. i \in DOMAIN pulled[s]
          BY <1>2, <2>1, <3>1, <4>1, <5>1, AppendFacts, SeqFacts
        <5>3. pulled'[s][i] = pulled[s][i]
          BY <1>2, <4>1, <5>2, AppendFacts
        <5> QED
          BY <1>2, <1>6, <3>1, <4>2, <5>1, <5>2, <5>3
      <4> QED
        BY <4>3, <4>4
    <3>2. CASE r # s
      BY <1>1, <2>1, <3>2 DEF PullInv, ApartInv, PullType
    <3> QED
      BY <3>1, <3>2
  <2>2. ASSUME NEW r \in Sessions, NEW i \in DOMAIN pulled'[r], NEW o \in ongoing[r]
        PROVE  pulled'[r][i].stream # o.stream
    <3>1. CASE r = s
      <4>1. pulled'[s] = Append(pulled[s], info) /\ pulled[s] \in Seq(DumpInfos)
        BY <1>1, <1>4 DEF PullType
      <4>2. o \in Held(s)
        BY <2>2, <3>1 DEF Held
      <4>3. CASE i \in DOMAIN pulled[s]
        BY <1>2, <2>2, <3>1, <4>1, <4>3, AppendFacts DEF PullInv, ApartInv
      <4>4. CASE i \notin DOMAIN pulled[s]
        <5>1. pulled'[s][i] = info
          BY <1>2, <2>2, <3>1, <4>1, <4>4, AppendFacts
        <5>2. o.stream < stream[s] /\ o.stream \in Nat /\ stream[s] \in Nat
          BY <1>6, <4>2 DEF DumpInfos, PullType
        <5> QED
          BY <1>2, <3>1, <5>1, <5>2
      <4> QED
        BY <4>3, <4>4
    <3>2. CASE r # s
      BY <1>1, <2>2, <3>2 DEF PullInv, ApartInv, PullType
    <3> QED
      BY <3>1, <3>2
  <2> QED
    BY <1>1, <2>1, <2>2 DEF ApartInv
<1> QED
  BY <1>8, <1>9, <1>10 DEF PullInv

\* The queue without its head: in order, and of later streams than the head.
LEMMA TakeFacts ==
  ASSUME PullType, PullInv, NEW s \in Sessions, pulled[s] # <<>>,
         pulled' = [pulled EXCEPT ![s] = Tail(@)]
  PROVE  /\ \A r \in Sessions : \A i \in DOMAIN pulled'[r] :
              \E k \in DOMAIN pulled[r] : pulled'[r][i] = pulled[r][k]
         /\ \A r \in Sessions : \A i, j \in DOMAIN pulled'[r] : i < j =>
              pulled'[r][i].stream < pulled'[r][j].stream
         /\ \A i \in DOMAIN pulled'[s] : Head(pulled[s]).stream < pulled'[s][i].stream
         /\ \A r \in Sessions : ToSet(pulled'[r]) \subseteq ToSet(pulled[r])
<1>1. pulled'[s] = Tail(pulled[s]) /\ \A r \in Sessions \ {s} : pulled'[r] = pulled[r]
  BY DEF PullType
<1>2. /\ pulled[s] \in Seq(DumpInfos) /\ Head(pulled[s]) = pulled[s][1] /\ 1 \in DOMAIN pulled[s]
      /\ \A i \in DOMAIN Tail(pulled[s]) :
           i \in Nat /\ i + 1 \in DOMAIN pulled[s] /\ Tail(pulled[s])[i] = pulled[s][i + 1] /\ i >= 1
  <2>1. pulled[s] \in Seq(DumpInfos)
    BY DEF PullType
  <2>2. Tail(pulled[s]) \in Seq(DumpInfos)
    BY <2>1, TailFacts
  <2>3. \A i \in DOMAIN Tail(pulled[s]) : i \in Nat /\ i >= 1
    BY <2>2, SeqFacts
  <2> QED
    BY <2>1, <2>3, TailFacts
<1>3. \A r \in Sessions : \A i \in DOMAIN pulled'[r] :
        \E k \in DOMAIN pulled[r] : pulled'[r][i] = pulled[r][k]
  BY <1>1, <1>2
<1>4. ASSUME NEW r \in Sessions, NEW i \in DOMAIN pulled'[r], NEW j \in DOMAIN pulled'[r], i < j
      PROVE  pulled'[r][i].stream < pulled'[r][j].stream
  <2>1. CASE r = s
    <3>1. i + 1 < j + 1
      BY <1>1, <1>2, <1>4, <2>1
    <3> QED
      BY <1>1, <1>2, <1>4, <2>1, <3>1 DEF PullInv, ApartInv
  <2>2. CASE r # s
    BY <1>1, <1>4, <2>2 DEF PullInv, ApartInv
  <2> QED
    BY <2>1, <2>2
<1>5. ASSUME NEW i \in DOMAIN pulled'[s]
      PROVE  Head(pulled[s]).stream < pulled'[s][i].stream
  <2>1. 1 < i + 1
    BY <1>1, <1>2
  <2> QED
    BY <1>1, <1>2, <2>1 DEF PullInv, ApartInv
<1>6. \A r \in Sessions : ToSet(pulled'[r]) \subseteq ToSet(pulled[r])
  BY <1>3 DEF ToSet
<1> QED
  BY <1>3, <1>4, <1>5, <1>6

\* The loop answers for a dump it takes from the puller.
LEMMA SkipStep ==
  ASSUME PullType, PullInv, NEW s \in Sessions, SkipDump(s) \/ EmptyDump(s) \/ DumpError(s)
  PROVE  PullInv'
<1> DEFINE info == Head(pulled[s])
<1>1. /\ pulled[s] # <<>> /\ pulled' = [pulled EXCEPT ![s] = Tail(@)]
      /\ UNCHANGED <<stream, ongoing, status>>
  BY DEF SkipDump, EmptyDump, DumpError, Loading
<1>2. PICK requeue \in BOOLEAN : Answer(s, info.stream, requeue)
  BY DEF SkipDump, EmptyDump, DumpError, Loading
<1>3. /\ controller' \in [Dumps -> [at : Sessions \cup {"waiting", "done"}, stream : Nat]]
      /\ \A d \in Dumps : \/ controller'[d] = controller[d]
                          \/ /\ controller[d] = Client(s) /\ info.stream = stream[s]
                             /\ controller'[d].at \in {"waiting", "done"}
  BY <1>2, AnswerFacts
<1>4. /\ \A r \in Sessions : ToSet(pulled'[r]) \subseteq ToSet(pulled[r])
      /\ \A i \in DOMAIN pulled'[s] : info.stream < pulled'[s][i].stream
      /\ info = pulled[s][1] /\ 1 \in DOMAIN pulled[s] /\ info \in DumpInfos
  BY <1>1, TakeFacts, HeadFacts
<1> HIDE DEF info
<1>5. \A r \in Sessions : Held(r)' \subseteq Held(r) /\ Live(r)' = Live(r) /\ Client(r)' = Client(r)
  BY <1>1, <1>4 DEF Held, Live, Client
<1>6. ApartInv'
  <2>1. \A r \in Sessions : \A i \in DOMAIN pulled'[r] : \A o \in ongoing[r] :
          pulled'[r][i].stream # o.stream
    <3>1. \A r \in Sessions : \A i \in DOMAIN pulled'[r] :
            \E k \in DOMAIN pulled[r] : pulled'[r][i] = pulled[r][k]
      BY <1>1, TakeFacts
    <3> QED
      BY <3>1 DEF PullInv, ApartInv
  <2> QED
    BY <1>1, <2>1, TakeFacts DEF ApartInv
<1>7. StreamInv'
  <2>1. Sessions \cap {"waiting", "done"} = {}
    BY GatewayAssumption
  <2>2. \A r \in Sessions : \A d \in Dumps : controller'[d].at = r =>
          controller'[d].stream <= stream[r]
    BY <1>3, <2>1 DEF PullInv, StreamInv
  <2> QED
    BY <1>1, <1>5, <2>2 DEF PullInv, StreamInv
<1>8. \A r \in Sessions : \A d \in Dumps : controller'[d] = Client(r) => controller[d] = Client(r)
  BY <1>3, ClientFacts
<1>9. ASSUME NEW r \in Sessions, NEW o \in Held(r)', o.stream = stream[r],
             controller[o.dump] = Client(r)
      PROVE  controller'[o.dump] = Client(r)
  <2>1. o \in Held(r) /\ o.dump \in Dumps
    <3>1. ToSet(pulled[r]) \subseteq DumpInfos
      BY ToSetFacts DEF PullType
    <3> QED
      BY <1>5, <1>9, <3>1 DEF Held, PullType, DumpInfos
  <2>2. SUFFICES ASSUME controller'[o.dump] # controller[o.dump]
                 PROVE  FALSE
    BY <1>9
  <2>3. r = s /\ info.stream = stream[s]
    BY <1>3, <1>9, <2>1, <2>2, ClientFacts
  <2>4. CASE o \in ongoing[s]
    BY <1>4, <1>9, <2>3, <2>4 DEF PullInv, ApartInv
  <2>5. CASE o \in ToSet(pulled'[s])
    <3>1. PICK i \in DOMAIN pulled'[s] : o = pulled'[s][i]
      BY <2>5 DEF ToSet
    <3> QED
      BY <1>4, <1>9, <2>3, <3>1 DEF DumpInfos
  <2> QED
    BY <1>1, <1>9, <2>3, <2>4, <2>5 DEF Held
<1>10. HandedInv'
  BY <1>1, <1>5, <1>8, <1>9, HandedShrink DEF PullInv
<1> QED
  BY <1>6, <1>7, <1>10 DEF PullInv

\* A dump goes from the puller's queue to dumpMap.
LEMMA LoadStep ==
  ASSUME PullType, PullInv, NEW s \in Sessions, LoadDump(s)
  PROVE  PullInv'
<1> DEFINE info == Head(pulled[s])
<1>1. /\ pulled[s] # <<>> /\ pulled' = [pulled EXCEPT ![s] = Tail(@)]
      /\ ongoing' = [ongoing EXCEPT ![s] = {o \in ongoing[s] : o.dump # info.dump} \cup {info}]
      /\ UNCHANGED <<controller, stream, status>>
  BY DEF LoadDump, Loading
<1>2. /\ \A r \in Sessions : ToSet(pulled'[r]) \subseteq ToSet(pulled[r])
      /\ \A i \in DOMAIN pulled'[s] : info.stream < pulled'[s][i].stream
      /\ info \in Held(s) /\ info \in DumpInfos
  BY <1>1, TakeFacts, HeadFacts
<1> HIDE DEF info
<1>3. \A r \in Sessions : \A o \in ongoing'[r] : o \in ongoing[r] \/ (r = s /\ o = info)
  BY <1>1 DEF PullType
<1>4. \A r \in Sessions : Held(r)' \subseteq Held(r) /\ Live(r)' = Live(r) /\ Client(r)' = Client(r)
  BY <1>1, <1>2, <1>3 DEF Held, Live, Client
<1>5. StreamInv'
  BY <1>1, <1>4 DEF PullInv, StreamInv
<1>6. HandedInv'
  BY <1>1, <1>4, HandedShrink DEF PullInv
<1>7. ApartInv'
  <2>1. ASSUME NEW r \in Sessions, NEW i \in DOMAIN pulled'[r], NEW o \in ongoing'[r]
        PROVE  pulled'[r][i].stream # o.stream
    <3>1. CASE o \in ongoing[r]
      BY <1>1, <2>1, <3>1, TakeFacts DEF PullInv, ApartInv
    <3>2. CASE r = s /\ o = info
      <4>1. pulled'[s][i].stream \in Nat
        <5>1. pulled'[s][i] \in ToSet(pulled'[s])
          BY <2>1, <3>2 DEF ToSet
        <5>2. ToSet(pulled[s]) \subseteq DumpInfos
          BY ToSetFacts DEF PullType
        <5> QED
          BY <1>2, <5>1, <5>2 DEF DumpInfos
      <4> QED
        BY <1>2, <2>1, <3>2, <4>1 DEF DumpInfos
    <3> QED
      BY <1>3, <2>1, <3>1, <3>2
  <2> QED
    BY <1>1, <2>1, TakeFacts DEF ApartInv
<1> QED
  BY <1>5, <1>6, <1>7 DEF PullInv

\* Steps that take dumps from sessions: the controller notices the end of a
\* stream, a failing Send, the end of a session, an answer to a record.
LEMMA ReleaseStep ==
  ASSUME PullType, PullInv, UNCHANGED <<stream, pulled>>,
         controller' \in [Dumps -> [at : Sessions \cup {"waiting", "done"}, stream : Nat]],
         \A d \in Dumps : controller'[d] = controller[d] \/ controller'[d].at \in {"waiting", "done"},
         \A r \in Sessions : ongoing'[r] \subseteq ongoing[r] /\ (Live(r)' => Live(r)),
         \A r \in Sessions : \A o \in ToSet(pulled[r]) \cup ongoing'[r] :
            Live(r)' /\ o.stream = stream[r] /\ controller[o.dump] = Client(r) =>
              controller'[o.dump] = controller[o.dump]
  PROVE  PullInv'
<1>1. \A r \in Sessions : /\ Held(r)' = ToSet(pulled[r]) \cup ongoing'[r]
                          /\ Held(r)' \subseteq Held(r)
  BY DEF Held
<1>2. ApartInv'
  BY DEF PullInv, ApartInv
<1>3. StreamInv'
  <2>1. Sessions \cap {"waiting", "done"} = {}
    BY GatewayAssumption
  <2>2. \A r \in Sessions : \A d \in Dumps : controller'[d].at = r =>
          controller'[d].stream <= stream[r]
    BY <2>1 DEF PullInv, StreamInv
  <2> QED
    BY <1>1, <2>2 DEF PullInv, StreamInv
<1>4. \A r \in Sessions : \A d \in Dumps : controller'[d] = Client(r) => controller[d] = Client(r)
  BY ClientFacts
<1>5. HandedInv'
  BY <1>1, <1>4, HandedShrink DEF PullInv
<1> QED
  BY <1>2, <1>3, <1>5 DEF PullInv

LEMMA SendFailsStep ==
  ASSUME PlainInv, PullType, PullInv, NEW s \in Sessions, SendFails(s)
  PROVE  PullInv'
<1>1. /\ UNCHANGED <<stream, pulled, ongoing>>
      /\ status' = [status EXCEPT ![s] = "gone"]
      /\ UNCHANGED controller \/ Answer(s, Head(sending[s]).stream, TRUE)
  BY DEF SendFails
<1>2. /\ controller' \in [Dumps -> [at : Sessions \cup {"waiting", "done"}, stream : Nat]]
      /\ \A d \in Dumps : \/ controller'[d] = controller[d]
                          \/ controller[d] = Client(s) /\ controller'[d].at = "waiting"
  BY <1>1, AnswerFacts DEF PullType
<1>3. \A r \in Sessions : Live(r)' => Live(r) /\ r # s
  BY <1>1 DEF Live, PlainInv
<1>4. ASSUME NEW r \in Sessions, Live(r)', NEW o \in Held(r), controller[o.dump] = Client(r)
      PROVE  controller'[o.dump] = controller[o.dump]
  <2>1. o.dump \in Dumps
    <3>1. ToSet(pulled[r]) \subseteq DumpInfos
      BY ToSetFacts DEF PullType
    <3> QED
      BY <1>4, <3>1 DEF Held, PullType, DumpInfos
  <2> QED
    BY <1>2, <1>3, <1>4, <2>1, ClientFacts
<1>5. \A d \in Dumps : controller'[d] = controller[d] \/ controller'[d].at \in {"waiting", "done"}
  BY <1>2
<1>6. \A r \in Sessions : /\ ongoing'[r] \subseteq ongoing[r] /\ (Live(r)' => Live(r))
                          /\ Held(r) = ToSet(pulled[r]) \cup ongoing'[r]
  BY <1>1, <1>3 DEF Held
<1> QED
  BY <1>1, <1>2, <1>4, <1>5, <1>6, ReleaseStep

LEMMA PullCanceledStep ==
  ASSUME PullType, PullInv, NEW s \in Sessions, PullCanceled(s)
  PROVE  PullInv'
<1>1. PICK d \in Dumps :
        /\ controller[d].at = s
        /\ status[s] \in {"gone", "closed"} \/ controller[d].stream # stream[s]
        /\ controller' = [controller EXCEPT ![d] = [at |-> "waiting", stream |-> 0]]
  BY DEF PullCanceled
<1>2. UNCHANGED <<stream, pulled, ongoing, status>>
  BY DEF PullCanceled, sessionVars
<1>3. /\ controller' \in [Dumps -> [at : Sessions \cup {"waiting", "done"}, stream : Nat]]
      /\ \A e \in Dumps : \/ controller'[e] = controller[e]
                          \/ e = d /\ controller'[e].at = "waiting"
  <2>1. [at |-> "waiting", stream |-> 0] \in [at : Sessions \cup {"waiting", "done"}, stream : Nat]
    OBVIOUS
  <2>2. controller' \in [Dumps -> [at : Sessions \cup {"waiting", "done"}, stream : Nat]]
    BY <1>1, <2>1, ExceptType DEF PullType
  <2> QED
    BY <1>1, <2>2 DEF PullType
<1>4. \A r \in Sessions : Live(r)' = Live(r)
  BY <1>2 DEF Live
<1>5. ASSUME NEW r \in Sessions, Live(r), NEW o \in Held(r), controller[o.dump] = Client(r)
      PROVE  controller'[o.dump] = controller[o.dump]
  <2>1. o.dump # d
    BY <1>1, <1>5, ClientFacts DEF Live
  <2> QED
    BY <1>1, <2>1 DEF PullType
<1> QED
  BY <1>2, <1>3, <1>4, <1>5, ReleaseStep DEF Held

LEMMA CleanUpStep ==
  ASSUME PullType, PullInv, NEW s \in Sessions, CleanUp(s)
  PROVE  PullInv'
<1>1. /\ pulled' = [pulled EXCEPT ![s] = <<>>] /\ ongoing' = [ongoing EXCEPT ![s] = {}]
      /\ status' = [status EXCEPT ![s] = "closed"]
      /\ UNCHANGED <<controller, stream>>
  BY DEF CleanUp
<1>2. /\ pulled'[s] = <<>> /\ ongoing'[s] = {}
      /\ \A r \in Sessions \ {s} : pulled'[r] = pulled[r] /\ ongoing'[r] = ongoing[r]
  BY <1>1 DEF PullType
<1>3. \A r \in Sessions : Held(r)' \subseteq Held(r) /\ (Live(r)' => Live(r)) /\ Client(r)' = Client(r)
  <2>1. ToSet(<<>>) = {}
    BY DEF ToSet
  <2> QED
    BY <1>1, <1>2, <2>1 DEF Held, Live, Client
<1>4. StreamInv'
  BY <1>1, <1>3 DEF PullInv, StreamInv
<1>5. HandedInv'
  BY <1>1, <1>3, HandedShrink DEF PullInv
<1>6. ApartInv'
  <2>1. DOMAIN pulled'[s] = {}
    BY <1>2
  <2> QED
    BY <1>2, <2>1 DEF PullInv, ApartInv
<1> QED
  BY <1>4, <1>5, <1>6 DEF PullInv

\* An answer to a record settles the dump that dumpMap has under its id.
LEMMA AckRecordStep ==
  ASSUME PullType, PullInv, ChannelInv, NEW s \in Sessions, AckRecord(s)
  PROVE  PullInv'
<1> DEFINE ack == Head(toServer[s])
           id == ack.msg.dump
<1>1. UNCHANGED <<stream, pulled, status>>
  BY DEF AckRecord
<1>2. ack.requeue \in BOOLEAN
  <2>1. ack \in Answered
    BY TailFacts DEF AckRecord, ChannelInv
  <2> QED
    BY <2>1 DEF Answered
<1>3. \/ UNCHANGED <<controller, ongoing>>
      \/ /\ ongoing' = [ongoing EXCEPT ![s] = {o \in ongoing[s] : o.dump # id}]
         /\ \/ \E o \in ongoing[s] : o.dump = id /\ Answer(s, o.stream, ack.requeue)
            \/ status[s] = "gone" /\ UNCHANGED controller
  BY DEF AckRecord, Forget
<1>4. \A r \in Sessions : Live(r)' = Live(r)
  BY <1>1 DEF Live
<1> HIDE DEF ack, id
<1>5. CASE UNCHANGED controller
  <2>1. \A r \in Sessions : ongoing'[r] \subseteq ongoing[r]
    BY <1>3 DEF PullType
  <2> QED
    BY <1>1, <1>4, <1>5, <2>1, ReleaseStep DEF PullType
<1>6. CASE controller' # controller
  <2>1. ongoing' = [ongoing EXCEPT ![s] = {o \in ongoing[s] : o.dump # id}]
    BY <1>3, <1>6
  <2>2. PICK p \in ongoing[s] : p.dump = id /\ Answer(s, p.stream, ack.requeue)
    BY <1>3, <1>6
  <2>3. /\ controller' \in [Dumps -> [at : Sessions \cup {"waiting", "done"}, stream : Nat]]
        /\ \A d \in Dumps : \/ controller'[d] = controller[d]
                            \/ /\ controller[d] = Client(s) /\ p.stream = stream[s]
                               /\ controller'[d].at \in {"waiting", "done"}
    BY <1>2, <2>2, AnswerFacts
  <2>4. \A r \in Sessions : ongoing'[r] \subseteq ongoing[r]
    BY <2>1 DEF PullType
  <2>5. \A o \in ongoing'[s] : o.dump # id
    BY <2>1 DEF PullType
  <2>6. ASSUME NEW r \in Sessions, NEW o \in ToSet(pulled[r]) \cup ongoing'[r],
               o.stream = stream[r], controller[o.dump] = Client(r)
        PROVE  controller'[o.dump] = controller[o.dump]
    <3>1. o.dump \in Dumps
      <4>1. ToSet(pulled[r]) \subseteq DumpInfos
        BY ToSetFacts DEF PullType
      <4> QED
        BY <2>4, <2>6, <4>1 DEF PullType, DumpInfos
    <3>2. SUFFICES ASSUME controller'[o.dump] # controller[o.dump]
                   PROVE  FALSE
      OBVIOUS
    <3>3. r = s /\ p.stream = stream[s]
      BY <2>3, <2>6, <3>1, <3>2, ClientFacts
    <3>4. CASE o \in ToSet(pulled[s])
      <4>1. PICK i \in DOMAIN pulled[s] : o = pulled[s][i]
        BY <3>4 DEF ToSet
      <4> QED
        BY <2>2, <2>6, <3>3, <4>1 DEF PullInv, ApartInv
    <3>5. CASE o \in ongoing'[s]
      <4>1. Matches(s, p)
        BY <2>2 DEF PullInv, HandedInv, Held
      <4>2. o.dump = p.dump
        BY <2>6, <3>1, <3>3, <4>1 DEF Matches
      <4> QED
        BY <2>2, <2>5, <3>5, <4>2
    <3> QED
      BY <2>6, <3>3, <3>4, <3>5
  <2> QED
    BY <1>1, <1>4, <2>3, <2>4, <2>6, ReleaseStep
<1> QED
  BY <1>5, <1>6

LEMMA PullInvStep ==
  ASSUME PlainInv, PullType, ChannelInv, PullInv, [Next]_vars
  PROVE  PullInv'
<1>1. CASE \/ UNCHANGED vars \/ Replicate \/ \E m \in Changes : Redeliver(m)
           \/ \E s \in Sessions : \/ Open(s) \/ SendRecord(s) \/ Disconnect(s) \/ AckChange(s)
                                  \/ Consume(s) \/ Flush(s)
                                  \/ \E m \in Changes : SendChange(s, m) \/ SkipChange(s, m)
  <2>1. UNCHANGED <<controller, stream, pulled, ongoing>>
    BY <1>1 DEF vars, sessionVars, Replicate, Redeliver, Open, SendRecord, Disconnect,
                AckChange, Consume, Flush, Answers, SendChange, SkipChange
  <2>2. \/ UNCHANGED status
        \/ \E s \in Sessions : /\ status[s] \in {"new", "open"}
                               /\ \E x : status' = [status EXCEPT ![s] = x]
    BY <1>1 DEF vars, sessionVars, Replicate, Redeliver, Open, SendRecord, Disconnect,
                AckChange, Consume, Flush, Answers, SendChange, SkipChange
  <2>3. \A r \in Sessions : Live(r)' => Live(r)
    BY <2>2 DEF Live, PlainInv
  <2> QED
    BY <2>1, <2>3, PullFrame
<1> QED
  BY <1>1, PullStep, SkipStep, LoadStep, SendFailsStep, CleanUpStep, PullBreaksStep,
     PullCanceledStep, AckRecordStep DEF Next, LoopStep

-----------------------------------------------------------------------------
(* The properties.                                                          *)

\* Nothing is taken from the accounts of what was handled or superseded.
LEMMA HistoryGrows ==
  ASSUME [Next]_vars
  PROVE  handled \subseteq handled' /\ superseded \subseteq superseded' /\ empty \subseteq empty'
<1>1. CASE ~\E s \in Sessions : Consume(s) \/ Flush(s)
  <2>1. UNCHANGED <<handled, superseded>> /\ empty \subseteq empty'
    BY <1>1 DEF Next, vars, histVars, Replicate, Redeliver, Open, LoopStep, SkipDump, EmptyDump,
                DumpError, LoadDump, SendRecord, SendFails, Disconnect, CleanUp, PullBreaks, PullCanceled,
                AckChange, AckRecord, SendChange, SkipChange, Pull
  <2> QED
    BY <2>1
<1>2. ASSUME NEW s \in Sessions, Consume(s) \/ Flush(s)
      PROVE  handled \subseteq handled' /\ superseded \subseteq superseded' /\ empty \subseteq empty'
  BY <1>2 DEF Consume, Flush, Answers
<1> QED
  BY <1>1, <1>2

\* A change is acknowledged only by an answer that is accounted for.
LEMMA AtLeastOnceStep ==
  ASSUME PlainInv, ChannelInv, AtLeastOnce, [Next]_vars
  PROVE  AtLeastOnce'
<1> SUFFICES ASSUME NEW m \in Changes \ FilteredOut, broker'[m] = "acked", broker[m] # "acked"
             PROVE  <<"change", m>> \in handled' \cup superseded'
  BY HistoryGrows DEF AtLeastOnce
<1>1. Sessions \cap {"acked"} = {}
  BY GatewayAssumption
<1>2. CASE \E s \in Sessions : AckChange(s)
  <2>1. PICK s \in Sessions : AckChange(s)
    BY <1>2
  <2> DEFINE ack == Head(toServer[s])
  <2>2. /\ IsChange(ack.msg)
        /\ broker' = [broker EXCEPT ![ack.msg.lsn] =
                        IF @ = "acked" THEN @ ELSE Settled(ack.requeue)]
        /\ toServer[s] # <<>>
    BY <2>1 DEF AckChange
  <2>3. ack \in Answered
    BY <2>2, TailFacts DEF ChannelInv
  <2>4. ack.msg \in Messages /\ (~ack.requeue => Subject(ack.msg) \in handled \cup superseded)
    BY <2>3 DEF Answered, Valid
  <2>5. ack.msg.lsn = m /\ ~ack.requeue
    BY <2>2 DEF Settled, PlainInv
  <2>6. Subject(ack.msg) = <<"change", m>>
    BY <2>2, <2>4, <2>5, MessageFacts
  <2> QED
    BY <2>4, <2>5, <2>6, HistoryGrows
<1>3. CASE ~\E s \in Sessions : AckChange(s)
  <2>1. CASE UNCHANGED broker
    BY <2>1
  <2>2. CASE \E s \in Sessions, k \in Changes : SendChange(s, k) \/ SkipChange(s, k)
    BY <1>1, <2>2 DEF SendChange, SkipChange, PlainInv
  <2>3. CASE \E k \in Changes : Redeliver(k)
    BY <2>3 DEF Redeliver, PlainInv
  <2>4. CASE \E s \in Sessions : CleanUp(s)
    BY <2>4 DEF CleanUp
  <2> QED
    BY <1>3, <2>1, <2>2, <2>3, <2>4
       DEF Next, vars, Replicate, Open, LoopStep, SkipDump, EmptyDump, DumpError, LoadDump, Loading,
           SendRecord, SendFails, Disconnect, PullBreaks, PullCanceled, AckRecord, Pull, Consume, Flush, Answers
<1> QED
  BY <1>2, <1>3

\* A dump ends only by the answer to the record sent last, or when a read gave none.
LEMMA DoneStep ==
  ASSUME PlainInv, PullType, PullInv, ChannelInv, DoneWhenLastHandled, [Next]_vars
  PROVE  DoneWhenLastHandled'
<1> SUFFICES ASSUME NEW d \in Dumps \ FilteredOut, controller'[d].at = "done",
                    controller[d].at # "done"
             PROVE  \/ d \in empty'
                    \/ \E i \in 1..Rows[d] : <<d, i, TRUE>> \in handled' \cup superseded'
  BY HistoryGrows DEF DoneWhenLastHandled
<1>1. Sessions \cap {"waiting", "done"} = {} /\ \A e \in Dumps : Rows[e] \in Nat
  BY GatewayAssumption
<1>2. ASSUME NEW s \in Sessions, SkipDump(s) \/ EmptyDump(s)
      PROVE  d \in empty'
  <2> DEFINE info == Head(pulled[s])
  <2>1. /\ pulled[s] # <<>> /\ Answer(s, info.stream, FALSE)
        /\ info.dump \in FilteredOut \/ info.dump \in empty'
    BY <1>2 DEF SkipDump, EmptyDump, Loading
  <2>2. controller[d] = Client(s) /\ info.stream = stream[s]
    BY <2>1, AnswerFacts
  <2>3. Matches(s, info)
    BY <2>1, HeadFacts DEF PullInv, HandedInv
  <2>4. d = info.dump
    BY <2>2, <2>3 DEF Matches
  <2> QED
    BY <2>1, <2>4
<1>3. ASSUME NEW s \in Sessions, DumpError(s)
      PROVE  FALSE
  <2>1. Answer(s, Head(pulled[s]).stream, TRUE)
    BY <1>3 DEF DumpError
  <2> QED
    BY <2>1, AnswerFacts
<1>4. ASSUME NEW s \in Sessions, SendFails(s)
      PROVE  FALSE
  <2>1. UNCHANGED controller \/ Answer(s, Head(sending[s]).stream, TRUE)
    BY <1>4 DEF SendFails
  <2> QED
    BY <2>1, AnswerFacts
<1>5. ASSUME NEW s \in Sessions, AckRecord(s)
      PROVE  \E i \in 1..Rows[d] : <<d, i, TRUE>> \in handled' \cup superseded'
  <2> DEFINE ack == Head(toServer[s])
  <2>1. toServer[s] # <<>> /\ ~IsChange(ack.msg)
    BY <1>5 DEF AckRecord
  <2>2. PICK o \in ongoing[s] : o.dump = ack.msg.dump /\ Answer(s, o.stream, ack.requeue)
    BY <1>5 DEF AckRecord
  <2>3. ack.msg.last \/ ack.requeue
    BY <1>5, <2>2 DEF AckRecord, Settles
  <2>4. ack \in Answered
    BY <2>1, TailFacts DEF ChannelInv
  <2>5. /\ ack.requeue \in BOOLEAN /\ ack.msg \in Messages
        /\ ~IsChange(ack.msg) => ack.msg.row \in 1..Rows[ack.msg.dump]
        /\ ~ack.requeue => Subject(ack.msg) \in handled \cup superseded
    BY <2>4 DEF Answered, Valid
  <2>6. controller[d] = Client(s) /\ o.stream = stream[s] /\ ~ack.requeue
    BY <2>2, <2>5, AnswerFacts
  <2>7. Matches(s, o)
    BY DEF PullInv, HandedInv, Held
  <2>8. d = ack.msg.dump
    BY <2>2, <2>6, <2>7 DEF Matches
  <2>9. ack.msg.row \in 1..Rows[d] /\ Subject(ack.msg) = <<d, ack.msg.row, TRUE>>
    BY <2>1, <2>3, <2>5, <2>6, <2>8, MessageFacts
  <2> QED
    BY <2>5, <2>6, <2>9, HistoryGrows
<1>6. ASSUME NEW s \in Sessions, NEW e \in Dumps, Pull(s, e)
      PROVE  FALSE
  <2>1. controller' = [controller EXCEPT ![e] = Client(s)]
    BY <1>6 DEF Pull
  <2> QED
    BY <2>1, ClientFacts DEF PullType
<1>7. ASSUME NEW s \in Sessions, PullCanceled(s)
      PROVE  FALSE
  BY <1>7 DEF PullCanceled, PullType
<1>8. controller' # controller
  OBVIOUS
<1> QED
  BY <1>2, <1>3, <1>4, <1>5, <1>6, <1>7, <1>8
     DEF Next, vars, Replicate, Redeliver, Open, LoopStep, LoadDump, SendRecord, Disconnect,
         CleanUp, PullBreaks, AckChange, SendChange, SkipChange, Consume, Flush, Answers

-----------------------------------------------------------------------------
(* Theorems.                                                                *)

LEMMA InitInv == Init => IInv
<1> SUFFICES ASSUME Init
             PROVE  IInv
  OBVIOUS
<1>1. PlainInv
  BY GatewayAssumption DEF Init, PlainInv
<1>2. \A S : <<>> \in Seq(S)
  OBVIOUS
<1>3. ChannelInv
  <2>1. /\ sending \in [Sessions -> Seq([stream : Nat, msg : Valid])]
        /\ toClient \in [Sessions -> Seq(Valid)]
        /\ toServer \in [Sessions -> Seq(Answered)]
    BY <1>2 DEF Init
  <2>2. \A s \in Sessions : IsFiniteSet(store[s]) /\ Keyed(store[s])
    BY FS_EmptySet DEF Init, Keyed
  <2>3. store \in [Sessions -> SUBSET Valid]
    BY DEF Init
  <2> QED
    BY <2>1, <2>2, <2>3 DEF ChannelInv
<1>4. FreshInv
  BY <1>2 DEF Init, FreshInv
<1>5. PullType
  <2>1. pulled \in [Sessions -> Seq(DumpInfos)]
    BY <1>2 DEF Init
  <2> QED
    BY <2>1 DEF Init, PullType
<1>6. PullInv
  <2>1. \A s \in Sessions : Held(s) = {} /\ DOMAIN pulled[s] = {}
    BY DEF Init, Held, ToSet
  <2>2. \A s \in Sessions : \A d \in Dumps : controller[d].at # s /\ controller[d] # Client(s)
    <3>1. \A d \in Dumps : controller[d].at = "waiting"
      BY DEF Init
    <3>2. \A s \in Sessions : s # "waiting"
      BY GatewayAssumption
    <3> QED
      BY <3>1, <3>2, ClientFacts
  <2> QED
    BY <2>1, <2>2 DEF PullInv, StreamInv, HandedInv, ApartInv
<1>7. AtLeastOnce /\ DoneWhenLastHandled
  BY DEF Init, AtLeastOnce, DoneWhenLastHandled
<1> QED
  BY <1>1, <1>3, <1>4, <1>5, <1>6, <1>7 DEF IInv

\* The inductive invariant is one: it holds in every state of the gateway.
THEOREM InductiveInvariant == Spec => []IInv
<1>1. IInv /\ [Next]_vars => IInv'
  BY PlainStep, ChannelStep, FreshStep, PullTypeStep, PullInvStep, AtLeastOnceStep, DoneStep
     DEF IInv
<1> QED
  BY <1>1, InitInv, PTL DEF Spec

\* Streams that go up are as many as there are entries.
LEMMA DistinctStreams ==
  ASSUME PullType, ApartInv, NEW s \in Sessions
  PROVE  Cardinality({info.stream : info \in ToSet(pulled[s])}) = Len(pulled[s])
<1> DEFINE n == Len(pulled[s])
           T == {info.stream : info \in ToSet(pulled[s])}
           f == [i \in 1..n |-> pulled[s][i].stream]
<1>1. n \in Nat /\ DOMAIN pulled[s] = 1..n /\ \A i \in 1..n : pulled[s][i] \in DumpInfos
  BY SeqFacts DEF PullType
<1>2. T = {pulled[s][i].stream : i \in 1..n}
  BY <1>1 DEF ToSet
<1>3. f \in [1..n -> T]
  BY <1>2
<1>4. \A i, j \in 1..n : f[i] = f[j] => i = j
  <2>1. \A i, j \in 1..n : i < j => f[i] < f[j]
    BY <1>1 DEF ApartInv
  <2>2. \A i \in 1..n : f[i] \in Nat
    BY <1>1 DEF DumpInfos
  <2> HIDE DEF f
  <2> QED
    BY <1>1, <2>1, <2>2
<1>5. \A t \in T : \E i \in 1..n : f[i] = t
  BY <1>2
<1> HIDE DEF n, T, f
<1>6. f \in Bijection(1..n, T)
  BY <1>3, <1>4, <1>5 DEF Bijection, Injection, Surjection, IsInjective
<1>7. ExistsBijection(1..n, T)
  BY <1>6 DEF ExistsBijection
<1>8. Cardinality(T) = n
  BY <1>1, <1>7, FS_CountingElements
<1> QED
  BY <1>8 DEF n, T

\* Types; the puller's channel holds at most one dump of a stream (dblog/puller.go),
\* and a debounce store one event of a key.
THEOREM TypeCorrect == Spec => []TypeOK
<1>1. IInv => TypeOK
  <2> SUFFICES ASSUME IInv
               PROVE  TypeOK
    OBVIOUS
  <2>1. PlainInv /\ ChannelInv /\ PullType /\ ApartInv
    BY DEF IInv, PullInv
  <2>2. Valid \subseteq Messages
    BY DEF Valid
  <2>3. /\ sending \in [Sessions -> Seq([stream : Nat, msg : Messages])]
        /\ toClient \in [Sessions -> Seq(Messages)]
        /\ toServer \in [Sessions -> Seq([msg : Messages, requeue : BOOLEAN])]
    <3>1. [stream : Nat, msg : Valid] \subseteq [stream : Nat, msg : Messages]
      BY <2>2
    <3>2. Answered \subseteq [msg : Messages, requeue : BOOLEAN]
      BY <2>2 DEF Answered
    <3>3. \A s \in Sessions : /\ sending[s] \in Seq([stream : Nat, msg : Messages])
                              /\ toClient[s] \in Seq(Messages)
                              /\ toServer[s] \in Seq([msg : Messages, requeue : BOOLEAN])
      <4>1. ASSUME NEW s \in Sessions
            PROVE  sending[s] \in Seq([stream : Nat, msg : Messages])
        <5> DEFINE S == [stream : Nat, msg : Valid]
                   T == [stream : Nat, msg : Messages]
        <5>1. sending[s] \in Seq(S)
          BY <2>1 DEF ChannelInv
        <5> HIDE DEF S, T
        <5>2. sending[s] \in Seq(T)
          BY <3>1, <5>1, SeqMonotonic DEF S, T
        <5> QED
          BY <5>2 DEF T
      <4>2. ASSUME NEW s \in Sessions
            PROVE  toClient[s] \in Seq(Messages)
        BY <2>1, <2>2, SeqMonotonic DEF ChannelInv
      <4>3. ASSUME NEW s \in Sessions
            PROVE  toServer[s] \in Seq([msg : Messages, requeue : BOOLEAN])
        <5> DEFINE T == [msg : Messages, requeue : BOOLEAN]
        <5>1. toServer[s] \in Seq(Answered)
          BY <2>1 DEF ChannelInv
        <5>2. Answered \subseteq T
          BY <3>2
        <5> HIDE DEF T
        <5>3. toServer[s] \in Seq(T)
          BY <5>1, <5>2, SeqMonotonic
        <5> QED
          BY <5>3 DEF T
      <4> QED
        BY <4>1, <4>2, <4>3
    <3> QED
      BY <2>1, <3>3 DEF ChannelInv
  <2>4. \A s \in Sessions : store[s] \subseteq Messages /\ \A e, f \in store[s] : e.key = f.key => e = f
    BY <2>1, <2>2 DEF ChannelInv, Keyed
  <2>5. \A s \in Sessions : ongoing[s] \subseteq DumpInfos
    BY <2>1 DEF PullType
  <2> QED
    BY <2>1, <2>3, <2>4, <2>5, DistinctStreams DEF TypeOK, PlainInv, PullType
<1> QED
  BY <1>1, InductiveInvariant, PTL

\* A change leaves the subscription only when a client handled or debounced it
\* (Commit and Requeue of source/pulsar.go, acknowledge of dblog/gateway.go).
THEOREM ChangesAtLeastOnce == Spec => []AtLeastOnce
<1>1. IInv => AtLeastOnce
  BY DEF IInv
<1> QED
  BY <1>1, InductiveInvariant, PTL

\* No record of a dump on its way to a client is older than a change sent before
\* it, while the changes of the session come in order (load of dblog/dumper.go
\* compares the replica with the watermark of capture).
THEOREM DumpsAreFresh == Spec => []DumpIsFresh
<1>1. IInv => DumpIsFresh
  <2> SUFFICES ASSUME FreshInv, NEW s \in Sessions, orderly[s], NEW i \in DOMAIN toClient[s],
                      ~IsChange(toClient[s][i])
               PROVE  toClient[s][i].at >= toClient[s][i].after
    BY DEF IInv, DumpIsFresh
  <2>1. toClient[s][i] \in Fresh
    BY SeqFacts DEF FreshInv
  <2> QED
    BY <2>1 DEF Fresh
<1> QED
  BY <1>1, InductiveInvariant, PTL

\* The controller takes a dump for done only when the record sent as its last one was
\* handled or debounced, or a read of it gave none (load of dblog/dumper.go, dumpMap.ack of
\* dblog/gateway.go, DumpInfo.Ack of dblog/puller.go).
THEOREM DumpsDoneWhenHandled == Spec => []DoneWhenLastHandled
<1>1. IInv => DoneWhenLastHandled
  BY DEF IInv
<1> QED
  BY <1>1, InductiveInvariant, PTL

=============================================================================
