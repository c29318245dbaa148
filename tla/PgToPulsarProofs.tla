-------------------------- MODULE PgToPulsarProofs --------------------------
(***************************************************************************)
(* Proofs of the safety properties of the pg2pulsar pipeline.               *)
(***************************************************************************)
EXTENDS PgToPulsar, CheckpointProofs, SequenceProofs

-----------------------------------------------------------------------------
(* Facts about positions.                                                   *)

\* The greater of two numbers.
LEMMA MaxOfTwo ==
  ASSUME NEW a \in Int, NEW b \in Int
  PROVE  Max({a, b}) = IF a >= b THEN a ELSE b
<1>1. \E x \in {a, b} : \A y \in {a, b} : x >= y
  OBVIOUS
<1>2. /\ Max({a, b}) \in {a, b}
      /\ \A y \in {a, b} : Max({a, b}) >= y
  BY <1>1 DEF Max
<1> QED
  BY <1>2

\* What it means to be a message of the stream.
LEMMA MsgIff ==
  ASSUME NEW m
  PROVE  m \in Msgs <=> /\ m \in [lsn : Txs, seq : Nat]
                        /\ m.seq <= Size[m.lsn] + 1
<1>1. \A l \in Txs : Size[l] \in Nat
  BY ConfigAssumption DEF Txs
<1>2. ASSUME m \in Msgs
      PROVE  m \in [lsn : Txs, seq : Nat] /\ m.seq <= Size[m.lsn] + 1
  <2>1. PICK l \in Txs : m \in [lsn : {l}, seq : 0..(Size[l] + 1)]
    BY <1>2 DEF Msgs
  <2> QED
    BY <2>1, <1>1
<1>3. ASSUME m \in [lsn : Txs, seq : Nat], m.seq <= Size[m.lsn] + 1
      PROVE  m \in Msgs
  <2>1. m \in [lsn : {m.lsn}, seq : 0..(Size[m.lsn] + 1)] /\ m.lsn \in Txs
    BY <1>3, <1>1
  <2> QED
    BY <2>1 DEF Msgs
<1> QED
  BY <1>2, <1>3

\* Positions that are messages, or the place of the first one to come.
Places == Msgs \cup {Begin(MaxTx + 1)}

\* A message, and the position after the last one, are positions.
LEMMA PlaceType ==
  ASSUME NEW m \in Places
  PROVE  /\ m \in Checkpoints /\ m \in Positions
         /\ m.lsn \in 1..(MaxTx + 1) /\ m.seq \in Nat
         /\ m \in Msgs => m.lsn \in Txs /\ Size[m.lsn] \in Nat /\ m.seq <= Size[m.lsn] + 1
         /\ m.lsn \in Txs => m \in Msgs
         /\ m.lsn \notin Txs => m = Begin(MaxTx + 1)
BY MsgIff, ConfigAssumption DEF Places, Checkpoints, Positions, Txs, Begin

\* After is a strict total order.
LEMMA AfterOrder ==
  ASSUME NEW a \in Checkpoints, NEW b \in Checkpoints, NEW c \in Checkpoints
  PROVE  /\ ~After(a, a)
         /\ After(a, b) /\ After(b, c) => After(a, c)
         /\ After(a, b) => ~After(b, a)
         /\ a = b \/ After(a, b) \/ After(b, a)
         /\ ~After(b, a) /\ After(b, c) => After(a, c)
         /\ ~After(a, b) /\ After(a, c) => After(b, c)
         /\ After(a, b) => a.lsn >= b.lsn
         /\ ~After(a, b) => a.lsn <= b.lsn
BY DEF After, Checkpoints

\* Succ is the next position: nothing lies between a message and it.
LEMMA SuccFacts ==
  ASSUME NEW m \in Msgs
  PROVE  /\ Succ(m) \in Places
         /\ After(Succ(m), m)
         /\ Succ(m).lsn >= m.lsn
         /\ \A n \in Places : After(n, m) => ~After(Succ(m), n)
         /\ \A n \in Places : After(Succ(m), n) => n = m \/ After(m, n)
         /\ Succ(m).seq > 0 => Succ(m).lsn = m.lsn /\ Succ(m).seq - 1 = m.seq
         /\ Succ(m).seq = 0 => IsCommit(m)
<1>1. /\ m.lsn \in Txs /\ m.seq \in Nat /\ Size[m.lsn] \in Nat
      /\ m.seq <= Size[m.lsn] + 1 /\ m = [lsn |-> m.lsn, seq |-> m.seq]
  BY MsgIff, ConfigAssumption DEF Txs
<1>2. MaxTx \in Nat
  BY ConfigAssumption
<1>3. Succ(m) \in Places
  <2>1. CASE m.seq <= Size[m.lsn]
    BY <1>1, <2>1, MsgIff DEF Succ, Places
  <2>2. CASE m.seq > Size[m.lsn] /\ m.lsn < MaxTx
    <3>1. /\ Succ(m) = [lsn |-> m.lsn + 1, seq |-> 0]
          /\ m.lsn + 1 \in Txs /\ Size[m.lsn + 1] \in Nat
      BY <1>1, <1>2, <2>2, ConfigAssumption DEF Succ, Txs
    <3> QED
      BY <3>1, MsgIff DEF Places
  <2>3. CASE m.seq > Size[m.lsn] /\ m.lsn = MaxTx
    BY <1>1, <2>3 DEF Succ, Places, Begin
  <2> QED
    BY <1>1, <1>2, <2>1, <2>2, <2>3 DEF Txs
<1>4. /\ After(Succ(m), m) /\ Succ(m).lsn >= m.lsn
      /\ Succ(m).seq > 0 => Succ(m).lsn = m.lsn /\ Succ(m).seq - 1 = m.seq
      /\ Succ(m).seq = 0 => IsCommit(m)
  BY <1>1 DEF Succ, After, IsCommit, Txs
<1>5. ASSUME NEW n \in Places
      PROVE  /\ After(n, m) => ~After(Succ(m), n)
             /\ After(Succ(m), n) => n = m \/ After(m, n)
  <2>1. n.lsn \in Nat /\ n.seq \in Nat /\ n = [lsn |-> n.lsn, seq |-> n.seq]
    BY <1>2, PlaceType DEF Checkpoints
  <2>2. n.lsn = m.lsn => n.seq <= Size[m.lsn] + 1
    BY <1>1, PlaceType
  <2> QED
    BY <1>1, <2>1, <2>2 DEF Succ, After, Txs
<1> QED
  BY <1>3, <1>4, <1>5

-----------------------------------------------------------------------------
(* A part of the invariant survives a step that leaves its variables alone. *)

\* The parts of the invariant that only read some of the variables.
LEMMA Frames ==
  /\ TypePg /\ UNCHANGED pgVars => TypePg'
  /\ TypeSrc /\ UNCHANGED srcVars => TypeSrc'
  /\ TypeSink /\ UNCHANGED sinkVars => TypeSink'
  /\ TypeRest /\ UNCHANGED <<topic, trkVars, histVars>> => TypeRest'
  /\ InvPhase /\ UNCHANGED <<sinkState, srcState, changes, receipts, committed,
                             inflight, consistent>> => InvPhase'
  /\ InvStream /\ UNCHANGED <<sender, changes>> => InvStream'
  /\ InvCounters /\ UNCHANGED <<srcState, sender, currentLsn, currentSeq>>
       => InvCounters'
  /\ InvNumbered /\ UNCHANGED <<changes, inflight, topic>> => InvNumbered'
  /\ InvOrder /\ UNCHANGED <<topic, inflight>> => InvOrder'
  /\ InvCovered /\ UNCHANGED <<topic, inflight, origin, failed>> => InvCovered'
  /\ InvResume /\ UNCHANGED <<sinkState, consistent, prev, topic, changes, sender,
                              origin>> => InvResume'
  /\ InvConsistent /\ UNCHANGED <<sinkState, consistent, changes, sender, topic,
                                  inflight, origin, failed>> => InvConsistent'
  /\ InvOrigin /\ UNCHANGED <<topic, inflight, origin, sinkState, changes, sender>>
       => InvOrigin'
  /\ InvSlot /\ UNCHANGED <<topic, confirmed, ackLsn, srcState, origin, inflight,
                            receipts, committed>> => InvSlot'
<1>11. TypePg /\ UNCHANGED pgVars => TypePg'
  BY DEF TypePg, pgVars
<1>12. TypeSrc /\ UNCHANGED srcVars => TypeSrc'
  BY DEF TypeSrc, srcVars
<1>13. TypeSink /\ UNCHANGED sinkVars => TypeSink'
  BY DEF TypeSink, sinkVars
<1>14. TypeRest /\ UNCHANGED <<topic, trkVars, histVars>> => TypeRest'
  BY DEF TypeRest, trkVars, histVars
<1>1. InvPhase /\ UNCHANGED <<sinkState, srcState, changes, receipts, committed,
                              inflight, consistent>> => InvPhase'
  BY DEF InvPhase
<1>2. InvStream /\ UNCHANGED <<sender, changes>> => InvStream'
  BY DEF InvStream
<1>3. InvCounters /\ UNCHANGED <<srcState, sender, currentLsn, currentSeq>>
       => InvCounters'
  BY DEF InvCounters
<1>4. InvNumbered /\ UNCHANGED <<changes, inflight, topic>> => InvNumbered'
  BY DEF InvNumbered, KeysNamePositions
<1>5. InvOrder /\ UNCHANGED <<topic, inflight>> => InvOrder'
  BY DEF InvOrder, TopicInOrder
<1>6. InvCovered /\ UNCHANGED <<topic, inflight, origin, failed>> => InvCovered'
  BY DEF InvCovered, Settled, Published, InFlight
<1>7. InvResume /\ UNCHANGED <<sinkState, consistent, prev, topic, changes, sender,
                               origin>> => InvResume'
  BY DEF InvResume, NextApply, LastMsg
<1>8. InvConsistent /\ UNCHANGED <<sinkState, consistent, changes, sender, topic,
                                   inflight, origin, failed>> => InvConsistent'
  BY DEF InvConsistent, NextApply, Settled, Published, InFlight
<1>9. InvOrigin /\ UNCHANGED <<topic, inflight, origin, sinkState, changes, sender>>
       => InvOrigin'
  BY DEF InvOrigin, NextApply
<1>10. InvSlot /\ UNCHANGED <<topic, confirmed, ackLsn, srcState, origin, inflight,
                              receipts, committed>> => InvSlot'
  BY DEF InvSlot, Bounded, LastMsg
<1> QED
  BY <1>1, <1>2, <1>3, <1>4, <1>5, <1>6, <1>7, <1>8, <1>9, <1>10,
     <1>11, <1>12, <1>13, <1>14

-----------------------------------------------------------------------------
(* The initial states, and one lemma per action.                            *)

\* The elements of the sequences, and the position that comes next.
LEMMA Elements ==
  ASSUME TypeOK
  PROVE  /\ Len(topic) \in Nat /\ DOMAIN topic = 1..Len(topic)
         /\ topic # <<>> => Len(topic) \in DOMAIN topic
         /\ \A i \in DOMAIN topic : topic[i].msg \in Msgs /\ topic[i].key \in Keys
         /\ Len(inflight) \in Nat /\ DOMAIN inflight = 1..Len(inflight)
         /\ \A i \in DOMAIN inflight :
              inflight[i].msg \in Msgs /\ inflight[i].cp \in Checkpoints
         /\ Len(changes) \in Nat /\ DOMAIN changes = 1..Len(changes)
         /\ changes # <<>> => 1 \in DOMAIN changes /\ Len(changes) \in DOMAIN changes
         /\ inflight # <<>> => 1 \in DOMAIN inflight
         /\ \A i \in DOMAIN changes :
              changes[i].msg \in Msgs /\ changes[i].cp \in Checkpoints
         /\ \A m \in Msgs : m \in Places /\ m \in Checkpoints
<1>1. /\ Len(topic) \in Nat /\ DOMAIN topic = 1..Len(topic)
      /\ topic # <<>> => Len(topic) \in DOMAIN topic
      /\ \A i \in DOMAIN topic : topic[i] \in Entries
  BY SeqFacts DEF TypeOK, TypeRest
<1>2. /\ Len(inflight) \in Nat /\ DOMAIN inflight = 1..Len(inflight)
      /\ inflight # <<>> => 1 \in DOMAIN inflight
      /\ \A i \in DOMAIN inflight : inflight[i] \in Changes
  BY SeqFacts DEF TypeOK, TypeSink
<1>3. /\ Len(changes) \in Nat /\ DOMAIN changes = 1..Len(changes)
      /\ changes # <<>> => 1 \in DOMAIN changes /\ Len(changes) \in DOMAIN changes
      /\ \A i \in DOMAIN changes : changes[i] \in Changes
  BY SeqFacts DEF TypeOK, TypeSrc
<1>4. \A m \in Msgs : m \in Places /\ m \in Checkpoints
  BY PlaceType DEF Places
<1> QED
  BY <1>1, <1>2, <1>3, <1>4 DEF Entries, Changes

\* The position the sink is given next is one of the stream or its end.
LEMMA NextApplyPlace ==
  ASSUME TypeOK, InvStream
  PROVE  NextApply \in Places /\ NextApply \in Checkpoints
<1>1. NextApply \in Places
  BY Elements DEF NextApply, InvStream, Places
<1> QED
  BY <1>1, PlaceType

\* Taking the first change off the channel.
LEMMA TakeChange ==
  ASSUME TypeOK, InvStream, changes # <<>>, changes' = Tail(changes), sender' = sender
  PROVE  /\ changes' \in Seq(Changes)
         /\ Head(changes) = changes[1] /\ Head(changes) \in Changes
         /\ NextApply = changes[1].msg
         /\ NextApply' = Succ(changes[1].msg)
         /\ InvStream'
         /\ \A i \in DOMAIN changes' : i + 1 \in DOMAIN changes /\ changes'[i] = changes[i + 1]
<1>1. /\ changes \in Seq(Changes) /\ changes' \in Seq(Changes)
      /\ Len(changes) \in Nat /\ Len(changes) >= 1
      /\ Len(changes') = Len(changes) - 1
      /\ \A i \in DOMAIN changes' : i + 1 \in DOMAIN changes /\ changes'[i] = changes[i + 1]
      /\ DOMAIN changes' = 1..Len(changes') /\ DOMAIN changes = 1..Len(changes)
      /\ Head(changes) = changes[1] /\ Head(changes) \in Changes
      /\ Len(changes') = 0 <=> changes' = <<>>
  BY TailFacts, SeqFacts DEF TypeOK, TypeSrc
<1>2. NextApply = changes[1].msg
  BY DEF NextApply
<1>3. CASE Len(changes) = 1
  <2>1. changes' = <<>>
    BY <1>1, <1>3
  <2>2. NextApply' = Succ(changes[1].msg)
    BY <1>3, <2>1 DEF NextApply, InvStream
  <2>3. InvStream'
    BY <2>1 DEF InvStream
  <2> QED
    BY <1>1, <1>2, <2>1, <2>2, <2>3
<1>4. CASE Len(changes) > 1
  <2>1. /\ changes' # <<>> /\ changes'[1] = changes[2]
        /\ changes'[Len(changes')] = changes[Len(changes)]
    <3>1. 1 \in DOMAIN changes' /\ Len(changes') \in DOMAIN changes'
      BY <1>1, <1>4
    <3>2. changes' # <<>>
      BY <1>1, <1>4
    <3>3. changes'[1] = changes[1 + 1] /\ changes'[Len(changes')] = changes[Len(changes') + 1]
      BY <1>1, <3>1
    <3> QED
      BY <1>1, <3>2, <3>3
  <2>2. changes[2].msg = Succ(changes[1].msg)
    BY <1>1, <1>4 DEF InvStream
  <2>3. NextApply' = Succ(changes[1].msg)
    BY <2>1, <2>2 DEF NextApply
  <2>4. ASSUME NEW i \in 1..(Len(changes') - 1)
        PROVE  changes'[i + 1].msg = Succ(changes'[i].msg)
    BY <1>1 DEF InvStream
  <2>5. InvStream'
    BY <2>1, <2>4 DEF InvStream
  <2> QED
    BY <1>1, <1>2, <2>3, <2>5
<1> QED
  BY <1>1, <1>3, <1>4

\* The invariant holds when nothing has been started yet.
LEMMA InitIInv == Init => IInv
<1> SUFFICES ASSUME Init PROVE IInv
  OBVIOUS
<1>1. TypePg /\ TypeSrc /\ TypeSink /\ TypeRest
  <2>1. TypePg
    BY ConfigAssumption DEF Init, TypePg, Positions, Begin
  <2>2. TypeSrc
    BY ConfigAssumption DEF Init, TypeSrc
  <2>3. TypeSink
    <3>1. consistent \in BOOLEAN
      BY Zenon DEF Init
    <3> QED
      BY <3>1 DEF Init, TypeSink, NoCheckpoint, Checkpoints
  <2>4. TypeRest
    BY ConfigAssumption DEF Init, TypeRest
  <2> QED
    BY <2>1, <2>2, <2>3, <2>4
<1>2. sender \in Places
  BY MsgIff, ConfigAssumption DEF Init, Begin, Places, Txs
<1>3. InvStream /\ InvPhase /\ InvCounters
  BY <1>2 DEF Init, InvStream, InvPhase, InvCounters, Places, Begin
<1>4. InvNumbered /\ InvOrder /\ InvCovered /\ InvOrigin /\ InvSlot
  BY DEF Init, InvNumbered, KeysNamePositions, InvOrder, TopicInOrder, InvCovered,
         InvOrigin, InvSlot, Bounded
<1>5. InvResume /\ InvConsistent
  BY DEF Init, InvResume, InvConsistent
<1> QED
  BY <1>1, <1>3, <1>4, <1>5 DEF IInv, TypeOK

\* A commit in PostgreSQL only makes more of the stream available.
LEMMA PgCommitStep == IInv /\ PgCommit => IInv'
<1> SUFFICES ASSUME IInv, PgCommit PROVE IInv'
  OBVIOUS
<1>1. TypePg'
  BY ConfigAssumption DEF IInv, TypeOK, TypePg, PgCommit
<1> QED
  BY <1>1, Frames DEF IInv, TypeOK, PgCommit, srcVars, sinkVars, trkVars, histVars

\* A message before a published one cannot be in flight.
LEMMA NotInFlight ==
  ASSUME TypeOK, InvOrder, NEW m \in Msgs, NEW i \in DOMAIN topic,
         After(topic[i].msg, m)
  PROVE  ~InFlight(m)
BY Elements, AfterOrder DEF InvOrder, InFlight

\* Fencing drops what was in flight, which nothing in the topic is behind.
LEMMA CreateProducerStep == IInv /\ CreateProducer => IInv'
<1> SUFFICES ASSUME IInv, CreateProducer PROVE IInv'
  OBVIOUS
<1> USE DEF pgVars, srcVars, sinkVars, trkVars, histVars
<1>1. inflight' = <<>> /\ topic' = topic /\ origin' = origin /\ failed' = failed
  BY DEF CreateProducer
<1>2. TypeSink'
  BY DEF IInv, TypeOK, TypeSink, CreateProducer
<1>3. InvPhase' /\ InvResume' /\ InvConsistent' /\ InvNumbered' /\ InvOrder' /\ InvOrigin'
  BY DEF IInv, CreateProducer, InvPhase, InvResume, InvConsistent, InvNumbered,
         KeysNamePositions, InvOrder, TopicInOrder, InvOrigin
<1>4. InvCovered'
  BY <1>1, NotInFlight DEF IInv, InvCovered, Settled, Published, InFlight
<1>5. InvSlot'
  BY DEF IInv, CreateProducer, InvSlot, Bounded, LastMsg
<1> QED
  BY <1>2, <1>3, <1>4, <1>5, Frames DEF IInv, TypeOK, CreateProducer

\* The tracker returns the position of the last message of the topic.
LEMMA SetupLastStep ==
  ASSUME Tracker = "pulsar"
  PROVE  IInv /\ SetupLast => IInv'
<1> SUFFICES ASSUME IInv, SetupLast PROVE IInv'
  OBVIOUS
<1> USE DEF pgVars, srcVars, sinkVars, trkVars, histVars
<1>1. prev' = IF topic = <<>> THEN NoCheckpoint ELSE LastMsg
  BY Elements DEF IInv, InvNumbered, KeysNamePositions, SetupLast, Last, LastMsg
<1>2. prev' \in Checkpoints
  BY <1>1, Elements DEF IInv, LastMsg, NoCheckpoint, Checkpoints
<1>3. consistent' \in BOOLEAN
  BY Zenon DEF SetupLast
<1>4. TypeSink' /\ TypeRest'
  BY <1>2, <1>3 DEF IInv, TypeOK, TypeSink, TypeRest, SetupLast
<1>5. InvPhase' /\ InvConsistent' /\ InvOrigin'
  BY DEF IInv, SetupLast, InvPhase, InvConsistent, InvOrigin
<1>6. InvResume'
  BY <1>1 DEF SetupLast, InvResume, LastMsg
<1> QED
  BY <1>4, <1>5, <1>6, Frames DEF IInv, TypeOK, SetupLast

\* Reporting moves the slot to a position that is not beyond the topic.
LEMMA ReportLSNStep == IInv /\ ReportLSN => IInv'
<1> SUFFICES ASSUME IInv, ReportLSN PROVE IInv'
  OBVIOUS
<1> USE DEF pgVars, srcVars, sinkVars, trkVars, histVars
<1>1. confirmed' = IF confirmed >= ackLsn THEN confirmed ELSE ackLsn
  BY MaxOfTwo DEF IInv, TypeOK, TypePg, TypeSrc, ReportLSN, Confirm, ReportedLSN
<1>2. TypePg'
  BY <1>1 DEF IInv, TypeOK, TypePg, TypeSrc, ReportLSN
<1>3. InvSlot'
  BY <1>1 DEF IInv, TypeOK, TypePg, TypeSrc, ReportLSN, InvSlot, Bounded, LastMsg
<1> QED
  BY <1>2, <1>3, Frames DEF IInv, TypeOK, ReportLSN

\* A broken connection leaves the channel to be finished by the sink.
LEMMA SrcErrorStep == IInv /\ SrcError => IInv'
<1> SUFFICES ASSUME IInv, SrcError PROVE IInv'
  OBVIOUS
<1> USE DEF pgVars, srcVars, sinkVars, trkVars, histVars
<1>1. \/ confirmed' = confirmed
      \/ confirmed' = IF confirmed >= ackLsn THEN confirmed ELSE ackLsn
  BY MaxOfTwo DEF IInv, TypeOK, TypePg, TypeSrc, SrcError, Confirm, ReportedLSN
<1>2. TypePg' /\ TypeSrc' /\ TypeRest'
  BY <1>1, ConfigAssumption DEF IInv, TypeOK, TypePg, TypeSrc, TypeRest, SrcError
<1>3. InvSlot'
  BY <1>1 DEF IInv, TypeOK, TypePg, TypeSrc, SrcError, InvSlot, Bounded, LastMsg
<1>4. InvPhase' /\ InvCounters'
  BY DEF IInv, SrcError, InvPhase, InvCounters
<1> QED
  BY <1>2, <1>3, <1>4, Frames DEF IInv, TypeOK, SrcError

\* Acknowledging the subscription touches nothing of the invariant.
LEMMA TryAckStep == IInv /\ TryAck => IInv'
<1> SUFFICES ASSUME IInv, TryAck PROVE IInv'
  OBVIOUS
<1> USE DEF pgVars, srcVars, sinkVars, trkVars, histVars
<1>1. TypeRest'
  BY DEF IInv, TypeOK, TypeRest, TryAck
<1> QED
  BY <1>1, Frames DEF IInv, TypeOK, TryAck

\* The three steps that only move the sink on in its life cycle.
LEMMA SinkPhaseStep == IInv /\ (SinkStop \/ SinkEnd \/ CleanFn) => IInv'
<1> SUFFICES ASSUME IInv, SinkStop \/ SinkEnd \/ CleanFn PROVE IInv'
  OBVIOUS
<1> USE DEF pgVars, srcVars, sinkVars, trkVars, histVars
<1>1. TypeSink' /\ TypeRest'
  BY ConfigAssumption DEF IInv, TypeOK, TypeSink, TypeRest, SinkStop, SinkEnd, CleanFn
<1>2. InvPhase' /\ InvResume' /\ InvConsistent' /\ InvOrigin'
  BY DEF IInv, InvPhase, InvResume, InvConsistent, InvOrigin, SinkStop, SinkEnd, CleanFn
<1> QED
  BY <1>1, <1>2, Frames DEF IInv, TypeOK, SinkStop, SinkEnd, CleanFn

\* A sink that has left its loop may throw changes away.
LEMMA DrainStep == IInv /\ Drain => IInv'
<1> SUFFICES ASSUME IInv, Drain PROVE IInv'
  OBVIOUS
<1> USE DEF pgVars, srcVars, sinkVars, trkVars, histVars
<1>1. /\ changes' \in Seq(Changes) /\ InvStream'
      /\ \A i \in DOMAIN changes' : i + 1 \in DOMAIN changes /\ changes'[i] = changes[i + 1]
  BY TakeChange DEF IInv, Drain
<1>2. TypeSrc'
  BY <1>1 DEF IInv, TypeOK, TypeSrc, Drain
<1>3. InvNumbered'
  BY <1>1 DEF IInv, InvNumbered, KeysNamePositions, Drain
<1>4. InvPhase' /\ InvResume' /\ InvConsistent' /\ InvOrigin'
  BY DEF IInv, InvPhase, InvResume, InvConsistent, InvOrigin, Drain
<1> QED
  BY <1>1, <1>2, <1>3, <1>4, Frames DEF IInv, TypeOK, Drain

\* What the end of a process leaves of the invariant.
LEMMA HaltFacts ==
  ASSUME IInv, Halt, UNCHANGED <<wal, sender, inflight, topic, acked, origin, failed>>
  PROVE  /\ TypeSrc' /\ TypeSink'
         /\ InvPhase' /\ InvStream' /\ InvCounters' /\ InvNumbered' /\ InvOrder'
         /\ InvCovered' /\ InvResume' /\ InvConsistent' /\ InvOrigin'
<1>1. consistent' \in BOOLEAN
  BY Zenon DEF Halt
<1>2. TypeSrc' /\ TypeSink'
  BY <1>1, ConfigAssumption DEF IInv, TypeOK, TypeSrc, TypeSink, Halt, NoCheckpoint, Checkpoints
<1>3. InvPhase' /\ InvStream' /\ InvCounters' /\ InvResume' /\ InvConsistent'
  BY DEF IInv, Halt, InvPhase, InvStream, InvCounters, InvResume, InvConsistent
<1>4. InvNumbered' /\ InvOrigin'
  BY DEF IInv, Halt, InvNumbered, KeysNamePositions, InvOrigin
<1> QED
  BY <1>2, <1>3, <1>4, Frames DEF IInv

\* An orderly end reports a last time and forgets the rest.
LEMMA ExitStep == IInv /\ Exit => IInv'
<1> SUFFICES ASSUME IInv, Exit PROVE IInv'
  OBVIOUS
<1> USE DEF pgVars, srcVars, sinkVars, trkVars, histVars
<1>1. confirmed' = confirmed \/ (/\ srcState = "on"
                                 /\ confirmed' = IF confirmed >= ackLsn THEN confirmed ELSE ackLsn)
  BY MaxOfTwo DEF IInv, TypeOK, TypePg, TypeSrc, Exit, Confirm, ReportedLSN
<1>2. TypePg' /\ TypeRest'
  BY <1>1 DEF IInv, TypeOK, TypePg, TypeSrc, TypeRest, Exit, Halt
<1>3. InvSlot'
  BY <1>1 DEF IInv, TypeOK, TypePg, TypeSrc, Exit, Halt, InvSlot, Bounded, LastMsg, InvPhase
<1> QED
  BY <1>2, <1>3, HaltFacts DEF IInv, TypeOK, Exit

\* A crash forgets the process, not what is in flight.
LEMMA CrashStep == IInv /\ Crash => IInv'
<1> SUFFICES ASSUME IInv, Crash PROVE IInv'
  OBVIOUS
<1> USE DEF pgVars, srcVars, sinkVars, trkVars, histVars
<1>1. TypePg' /\ TypeRest'
  BY ConfigAssumption DEF IInv, TypeOK, TypePg, TypeRest, Crash, Halt
<1>2. InvSlot'
  BY DEF IInv, Crash, Halt, InvSlot, Bounded, LastMsg
<1> QED
  BY <1>1, <1>2, HaltFacts DEF IInv, TypeOK, Crash

\* PGXSource.Commit takes over a position that was published.
LEMMA SrcCommitStep == IInv /\ SrcCommit => IInv'
<1> SUFFICES ASSUME IInv, SrcCommit PROVE IInv'
  OBVIOUS
<1> USE DEF pgVars, srcVars, sinkVars, trkVars, histVars
<1>1. /\ committed' \in Seq(Checkpoints) /\ Head(committed) = committed[1]
      /\ 1 \in DOMAIN committed /\ Head(committed) \in Checkpoints
      /\ \A i \in DOMAIN committed' :
           i + 1 \in DOMAIN committed /\ committed'[i] = committed[i + 1]
  BY TailFacts DEF IInv, TypeOK, TypeSink, SrcCommit
<1>2. topic # <<>> /\ Head(committed).lsn <= LastMsg.lsn /\ LastMsg \in Msgs
  BY <1>1, Elements DEF IInv, InvSlot, LastMsg
<1>3. ackLsn' = ackLsn \/ ackLsn' = Head(committed).lsn
  BY DEF SrcCommit, CommitLSN
<1>4. LastMsg.lsn \in 1..MaxTx /\ Head(committed).lsn \in Nat
  BY <1>1, <1>2, MsgIff DEF Txs, Checkpoints
<1>5. TypeSrc' /\ TypeSink'
  BY <1>1, <1>2, <1>3, <1>4, ConfigAssumption DEF IInv, TypeOK, TypeSrc, TypeSink, SrcCommit
<1>6. InvPhase'
  <2>1. sinkState \notin {"off", "fenced", "ready"}
    BY DEF IInv, InvPhase, SrcCommit
  <2> QED
    BY <2>1 DEF IInv, InvPhase, SrcCommit
<1>7. InvSlot'
  BY <1>1, <1>2, <1>3 DEF IInv, SrcCommit, InvSlot, Bounded, LastMsg
<1> QED
  BY <1>5, <1>6, <1>7, Frames DEF IInv, TypeOK, SrcCommit

\* The callback passes on the position of a published message.
LEMMA SendCallbackStep == IInv /\ SendCallback => IInv'
<1> SUFFICES ASSUME IInv, SendCallback PROVE IInv'
  OBVIOUS
<1> USE DEF pgVars, srcVars, sinkVars, trkVars, histVars
<1> DEFINE R == [cp : Checkpoints, id : Nat]
<1>1. /\ receipts' \in Seq(R) /\ Head(receipts) = receipts[1]
      /\ 1 \in DOMAIN receipts /\ Head(receipts) \in R
      /\ \A i \in DOMAIN receipts' :
           i + 1 \in DOMAIN receipts /\ receipts'[i] = receipts[i + 1]
  BY TailFacts DEF IInv, TypeOK, TypeSink, SendCallback
<1>2. /\ committed' \in Seq(Checkpoints) /\ Len(committed) \in Nat
      /\ DOMAIN committed' = DOMAIN committed \cup {Len(committed) + 1}
      /\ \A i \in DOMAIN committed : committed'[i] = committed[i]
      /\ committed'[Len(committed) + 1] = Head(receipts).cp
  BY <1>1, AppendFacts, SeqFacts DEF IInv, TypeOK, TypeSink, SendCallback
<1>3. TypeSink' /\ TypeRest'
  BY <1>1, <1>2 DEF IInv, TypeOK, TypeSink, TypeRest, SendCallback
<1>4. InvPhase'
  <2>1. sinkState \notin {"off", "fenced", "ready"}
    BY DEF IInv, InvPhase, SendCallback
  <2> QED
    BY <2>1 DEF IInv, InvPhase, SendCallback
<1>5. InvSlot'
  BY <1>1, <1>2 DEF IInv, SendCallback, InvSlot, Bounded, LastMsg
<1> QED
  BY <1>3, <1>4, <1>5, Frames DEF IInv, TypeOK, SendCallback

\* Capture starts the stream at or before the message to continue with.
LEMMA CaptureStep == IInv /\ Capture => IInv'
<1> SUFFICES ASSUME IInv, Capture PROVE IInv'
  OBVIOUS
<1> USE DEF pgVars, srcVars, sinkVars, trkVars, histVars
<1> DEFINE slot  == IF confirmed = 0 THEN wal + 1 ELSE confirmed
           start == StartPosition(wal + 1)
           from  == IF start >= slot THEN start ELSE slot
<1>1. /\ confirmed' = slot /\ ackLsn' = start /\ currentLsn' = start
      /\ currentSeq' = (IF prev.lsn # 0 THEN prev.seq ELSE 0)
      /\ srcState' = "on" /\ sinkState' = "on" /\ changes' = <<>>
      /\ UNCHANGED <<wal, prev, consistent, inflight, receipts, committed, topic,
                     cursor, acked, failed, faults>>
  BY DEF Capture
<1>2. /\ inflight = <<>> /\ receipts = <<>> /\ committed = <<>> /\ ~consistent
      /\ prev = IF topic = <<>> THEN NoCheckpoint ELSE LastMsg
  BY DEF IInv, InvPhase, InvResume, Capture
<1>3. /\ wal \in 0..MaxTx /\ confirmed \in 0..(MaxTx + 1) /\ MaxTx \in Nat
      /\ StartLSN \in 0..(MaxTx + 1) /\ origin \in 0..(MaxTx + 1)
      /\ prev \in Checkpoints
  BY ConfigAssumption DEF IInv, TypeOK, TypePg, TypeRest, TypeSink
<1>4. ASSUME topic # <<>>
      PROVE  /\ LastMsg \in Msgs /\ prev = LastMsg /\ LastMsg.lsn \in 1..MaxTx
             /\ confirmed # 0 /\ start = LastMsg.lsn /\ slot <= start
             /\ origin <= LastMsg.lsn
  <2>1. LastMsg \in Msgs /\ prev = LastMsg /\ origin <= LastMsg.lsn
    BY <1>2, <1>4, Elements DEF IInv, LastMsg, InvOrigin
  <2>2. LastMsg.lsn \in 1..MaxTx
    BY <2>1, MsgIff DEF Txs
  <2>3. confirmed # 0 /\ confirmed <= LastMsg.lsn
    BY <1>4 DEF IInv, InvSlot, Bounded
  <2> QED
    BY <2>1, <2>2, <2>3 DEF StartPosition
<1>5. slot \in 1..(MaxTx + 1) /\ start \in 1..(MaxTx + 1)
  <2>1. CASE topic = <<>>
    BY <1>2, <1>3, <2>1 DEF StartPosition, NoCheckpoint
  <2>2. CASE topic # <<>>
    BY <1>3, <1>4, <2>2
  <2> QED
    BY <2>1, <2>2
<1>6. /\ from \in 1..(MaxTx + 1) /\ from >= slot /\ from >= start
      /\ sender' = Begin(from)
      /\ origin' = IF prev.lsn # 0 THEN origin ELSE from
  <2>1. Max({start, slot}) = from
    BY <1>5, MaxOfTwo
  <2> QED
    BY <1>5, <2>1 DEF Capture, StreamFrom
<1>7. origin' = IF topic = <<>> THEN from ELSE origin
  BY <1>2, <1>4, <1>6 DEF NoCheckpoint
<1>8. topic # <<>> => from = LastMsg.lsn
  BY <1>4
<1>9. /\ sender' \in Places /\ sender' \in Positions
      /\ sender'.lsn = from /\ sender'.seq = 0 /\ NextApply' = sender'
  <2>1. sender' \in Places
    BY <1>3, <1>6, MsgIff, ConfigAssumption DEF Places, Begin, Txs
  <2> QED
    BY <1>1, <1>6, <2>1, PlaceType DEF Begin, NextApply
<1>10. TypePg' /\ TypeRest' /\ TypeSrc' /\ TypeSink'
  <2>1. TypePg'
    BY <1>1, <1>5, <1>9 DEF IInv, TypeOK, TypePg
  <2>2. TypeRest'
    BY <1>1, <1>3, <1>6 DEF IInv, TypeOK, TypeRest
  <2>3. TypeSrc'
    BY <1>1, <1>3, <1>5 DEF IInv, TypeOK, TypeSrc, Checkpoints
  <2>4. TypeSink'
    BY <1>1 DEF IInv, TypeOK, TypeSink
  <2> QED
    BY <2>1, <2>2, <2>3, <2>4
<1>11. InvPhase' /\ InvCounters' /\ InvConsistent'
  BY <1>1, <1>2, <1>9 DEF InvPhase, InvCounters, InvConsistent
<1>12. InvStream'
  BY <1>1, <1>9 DEF InvStream, Places
<1>13. InvNumbered' /\ InvOrder'
  BY <1>1, Frames DEF IInv, InvNumbered, KeysNamePositions
<1>14. InvCovered'
  <2>1. CASE topic = <<>>
    BY <1>1, <1>2, <2>1 DEF InvCovered
  <2>2. CASE topic # <<>>
    BY <1>1, <1>7, <2>2, Frames DEF IInv
  <2> QED
    BY <2>1, <2>2
<1>15. InvResume'
  <2>1. CASE topic = <<>>
    BY <1>1, <1>2, <1>6, <1>7, <1>9, <2>1 DEF InvResume
  <2>2. CASE topic # <<>>
    <3>1. ~After(sender', Succ(LastMsg))
      BY <1>4, <1>8, <1>9, <2>2, SuccFacts, PlaceType DEF After
    <3> QED
      BY <1>1, <1>2, <1>9, <2>2, <3>1 DEF InvResume, LastMsg
  <2> QED
    BY <2>1, <2>2
<1>16. InvOrigin'
  <2>1. CASE topic = <<>>
    BY <1>1, <1>2, <1>6, <1>7, <1>9, <2>1 DEF InvOrigin
  <2>2. CASE topic # <<>>
    BY <1>1, <1>2, <1>4, <1>7, <1>8, <1>9, <2>2 DEF IInv, InvOrigin
  <2> QED
    BY <2>1, <2>2
<1>17. InvSlot'
  <2>1. CASE topic = <<>>
    BY <1>1, <1>2, <1>5, <1>6, <1>7, <2>1 DEF InvSlot, Bounded
  <2>2. CASE topic # <<>>
    BY <1>1, <1>2, <1>4, <1>5, <2>2 DEF InvSlot, Bounded, LastMsg
  <2> QED
    BY <2>1, <2>2
<1> QED
  BY <1>10, <1>11, <1>12, <1>13, <1>14, <1>15, <1>16, <1>17 DEF IInv, TypeOK

\* fetching numbers the next message with its place in the stream.
LEMMA FetchingStep == IInv /\ Fetching => IInv'
<1> SUFFICES ASSUME IInv, Fetching PROVE IInv'
  OBVIOUS
<1> USE DEF pgVars, srcVars, sinkVars, trkVars, histVars
<1> DEFINE new == [cp  |-> [lsn |-> currentLsn', seq |-> currentSeq'], msg |-> sender]
<1>1. sender \in Msgs /\ sender \in Places
  <2>1. sender \in Places /\ sender.lsn <= MaxTx
    <3>1. sender \in Places /\ sender.lsn <= wal /\ wal \in 0..MaxTx
      BY DEF IInv, TypeOK, TypePg, InvStream, Places, Fetching
    <3> QED
      BY <3>1, PlaceType, ConfigAssumption
  <2> QED
    BY <2>1, PlaceType, ConfigAssumption DEF Txs
<1>2. /\ sender.lsn \in Txs /\ sender.seq \in Nat /\ Size[sender.lsn] \in Nat
      /\ sender = [lsn |-> sender.lsn, seq |-> sender.seq]
  BY <1>1, MsgIff, PlaceType
<1>3. /\ changes' = Append(changes, new)
      /\ sender' = Succ(sender) /\ srcState = "on"
      /\ UNCHANGED <<srcState, sinkState, consistent, prev, topic, inflight, origin, failed>>
  BY DEF Fetching
<1>4. currentLsn' = sender.lsn /\ currentSeq' = sender.seq
  BY <1>2 DEF IInv, InvCounters, Fetching, NextSeq, IsBegin, IsCommit, Txs
<1>5. new.cp = sender /\ new.msg = sender /\ new \in Changes
  BY <1>1, <1>2, <1>4, PlaceType DEF Changes
<1>6. changes \in Seq(Changes)
  BY DEF IInv, TypeOK, TypeSrc
<1>7. /\ changes' \in Seq(Changes) /\ changes' # <<>>
      /\ Len(changes) \in Nat /\ Len(changes') = Len(changes) + 1
      /\ DOMAIN changes = 1..Len(changes)
      /\ DOMAIN changes' = DOMAIN changes \cup {Len(changes) + 1}
      /\ \A i \in DOMAIN changes : changes'[i] = changes[i]
      /\ changes'[Len(changes) + 1] = new
      /\ Len(changes) = 0 <=> changes = <<>>
  <2>1. Len(changes) \in Nat /\ DOMAIN changes = 1..Len(changes) /\ (Len(changes) = 0 <=> changes = <<>>)
    BY <1>6, SeqFacts
  <2> QED
    BY <1>3, <1>5, <1>6, <2>1, AppendFacts
<1>8. Succ(sender) \in Places
  BY <1>1, SuccFacts
<1>9. TypePg' /\ TypeSrc'
  BY <1>2, <1>4, <1>7, <1>8, PlaceType DEF IInv, TypeOK, TypePg, TypeSrc, Fetching, Txs
<1>10. NextApply' = NextApply
  <2>1. CASE changes = <<>>
    <3>1. changes'[1] = new
      BY <1>7, <2>1
    <3> QED
      BY <1>5, <1>7, <2>1, <3>1 DEF NextApply
  <2>2. CASE changes # <<>>
    <3>1. changes'[1] = changes[1]
      BY <1>7, <2>2
    <3> QED
      BY <1>7, <2>2, <3>1 DEF NextApply
  <2> QED
    BY <2>1, <2>2
<1>11. InvStream'
  <2>1. sender' \in Msgs \cup {Begin(MaxTx + 1)}
    BY <1>3, <1>8 DEF Places
  <2>2. ASSUME NEW i \in 1..(Len(changes') - 1)
        PROVE  changes'[i + 1].msg = Succ(changes'[i].msg)
    <3>1. CASE i < Len(changes)
      <4>1. i \in DOMAIN changes /\ i + 1 \in DOMAIN changes /\ i \in 1..(Len(changes) - 1)
        BY <1>7, <3>1
      <4>2. changes[i + 1].msg = Succ(changes[i].msg)
        BY <4>1 DEF IInv, InvStream
      <4>3. changes'[i] = changes[i] /\ changes'[i + 1] = changes[i + 1]
        BY <1>7, <4>1
      <4> QED
        BY <4>2, <4>3
    <3>2. CASE i = Len(changes)
      <4>1. i \in DOMAIN changes /\ changes # <<>>
        BY <1>7, <3>2
      <4> QED
        BY <1>5, <1>7, <3>2, <4>1 DEF IInv, InvStream
    <3>3. i < Len(changes) \/ i = Len(changes)
      <4>1. Len(changes) \in Nat /\ Len(changes') = Len(changes) + 1
        BY <1>7
      <4>2. i \in Nat /\ i <= Len(changes)
        BY <4>1
      <4> QED
        BY <4>1, <4>2
    <3> QED
      BY <3>1, <3>2, <3>3
  <2>3. sender' = Succ(changes'[Len(changes')].msg)
    BY <1>3, <1>5, <1>7
  <2> QED
    BY <2>1, <2>2, <2>3 DEF InvStream
<1>12. InvCounters'
  BY <1>1, <1>3, <1>4, SuccFacts DEF InvCounters
<1>13. InvNumbered'
  BY <1>3, <1>5, <1>7 DEF IInv, InvNumbered, KeysNamePositions
<1>14. InvPhase'
  <2>1. sinkState \notin {"off", "fenced", "ready"}
    BY <1>3 DEF IInv, InvPhase
  <2> QED
    BY <2>1 DEF IInv, InvPhase, Fetching
<1>15. InvResume' /\ InvConsistent' /\ InvOrigin'
  BY <1>3, <1>10 DEF IInv, InvResume, InvConsistent, InvOrigin, LastMsg, Settled, Published, InFlight
<1> QED
  BY <1>9, <1>11, <1>12, <1>13, <1>14, <1>15, Frames DEF IInv, TypeOK, Fetching

\* Apply drops what the topic has and sends what follows, without a hole.
LEMMA ApplyStep == IInv /\ Apply => IInv'
<1> SUFFICES ASSUME IInv, Apply PROVE IInv'
  OBVIOUS
<1> USE DEF pgVars, srcVars, sinkVars, trkVars, histVars
<1> DEFINE change == changes[1]
           m0 == change.msg
<1>1. /\ changes' \in Seq(Changes) /\ Head(changes) = change /\ change \in Changes
      /\ NextApply = m0 /\ NextApply' = Succ(m0) /\ InvStream'
      /\ \A i \in DOMAIN changes' : i + 1 \in DOMAIN changes /\ changes'[i] = changes[i + 1]
  BY TakeChange DEF IInv, Apply
<1>2. m0 \in Msgs /\ m0 \in Checkpoints /\ change.cp = m0 /\ m0 \in Places
  BY Elements DEF IInv, InvNumbered, Apply
<1>3. /\ sinkState = "on" /\ sinkState' = "on" /\ srcState # "off"
      /\ UNCHANGED <<prev, topic, origin, failed, sender, confirmed, ackLsn, srcState,
                     receipts, committed>>
  BY DEF IInv, InvPhase, Apply
<1>4. prev \in Checkpoints
  BY DEF IInv, TypeOK, TypeSink
<1>5. /\ Succ(m0) \in Places /\ Succ(m0) \in Checkpoints
      /\ After(Succ(m0), m0) /\ Succ(m0).lsn >= m0.lsn
      /\ \A n \in Msgs : After(Succ(m0), n) => n = m0 \/ After(m0, n)
  BY <1>2, SuccFacts, PlaceType DEF Places
<1>6. origin <= m0.lsn /\ origin <= Succ(m0).lsn
  <2>1. origin <= m0.lsn
    BY <1>1, <1>3 DEF IInv, InvOrigin
  <2> QED
    BY <1>2, <1>5, <2>1, PlaceType DEF IInv, TypeOK, TypeRest
<1>7. \A i \in DOMAIN changes' : changes'[i].cp = changes'[i].msg
  BY <1>1 DEF IInv, InvNumbered
<1>8. TypeSrc'
  BY <1>1 DEF IInv, TypeOK, TypeSrc, Apply
<1>9. CASE ~Accepts(change)
  <2>1. ~consistent /\ ~consistent' /\ inflight' = inflight /\ inflight = <<>>
    BY <1>1, <1>3, <1>9 DEF IInv, InvPhase, Apply, Accepts
  <2>2. ~After(m0, prev)
    BY <1>2, <1>9 DEF Accepts
  <2>3. topic # <<>> /\ prev = LastMsg
    <3>1. ASSUME topic = <<>> PROVE FALSE
      <4>1. prev = NoCheckpoint
        BY <1>3, <2>1, <3>1 DEF IInv, InvResume
      <4> QED
        BY <1>2, <2>2, <4>1, PlaceType DEF After, NoCheckpoint
    <3> QED
      BY <1>3, <2>1, <3>1 DEF IInv, InvResume
  <2>4. LastMsg \in Msgs /\ LastMsg \in Places
    BY <2>3, Elements DEF IInv, LastMsg
  <2>5. ~After(Succ(m0), Succ(LastMsg))
    <3>1. Succ(LastMsg) \in Checkpoints /\ Succ(LastMsg) \in Places /\ After(Succ(LastMsg), LastMsg)
      BY <2>4, SuccFacts, PlaceType
    <3>2. After(Succ(LastMsg), m0)
      BY <1>2, <1>4, <2>2, <2>3, <3>1, AfterOrder
    <3> QED
      BY <1>2, <3>1, <3>2, SuccFacts
  <2>6. consistent' \in BOOLEAN
    BY <1>1, <1>9, Zenon DEF Apply, Accepts, IInv, TypeOK, TypeSink
  <2>7. TypeSink'
    BY <2>1, <2>6 DEF IInv, TypeOK, TypeSink, Apply
  <2>8. InvResume'
    BY <1>1, <1>3, <2>1, <2>3, <2>5 DEF InvResume, LastMsg
  <2>9. InvPhase' /\ InvConsistent'
    BY <1>3, <2>1 DEF InvPhase, InvConsistent
  <2>10. InvNumbered'
    BY <1>3, <1>7, <2>1 DEF IInv, InvNumbered, KeysNamePositions
  <2>11. InvOrigin'
    BY <1>1, <1>3, <1>6, <2>1 DEF IInv, InvOrigin
  <2> QED
    BY <1>1, <1>8, <2>1, <2>7, <2>8, <2>9, <2>10, <2>11, Frames DEF IInv, TypeOK, Apply
<1>10. CASE Accepts(change)
  <2>1. consistent' /\ inflight' = Append(inflight, change)
    BY <1>1, <1>10 DEF Apply
  <2>2. /\ inflight \in Seq(Changes) /\ inflight' \in Seq(Changes) /\ Len(inflight) \in Nat
        /\ DOMAIN inflight = 1..Len(inflight)
        /\ DOMAIN inflight' = DOMAIN inflight \cup {Len(inflight) + 1}
        /\ \A i \in DOMAIN inflight : inflight'[i] = inflight[i]
        /\ inflight'[Len(inflight) + 1] = change
    <3>1. inflight \in Seq(Changes) /\ Len(inflight) \in Nat /\ DOMAIN inflight = 1..Len(inflight)
      BY SeqFacts DEF IInv, TypeOK, TypeSink
    <3> QED
      BY <1>1, <2>1, <3>1, AppendFacts
  \* The accepted message follows everything sent before without a hole.
  <2>3. /\ \A i \in DOMAIN topic : After(m0, topic[i].msg)
        /\ \A i \in DOMAIN inflight : After(m0, inflight[i].msg)
        /\ \A m \in Msgs : origin <= m.lsn /\ After(m0, m) => Settled(m)
    <3>1. CASE consistent
      BY <1>1, <1>3, <3>1 DEF IInv, InvConsistent
    <3>2. CASE ~consistent /\ topic = <<>>
      <4>1. inflight = <<>> /\ m0 = Begin(origin)
        BY <1>1, <1>3, <3>2 DEF IInv, InvPhase, InvResume
      <4>2. \A m \in Msgs : origin <= m.lsn => ~After(m0, m)
        BY <1>2, <4>1, PlaceType, Elements DEF IInv, After, Begin, TypeOK, TypeRest
      <4> QED
        BY <3>2, <4>1, <4>2
    <3>3. CASE ~consistent /\ topic # <<>>
      <4>1. /\ inflight = <<>> /\ prev = LastMsg /\ ~After(m0, Succ(LastMsg))
            /\ LastMsg \in Msgs /\ Len(topic) \in DOMAIN topic /\ DOMAIN topic = 1..Len(topic)
            /\ Len(topic) \in Nat
        BY <1>1, <1>3, <3>3, Elements DEF IInv, InvPhase, InvResume, LastMsg
      <4>2. After(m0, LastMsg)
        BY <1>2, <1>10, <3>3, <4>1 DEF Accepts
      <4>3. \A i \in DOMAIN topic : After(m0, topic[i].msg)
        <5> SUFFICES ASSUME NEW i \in DOMAIN topic PROVE After(m0, topic[i].msg)
          OBVIOUS
        <5>1. i = Len(topic) \/ After(LastMsg, topic[i].msg)
          BY <4>1 DEF IInv, InvOrder, TopicInOrder, LastMsg
        <5> QED
          BY <1>2, <4>1, <4>2, <5>1, AfterOrder, Elements DEF IInv, LastMsg
      <4>4. ASSUME NEW m \in Msgs, origin <= m.lsn, After(m0, m)
            PROVE  Settled(m)
        <5>1. /\ Succ(LastMsg) \in Checkpoints /\ m \in Checkpoints /\ m \in Places
              /\ LastMsg \in Checkpoints
          BY <4>1, SuccFacts, PlaceType, Elements DEF IInv
        <5>2. After(Succ(LastMsg), m)
          BY <1>2, <4>1, <4>4, <5>1, AfterOrder
        <5>3. m = LastMsg \/ After(LastMsg, m)
          BY <4>1, <5>1, <5>2, SuccFacts
        <5> QED
          BY <4>1, <4>4, <5>3 DEF IInv, InvCovered, Settled, Published, LastMsg
      <4> QED
        BY <4>1, <4>3, <4>4
    <3> QED
      BY <3>1, <3>2, <3>3
  <2>4. \A m \in Msgs : m = m0 \/ Settled(m) => Settled(m)'
    <3> SUFFICES ASSUME NEW m \in Msgs, m = m0 \/ Settled(m) PROVE Settled(m)'
      OBVIOUS
    <3>1. CASE m = m0 \/ InFlight(m)
      BY <2>2, <3>1 DEF Settled, InFlight
    <3>2. CASE Published(m) \/ m \in failed
      BY <1>3, <3>2 DEF Settled, Published
    <3> QED
      BY <3>1, <3>2 DEF Settled
  <2>5. consistent' \in BOOLEAN
    BY <1>1, <1>10, Zenon DEF Apply, Accepts, IInv, TypeOK, TypeSink
  <2>6. TypeSink'
    BY <2>2, <2>5 DEF IInv, TypeOK, TypeSink, Apply
  <2>7. InvPhase' /\ InvResume'
    BY <1>3, <2>1 DEF IInv, InvPhase, InvResume
  <2>8. InvNumbered'
    BY <1>2, <1>3, <1>7, <2>2 DEF IInv, InvNumbered, KeysNamePositions
  <2>9. InvOrder'
    BY <1>3, <2>2, <2>3 DEF IInv, InvOrder, TopicInOrder
  <2>10. InvCovered'
    BY <1>3, <2>2, <2>3, <2>4 DEF IInv, InvCovered
  <2>11. InvConsistent'
    <3>1. \A i \in DOMAIN topic : After(Succ(m0), topic[i].msg)
      BY <1>2, <1>5, <2>3, AfterOrder, Elements DEF IInv
    <3>2. \A i \in DOMAIN inflight : After(Succ(m0), inflight[i].msg)
      BY <1>2, <1>5, <2>3, AfterOrder, Elements DEF IInv
    <3>3. \A i \in DOMAIN inflight' : After(Succ(m0), inflight'[i].msg)
      BY <1>5, <2>2, <3>2
    <3>4. \A m \in Msgs : origin <= m.lsn /\ After(Succ(m0), m) => Settled(m)'
      BY <1>5, <2>3, <2>4
    <3> QED
      BY <1>1, <1>3, <3>1, <3>3, <3>4 DEF InvConsistent
  <2>12. InvOrigin'
    BY <1>1, <1>3, <1>6, <2>2 DEF IInv, InvOrigin
  <2>13. InvSlot'
    BY <1>3 DEF IInv, InvSlot, Bounded, LastMsg
  <2> QED
    BY <1>1, <1>8, <2>6, <2>7, <2>8, <2>9, <2>10, <2>11, <2>12, <2>13, Frames DEF IInv, TypeOK, Apply
<1> QED
  BY <1>9, <1>10

\* Taking the oldest message out of flight.
LEMMA TakeInflight ==
  ASSUME IInv, inflight # <<>>, inflight' = Tail(inflight)
  PROVE  /\ inflight' \in Seq(Changes)
         /\ 1 \in DOMAIN inflight /\ Head(inflight) = inflight[1] /\ Head(inflight) \in Changes
         /\ inflight[1].msg \in Msgs /\ inflight[1].cp = inflight[1].msg
         /\ \A i \in DOMAIN inflight' :
              i + 1 \in DOMAIN inflight /\ inflight'[i] = inflight[i + 1]
         /\ \A i \in DOMAIN inflight :
              i = 1 \/ (i - 1 \in DOMAIN inflight' /\ inflight'[i - 1] = inflight[i])
         /\ \A i, j \in DOMAIN inflight' : i < j => After(inflight'[j].msg, inflight'[i].msg)
         /\ \A i \in DOMAIN inflight' : After(inflight'[i].msg, inflight[1].msg)
         /\ \A m : InFlight(m) => m = inflight[1].msg \/ InFlight(m)'
<1>1. inflight \in Seq(Changes) /\ DOMAIN inflight = 1..Len(inflight) /\ Len(inflight) \in Nat
  BY SeqFacts DEF IInv, TypeOK, TypeSink
<1>2. /\ inflight' \in Seq(Changes)
      /\ 1 \in DOMAIN inflight /\ Head(inflight) = inflight[1] /\ Head(inflight) \in Changes
      /\ \A i \in DOMAIN inflight' :
           i + 1 \in DOMAIN inflight /\ inflight'[i] = inflight[i + 1]
      /\ \A i \in DOMAIN inflight :
           i = 1 \/ (i - 1 \in DOMAIN inflight' /\ inflight'[i - 1] = inflight[i])
  BY <1>1, TailFacts
<1>3. \A i \in DOMAIN inflight' : i \in Nat \ {0}
  BY <1>2, SeqFacts
<1>4. inflight[1].msg \in Msgs /\ inflight[1].cp = inflight[1].msg
  BY <1>2, Elements DEF IInv, InvNumbered
<1>5. \A i, j \in DOMAIN inflight' : i < j => After(inflight'[j].msg, inflight'[i].msg)
  BY <1>2, <1>3 DEF IInv, InvOrder
<1>6. \A i \in DOMAIN inflight' : After(inflight'[i].msg, inflight[1].msg)
  BY <1>2, <1>3 DEF IInv, InvOrder
<1>7. \A m : InFlight(m) => m = inflight[1].msg \/ InFlight(m)'
  BY <1>2 DEF InFlight
<1> QED
  BY <1>2, <1>4, <1>5, <1>6, <1>7

\* A failed send is accounted for in failed.
LEMMA SendErrorStep == IInv /\ SendError => IInv'
<1> SUFFICES ASSUME IInv, SendError PROVE IInv'
  OBVIOUS
<1> USE DEF pgVars, srcVars, sinkVars, trkVars, histVars
<1> DEFINE m0 == inflight[1].msg
<1>1. /\ inflight # <<>> /\ inflight' = Tail(inflight)
      /\ topic' = topic /\ origin' = origin
  BY DEF SendError
<1>2. /\ inflight' \in Seq(Changes)
      /\ Head(inflight) = inflight[1] /\ m0 \in Msgs
      /\ \A i \in DOMAIN inflight' :
           i + 1 \in DOMAIN inflight /\ inflight'[i] = inflight[i + 1]
      /\ \A i, j \in DOMAIN inflight' : i < j => After(inflight'[j].msg, inflight'[i].msg)
      /\ \A m : InFlight(m) => m = m0 \/ InFlight(m)'
  BY <1>1, TakeInflight
<1>3. failed' = failed \cup {m0}
  BY <1>2 DEF SendError
<1>4. \A m \in Msgs : Settled(m) => Settled(m)'
  BY <1>1, <1>2, <1>3 DEF Settled, Published
<1>5. TypeSink' /\ TypeRest'
  BY <1>2, <1>3, ConfigAssumption DEF IInv, TypeOK, TypeSink, TypeRest, SendError
<1>6. InvPhase' /\ InvResume' /\ InvConsistent'
  BY DEF IInv, InvPhase, InvResume, InvConsistent, SendError
<1>7. InvNumbered' /\ InvOrder' /\ InvOrigin'
  BY <1>1, <1>2 DEF IInv, InvNumbered, KeysNamePositions, InvOrder, TopicInOrder,
     InvOrigin, SendError
<1>8. InvCovered'
  BY <1>1, <1>2, <1>4 DEF IInv, InvCovered
<1>9. InvSlot'
  BY DEF IInv, InvSlot, Bounded, LastMsg, SendError
<1> QED
  BY <1>5, <1>6, <1>7, <1>8, <1>9, Frames DEF IInv, TypeOK, SendError

\* The topic grows by a message that comes after all of it.
LEMMA BrokerPersistStep == IInv /\ BrokerPersist => IInv'
<1> SUFFICES ASSUME IInv, BrokerPersist PROVE IInv'
  OBVIOUS
<1> USE DEF pgVars, srcVars, sinkVars, trkVars, histVars
<1> DEFINE m0 == inflight[1].msg
           entry == [key |-> ToKey(inflight[1].cp), msg |-> m0]
           R == [cp : Checkpoints, id : Nat]
<1>1. /\ inflight # <<>> /\ inflight' = Tail(inflight)
      /\ UNCHANGED <<sender, changes, srcState, sinkState, prev, consistent, committed,
                     origin, failed, confirmed, ackLsn>>
  BY DEF BrokerPersist
<1>2. /\ inflight' \in Seq(Changes)
      /\ 1 \in DOMAIN inflight /\ Head(inflight) = inflight[1] /\ Head(inflight) \in Changes
      /\ m0 \in Msgs /\ inflight[1].cp = m0
      /\ \A i \in DOMAIN inflight' :
           i + 1 \in DOMAIN inflight /\ inflight'[i] = inflight[i + 1]
      /\ \A i, j \in DOMAIN inflight' : i < j => After(inflight'[j].msg, inflight'[i].msg)
      /\ \A i \in DOMAIN inflight' : After(inflight'[i].msg, m0)
      /\ \A m : InFlight(m) => m = m0 \/ InFlight(m)'
  BY <1>1, TakeInflight
<1>3. m0 \in Checkpoints /\ m0.lsn \in Nat
  BY <1>2, Elements DEF IInv, Checkpoints
<1>4. entry \in Entries /\ entry.msg = m0 /\ FromKey(entry.key) = m0
  BY <1>2, <1>3, KeyRoundTrip DEF Entries
<1>5. topic \in Seq(Entries) /\ Len(topic) \in Nat /\ DOMAIN topic = 1..Len(topic)
  BY SeqFacts DEF IInv, TypeOK, TypeRest
<1>6. /\ topic' \in Seq(Entries) /\ topic' # <<>> /\ Len(topic') = Len(topic) + 1
      /\ DOMAIN topic' = DOMAIN topic \cup {Len(topic) + 1}
      /\ \A i \in DOMAIN topic : topic'[i] = topic[i]
      /\ topic'[Len(topic) + 1] = entry
  <2>1. topic' = Append(topic, entry)
    BY <1>2 DEF BrokerPersist
  <2> QED
    BY <1>4, <1>5, <2>1, AppendFacts
<1>7. LastMsg' = m0 /\ \A i \in DOMAIN topic : After(m0, topic[i].msg)
  BY <1>2, <1>4, <1>6 DEF LastMsg, IInv, InvOrder
<1>8. sinkState \notin {"fenced", "ready"} /\ ~(sinkState = "on" /\ ~consistent)
  BY <1>1 DEF IInv, InvPhase
<1>9. \A m \in Msgs : m = m0 \/ Settled(m) => Settled(m)'
  <2> SUFFICES ASSUME NEW m \in Msgs, m = m0 \/ Settled(m) PROVE Settled(m)'
    OBVIOUS
  <2>1. CASE m = m0
    BY <1>4, <1>6, <2>1 DEF Settled, Published
  <2>2. CASE Published(m)
    BY <1>6, <2>2 DEF Settled, Published
  <2>3. CASE InFlight(m)
    BY <1>2, <2>1, <2>3 DEF Settled
  <2>4. CASE m \in failed
    BY <1>1, <2>4 DEF Settled
  <2> QED
    BY <2>1, <2>2, <2>3, <2>4 DEF Settled
<1>10. topic # <<>> => LastMsg.lsn <= m0.lsn
  BY <1>3, <1>5, <1>7, AfterOrder, Elements DEF IInv, LastMsg
<1>11. \A lsn \in Nat : Bounded(lsn) => lsn <= m0.lsn
  <2>1. origin <= m0.lsn /\ origin \in Nat
    BY <1>2 DEF IInv, InvOrigin, TypeOK, TypeRest
  <2>2. topic # <<>> => LastMsg.lsn \in Nat
    BY Elements DEF IInv, LastMsg, Checkpoints
  <2> QED
    BY <1>3, <1>10, <2>1, <2>2 DEF Bounded
<1>12. /\ receipts' \in Seq(R)
       /\ sinkState = "off" => receipts' = receipts
       /\ \A i \in DOMAIN receipts' :
            \/ i \in DOMAIN receipts /\ receipts'[i] = receipts[i]
            \/ receipts'[i].cp = m0
  <2>1. receipts \in Seq(R)
    BY DEF IInv, TypeOK, TypeSink
  <2>2. CASE sinkState = "off"
    BY <2>1, <2>2 DEF BrokerPersist
  <2>3. CASE sinkState # "off"
    <3> DEFINE e == [cp |-> inflight[1].cp, id |-> Len(topic) + 1]
    <3>1. e \in R /\ e.cp = m0 /\ receipts' = Append(receipts, e)
      BY <1>2, <1>3, <1>5, <2>3 DEF BrokerPersist
    <3>2. /\ receipts' \in Seq(R)
          /\ DOMAIN receipts' = DOMAIN receipts \cup {Len(receipts) + 1}
          /\ \A i \in DOMAIN receipts : receipts'[i] = receipts[i]
          /\ receipts'[Len(receipts) + 1] = e
      BY <2>1, <3>1, AppendFacts
    <3> QED
      BY <2>3, <3>1, <3>2
  <2> QED
    BY <2>2, <2>3
<1>13. TypeSink' /\ TypeRest'
  BY <1>2, <1>6, <1>12 DEF IInv, TypeOK, TypeSink, TypeRest, BrokerPersist
<1>14. InvPhase'
  BY <1>1, <1>8, <1>12 DEF IInv, InvPhase
<1>15. InvResume'
  BY <1>1, <1>8 DEF InvResume
<1>16. InvNumbered'
  BY <1>1, <1>2, <1>4, <1>6 DEF IInv, InvNumbered, KeysNamePositions
<1>17. InvOrder'
  <2>1. TopicInOrder'
    BY <1>4, <1>5, <1>6, <1>7 DEF IInv, InvOrder, TopicInOrder
  <2>2. \A i \in DOMAIN topic', j \in DOMAIN inflight' :
          After(inflight'[j].msg, topic'[i].msg)
    BY <1>2, <1>4, <1>6 DEF IInv, InvOrder
  <2> QED
    BY <1>2, <2>1, <2>2 DEF InvOrder
<1>18. InvCovered'
  BY <1>1, <1>2, <1>4, <1>6, <1>9 DEF IInv, InvCovered
<1>19. InvConsistent'
  <2> SUFFICES ASSUME sinkState = "on", consistent PROVE InvConsistent'
    BY <1>1 DEF InvConsistent
  <2>1. NextApply' = NextApply
    BY <1>1 DEF NextApply
  <2>2. /\ \A i \in DOMAIN topic : After(NextApply, topic[i].msg)
        /\ \A i \in DOMAIN inflight : After(NextApply, inflight[i].msg)
        /\ \A m \in Msgs : origin <= m.lsn /\ After(NextApply, m) => Settled(m)
    BY DEF IInv, InvConsistent
  <2> QED
    BY <1>1, <1>2, <1>4, <1>6, <1>9, <2>1, <2>2 DEF InvConsistent
<1>20. InvOrigin'
  BY <1>1, <1>2, <1>4, <1>6 DEF IInv, InvOrigin, NextApply
<1>21. InvSlot'
  <2>1. Bounded(confirmed)' /\ (srcState # "off" => Bounded(ackLsn)')
    BY <1>1, <1>6, <1>7, <1>11 DEF IInv, InvSlot, Bounded, TypeOK, TypePg, TypeSrc
  <2>2. \A i \in DOMAIN receipts' : receipts'[i].cp.lsn <= LastMsg'.lsn
    <3> SUFFICES ASSUME NEW i \in DOMAIN receipts' PROVE receipts'[i].cp.lsn <= m0.lsn
      BY <1>7
    <3>1. CASE receipts'[i].cp = m0
      BY <1>3, <3>1
    <3>2. CASE i \in DOMAIN receipts /\ receipts'[i] = receipts[i]
      <4>1. receipts[i].cp.lsn \in Nat /\ topic # <<>> /\ receipts[i].cp.lsn <= LastMsg.lsn
        <5>1. receipts \in Seq(R)
          BY DEF IInv, TypeOK, TypeSink
        <5>2. receipts[i] \in R
          BY <3>2, <5>1, SeqFacts
        <5> QED
          BY <3>2, <5>2 DEF IInv, InvSlot, Checkpoints
      <4>2. Bounded(receipts[i].cp.lsn)
        BY <4>1 DEF Bounded
      <4> QED
        BY <1>11, <3>2, <4>1, <4>2
    <3> QED
      BY <1>12, <3>1, <3>2
  <2>3. \A i \in DOMAIN committed' : committed'[i].lsn <= LastMsg'.lsn
    <3> SUFFICES ASSUME NEW i \in DOMAIN committed PROVE committed[i].lsn <= m0.lsn
      BY <1>1, <1>7
    <3>1. committed[i].lsn \in Nat /\ topic # <<>> /\ committed[i].lsn <= LastMsg.lsn
      <4>1. committed \in Seq(Checkpoints)
        BY DEF IInv, TypeOK, TypeSink
      <4>2. committed[i] \in Checkpoints
        BY <4>1, SeqFacts
      <4> QED
        BY <4>2 DEF IInv, InvSlot, Checkpoints
    <3> QED
      BY <1>11, <3>1 DEF Bounded
  <2>4. confirmed' # 0
    BY <1>1 DEF IInv, InvSlot
  <2> QED
    BY <1>1, <1>6, <2>1, <2>2, <2>3, <2>4 DEF InvSlot
<1> QED
  BY <1>13, <1>14, <1>15, <1>16, <1>17, <1>18, <1>19, <1>20, <1>21, Frames
  DEF IInv, TypeOK, BrokerPersist

-----------------------------------------------------------------------------
(* The theorems.                                                            *)

\* No step of the pipeline breaks the invariant.
LEMMA NextIInv ==
  ASSUME Tracker = "pulsar"
  PROVE  IInv /\ [Next]_vars => IInv'
<1> SUFFICES ASSUME IInv, [Next]_vars PROVE IInv'
  OBVIOUS
<1>1. CASE UNCHANGED vars
  BY <1>1, Frames DEF vars, IInv, TypeOK, pgVars, srcVars, sinkVars, trkVars, histVars
<1>2. CASE Next
  BY <1>2, PgCommitStep, CreateProducerStep, SetupLastStep, CaptureStep, FetchingStep,
     ReportLSNStep, SrcCommitStep, SrcErrorStep, ApplyStep, BrokerPersistStep,
     SendCallbackStep, SendErrorStep, TryAckStep, SinkPhaseStep, DrainStep, ExitStep,
     CrashStep DEF Next
<1> QED
  BY <1>1, <1>2

\* The inductive invariant holds in every reachable state of the pipeline with
\* the tracker that reads the topic.
THEOREM Invariance ==
  ASSUME Tracker = "pulsar"
  PROVE  Spec => []IInv
<1>1. Init => IInv
  BY InitIInv
<1>2. IInv /\ [Next]_vars => IInv'
  BY NextIInv
<1> QED
  BY <1>1, <1>2, PTL DEF Spec

\* The variables keep their types: no position leaves the stream and every key
\* a restart reads can be parsed.
THEOREM TypeCorrect ==
  ASSUME Tracker = "pulsar"
  PROVE  Spec => []TypeOK
<1>1. IInv => TypeOK
  BY DEF IInv
<1> QED
  BY <1>1, Invariance, PTL

\* For any log, any channel sizes and any number of faults the topic is in
\* stream order without repetition.
THEOREM TopicOrdered ==
  ASSUME Tracker = "pulsar"
  PROVE  Spec => []TopicInOrder
<1>1. IInv => TopicInOrder
  BY DEF IInv, InvOrder
<1> QED
  BY <1>1, Invariance, PTL

\* The keys of the topic always name the positions of its messages.
THEOREM KeysCorrect ==
  ASSUME Tracker = "pulsar"
  PROVE  Spec => []KeysNamePositions
<1>1. IInv => KeysNamePositions
  BY DEF IInv, InvNumbered
<1> QED
  BY <1>1, Invariance, PTL

\* The part of the invariant on coverage gives NothingSkipped.
LEMMA IInvNothingSkipped == IInv => NothingSkipped
<1> SUFFICES ASSUME IInv, NEW m \in Msgs, NEW j \in DOMAIN topic,
                    origin <= m.lsn, After(topic[j].msg, m)
             PROVE  Published(m) \/ m \in failed
  BY DEF NothingSkipped
<1>1. Settled(m)
  BY DEF IInv, InvCovered
<1>2. ~InFlight(m)
  BY NotInFlight DEF IInv
<1> QED
  BY <1>1, <1>2 DEF Settled

\* No restart, replay or stop makes the topic skip a message whose send did
\* not fail.
THEOREM NothingSkippedEver ==
  ASSUME Tracker = "pulsar"
  PROVE  Spec => []NothingSkipped
BY IInvNothingSkipped, Invariance, PTL

\* The server is never allowed to discard a transaction that is not in the
\* topic (or failed).
THEOREM SlotSafe ==
  ASSUME Tracker = "pulsar"
  PROVE  Spec => []SlotKeepsUnpublished
<1>1. IInv => SlotKeepsUnpublished
  <2> SUFFICES ASSUME IInv, NEW m \in Msgs, origin <= m.lsn, m.lsn < confirmed
               PROVE  Published(m) \/ m \in failed
    BY DEF SlotKeepsUnpublished
  <2>1. m.lsn \in Nat /\ confirmed \in Nat /\ origin \in Nat
    BY Elements DEF IInv, TypeOK, TypePg, TypeRest, Checkpoints
  <2>2. topic # <<>> /\ confirmed <= LastMsg.lsn
    BY <2>1 DEF IInv, InvSlot, Bounded
  <2>3. Len(topic) \in DOMAIN topic /\ LastMsg.lsn \in Nat
    BY <2>2, Elements DEF IInv, LastMsg, Checkpoints
  <2>4. After(topic[Len(topic)].msg, m)
    BY <2>1, <2>2, <2>3 DEF After, LastMsg
  <2> QED
    BY <2>3, <2>4, IInvNothingSkipped DEF NothingSkipped
<1> QED
  BY <1>1, Invariance, PTL

-----------------------------------------------------------------------------
(* The pipeline without send errors implements LogCopy.                     *)

\* What the refinement needs beyond IInv.
InvNoFailure == failed = {} /\ InvCommitted

\* Without send errors no message ever counts as failed.
LEMMA NoFailureStep ==
  ASSUME ~SendErrors
  PROVE  IInv /\ InvNoFailure /\ [Next]_vars => InvNoFailure'
<1> SUFFICES ASSUME IInv, InvNoFailure, [Next]_vars PROVE InvNoFailure'
  OBVIOUS
<1> USE DEF pgVars, srcVars, sinkVars, trkVars, histVars
<1>1. failed' = {}
  BY DEF InvNoFailure, Next, vars, PgCommit, CreateProducer, SetupLast, Capture, Fetching,
     ReportLSN, SrcCommit, SrcError, Apply, BrokerPersist, SendCallback, SendError, TryAck,
     SinkStop, SinkEnd, Drain, CleanFn, Exit, Crash
<1>2. wal \in Nat /\ wal' \in Nat /\ wal' >= wal
  BY DEF IInv, TypeOK, TypePg, Next, vars, PgCommit, CreateProducer, SetupLast, Capture,
     Fetching, ReportLSN, SrcCommit, SrcError, Apply, BrokerPersist, SendCallback, SendError,
     TryAck, SinkStop, SinkEnd, Drain, CleanFn, Exit, Crash
<1>3. /\ \A i \in DOMAIN changes : changes[i].msg.lsn \in Nat /\ changes[i].msg.lsn <= wal'
      /\ \A i \in DOMAIN inflight : inflight[i].msg.lsn \in Nat /\ inflight[i].msg.lsn <= wal'
  <2>1. /\ \A i \in DOMAIN changes : changes[i].msg.lsn \in Nat
        /\ \A i \in DOMAIN inflight : inflight[i].msg.lsn \in Nat
    BY Elements DEF IInv, Checkpoints
  <2> QED
    BY <1>2, <2>1 DEF InvNoFailure, InvCommitted
<1>4. CASE UNCHANGED vars \/ PgCommit \/ SetupLast \/ ReportLSN \/ SrcCommit \/ SrcError
           \/ SendCallback \/ TryAck \/ SinkStop \/ SinkEnd \/ CleanFn
  <2>1. changes' = changes /\ inflight' = inflight
    BY <1>4 DEF vars, PgCommit, SetupLast, ReportLSN, SrcCommit, SrcError, SendCallback,
       TryAck, SinkStop, SinkEnd, CleanFn
  <2> QED
    BY <1>1, <1>3, <2>1 DEF InvNoFailure, InvCommitted
<1>5. CASE CreateProducer \/ Capture \/ Exit \/ Crash
  <2>1. changes' \in {changes, <<>>} /\ inflight' \in {inflight, <<>>}
    BY <1>5 DEF CreateProducer, Capture, Exit, Crash, Halt
  <2> QED
    BY <1>1, <1>3, <2>1 DEF InvNoFailure, InvCommitted
<1>6. CASE Drain
  <2>1. /\ inflight' = inflight
        /\ \A i \in DOMAIN changes' : i + 1 \in DOMAIN changes /\ changes'[i] = changes[i + 1]
    BY <1>6, TakeChange DEF IInv, Drain
  <2> QED
    BY <1>1, <1>3, <2>1 DEF InvNoFailure, InvCommitted
<1>7. CASE SendError \/ BrokerPersist
  <2>1. /\ changes' = changes
        /\ \A i \in DOMAIN inflight' :
             i + 1 \in DOMAIN inflight /\ inflight'[i] = inflight[i + 1]
    BY <1>7, TakeInflight DEF SendError, BrokerPersist
  <2> QED
    BY <1>1, <1>3, <2>1 DEF InvNoFailure, InvCommitted
<1>8. CASE Apply
  <2>1. /\ \A i \in DOMAIN changes' : i + 1 \in DOMAIN changes /\ changes'[i] = changes[i + 1]
        /\ Head(changes) = changes[1] /\ Head(changes) \in Changes /\ 1 \in DOMAIN changes
    BY <1>8, TakeChange, Elements DEF IInv, Apply
  <2>2. inflight' = inflight \/ inflight' = Append(inflight, changes[1])
    BY <1>8, <2>1 DEF Apply
  <2>3. \A i \in DOMAIN inflight' : \/ i \in DOMAIN inflight /\ inflight'[i] = inflight[i]
                                    \/ inflight'[i] = changes[1]
    <3>1. inflight \in Seq(Changes) /\ changes[1] \in Changes
      BY <2>1 DEF IInv, TypeOK, TypeSink
    <3>2. CASE inflight' = Append(inflight, changes[1])
      BY <3>1, <3>2, AppendFacts
    <3> QED
      BY <2>2, <3>2
  <2> QED
    BY <1>1, <1>3, <2>1, <2>3 DEF InvNoFailure, InvCommitted
<1>9. CASE Fetching
  <2> DEFINE new == [cp |-> [lsn |-> currentLsn', seq |-> currentSeq'], msg |-> sender]
  <2>1. IInv'
    BY <1>9, FetchingStep
  <2>2. /\ changes' = Append(changes, new) /\ inflight' = inflight
        /\ new.msg = sender /\ sender.lsn <= wal /\ wal' = wal
    BY <1>9 DEF Fetching
  <2>3. /\ DOMAIN changes = 1..Len(changes) /\ Len(changes) \in Nat
        /\ DOMAIN changes' = 1..Len(changes')
    BY <2>1, SeqFacts DEF IInv, TypeOK, TypeSrc
  <2>4. \A i \in DOMAIN changes' : \/ i \in DOMAIN changes /\ changes'[i] = changes[i]
                                   \/ changes'[i] = new
    BY <2>2, <2>3
  <2> QED
    BY <1>1, <1>3, <2>2, <2>4 DEF InvNoFailure, InvCommitted
<1> QED
  BY <1>4, <1>5, <1>6, <1>7, <1>8, <1>9 DEF Next

\* The message persisted next is the one that follows the last of the topic.
LEMMA PersistsFollowing ==
  ASSUME IInv, InvNoFailure, inflight # <<>>
  PROVE  /\ inflight[1].msg \in {m \in Msgs : m.lsn <= wal}
         /\ topic = <<>> => IsBegin(inflight[1].msg)
         /\ topic # <<>> => inflight[1].msg = Succ(LastMsg)
<1> DEFINE m0 == inflight[1].msg
<1>1. 1 \in DOMAIN inflight /\ DOMAIN inflight = 1..Len(inflight) /\ Len(inflight) \in Nat
  BY Elements DEF IInv
<1>2. m0 \in Msgs /\ m0 \in Places /\ m0 \in Checkpoints /\ m0.lsn <= wal /\ origin <= m0.lsn
  BY <1>1, Elements DEF IInv, InvNoFailure, InvCommitted, InvOrigin
<1>3. \A n \in Msgs : After(m0, n) => ~InFlight(n)
  <2> SUFFICES ASSUME NEW n \in Msgs, After(m0, n), NEW i \in DOMAIN inflight,
                      inflight[i].msg = n
               PROVE  FALSE
    BY DEF InFlight
  <2>1. i = 1 \/ After(n, m0)
    BY <1>1 DEF IInv, InvOrder
  <2> QED
    BY <1>2, <2>1, AfterOrder, Elements DEF IInv
<1>4. \A n \in Msgs : After(m0, n) /\ origin <= n.lsn => Published(n)
  BY <1>1, <1>3 DEF IInv, InvCovered, Settled, InvNoFailure
<1>5. ASSUME topic = <<>> PROVE IsBegin(m0)
  <2>1. \A n \in Msgs : ~Published(n)
    BY <1>5, Elements DEF IInv, Published
  <2> DEFINE n == Begin(m0.lsn)
  <2>2. n \in Msgs /\ n.lsn = m0.lsn /\ (m0.seq # 0 => After(m0, n))
    <3>1. m0.lsn \in Txs /\ m0.seq \in Nat /\ Size[m0.lsn] \in Nat
      BY <1>2, MsgIff, ConfigAssumption DEF Txs
    <3>2. n \in [lsn : Txs, seq : Nat] /\ n.lsn = m0.lsn /\ n.seq = 0
      BY <3>1 DEF Begin
    <3>3. n \in Msgs
      BY <3>1, <3>2, MsgIff
    <3> QED
      BY <3>1, <3>2, <3>3 DEF After
  <2> QED
    BY <1>2, <1>4, <2>1, <2>2 DEF IsBegin
<1>6. ASSUME topic # <<>> PROVE m0 = Succ(LastMsg)
  <2>1. LastMsg \in Msgs /\ LastMsg \in Checkpoints /\ After(m0, LastMsg) /\ origin <= LastMsg.lsn
        /\ Len(topic) \in DOMAIN topic /\ DOMAIN topic = 1..Len(topic) /\ Len(topic) \in Nat
    BY <1>1, <1>6, Elements DEF IInv, InvOrder, InvOrigin, LastMsg
  <2> DEFINE n == Succ(LastMsg)
  <2>2. /\ n \in Places /\ n \in Checkpoints /\ After(n, LastMsg) /\ ~After(n, m0)
        /\ n.lsn >= LastMsg.lsn
    BY <1>2, <2>1, SuccFacts, PlaceType
  <2>3. SUFFICES ASSUME n # m0 PROVE FALSE
    OBVIOUS
  <2>4. After(m0, n)
    BY <1>2, <2>2, <2>3, AfterOrder
  <2>5. n \in Msgs
    BY <1>2, <2>2, <2>4, PlaceType, ConfigAssumption DEF After, Txs
  <2>6. origin <= n.lsn
    BY <2>1, <2>2, ConfigAssumption DEF IInv, TypeOK, TypeRest, Checkpoints
  <2>7. PICK i \in DOMAIN topic : topic[i].msg = n
    BY <1>4, <2>4, <2>5, <2>6 DEF Published
  <2>8. i = Len(topic) \/ After(LastMsg, n)
    BY <2>1, <2>7 DEF IInv, InvOrder, TopicInOrder, LastMsg
  <2> QED
    BY <2>1, <2>2, <2>7, <2>8, AfterOrder DEF LastMsg
<1> QED
  BY <1>2, <1>5, <1>6

\* Without send errors the pipeline implements the copying of the log.
THEOREM ImplementsLogCopy ==
  ASSUME Tracker = "pulsar", ~SendErrors
  PROVE  Spec => CopiesLog
<1> DEFINE avail == {m \in Msgs : m.lsn <= wal}
           copied == [i \in DOMAIN topic |-> topic[i].msg]
<1>1. Init => Abstract!Init
  BY DEF Init, Abstract!Init
<1>2. IInv /\ IInv' /\ InvNoFailure /\ [Next]_vars
        => [Abstract!Next]_<<avail, copied>>
  <2> SUFFICES ASSUME IInv, IInv', InvNoFailure, [Next]_vars
               PROVE  [Abstract!Next]_<<avail, copied>>
    OBVIOUS
  <2> USE DEF pgVars, srcVars, sinkVars, trkVars, histVars
  <2>1. CASE PgCommit
    <3>1. copied' = copied
      BY <2>1 DEF PgCommit
    <3>2. avail \subseteq avail'
      BY <2>1, Elements DEF PgCommit, IInv, TypeOK, TypePg, Checkpoints
    <3> QED
      BY <3>1, <3>2 DEF Abstract!Next, Abstract!Grow
  <2>2. CASE BrokerPersist
    <3> DEFINE m0 == inflight[1].msg
               entry == [key |-> ToKey(inflight[1].cp), msg |-> m0]
    <3>1. m0 \in avail /\ (topic = <<>> => IsBegin(m0)) /\ (topic # <<>> => m0 = Succ(LastMsg))
      BY <2>2, PersistsFollowing DEF BrokerPersist
    <3>2. topic \in Seq(Entries) /\ entry \in Entries /\ topic' = Append(topic, entry)
      <4>1. Head(inflight) = inflight[1] /\ inflight[1] \in Changes
        BY <2>2, TakeInflight DEF BrokerPersist
      <4> QED
        BY <2>2, <4>1, KeyRoundTrip DEF BrokerPersist, IInv, TypeOK, TypeRest, Entries, Changes
    <3>3. /\ Len(topic) \in Nat /\ DOMAIN topic = 1..Len(topic)
          /\ (Len(topic) = 0 <=> topic = <<>>)
          /\ DOMAIN topic' = 1..(Len(topic) + 1)
          /\ \A i \in DOMAIN topic : topic'[i] = topic[i] /\ topic[i].msg \in Msgs
          /\ topic'[Len(topic) + 1].msg = m0
      <4>1. /\ Len(topic) \in Nat /\ DOMAIN topic = 1..Len(topic)
            /\ (Len(topic) = 0 <=> topic = <<>>)
            /\ \A i \in DOMAIN topic : topic[i] \in Entries
        BY <3>2, SeqFacts
      <4>2. /\ DOMAIN topic' = DOMAIN topic \cup {Len(topic) + 1}
            /\ \A i \in DOMAIN topic : topic'[i] = topic[i]
            /\ topic'[Len(topic) + 1] = entry
        BY <3>2, AppendFacts
      <4>3. DOMAIN topic' = 1..(Len(topic) + 1)
        BY <4>1, <4>2
      <4>4. \A i \in DOMAIN topic : topic[i].msg \in Msgs
        BY <4>1 DEF Entries
      <4> QED
        BY <4>1, <4>2, <4>3, <4>4
    <3>4. copied \in Seq(Msgs) /\ Len(copied) = Len(topic) /\ DOMAIN copied = DOMAIN topic
      BY <3>3
    <3>5. copied' \in Seq(Msgs) /\ Len(copied') = Len(topic) + 1
      BY <3>1, <3>3
    <3>6. copied' = Append(copied, m0)
      <4>1. /\ Append(copied, m0) \in Seq(Msgs) /\ Len(Append(copied, m0)) = Len(topic) + 1
            /\ \A i \in DOMAIN copied : Append(copied, m0)[i] = copied[i]
            /\ Append(copied, m0)[Len(topic) + 1] = m0
        BY <3>1, <3>4, AppendFacts
      <4>2. \A i \in 1..(Len(topic) + 1) : copied'[i] = Append(copied, m0)[i]
        BY <3>3, <3>4, <4>1
      <4> QED
        BY <3>5, <4>1, <4>2, SeqEqual
    <3>7. IF copied = <<>> THEN m0 \in {m \in Msgs : IsBegin(m)}
                           ELSE m0 = Succ(copied[Len(copied)])
      <4>1. copied = <<>> <=> topic = <<>>
        BY <3>3, <3>4, SeqFacts
      <4>2. topic # <<>> => copied[Len(copied)] = LastMsg
        BY <3>3, <3>4 DEF LastMsg
      <4> QED
        BY <3>1, <4>1, <4>2
    <3>8. avail' = avail
      BY <2>2 DEF BrokerPersist
    <3> QED
      BY <3>1, <3>6, <3>7, <3>8 DEF Abstract!Next, Abstract!CopyOne
  <2>3. CASE ~PgCommit /\ ~BrokerPersist
    <3>1. topic' = topic /\ wal' = wal
      BY <2>3 DEF Next, vars, CreateProducer, SetupLast, Capture, Fetching,
         ReportLSN, SrcCommit, SrcError, Apply, SendCallback, SendError, TryAck,
         SinkStop, SinkEnd, Drain, CleanFn, Exit, Crash
    <3> QED
      BY <3>1
  <2> QED
    BY <2>1, <2>2, <2>3
<1>3. Init => InvNoFailure
  BY DEF Init, InvNoFailure, InvCommitted
<1>4. IInv /\ InvNoFailure /\ [Next]_vars => InvNoFailure'
  BY NoFailureStep
<1> QED
  BY <1>1, <1>2, <1>3, <1>4, Invariance, PTL DEF Spec, CopiesLog, Abstract!Spec

=============================================================================
