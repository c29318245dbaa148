----------------------------- MODULE AgentProofs -----------------------------
(***************************************************************************)
(* Proofs of the safety properties of the agent and of its pipelines, for   *)
(* any number of pipelines, any capacity of their channels and any number   *)
(* of faults.                                                               *)
(***************************************************************************)
EXTENDS Agent, TLAPS

-----------------------------------------------------------------------------
(* The inductive invariant.                                                 *)

SourceType ==
  /\ srcState \in [Pipes -> {0, 2, 3}]
  /\ srcErr \in [Pipes -> BOOLEAN]
  /\ reader \in [Pipes -> {"none", "read", "send", "done"}]
  /\ changes \in [Pipes -> 0..ChanCap]
  /\ srcStop \in [Pipes -> [Users -> {"no", "swap", "wait", "done"}]]

StopPoints == {"no", "swap", "wait", "once0", "once", "clean0", "clean", "done"}

SinkType ==
  /\ sinkState \in [Pipes -> {0, 2, 3, 4}]
  /\ sinkErr \in [Pipes -> BOOLEAN]
  /\ applier \in [Pipes -> {"none", "select", "apply", "cleanup", "drain", "done"}]
  /\ consistent \in [Pipes -> BOOLEAN] /\ unsettled \in [Pipes -> 0..MaxPending]
  /\ committed \in [Pipes -> {"nil", "open", "closed"}]
  /\ cleanOnce \in [Pipes -> {"no", "running", "done"}]
  /\ stop \in [Pipes -> [Stoppers -> StopPoints]]

AgentType ==
  /\ cmd \in [Pipes -> Commands \cup {"none"}] /\ faults \in [Pipes -> Nat]
  /\ params \in Refs /\ dumper \in Refs /\ pgSink \in Refs
  /\ pulsarSink \in Refs /\ pgSrc \in Refs
  /\ agentSinkErr \in BOOLEAN /\ agentSrcErr \in BOOLEAN
  /\ started \in Refs
  /\ watcher \in [Pipes -> {"none", "poll", "stopSink", "stopSrc"}]
  /\ cleanup \in {"no", "pgSink", "pulsarSink", "pgSrc", "done"}
  /\ exited \in BOOLEAN

\* The state word of a sink tells how far the goroutine of apply is, and a Stop
\* that is past its wait found it at its end.
SinkInv ==
  \A p \in Pipes :
    /\ applier[p] = "none" <=> sinkState[p] = 0
    /\ applier[p] \in {"drain", "done"} <=> sinkState[p] = 4
    /\ \A a \in Stoppers : stop[p][a] \in {"once", "clean"} => sinkState[p] = 4
    /\ committed[p] = "closed" => sinkState[p] = 4 /\ unsettled[p] = 0

\* The references of the agent: to pipelines that were started, to the one that is
\* configured, or to an earlier one whose source failed.
RefInv ==
  /\ params <= started /\ pgSink <= started
  /\ params = 0 => Failed \/ (pgSink = 0 /\ pgSrc = 0)
  /\ pgSink # 0 => cmd[pgSink] = "pulsar2pg" /\ (pgSink = params \/ srcErr[pgSink])
  /\ params # 0 => cmd[params] \in Commands
  /\ params # 0 /\ cleanup # "done" =>
       IF cmd[params] = "pulsar2pg" THEN pgSink = params ELSE pgSrc = params

IInv == SourceType /\ SinkType /\ AgentType /\ SinkInv /\ PollsCurrent /\ RefInv

\* A caller of a Stop goes on.
LEMMA CallerMoves ==
  ASSUME NEW A, NEW T, NEW f \in [Pipes -> [A -> T]], NEW p \in Pipes, NEW a \in A, NEW x \in T
  PROVE  /\ [f EXCEPT ![p][a] = x] \in [Pipes -> [A -> T]]
         /\ \A q \in Pipes : \A b \in A :
              [f EXCEPT ![p][a] = x][q][b] = IF q = p /\ b = a THEN x ELSE f[q][b]
OBVIOUS

-----------------------------------------------------------------------------
(* Which variables a step of a pipeline can change.                         *)

LEMMA PipeFrames ==
  ASSUME NEW p \in Pipes
  PROVE  /\ SourceStep(p) => UNCHANGED <<cmd, sinkVars, stopVars>>
         /\ SinkStep(p) => UNCHANGED <<cmd, srcState, srcErr, reader, srcStop>>
         /\ \A a \in Stoppers : StopStep(p, a) => UNCHANGED <<cmd, sourceVars, srcStop, faults>>
         /\ \A a \in Users : SrcStopStep(p, a) => UNCHANGED <<cmd, srcErr, reader, changes, sinkVars,
                                                            stop, faults>>
<1>1. SourceStep(p) => UNCHANGED <<cmd, sinkVars, stopVars>>
  BY DEF SourceStep, Read, ReadStopped, ReadError, SendChange
<1>2. SinkStep(p) => UNCHANGED <<cmd, srcState, srcErr, reader, srcStop>>
  BY DEF SinkStep, Apply, SelectChange, SelectEnd, SelectTick, ApplyOK, ApplyError, Cleanup, Drain,
         SendCallback, SendError, sourceVars, stopVars
<1>3. \A a \in Stoppers : StopStep(p, a) => UNCHANGED <<cmd, sourceVars, srcStop, faults>>
  BY DEF StopStep, StopSwap, StopWait, OnceEnter, OnceSkip, Clean
<1>4. \A a \in Users : SrcStopStep(p, a) => UNCHANGED <<cmd, srcErr, reader, changes, sinkVars,
                                                      stop, faults>>
  BY DEF SrcStopStep, SrcStopSwap, SrcStopWait, sourceVars
<1> QED
  BY <1>1, <1>2, <1>3, <1>4

-----------------------------------------------------------------------------
(* The source.                                                              *)

\* What a call of BaseSource.Stop finds.
LEMMA SrcStopCallType ==
  ASSUME SourceType, NEW p \in Pipes, NEW a \in Users, SrcStopCall(p, a)
  PROVE  srcStop' \in [Pipes -> [Users -> {"no", "swap", "wait", "done"}]]
BY DEF SourceType, SrcStopCall

LEMMA SourceTypePipe ==
  ASSUME SourceType, SinkType, NEW p \in Pipes, PipeStep(p)
  PROVE  SourceType'
<1>1. CASE SourceStep(p)
  <2>1. CASE Read(p) \/ ReadStopped(p) \/ ReadError(p)
    BY <2>1 DEF Read, ReadStopped, ReadError, SourceType, stopVars
  <2>2. CASE SendChange(p)
    <3>1. changes[p] + 1 \in 0..ChanCap
      BY <2>2, LifecycleAssumption DEF SendChange, SourceType
    <3>2. changes' \in [Pipes -> 0..ChanCap]
      BY <2>2, <3>1 DEF SendChange, SourceType
    <3> QED
      BY <2>2, <3>2 DEF SendChange, SourceType, stopVars
  <2> QED
    BY <1>1, <2>1, <2>2 DEF SourceStep
<1>2. CASE SinkStep(p)
  <2>1. UNCHANGED <<srcState, srcErr, reader, srcStop>>
    BY <1>2, PipeFrames
  <2>2. UNCHANGED changes \/ (changes[p] > 0 /\ changes' = [changes EXCEPT ![p] = @ - 1])
    BY <1>2 DEF SinkStep, Apply, SelectChange, SelectEnd, SelectTick, ApplyOK, ApplyError, Cleanup,
                Drain, SendCallback, SendError, sourceVars
  <2>3. changes' \in [Pipes -> 0..ChanCap]
    <3>1. changes[p] \in 0..ChanCap /\ ChanCap \in Nat
      BY LifecycleAssumption DEF SourceType
    <3>2. changes[p] > 0 => changes[p] - 1 \in 0..ChanCap
      BY <3>1
    <3> QED
      BY <2>2, <3>2 DEF SourceType
  <2> QED
    BY <2>1, <2>3 DEF SourceType
<1>3. CASE \E a \in Stoppers : StopStep(p, a)
  BY <1>3, PipeFrames DEF sourceVars, SourceType
<1>4. ASSUME NEW a \in Users, SrcStopStep(p, a)
      PROVE  SourceType'
  <2>1. /\ UNCHANGED srcState \/ srcState' = [srcState EXCEPT ![p] = 3]
        /\ UNCHANGED <<srcErr, reader, changes>>
        /\ \/ srcStop' = [srcStop EXCEPT ![p][a] = "wait"]
           \/ srcStop' = [srcStop EXCEPT ![p][a] = "done"]
    BY <1>4 DEF SrcStopStep, SrcStopSwap, SrcStopWait, sourceVars
  <2>2. srcStop' \in [Pipes -> [Users -> {"no", "swap", "wait", "done"}]]
    <3> DEFINE T == {"no", "swap", "wait", "done"}
    <3>1. srcStop \in [Pipes -> [Users -> T]] /\ "wait" \in T /\ "done" \in T
      BY DEF SourceType
    <3> HIDE DEF T
    <3>2. [srcStop EXCEPT ![p][a] = "wait"] \in [Pipes -> [Users -> T]]
      BY ONLY <3>1, CallerMoves, p \in Pipes, a \in Users
    <3>3. [srcStop EXCEPT ![p][a] = "done"] \in [Pipes -> [Users -> T]]
      BY ONLY <3>1, CallerMoves, p \in Pipes, a \in Users
    <3>4. srcStop' \in [Pipes -> [Users -> T]]
      BY <2>1, <3>2, <3>3
    <3> QED
      BY <3>4 DEF T
  <2>3. srcState' \in [Pipes -> {0, 2, 3}]
    BY <2>1 DEF SourceType
  <2> QED
    BY <2>1, <2>2, <2>3 DEF SourceType
<1> QED
  BY <1>1, <1>2, <1>3, <1>4 DEF PipeStep

-----------------------------------------------------------------------------
(* The sink.                                                                *)

\* What a call of BaseSink.Stop finds: of the points past the wait only the ones
\* its look at the state word allows.
LEMMA StopCallFacts ==
  ASSUME SinkType, SinkInv, NEW p \in Pipes, NEW a \in Stoppers, StopCall(p, a)
  PROVE  /\ stop' \in [Pipes -> [Stoppers -> StopPoints]]
         /\ \A q \in Pipes : \A b \in Stoppers :
              stop'[q][b] \in {"once", "clean"} => sinkState[q] = 4
<1> DEFINE x == CASE sinkState[p] = 0 -> "once0"
                  [] sinkState[p] = 2 -> "swap"
                  [] sinkState[p] = 3 -> "wait"
                  [] sinkState[p] = 4 -> "once"
<1>1. stop' = [stop EXCEPT ![p][a] = x]
  BY DEF StopCall
<1>2. x \in StopPoints /\ (x \in {"once", "clean"} => sinkState[p] = 4)
  BY DEF SinkType, StopPoints
<1> HIDE DEF x
<1> QED
  BY <1>1, <1>2 DEF SinkType, SinkInv

LEMMA SinkStop ==
  ASSUME SinkType, SinkInv, NEW p \in Pipes, NEW a \in Stoppers, StopStep(p, a)
  PROVE  SinkType' /\ SinkInv'
<1>1. CASE StopSwap(p, a)
  <2>1. SinkType'
    BY <1>1 DEF StopSwap, prodVars, SinkType, StopPoints
  <2>2. SinkInv'
    BY <1>1 DEF StopSwap, prodVars, SinkType, SinkInv
  <2> QED
    BY <2>1, <2>2
<1>2. CASE StopWait(p, a)
  BY <1>2 DEF StopWait, sinkVars, prodVars, SinkType, SinkInv, StopPoints
<1>3. CASE OnceEnter(p, a)
  BY <1>3 DEF OnceEnter, prodVars, SinkType, SinkInv, StopPoints
<1>4. CASE OnceSkip(p, a)
  BY <1>4 DEF OnceSkip, sinkVars, prodVars, SinkType, SinkInv, StopPoints
<1>5. CASE Clean(p, a)
  <2>1. SinkType'
    BY <1>5 DEF Clean, prodVars, SinkType, StopPoints
  <2>2. \A q \in Pipes : committed'[q] = committed[q]
                         \/ (q = p /\ stop[p][a] = "clean" /\ unsettled[p] = 0)
    BY <1>5 DEF Clean, Flushed, SinkType
  <2>3. \A q \in Pipes : \A b \in Stoppers : stop'[q][b] = stop[q][b] \/ stop'[q][b] = "done"
    BY <1>5 DEF Clean, SinkType
  <2>4. UNCHANGED <<sinkState, applier, unsettled>>
    BY <1>5 DEF Clean, prodVars
  <2>5. SinkInv'
    BY <2>2, <2>3, <2>4 DEF SinkInv
  <2> QED
    BY <2>1, <2>5
<1> QED
  BY <1>1, <1>2, <1>3, <1>4, <1>5 DEF StopStep

LEMMA SinkApply ==
  ASSUME SinkType, SinkInv, NEW p \in Pipes, SinkStep(p)
  PROVE  SinkType' /\ SinkInv'
<1>1. CASE Apply(p)
  BY <1>1 DEF Apply, stopVars, prodVars, SinkType, SinkInv
<1>2. CASE SelectChange(p) \/ SelectEnd(p) \/ SelectTick(p)
  BY <1>2 DEF SelectChange, SelectEnd, SelectTick, Again, stopVars, prodVars, SinkType, SinkInv
<1>3. CASE ApplyOK(p)
  <2>1. /\ applier[p] = "apply" /\ applier' = [applier EXCEPT ![p] = Again(p)]
        /\ UNCHANGED <<sinkState, sinkErr, committed, cleanOnce, stop>>
    BY <1>3 DEF ApplyOK, stopVars
  <2>2. \/ unsettled' = unsettled
        \/ unsettled[p] < MaxPending /\ unsettled' = [unsettled EXCEPT ![p] = @ + 1]
    BY <1>3 DEF ApplyOK, prodVars
  <2>3. consistent' \in [Pipes -> BOOLEAN]
    <3>1. consistent' = consistent \/ consistent' = [consistent EXCEPT ![p] = TRUE]
      BY <1>3 DEF ApplyOK, prodVars
    <3>2. CASE consistent' = consistent
      BY <3>2, Zenon DEF SinkType
    <3>3. CASE consistent' = [consistent EXCEPT ![p] = TRUE]
      BY <3>3, Zenon DEF SinkType
    <3> QED
      BY <3>1, <3>2, <3>3
  <2>4. unsettled' \in [Pipes -> 0..MaxPending]
    <3>1. unsettled \in [Pipes -> 0..MaxPending] /\ MaxPending \in Nat
      BY LifecycleAssumption DEF SinkType
    <3> QED
      BY <2>2, <3>1
  <2>5. applier' \in [Pipes -> {"none", "select", "apply", "cleanup", "drain", "done"}]
    BY <2>1 DEF SinkType, Again
  <2>6. SinkInv'
    BY <2>1, <2>2 DEF SinkType, SinkInv, Again
  <2> QED
    BY <2>1, <2>3, <2>4, <2>5, <2>6 DEF SinkType
<1>4. CASE ApplyError(p)
  BY <1>4 DEF ApplyError, stopVars, prodVars, SinkType, SinkInv
<1>5. CASE Cleanup(p)
  <2>1. /\ applier[p] = "cleanup"
        /\ sinkState' = [sinkState EXCEPT ![p] = 4] /\ applier' = [applier EXCEPT ![p] = "drain"]
        /\ stop' = [stop EXCEPT ![p]["loop"] = "once"]
        /\ UNCHANGED <<sinkErr, prodVars, committed, cleanOnce>>
    BY <1>5 DEF Cleanup
  <2>2. /\ stop' \in [Pipes -> [Stoppers -> StopPoints]]
        /\ \A q \in Pipes : \A b \in Stoppers : stop'[q][b] = stop[q][b] \/ q = p
    BY <2>1, CallerMoves DEF SinkType, StopPoints, Stoppers
  <2>3. SinkType'
    BY <2>1, <2>2 DEF SinkType, prodVars
  <2>4. SinkInv'
    BY <2>1, <2>2 DEF SinkType, SinkInv, prodVars
  <2> QED
    BY <2>3, <2>4
<1>6. CASE Drain(p)
  BY <1>6 DEF Drain, stopVars, prodVars, SinkType, SinkInv
<1>7. CASE SendCallback(p)
  BY <1>7, LifecycleAssumption DEF SendCallback, stopVars, prodVars, SinkType, SinkInv
<1>8. CASE SendError(p)
  <2>1. /\ unsettled[p] > 0 /\ unsettled' = [unsettled EXCEPT ![p] = @ - 1]
        /\ sinkErr' = [sinkErr EXCEPT ![p] = TRUE] /\ StopCall(p, "callback")
        /\ UNCHANGED <<sinkState, applier, consistent, committed, cleanOnce>>
    BY <1>8 DEF SendError
  <2>2. unsettled' \in [Pipes -> 0..MaxPending]
    BY <2>1, LifecycleAssumption DEF SinkType
  <2>3. /\ stop' \in [Pipes -> [Stoppers -> StopPoints]]
        /\ \A q \in Pipes : \A b \in Stoppers :
             stop'[q][b] \in {"once", "clean"} => sinkState[q] = 4
    BY <2>1, StopCallFacts DEF Stoppers
  <2>4. SinkType'
    BY <2>1, <2>2, <2>3 DEF SinkType
  <2>5. SinkInv'
    BY <2>1, <2>3 DEF SinkType, SinkInv
  <2> QED
    BY <2>4, <2>5
<1> QED
  BY <1>1, <1>2, <1>3, <1>4, <1>5, <1>6, <1>7, <1>8 DEF SinkStep

LEMMA SinkPipe ==
  ASSUME SinkType, SinkInv, NEW p \in Pipes, PipeStep(p)
  PROVE  SinkType' /\ SinkInv'
<1>1. CASE SourceStep(p) \/ \E a \in Users : SrcStopStep(p, a)
  <2>1. UNCHANGED <<sinkVars, stop>>
    BY <1>1, PipeFrames DEF stopVars
  <2> QED
    BY <2>1 DEF sinkVars, prodVars, SinkType, SinkInv
<1> QED
  BY <1>1, SinkApply, SinkStop DEF PipeStep

-----------------------------------------------------------------------------
(* The agent.                                                               *)

\* The parts of the invariant about the pipelines, over a step of the agent.
LEMMA PipelinesStep ==
  ASSUME SourceType, SinkType, AgentType, SinkInv, [Next]_vars
  PROVE  SourceType' /\ SinkType' /\ SinkInv'
<1>1. CASE \/ UNCHANGED vars \/ CleanupEnd \/ ConfigureFatal
  <2>1. UNCHANGED <<sourceVars, sinkVars, stopVars>>
    BY <1>1 DEF vars, pipeVars, CleanupEnd, ConfigureFatal
  <2> QED
    BY <2>1 DEF sourceVars, sinkVars, prodVars, stopVars, SourceType, SinkType, SinkInv
<1>2. ASSUME NEW c \in Commands, Configure(c)
      PROVE  SourceType' /\ SinkType' /\ SinkInv'
  <2>1. started' \in Pipes
    BY <1>2, LifecycleAssumption DEF Configure, AgentType, Refs, Pipes
  <2>2. /\ srcState' = [srcState EXCEPT ![started'] = 2]
        /\ reader' = [reader EXCEPT ![started'] = "read"]
        /\ UNCHANGED <<srcErr, changes, sinkVars, stopVars>>
    BY <1>2 DEF Configure, Capture
  <2> DEFINE n == started'
  <2> HIDE DEF n
  <2>3. SourceType'
    BY <2>1, <2>2 DEF n, SourceType, stopVars
  <2> QED
    BY <2>2, <2>3 DEF sinkVars, prodVars, stopVars, SinkType, SinkInv
<1>3. ASSUME NEW p \in Pipes, NEW a \in Stoppers, StopCall(p, a),
             UNCHANGED <<sourceVars, sinkVars, srcStop>>
      PROVE  SourceType' /\ SinkType' /\ SinkInv'
  BY <1>3, StopCallFacts DEF sourceVars, sinkVars, prodVars, SourceType, SinkType, SinkInv
<1>4. ASSUME NEW p \in Pipes, NEW a \in Users, SrcStopCall(p, a),
             UNCHANGED <<sourceVars, sinkVars, stop>>
      PROVE  SourceType' /\ SinkType' /\ SinkInv'
  BY <1>4, SrcStopCallType DEF sourceVars, sinkVars, prodVars, SourceType, SinkType, SinkInv
<1>5. ASSUME UNCHANGED <<sourceVars, sinkVars, stop, srcStop>>
      PROVE  SourceType' /\ SinkType' /\ SinkInv'
  BY <1>5 DEF sourceVars, sinkVars, prodVars, SourceType, SinkType, SinkInv
<1>6. \A r \in Refs : r # 0 => r \in Pipes
  BY LifecycleAssumption DEF Refs, Pipes
<1>7. CASE Signal \/ CleanupPgSink
  <2>1. PICK r \in {pgSink, pulsarSink} : IF r = 0 THEN UNCHANGED stop ELSE StopCall(r, "cleanup")
    BY <1>7 DEF Signal, CleanupPgSink, CleanupStop
  <2>2. UNCHANGED <<sourceVars, sinkVars, srcStop>>
    BY <1>7 DEF Signal, CleanupPgSink
  <2>3. r \in Refs /\ "cleanup" \in Stoppers
    BY DEF AgentType, Stoppers, Users
  <2> QED
    BY <1>3, <1>5, <1>6, <2>1, <2>2, <2>3
<1>8. CASE CleanupPulsarSink
  <2>1. /\ IF pgSrc = 0 THEN UNCHANGED srcStop ELSE SrcStopCall(pgSrc, "cleanup")
        /\ UNCHANGED <<sourceVars, sinkVars, stop>>
    BY <1>8 DEF CleanupPulsarSink
  <2>2. pgSrc \in Refs /\ "cleanup" \in Users
    BY DEF AgentType, Users
  <2> QED
    BY <1>4, <1>5, <1>6, <2>1, <2>2
<1>9. ASSUME NEW p \in Pipes, Watch(p)
      PROVE  SourceType' /\ SinkType' /\ SinkInv'
  BY <1>3, <1>4, <1>9 DEF Watch, WatcherCheck, WatcherStopSource, Stoppers, Users
<1>10. ASSUME NEW p \in Pipes, PipeStep(p)
       PROVE  SourceType' /\ SinkType' /\ SinkInv'
  BY <1>10, SourceTypePipe, SinkPipe
<1> QED
  BY <1>1, <1>2, <1>7, <1>8, <1>9, <1>10 DEF Next, CleanupStep

\* A step of a pipeline leaves its command, keeps the error of its source, and
\* counts its faults.
LEMMA PipeKeeps ==
  ASSUME SourceType, AgentType, NEW p \in Pipes, PipeStep(p)
  PROVE  /\ UNCHANGED cmd /\ faults' \in [Pipes -> Nat]
         /\ \A q \in Pipes : srcErr[q] => srcErr'[q]
<1>1. UNCHANGED cmd
  BY PipeFrames DEF PipeStep
<1>2. UNCHANGED faults \/ faults' = [faults EXCEPT ![p] = @ + 1]
  BY PipeFrames DEF PipeStep, SourceStep, Read, ReadStopped, ReadError, SendChange, SinkStep, Apply,
       SelectChange, SelectEnd, SelectTick, ApplyOK, ApplyError, Cleanup, Drain, SendCallback,
       SendError, Fault
<1>3. UNCHANGED srcErr \/ srcErr' = [srcErr EXCEPT ![p] = TRUE]
  BY PipeFrames DEF PipeStep, SourceStep, Read, ReadStopped, ReadError, SendChange, sourceVars
<1>4. faults' \in [Pipes -> Nat]
  BY <1>2 DEF AgentType
<1>5. \A q \in Pipes : srcErr[q] => srcErr'[q]
  BY <1>3 DEF SourceType
<1> QED
  BY <1>1, <1>4, <1>5

LEMMA ConfigureStep ==
  ASSUME IInv, NEW c \in Commands, Configure(c)
  PROVE  AgentType' /\ PollsCurrent' /\ RefInv'
<1> DEFINE n == started + 1
<1>1. /\ cleanup = "no" /\ params = 0 /\ started' = n /\ params' = n
      /\ cmd' = [cmd EXCEPT ![n] = c] /\ watcher' = [watcher EXCEPT ![n] = "poll"]
      /\ agentSinkErr' = FALSE /\ agentSrcErr' = FALSE
      /\ UNCHANGED <<srcErr, faults, cleanup, exited>>
      /\ IF c = "pg2pulsar"
         THEN pulsarSink' = n /\ pgSrc' = n /\ UNCHANGED <<dumper, pgSink>>
         ELSE dumper' = n /\ pgSink' = n /\ UNCHANGED <<pulsarSink, pgSrc>>
  BY DEF Configure, Configurable, Capture
<1>2. n \in Pipes /\ n \in Refs /\ n # 0 /\ started \in Nat /\ started < n /\ pgSink \in Nat /\ dumper = 0
  BY <1>1, LifecycleAssumption DEF Configure, IInv, AgentType, PollsCurrent, Refs, Pipes
<1>3. pgSink <= started /\ pgSink # n
  BY <1>2 DEF IInv, RefInv
<1> HIDE DEF n
<1>4. AgentType'
  BY <1>1, <1>2 DEF IInv, AgentType
<1>5. PollsCurrent'
  <2>1. \A p \in Pipes : watcher[p] # "poll"
    BY <1>1, LifecycleAssumption DEF IInv, PollsCurrent, Pipes
  <2> QED
    BY <1>1, <1>2, <2>1 DEF PollsCurrent, IInv, AgentType
<1>6. RefInv'
  <2>1. cmd'[n] = c
    BY <1>1, <1>2 DEF IInv, AgentType
  <2>2. pgSink # 0 => cmd'[pgSink] = "pulsar2pg" /\ srcErr[pgSink]
    BY <1>1, <1>3 DEF IInv, RefInv
  <2>3. n \in Nat
    BY <1>2 DEF Pipes
  <2>4. n <= n /\ pgSink <= n
    BY <1>2, <1>3, <2>3
  <2>5. CASE c = "pg2pulsar"
    BY <1>1, <1>2, <2>1, <2>2, <2>4, <2>5 DEF RefInv, Commands
  <2>6. CASE c = "pulsar2pg"
    BY <1>1, <1>2, <2>1, <2>4, <2>6 DEF RefInv, Commands
  <2> QED
    BY <2>5, <2>6 DEF Commands
<1> QED
  BY <1>4, <1>5, <1>6

LEMMA WatchStep ==
  ASSUME IInv, NEW p \in Pipes, Watch(p)
  PROVE  AgentType' /\ PollsCurrent' /\ RefInv'
<1>1. p # 0 /\ p \in Refs /\ 0 \in Refs
  BY LifecycleAssumption DEF Pipes, Refs
<1>2. CASE WatcherCheck(p)
  <2>1. /\ watcher[p] = "poll" /\ watcher' = [watcher EXCEPT ![p] = "stopSink"]
        /\ sinkErr[p] \/ srcErr[p]
        /\ agentSinkErr' = sinkErr[p] /\ agentSrcErr' = srcErr[p]
        /\ params' = 0 /\ dumper' = 0
        /\ pgSink' = IF sinkErr[p] THEN 0 ELSE pgSink
        /\ pgSrc' = IF srcErr[p] THEN 0 ELSE pgSrc
        /\ pulsarSink' = IF srcErr[p] THEN 0 ELSE pulsarSink
        /\ UNCHANGED <<cmd, srcErr, faults, started, cleanup, exited>>
    BY <1>2 DEF WatcherCheck, Forget, sourceVars
  <2>2. params = p
    BY <2>1 DEF IInv, PollsCurrent
  <2>3. AgentType'
    BY <1>1, <2>1 DEF IInv, AgentType, SourceType, SinkType
  <2>4. PollsCurrent'
    BY <2>1, <2>2 DEF IInv, PollsCurrent, AgentType
  <2>5. RefInv'
    <3>1. started \in Nat /\ pgSink <= started
      BY DEF IInv, RefInv, AgentType, Refs
    <3>2. params' <= started' /\ pgSink' <= started'
      BY <2>1, <3>1
    <3>3. Failed'
      BY <2>1 DEF Failed
    <3>4. pgSink' # 0 => cmd'[pgSink'] = "pulsar2pg" /\ srcErr'[pgSink']
      BY <2>1, <2>2 DEF IInv, RefInv
    <3> QED
      BY <2>1, <3>2, <3>3, <3>4 DEF RefInv
  <2> QED
    BY <2>3, <2>4, <2>5
<1>3. CASE WatcherStopSource(p)
  <2>1. /\ watcher[p] = "stopSink" /\ watcher' = [watcher EXCEPT ![p] = "stopSrc"]
        /\ UNCHANGED <<cmd, srcErr, faults, refVars, started, cleanup, exited>>
    BY <1>3 DEF WatcherStopSource, sourceVars
  <2>2. AgentType' /\ PollsCurrent'
    BY <2>1 DEF refVars, IInv, AgentType, PollsCurrent
  <2>3. RefInv'
    BY <2>1 DEF refVars, IInv, RefInv, Failed
  <2> QED
    BY <2>2, <2>3
<1> QED
  BY <1>2, <1>3 DEF Watch

LEMMA AgentStep ==
  ASSUME IInv, [Next]_vars
  PROVE  AgentType' /\ PollsCurrent' /\ RefInv'
<1>1. CASE UNCHANGED vars
  BY <1>1 DEF vars, pipeVars, sourceVars, agentVars, refVars, IInv, AgentType, PollsCurrent, RefInv,
              Failed
<1>2. CASE ConfigureFatal
  BY <1>2 DEF ConfigureFatal, pipeVars, sourceVars, refVars, IInv, AgentType, PollsCurrent, RefInv,
              Failed
<1>3. CASE Signal \/ CleanupPgSink \/ CleanupPulsarSink
  <2>1. /\ cleanup' \in {"pgSink", "pulsarSink", "pgSrc"} /\ cleanup # "done"
        /\ dumper' = 0 \/ UNCHANGED dumper
        /\ UNCHANGED <<cmd, srcErr, faults, params, pgSink, pulsarSink, pgSrc, agentSinkErr,
                       agentSrcErr, started, watcher, exited>>
    BY <1>3 DEF Signal, CleanupPgSink, CleanupPulsarSink, CleanupStop, sourceVars, refVars
  <2>2. 0 \in Refs
    BY LifecycleAssumption DEF Refs
  <2> QED
    BY <2>1, <2>2 DEF IInv, AgentType, PollsCurrent, RefInv, Failed
<1>4. CASE CleanupEnd
  <2>1. /\ cleanup' = "done" /\ dumper' = 0 /\ pgSink' = 0 /\ pulsarSink' = 0 /\ pgSrc' = 0
        /\ UNCHANGED <<cmd, srcErr, faults, params, agentSinkErr, agentSrcErr, started, watcher,
                       exited>>
    BY <1>4 DEF CleanupEnd, pipeVars, sourceVars
  <2>2. 0 \in Refs /\ started \in Nat
    BY LifecycleAssumption DEF Refs, IInv, AgentType
  <2> QED
    BY <2>1, <2>2 DEF IInv, AgentType, PollsCurrent, RefInv, Failed
<1>5. ASSUME NEW p \in Pipes, PipeStep(p), UNCHANGED agentVars
      PROVE  AgentType' /\ PollsCurrent' /\ RefInv'
  <2>1. /\ UNCHANGED cmd /\ faults' \in [Pipes -> Nat]
        /\ \A q \in Pipes : srcErr[q] => srcErr'[q]
    BY <1>5, PipeKeeps DEF IInv
  <2>2. pgSink # 0 => pgSink \in Pipes
    BY LifecycleAssumption DEF IInv, AgentType, Refs, Pipes
  <2> QED
    BY <1>5, <2>1, <2>2 DEF agentVars, refVars, IInv, AgentType, PollsCurrent, RefInv, Failed
<1> QED
  BY <1>1, <1>2, <1>3, <1>4, <1>5, ConfigureStep, WatchStep DEF Next, CleanupStep

LEMMA InitInv ==
  Init => IInv
<1> SUFFICES ASSUME Init PROVE IInv
  OBVIOUS
<1>1. 0 \in 0..ChanCap /\ 0 \in 0..MaxPending /\ 0 \in Refs
  BY LifecycleAssumption DEF Refs
<1>2. SourceType
  BY <1>1 DEF Init, LifecycleInit, SourceType
<1>3. SinkType /\ SinkInv
  BY <1>1 DEF Init, LifecycleInit, SinkType, SinkInv, StopPoints
<1>4. AgentType /\ PollsCurrent
  BY <1>1 DEF Init, LifecycleInit, AgentType, PollsCurrent
<1>5. RefInv
  BY DEF Init, RefInv
<1> QED
  BY <1>2, <1>3, <1>4, <1>5 DEF IInv

-----------------------------------------------------------------------------
(* The theorems.                                                            *)

\* The invariant holds of every behaviour: the goroutines of sources and sinks,
\* the callers of their Stop, Configure, check and cleanup of cmd/agent.go, in
\* any interleaving.
THEOREM InductiveInvariant ==
  Spec => []IInv
<1>1. IInv /\ [Next]_vars => IInv'
  BY PipelinesStep, AgentStep DEF IInv
<1> QED
  BY <1>1, InitInv, PTL DEF Spec

\* Every variable keeps its type: no state word, caller of Stop, counter or
\* reference of the agent leaves the values the code gives it.
THEOREM TypeCorrect ==
  Spec => []TypeOK
<1>1. IInv => TypeOK
  BY DEF IInv, SourceType, SinkType, AgentType, TypeOK, StopPoints
<1> QED
  BY <1>1, InductiveInvariant, PTL

\* The committed channel of a sink is closed only when nobody can send to it any
\* more, whichever of the callers of BaseSink.Stop runs CleanFn.
THEOREM ClosedChannelsUnused ==
  Spec => []ClosedAfterUse
<1>1. IInv => ClosedAfterUse
  BY DEF IInv, SinkInv, ClosedAfterUse
<1> QED
  BY <1>1, InductiveInvariant, PTL

\* BaseSink.Stop runs CleanFn on a started sink only when the goroutine of apply
\* is past its last applyFn.
THEOREM CleanedAfterApply ==
  Spec => []CleanAfterApply
<1>1. IInv => CleanAfterApply
  BY DEF IInv, SinkInv, CleanAfterApply
<1> QED
  BY <1>1, InductiveInvariant, PTL

\* Only the configured pipeline is polled by its goroutine of sourceToSink, and
\* only its dumper is kept, over any sequence of Configure and failures.
THEOREM PolledPipelineCurrent ==
  Spec => []PollsCurrent
<1>1. IInv => PollsCurrent
  BY DEF IInv
<1> QED
  BY <1>1, InductiveInvariant, PTL

\* What the agent reports is about the configured pipeline, except for the sink
\* of an earlier pulsar2pg pipeline whose source failed.
THEOREM ReportedPipelineCurrent ==
  Spec => []ReportsCurrent
<1>1. IInv => ReportsCurrent
  <2> SUFFICES ASSUME IInv PROVE ReportsCurrent
    OBVIOUS
  <2>1. CASE params = 0
    BY <2>1 DEF IInv, RefInv, ReportsCurrent, Subject
  <2>2. CASE params # 0 /\ cleanup # "done" /\ cmd[params] = "pulsar2pg"
    BY <2>2 DEF IInv, RefInv, ReportsCurrent, Subject
  <2>3. CASE params # 0 /\ cleanup # "done" /\ cmd[params] = "pg2pulsar"
    <3>1. pgSrc = params
      BY <2>3 DEF IInv, RefInv
    <3>2. CASE pgSink = 0
      BY <3>1, <3>2 DEF ReportsCurrent, Subject
    <3>3. CASE pgSink # 0
      BY <2>3, <3>3 DEF IInv, RefInv, ReportsCurrent, StaleSink
    <3> QED
      BY <3>2, <3>3
  <2>4. CASE cleanup = "done"
    BY <2>4 DEF ReportsCurrent
  <2> QED
    BY <2>1, <2>2, <2>3, <2>4 DEF IInv, RefInv, Commands
<1> QED
  BY <1>1, InductiveInvariant, PTL

=============================================================================
