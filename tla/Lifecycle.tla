------------------------------ MODULE Lifecycle ------------------------------
(***************************************************************************)
(* BaseSource (pkg/source/main.go) and BaseSink (pkg/sink/main.go), and how *)
(* sourceToSink connects them: the goroutine that reads the source, the     *)
(* channel of changes, the goroutine that applies them, the callbacks of    *)
(* PulsarSink's producer, and the calls of Stop by all who make them.  A    *)
(* pipeline is one source with its sink; several may exist at a time.       *)
(*                                                                          *)
(* The state words keep the values of the code.  The value 1 is left out:   *)
(* between 1 and 2 only a channel is made, and a Stop that meets 1 waits    *)
(* for 2.  A change is only counted.  The committed channel is never full:  *)
(* its reader only stores a number.                                         *)
(***************************************************************************)
EXTENDS Integers, FiniteSets

CONSTANTS
  MaxPipes,    \* bound on the pipelines that are ever started
  ChanCap,     \* capacity of the channel of changes
  MaxPending,  \* capacity of the producer's queue of pending messages
  MaxFaults    \* for each pipeline, a bound on its failing reads, applies and sends

ASSUME LifecycleAssumption ==
  /\ MaxPipes \in Nat /\ MaxFaults \in [1..MaxPipes -> Nat]
  /\ ChanCap \in Nat \ {0} /\ MaxPending \in Nat \ {0}

VARIABLES
  cmd,        \* the command that started the pipeline, or "none"
  srcState,   \* BaseSource.state
  srcErr,     \* BaseSource.err is set
  reader,     \* goroutine of capture: "none" | "read" | "send" | "done"
  changes,    \* number of changes in the channel; it is closed when reader is "done"
  sinkState,  \* BaseSink.state
  sinkErr,    \* BaseSink.err is set
  applier,    \* goroutine of apply: "none" | "select" | "apply" | "cleanup" |
              \* "drain" | "done"
  consistent, \* PulsarSink.consistent: a change was not skipped
  unsettled,  \* messages given to the producer whose callback has not run
  committed,  \* the channel of checkpoints: "nil" | "open" | "closed"
  cleanOnce,  \* the sync.Once around CleanFn: "no" | "running" | "done"
  stop,       \* by caller, where its call of BaseSink.Stop is
  srcStop,    \* by caller, where its call of BaseSource.Stop is
  faults

sourceVars == <<srcState, srcErr, reader, changes>>
prodVars   == <<consistent, unsettled>>
sinkVars   == <<sinkState, sinkErr, applier, prodVars, committed, cleanOnce>>
stopVars   == <<stop, srcStop>>
pipeVars   == <<cmd, sourceVars, sinkVars, stopVars, faults>>

Pipes == 1..MaxPipes

\* Who calls BaseSink.Stop: the goroutine of apply itself, the callback of a
\* failed send, and the two users of a pipeline; the latter call
\* BaseSource.Stop as well.
Users == {"watcher", "cleanup"}
Stoppers == Users \cup {"loop", "callback"}

LifecycleInit ==
  /\ cmd = [p \in Pipes |-> "none"]
  /\ srcState = [p \in Pipes |-> 0] /\ srcErr = [p \in Pipes |-> FALSE]
  /\ reader = [p \in Pipes |-> "none"] /\ changes = [p \in Pipes |-> 0]
  /\ sinkState = [p \in Pipes |-> 0] /\ sinkErr = [p \in Pipes |-> FALSE]
  /\ applier = [p \in Pipes |-> "none"]
  /\ consistent = [p \in Pipes |-> FALSE] /\ unsettled = [p \in Pipes |-> 0]
  /\ committed = [p \in Pipes |-> "nil"] /\ cleanOnce = [p \in Pipes |-> "no"]
  /\ stop = [p \in Pipes |-> [a \in Stoppers |-> "no"]]
  /\ srcStop = [p \in Pipes |-> [a \in Users |-> "no"]]
  /\ faults = [p \in Pipes |-> 0]

\* One more fault, within the bound.
Fault(p) ==
  /\ faults[p] < MaxFaults[p]
  /\ faults' = [faults EXCEPT ![p] = @ + 1]

-----------------------------------------------------------------------------
(* BaseSource.                                                              *)

\* capture: the source is running when it returns.  Apply is called by
\* another goroutine, later.
Capture(p, c) ==
  /\ cmd' = [cmd EXCEPT ![p] = c]
  /\ srcState' = [srcState EXCEPT ![p] = 2]
  /\ reader' = [reader EXCEPT ![p] = "read"]

\* What the reading goroutine returns on: the state word, looked at when a read
\* has ended.  The deferred calls close both channels.
Read(p) ==
  /\ reader[p] = "read"
  /\ srcState[p] = 2
  /\ reader' = [reader EXCEPT ![p] = "send"]
  /\ UNCHANGED <<cmd, srcState, srcErr, changes, sinkVars, stopVars, faults>>

ReadStopped(p) ==
  /\ reader[p] = "read"
  /\ srcState[p] # 2
  /\ reader' = [reader EXCEPT ![p] = "done"]
  /\ UNCHANGED <<cmd, srcState, srcErr, changes, sinkVars, stopVars, faults>>

ReadError(p) ==
  /\ reader[p] = "read"
  /\ srcState[p] = 2
  /\ Fault(p)
  /\ srcErr' = [srcErr EXCEPT ![p] = TRUE]
  /\ reader' = [reader EXCEPT ![p] = "done"]
  /\ UNCHANGED <<cmd, srcState, changes, sinkVars, stopVars>>

\* It waits here while the channel is full, whatever the state word says.
SendChange(p) ==
  /\ reader[p] = "send"
  /\ changes[p] < ChanCap
  /\ changes' = [changes EXCEPT ![p] = @ + 1]
  /\ reader' = [reader EXCEPT ![p] = "read"]
  /\ UNCHANGED <<cmd, srcState, srcErr, sinkVars, stopVars, faults>>

\* BaseSource.Stop: look at the state word, swap it, wait for the goroutine.
\* The loop around the swap has no other way out: a caller that saw 2 and
\* finds 3 (of another caller) tries for ever.
SrcStopCall(p, a) ==
  srcStop' = [srcStop EXCEPT ![p][a] = IF srcState[p] = 2 THEN "swap" ELSE "wait"]

SrcStopSwap(p, a) ==
  /\ srcStop[p][a] = "swap"
  /\ srcState[p] = 2
  /\ srcState' = [srcState EXCEPT ![p] = 3]
  /\ srcStop' = [srcStop EXCEPT ![p][a] = "wait"]
  /\ UNCHANGED <<cmd, srcErr, reader, changes, sinkVars, stop, faults>>

SrcStopWait(p, a) ==
  /\ srcStop[p][a] = "wait"
  /\ reader[p] = "done"
  /\ srcStop' = [srcStop EXCEPT ![p][a] = "done"]
  /\ UNCHANGED <<cmd, sourceVars, sinkVars, stop, faults>>

-----------------------------------------------------------------------------
(* BaseSink.Stop.                                                           *)

\* Mutant: a sink that another caller is stopping is taken for stopped.
StopCall_NoWait(p, a) ==
  stop' = [stop EXCEPT ![p][a] = CASE sinkState[p] = 0 -> "once0"
                                   [] sinkState[p] = 2 -> "swap"
                                   [] sinkState[p] \in {3, 4} -> "once"]

\* A call begins with a look at the state word.
StopCall(p, a) ==
  stop' = [stop EXCEPT ![p][a] = CASE sinkState[p] = 0 -> "once0"
                                   [] sinkState[p] = 2 -> "swap"
                                   [] sinkState[p] = 3 -> "wait"
                                   [] sinkState[p] = 4 -> "once"]

\* As in BaseSource, a caller that saw 2 and finds 3 or 4 tries for ever.
StopSwap(p, a) ==
  /\ stop[p][a] = "swap"
  /\ sinkState[p] = 2
  /\ sinkState' = [sinkState EXCEPT ![p] = 3]
  /\ stop' = [stop EXCEPT ![p][a] = "wait"]
  /\ UNCHANGED <<cmd, sourceVars, sinkErr, applier, prodVars, committed, cleanOnce,
                 srcStop, faults>>

StopWait(p, a) ==
  /\ stop[p][a] = "wait"
  /\ sinkState[p] = 4
  /\ stop' = [stop EXCEPT ![p][a] = "once"]
  /\ UNCHANGED <<cmd, sourceVars, sinkVars, srcStop, faults>>

\* cleanOnce.Do: the first caller runs the function, the others wait for it.
OnceEnter(p, a) ==
  /\ stop[p][a] \in {"once0", "once"}
  /\ cleanOnce[p] = "no"
  /\ cleanOnce' = [cleanOnce EXCEPT ![p] = "running"]
  /\ stop' = [stop EXCEPT ![p][a] = IF stop[p][a] = "once0" THEN "clean0" ELSE "clean"]
  /\ UNCHANGED <<cmd, sourceVars, sinkState, sinkErr, applier, prodVars, committed,
                 srcStop, faults>>

OnceSkip(p, a) ==
  /\ stop[p][a] \in {"once0", "once"}
  /\ cleanOnce[p] = "done"
  /\ stop' = [stop EXCEPT ![p][a] = "done"]
  /\ UNCHANGED <<cmd, sourceVars, sinkVars, srcStop, faults>>

\* Mutant: CleanFn closes the producer without flushing it.
Flushed_Never(p) == TRUE

\* CleanFn of PulsarSink flushes the producer first, which waits for the
\* callbacks of what was sent before; a callback that itself waits in Stop has
\* settled its message.
Flushed(p) == unsettled[p] = 0

\* The function: CleanFn and, unless the sink was not started when Stop looked,
\* the end of the committed channel.
Clean(p, a) ==
  /\ stop[p][a] \in {"clean0", "clean"}
  /\ Flushed(p)
  /\ cleanOnce' = [cleanOnce EXCEPT ![p] = "done"]
  /\ committed' = IF stop[p][a] = "clean" THEN [committed EXCEPT ![p] = "closed"]
                  ELSE committed
  /\ stop' = [stop EXCEPT ![p][a] = "done"]
  /\ UNCHANGED <<cmd, sourceVars, sinkState, sinkErr, applier, prodVars, srcStop, faults>>

-----------------------------------------------------------------------------
(* BaseSink, the goroutine of apply.                                        *)

\* Apply runs even on a sink that was stopped before: its state is still 0.
Apply(p) ==
  /\ cmd[p] # "none"
  /\ applier[p] = "none"
  /\ sinkState' = [sinkState EXCEPT ![p] = 2]
  /\ committed' = [committed EXCEPT ![p] = "open"]
  /\ applier' = [applier EXCEPT ![p] = "select"]
  /\ UNCHANGED <<cmd, sourceVars, sinkErr, prodVars, cleanOnce, stopVars, faults>>

\* The condition of the loop, looked at after each round.
Again(p) == IF sinkState[p] = 2 THEN "select" ELSE "cleanup"

\* Mutant: what a closed channel returns is taken for a change.
SelectChange_IgnoreMore(p) ==
  /\ applier[p] = "select"
  /\ changes[p] > 0 \/ reader[p] = "done"
  /\ changes' = [changes EXCEPT ![p] = @ - 1]
  /\ applier' = [applier EXCEPT ![p] = "apply"]
  /\ UNCHANGED <<cmd, srcState, srcErr, reader, sinkState, sinkErr, prodVars, committed,
                 cleanOnce, stopVars, faults>>

\* select: a change, the end of the channel, or the ticker.
SelectChange(p) ==
  /\ applier[p] = "select"
  /\ changes[p] > 0
  /\ changes' = [changes EXCEPT ![p] = @ - 1]
  /\ applier' = [applier EXCEPT ![p] = "apply"]
  /\ UNCHANGED <<cmd, srcState, srcErr, reader, sinkState, sinkErr, prodVars, committed,
                 cleanOnce, stopVars, faults>>

SelectEnd(p) ==
  /\ applier[p] = "select"
  /\ changes[p] = 0 /\ reader[p] = "done"
  /\ applier' = [applier EXCEPT ![p] = "cleanup"]
  /\ UNCHANGED <<cmd, sourceVars, sinkState, sinkErr, prodVars, committed, cleanOnce,
                 stopVars, faults>>

SelectTick(p) ==
  /\ applier[p] = "select"
  /\ applier' = [applier EXCEPT ![p] = Again(p)]
  /\ UNCHANGED <<cmd, sourceVars, sinkState, sinkErr, prodVars, committed, cleanOnce,
                 stopVars, faults>>

\* applyFn returns nil: PGXSink has applied the change; PulsarSink has skipped it,
\* as it may until it meets one that the topic does not hold, or given it to the
\* producer, which waits for room in its queue.
ApplyOK(p) ==
  /\ applier[p] = "apply"
  /\ applier' = [applier EXCEPT ![p] = Again(p)]
  /\ \/ /\ cmd[p] = "pulsar2pg"
        /\ cleanOnce[p] # "done"
        /\ UNCHANGED prodVars
     \/ /\ cmd[p] = "pg2pulsar"
        /\ ~consistent[p]
        /\ UNCHANGED prodVars
     \/ /\ cmd[p] = "pg2pulsar"
        /\ unsettled[p] < MaxPending
        /\ unsettled' = [unsettled EXCEPT ![p] = @ + 1]
        /\ consistent' = [consistent EXCEPT ![p] = TRUE]
  /\ UNCHANGED <<cmd, sourceVars, sinkState, sinkErr, committed, cleanOnce, stopVars,
                 faults>>

\* It returns an error; on the closed connection of a cleaned PGXSink always.
ApplyError(p) ==
  /\ applier[p] = "apply"
  /\ IF cleanOnce[p] = "done" /\ cmd[p] = "pulsar2pg" THEN UNCHANGED faults
     ELSE Fault(p)
  /\ sinkErr' = [sinkErr EXCEPT ![p] = TRUE]
  /\ applier' = [applier EXCEPT ![p] = "cleanup"]
  /\ UNCHANGED <<cmd, sourceVars, sinkState, prodVars, committed, cleanOnce, stopVars>>

\* Mutant: the goroutine ends without reading the channel to its end.
Cleanup_NoDrain(p) ==
  /\ applier[p] = "cleanup"
  /\ sinkState' = [sinkState EXCEPT ![p] = 4]
  /\ stop' = [stop EXCEPT ![p]["loop"] = "once"]
  /\ applier' = [applier EXCEPT ![p] = "done"]
  /\ UNCHANGED <<cmd, sourceVars, sinkErr, prodVars, committed, cleanOnce, srcStop, faults>>

\* The label cleanup: the state word, whatever it is, becomes 4, and a
\* goroutine calls Stop, which finds it so.
Cleanup(p) ==
  /\ applier[p] = "cleanup"
  /\ sinkState' = [sinkState EXCEPT ![p] = 4]
  /\ stop' = [stop EXCEPT ![p]["loop"] = "once"]
  /\ applier' = [applier EXCEPT ![p] = "drain"]
  /\ UNCHANGED <<cmd, sourceVars, sinkErr, prodVars, committed, cleanOnce, srcStop, faults>>

Drain(p) ==
  /\ applier[p] = "drain"
  /\ \/ /\ changes[p] > 0
        /\ changes' = [changes EXCEPT ![p] = @ - 1]
        /\ UNCHANGED applier
     \/ /\ changes[p] = 0 /\ reader[p] = "done"
        /\ applier' = [applier EXCEPT ![p] = "done"]
        /\ UNCHANGED changes
  /\ UNCHANGED <<cmd, srcState, srcErr, reader, sinkState, sinkErr, prodVars, committed,
                 cleanOnce, stopVars, faults>>

-----------------------------------------------------------------------------
(* The callbacks of PulsarSink's producer, on goroutines of the client      *)
(* library.                                                                 *)

\* A successful send: the checkpoint goes to the committed channel.
SendCallback(p) ==
  /\ unsettled[p] > 0
  /\ cleanOnce[p] # "done"
  /\ unsettled' = [unsettled EXCEPT ![p] = @ - 1]
  /\ UNCHANGED <<cmd, sourceVars, sinkState, sinkErr, applier, consistent, committed, cleanOnce,
                 stopVars, faults>>

\* A failed one stops the sink.  A closed producer fails every send.
SendError(p) ==
  /\ unsettled[p] > 0
  /\ stop[p]["callback"] \in {"no", "done"}
  /\ IF cleanOnce[p] = "done" THEN UNCHANGED faults
     ELSE Fault(p)
  /\ unsettled' = [unsettled EXCEPT ![p] = @ - 1]
  /\ sinkErr' = [sinkErr EXCEPT ![p] = TRUE]
  /\ StopCall(p, "callback")
  /\ UNCHANGED <<cmd, sourceVars, sinkState, applier, consistent, committed, cleanOnce,
                 srcStop>>

-----------------------------------------------------------------------------
\* The steps of the goroutines of one pipeline, but for its users.
SourceStep(p) == Read(p) \/ ReadStopped(p) \/ ReadError(p) \/ SendChange(p)

SinkStep(p) ==
  \/ Apply(p) \/ SelectChange(p) \/ SelectEnd(p) \/ SelectTick(p)
  \/ ApplyOK(p) \/ ApplyError(p) \/ Cleanup(p) \/ Drain(p)
  \/ SendCallback(p) \/ SendError(p)

StopStep(p, a) ==
  \/ StopSwap(p, a) \/ StopWait(p, a)
  \/ OnceEnter(p, a) \/ OnceSkip(p, a) \/ Clean(p, a)

SrcStopStep(p, a) == SrcStopSwap(p, a) \/ SrcStopWait(p, a)

PipeStep(p) ==
  \/ SourceStep(p) \/ SinkStep(p)
  \/ \E a \in Stoppers : StopStep(p, a)
  \/ \E a \in Users : SrcStopStep(p, a)

\* A Stop that lost the race for the state word: it will never return.
Spins(p) ==
  \/ \E a \in Stoppers : stop[p][a] = "swap" /\ sinkState[p] # 2
  \/ \E a \in Users : srcStop[p][a] = "swap" /\ srcState[p] # 2

=============================================================================
