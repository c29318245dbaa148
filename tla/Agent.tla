-------------------------------- MODULE Agent --------------------------------
(***************************************************************************)
(* The agent (cmd/agent.go): Configure starts a pipeline, a goroutine per   *)
(* pipeline watches it for errors and then stops it, cleanup stops what is  *)
(* left on a signal.                                                        *)
(*                                                                          *)
(* Configure and check hold the mutex from beginning to end and wait for no *)
(* goroutine of the agent, so each is one action; cleanup holds it while it *)
(* waits for Stop.  A reference is the number of a pipeline, 0 for nil.     *)
(***************************************************************************)
EXTENDS Lifecycle

CONSTANT SignalUpTo  \* bound: a signal comes when at most so many pipelines were started

ASSUME AgentAssumption == SignalUpTo \in Nat

VARIABLES
  params,      \* Agent.params: the configured pipeline
  dumper, pgSink, pulsarSink, pgSrc,
  agentSinkErr, agentSrcErr,   \* Agent.sinkErr, Agent.sourceErr are set
  started,     \* pipelines started so far
  watcher,     \* goroutine of sourceToSink: "none" | "poll" | "stopSink" | "stopSrc"
  cleanup,     \* "no", the step of cleanup it waits in, or "done"
  exited       \* the process has ended

refVars   == <<params, dumper, pgSink, pulsarSink, pgSrc, agentSinkErr, agentSrcErr>>
agentVars == <<refVars, started, watcher, cleanup, exited>>
vars == <<pipeVars, agentVars>>

Init ==
  /\ LifecycleInit
  /\ params = 0 /\ dumper = 0 /\ pgSink = 0 /\ pulsarSink = 0 /\ pgSrc = 0
  /\ agentSinkErr = FALSE /\ agentSrcErr = FALSE
  /\ started = 0
  /\ watcher = [p \in Pipes |-> "none"]
  /\ cleanup = "no" /\ exited = FALSE

\* The mutex is free between two actions, except while cleanup waits.
Unlocked == cleanup \in {"no", "done"}

-----------------------------------------------------------------------------
(* Configure.  While a pipeline is configured, and for the command "status",*)
(* it only reports.                                                         *)

\* What a running pipeline of a command holds until it has been stopped: the
\* producer of the fixed name and the replication slot, or the advisory lock.
Holds(p, c) ==
  /\ cmd[p] = c
  /\ \/ cleanOnce[p] # "done"
     \/ c = "pg2pulsar" /\ reader[p] # "done"

\* Mutant: Configure does not look at params.
Configurable_Always == TRUE

Configurable == params = 0

\* pg2pulsar and pulsar2pg, when Setup and Capture succeed.
Configure(c) ==
  /\ cleanup = "no"
  /\ Configurable
  /\ started < MaxPipes
  /\ \A p \in Pipes : ~Holds(p, c)
  /\ started' = started + 1
  /\ Capture(started', c)
  /\ params' = started'
  /\ IF c = "pg2pulsar"
     THEN pulsarSink' = started' /\ pgSrc' = started' /\ UNCHANGED <<dumper, pgSink>>
     ELSE dumper' = started' /\ pgSink' = started' /\ UNCHANGED <<pulsarSink, pgSrc>>
  /\ agentSinkErr' = FALSE /\ agentSrcErr' = FALSE
  /\ watcher' = [watcher EXCEPT ![started'] = "poll"]
  /\ UNCHANGED <<srcErr, changes, sinkVars, stopVars, faults, cleanup, exited>>

\* Setup or Capture fails, as they do while an earlier pipeline holds what they
\* need, and may do at any time: logger.Fatalf ends the process.
ConfigureFatal ==
  /\ cleanup = "no"
  /\ Configurable
  /\ exited' = TRUE
  /\ UNCHANGED <<pipeVars, refVars, started, watcher, cleanup>>

\* Mutant: the source comes first.
Subject_SourceFirst == IF pgSrc # 0 THEN pgSrc ELSE pgSink

\* report: an error, if there is one; else a number of the sink, or of the
\* source, put into the parameters.
Failed == agentSinkErr \/ agentSrcErr
Subject == IF pgSink # 0 THEN pgSink ELSE pgSrc

-----------------------------------------------------------------------------
(* The watching goroutine.                                                  *)

\* The references that check gives up.  It stops the dumper.
Forget(sinkFailed, srcFailed) ==
  /\ params' = IF sinkFailed \/ srcFailed THEN 0 ELSE params
  /\ pgSink' = IF sinkFailed THEN 0 ELSE pgSink
  /\ pgSrc' = IF srcFailed THEN 0 ELSE pgSrc
  /\ pulsarSink' = IF srcFailed THEN 0 ELSE pulsarSink
  /\ dumper' = 0

\* check, when it finds an error; otherwise it only sets the errors to nil,
\* which they are.
WatcherCheck(p) ==
  /\ watcher[p] = "poll"
  /\ Unlocked
  /\ sinkErr[p] \/ srcErr[p]
  /\ agentSinkErr' = sinkErr[p] /\ agentSrcErr' = srcErr[p]
  /\ Forget(sinkErr[p], srcErr[p])
  /\ watcher' = [watcher EXCEPT ![p] = "stopSink"]
  /\ StopCall(p, "watcher")
  /\ UNCHANGED <<cmd, sourceVars, sinkVars, srcStop, faults, started, cleanup, exited>>

\* sk.Stop has returned; src.Stop follows.
WatcherStopSource(p) ==
  /\ watcher[p] = "stopSink"
  /\ stop[p]["watcher"] = "done"
  /\ watcher' = [watcher EXCEPT ![p] = "stopSrc"]
  /\ SrcStopCall(p, "watcher")
  /\ UNCHANGED <<cmd, sourceVars, sinkVars, stop, faults, refVars, started, cleanup, exited>>

-----------------------------------------------------------------------------
(* A signal: the server stops gracefully (calls that run come to their end, *)
(* no other is accepted), cleanup follows.  Nobody waits for it: the main   *)
(* goroutine returns as soon as the server has stopped, so the process may  *)
(* end before any of these steps, and nothing is claimed of their progress. *)

\* The references in the order in which cleanup stops them.
CleanupStop(p, next) ==
  /\ cleanup' = next
  /\ IF p = 0 THEN UNCHANGED stop ELSE StopCall(p, "cleanup")

Signal ==
  /\ cleanup = "no"
  /\ started <= SignalUpTo
  /\ dumper' = 0
  /\ CleanupStop(pgSink, "pgSink")
  /\ UNCHANGED <<cmd, sourceVars, sinkVars, srcStop, faults, params, pgSink, pulsarSink,
                 pgSrc, agentSinkErr, agentSrcErr, started, watcher, exited>>

CleanupPgSink ==
  /\ cleanup = "pgSink"
  /\ pgSink # 0 => stop[pgSink]["cleanup"] = "done"
  /\ CleanupStop(pulsarSink, "pulsarSink")
  /\ UNCHANGED <<cmd, sourceVars, sinkVars, srcStop, faults, refVars, started, watcher,
                 exited>>

CleanupPulsarSink ==
  /\ cleanup = "pulsarSink"
  /\ pulsarSink # 0 => stop[pulsarSink]["cleanup"] = "done"
  /\ cleanup' = "pgSrc"
  /\ IF pgSrc = 0 THEN UNCHANGED srcStop ELSE SrcStopCall(pgSrc, "cleanup")
  /\ UNCHANGED <<cmd, sourceVars, sinkVars, stop, faults, refVars, started, watcher,
                 exited>>

CleanupEnd ==
  /\ cleanup = "pgSrc"
  /\ pgSrc # 0 => srcStop[pgSrc]["cleanup"] = "done"
  /\ cleanup' = "done"
  /\ dumper' = 0 /\ pgSink' = 0 /\ pulsarSink' = 0 /\ pgSrc' = 0
  /\ UNCHANGED <<pipeVars, params, agentSinkErr, agentSrcErr, started, watcher,
                 exited>>

-----------------------------------------------------------------------------
Watch(p) == WatcherCheck(p) \/ WatcherStopSource(p)

CleanupStep == CleanupPgSink \/ CleanupPulsarSink \/ CleanupEnd

Commands == {"pg2pulsar", "pulsar2pg"}

Next ==
  /\ ~exited
  /\ \/ \E c \in Commands : Configure(c)
     \/ ConfigureFatal
     \/ Signal \/ CleanupStep
     \/ \E p \in Pipes : Watch(p)
     \/ \E p \in Pipes : PipeStep(p) /\ UNCHANGED agentVars

Spec == Init /\ [][Next]_vars

\* The goroutines run, reads time out, the ticker ticks, and the broker answers
\* what it was sent.  Nobody has to configure, and nothing has to fail.
Goroutine(A) == ~exited /\ A /\ UNCHANGED agentVars

Fairness ==
  \A p \in Pipes :
    /\ WF_vars(Goroutine(ReadStopped(p) \/ SendChange(p)))
    /\ WF_vars(Goroutine(SinkStep(p)))
    /\ WF_vars(Goroutine(SendCallback(p) \/ SendError(p)))
    /\ WF_vars(Goroutine(\E a \in Stoppers : StopStep(p, a)))
    /\ WF_vars(Goroutine(\E a \in Users : SrcStopStep(p, a)))
    /\ WF_vars(~exited /\ Watch(p))

FairSpec == Spec /\ Fairness

-----------------------------------------------------------------------------
(* Properties.                                                              *)

Refs == 0..MaxPipes

TypeOK ==
  /\ cmd \in [Pipes -> Commands \cup {"none"}]
  /\ srcState \in [Pipes -> {0, 2, 3}] /\ sinkState \in [Pipes -> {0, 2, 3, 4}]
  /\ srcErr \in [Pipes -> BOOLEAN] /\ sinkErr \in [Pipes -> BOOLEAN]
  /\ reader \in [Pipes -> {"none", "read", "send", "done"}]
  /\ applier \in [Pipes -> {"none", "select", "apply", "cleanup", "drain", "done"}]
  /\ changes \in [Pipes -> 0..ChanCap]
  /\ consistent \in [Pipes -> BOOLEAN] /\ unsettled \in [Pipes -> 0..MaxPending]
  /\ committed \in [Pipes -> {"nil", "open", "closed"}]
  /\ cleanOnce \in [Pipes -> {"no", "running", "done"}]
  /\ stop \in [Pipes -> [Stoppers -> {"no", "swap", "wait", "once0", "once", "clean0",
                                     "clean", "done"}]]
  /\ srcStop \in [Pipes -> [Users -> {"no", "swap", "wait", "done"}]]
  /\ faults \in [Pipes -> Nat]
  /\ params \in Refs /\ dumper \in Refs /\ pgSink \in Refs
  /\ pulsarSink \in Refs /\ pgSrc \in Refs
  /\ agentSinkErr \in BOOLEAN /\ agentSrcErr \in BOOLEAN
  /\ started \in Refs
  /\ watcher \in [Pipes -> {"none", "poll", "stopSink", "stopSrc"}]
  /\ cleanup \in {"no", "pgSink", "pulsarSink", "pgSrc", "done"}
  /\ exited \in BOOLEAN

\* The committed channel is closed only when nobody can send to it any more:
\* the goroutine of apply is past its last applyFn and no callback of the
\* producer is to come, whichever of the callers of Stop closes it.
ClosedAfterUse ==
  \A p \in Pipes : committed[p] = "closed" =>
    applier[p] \in {"drain", "done"} /\ unsettled[p] = 0

\* CleanFn runs only when the goroutine of apply is past its last applyFn, if
\* the Stop that runs it found the sink started.
CleanAfterApply ==
  \A p \in Pipes : (\E a \in Stoppers : stop[p][a] = "clean") =>
    applier[p] \in {"drain", "done"}

\* Only the pipeline that is configured is polled, so the errors that the agent
\* reports are never those of a predecessor; nor is the dumper one's.
PollsCurrent ==
  /\ \A p \in Pipes : watcher[p] = "poll" => p = params
  /\ dumper \in {0, params}

\* The agent reports an error, nothing before the first pipeline, or the
\* pipeline that is configured - unless its source failed under a pulsar2pg
\* pipeline: check then keeps pgSink, and report prefers it to the source of a
\* pg2pulsar pipeline that follows.  Something to report about means parameters
\* to put it into.
StaleSink ==
  /\ pgSink # 0 /\ params # 0
  /\ cmd[params] = "pg2pulsar" /\ cmd[pgSink] = "pulsar2pg" /\ srcErr[pgSink]

ReportsCurrent ==
  Failed \/ Subject = params \/ StaleSink \/ cleanup = "done"

\* A pipeline that failed comes to its end: its source has stopped and its sink
\* has read the channel to its end.  Unless a Stop lost the race for a state
\* word, or the process ends.
PipelineEnds ==
  \A p \in Pipes :
    (srcErr[p] \/ sinkErr[p])
      ~> \/ reader[p] = "done" /\ applier[p] = "done"
         \/ Spins(p) \/ cleanup # "no" \/ exited

=============================================================================
