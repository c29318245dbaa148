------------------------------ MODULE Scheduler ------------------------------
(***************************************************************************)
(* MemoryScheduler of pkg/dblog and the PullDumpInfo handlers of the        *)
(* Controller that call it, for one URI.  Two mutexes protect two maps      *)
(* (clientsMu: clients, pendingMu: pending) and no operation holds both:    *)
(* an action is one critical section, and the locals of a goroutine carry   *)
(* what it read in one into the next.  The scheduling goroutine hands the   *)
(* dumps of a schedule to idle clients; a client answers each with an ack,  *)
(* asks for it to be requeued, or disconnects.                              *)
(*                                                                          *)
(* A dump is <<n, i>>: number i of the n-th schedule.  Client ids are never *)
(* used again (Controller.clients counts them).  Time is abstracted to one  *)
(* bit: whether the cool down after a client's last ack has passed.         *)
(***************************************************************************)
EXTENDS Integers, Sequences, FiniteSets

CONSTANTS
  Clients,       \* ids of the clients that may ever register
  NumDumps,      \* for each schedule, the number of its dumps
  MaxSchedules,  \* bound on the calls of Schedule that succeed
  MaxFaults,     \* bound on requeues, disconnections and failing sends
  MayStop,       \* whether StopSchedule may be called
  None           \* no dump, no client

ASSUME SchedulerAssumption ==
  /\ IsFiniteSet(Clients)
  /\ MaxSchedules \in Nat /\ NumDumps \in [1..MaxSchedules -> Nat]
  /\ MaxFaults \in Nat
  /\ MayStop \in BOOLEAN
  /\ None \notin Clients

VARIABLES
  pending,   \* the entry of the map: exists, dumps, offset, backoff, coolDown, stopping
  clients,   \* keys of the map of the URI
  dump,      \* track.dump, also of a track that left the map
  cooled,    \* the cool down of the client has passed since track.ackTs
  handler,   \* PullDumpInfo goroutine: "new" | "recv" | "push" | "delete" | "done"
  returned,  \* its locals in Ack: dump, requeue, closing
  inbox,     \* the dump a client has received and not answered
  spc,       \* the scheduling goroutine: "none", or its next critical section
  loops,     \* its locals ...
  candidate, busy, over, popped,
  schedules, faults,
  done       \* history: dumps answered with a successful ack

trackVars == <<clients, dump, cooled>>
connVars  == <<handler, returned, inbox>>
goVars    == <<spc, loops, candidate, busy, over, popped>>
histVars  == <<schedules, faults, done>>
vars == <<pending, trackVars, connVars, goVars, histVars>>

Dumps == UNION {{<<n, i>> : i \in 1..NumDumps[n]} : n \in 1..MaxSchedules}

ASSUME NoneAssumption == None \notin Dumps

NoPending == [exists |-> FALSE, dumps |-> <<>>, offset |-> 0, backoff |-> FALSE,
              coolDown |-> FALSE, stopping |-> FALSE]
NoAck == [dump |-> None, requeue |-> FALSE, closing |-> FALSE]

Init ==
  /\ pending = NoPending
  /\ clients = {}
  /\ dump = [c \in Clients |-> None]
  /\ cooled = [c \in Clients |-> TRUE]
  /\ handler = [c \in Clients |-> "new"]
  /\ returned = [c \in Clients |-> NoAck]
  /\ inbox = [c \in Clients |-> None]
  /\ spc = "none" /\ loops = 0 /\ candidate = None
  /\ busy = 0 /\ over = FALSE /\ popped = None
  /\ schedules = 0 /\ faults = 0 /\ done = {}

-----------------------------------------------------------------------------
(* The methods of pending.                                                  *)

Remaining(p) == Len(p.dumps) - p.offset

\* CoolDown() is not zero: a duration is set, or the last answer was a requeue.
HasCoolDown(p) == p.coolDown \/ p.backoff

\* Mutants: no test for offset 0; store before moving the offset.
Push_NoGuard(p, d) == [p EXCEPT !.offset = @ - 1, !.dumps = [@ EXCEPT ![p.offset] = d]]
Push_NoMove(p, d) ==
  IF p.offset \in DOMAIN p.dumps \ {Len(p.dumps)}
  THEN [p EXCEPT !.offset = @ - 1, !.dumps = [@ EXCEPT ![p.offset + 1] = d]] ELSE p

\* The dump takes the place of the one popped last.
Push(p, d) ==
  IF p.offset = 0 THEN p
  ELSE [p EXCEPT !.offset = @ - 1, !.dumps = [@ EXCEPT ![p.offset] = d]]

-----------------------------------------------------------------------------
(* The calls of the Controller that use one critical section.               *)

\* Schedule; refused while an entry exists.  It starts the goroutine.
Schedule ==
  /\ schedules < MaxSchedules
  /\ ~pending.exists
  /\ schedules' = schedules + 1
  /\ pending' = [NoPending EXCEPT !.exists = TRUE,
                                  !.dumps = [i \in 1..NumDumps[schedules + 1] |->
                                               <<schedules + 1, i>>]]
  /\ spc' = "sleep"
  /\ UNCHANGED <<trackVars, connVars, loops, candidate, busy, over, popped,
                 faults, done>>

SetCoolDown ==
  /\ pending.exists
  /\ \E zero \in BOOLEAN : pending' = [pending EXCEPT !.coolDown = ~zero]
  /\ UNCHANGED <<trackVars, connVars, goVars, histVars>>

StopSchedule ==
  /\ MayStop
  /\ pending.exists
  /\ pending' = [pending EXCEPT !.stopping = TRUE]
  /\ UNCHANGED <<trackVars, connVars, goVars, schedules, faults, done>>

\* PullDumpInfo up to Register.
Register(c) ==
  /\ handler[c] = "new"
  /\ handler' = [handler EXCEPT ![c] = "recv"]
  /\ clients' = clients \cup {c}
  /\ UNCHANGED <<pending, dump, cooled, returned, inbox, goVars, histVars>>

-----------------------------------------------------------------------------
(* Ack has two critical sections: take the dump, then push it or not.       *)

\* What the first section finds.
Tracked(c) == IF c \in clients THEN dump[c] ELSE None

\* Mutant: the track keeps its dump.
TakeDump_Kept(c) ==
  /\ dump' = dump
  /\ cooled' = IF c \in clients THEN [cooled EXCEPT ![c] = FALSE] ELSE cooled

TakeDump(c) ==
  /\ dump' = IF c \in clients THEN [dump EXCEPT ![c] = None] ELSE dump
  /\ cooled' = IF c \in clients THEN [cooled EXCEPT ![c] = FALSE] ELSE cooled

\* The second section, when there was a dump.
Settle(d, requeue) ==
  pending' = IF ~pending.exists THEN pending
             ELSE IF requeue THEN [Push(pending, d) EXCEPT !.backoff = TRUE]
             ELSE [pending EXCEPT !.backoff = FALSE]

\* The handler receives the client's answer and enters Ack.
AckTake(c, requeue) ==
  /\ handler[c] = "recv"
  /\ inbox[c] # None
  /\ requeue => faults < MaxFaults
  /\ faults' = IF requeue THEN faults + 1 ELSE faults
  /\ inbox' = [inbox EXCEPT ![c] = None]
  /\ TakeDump(c)
  /\ returned' = [returned EXCEPT ![c] = [dump |-> Tracked(c), requeue |-> requeue,
                                          closing |-> FALSE]]
  /\ handler' = [handler EXCEPT ![c] = IF Tracked(c) = None THEN "recv" ELSE "push"]
  /\ done' = IF requeue THEN done ELSE done \cup ({Tracked(c)} \ {None})
  /\ UNCHANGED <<pending, clients, goVars, schedules>>

\* Recv returns an error: the deferred cancel starts with Ack("canceled").
Disconnect(c) ==
  /\ handler[c] = "recv"
  /\ faults < MaxFaults
  /\ faults' = faults + 1
  /\ inbox' = [inbox EXCEPT ![c] = None]
  /\ TakeDump(c)
  /\ returned' = [returned EXCEPT ![c] = [dump |-> Tracked(c), requeue |-> TRUE,
                                          closing |-> TRUE]]
  /\ handler' = [handler EXCEPT ![c] = IF Tracked(c) = None THEN "delete" ELSE "push"]
  /\ UNCHANGED <<pending, clients, goVars, schedules, done>>

AckPush(c) ==
  /\ handler[c] = "push"
  /\ Settle(returned[c].dump, returned[c].requeue)
  /\ returned' = [returned EXCEPT ![c] = NoAck]
  /\ handler' = [handler EXCEPT ![c] = IF returned[c].closing THEN "delete" ELSE "recv"]
  /\ UNCHANGED <<trackVars, inbox, goVars, histVars>>

\* The last critical section of cancel, and the end of the handler.
DeleteClient(c) ==
  /\ handler[c] = "delete"
  /\ clients' = clients \ {c}
  /\ handler' = [handler EXCEPT ![c] = "done"]
  /\ UNCHANGED <<pending, dump, cooled, returned, inbox, goVars, histVars>>

\* Time passes.
CoolDownPasses(c) ==
  /\ ~cooled[c]
  /\ cooled' = [cooled EXCEPT ![c] = TRUE]
  /\ UNCHANGED <<pending, clients, dump, connVars, goVars, histVars>>

-----------------------------------------------------------------------------
(* The scheduling goroutine.                                                *)

\* schedule: after the interval, one try per client and one more.
Tick ==
  /\ spc = "sleep"
  /\ loops' = Cardinality(clients) + 1
  /\ spc' = "pick"
  /\ UNCHANGED <<pending, trackVars, connVars, candidate, busy, over, popped,
                 histVars>>

\* Mutant: any client is taken for idle.
Idle_Any == clients

Idle == {c \in clients : dump[c] = None}

\* scheduleOne, first section: some idle client, and the number of busy ones.
Pick ==
  /\ spc = "pick"
  /\ candidate' \in IF Idle = {} THEN {None} ELSE Idle
  /\ busy' = Cardinality(clients \ Idle)
  /\ spc' = "pop"
  /\ UNCHANGED <<pending, trackVars, connVars, loops, over, popped, histVars>>

\* Mutant: a cool down is never over.
MayPop_Never ==
  /\ candidate # None
  /\ ~pending.stopping
  /\ ~HasCoolDown(pending)
  /\ Remaining(pending) > 0

\* The candidate may get a dump: not while stopping, nor before its cool down
\* has passed.
MayPop ==
  /\ candidate # None
  /\ ~pending.stopping
  /\ ~HasCoolDown(pending) \/ cooled[candidate]
  /\ Remaining(pending) > 0

\* Mutant: the end of a stopped schedule waits for the rest of its dumps.
IsOver_Drains == busy = 0 /\ Remaining(pending) = 0

\* What scheduleOne will return: busy and remain are zero, or it is stopping.
IsOver == busy = 0 /\ (pending.stopping \/ Remaining(pending) = 0)

\* Second section: note whether all is done, and pop a dump for the candidate.
Pop ==
  /\ spc = "pop"
  /\ over' = IsOver
  /\ busy' = 0
  /\ popped' = IF MayPop THEN pending.dumps[pending.offset + 1] ELSE None
  /\ pending' = IF MayPop THEN [pending EXCEPT !.offset = @ + 1] ELSE pending
  /\ spc' = IF MayPop THEN "assign" ELSE "decide"
  /\ UNCHANGED <<trackVars, connVars, loops, candidate, histVars>>

\* Third section: the track gets the dump, whether or not it is in the map.
Assign ==
  /\ spc = "assign"
  /\ dump' = [dump EXCEPT ![candidate] = popped]
  /\ popped' = None
  /\ spc' = "send"
  /\ UNCHANGED <<pending, clients, cooled, connVars, loops, candidate, busy, over, histVars>>

\* candidate.schedule(dump) sends it to the client.
SendDump ==
  /\ spc = "send"
  /\ handler[candidate] \in {"recv", "push"}
  /\ ~returned[candidate].closing
  /\ inbox' = [inbox EXCEPT ![candidate] = dump[candidate]]
  /\ spc' = "decide"
  /\ UNCHANGED <<pending, trackVars, handler, returned, loops, candidate, busy, over,
                 popped, histVars>>

\* It fails when the stream is closed, and may fail otherwise: cancel, Ack first.
SendFails ==
  /\ spc = "send"
  /\ \/ handler[candidate] \in {"delete", "done"} \/ returned[candidate].closing
     \/ faults < MaxFaults
  /\ faults' = IF faults < MaxFaults THEN faults + 1 ELSE faults
  /\ TakeDump(candidate)
  /\ popped' = Tracked(candidate)
  /\ spc' = IF Tracked(candidate) = None THEN "delete" ELSE "push"
  /\ UNCHANGED <<pending, clients, connVars, loops, candidate, busy, over,
                 schedules, done>>

CancelPush ==
  /\ spc = "push"
  /\ Settle(popped, TRUE)
  /\ popped' = None
  /\ spc' = "delete"
  /\ UNCHANGED <<trackVars, connVars, loops, candidate, busy, over, histVars>>

CancelDelete ==
  /\ spc = "delete"
  /\ clients' = clients \ {candidate}
  /\ spc' = "decide"
  /\ UNCHANGED <<pending, dump, cooled, connVars, loops, candidate, busy, over,
                 popped, histVars>>

\* Back in schedule: delete the entry and end, or try again.
Decide ==
  /\ spc = "decide"
  /\ IF over
     THEN pending' = NoPending /\ spc' = "none" /\ loops' = 0
     ELSE /\ loops' = loops - 1
          /\ spc' = IF loops = 1 THEN "sleep" ELSE "pick"
          /\ UNCHANGED pending
  /\ candidate' = None /\ over' = FALSE
  /\ UNCHANGED <<trackVars, connVars, busy, popped, histVars>>

-----------------------------------------------------------------------------
Next ==
  \/ Schedule \/ SetCoolDown \/ StopSchedule
  \/ \E c \in Clients :
       \/ Register(c) \/ Disconnect(c) \/ AckPush(c) \/ DeleteClient(c)
       \/ CoolDownPasses(c)
       \/ \E requeue \in BOOLEAN : AckTake(c, requeue)
  \/ Tick \/ Pick \/ Pop \/ Assign \/ SendDump \/ SendFails
  \/ CancelPush \/ CancelDelete \/ Decide

Spec == Init /\ [][Next]_vars

\* The goroutines run, time passes, clients come, and a client answers the
\* dump it holds.  Nobody has to fail, stop, or change the cool down.
Fairness ==
  /\ WF_vars(Tick) /\ WF_vars(Pick) /\ WF_vars(Pop) /\ WF_vars(Assign)
  /\ WF_vars(SendDump \/ SendFails) /\ WF_vars(CancelPush) /\ WF_vars(CancelDelete)
  /\ WF_vars(Decide)
  /\ \A c \in Clients : /\ WF_vars(Register(c)) /\ WF_vars(AckPush(c))
                        /\ WF_vars(DeleteClient(c)) /\ WF_vars(CoolDownPasses(c))
                        /\ WF_vars(AckTake(c, FALSE))

FairSpec == Spec /\ Fairness

-----------------------------------------------------------------------------
(* Properties.                                                              *)

\* Types, and the offset stays inside the list of dumps: Push may be called
\* by an Ack that began under an earlier schedule.
TypeOK ==
  /\ pending.exists \in BOOLEAN /\ pending.backoff \in BOOLEAN
  /\ pending.coolDown \in BOOLEAN /\ pending.stopping \in BOOLEAN
  /\ pending.dumps \in Seq(Dumps)
  /\ pending.offset \in 0..Len(pending.dumps)
  /\ clients \subseteq Clients
  /\ dump \in [Clients -> Dumps \cup {None}]
  /\ cooled \in [Clients -> BOOLEAN]
  /\ handler \in [Clients -> {"new", "recv", "push", "delete", "done"}]
  /\ returned \in [Clients -> [dump : Dumps \cup {None}, requeue : BOOLEAN,
                               closing : BOOLEAN]]
  /\ inbox \in [Clients -> Dumps \cup {None}]
  /\ spc \in {"none", "sleep", "pick", "pop", "assign", "send", "push", "delete", "decide"}
  /\ loops \in 0..(Cardinality(Clients) + 1)
  /\ candidate \in Clients \cup {None}
  /\ busy \in 0..Cardinality(Clients) /\ over \in BOOLEAN
  /\ popped \in Dumps \cup {None}
  /\ schedules \in 0..MaxSchedules /\ faults \in 0..MaxFaults
  /\ done \subseteq Dumps

\* Where a dump can be, as seen from the server: waiting in the list, in the
\* hands of a goroutine, on the track of a client.
Waiting(d)  == {i \in (pending.offset + 1)..Len(pending.dumps) : pending.dumps[i] = d}
Requeued(d) == {c \in Clients : returned[c].dump = d /\ returned[c].requeue}
Held(d)     == {c \in Clients : dump[c] = d}
Places(d) ==
  Cardinality(Waiting(d)) + Cardinality(Requeued(d)) + Cardinality(Held(d))
    + (IF popped = d THEN 1 ELSE 0)

\* No dump is handed to two clients at a time, waits while a client works on
\* it, or comes back after a successful ack: over all interleavings of the
\* critical sections, failing sends, disconnections, requeues, and the answers
\* that arrive when their schedule has ended and the next one runs.
OnePlace ==
  \A d \in Dumps : Places(d) + (IF d \in done THEN 1 ELSE 0) <= 1

\* What a client works on is what its track says, as long as it is registered;
\* an ack therefore settles the dump the client means.
InboxTracked ==
  \A c \in clients : inbox[c] # None => dump[c] = inbox[c]

\* As long as a schedule runs, each of its dumps waits, is on its way, is on a
\* track (of a client that may have left meanwhile) or was acknowledged: Push
\* puts a requeued dump back without overwriting one that waits.  (For the first
\* schedule: in a later one, the push of a dump of its predecessor can take the
\* place of a dump of its own.)
NothingDropped ==
  pending.exists /\ schedules = 1 => \A i \in 1..NumDumps[1] :
    Places(<<1, i>>) = 1 \/ <<1, i>> \in done

\* When nobody stops schedules, one ends when all its dumps were acknowledged.
AllProcessed ==
  \A n \in 1..schedules :
    \/ MayStop
    \/ n = schedules /\ pending.exists
    \/ \A i \in 1..NumDumps[n] : <<n, i>> \in done

\* A schedule ends, unless its clients have all left and nobody stops it; a
\* stopped one ends whatever waits and whoever is registered.  The cool down,
\* the back off after requeues and the counting of busy clients do not block it.
ScheduleEnds ==
  pending.exists ~> \/ ~pending.exists
                    \/ clients = {} /\ ~pending.stopping

=============================================================================
