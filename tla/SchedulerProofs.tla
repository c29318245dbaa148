--------------------------- MODULE SchedulerProofs ---------------------------
(***************************************************************************)
(* Proofs of the safety properties of the dump scheduler, for any number of *)
(* clients, schedules and dumps, and any number of requeues, disconnections *)
(* and failing sends.                                                       *)
(***************************************************************************)
EXTENDS Scheduler, SequenceProofs, FiniteSetTheorems

-----------------------------------------------------------------------------
(* The inductive invariant.                                                 *)

\* The dumps of the schedules so far: no other is anywhere yet.
Issued == {d \in Dumps : d[1] <= schedules}

PendingType ==
  /\ pending \in [exists : BOOLEAN, dumps : Seq(Issued), offset : Nat, backoff : BOOLEAN,
                  coolDown : BOOLEAN, stopping : BOOLEAN]
  /\ pending.offset <= Len(pending.dumps)
  /\ ~pending.exists => pending.dumps = <<>>
  /\ schedules \in 0..MaxSchedules
  /\ pending.exists /\ schedules = 1 => Len(pending.dumps) = NumDumps[1]

ConnType ==
  /\ clients \in SUBSET Clients
  /\ dump \in [Clients -> Issued \cup {None}]
  /\ cooled \in [Clients -> BOOLEAN]
  /\ handler \in [Clients -> {"new", "recv", "push", "delete", "done"}]
  /\ returned \in [Clients -> [dump : Issued \cup {None}, requeue : BOOLEAN, closing : BOOLEAN]]
  /\ inbox \in [Clients -> Issued \cup {None}]
  /\ faults \in 0..MaxFaults /\ done \in SUBSET Issued

GoType ==
  /\ spc \in {"none", "sleep", "pick", "pop", "assign", "send", "push", "delete", "decide"}
  /\ loops \in 0..(Cardinality(Clients) + 1)
  /\ candidate \in Clients \cup {None}
  /\ busy \in 0..Cardinality(Clients) /\ over \in BOOLEAN
  /\ popped \in Issued \cup {None}

\* The locals of the scheduling goroutine at each of its critical sections.
GoInv ==
  /\ spc = "none" <=> ~pending.exists
  /\ spc \notin {"none", "sleep"} => loops >= 1
  /\ popped # None <=> spc \in {"assign", "push"}
  /\ spc \in {"assign", "send", "push", "delete"} => candidate # None
  /\ spc \in {"pop", "assign"} /\ candidate # None => dump[candidate] = None
  /\ spc \in {"pop", "assign", "send"} /\ candidate # None =>
       inbox[candidate] = None /\ handler[candidate] # "new"

\* The locals of the handlers, and the clients they have registered.
ConnInv ==
  /\ \A c \in Clients : returned[c].dump # None <=> handler[c] = "push"
  /\ \A c \in clients : handler[c] # "new"
  /\ \A c \in Clients : inbox[c] # None => handler[c] # "new"
  /\ InboxTracked

\* The places of a dump, one by one.
InList(d)  == \E i \in (pending.offset + 1)..Len(pending.dumps) : pending.dumps[i] = d
InHand(d)  == \E c \in Clients : returned[c].dump = d /\ returned[c].requeue
OnTrack(d) == \E c \in Clients : dump[c] = d

\* No place is doubled ...
Single ==
  /\ \A i, j \in (pending.offset + 1)..Len(pending.dumps) :
       pending.dumps[i] = pending.dumps[j] => i = j
  /\ \A b, c \in Clients :
       returned[b].dump = returned[c].dump /\ returned[b].dump # None
         /\ returned[b].requeue /\ returned[c].requeue => b = c
  /\ \A b, c \in Clients : dump[b] = dump[c] /\ dump[b] # None => b = c

\* ... no dump is in two of them ...
OnePlaceOf(d) ==
  /\ InList(d) => ~InHand(d) /\ ~OnTrack(d) /\ popped # d /\ d \notin done
  /\ InHand(d) => ~OnTrack(d) /\ popped # d /\ d \notin done
  /\ OnTrack(d) => popped # d /\ d \notin done
  /\ popped = d => d \notin done

Apart == \A d \in Issued : OnePlaceOf(d)

\* ... and as long as the first schedule runs, no dump is in none.
Placed(d) == InList(d) \/ InHand(d) \/ OnTrack(d) \/ popped = d \/ d \in done

Kept == pending.exists /\ schedules = 1 => \A d \in Issued : Placed(d)

IInv == PendingType /\ ConnType /\ GoType /\ GoInv /\ ConnInv /\ Single /\ Apart /\ Kept

-----------------------------------------------------------------------------
(* Dumps and lists of dumps.                                                *)

LEMMA IssuedFacts ==
  /\ Issued \subseteq Dumps /\ None \notin Issued
  /\ UNCHANGED schedules => Issued' = Issued
BY NoneAssumption DEF Issued

\* The list that a schedule starts with.
LEMMA ScheduledList ==
  ASSUME NEW n \in 1..MaxSchedules, NEW q, q = [i \in 1..NumDumps[n] |-> <<n, i>>]
  PROVE  /\ q \in Seq({d \in Dumps : d[1] <= n}) /\ Len(q) = NumDumps[n]
         /\ \A i \in 1..Len(q) : q[i] = <<n, i>>
<1> DEFINE S == {d \in Dumps : d[1] <= n}
<1>1. NumDumps[n] \in Nat /\ n \in Nat /\ n <= n
  BY SchedulerAssumption
<1>2. \A i \in 1..NumDumps[n] : <<n, i>> \in Dumps
  BY DEF Dumps
<1>3. \A i \in 1..NumDumps[n] : q[i] = <<n, i>> /\ q[i] \in S
  BY <1>1, <1>2
<1> DEFINE N == NumDumps[n]
<1>4. q \in [1..N -> S]
  BY <1>3
<1> HIDE DEF S, N
<1>5. N \in Nat
  BY <1>1 DEF N
<1>6. q \in Seq(S) /\ Len(q) = N
  BY ONLY <1>4, <1>5
<1> QED
  BY <1>3, <1>6 DEF S, N

\* The dumps of the first schedule are as many as its list has places, so when
\* they wait in all of them each of them waits.
LEMMA FullList ==
  ASSUME PendingType, pending.exists, schedules = 1, pending.offset = 0,
         \A i, j \in 1..Len(pending.dumps) : pending.dumps[i] = pending.dumps[j] => i = j
  PROVE  \A d \in Issued : InList(d)
<1> DEFINE q == pending.dumps
           N == NumDumps[1]
           D == 1..N
<1>1. q \in Seq(Issued) /\ Len(q) = N /\ N \in Nat /\ 1 \in 1..MaxSchedules
  BY SchedulerAssumption DEF PendingType
<1>2. \A d \in Issued : d[1] = 1 /\ d[2] \in D /\ d = <<1, d[2]>>
  BY <1>1 DEF Issued, Dumps
<1>3. \A i \in D : q[i] \in Issued
  BY <1>1, SeqFacts
<1> DEFINE f == [i \in D |-> q[i][2]]
<1>4. f \in [D -> D]
  BY <1>2, <1>3
<1>5. \A i, j \in D : f[i] = f[j] => i = j
  <2>1. \A i \in D : q[i] = <<1, f[i]>>
    BY <1>2, <1>3
  <2>2. \A i, j \in D : q[i] = q[j] => i = j
    BY <1>1
  <2> HIDE DEF f, q, D
  <2> QED
    BY ONLY <2>1, <2>2
<1>6. f \in Injection(D, D)
  BY <1>4, <1>5 DEF Injection, IsInjective
<1>7. IsFiniteSet(D)
  BY <1>1, FS_Interval
<1> HIDE DEF f, D
<1>8. f \in Surjection(D, D)
  BY <1>6, <1>7, FS_Injection
<1>9. \A k \in D : \E i \in D : f[i] = k
  BY <1>8 DEF Surjection
<1>10. ASSUME NEW d \in Issued
       PROVE  InList(d)
  <2>1. PICK i \in D : f[i] = d[2]
    BY <1>2, <1>9
  <2>2. q[i] = d
    BY <1>2, <1>3, <2>1 DEF f
  <2> QED
    BY <1>1, <2>2 DEF InList, D
<1> QED
  BY <1>10

\* What the second section of an Ack does to the list: a dump that is requeued
\* takes the place of one that was popped, and while the first schedule runs
\* there is one.
LEMMA SettleFacts ==
  ASSUME PendingType, Single, NEW d \in Issued, NEW requeue \in BOOLEAN, Settle(d, requeue),
         requeue => ~InList(d), UNCHANGED schedules
  PROVE  /\ PendingType' /\ pending'.exists = pending.exists
         /\ \A i, j \in (pending'.offset + 1)..Len(pending'.dumps) :
              pending'.dumps[i] = pending'.dumps[j] => i = j
         /\ \A x : InList(x) => InList(x)'
         /\ \A x : InList(x)' => InList(x) \/ (requeue /\ x = d)
         /\ pending.exists /\ schedules = 1 /\ requeue => InList(d)'
<1>1. /\ pending.dumps \in Seq(Issued) /\ pending.offset \in Nat
      /\ Len(pending.dumps) \in Nat /\ pending.offset <= Len(pending.dumps) /\ Issued' = Issued
  BY IssuedFacts, SeqFacts DEF PendingType
<1>2. CASE pending.exists /\ requeue /\ pending.offset # 0
  <2> DEFINE k == pending.offset
             q == pending.dumps
             r == [q EXCEPT ![k] = d]
  <2>1. pending' = [pending EXCEPT !.offset = k - 1, !.dumps = r, !.backoff = TRUE]
    BY <1>2 DEF Settle, Push, PendingType
  <2>2. k \in 1..Len(q) /\ k - 1 \in Nat /\ k - 1 <= Len(q)
    BY <1>1, <1>2
  <2>3. /\ r \in Seq(Issued) /\ Len(r) = Len(q)
        /\ \A j \in 1..Len(q) : r[j] = IF j = k THEN d ELSE q[j]
    BY <1>1, <2>2, ExceptSeq
  <2> HIDE DEF r
  <2>4. /\ pending'.exists = pending.exists /\ pending'.offset = k - 1 /\ pending'.dumps = r
        /\ pending'.backoff = TRUE /\ pending'.coolDown = pending.coolDown
        /\ pending'.stopping = pending.stopping
    BY <2>1 DEF PendingType
  <2>5. PendingType'
    <3>1. pending' \in [exists : BOOLEAN, dumps : Seq(Issued), offset : Nat, backoff : BOOLEAN,
                        coolDown : BOOLEAN, stopping : BOOLEAN]
      BY <2>1, <2>2, <2>3 DEF PendingType
    <3> QED
      BY <1>1, <1>2, <2>2, <2>3, <2>4, <3>1 DEF PendingType
  <2>6. (pending'.offset + 1)..Len(pending'.dumps) = {k} \cup (k + 1)..Len(q)
    BY <1>1, <2>2, <2>3, <2>4
  <2>7. \A i \in (k + 1)..Len(q) : i # k /\ i \in 1..Len(q) /\ r[i] = q[i] /\ q[i] # d
    BY <1>1, <1>2, <2>2, <2>3 DEF InList
  <2>8. r[k] = d
    BY <2>2, <2>3
  <2> DEFINE W == (k + 1)..Len(q)
  <2>9. \A x : InList(x)' <=> x = d \/ \E i \in W : q[i] = x
    BY <2>4, <2>6, <2>7, <2>8 DEF InList
  <2>10. \A x : InList(x) <=> \E i \in W : q[i] = x
    BY DEF InList
  <2>11. \A i, j \in {k} \cup W : r[i] = r[j] => i = j
    <3>1. \A i, j \in W : q[i] = q[j] => i = j
      BY DEF Single
    <3> HIDE DEF W, q
    <3> QED
      BY <2>7, <2>8, <3>1 DEF W, q
  <2> HIDE DEF W
  <2> QED
    BY <1>2, <2>4, <2>5, <2>6, <2>9, <2>10, <2>11 DEF W
<1>3. CASE ~(pending.exists /\ requeue /\ pending.offset # 0)
  <2>1. /\ pending'.exists = pending.exists /\ pending'.offset = pending.offset
        /\ pending'.dumps = pending.dumps
    BY <1>3 DEF Settle, Push, PendingType
  <2>2. PendingType'
    <3>1. pending' \in [exists : BOOLEAN, dumps : Seq(Issued), offset : Nat, backoff : BOOLEAN,
                        coolDown : BOOLEAN, stopping : BOOLEAN]
      BY <1>3 DEF Settle, Push, PendingType
    <3> QED
      BY <1>1, <2>1, <3>1 DEF PendingType
  <2>3. \A x : InList(x)' <=> InList(x)
    BY <2>1 DEF InList
  <2>4. ASSUME pending.exists, schedules = 1, requeue
        PROVE  InList(d)
    <3>1. pending.offset = 0
      BY <1>3, <2>4
    <3>2. \A i, j \in 1..Len(pending.dumps) : pending.dumps[i] = pending.dumps[j] => i = j
      BY <3>1 DEF Single
    <3> QED
      BY <2>4, <3>1, <3>2, FullList
  <2> QED
    BY <2>1, <2>2, <2>3, <2>4 DEF Single
<1> QED
  BY <1>2, <1>3

-----------------------------------------------------------------------------
(* The list and its entry.                                                  *)

\* The dump that scheduleOne pops: the first that waits.
LEMMA PopFacts ==
  ASSUME PendingType, Pop, MayPop
  PROVE  /\ pending.offset + 1 \in 1..Len(pending.dumps) /\ pending.offset \in Nat
         /\ pending.dumps[pending.offset + 1] \in Issued
         /\ PendingType' /\ pending'.offset = pending.offset + 1
         /\ pending'.dumps = pending.dumps /\ pending'.exists = pending.exists
<1>1. /\ pending.dumps \in Seq(Issued) /\ pending.offset \in Nat /\ Len(pending.dumps) \in Nat
      /\ UNCHANGED schedules /\ Issued' = Issued
  BY IssuedFacts, SeqFacts DEF PendingType, Pop, histVars
<1>2. Len(pending.dumps) - pending.offset > 0
  BY DEF MayPop, Remaining
<1>3. pending.offset + 1 \in 1..Len(pending.dumps)
  BY <1>1, <1>2
<1>4. pending.dumps[pending.offset + 1] \in Issued
  BY <1>1, <1>3, ElementOfSeq
<1>5. pending' = [pending EXCEPT !.offset = pending.offset + 1]
  BY DEF Pop, PendingType
<1>6. /\ pending'.offset = pending.offset + 1
      /\ pending'.dumps = pending.dumps /\ pending'.exists = pending.exists
  BY <1>5 DEF PendingType
<1>7. pending.offset + 1 \in Nat /\ pending.offset + 1 <= Len(pending.dumps)
  BY <1>1, <1>3
<1>8. pending' \in [exists : BOOLEAN, dumps : Seq(Issued), offset : Nat, backoff : BOOLEAN,
                    coolDown : BOOLEAN, stopping : BOOLEAN]
  BY <1>5, <1>7 DEF PendingType
<1>9. PendingType'
  BY <1>1, <1>6, <1>7, <1>8 DEF PendingType
<1> QED
  BY <1>1, <1>3, <1>4, <1>6, <1>9

\* The entry that Schedule makes.
LEMMA ScheduleFacts ==
  ASSUME PendingType, Schedule
  PROVE  /\ ~pending.exists /\ pending'.exists /\ pending'.offset = 0 /\ PendingType'
         /\ schedules' = schedules + 1 /\ schedules' \in 1..MaxSchedules
         /\ Len(pending'.dumps) = NumDumps[schedules']
         /\ \A i \in 1..Len(pending'.dumps) : pending'.dumps[i] = <<schedules', i>>
         /\ Issued \subseteq Issued'
         /\ \A i \in 1..Len(pending'.dumps) : pending'.dumps[i] \notin Issued
<1> DEFINE n == schedules + 1
           q == [i \in 1..NumDumps[n] |-> <<n, i>>]
<1>1. /\ n \in 1..MaxSchedules /\ schedules \in Nat /\ schedules' = n /\ ~pending.exists
      /\ n \in Nat /\ ~(n <= schedules)
  BY SchedulerAssumption DEF PendingType, Schedule
<1>2. /\ q \in Seq({d \in Dumps : d[1] <= n}) /\ Len(q) = NumDumps[n]
      /\ \A i \in 1..Len(q) : q[i] = <<n, i>>
  BY <1>1, ScheduledList
<1>3. pending' = [exists |-> TRUE, dumps |-> q, offset |-> 0, backoff |-> FALSE,
                  coolDown |-> FALSE, stopping |-> FALSE]
  BY DEF Schedule, NoPending
<1> HIDE DEF q
<1>4. Issued' = {d \in Dumps : d[1] <= n}
  BY <1>1 DEF Issued
<1>5. \A d \in Dumps : d[1] \in Nat
  BY SchedulerAssumption DEF Dumps
<1>6. Issued \subseteq Issued'
  BY <1>1, <1>4, <1>5 DEF Issued
<1>7. \A i \in 1..Len(q) : q[i] \notin Issued
  BY <1>1, <1>2 DEF Issued
<1>8. /\ pending'.exists = TRUE /\ pending'.dumps = q /\ pending'.offset = 0
      /\ pending'.backoff = FALSE /\ pending'.coolDown = FALSE /\ pending'.stopping = FALSE
  BY <1>3
<1>9. Len(q) \in Nat /\ 0 <= Len(q)
  BY <1>1, <1>2, SchedulerAssumption
<1> DEFINE Q == Seq(Issued')
<1>10. q \in Q
  BY <1>2, <1>4
<1> HIDE DEF n, Q
<1>11. pending' \in [exists : BOOLEAN, dumps : Q, offset : Nat, backoff : BOOLEAN,
                     coolDown : BOOLEAN, stopping : BOOLEAN]
  BY <1>3, <1>10
<1>12. PendingType'
  BY <1>1, <1>2, <1>8, <1>9, <1>11 DEF PendingType, Q, n
<1> QED
  BY <1>1, <1>2, <1>6, <1>7, <1>8, <1>12 DEF n

\* The last step of schedule deletes the entry when all is done.
LEMMA DecideFacts ==
  ASSUME PendingType, Decide
  PROVE  /\ PendingType' /\ UNCHANGED schedules
         /\ IF over THEN ~pending'.exists /\ pending'.dumps = <<>> /\ pending'.offset = 0
                    ELSE UNCHANGED pending
<1>1. UNCHANGED schedules /\ Issued' = Issued
  BY IssuedFacts DEF Decide, histVars
<1>2. CASE over
  <2>1. pending' = NoPending
    BY <1>2 DEF Decide
  <2>2. <<>> \in Seq(Issued) /\ Len(<<>>) = 0
    BY EmptySeq
  <2>3. ~pending'.exists /\ pending'.dumps = <<>> /\ pending'.offset = 0
    BY <2>1 DEF NoPending
  <2> DEFINE Q == Seq(Issued)
             e == <<>>
  <2>4. pending' = [exists |-> FALSE, dumps |-> e, offset |-> 0, backoff |-> FALSE,
                    coolDown |-> FALSE, stopping |-> FALSE] /\ e \in Q
    BY <2>1, <2>2 DEF NoPending
  <2> HIDE DEF Q, e
  <2>5. pending' \in [exists : BOOLEAN, dumps : Q, offset : Nat, backoff : BOOLEAN,
                      coolDown : BOOLEAN, stopping : BOOLEAN]
    BY <2>4
  <2>6. PendingType'
    BY <1>1, <2>2, <2>3, <2>5 DEF PendingType, Q
  <2> QED
    BY <1>1, <1>2, <2>3, <2>6
<1>3. CASE ~over
  <2>1. UNCHANGED pending
    BY <1>3 DEF Decide
  <2> QED
    BY <1>1, <1>3, <2>1 DEF PendingType
<1> QED
  BY <1>2, <1>3

-----------------------------------------------------------------------------
(* The handlers and the clients.                                            *)

\* Taking the dump of a track.
LEMMA TakeFacts ==
  ASSUME ConnType, NEW c \in Clients, TakeDump(c)
  PROVE  /\ dump' \in [Clients -> Issued \cup {None}] /\ cooled' \in [Clients -> BOOLEAN]
         /\ Tracked(c) \in Issued \cup {None}
         /\ \A e \in Clients : dump'[e] = IF e = c /\ c \in clients THEN None ELSE dump[e]
BY DEF ConnType, TakeDump, Tracked

\* The first section of an Ack, from a client's answer or from its leaving: the
\* handler gets what the track of the client had.
TakeStep(c, requeue, closing, h) ==
  /\ handler[c] = "recv" /\ TakeDump(c)
  /\ inbox' = [inbox EXCEPT ![c] = None]
  /\ returned' = [returned EXCEPT ![c] = [dump |-> Tracked(c), requeue |-> requeue,
                                          closing |-> closing]]
  /\ handler' = [handler EXCEPT ![c] = h]
  /\ Tracked(c) # None <=> h = "push"
  /\ done' = IF requeue THEN done ELSE done \cup ({Tracked(c)} \ {None})
  /\ faults' \in 0..MaxFaults
  /\ UNCHANGED <<pending, clients, goVars, schedules>>

LEMMA AckFacts ==
  ASSUME ConnType, NEW c \in Clients, Disconnect(c) \/ \E requeue \in BOOLEAN : AckTake(c, requeue)
  PROVE  \E requeue, closing \in BOOLEAN, h \in {"recv", "push", "delete"} :
           TakeStep(c, requeue, closing, h)
<1>1. MaxFaults \in Nat /\ faults \in 0..MaxFaults /\ (faults < MaxFaults => faults + 1 \in 0..MaxFaults)
  BY SchedulerAssumption DEF ConnType
<1>2. CASE Disconnect(c)
  <2> DEFINE h == IF Tracked(c) = None THEN "delete" ELSE "push"
  <2>1. h \in {"recv", "push", "delete"} /\ (Tracked(c) # None <=> h = "push")
    OBVIOUS
  <2>2. /\ handler[c] = "recv" /\ TakeDump(c)
        /\ inbox' = [inbox EXCEPT ![c] = None]
        /\ returned' = [returned EXCEPT ![c] = [dump |-> Tracked(c), requeue |-> TRUE,
                                                closing |-> TRUE]]
        /\ handler' = [handler EXCEPT ![c] = h] /\ done' = done
        /\ faults' \in 0..MaxFaults
        /\ UNCHANGED <<pending, clients, goVars, schedules>>
    BY <1>1, <1>2 DEF Disconnect
  <2> HIDE DEF h
  <2> QED
    BY <2>1, <2>2 DEF TakeStep
<1>3. ASSUME NEW requeue \in BOOLEAN, AckTake(c, requeue)
      PROVE  \E closing \in BOOLEAN, h \in {"recv", "push", "delete"} :
               TakeStep(c, requeue, closing, h)
  <2> DEFINE h == IF Tracked(c) = None THEN "recv" ELSE "push"
  <2>1. h \in {"recv", "push", "delete"} /\ (Tracked(c) # None <=> h = "push")
    OBVIOUS
  <2>2. /\ handler[c] = "recv" /\ TakeDump(c)
        /\ inbox' = [inbox EXCEPT ![c] = None]
        /\ returned' = [returned EXCEPT ![c] = [dump |-> Tracked(c), requeue |-> requeue,
                                                closing |-> FALSE]]
        /\ handler' = [handler EXCEPT ![c] = h]
        /\ done' = IF requeue THEN done ELSE done \cup ({Tracked(c)} \ {None})
        /\ UNCHANGED <<pending, clients, goVars, schedules>>
    BY <1>3 DEF AckTake
  <2>3. faults' \in 0..MaxFaults
    BY <1>1, <1>3 DEF AckTake
  <2> HIDE DEF h
  <2> QED
    BY <2>1, <2>2, <2>3 DEF TakeStep
<1> QED
  BY <1>2, <1>3

LEMMA AckConn ==
  ASSUME IInv, NEW c \in Clients, Disconnect(c) \/ \E requeue \in BOOLEAN : AckTake(c, requeue)
  PROVE  ConnType' /\ ConnInv'
<1>1. PICK requeue, closing \in BOOLEAN, h \in {"recv", "push", "delete"} :
                 TakeStep(c, requeue, closing, h)
  BY AckFacts DEF IInv
<1> USE DEF TakeStep
<1>2. Issued' = Issued
  BY <1>1, IssuedFacts
<1>3. /\ dump' \in [Clients -> Issued \cup {None}] /\ cooled' \in [Clients -> BOOLEAN]
      /\ Tracked(c) \in Issued \cup {None}
      /\ \A e \in Clients : dump'[e] = IF e = c /\ c \in clients THEN None ELSE dump[e]
  BY <1>1, TakeFacts DEF IInv
<1> DEFINE r == [dump |-> Tracked(c), requeue |-> requeue, closing |-> closing]
           R == [dump : Issued \cup {None}, requeue : BOOLEAN, closing : BOOLEAN]
<1>4. r \in R /\ r.dump = Tracked(c)
  BY <1>3
<1>5. returned' \in [Clients -> R]
  <2>1. returned \in [Clients -> R] /\ returned' = [returned EXCEPT ![c] = r]
    BY <1>1 DEF IInv, ConnType
  <2> HIDE DEF r, R
  <2> QED
    BY <1>4, <2>1, ExceptType
<1>6. done' \in SUBSET Issued
  BY <1>1, <1>3 DEF IInv, ConnType
<1>7. ConnType'
  BY <1>1, <1>2, <1>3, <1>5, <1>6 DEF IInv, ConnType
<1>8. \A e \in Clients : returned'[e].dump # None <=> handler'[e] = "push"
  <2>1. returned'[c].dump # None <=> handler'[c] = "push"
    BY <1>1, <1>4 DEF IInv, ConnType
  <2>2. \A e \in Clients : e # c => returned'[e] = returned[e] /\ handler'[e] = handler[e]
    BY <1>1 DEF IInv, ConnType
  <2> QED
    BY <2>1, <2>2 DEF IInv, ConnInv
<1>9. /\ \A e \in clients' : handler'[e] # "new"
      /\ \A e \in Clients : inbox'[e] # None => handler'[e] # "new"
  BY <1>1 DEF IInv, ConnInv, ConnType
<1>10. InboxTracked'
  <2>1. \A e \in clients : e # c => inbox'[e] = inbox[e] /\ dump'[e] = dump[e]
    BY <1>1, <1>3 DEF IInv, ConnType
  <2>2. inbox'[c] = None
    BY <1>1 DEF IInv, ConnType
  <2> QED
    BY <1>1, <2>1, <2>2 DEF IInv, ConnInv, InboxTracked
<1> QED
  BY <1>7, <1>8, <1>9, <1>10 DEF ConnInv

LEMMA ConnStep ==
  ASSUME IInv, [Next]_vars
  PROVE  ConnType' /\ ConnInv'
<1>1. CASE \/ UNCHANGED vars \/ SetCoolDown \/ StopSchedule \/ Tick \/ Pick \/ Pop \/ CancelPush
           \/ Decide
  <2>1. UNCHANGED <<trackVars, connVars, histVars>>
    BY <1>1 DEF vars, histVars, SetCoolDown, StopSchedule, Tick, Pick, Pop, CancelPush, Decide
  <2>2. Issued' = Issued
    BY <2>1, IssuedFacts DEF histVars
  <2> QED
    BY <2>1, <2>2 DEF trackVars, connVars, histVars, IInv, ConnType, ConnInv, InboxTracked
<1>2. CASE Schedule
  <2>1. UNCHANGED <<trackVars, connVars, faults, done>>
    BY <1>2 DEF Schedule
  <2>2. Issued \subseteq Issued'
    BY <1>2, ScheduleFacts DEF IInv
  <2> DEFINE S == Issued \cup {None}
             T == Issued' \cup {None}
             R == [dump : S, requeue : BOOLEAN, closing : BOOLEAN]
             U == [dump : T, requeue : BOOLEAN, closing : BOOLEAN]
  <2>3. S \subseteq T /\ R \subseteq U
    BY <2>2
  <2>4. /\ dump \in [Clients -> S] /\ inbox \in [Clients -> S] /\ returned \in [Clients -> R]
    BY DEF IInv, ConnType
  <2>5. /\ dump' \in [Clients -> T] /\ inbox' \in [Clients -> T] /\ returned' \in [Clients -> U]
    <3> HIDE DEF S, T, R, U
    <3> QED
      BY <2>1, <2>3, <2>4 DEF trackVars, connVars
  <2>6. ConnType'
    BY <2>1, <2>2, <2>5 DEF trackVars, connVars, IInv, ConnType
  <2>7. ConnInv'
    BY <2>1 DEF trackVars, connVars, IInv, ConnInv, InboxTracked
  <2> QED
    BY <2>6, <2>7
<1>3. ASSUME NEW c \in Clients, Register(c)
      PROVE  ConnType' /\ ConnInv'
  <2>1. /\ handler[c] = "new" /\ handler' = [handler EXCEPT ![c] = "recv"]
        /\ clients' = clients \cup {c}
        /\ UNCHANGED <<dump, cooled, returned, inbox, histVars>>
    BY <1>3 DEF Register
  <2>2. Issued' = Issued
    BY <2>1, IssuedFacts DEF histVars
  <2>3. ConnType'
    BY <2>1, <2>2 DEF histVars, IInv, ConnType
  <2>4. inbox[c] = None
    BY <2>1 DEF IInv, ConnInv
  <2>5. InboxTracked'
    BY <2>1, <2>4 DEF IInv, ConnInv, InboxTracked
  <2> QED
    BY <2>1, <2>3, <2>5 DEF IInv, ConnInv, ConnType
<1>4. ASSUME NEW c \in Clients, AckPush(c)
      PROVE  ConnType' /\ ConnInv'
  <2> DEFINE h == IF returned[c].closing THEN "delete" ELSE "recv"
             R == [dump : Issued \cup {None}, requeue : BOOLEAN, closing : BOOLEAN]
  <2>1. /\ handler[c] = "push" /\ handler' = [handler EXCEPT ![c] = h]
        /\ returned' = [returned EXCEPT ![c] = NoAck]
        /\ UNCHANGED <<trackVars, inbox, histVars>>
    BY <1>4 DEF AckPush
  <2>2. Issued' = Issued
    BY <2>1, IssuedFacts DEF histVars
  <2>3. h \in {"recv", "delete"}
    OBVIOUS
  <2>4. NoAck \in R /\ NoAck.dump = None
    BY DEF NoAck
  <2>5. returned \in [Clients -> R]
    BY DEF IInv, ConnType
  <2> HIDE DEF h, R
  <2>6. returned' \in [Clients -> R]
    BY <2>1, <2>4, <2>5, ExceptType
  <2>7. ConnType'
    BY <2>1, <2>2, <2>3, <2>6 DEF R, trackVars, histVars, IInv, ConnType
  <2>8. \A e \in Clients : returned'[e].dump # None <=> handler'[e] = "push"
    <3>1. returned'[c] = NoAck /\ handler'[c] \in {"recv", "delete"}
      BY <2>1, <2>3 DEF IInv, ConnType
    <3>2. \A e \in Clients : e # c => returned'[e] = returned[e] /\ handler'[e] = handler[e]
      BY <2>1 DEF IInv, ConnType
    <3> QED
      BY <2>4, <3>1, <3>2 DEF IInv, ConnInv
  <2>9. \A e \in Clients : handler'[e] = "new" => handler[e] = "new"
    BY <2>1, <2>3 DEF IInv, ConnType
  <2>10. InboxTracked'
    BY <2>1 DEF trackVars, IInv, ConnInv, InboxTracked
  <2>11. clients' \subseteq Clients
    BY <2>1 DEF trackVars, IInv, ConnType
  <2> QED
    BY <2>1, <2>7, <2>8, <2>9, <2>10, <2>11 DEF trackVars, IInv, ConnInv
<1>5. ASSUME NEW c \in Clients, DeleteClient(c)
      PROVE  ConnType' /\ ConnInv'
  <2>1. /\ handler[c] = "delete" /\ handler' = [handler EXCEPT ![c] = "done"]
        /\ clients' = clients \ {c}
        /\ UNCHANGED <<dump, cooled, returned, inbox, histVars>>
    BY <1>5 DEF DeleteClient
  <2>2. Issued' = Issued
    BY <2>1, IssuedFacts DEF histVars
  <2>3. ConnType'
    BY <2>1, <2>2 DEF histVars, IInv, ConnType
  <2>4. InboxTracked'
    BY <2>1 DEF IInv, ConnInv, InboxTracked
  <2> QED
    BY <2>1, <2>3, <2>4 DEF IInv, ConnInv, ConnType
<1>6. ASSUME NEW c \in Clients, CoolDownPasses(c)
      PROVE  ConnType' /\ ConnInv'
  <2>1. /\ cooled' = [cooled EXCEPT ![c] = TRUE]
        /\ UNCHANGED <<clients, dump, connVars, histVars>>
    BY <1>6 DEF CoolDownPasses
  <2>2. Issued' = Issued
    BY <2>1, IssuedFacts DEF histVars
  <2>3. ConnType'
    BY <2>1, <2>2 DEF connVars, histVars, IInv, ConnType
  <2> QED
    BY <2>1, <2>3 DEF connVars, IInv, ConnInv, InboxTracked
<1>7. CASE Assign
  <2>1. /\ spc = "assign" /\ dump' = [dump EXCEPT ![candidate] = popped]
        /\ UNCHANGED <<clients, cooled, connVars, histVars>>
    BY <1>7 DEF Assign
  <2>2. Issued' = Issued
    BY <2>1, IssuedFacts DEF histVars
  <2>3. candidate \in Clients /\ inbox[candidate] = None /\ popped \in Issued \cup {None}
    BY <2>1 DEF IInv, GoType, GoInv
  <2>4. ConnType'
    BY <2>1, <2>2, <2>3 DEF connVars, histVars, IInv, ConnType
  <2>5. InboxTracked'
    BY <2>1, <2>3 DEF connVars, IInv, ConnInv, ConnType, InboxTracked
  <2> QED
    BY <2>1, <2>4, <2>5 DEF connVars, IInv, ConnInv
<1>8. CASE SendDump
  <2>1. /\ spc = "send" /\ inbox' = [inbox EXCEPT ![candidate] = dump[candidate]]
        /\ handler[candidate] \in {"recv", "push"}
        /\ UNCHANGED <<trackVars, handler, returned, histVars>>
    BY <1>8 DEF SendDump
  <2>2. Issued' = Issued
    BY <2>1, IssuedFacts DEF histVars
  <2>3. candidate \in Clients /\ dump[candidate] \in Issued \cup {None}
    BY <2>1 DEF IInv, GoType, GoInv, ConnType
  <2>4. ConnType'
    BY <2>1, <2>2, <2>3 DEF trackVars, histVars, IInv, ConnType
  <2>5. InboxTracked'
    BY <2>1, <2>3 DEF trackVars, IInv, ConnInv, ConnType, InboxTracked
  <2> QED
    BY <2>1, <2>3, <2>4, <2>5 DEF trackVars, IInv, ConnInv, ConnType
<1>9. CASE SendFails
  <2>1. /\ spc = "send" /\ TakeDump(candidate)
        /\ faults' = IF faults < MaxFaults THEN faults + 1 ELSE faults
        /\ UNCHANGED <<clients, connVars, schedules, done>>
    BY <1>9 DEF SendFails
  <2>2. Issued' = Issued
    BY <2>1, IssuedFacts
  <2>3. candidate \in Clients /\ inbox[candidate] = None
    BY <2>1 DEF IInv, GoType, GoInv
  <2>4. /\ dump' \in [Clients -> Issued \cup {None}] /\ cooled' \in [Clients -> BOOLEAN]
        /\ \A e \in Clients : dump'[e] = dump[e] \/ e = candidate
    BY <2>1, <2>3, TakeFacts DEF IInv
  <2>5. faults' \in 0..MaxFaults
    BY <2>1, SchedulerAssumption DEF IInv, ConnType
  <2>6. ConnType'
    BY <2>1, <2>2, <2>4, <2>5 DEF connVars, IInv, ConnType
  <2>7. InboxTracked'
    BY <2>1, <2>3, <2>4 DEF connVars, IInv, ConnInv, ConnType, InboxTracked
  <2> QED
    BY <2>1, <2>6, <2>7 DEF connVars, IInv, ConnInv
<1>10. CASE CancelDelete
  <2>1. /\ clients' = clients \ {candidate}
        /\ UNCHANGED <<dump, cooled, connVars, histVars>>
    BY <1>10 DEF CancelDelete
  <2>2. Issued' = Issued
    BY <2>1, IssuedFacts DEF histVars
  <2>3. ConnType'
    BY <2>1, <2>2 DEF connVars, histVars, IInv, ConnType
  <2> QED
    BY <2>1, <2>3 DEF connVars, IInv, ConnInv, InboxTracked
<1> QED
  BY <1>1, <1>2, <1>3, <1>4, <1>5, <1>6, <1>7, <1>8, <1>9, <1>10, AckConn DEF Next

-----------------------------------------------------------------------------
(* The scheduling goroutine.                                                *)

\* A step that is not its own leaves its locals, gives its candidate no dump and
\* no message, and unregisters nobody by making it new.
LEMMA GoFrame ==
  ASSUME IInv, UNCHANGED <<goVars, schedules>>, pending'.exists = pending.exists,
         \A c \in Clients : dump[c] = None => dump'[c] = None,
         \A c \in Clients : inbox[c] = None => inbox'[c] = None,
         \A c \in Clients : handler'[c] = "new" => handler[c] = "new"
  PROVE  GoType' /\ GoInv'
<1>1. Issued' = Issued
  BY IssuedFacts
<1>2. GoType'
  BY <1>1 DEF goVars, IInv, GoType
<1>3. candidate \in Clients \cup {None}
  BY DEF IInv, GoType
<1> QED
  BY <1>2, <1>3 DEF goVars, IInv, GoInv

LEMMA ClientCount ==
  ASSUME NEW S \in SUBSET Clients
  PROVE  /\ Cardinality(S) \in 0..Cardinality(Clients) /\ Cardinality(Clients) \in Nat
         /\ Cardinality(S) + 1 \in 1..(Cardinality(Clients) + 1)
<1>1. IsFiniteSet(Clients)
  BY SchedulerAssumption
<1>2. IsFiniteSet(S) /\ Cardinality(S) <= Cardinality(Clients)
  BY <1>1, FS_Subset
<1>3. Cardinality(S) \in Nat /\ Cardinality(Clients) \in Nat
  BY <1>1, <1>2, FS_CardinalityType
<1> QED
  BY <1>2, <1>3

LEMMA GoStep ==
  ASSUME IInv, [Next]_vars
  PROVE  GoType' /\ GoInv'
<1>1. CASE UNCHANGED vars \/ SetCoolDown \/ StopSchedule
  <2>1. UNCHANGED <<trackVars, connVars, goVars, schedules>> /\ pending'.exists = pending.exists
    BY <1>1 DEF vars, histVars, SetCoolDown, StopSchedule, IInv, PendingType
  <2> QED
    BY <2>1, GoFrame DEF trackVars, connVars
<1>2. CASE Schedule
  <2>1. /\ spc' = "sleep" /\ ~pending.exists /\ pending'.exists
        /\ Issued \subseteq Issued'
        /\ UNCHANGED <<trackVars, connVars, loops, candidate, busy, over, popped>>
    BY <1>2, ScheduleFacts DEF Schedule, IInv
  <2>2. GoType'
    BY <2>1 DEF IInv, GoType
  <2>3. GoInv'
    BY <2>1 DEF IInv, GoInv
  <2> QED
    BY <2>2, <2>3
<1>3. ASSUME NEW c \in Clients, Register(c) \/ DeleteClient(c) \/ CoolDownPasses(c)
      PROVE  GoType' /\ GoInv'
  <2>1. /\ UNCHANGED <<pending, dump, inbox, goVars, histVars>>
        /\ \/ UNCHANGED handler
           \/ handler' = [handler EXCEPT ![c] = "recv"]
           \/ handler' = [handler EXCEPT ![c] = "done"]
    BY <1>3 DEF Register, DeleteClient, CoolDownPasses, connVars
  <2>2. \A e \in Clients : handler'[e] = "new" => handler[e] = "new"
    BY <2>1 DEF IInv, ConnType
  <2> QED
    BY <2>1, <2>2, GoFrame DEF histVars
<1>4. ASSUME NEW c \in Clients, AckPush(c)
      PROVE  GoType' /\ GoInv'
  <2> DEFINE h == IF returned[c].closing THEN "delete" ELSE "recv"
  <2>1. /\ handler' = [handler EXCEPT ![c] = h] /\ h # "new"
        /\ UNCHANGED <<trackVars, inbox, goVars, histVars>>
        /\ pending'.exists = pending.exists
    BY <1>4 DEF AckPush, Settle, Push, IInv, PendingType
  <2> HIDE DEF h
  <2>2. \A e \in Clients : handler'[e] = "new" => handler[e] = "new"
    BY <2>1 DEF IInv, ConnType
  <2> QED
    BY <2>1, <2>2, GoFrame DEF trackVars, histVars
<1>5. ASSUME NEW c \in Clients, Disconnect(c) \/ \E requeue \in BOOLEAN : AckTake(c, requeue)
      PROVE  GoType' /\ GoInv'
  <2>1. PICK requeue, closing \in BOOLEAN, h \in {"recv", "push", "delete"} :
                 TakeStep(c, requeue, closing, h)
    BY <1>5, AckFacts DEF IInv
  <2> USE DEF TakeStep
  <2>2. \A e \in Clients : dump[e] = None => dump'[e] = None
    BY <2>1, TakeFacts DEF IInv
  <2>3. \A e \in Clients : inbox[e] = None => inbox'[e] = None
    BY <2>1 DEF IInv, ConnType
  <2>4. \A e \in Clients : handler'[e] = "new" => handler[e] = "new"
    BY <2>1 DEF IInv, ConnType
  <2> QED
    BY <2>1, <2>2, <2>3, <2>4, GoFrame
<1>6. CASE Tick
  <2>1. /\ spc = "sleep" /\ spc' = "pick" /\ loops' = Cardinality(clients) + 1
        /\ UNCHANGED <<pending, candidate, busy, over, popped, schedules>> /\ Issued' = Issued
    BY <1>6, IssuedFacts DEF Tick, histVars
  <2>2. clients \in SUBSET Clients
    BY DEF IInv, ConnType
  <2>3. loops' \in 0..(Cardinality(Clients) + 1) /\ loops' >= 1
    BY <2>1, <2>2, ClientCount
  <2>4. GoType'
    BY <2>1, <2>3 DEF IInv, GoType
  <2>5. GoInv'
    BY <2>1, <2>3 DEF IInv, GoInv
  <2> QED
    BY <2>4, <2>5
<1>7. CASE Pick
  <2>1. /\ spc = "pick" /\ spc' = "pop"
        /\ candidate' = None \/ candidate' \in Idle
        /\ busy' = Cardinality(clients \ Idle)
        /\ UNCHANGED <<pending, trackVars, connVars, loops, over, popped, schedules>>
        /\ Issued' = Issued
    BY <1>7, IssuedFacts DEF Pick, histVars
  <2>2. clients \in SUBSET Clients /\ clients \ Idle \in SUBSET Clients
    BY DEF IInv, ConnType
  <2>3. busy' \in 0..Cardinality(Clients)
    BY <2>1, <2>2, ClientCount
  <2>4. candidate' # None => /\ candidate' \in Clients /\ dump[candidate'] = None
                             /\ inbox[candidate'] = None /\ handler[candidate'] # "new"
    BY <2>1, <2>2 DEF Idle, IInv, ConnInv, InboxTracked
  <2>5. GoType'
    BY <2>1, <2>3, <2>4 DEF IInv, GoType
  <2>6. GoInv'
    BY <2>1, <2>4 DEF trackVars, connVars, IInv, GoInv
  <2> QED
    BY <2>5, <2>6
<1>8. CASE Pop
  <2>1. /\ spc = "pop" /\ over' = IsOver /\ busy' = 0
        /\ UNCHANGED <<trackVars, connVars, loops, candidate, schedules>>
        /\ Issued' = Issued
    BY <1>8, IssuedFacts DEF Pop, histVars
  <2>2. over' \in BOOLEAN
    BY <2>1 DEF IsOver
  <2>3. 0 \in 0..Cardinality(Clients)
    BY ClientCount, clients \in SUBSET Clients DEF IInv, ConnType
  <2>4. CASE MayPop
    <3>1. /\ popped' \in Issued /\ spc' = "assign" /\ candidate # None
          /\ pending'.exists = pending.exists
      BY <1>8, <2>4, PopFacts DEF Pop, MayPop, IInv
    <3>2. popped' # None
      BY <3>1, IssuedFacts
    <3>3. GoType'
      BY <2>1, <2>2, <2>3, <3>1 DEF IInv, GoType
    <3>4. GoInv'
      BY <2>1, <3>1, <3>2 DEF trackVars, connVars, IInv, GoInv
    <3> QED
      BY <3>3, <3>4
  <2>5. CASE ~MayPop
    <3>1. popped' = None /\ spc' = "decide" /\ UNCHANGED pending
      BY <1>8, <2>5 DEF Pop
    <3>2. GoType'
      BY <2>1, <2>2, <2>3, <3>1 DEF IInv, GoType
    <3>3. GoInv'
      BY <2>1, <3>1 DEF IInv, GoInv
    <3> QED
      BY <3>2, <3>3
  <2> QED
    BY <2>4, <2>5
<1>9. CASE Assign
  <2>1. /\ spc = "assign" /\ spc' = "send" /\ popped' = None
        /\ UNCHANGED <<pending, connVars, loops, candidate, busy, over, schedules>>
        /\ Issued' = Issued
    BY <1>9, IssuedFacts DEF Assign, histVars
  <2>2. GoType'
    BY <2>1 DEF IInv, GoType
  <2>3. GoInv'
    BY <2>1 DEF connVars, IInv, GoInv
  <2> QED
    BY <2>2, <2>3
<1>10. CASE SendDump
  <2>1. /\ spc = "send" /\ spc' = "decide"
        /\ UNCHANGED <<pending, loops, candidate, busy, over, popped, schedules>>
        /\ Issued' = Issued
    BY <1>10, IssuedFacts DEF SendDump, histVars
  <2>2. GoType'
    BY <2>1 DEF IInv, GoType
  <2>3. GoInv'
    BY <2>1 DEF IInv, GoInv
  <2> QED
    BY <2>2, <2>3
<1>11. CASE SendFails
  <2>1. /\ spc = "send" /\ spc' = IF Tracked(candidate) = None THEN "delete" ELSE "push"
        /\ popped' = Tracked(candidate) /\ TakeDump(candidate)
        /\ UNCHANGED <<pending, loops, candidate, busy, over, schedules>>
        /\ Issued' = Issued
    BY <1>11, IssuedFacts DEF SendFails
  <2>2. candidate \in Clients /\ candidate # None
    BY <2>1 DEF IInv, GoType, GoInv
  <2>3. popped' \in Issued \cup {None}
    BY <2>1, <2>2, TakeFacts DEF IInv
  <2>4. GoType'
    BY <2>1, <2>3 DEF IInv, GoType
  <2>5. GoInv'
    BY <2>1, <2>2 DEF IInv, GoInv
  <2> QED
    BY <2>4, <2>5
<1>12. CASE CancelPush
  <2>1. /\ spc = "push" /\ spc' = "delete" /\ popped' = None
        /\ UNCHANGED <<loops, candidate, busy, over, schedules>>
        /\ Issued' = Issued /\ pending'.exists = pending.exists
    BY <1>12, IssuedFacts DEF CancelPush, histVars, Settle, Push, IInv, PendingType
  <2>2. GoType'
    BY <2>1 DEF IInv, GoType
  <2>3. GoInv'
    BY <2>1 DEF IInv, GoInv
  <2> QED
    BY <2>2, <2>3
<1>13. CASE CancelDelete
  <2>1. /\ spc = "delete" /\ spc' = "decide"
        /\ UNCHANGED <<pending, loops, candidate, busy, over, popped, schedules>>
        /\ Issued' = Issued
    BY <1>13, IssuedFacts DEF CancelDelete, histVars
  <2>2. GoType'
    BY <2>1 DEF IInv, GoType
  <2>3. GoInv'
    BY <2>1 DEF IInv, GoInv
  <2> QED
    BY <2>2, <2>3
<1>14. CASE Decide
  <2>1. /\ spc = "decide" /\ candidate' = None /\ over' = FALSE
        /\ UNCHANGED <<busy, popped, schedules>> /\ Issued' = Issued
        /\ over \in BOOLEAN
    BY <1>14, IssuedFacts DEF Decide, histVars, IInv, GoType
  <2>2. popped = None /\ loops >= 1 /\ pending.exists
    BY <2>1 DEF IInv, GoInv
  <2>3. CASE over
    <3>1. spc' = "none" /\ loops' = 0 /\ ~pending'.exists
      BY <1>14, <2>3, DecideFacts DEF Decide, IInv
    <3>2. loops' \in 0..(Cardinality(Clients) + 1)
      BY <3>1, ClientCount
    <3>3. GoType'
      BY <2>1, <3>1, <3>2 DEF IInv, GoType
    <3>4. GoInv'
      BY <2>1, <2>2, <3>1 DEF GoInv
    <3> QED
      BY <3>3, <3>4
  <2>4. CASE ~over
    <3>1. loops' = loops - 1 /\ spc' = (IF loops = 1 THEN "sleep" ELSE "pick") /\ UNCHANGED pending
      BY <1>14, <2>4 DEF Decide
    <3>2. loops' \in 0..(Cardinality(Clients) + 1) /\ (loops # 1 => loops' >= 1)
      BY <2>2, <3>1, ClientCount DEF IInv, GoType
    <3>3. GoType'
      BY <2>1, <3>1, <3>2 DEF IInv, GoType
    <3>4. GoInv'
      BY <2>1, <2>2, <3>1, <3>2 DEF GoInv
    <3> QED
      BY <3>3, <3>4
  <2> QED
    BY <2>3, <2>4
<1> QED
  BY <1>1, <1>2, <1>3, <1>4, <1>5, <1>6, <1>7, <1>8, <1>9, <1>10, <1>11, <1>12, <1>13, <1>14 DEF Next

-----------------------------------------------------------------------------
(* The places of the dumps.                                                 *)

\* A step moves one dump, or loses it when the first schedule does not run.
LEMMA DumpMoves ==
  ASSUME IInv, UNCHANGED schedules, NEW d,
         \A x \in Issued : x # d =>
           /\ InList(x)' <=> InList(x)
           /\ InHand(x)' <=> InHand(x)
           /\ OnTrack(x)' <=> OnTrack(x)
           /\ popped' = x <=> popped = x
           /\ x \in done' <=> x \in done,
         d \in Issued => OnePlaceOf(d)',
         pending'.exists /\ schedules = 1 => pending.exists /\ (d \in Issued => Placed(d)')
  PROVE  Apart' /\ Kept'
<1>1. Issued' = Issued
  BY IssuedFacts
<1>2. ASSUME NEW x \in Issued, x # d
      PROVE  OnePlaceOf(x)' /\ (Placed(x) => Placed(x)')
  <2>1. OnePlaceOf(x)
    BY DEF IInv, Apart
  <2> QED
    BY <1>2, <2>1 DEF OnePlaceOf, Placed
<1>3. Apart'
  BY <1>1, <1>2 DEF Apart
<1>4. Kept'
  BY <1>1, <1>2 DEF IInv, Kept
<1> QED
  BY <1>3, <1>4

LEMMA PlacesFrame ==
  ASSUME IInv, UNCHANGED <<returned, dump, popped, done, schedules>>,
         pending'.exists = pending.exists, pending'.dumps = pending.dumps,
         pending'.offset = pending.offset
  PROVE  Single' /\ Apart' /\ Kept'
<1>1. Single'
  BY DEF IInv, Single
<1>2. \A x \in Issued : /\ InList(x)' <=> InList(x)
                        /\ InHand(x)' <=> InHand(x)
                        /\ OnTrack(x)' <=> OnTrack(x)
                        /\ popped' = x <=> popped = x
                        /\ x \in done' <=> x \in done
  BY DEF InList, InHand, OnTrack
<1>3. None \notin Issued
  BY IssuedFacts
<1>4. Apart' /\ Kept'
  BY <1>2, <1>3, DumpMoves
<1> QED
  BY <1>1, <1>4

LEMMA SchedulePlaces ==
  ASSUME IInv, Schedule
  PROVE  Single' /\ Apart' /\ Kept'
<1>1. /\ ~pending.exists /\ pending'.exists /\ pending'.offset = 0 /\ PendingType'
      /\ schedules' = schedules + 1 /\ schedules' \in 1..MaxSchedules
      /\ Len(pending'.dumps) = NumDumps[schedules']
      /\ \A i \in 1..Len(pending'.dumps) : pending'.dumps[i] = <<schedules', i>>
      /\ Issued \subseteq Issued'
      /\ \A i \in 1..Len(pending'.dumps) : pending'.dumps[i] \notin Issued
  BY ScheduleFacts DEF IInv
<1>2. UNCHANGED <<returned, dump, popped, done>>
  BY DEF Schedule, trackVars, connVars
<1>3. \A i, j \in 1..Len(pending'.dumps) : pending'.dumps[i] = pending'.dumps[j] => i = j
  BY <1>1
<1>4. Single'
  BY <1>1, <1>2, <1>3 DEF IInv, Single
<1>5. \A x : InList(x)' => x \notin Issued
  BY <1>1 DEF InList
<1>6. None \notin Issued'
  BY NoneAssumption DEF Issued
<1>7. ASSUME NEW x \in Issued'
      PROVE  OnePlaceOf(x)'
  <2>1. (InHand(x)' <=> InHand(x)) /\ (OnTrack(x)' <=> OnTrack(x))
    BY <1>2 DEF InHand, OnTrack
  <2>2. InHand(x) \/ OnTrack(x) \/ popped = x \/ x \in done => x \in Issued
    BY <1>6 DEF InHand, OnTrack, IInv, ConnType, GoType
  <2>3. x \in Issued => OnePlaceOf(x)
    BY DEF IInv, Apart
  <2> QED
    BY <1>2, <1>5, <2>1, <2>2, <2>3 DEF OnePlaceOf
<1>8. ASSUME schedules' = 1, NEW x \in Issued'
      PROVE  InList(x)'
  <2>1. PICK n \in 1..MaxSchedules : \E i \in 1..NumDumps[n] : x = <<n, i>> /\ n <= 1
    BY <1>8 DEF Issued, Dumps
  <2>2. n = 1
    BY <2>1
  <2>3. PICK i \in 1..Len(pending'.dumps) : x = <<1, i>>
    BY <1>1, <1>8, <2>1, <2>2
  <2>4. pending'.dumps[i] = x
    BY <1>1, <1>8, <2>3
  <2> QED
    BY <1>1, <2>3, <2>4 DEF InList
<1>9. Kept'
  BY <1>8 DEF Kept, Placed
<1> QED
  BY <1>4, <1>7, <1>9 DEF Apart

LEMMA AckPlaces ==
  ASSUME IInv, NEW c \in Clients, Disconnect(c) \/ \E requeue \in BOOLEAN : AckTake(c, requeue)
  PROVE  Single' /\ Apart' /\ Kept'
<1>1. PICK requeue, closing \in BOOLEAN, h \in {"recv", "push", "delete"} :
                 TakeStep(c, requeue, closing, h)
  BY AckFacts DEF IInv
<1> USE DEF TakeStep
<1>2. PICK d \in Issued \cup {None} : d = Tracked(c)
  BY <1>1, TakeFacts DEF IInv
<1>3. /\ d \in Issued \cup {None}
      /\ \A e \in Clients : dump'[e] = IF e = c /\ c \in clients THEN None ELSE dump[e]
      /\ d # None => c \in clients /\ dump[c] = d
      /\ c \in clients => dump[c] = d
  BY <1>1, <1>2, TakeFacts DEF IInv, Tracked
<1>4. /\ returned'[c].dump = d /\ returned'[c].requeue = requeue
      /\ \A e \in Clients : e # c => returned'[e] = returned[e]
      /\ returned[c].dump = None
  BY <1>1, <1>2 DEF IInv, ConnType, ConnInv
<1>5. None \notin Issued
  BY IssuedFacts
<1>6. UNCHANGED popped
  BY <1>1 DEF goVars
<1>7. d # None => OnePlaceOf(d) /\ OnTrack(d)
  BY <1>3 DEF IInv, Apart, OnTrack
<1>8. \A x \in Issued : OnTrack(x)' <=> OnTrack(x) /\ x # d
  BY <1>3, <1>5 DEF OnTrack, IInv, Single
<1>9. \A x \in Issued : InHand(x)' <=> InHand(x) \/ (requeue /\ x = d)
  BY <1>4, <1>5 DEF InHand
<1>10. \A x : InList(x)' <=> InList(x)
  BY <1>1 DEF InList
<1>11. \A x \in Issued : x \in done' <=> x \in done \/ (~requeue /\ x = d)
  BY <1>1, <1>2, <1>5
<1>12. Single'
  <2>1. \A e \in Clients : dump'[e] = dump[e] \/ dump'[e] = None
    BY <1>3
  <2>2. \A a, b \in Clients : dump'[a] = dump'[b] /\ dump'[a] # None => a = b
    BY <2>1 DEF IInv, Single
  <2>3. ASSUME NEW e \in Clients, e # c, returned[e].requeue, returned[e].dump = d
        PROVE  d = None
    BY <1>3, <1>7, <2>3 DEF InHand, OnePlaceOf
  <2>4. \A a, b \in Clients :
          returned'[a].dump = returned'[b].dump /\ returned'[a].dump # None
            /\ returned'[a].requeue /\ returned'[b].requeue => a = b
    BY <1>4, <2>3 DEF IInv, Single
  <2> QED
    BY <1>1, <2>2, <2>4 DEF IInv, Single
<1>13. d \in Issued => OnePlaceOf(d)' /\ Placed(d)'
  BY <1>5, <1>6, <1>7, <1>8, <1>9, <1>10, <1>11 DEF OnePlaceOf, Placed
<1>14. UNCHANGED pending /\ UNCHANGED schedules
  BY <1>1
<1>15. \A x \in Issued : x # d =>
         /\ InList(x)' <=> InList(x)
         /\ InHand(x)' <=> InHand(x)
         /\ OnTrack(x)' <=> OnTrack(x)
         /\ popped' = x <=> popped = x
         /\ x \in done' <=> x \in done
  BY <1>6, <1>8, <1>9, <1>10, <1>11
<1>16. Apart' /\ Kept'
  BY <1>13, <1>14, <1>15, DumpMoves
<1> QED
  BY <1>12, <1>16

LEMMA PushPlaces ==
  ASSUME IInv, NEW c \in Clients, AckPush(c)
  PROVE  PendingType' /\ Single' /\ Apart' /\ Kept'
<1>1. /\ handler[c] = "push" /\ Settle(returned[c].dump, returned[c].requeue)
      /\ returned' = [returned EXCEPT ![c] = NoAck]
      /\ UNCHANGED <<dump, popped, done, schedules>>
  BY DEF AckPush, trackVars, goVars, histVars
<1>2. returned[c].dump \in Issued /\ returned[c].requeue \in BOOLEAN
  BY <1>1 DEF IInv, ConnType, ConnInv
<1>3. PICK d \in Issued, requeue \in BOOLEAN : d = returned[c].dump /\ requeue = returned[c].requeue
  BY <1>2
<1>4. d # None
  BY IssuedFacts
<1>5. OnePlaceOf(d) /\ (requeue => InHand(d))
  BY <1>3 DEF IInv, Apart, InHand
<1>6. /\ PendingType' /\ pending'.exists = pending.exists
      /\ \A i, j \in (pending'.offset + 1)..Len(pending'.dumps) :
           pending'.dumps[i] = pending'.dumps[j] => i = j
      /\ \A x : InList(x) => InList(x)'
      /\ \A x : InList(x)' => InList(x) \/ (requeue /\ x = d)
      /\ pending.exists /\ schedules = 1 /\ requeue => InList(d)'
  <2>1. Settle(d, requeue) /\ (requeue => ~InList(d))
    BY <1>1, <1>3, <1>5 DEF OnePlaceOf
  <2>2. PendingType /\ Single /\ UNCHANGED schedules
    BY <1>1 DEF IInv
  <2> QED
    BY <2>1, <2>2, SettleFacts
<1>7. /\ returned'[c].dump = None
      /\ \A e \in Clients : e # c => returned'[e] = returned[e]
  BY <1>1 DEF IInv, ConnType, NoAck
<1>8. Single'
  BY <1>1, <1>6, <1>7 DEF IInv, Single
<1>9. \A x \in Issued : InHand(x)' <=> InHand(x) /\ ~(requeue /\ x = d)
  <2>1. None \notin Issued
    BY IssuedFacts
  <2>2. \A e \in Clients : requeue /\ returned[e].dump = d /\ returned[e].requeue => e = c
    BY <1>3, <1>4 DEF IInv, Single
  <2> QED
    BY <1>3, <1>7, <2>1, <2>2 DEF InHand
<1>10. \A x : OnTrack(x)' <=> OnTrack(x)
  BY <1>1 DEF OnTrack
<1>11. CASE requeue
  <2>1. \A x \in Issued : x # d =>
          /\ InList(x)' <=> InList(x)
          /\ InHand(x)' <=> InHand(x)
          /\ OnTrack(x)' <=> OnTrack(x)
          /\ popped' = x <=> popped = x
          /\ x \in done' <=> x \in done
    BY <1>1, <1>6, <1>9, <1>10
  <2>2. OnePlaceOf(d)'
    BY <1>1, <1>5, <1>9, <1>10, <1>11 DEF OnePlaceOf
  <2>3. pending'.exists /\ schedules = 1 => pending.exists /\ Placed(d)'
    BY <1>6, <1>11 DEF Placed
  <2>4. UNCHANGED schedules
    BY <1>1
  <2>5. Apart' /\ Kept'
    BY <2>1, <2>2, <2>3, <2>4, DumpMoves
  <2> QED
    BY <1>6, <1>8, <2>5
<1>12. CASE ~requeue
  <2>1. \A x \in Issued : x # None =>
          /\ InList(x)' <=> InList(x)
          /\ InHand(x)' <=> InHand(x)
          /\ OnTrack(x)' <=> OnTrack(x)
          /\ popped' = x <=> popped = x
          /\ x \in done' <=> x \in done
    BY <1>1, <1>6, <1>9, <1>10, <1>12
  <2>2. None \notin Issued /\ UNCHANGED schedules
    BY <1>1, IssuedFacts
  <2>3. Apart' /\ Kept'
    BY <1>6, <2>1, <2>2, DumpMoves
  <2> QED
    BY <1>6, <1>8, <2>3
<1> QED
  BY <1>11, <1>12

LEMMA CancelPlaces ==
  ASSUME IInv, CancelPush
  PROVE  PendingType' /\ Single' /\ Apart' /\ Kept'
<1>1. /\ spc = "push" /\ Settle(popped, TRUE) /\ popped' = None
      /\ UNCHANGED <<dump, returned, done, schedules>>
  BY DEF CancelPush, trackVars, connVars, histVars
<1>2. PICK d \in Issued : d = popped
  BY <1>1 DEF IInv, GoType, GoInv
<1>3. d # None /\ OnePlaceOf(d)
  BY IssuedFacts DEF IInv, Apart
<1>4. /\ PendingType' /\ pending'.exists = pending.exists
      /\ \A i, j \in (pending'.offset + 1)..Len(pending'.dumps) :
           pending'.dumps[i] = pending'.dumps[j] => i = j
      /\ \A x : InList(x) => InList(x)'
      /\ \A x : InList(x)' => InList(x) \/ x = d
      /\ pending.exists /\ schedules = 1 => InList(d)'
  <2>1. Settle(d, TRUE) /\ ~InList(d)
    BY <1>1, <1>2, <1>3 DEF OnePlaceOf
  <2>2. PendingType /\ Single /\ UNCHANGED schedules
    BY <1>1 DEF IInv
  <2> QED
    BY <2>1, <2>2, SettleFacts
<1>5. Single'
  BY <1>1, <1>4 DEF IInv, Single
<1>6. \A x : (OnTrack(x)' <=> OnTrack(x)) /\ (InHand(x)' <=> InHand(x))
  BY <1>1 DEF OnTrack, InHand
<1>7. None \notin Issued
  BY IssuedFacts
<1>8. \A x \in Issued : x # d =>
        /\ InList(x)' <=> InList(x)
        /\ InHand(x)' <=> InHand(x)
        /\ OnTrack(x)' <=> OnTrack(x)
        /\ popped' = x <=> popped = x
        /\ x \in done' <=> x \in done
  BY <1>1, <1>2, <1>4, <1>6, <1>7
<1>9. OnePlaceOf(d)'
  BY <1>1, <1>2, <1>3, <1>6 DEF OnePlaceOf
<1>10. pending'.exists /\ schedules = 1 => pending.exists /\ Placed(d)'
  BY <1>4 DEF Placed
<1>11. UNCHANGED schedules
  BY <1>1
<1>12. Apart' /\ Kept'
  BY <1>8, <1>9, <1>10, <1>11, DumpMoves
<1> QED
  BY <1>4, <1>5, <1>12

LEMMA PopPlaces ==
  ASSUME IInv, Pop
  PROVE  PendingType' /\ Single' /\ Apart' /\ Kept'
<1>1. /\ spc = "pop" /\ UNCHANGED <<dump, returned, done, schedules>>
  BY DEF Pop, trackVars, connVars, histVars
<1>2. popped = None
  BY <1>1 DEF IInv, GoInv
<1>3. CASE MayPop
  <2> DEFINE k == pending.offset + 1
             n == Len(pending.dumps)
  <2>1. /\ k \in 1..n /\ pending.offset \in Nat
        /\ pending.dumps[k] \in Issued
        /\ PendingType' /\ pending'.offset = k
        /\ pending'.dumps = pending.dumps /\ pending'.exists = pending.exists
    BY <1>3, PopFacts DEF IInv
  <2>2. PICK d \in Issued : d = pending.dumps[k]
    BY <2>1
  <2>3. popped' = d
    BY <1>3, <2>2 DEF Pop
  <2>4. n \in Nat
    BY SeqFacts DEF IInv, PendingType
  <2>5. k..n = {k} \cup (k + 1)..n /\ k \notin (k + 1)..n
    BY <2>1, <2>4
  <2>6. \A i, j \in k..n : pending.dumps[i] = pending.dumps[j] => i = j
    BY DEF IInv, Single
  <2>7. \A x : InList(x) <=> \E i \in k..n : pending.dumps[i] = x
    BY DEF InList
  <2>8. \A x : InList(x)' <=> \E i \in (k + 1)..n : pending.dumps[i] = x
    BY <2>1 DEF InList
  <2>9. \A i, j \in (pending'.offset + 1)..Len(pending'.dumps) :
           pending'.dumps[i] = pending'.dumps[j] => i = j
    BY <2>1, <2>5, <2>6
  <2> HIDE DEF k, n
  <2>10. \A x : InList(x)' <=> InList(x) /\ x # d
    BY <2>2, <2>5, <2>6, <2>7, <2>8
  <2>11. InList(d)
    BY <2>2, <2>5, <2>7
  <2>12. Single'
    BY <1>1, <2>9 DEF IInv, Single
  <2>13. \A x : (OnTrack(x)' <=> OnTrack(x)) /\ (InHand(x)' <=> InHand(x))
    BY <1>1 DEF OnTrack, InHand
  <2>14. OnePlaceOf(d) /\ None \notin Issued
    BY IssuedFacts DEF IInv, Apart
  <2>15. \A x \in Issued : x # d =>
           /\ InList(x)' <=> InList(x)
           /\ InHand(x)' <=> InHand(x)
           /\ OnTrack(x)' <=> OnTrack(x)
           /\ popped' = x <=> popped = x
           /\ x \in done' <=> x \in done
    BY <1>1, <1>2, <2>3, <2>10, <2>13, <2>14
  <2>16. OnePlaceOf(d)' /\ Placed(d)'
    BY <1>1, <2>3, <2>10, <2>11, <2>13, <2>14 DEF OnePlaceOf, Placed
  <2>17. UNCHANGED schedules
    BY <1>1
  <2>18. Apart' /\ Kept'
    BY <2>1, <2>15, <2>16, <2>17, DumpMoves
  <2> QED
    BY <2>1, <2>12, <2>18
<1>4. CASE ~MayPop
  <2>1. UNCHANGED <<pending, popped>>
    BY <1>2, <1>4 DEF Pop
  <2>2. PendingType'
    BY <1>1, <2>1, IssuedFacts DEF IInv, PendingType
  <2> QED
    BY <1>1, <2>1, <2>2, PlacesFrame
<1> QED
  BY <1>3, <1>4

LEMMA AssignPlaces ==
  ASSUME IInv, Assign
  PROVE  Single' /\ Apart' /\ Kept'
<1>1. /\ spc = "assign" /\ dump' = [dump EXCEPT ![candidate] = popped] /\ popped' = None
      /\ UNCHANGED <<pending, returned, done, schedules>>
  BY DEF Assign, connVars, histVars
<1>2. candidate \in Clients /\ dump[candidate] = None
  BY <1>1 DEF IInv, GoType, GoInv
<1>3. PICK d \in Issued : d = popped
  BY <1>1 DEF IInv, GoType, GoInv
<1>4. None \notin Issued /\ OnePlaceOf(d)
  BY IssuedFacts DEF IInv, Apart
<1>5. \A e \in Clients : dump'[e] = IF e = candidate THEN d ELSE dump[e]
  BY <1>1, <1>2, <1>3 DEF IInv, ConnType
<1>6. \A x \in Issued : OnTrack(x)' <=> OnTrack(x) \/ x = d
  BY <1>2, <1>4, <1>5 DEF OnTrack
<1>7. \A x : (InList(x)' <=> InList(x)) /\ (InHand(x)' <=> InHand(x))
  BY <1>1 DEF InList, InHand
<1>8. Single'
  <2>1. \A e \in Clients : dump[e] # d
    BY <1>3, <1>4 DEF OnePlaceOf, OnTrack
  <2>2. \A a, b \in Clients : dump'[a] = dump'[b] /\ dump'[a] # None => a = b
    BY <1>5, <2>1 DEF IInv, Single
  <2> QED
    BY <1>1, <2>2 DEF IInv, Single
<1>9. \A x \in Issued : x # d =>
        /\ InList(x)' <=> InList(x)
        /\ InHand(x)' <=> InHand(x)
        /\ OnTrack(x)' <=> OnTrack(x)
        /\ popped' = x <=> popped = x
        /\ x \in done' <=> x \in done
  BY <1>1, <1>3, <1>4, <1>6, <1>7
<1>10. OnePlaceOf(d)' /\ Placed(d)'
  BY <1>1, <1>3, <1>4, <1>6, <1>7 DEF OnePlaceOf, Placed
<1>11. UNCHANGED <<pending, schedules>>
  BY <1>1
<1>12. Apart' /\ Kept'
  BY <1>9, <1>10, <1>11, DumpMoves
<1> QED
  BY <1>8, <1>12

LEMMA SendFailsPlaces ==
  ASSUME IInv, SendFails
  PROVE  Single' /\ Apart' /\ Kept'
<1>1. /\ spc = "send" /\ TakeDump(candidate) /\ popped' = Tracked(candidate)
      /\ UNCHANGED <<pending, clients, returned, done, schedules>>
  BY DEF SendFails, connVars
<1>2. candidate \in Clients /\ popped = None
  BY <1>1 DEF IInv, GoType, GoInv
<1>3. PICK c \in Clients : c = candidate
  BY <1>2
<1>4. PICK d \in Issued \cup {None} : d = Tracked(c)
  BY <1>1, <1>3, TakeFacts DEF IInv
<1>5. /\ \A e \in Clients : dump'[e] = IF e = c /\ c \in clients THEN None ELSE dump[e]
      /\ d # None => c \in clients /\ dump[c] = d
      /\ c \in clients => dump[c] = d
      /\ popped' = d
  BY <1>1, <1>3, <1>4, TakeFacts DEF IInv, Tracked
<1>6. None \notin Issued /\ (d \in Issued => OnePlaceOf(d) /\ OnTrack(d))
  BY <1>5, IssuedFacts DEF IInv, Apart, OnTrack
<1>7. \A x \in Issued : OnTrack(x)' <=> OnTrack(x) /\ x # d
  BY <1>5, <1>6 DEF OnTrack, IInv, Single
<1>8. \A x : (InList(x)' <=> InList(x)) /\ (InHand(x)' <=> InHand(x))
  BY <1>1 DEF InList, InHand
<1>9. Single'
  <2>1. \A e \in Clients : dump'[e] = dump[e] \/ dump'[e] = None
    BY <1>5
  <2>2. \A a, b \in Clients : dump'[a] = dump'[b] /\ dump'[a] # None => a = b
    BY <2>1 DEF IInv, Single
  <2> QED
    BY <1>1, <2>2 DEF IInv, Single
<1>10. \A x \in Issued : x # d =>
         /\ InList(x)' <=> InList(x)
         /\ InHand(x)' <=> InHand(x)
         /\ OnTrack(x)' <=> OnTrack(x)
         /\ popped' = x <=> popped = x
         /\ x \in done' <=> x \in done
  BY <1>1, <1>2, <1>5, <1>6, <1>7, <1>8
<1>11. d \in Issued => OnePlaceOf(d)' /\ Placed(d)'
  BY <1>1, <1>5, <1>6, <1>7, <1>8 DEF OnePlaceOf, Placed
<1>12. UNCHANGED <<pending, schedules>>
  BY <1>1
<1>13. Apart' /\ Kept'
  BY <1>10, <1>11, <1>12, DumpMoves
<1> QED
  BY <1>9, <1>13

\* The end of a schedule takes what waits out of the list.
LEMMA DecidePlaces ==
  ASSUME IInv, Decide
  PROVE  Single' /\ Apart' /\ Kept'
<1>1. /\ UNCHANGED <<returned, dump, popped, done, schedules>>
      /\ IF over THEN ~pending'.exists /\ pending'.dumps = <<>> /\ pending'.offset = 0
                 ELSE UNCHANGED pending
  BY DecideFacts DEF Decide, trackVars, connVars, histVars, IInv
<1>2. CASE over
  <2>1. Len(pending'.dumps) = 0 /\ pending'.offset = 0
    BY <1>1, <1>2, EmptySeq
  <2>2. (pending'.offset + 1)..Len(pending'.dumps) = {}
    BY <2>1
  <2>3. Single'
    BY <1>1, <2>2 DEF IInv, Single
  <2>4. \A x : ~InList(x)' /\ (OnTrack(x)' <=> OnTrack(x)) /\ (InHand(x)' <=> InHand(x))
    BY <1>1, <2>2 DEF InList, OnTrack, InHand
  <2>5. Apart'
    BY <1>1, <2>4, IssuedFacts DEF IInv, Apart, OnePlaceOf
  <2> QED
    BY <1>1, <1>2, <2>3, <2>5 DEF Kept
<1>3. CASE ~over
  BY <1>1, <1>3, PlacesFrame
<1> QED
  BY <1>2, <1>3

LEMMA PlacesStep ==
  ASSUME IInv, [Next]_vars
  PROVE  PendingType' /\ Single' /\ Apart' /\ Kept'
<1>1. ASSUME UNCHANGED <<pending, schedules>>
      PROVE  PendingType'
  BY <1>1, IssuedFacts DEF IInv, PendingType
<1>2. CASE SetCoolDown \/ StopSchedule
  <2>1. /\ UNCHANGED <<returned, dump, popped, done, schedules>> /\ Issued' = Issued
        /\ pending'.exists = pending.exists /\ pending'.dumps = pending.dumps
        /\ pending'.offset = pending.offset
    BY <1>2, IssuedFacts DEF SetCoolDown, StopSchedule, trackVars, connVars, goVars, histVars,
                             IInv, PendingType
  <2>2. pending' \in [exists : BOOLEAN, dumps : Seq(Issued), offset : Nat, backoff : BOOLEAN,
                      coolDown : BOOLEAN, stopping : BOOLEAN]
    BY <1>2 DEF SetCoolDown, StopSchedule, IInv, PendingType
  <2>3. PendingType'
    BY <2>1, <2>2 DEF IInv, PendingType
  <2> QED
    BY <2>1, <2>3, PlacesFrame
<1>3. CASE \/ UNCHANGED vars \/ Tick \/ Pick \/ SendDump \/ CancelDelete
           \/ \E c \in Clients : Register(c) \/ DeleteClient(c) \/ CoolDownPasses(c)
  <2>1. UNCHANGED <<pending, returned, dump, popped, done, schedules>>
    BY <1>3 DEF vars, trackVars, connVars, goVars, histVars, Tick, Pick, SendDump, CancelDelete,
                Register, DeleteClient, CoolDownPasses
  <2> QED
    BY <1>1, <2>1, PlacesFrame
<1>4. CASE Schedule
  BY <1>4, ScheduleFacts, SchedulePlaces DEF IInv
<1>5. ASSUME NEW c \in Clients, Disconnect(c) \/ \E requeue \in BOOLEAN : AckTake(c, requeue)
      PROVE  PendingType' /\ Single' /\ Apart' /\ Kept'
  <2>1. UNCHANGED <<pending, schedules>>
    BY <1>5 DEF Disconnect, AckTake
  <2> QED
    BY <1>1, <1>5, <2>1, AckPlaces
<1>6. CASE Assign \/ SendFails
  <2>1. UNCHANGED <<pending, schedules>>
    BY <1>6 DEF Assign, SendFails, histVars
  <2> QED
    BY <1>1, <1>6, <2>1, AssignPlaces, SendFailsPlaces
<1>7. CASE Decide
  BY <1>7, DecideFacts, DecidePlaces DEF IInv
<1> QED
  BY <1>2, <1>3, <1>4, <1>5, <1>6, <1>7, PushPlaces, CancelPlaces, PopPlaces DEF Next

LEMMA InitInv ==
  Init => IInv
<1> SUFFICES ASSUME Init PROVE IInv
  OBVIOUS
<1>1. <<>> \in Seq(Issued) /\ Len(<<>>) = 0
  BY EmptySeq
<1>2. /\ ~pending.exists /\ pending.dumps = <<>> /\ pending.offset = 0
  BY DEF Init, NoPending
<1>3. PendingType
  <2> DEFINE Q == Seq(Issued)
             e == <<>>
  <2>1. pending = [exists |-> FALSE, dumps |-> e, offset |-> 0, backoff |-> FALSE,
                   coolDown |-> FALSE, stopping |-> FALSE] /\ e \in Q
    BY <1>1 DEF Init, NoPending
  <2> HIDE DEF Q, e
  <2>2. pending \in [exists : BOOLEAN, dumps : Q, offset : Nat, backoff : BOOLEAN,
                     coolDown : BOOLEAN, stopping : BOOLEAN]
    BY <2>1
  <2>3. schedules \in 0..MaxSchedules
    BY SchedulerAssumption DEF Init
  <2> QED
    BY <1>1, <1>2, <2>2, <2>3 DEF PendingType, Q
<1>4. ConnType
  BY SchedulerAssumption DEF Init, NoAck, ConnType
<1>5. GoType
  <2>1. clients \in SUBSET Clients
    BY DEF Init
  <2>2. Cardinality(Clients) \in Nat
    BY <2>1, ClientCount
  <2>3. 0 \in 0..Cardinality(Clients) /\ 0 \in 0..(Cardinality(Clients) + 1)
    BY <2>2
  <2> QED
    BY <2>3 DEF Init, GoType
<1>6. GoInv /\ ConnInv
  BY <1>2 DEF Init, GoInv, ConnInv, InboxTracked, NoAck
<1>7. (pending.offset + 1)..Len(pending.dumps) = {}
  BY <1>1, <1>2
<1>8. Single
  BY <1>7 DEF Init, Single, NoAck
<1>9. \A d \in Issued : ~InList(d) /\ ~InHand(d) /\ ~OnTrack(d) /\ popped # d
  BY <1>7, IssuedFacts DEF Init, InList, InHand, OnTrack, NoAck
<1>10. Apart /\ Kept
  BY <1>2, <1>9 DEF Apart, OnePlaceOf, Kept
<1> QED
  BY <1>3, <1>4, <1>5, <1>6, <1>8, <1>10 DEF IInv

-----------------------------------------------------------------------------
(* The theorems.                                                            *)

\* The invariant holds of every behaviour: of the scheduling goroutine, of the
\* handlers of the clients and of the calls of the Controller, in any
\* interleaving of their critical sections.
THEOREM InductiveInvariant ==
  Spec => []IInv
<1>1. IInv /\ [Next]_vars => IInv'
  BY ConnStep, GoStep, PlacesStep DEF IInv
<1> QED
  BY <1>1, InitInv, PTL DEF Spec

\* Every variable keeps its type, and the offset of pending stays inside the list
\* of dumps, also when Push is called by the Ack of an earlier schedule.
THEOREM TypeCorrect ==
  Spec => []TypeOK
<1>1. IInv => TypeOK
  <2> SUFFICES ASSUME IInv PROVE TypeOK
    OBVIOUS
  <2>1. Issued \subseteq Dumps
    BY IssuedFacts
  <2>2. pending.dumps \in Seq(Issued) /\ Len(pending.dumps) \in Nat
    BY SeqFacts DEF IInv, PendingType
  <2>3. pending.dumps \in Seq(Dumps)
    BY <2>1, <2>2, SeqMonotonic
  <2>4. pending.offset \in 0..Len(pending.dumps)
    BY <2>2 DEF IInv, PendingType
  <2>5. /\ pending.exists \in BOOLEAN /\ pending.backoff \in BOOLEAN
        /\ pending.coolDown \in BOOLEAN /\ pending.stopping \in BOOLEAN
        /\ schedules \in 0..MaxSchedules
    BY DEF IInv, PendingType
  <2> DEFINE S == Issued \cup {None}
             T == Dumps \cup {None}
             R == [dump : S, requeue : BOOLEAN, closing : BOOLEAN]
             U == [dump : T, requeue : BOOLEAN, closing : BOOLEAN]
  <2>6. S \subseteq T /\ R \subseteq U
    BY <2>1
  <2>7. /\ dump \in [Clients -> S] /\ inbox \in [Clients -> S] /\ returned \in [Clients -> R]
        /\ popped \in S
    BY DEF IInv, ConnType, GoType
  <2>8. /\ dump \in [Clients -> T] /\ inbox \in [Clients -> T] /\ returned \in [Clients -> U]
        /\ popped \in T
    <3> HIDE DEF S, T, R, U
    <3> QED
      BY <2>6, <2>7
  <2>9. /\ clients \subseteq Clients /\ cooled \in [Clients -> BOOLEAN]
        /\ handler \in [Clients -> {"new", "recv", "push", "delete", "done"}]
        /\ faults \in 0..MaxFaults /\ done \subseteq Dumps
    BY <2>1 DEF IInv, ConnType
  <2>10. /\ spc \in {"none", "sleep", "pick", "pop", "assign", "send", "push", "delete", "decide"}
         /\ loops \in 0..(Cardinality(Clients) + 1)
         /\ candidate \in Clients \cup {None}
         /\ busy \in 0..Cardinality(Clients) /\ over \in BOOLEAN
    BY DEF IInv, GoType
  <2> QED
    BY <2>3, <2>4, <2>5, <2>8, <2>9, <2>10 DEF TypeOK
<1> QED
  BY <1>1, InductiveInvariant, PTL

\* An ack settles the dump that the client means: what a registered client works
\* on is what its track says.
THEOREM InboxesTracked ==
  Spec => []InboxTracked
<1>1. IInv => InboxTracked
  BY DEF IInv, ConnInv
<1> QED
  BY <1>1, InductiveInvariant, PTL

\* A set with no two elements.
LEMMA AtMostOne ==
  ASSUME NEW S, \A x, y \in S : x = y
  PROVE  Cardinality(S) = IF S = {} THEN 0 ELSE 1
<1>1. CASE S = {}
  BY <1>1, FS_EmptySet
<1>2. ASSUME NEW x \in S
      PROVE  Cardinality(S) = 1
  <2>1. S = {x}
    OBVIOUS
  <2> QED
    BY <2>1, FS_Singleton
<1> QED
  BY <1>1, <1>2

\* The number of places of a dump.
LEMMA PlacesCount ==
  ASSUME IInv, NEW d \in Issued
  PROVE  /\ Places(d) \in {0, 1} /\ (Places(d) = 1 => d \notin done)
         /\ Placed(d) => Places(d) = 1 \/ d \in done
<1>1. d # None /\ OnePlaceOf(d)
  BY IssuedFacts DEF IInv, Apart
<1>2. Cardinality(Waiting(d)) = IF InList(d) THEN 1 ELSE 0
  <2>1. \A x, y \in Waiting(d) : x = y
    BY DEF Waiting, IInv, Single
  <2>2. InList(d) <=> Waiting(d) # {}
    BY DEF Waiting, InList
  <2> QED
    BY <2>1, <2>2, AtMostOne
<1>3. Cardinality(Requeued(d)) = IF InHand(d) THEN 1 ELSE 0
  <2>1. \A x, y \in Requeued(d) : x = y
    BY <1>1 DEF Requeued, IInv, Single
  <2>2. InHand(d) <=> Requeued(d) # {}
    BY DEF Requeued, InHand
  <2> QED
    BY <2>1, <2>2, AtMostOne
<1>4. Cardinality(Held(d)) = IF OnTrack(d) THEN 1 ELSE 0
  <2>1. \A x, y \in Held(d) : x = y
    BY <1>1 DEF Held, IInv, Single
  <2>2. OnTrack(d) <=> Held(d) # {}
    BY DEF Held, OnTrack
  <2> QED
    BY <2>1, <2>2, AtMostOne
<1>5. Places(d) = (IF InList(d) THEN 1 ELSE 0) + (IF InHand(d) THEN 1 ELSE 0)
                    + (IF OnTrack(d) THEN 1 ELSE 0) + (IF popped = d THEN 1 ELSE 0)
  BY <1>2, <1>3, <1>4 DEF Places
<1> QED
  BY <1>1, <1>5 DEF OnePlaceOf, Placed

\* No dump is handed to two clients at a time, waits while a client works on it,
\* or comes back after a successful ack.
THEOREM DumpsInOnePlace ==
  Spec => []OnePlace
<1>1. IInv => OnePlace
  <2> SUFFICES ASSUME IInv, NEW d \in Dumps
               PROVE  Places(d) + (IF d \in done THEN 1 ELSE 0) <= 1
    BY DEF OnePlace
  <2>1. CASE d \in Issued
    BY <2>1, PlacesCount
  <2>2. CASE d \notin Issued
    <3>1. d # None
      BY NoneAssumption
    <3>2. Requeued(d) = {} /\ Held(d) = {} /\ popped # d /\ d \notin done
      BY <2>2, <3>1 DEF Requeued, Held, IInv, ConnType, GoType
    <3>3. Waiting(d) = {}
      <4>1. pending.dumps \in Seq(Issued) /\ pending.offset \in Nat
        BY DEF IInv, PendingType
      <4>2. \A i \in 1..Len(pending.dumps) : pending.dumps[i] \in Issued
        BY <4>1, SeqFacts
      <4>3. (pending.offset + 1)..Len(pending.dumps) \subseteq 1..Len(pending.dumps)
        BY <4>1, SeqFacts
      <4> QED
        BY <2>2, <4>2, <4>3 DEF Waiting
    <3>4. Places(d) = 0
      BY <3>2, <3>3, FS_EmptySet DEF Places
    <3> QED
      BY <3>2, <3>4
  <2> QED
    BY <2>1, <2>2
<1> QED
  BY <1>1, InductiveInvariant, PTL

\* As long as the first schedule runs, none of its dumps is lost: Push always
\* finds a place that was popped.
THEOREM FirstScheduleKeepsDumps ==
  Spec => []NothingDropped
<1>1. IInv => NothingDropped
  <2> SUFFICES ASSUME IInv, pending.exists, schedules = 1, NEW i \in 1..NumDumps[1]
               PROVE  Places(<<1, i>>) = 1 \/ <<1, i>> \in done
    BY DEF NothingDropped
  <2>1. 1 \in 1..MaxSchedules /\ schedules \in Nat
    BY SchedulerAssumption DEF IInv, PendingType
  <2>2. <<1, i>> \in Issued
    BY <2>1 DEF Issued, Dumps
  <2>3. Placed(<<1, i>>)
    BY <2>2 DEF IInv, Kept
  <2> QED
    BY <2>2, <2>3, PlacesCount
<1> QED
  BY <1>1, InductiveInvariant, PTL

=============================================================================
