------------------------------ MODULE Consumer ------------------------------
(***************************************************************************)
(* The consumer library (pkg/pgcapture): ConsumeAsync takes the messages of *)
(* a source one by one and passes each to the bouncer, which calls the      *)
(* user's handler and answers the source.  NoBounceHandler does so at once. *)
(* DebounceHandler keeps an update in a store until a timer flushes it or   *)
(* another change with its key comes; an update that takes its place has it *)
(* answered without having been handled.                                    *)
(*                                                                          *)
(* An event is a record with at least the fields key, oldKey and op.  What  *)
(* the bouncer does with it is a sequence of calls, each of which handles   *)
(* an event or only commits it.  Handlers are those of Consume: they have   *)
(* answered when they return.                                               *)
(***************************************************************************)
EXTENDS Integers, Sequences, SequencesExt

CONSTANT Debounce   \* DebounceInterval > 0

ASSUME ConsumerAssumption == Debounce \in BOOLEAN

NoKey == 0   \* the key of a model without fields

Ops == {"INSERT", "UPDATE", "DELETE"}

\* handle, and the Commit of what is not handled.
Handle(e) == [event |-> e, handle |-> TRUE]
Drop(e)   == [event |-> e, handle |-> FALSE]

\* The entry of the store under a key: one or none.
Stored(store, key) == SetToSeq({e \in store : e.key = key})

\* Of an insert or delete the key is that of the row it writes or removes.  What
\* it finds in the store it handles, and leaves there.
HandleNow(store, e) ==
  LET prev == Stored(store, e.key)
  IN [calls |-> [i \in DOMAIN prev |-> Handle(prev[i])] \o <<Handle(e)>>,
      store |-> store]

\* An update takes the place of the one before.  Old is never nil: it is a model,
\* with or without fields.
HandleUpdate(store, e) ==
  LET old  == Stored(store, e.oldKey)
      prev == Stored(store, e.key)
  IN [calls |-> [i \in DOMAIN old |-> Handle(old[i])] \o [i \in DOMAIN prev |-> Drop(prev[i])],
      store |-> {f \in store : f.key # e.key} \cup {e}]

NoBounce(store, e) == [calls |-> <<Handle(e)>>, store |-> store]

\* Bouncer.Handle.
Bounce(store, e) ==
  CASE ~Debounce -> NoBounce(store, e)
    [] Debounce /\ e.op = "UPDATE" -> HandleUpdate(store, e)
    [] Debounce /\ e.op # "UPDATE" -> HandleNow(store, e)

\* The flush of the timer, in any order of the keys.
Flushes(store) ==
  {[i \in DOMAIN order |-> Handle(order[i])] : order \in SetToSeqs(store)}

=============================================================================
