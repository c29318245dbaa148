------------------------------ MODULE LogCopy -------------------------------
(***************************************************************************)
(* What a capture pipeline promises: the copy starts at the beginning of    *)
(* some transaction of a growing log and from then on takes one message     *)
(* after the other, each exactly once, none before it is in the log.        *)
(***************************************************************************)
EXTENDS Sequences, Naturals

CONSTANTS Starts,      \* the positions a copy may begin with
          Following(_) \* the position after a given one

VARIABLES available,   \* the positions of the log that exist
          copy         \* the positions copied so far, in order

Init == copy = <<>>

Grow == /\ available \subseteq available'
        /\ UNCHANGED copy

CopyOne == \E m \in available :
             /\ IF copy = <<>> THEN m \in Starts
                               ELSE m = Following(copy[Len(copy)])
             /\ copy' = Append(copy, m)
             /\ UNCHANGED available

Next == Grow \/ CopyOne

Spec == Init /\ [][Next]_<<available, copy>>
=============================================================================
