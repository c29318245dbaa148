----------------------------- MODULE Checkpoint -----------------------------
(***************************************************************************)
(* The position of a message in the change stream (pkg/cursor/main.go): the *)
(* commit LSN of its transaction and its number within it.  The order After *)
(* decides which messages a restarted sink drops; the key written by ToKey  *)
(* is the only copy of the position the topic keeps, and FromKey is what a  *)
(* restarted process learns it from.                                        *)
(***************************************************************************)
EXTENDS Integers

CONSTANT Word   \* the number of values of half an LSN (2^32 in the code)

ASSUME WordAssumption == Word \in Nat \ {0}

Checkpoints == [lsn : Nat, seq : Nat]

\* The zero value of the Go struct: "no position known".
NoCheckpoint == [lsn |-> 0, seq |-> 0]

Equal(cp, cp2) == cp.lsn = cp2.lsn /\ cp.seq = cp2.seq

After(cp, cp2) == \/ cp.lsn > cp2.lsn
                  \/ cp.lsn = cp2.lsn /\ cp.seq > cp2.seq

\* "hi/lo|seq": pglogrepl prints the two halves of the LSN one by one.
Keys == [hi : Nat, lo : Nat, seq : Nat]

ToKey(cp) == [hi |-> cp.lsn \div Word, lo |-> cp.lsn % Word, seq |-> cp.seq]

FromKey(key) == [lsn |-> key.hi * Word + key.lo, seq |-> key.seq]

=============================================================================
