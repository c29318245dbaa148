-------------------------- MODULE CheckpointProofs --------------------------
(***************************************************************************)
(* Facts about checkpoints that the proofs of the pipelines rest on.        *)
(***************************************************************************)
EXTENDS Checkpoint, TLAPS

\* Reading a key back yields the checkpoint it was written from.
THEOREM KeyRoundTrip ==
  ASSUME NEW cp \in Checkpoints
  PROVE  /\ ToKey(cp) \in Keys
         /\ FromKey(ToKey(cp)) = cp
<1>1. Word \in Nat /\ Word > 0
  BY WordAssumption
<1>2. cp.lsn \in Nat /\ cp.seq \in Nat /\ cp = [lsn |-> cp.lsn, seq |-> cp.seq]
  BY DEF Checkpoints
<1>3. \A a, w \in Int : w > 0 => /\ a = w * (a \div w) + (a % w)
                                 /\ a % w >= 0
  OBVIOUS
<1>4. cp.lsn \div Word \in Nat /\ cp.lsn % Word \in Nat
  BY <1>1, <1>2
<1>5. cp.lsn = (cp.lsn \div Word) * Word + (cp.lsn % Word)
  BY <1>1, <1>2, <1>3, <1>4
<1> QED
  BY <1>2, <1>4, <1>5 DEF ToKey, FromKey, Keys
=============================================================================
