--------------------------- MODULE SequenceProofs ---------------------------
(***************************************************************************)
(* Facts about sequences, as the channels of the models are, and about the  *)
(* sets of what is in them; and induction, stated with sets instead of      *)
(* predicates: a fact about every number is that a set contains them all.   *)
(***************************************************************************)
EXTENDS Integers, Sequences, SequenceTheorems, WellFoundedInduction, TLAPS

\* Length and elements of a sequence, and when it is empty.
LEMMA SeqFacts ==
  ASSUME NEW S, NEW q \in Seq(S)
  PROVE  /\ Len(q) \in Nat /\ DOMAIN q = 1..Len(q)
         /\ \A i \in DOMAIN q : q[i] \in S
         /\ q # <<>> => Len(q) >= 1 /\ 1 \in DOMAIN q /\ Len(q) \in DOMAIN q
         /\ Len(q) = 0 <=> q = <<>>
<1>1. Len(q) \in Nat /\ DOMAIN q = 1..Len(q)
  BY LenProperties
<1>2. \A i \in 1..Len(q) : q[i] \in S
  BY ElementOfSeq
<1>3. (q # <<>> => Len(q) \in Nat \ {0}) /\ Len(<<>>) = 0
  BY EmptySeq
<1> QED
  BY <1>1, <1>2, <1>3

\* What Append adds to a sequence.
LEMMA AppendFacts ==
  ASSUME NEW S, NEW q \in Seq(S), NEW e \in S
  PROVE  /\ Append(q, e) \in Seq(S) /\ Append(q, e) # <<>>
         /\ Len(Append(q, e)) = Len(q) + 1
         /\ DOMAIN Append(q, e) = DOMAIN q \cup {Len(q) + 1}
         /\ \A i \in DOMAIN q : Append(q, e)[i] = q[i]
         /\ Append(q, e)[Len(q) + 1] = e
         /\ Len(q) + 1 \notin DOMAIN q
<1>1. /\ Append(q, e) \in Seq(S)
      /\ Len(Append(q, e)) = Len(q) + 1
      /\ \A i \in 1..Len(q) : Append(q, e)[i] = q[i]
      /\ Append(q, e)[Len(q) + 1] = e
  BY AppendProperties
<1>2. Len(q) \in Nat /\ DOMAIN q = 1..Len(q)
  BY SeqFacts
<1>3. DOMAIN Append(q, e) = 1..(Len(q) + 1)
  BY <1>1, SeqFacts
<1>4. Append(q, e) # <<>>
  BY <1>1, <1>2, EmptySeq
<1> QED
  BY <1>1, <1>2, <1>3, <1>4

\* What is left of a sequence without its first element.
LEMMA TailFacts ==
  ASSUME NEW S, NEW q \in Seq(S), q # <<>>
  PROVE  /\ Tail(q) \in Seq(S) /\ Len(Tail(q)) = Len(q) - 1
         /\ Head(q) = q[1] /\ Head(q) \in S /\ 1 \in DOMAIN q
         /\ \A i \in DOMAIN Tail(q) : i + 1 \in DOMAIN q /\ Tail(q)[i] = q[i + 1]
         /\ DOMAIN Tail(q) \subseteq DOMAIN q
         /\ \A i \in DOMAIN q : i = 1 \/ (i - 1 \in DOMAIN Tail(q) /\ Tail(q)[i - 1] = q[i])
<1>1. /\ Head(q) \in S /\ Tail(q) \in Seq(S) /\ Len(Tail(q)) = Len(q) - 1
      /\ \A i \in 1..Len(Tail(q)) : Tail(q)[i] = q[i + 1]
  BY HeadTailProperties
<1>2. /\ Len(q) \in Nat /\ DOMAIN q = 1..Len(q) /\ Len(q) >= 1
      /\ DOMAIN Tail(q) = 1..Len(Tail(q))
  BY <1>1, SeqFacts
<1>3. Head(q) = q[1]
  BY DEF Head
<1> QED
  BY <1>1, <1>2, <1>3

\* A function whose value is replaced at one place.
LEMMA ExceptType ==
  ASSUME NEW S, NEW T, NEW f \in [S -> T], NEW s \in S, NEW x \in T
  PROVE  [f EXCEPT ![s] = x] \in [S -> T]
OBVIOUS

\* One of several channels is emptied.
LEMMA EmptiedType ==
  ASSUME NEW S, NEW T, NEW f \in [S -> Seq(T)], NEW s \in S
  PROVE  [f EXCEPT ![s] = <<>>] \in [S -> Seq(T)]
<1>1. <<>> \in Seq(T)
  OBVIOUS
<1> DEFINE e == <<>>
           Q == Seq(T)
<1> HIDE DEF e, Q
<1>2. [f EXCEPT ![s] = e] \in [S -> Q]
  BY <1>1, ExceptType DEF e, Q
<1> QED
  BY <1>2 DEF e, Q

\* A function on an initial segment is a sequence.
LEMMA SeqOfFunction ==
  ASSUME NEW S, NEW n \in Nat, NEW q, q = [i \in 1..n |-> q[i]], \A i \in 1..n : q[i] \in S
  PROVE  q \in Seq(S) /\ Len(q) = n
<1>1. q \in [1..n -> S]
  OBVIOUS
<1> QED
  BY <1>1

-----------------------------------------------------------------------------
(* Induction and recursion.                                                 *)

\* A set that contains 0, and with a number the next one, contains them all.
LEMMA SetInduction ==
  ASSUME NEW S, 0 \in S, \A n \in Nat : n \in S => n + 1 \in S
  PROVE  Nat \subseteq S
<1> DEFINE R == OpToRel(<, Nat)
           T == Nat \ S
<1>1. IsWellFoundedOn(R, Nat)
  BY NatLessThanWellFounded
<1>2. SUFFICES ASSUME T # {} PROVE FALSE
  OBVIOUS
<1>3. T \subseteq Nat
  OBVIOUS
<1>4. \E x \in T : \A y \in T : ~(<<y, x>> \in R)
  <2> HIDE DEF R, T
  <2> QED BY <1>1, <1>2, <1>3, WFMin
<1>5. PICK x \in T : \A y \in T : ~(<<y, x>> \in R)
  BY <1>4
<1>6. x \in Nat /\ x # 0 /\ x - 1 \in Nat
  OBVIOUS
<1>7. x - 1 \in T
  BY <1>6
<1>8. <<x - 1, x>> \in R
  BY <1>6 DEF OpToRel
<1> QED BY <1>5, <1>7, <1>8

\* The same for the numbers of an interval.
LEMMA IntervalInduction ==
  ASSUME NEW n \in Nat, NEW S, 0 \in S, \A i \in 1..n : i - 1 \in S => i \in S
  PROVE  0..n \subseteq S
<1> DEFINE T == {m \in Nat : m <= n => m \in S}
<1>1. 0 \in T
  OBVIOUS
<1>2. ASSUME NEW m \in Nat, m \in T PROVE m + 1 \in T
  <2>1. SUFFICES ASSUME m + 1 <= n PROVE m + 1 \in S
    OBVIOUS
  <2>2. m \in S /\ m + 1 \in 1..n /\ (m + 1) - 1 = m
    BY <1>2, <2>1
  <2> QED BY <2>2
<1>3. Nat \subseteq T
  <2> HIDE DEF T
  <2> QED BY <1>1, <1>2, SetInduction
<1> QED BY <1>3

\* f is the function that starts with a and whose step i is G[i].
Recurses(f, n, D, a, G) ==
  f \in [0..n -> D] /\ f[0] = a /\ \A i \in 1..n : f[i] = G[i][f[i - 1]]

\* There is one, when every step keeps to the set D.
LEMMA Recursion ==
  ASSUME NEW D, NEW n \in Nat, NEW a \in D, NEW G \in [1..n -> [D -> D]]
  PROVE  \E f : Recurses(f, n, D, a, G)
<1> DEFINE T == {m \in Nat : m <= n => \E f \in [0..m -> D] : f[0] = a /\ \A i \in 1..m : f[i] = G[i][f[i-1]]}
<1>1. 0 \in T
  <2>1. [i \in 0..0 |-> a] \in [0..0 -> D] /\ [i \in 0..0 |-> a][0] = a
    OBVIOUS
  <2>2. \A i \in 1..0 : FALSE
    OBVIOUS
  <2> QED BY <2>1, <2>2
<1>2. ASSUME NEW m \in Nat, m \in T PROVE m + 1 \in T
  <2>1. SUFFICES ASSUME m + 1 <= n 
                 PROVE \E f \in [0..(m+1) -> D] : f[0] = a /\ \A i \in 1..(m+1) : f[i] = G[i][f[i-1]]
    OBVIOUS
  <2>2. PICK f \in [0..m -> D] : f[0] = a /\ \A i \in 1..m : f[i] = G[i][f[i-1]]
    BY <1>2, <2>1
  <2> DEFINE g == [i \in 0..(m+1) |-> IF i = m + 1 THEN G[m+1][f[m]] ELSE f[i]]
  <2>3. f[m] \in D /\ m + 1 \in 1..n /\ G[m+1] \in [D -> D] /\ G[m+1][f[m]] \in D
    <3>1. f[m] \in D /\ m + 1 \in 1..n
      BY <2>1
    <3>2. G[m+1] \in [D -> D]
      BY <3>1
    <3> QED BY <3>1, <3>2
  <2>4. g \in [0..(m+1) -> D]
    <3>1. ASSUME NEW i \in 0..(m+1), i # m + 1 PROVE f[i] \in D
      BY <3>1
    <3> QED BY <2>3, <3>1
  <2>5. g[0] = a
    BY <2>2
  <2>6. ASSUME NEW i \in 1..(m+1) PROVE g[i] = G[i][g[i-1]]
    <3>1. i - 1 \in 0..(m+1) /\ i - 1 # m + 1 /\ g[i-1] = f[i-1] /\ i \in 0..(m+1)
      OBVIOUS
    <3>2. CASE i = m + 1
      BY <3>1, <3>2
    <3>3. CASE i # m + 1
      <4>1. i \in 1..m /\ g[i] = f[i]
        BY <3>1, <3>3
      <4> QED BY <4>1, <3>1, <2>2
    <3> QED BY <3>2, <3>3
  <2> HIDE DEF g
  <2> QED BY <2>4, <2>5, <2>6
<1>3. Nat \subseteq T
  <2> HIDE DEF T
  <2> QED BY <1>1, <1>2, SetInduction
<1>4. n \in T
  BY <1>3
<1> QED
  BY <1>4 DEF Recurses

\* A function that a recursion over 0..n describes takes its values in a set
\* that its steps do not leave.
LEMMA RecursionType ==
  ASSUME NEW n \in Nat, NEW D, NEW f, f[0] \in D,
         \A i \in 1..n : f[i - 1] \in D => f[i] \in D
  PROVE  \A i \in 0..n : f[i] \in D
<1> DEFINE S == {i \in 0..n : f[i] \in D}
<1>1. 0 \in S
  OBVIOUS
<1>2. ASSUME NEW i \in 1..n, i - 1 \in S PROVE i \in S
  BY <1>2
<1>3. 0..n \subseteq S
  <2> HIDE DEF S
  <2> QED
    BY <1>1, <1>2, IntervalInduction
<1> QED
  BY <1>3

\* Two functions that agree at 0 and on every step agree.
LEMMA RecursionUnique ==
  ASSUME NEW n \in Nat, NEW f, NEW g, f[0] = g[0],
         \A i \in 1..n : f[i - 1] = g[i - 1] => f[i] = g[i]
  PROVE  \A i \in 0..n : f[i] = g[i]
<1> DEFINE S == {i \in 0..n : f[i] = g[i]}
<1>1. 0 \in S
  OBVIOUS
<1>2. ASSUME NEW i \in 1..n, i - 1 \in S PROVE i \in S
  BY <1>2
<1>3. 0..n \subseteq S
  <2> HIDE DEF S
  <2> QED
    BY <1>1, <1>2, IntervalInduction
<1> QED
  BY <1>3

\* A sequence followed by another one that grows.
LEMMA ConcatAppend ==
  ASSUME NEW S, NEW p \in Seq(S), NEW q \in Seq(S), NEW e \in S
  PROVE  /\ p \o q \in Seq(S)
         /\ p \o Append(q, e) = Append(p \o q, e)
         /\ p \o <<>> = p
OBVIOUS

=============================================================================
