---------------------------- MODULE NatRecursion ----------------------------
(***************************************************************************)
(* Induction and recursion over an interval of the naturals, in the first- *)
(* order form the provers can use: a property is the set of the numbers    *)
(* that have it, and the step of a recursion is a function. The proofs     *)
(* about the loops of the daemon rest on these facts.                      *)
(***************************************************************************)
EXTENDS Naturals, Sequences, WellFoundedInduction, SequenceTheorems, TLAPS

\* A set of natural numbers that has a member has a least one.
LEMMA LeastOf ==
    ASSUME NEW T, T \subseteq Nat, T # {}
    PROVE  \E i \in T : \A j \in T : i <= j
<1> DEFINE R == OpToRel(<, Nat)
<1>1. IsWellFoundedOn(R, Nat)
  BY NatLessThanWellFounded, Zenon
<1>2. \A x, y \in Nat : <<y, x>> \in R <=> y < x
  BY DEF OpToRel
<1> HIDE DEF R
<1>3. PICK i \in T : \A j \in T : ~(<<j, i>> \in R)
  BY <1>1, WFMin
<1>4. ASSUME NEW j \in T PROVE i <= j
  <2>1. i \in Nat /\ j \in Nat
    OBVIOUS
  <2>2. ~(j < i)
    BY <1>2, <1>3, <2>1, Zenon
  <2> QED
    BY <2>1, <2>2
<1> QED
  BY <1>4

\* What holds of 0, and of every number up to n whose predecessor has it, holds
\* up to n.
LEMMA UpTo ==
    ASSUME NEW n \in Nat, NEW P,
           0 \in P,
           \A i \in 1 .. n : i - 1 \in P => i \in P
    PROVE  0 .. n \subseteq P
<1> DEFINE T == {i \in 0 .. n : i \notin P}
<1> SUFFICES ASSUME T # {} PROVE FALSE
  OBVIOUS
<1>1. T \subseteq Nat
  OBVIOUS
<1>2. PICK i \in T : \A j \in T : i <= j
  BY <1>1, LeastOf
<1>3. i \in 1 .. n /\ i \notin P
  BY <1>2
<1>4. i - 1 \in 0 .. n /\ ~(i <= i - 1)
  BY <1>3
<1>5. i - 1 \in P
  BY <1>2, <1>4
<1> QED
  BY <1>3, <1>5

\* What holds of the empty sequence, and still holds with one element more,
\* holds of every sequence.
LEMMA SeqInduction ==
    ASSUME NEW T, NEW P,
           << >> \in P,
           \A s \in Seq(T) : \A x \in T : s \in P => Append(s, x) \in P
    PROVE  Seq(T) \subseteq P
<1> SUFFICES ASSUME NEW s \in Seq(T) PROVE s \in P
  OBVIOUS
<1> DEFINE n == Len(s)
           F == {i \in 0 .. n : SubSeq(s, 1, i) \in P}
<1>1. n \in Nat /\ \A i \in 1 .. n : s[i] \in T
  OBVIOUS
<1>2. \A i \in 0 .. n : SubSeq(s, 1, i) \in Seq(T)
  BY <1>1
<1>3. \A i \in 1 .. n : SubSeq(s, 1, i) = Append(SubSeq(s, 1, i - 1), s[i])
  <2> SUFFICES ASSUME NEW i \in 1 .. n
               PROVE  SubSeq(s, 1, i) = Append(SubSeq(s, 1, i - 1), s[i])
    OBVIOUS
  <2>1. 1 \in 1 .. Len(s) /\ i \in 1 .. Len(s) /\ i - 1 \in 0 .. n
    BY <1>1
  <2>2. SubSeq(s, 1, i) = SubSeq(s, 1, i - 1) \o << s[i] >>
    BY <2>1, SubSeqRecursiveSecond, Zenon
  <2>3. SubSeq(s, 1, i - 1) \in Seq(T) /\ s[i] \in T
    BY <1>1, <1>2, <2>1
  <2> QED
    BY <2>2, <2>3, AppendIsConcat, Zenon
<1>4. 0 \in F
  <2>1. SubSeq(s, 1, 0) = << >>
    OBVIOUS
  <2>2. 0 \in 0 .. n
    BY <1>1
  <2> QED
    BY <2>1, <2>2, Zenon
<1>5. ASSUME NEW i \in 1 .. n, i - 1 \in F PROVE i \in F
  <2>1. i \in 0 .. n /\ i - 1 \in 0 .. n /\ SubSeq(s, 1, i - 1) \in P
    BY <1>5
  <2>2. Append(SubSeq(s, 1, i - 1), s[i]) \in P
    BY <1>1, <1>2, <2>1
  <2> QED
    BY <1>3, <2>1, <2>2
<1> HIDE DEF F
<1>6. 0 .. n \subseteq F
  BY <1>1, <1>4, <1>5, UpTo
<1>7. SubSeq(s, 1, n) \in P
  BY <1>1, <1>6 DEF F
<1>8. SubSeq(s, 1, n) = s
  BY SubSeqFull
<1> QED
  BY <1>7, <1>8

\* f[i] is the value of a loop after i of its n rounds: it starts with a, and
\* the i-th round makes x into step[x, i].
IsLoop(f, n, S, a, step) ==
    /\ f \in [0 .. n -> S]
    /\ f[0] = a
    /\ \A i \in 1 .. n : f[i] = step[<<f[i - 1], i>>]

\* Every loop whose rounds stay in a set has a value after every round.
LEMMA LoopExists ==
    ASSUME NEW n \in Nat, NEW S, NEW a \in S, NEW step \in [S \X (1 .. n) -> S]
    PROVE  \E f : IsLoop(f, n, S, a, step)
<1> DEFINE Upto(m) == \E f \in [0 .. m -> S] :
                         /\ f[0] = a
                         /\ \A i \in 1 .. m : f[i] = step[<<f[i - 1], i>>]
           P == {m \in 0 .. n : Upto(m)}
<1>1. 0 \in P
  <2> DEFINE f == [i \in 0 .. 0 |-> a]
  <2>1. f \in [0 .. 0 -> S] /\ f[0] = a /\ \A i \in 1 .. 0 : f[i] = step[<<f[i - 1], i>>]
    OBVIOUS
  <2>2. Upto(0)
    BY <2>1
  <2> QED
    BY <2>2
<1>2. ASSUME NEW m \in 1 .. n, m - 1 \in P PROVE m \in P
  <2>1. PICK f \in [0 .. m - 1 -> S] :
           /\ f[0] = a
           /\ \A i \in 1 .. m - 1 : f[i] = step[<<f[i - 1], i>>]
    BY <1>2
  <2> DEFINE g == [i \in 0 .. m |-> IF i = m THEN step[<<f[m - 1], m>>] ELSE f[i]]
  <2>2. f[m - 1] \in S
    OBVIOUS
  <2>3. step[<<f[m - 1], m>>] \in S
    BY <2>2
  <2>4. g \in [0 .. m -> S]
    BY <2>3
  <2>5. g[0] = a
    BY <2>1
  <2>6. ASSUME NEW i \in 1 .. m PROVE g[i] = step[<<g[i - 1], i>>]
    <3>1. g[i - 1] = f[i - 1]
      OBVIOUS
    <3>2. CASE i = m
      <4>1. g[m] = step[<<f[m - 1], m>>]
        OBVIOUS
      <4> HIDE DEF g
      <4> QED
        BY <3>1, <3>2, <4>1
    <3>3. CASE i # m
      <4>1. i \in 1 .. m - 1
        BY <3>3
      <4> QED
        BY <2>1, <3>1, <4>1
    <3> QED
      BY <3>2, <3>3
  <2> HIDE DEF g
  <2>7. Upto(m)
    BY <2>4, <2>5, <2>6
  <2> QED
    BY <2>7
<1> HIDE DEF P
<1>3. 0 .. n \subseteq P
  BY <1>1, <1>2, UpTo
<1>4. n \in P
  BY <1>3
<1>5. Upto(n)
  BY <1>4 DEF P
<1> QED
  BY <1>5 DEF IsLoop
=============================================================================
