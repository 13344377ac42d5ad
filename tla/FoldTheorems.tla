---------------------------- MODULE FoldTheorems ----------------------------
(***************************************************************************)
(* Induction over the naturals, and what FoldLeft computes, in a form the  *)
(* provers can use.  Step is the operator that is folded; p and q stand for*)
(* what its definition takes from its context, so that one INSTANCE serves *)
(* all values of them.                                                     *)
(***************************************************************************)
EXTENDS Integers, Sequences, SequencesExt, WellFoundedInduction, TLAPS

CONSTANT Step(_, _, _, _)

(* The recursive function that defines a fold, on the subsets of 1 .. n.   *)
Recursion(iter, base, seq, p, q, n) ==
  iter = [s \in SUBSET (1 .. n) |->
            IF s = {} THEN base
            ELSE Step(iter[s \ {Max(s)}], seq[Max(s)], p, q)]

(* FoldLeft(LAMBDA acc, x : Step(acc, x, p, q), base, seq), expanded.      *)
Folded(base, seq, p, q) ==
  (CHOOSE iter :
     iter = [s \in SUBSET (DOMAIN seq) |->
               IF s = {} THEN base
               ELSE Step(iter[s \ {Max(s)}], seq[Max(s)], p, q)])[DOMAIN seq]

(* h[k] is what the fold has computed after k elements.                    *)
IsHistory(h, base, seq, p, q) ==
  /\ h[0] = base
  /\ \A k \in 1 .. Len(seq) : h[k] = Step(h[k - 1], seq[k], p, q)

-----------------------------------------------------------------------------
(* A nonempty set of natural numbers has a least element.                  *)
LEMMA LeastNatural ==
  ASSUME NEW T \in SUBSET Nat, T # {}
  PROVE  \E x \in T : \A y \in T : x <= y
<1> DEFINE R == OpToRel(<, Nat)
<1>1. IsWellFoundedOn(R, Nat)
  BY NatLessThanWellFounded, Zenon
<1>2. \A x, y \in Nat : y < x => <<y, x>> \in R
  BY Zenon DEF OpToRel
<1> HIDE DEF R
<1>3. PICK x \in T : \A y \in T : ~(<<y, x>> \in R)
  BY <1>1, WFMin
<1>4. \A y \in T : ~(y < x)
  BY <1>2, <1>3
<1> QED BY <1>4

(* Induction: a set with 0 that has the successors of its elements below n *)
(* has all numbers up to n.                                                *)
LEMMA Induction ==
  ASSUME NEW n \in Nat, NEW S, 0 \in S,
         \A k \in 0 .. n - 1 : k \in S => k + 1 \in S
  PROVE  0 .. n \subseteq S
<1> SUFFICES ASSUME (0 .. n) \ S # {} PROVE FALSE
  OBVIOUS
<1>1. PICK x \in (0 .. n) \ S : \A y \in (0 .. n) \ S : x <= y
  <2>1. (0 .. n) \ S \in SUBSET Nat
    OBVIOUS
  <2> QED BY <2>1, LeastNatural
<1>2. x # 0 /\ x - 1 \in 0 .. n - 1 /\ x - 1 \in S
  BY <1>1
<1> QED BY <1>1, <1>2

(* A set of numbers up to m + 1 that has m + 1 has it for its maximum.     *)
LEMMA MaxOfPrefix ==
  ASSUME NEW m \in Nat, NEW s \in SUBSET (1 .. m + 1), m + 1 \in s
  PROVE  Max(s) = m + 1
<1>1. \A y \in s : m + 1 >= y
  OBVIOUS
<1>2. \A x \in s : (\A y \in s : x >= y) => x = m + 1
  OBVIOUS
<1> QED BY <1>1, <1>2, Zenon DEF Max

(* The equation that defines a fold has a solution.                        *)
LEMMA RecursionExists ==
  ASSUME NEW base, NEW seq, NEW p, NEW q, NEW n \in Nat
  PROVE  \E iter : Recursion(iter, base, seq, p, q, n)
<1> DEFINE S == {m \in Nat : \E iter : Recursion(iter, base, seq, p, q, m)}
<1>1. 0 \in S
  <2> DEFINE g == [s \in SUBSET (1 .. 0) |-> base]
  <2>1. \A s \in SUBSET (1 .. 0) : s = {}
    OBVIOUS
  <2>2. Recursion(g, base, seq, p, q, 0)
    BY <2>1, Zenon DEF Recursion
  <2> QED BY <2>2
<1>2. ASSUME NEW m \in Nat, m \in S
      PROVE  m + 1 \in S
  <2>1. PICK g : Recursion(g, base, seq, p, q, m)
    BY <1>2
  <2> DEFINE Value(iter, s) ==
               IF s = {} THEN base
               ELSE Step(iter[s \ {Max(s)}], seq[Max(s)], p, q)
             h == [s \in SUBSET (1 .. m + 1) |->
                     IF m + 1 \in s
                     THEN Step(g[s \ {m + 1}], seq[m + 1], p, q)
                     ELSE g[s]]
  <2>2. ASSUME NEW s \in SUBSET (1 .. m + 1)
        PROVE  h[s] = Value(h, s)
    <3>1. CASE m + 1 \in s
      <4>1. Max(s) = m + 1
        BY <3>1, MaxOfPrefix
      <4>2. s \ {m + 1} \in SUBSET (1 .. m + 1) /\ m + 1 \notin s \ {m + 1}
        OBVIOUS
      <4>3. h[s \ {m + 1}] = g[s \ {m + 1}]
        BY <4>2, Zenon
      <4>4. h[s] = Step(g[s \ {m + 1}], seq[m + 1], p, q)
        BY <3>1, Zenon
      <4> HIDE DEF h
      <4> QED BY <3>1, <4>1, <4>3, <4>4, Zenon
    <3>2. CASE m + 1 \notin s
      <4>1. s \in SUBSET (1 .. m)
        BY <3>2
      <4>2. s \ {Max(s)} \in SUBSET (1 .. m + 1) /\ m + 1 \notin s \ {Max(s)}
        BY <3>2
      <4>3. h[s] = g[s] /\ h[s \ {Max(s)}] = g[s \ {Max(s)}]
        BY <3>2, <4>2, Zenon
      <4>4. g[s] = Value(g, s)
        <5>1. g = [t \in SUBSET (1 .. m) |-> Value(g, t)]
          BY <2>1, Zenon DEF Recursion
        <5> HIDE DEF Value
        <5> QED BY <4>1, <5>1
      <4> HIDE DEF h
      <4> QED BY <4>3, <4>4, Zenon
    <3> QED BY <3>1, <3>2, Zenon
  <2>3. h = [s \in SUBSET (1 .. m + 1) |-> h[s]]
    BY Zenon
  <2>4. Recursion(h, base, seq, p, q, m + 1)
    <3> HIDE DEF h
    <3> QED BY <2>2, <2>3, Zenon DEF Recursion
  <2> QED BY <2>4
<1>3. 0 .. n \subseteq S
  <2> HIDE DEF S
  <2> QED BY <1>1, <1>2, Induction
<1> QED BY <1>3

(* A fold computes what it says: there is a history that starts with base, *)
(* takes one element after the other and ends with the result.             *)
LEMMA FoldHistory ==
  ASSUME NEW base, NEW seq, NEW p, NEW q,
         Len(seq) \in Nat, DOMAIN seq = 1 .. Len(seq)
  PROVE  \E h : /\ IsHistory(h, base, seq, p, q)
                /\ Folded(base, seq, p, q) = h[Len(seq)]
<1> DEFINE n == Len(seq)
           Value(iter, s) ==
             IF s = {} THEN base
             ELSE Step(iter[s \ {Max(s)}], seq[Max(s)], p, q)
           iter == CHOOSE iter : Recursion(iter, base, seq, p, q, n)
           h == [k \in 0 .. n |-> iter[1 .. k]]
<1>1. Folded(base, seq, p, q) = iter[1 .. n]
  BY Zenon DEF Folded, Recursion
<1>2. Recursion(iter, base, seq, p, q, n)
  BY RecursionExists, Zenon
<1> HIDE DEF iter, n
<1> USE DEF n
<1>3. \A s \in SUBSET (1 .. n) : iter[s] = Value(iter, s)
  <2>1. iter = [t \in SUBSET (1 .. n) |-> Value(iter, t)]
    BY <1>2, Zenon DEF Recursion
  <2> HIDE DEF Value
  <2> QED BY <2>1
<1>4. h[0] = base
  <2>1. 1 .. 0 = {} /\ {} \in SUBSET (1 .. n) /\ 0 \in 0 .. n
    OBVIOUS
  <2> QED BY <1>3, <2>1, Zenon
<1>5. ASSUME NEW k \in 1 .. n
      PROVE  h[k] = Step(h[k - 1], seq[k], p, q)
  <2>1. k - 1 \in Nat /\ k = (k - 1) + 1 /\ k \in 1 .. k
    OBVIOUS
  <2>2. Max(1 .. k) = k
    BY <2>1, MaxOfPrefix
  <2>3. /\ (1 .. k) \ {k} = 1 .. k - 1
        /\ 1 .. k \in SUBSET (1 .. n) /\ 1 .. k # {}
        /\ k \in 0 .. n /\ k - 1 \in 0 .. n
    OBVIOUS
  <2>4. iter[1 .. k] = Step(iter[1 .. k - 1], seq[k], p, q)
    BY <1>3, <2>2, <2>3, Zenon
  <2> QED BY <2>3, <2>4, Zenon
<1>6. h[n] = Folded(base, seq, p, q)
  BY <1>1, n \in 0 .. n, Zenon
<1> HIDE DEF h
<1> QED BY <1>4, <1>5, <1>6, Zenon DEF IsHistory
=============================================================================
