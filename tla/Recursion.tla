----------------------------- MODULE Recursion -----------------------------
(***************************************************************************)
(* Functions defined by recursion over values of bounded depth, and        *)
(* induction over the depth.  The domain grows with the depth: D(n) are    *)
(* the values of depth n at most, and the value of the function at one of  *)
(* D(n + 1) depends on its values in D(n) only.  An instance of this       *)
(* module gives N, D and Step what they are for one function.              *)
(***************************************************************************)
EXTENDS Integers, WellFoundedInduction, TLAPS

CONSTANTS
  N,          \* the depth
  D(_),       \* the values of a depth
  Step(_, _)  \* the value at one of them, by the function so far

-----------------------------------------------------------------------------
(* Every set of natural numbers that is not empty has a least element.     *)
LEMMA Least ==
  ASSUME NEW T, T \subseteq Nat, T # {}
  PROVE  \E n \in T : \A m \in T : n <= m
<1> DEFINE R == OpToRel(<, Nat)
<1>1. IsWellFoundedOn(R, Nat)
  BY NatLessThanWellFounded
<1> HIDE DEF R
<1>2. PICK n \in T : \A m \in T : ~(<<m, n>> \in R)
  BY <1>1, WFMin
<1>3. \A m \in T : m < n => <<m, n>> \in R
  BY DEF R, OpToRel
<1>4. ASSUME NEW m \in T PROVE n <= m
  <2>1. n \in Nat /\ m \in Nat
    OBVIOUS
  <2>2. ~(m < n)
    BY <1>2, <1>3
  <2> QED BY <2>1, <2>2
<1> QED BY <1>2, <1>4

(* Induction up to a bound.                                                *)
LEMMA UpTo ==
  ASSUME NEW n \in Nat, NEW S, 0 \in S,
         \A i \in 0..(n - 1) : i \in S => i + 1 \in S
  PROVE  \A i \in 0..n : i \in S
<1> DEFINE T == (0..n) \ S
<1>1. SUFFICES ASSUME T # {} PROVE FALSE
  OBVIOUS
<1>2. PICK i \in T : \A j \in T : i <= j
  <2>1. T \subseteq Nat
    OBVIOUS
  <2> HIDE DEF T
  <2> QED BY <1>1, <2>1, Least
<1>3. i - 1 \in 0..(n - 1) /\ ~(i <= i - 1)
  OBVIOUS
<1>4. i - 1 \in S
  BY <1>2, <1>3
<1>5. (i - 1) + 1 \in S
  BY <1>3, <1>4
<1> QED BY <1>5

(* There is a function with the value Step gives it at every place.        *)
THEOREM Exists ==
  ASSUME N \in Nat, D(0) = {},
         \A n \in 0..(N - 1) : D(n) \subseteq D(n + 1),
         \A n \in 0..(N - 1) : \A g, h :
           (\A x \in D(n) : g[x] = h[x]) =>
           \A x \in D(n + 1) : Step(g, x) = Step(h, x)
  PROVE  \E f : f = [x \in D(N) |-> Step(f, x)]
<1> DEFINE S == {n \in 0..N : \E f : f = [x \in D(n) |-> Step(f, x)]}
<1>1. 0 \in S
  <2> DEFINE f == [x \in {} |-> 0]
  <2>1. f = [x \in D(0) |-> Step(f, x)]
    OBVIOUS
  <2> HIDE DEF f
  <2> QED BY <2>1
<1>2. ASSUME NEW n \in 0..(N - 1), n \in S PROVE n + 1 \in S
  <2>1. PICK g : g = [x \in D(n) |-> Step(g, x)]
    BY <1>2
  <2> DEFINE h == [x \in D(n + 1) |-> Step(g, x)]
  <2>2. \A x \in D(n) : g[x] = h[x]
    <3>1. \A x \in D(n) : g[x] = Step(g, x)
      BY <2>1
    <3> QED BY <3>1
  <2>3. \A x \in D(n + 1) : h[x] = Step(g, x)
    OBVIOUS
  <2>4. h = [x \in D(n + 1) |-> h[x]]
    OBVIOUS
  <2> HIDE DEF h
  <2>5. \A x \in D(n + 1) : Step(g, x) = Step(h, x)
    BY <2>2
  <2>6. h = [x \in D(n + 1) |-> Step(h, x)]
    BY <2>3, <2>4, <2>5
  <2> QED BY <2>6
<1> HIDE DEF S
<1>3. N \in S
  BY <1>1, <1>2, UpTo
<1> QED BY <1>3 DEF S
=============================================================================
