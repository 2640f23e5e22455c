------------------------------- MODULE Scans -------------------------------
(***************************************************************************)
(* Induction over the natural numbers, stated with a set of numbers, and   *)
(* what it says of the functions that scan a sequence: one defined at n    *)
(* from its value at n-1 exists.  The proofs about the functions of this   *)
(* kind that model a loop, a reduce or a filter of the code rest on it.    *)
(***************************************************************************)
EXTENDS Naturals, Sequences, Functions, WellFoundedInduction, TLAPS

\* Less-than on the natural numbers is well founded.
LEMMA LessThanIsWellFounded == IsWellFoundedOn({p \in Nat \X Nat : p[1] < p[2]}, Nat)
BY NatLessThanWellFounded DEF OpToRel

\* A set that holds 0 and the successor of each of its numbers holds every natural number: a
\* smallest number outside it would have a predecessor inside.
LEMMA SetInduction ==
  ASSUME NEW T, 0 \in T, \A n \in Nat : n \in T => n + 1 \in T
  PROVE  Nat \subseteq T
<1> DEFINE R == {p \in Nat \X Nat : p[1] < p[2]}
           Missing == Nat \ T
<1> SUFFICES ASSUME Missing # {} PROVE FALSE
  OBVIOUS
<1>1. PICK x \in Missing : \A y \in Missing : <<y, x>> \notin R
  <2>1. IsWellFoundedOn(R, Nat)
    BY LessThanIsWellFounded
  <2>2. Missing \subseteq Nat
    OBVIOUS
  <2> HIDE DEF R, Missing
  <2> QED BY <2>1, <2>2, WFMin
<1>2. x \in Nat \ {0}
  OBVIOUS
<1>3. x - 1 \in Nat /\ (x - 1) + 1 = x
  BY <1>2
<1>4. x - 1 \in Missing
  BY <1>3
<1>5. <<x - 1, x>> \in R
  BY <1>2, <1>3
<1> QED BY <1>1, <1>4, <1>5

\* The same on an interval.
LEMMA IntervalInduction ==
  ASSUME NEW N \in Nat, NEW T, 0 \in T, \A n \in 0..N - 1 : n \in T => n + 1 \in T
  PROVE  0..N \subseteq T
<1> DEFINE S == {n \in Nat : n <= N => n \in T}
<1>1. 0 \in S /\ \A n \in Nat : n \in S => n + 1 \in S
  OBVIOUS
<1>2. Nat \subseteq S
  <2> HIDE DEF S
  <2> QED BY <1>1, SetInduction
<1> QED BY <1>2

\* The functions that take the value at n-1 and n to the value at n, of the scans over 1..N with
\* values in V.
StepFunctions(V, N) == [V \X (1..N) -> V]

\* f starts with base and goes from its value at n-1 to its value at n with step.
IsScan(f, V, N, base, step) ==
  /\ f \in [0..N -> V]
  /\ f[0] = base
  /\ \A n \in 1..N : f[n] = step[<<f[n-1], n>>]

\* Every scan exists.
LEMMA ScanExists ==
  ASSUME NEW V, NEW N \in Nat, NEW base \in V, NEW step \in StepFunctions(V, N)
  PROVE  \E f : IsScan(f, V, N, base, step)
<1> DEFINE Scans(k) == k <= N => \E f \in [0..k -> V] :
                                   f[0] = base /\ \A n \in 1..k : f[n] = step[<<f[n-1], n>>]
           T == {k \in Nat : Scans(k)}
<1>1. 0 \in T
  <2> DEFINE f == [n \in 0..0 |-> base]
  <2>1. f \in [0..0 -> V] /\ f[0] = base
    OBVIOUS
  <2>2. \A n \in 1..0 : f[n] = step[<<f[n-1], n>>]
    OBVIOUS
  <2> HIDE DEF f
  <2> QED BY <2>1, <2>2
<1>2. ASSUME NEW k \in Nat, k \in T PROVE k + 1 \in T
  <2> SUFFICES ASSUME k + 1 <= N PROVE Scans(k + 1)
    OBVIOUS
  <2>1. PICK f \in [0..k -> V] : f[0] = base /\ \A n \in 1..k : f[n] = step[<<f[n-1], n>>]
    BY <1>2
  <2> DEFINE g == [n \in 0..k + 1 |-> IF n = k + 1 THEN step[<<f[k], k + 1>>] ELSE f[n]]
  <2>2. g \in [0..k + 1 -> V]
    <3>1. step[<<f[k], k + 1>>] \in V
      BY DEF StepFunctions
    <3> QED BY <3>1
  <2>3. g[0] = base
    BY <2>1
  <2>4. ASSUME NEW n \in 1..k + 1 PROVE g[n] = step[<<g[n-1], n>>]
    <3>1. g[n-1] = f[n-1]
      OBVIOUS
    <3>2. CASE n = k + 1
      BY <3>1, <3>2
    <3>3. CASE n \in 1..k
      <4>1. g[n] = f[n] /\ f[n] = step[<<f[n-1], n>>]
        BY <2>1, <3>3
      <4> HIDE DEF g
      <4> QED BY <3>1, <4>1
    <3> QED BY <3>2, <3>3
  <2> HIDE DEF g
  <2> QED BY <2>2, <2>3, <2>4
<1>3. N \in T
  <2> HIDE DEF T
  <2> QED BY <1>1, <1>2, SetInduction
<1> QED BY <1>3 DEF IsScan
\* An element added to a sequence is added to its elements.
LEMMA RangeOfAppend ==
  ASSUME NEW S, NEW s \in Seq(S), NEW e \in S
  PROVE  Append(s, e) \in Seq(S) /\ Range(Append(s, e)) = Range(s) \cup {e}
<1>1. Append(s, e) \in Seq(S)
  OBVIOUS
<1>2. Len(s) \in Nat /\ DOMAIN s = 1..Len(s) /\ DOMAIN Append(s, e) = 1..Len(s) + 1
  OBVIOUS
<1>3. Append(s, e)[Len(s) + 1] = e /\ \A i \in 1..Len(s) : Append(s, e)[i] = s[i]
  OBVIOUS
<1>4. {Append(s, e)[i] : i \in 1..Len(s) + 1} = {s[i] : i \in 1..Len(s)} \cup {e}
  BY <1>2, <1>3
<1> QED BY <1>1, <1>2, <1>4 DEF Range
=============================================================================
