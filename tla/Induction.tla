----------------------------- MODULE Induction ------------------------------
(***************************************************************************)
(* Induction over the natural numbers for the proof modules, in a form the *)
(* provers can instantiate: what is shown of every number is that it is a  *)
(* member of a set.  And what a function defined by recursion on its       *)
(* argument needs: that there is one, and that it is the only one.         *)
(***************************************************************************)
EXTENDS Integers, WellFoundedInduction, TLAPS

\* A set of natural numbers that has an element has a least one.
LEMMA Least ==
  ASSUME NEW T, T \subseteq Nat, T # {}
  PROVE  \E x \in T : \A y \in T : x <= y
<1> DEFINE R == OpToRel(<, Nat)
<1>1. IsWellFoundedOn(R, Nat)
  BY NatLessThanWellFounded, Zenon
<1>2. \A x, y \in Nat : y < x => <<y, x>> \in R
  BY DEF OpToRel
<1> HIDE DEF R
<1>3. PICK x \in T : \A y \in T : ~(<<y, x>> \in R)
  BY <1>1, WFMin, Zenon
<1>4. \A y \in T : ~(y < x)
  BY <1>2, <1>3, Zenon
<1>5. QED
  BY <1>4

\* A set of numbers up to hi that has an element has a greatest one.
LEMMA Greatest ==
  ASSUME NEW hi \in Nat, NEW T, T \subseteq 0..hi, T # {}
  PROVE  \E x \in T : \A y \in T : y <= x
<1> DEFINE U == {k \in Nat : hi - k \in T}
<1>1. U \subseteq Nat /\ \A y \in T : y \in 0..hi
  OBVIOUS
<1>2. ASSUME NEW y \in T PROVE hi - y \in U
  <2>1. hi - y \in Nat /\ hi - (hi - y) = y
    BY <1>1
  <2>2. QED
    BY <2>1
<1>3. U # {}
  BY <1>2, Zenon
<1>4. PICK k \in U : \A j \in U : k <= j
  <2> HIDE DEF U
  <2>1. QED
    BY <1>1, <1>3, Least, Zenon
<1>5. hi - k \in T /\ k \in Nat
  OBVIOUS
<1>6. ASSUME NEW y \in T PROVE y <= hi - k
  <2>1. k <= hi - y /\ y \in Int
    <3> HIDE DEF U
    <3>1. QED
      BY <1>1, <1>2, <1>4
  <2>2. QED
    BY <1>5, <2>1
<1>7. QED
  BY <1>5, <1>6

\* A set with zero and the successor of each of its numbers holds them all.
LEMMA Inductive ==
  ASSUME NEW P, 0 \in P, \A k \in Nat : k \in P => k + 1 \in P
  PROVE  \A k \in Nat : k \in P
<1> DEFINE T == {k \in Nat : k \notin P}
<1>1. SUFFICES T = {}
  OBVIOUS
<1>2. SUFFICES ASSUME T # {} PROVE FALSE
  OBVIOUS
<1>3. T \subseteq Nat
  OBVIOUS
<1>4. PICK x \in T : \A y \in T : x <= y
  <2> HIDE DEF T
  <2>1. QED
    BY <1>2, <1>3, Least, Zenon
<1>5. x \in Nat /\ x \notin P /\ x # 0
  OBVIOUS
<1>6. x - 1 \in Nat /\ x - 1 \notin T
  BY <1>4, <1>5
<1>7. x - 1 \in P
  BY <1>6
<1>8. x - 1 + 1 = x
  BY <1>5
<1>9. QED
  BY <1>5, <1>6, <1>7, <1>8

\* The same, with every smaller number at hand.
LEMMA Complete ==
  ASSUME NEW P, \A k \in Nat : (\A j \in 0..(k - 1) : j \in P) => k \in P
  PROVE  \A k \in Nat : k \in P
<1> DEFINE T == {k \in Nat : k \notin P}
<1>1. SUFFICES ASSUME T # {} PROVE FALSE
  OBVIOUS
<1>2. T \subseteq Nat
  OBVIOUS
<1>3. PICK x \in T : \A y \in T : x <= y
  <2> HIDE DEF T
  <2>1. QED
    BY <1>1, <1>2, Least, Zenon
<1>4. x \in Nat /\ x \notin P
  OBVIOUS
<1>5. ASSUME NEW j \in 0..(x - 1) PROVE j \in P
  BY <1>3, <1>4
<1>6. QED
  BY <1>4, <1>5

\* What holds at lo and passes from each number to the next holds up to hi.
LEMMA UpTo ==
  ASSUME NEW lo \in Int, NEW hi \in Int, NEW P, lo \in P,
         \A i \in (lo + 1)..hi : i - 1 \in P => i \in P
  PROVE  \A i \in lo..hi : i \in P
<1> DEFINE Q == {k \in Nat : lo + k <= hi => lo + k \in P}
<1>1. 0 \in Q
  OBVIOUS
<1>2. ASSUME NEW k \in Nat, k \in Q PROVE k + 1 \in Q
  <2>1. CASE lo + (k + 1) <= hi
    <3>1. lo + k \in P /\ lo + (k + 1) \in (lo + 1)..hi
      BY <1>2, <2>1
    <3>2. lo + (k + 1) - 1 = lo + k
      OBVIOUS
    <3>3. lo + (k + 1) \in P
      BY <3>1, <3>2
    <3>4. QED
      BY <3>3
  <2>2. QED
    BY <2>1
<1>3. \A k \in Nat : k \in Q
  <2> HIDE DEF Q
  <2>1. QED
    BY <1>1, <1>2, Inductive, Zenon
<1>4. ASSUME NEW i \in lo..hi PROVE i \in P
  <2>1. i - lo \in Nat /\ lo + (i - lo) = i /\ i <= hi
    OBVIOUS
  <2>2. i - lo \in Q
    BY <1>3, <2>1, Zenon
  <2>3. QED
    BY <2>1, <2>2
<1>5. QED
  BY <1>4

\* f and g agree at lo, and at a number if they do at the one before.
Alike(f, g, lo, hi) ==
  f[lo] = g[lo] /\ \A i \in (lo + 1)..hi : f[i - 1] = g[i - 1] => f[i] = g[i]

LEMMA Agree ==
  ASSUME NEW lo \in Int, NEW hi \in Int, NEW f, NEW g, Alike(f, g, lo, hi)
  PROVE  \A i \in lo..hi : f[i] = g[i]
<1> DEFINE P == {i \in Int : f[i] = g[i]}
<1>1. lo \in P /\ \A i \in (lo + 1)..hi : i - 1 \in P => i \in P
  BY DEF Alike
<1>2. \A i \in lo..hi : i \in P
  <2> HIDE DEF P
  <2>1. QED
    BY <1>1, UpTo, Zenon
<1>3. QED
  BY <1>2

\* The same when they agree at a number if they do at all below it.
AlikeBelow(f, g, hi) ==
  \A i \in 0..hi : (\A j \in 0..(i - 1) : f[j] = g[j]) => f[i] = g[i]

LEMMA AgreeBelow ==
  ASSUME NEW hi \in Nat, NEW f, NEW g, AlikeBelow(f, g, hi)
  PROVE  \A i \in 0..hi : f[i] = g[i]
<1> DEFINE P == {i \in Nat : i <= hi => f[i] = g[i]}
<1>1. ASSUME NEW k \in Nat, \A j \in 0..(k - 1) : j \in P PROVE k \in P
  <2>1. CASE k <= hi
    <3>1. k \in 0..hi /\ \A j \in 0..(k - 1) : j \in P /\ j <= hi
      BY <1>1, <2>1
    <3>2. \A j \in 0..(k - 1) : f[j] = g[j]
      BY <3>1
    <3>3. f[k] = g[k]
      BY <3>1, <3>2 DEF AlikeBelow
    <3>4. QED
      BY <3>3
  <2>2. QED
    BY <2>1
<1>2. \A k \in Nat : k \in P
  <2> HIDE DEF P
  <2>1. QED
    BY <1>1, Complete, Zenon
<1>3. \A i \in 0..hi : i \in P /\ i <= hi
  BY <1>2
<1>4. QED
  BY <1>3

\* A function whose values stay in S from each number to the next.
LEMMA Values ==
  ASSUME NEW lo \in Int, NEW hi \in Int, NEW f, NEW S, f[lo] \in S,
         \A i \in (lo + 1)..hi : f[i - 1] \in S => f[i] \in S
  PROVE  \A i \in lo..hi : f[i] \in S
<1> DEFINE P == {i \in Int : f[i] \in S}
<1>1. lo \in P /\ \A i \in (lo + 1)..hi : i - 1 \in P => i \in P
  OBVIOUS
<1>2. \A i \in lo..hi : i \in P
  <2> HIDE DEF P
  <2>1. QED
    BY <1>1, UpTo, Zenon
<1>3. QED
  BY <1>2

\* f is a at lo and, at every later i up to hi, step[i] of its value at prev[i].
Follows(f, lo, hi, a, prev, step) ==
  f[lo] = a /\ \A i \in (lo + 1)..hi : f[i] = step[i][f[prev[i]]]

\* There is a function defined by recursion on an interval.
LEMMA Recursion ==
  ASSUME NEW lo \in Int, NEW hi \in Int, lo <= hi, NEW S, NEW a \in S, NEW prev, NEW step,
         \A i \in (lo + 1)..hi : prev[i] \in lo..(i - 1) /\ \A x \in S : step[i][x] \in S
  PROVE  \E f \in [lo..hi -> S] : Follows(f, lo, hi, a, prev, step)
<1> DEFINE F(k) == \E f \in [lo..k -> S] : Follows(f, lo, k, a, prev, step)
           P == {k \in Int : F(k)}
<1>1. lo \in P
  <2> DEFINE f == [i \in lo..lo |-> a]
  <2>1. f \in [lo..lo -> S] /\ Follows(f, lo, lo, a, prev, step)
    BY DEF Follows
  <2> HIDE DEF f
  <2>2. QED
    BY <2>1
<1>2. ASSUME NEW i \in (lo + 1)..hi, i - 1 \in P PROVE i \in P
  <2>1. F(i - 1)
    BY <1>2
  <2>2. PICK f \in [lo..(i - 1) -> S] : Follows(f, lo, i - 1, a, prev, step)
    BY <2>1
  <2> DEFINE x == step[i][f[prev[i]]]
             g == [j \in lo..i |-> IF j = i THEN x ELSE f[j]]
  <2>3. prev[i] \in lo..(i - 1) /\ f[prev[i]] \in S
    OBVIOUS
  <2>4. x \in S
    BY <2>3
  <2>5. g \in [lo..i -> S]
    <3> HIDE DEF x
    <3>1. QED
      BY <2>4
  <2>6. g[i] = x /\ \A j \in lo..(i - 1) : g[j] = f[j]
    <3> HIDE DEF x
    <3>1. QED
      OBVIOUS
  <2> HIDE DEF g
  <2>7. /\ lo \in lo..(i - 1)
        /\ \A j \in (lo + 1)..i : j = i \/ j \in (lo + 1)..(i - 1)
        /\ \A j \in (lo + 1)..(i - 1) : j \in lo..(i - 1) /\ prev[j] \in lo..(i - 1)
    <3>1. ASSUME NEW j \in (lo + 1)..(i - 1) PROVE j \in lo..(i - 1) /\ prev[j] \in lo..(i - 1)
      <4>1. j \in (lo + 1)..hi /\ j \in lo..(i - 1)
        OBVIOUS
      <4>2. prev[j] \in lo..(j - 1)
        BY <4>1
      <4>3. QED
        BY <4>1, <4>2
    <3>2. QED
      BY <3>1
  <2>8. g[lo] = a /\ \A j \in (lo + 1)..(i - 1) : g[j] = step[j][g[prev[j]]]
    BY <2>2, <2>6, <2>7, Zenon DEF Follows
  <2>9. \A j \in (lo + 1)..i : g[j] = step[j][g[prev[j]]]
    BY <2>3, <2>6, <2>7, <2>8, Zenon
  <2>10. F(i)
    BY <2>5, <2>8, <2>9, Zenon DEF Follows
  <2>11. i \in Int
    OBVIOUS
  <2> HIDE DEF F
  <2>12. QED
    BY <2>10, <2>11
<1>3. \A i \in lo..hi : i \in P
  <2> HIDE DEF P
  <2>1. QED
    BY <1>1, <1>2, UpTo, Zenon
<1>4. hi \in P
  BY <1>3
<1> HIDE DEF F
<1>5. F(hi)
  BY <1>4
<1>6. QED
  BY <1>5 DEF F
=============================================================================
