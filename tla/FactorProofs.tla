---------------------------- MODULE FactorProofs ----------------------------
(***************************************************************************)
(* factor(6) for every table that is an initial part of the primes, every  *)
(* width of a word, whatever lies behind the table and all inputs: what a  *)
(* line holds, that it multiplies out to the number and can be read back,  *)
(* and how far behind its end the table is read.                           *)
(***************************************************************************)
EXTENDS Factor, Induction, TLAPS

-----------------------------------------------------------------------------
(* Divisors. *)

\* Dividing by a divisor leaves nothing over.
LEMMA Exact ==
  ASSUME NEW a \in Nat, NEW b \in Nat \ {0}, a % b = 0
  PROVE  a \div b \in Nat /\ a = b * (a \div b)
OBVIOUS

\* A multiple of a number is divided by it.
LEMMA Multiple ==
  ASSUME NEW q \in Nat, NEW b \in Nat \ {0}
  PROVE  (b * q) % b = 0
OBVIOUS

LEMMA Assoc ==
  ASSUME NEW a \in Nat, NEW b \in Nat, NEW c \in Nat
  PROVE  (a * b) * c = a * (b * c) /\ a * b \in Nat
OBVIOUS

\* A divisor of a divisor is a divisor.
LEMMA Transitive ==
  ASSUME NEW a \in Nat, NEW b \in Nat \ {0}, NEW c \in Nat \ {0},
         a % b = 0, b % c = 0
  PROVE  a % c = 0
<1> DEFINE q == a \div b
           r == b \div c
<1>1. q \in Nat /\ a = b * q
  BY Exact
<1>2. r \in Nat /\ b = c * r
  BY Exact
<1> HIDE DEF q, r
<1>3. a = c * (r * q) /\ r * q \in Nat
  BY <1>1, <1>2, Assoc
<1>4. QED
  BY <1>3, Multiple

\* The number that divides is not larger than the one divided.
LEMMA DivisorBelow ==
  ASSUME NEW a \in Nat \ {0}, NEW b \in Nat \ {0}, a % b = 0
  PROVE  b <= a
OBVIOUS

\* What is left of a word when a divisor above one has been divided out: it
\* is a smaller number, not zero, and it divides the word.
LEMMA Quotient ==
  ASSUME NEW a \in Nat \ {0}, NEW b \in Nat, b > 1, a % b = 0
  PROVE  /\ a \div b \in Nat \ {0} /\ a \div b < a
         /\ a % (a \div b) = 0 /\ a = b * (a \div b)
<1> DEFINE q == a \div b
<1>1. q \in Nat /\ a = b * q
  BY Exact
<1> HIDE DEF q
<1>2. q # 0
  BY <1>1
<1>3. q < b * q
  BY <1>1, <1>2
<1>4. a = q * b
  BY <1>1
<1>5. (q * b) % q = 0
  BY <1>1, <1>2, Multiple
<1>6. QED
  BY <1>1, <1>2, <1>3, <1>4, <1>5 DEF q

\* Every number above one has a least divisor above one, which is prime.
LEMMA PrimeDivisor ==
  ASSUME NEW k \in Nat, k > 1
  PROVE  \E d \in 2..k : IsPrime(d) /\ k % d = 0 /\ \A e \in 2..(d - 1) : k % e # 0
<1> DEFINE Divisor(d) == d > 1 /\ k % d = 0
           T == {d \in Nat : Divisor(d)}
<1>1. k % k = 0
  BY Multiple
<1>2. T \subseteq Nat /\ k \in T
  BY <1>1
<1>3. PICK d \in T : \A y \in T : d <= y
  <2> HIDE DEF T
  <2>1. QED
    BY <1>2, Least, Zenon
<1>4. d \in Nat /\ Divisor(d) /\ \A e \in Nat : Divisor(e) => d <= e
  <2> HIDE DEF Divisor
  <2>1. QED
    BY <1>3
<1> HIDE DEF T
<1>5. SUFFICES ASSUME NEW c \in Nat, Divisor(c), \A e \in Nat : Divisor(e) => c <= e
               PROVE  \E x \in 2..k : IsPrime(x) /\ k % x = 0 /\ \A e \in 2..(x - 1) : k % e # 0
  BY <1>4, Zenon
<1>6. c \in 2..k
  BY <1>1, <1>5
<1>7. ASSUME NEW e \in 2..(c - 1) PROVE e \in Nat \ {0} /\ k % e # 0
  BY <1>5, <1>7
<1>8. ASSUME NEW e \in 2..(c - 1) PROVE c % e # 0
  <2>1. e \in Nat \ {0} /\ k % e # 0
    BY <1>7, Zenon
  <2>2. c \in Nat \ {0} /\ k % c = 0
    BY <1>5
  <2>3. QED
    BY <2>1, <2>2, Transitive, Zenon
<1>9. c > 1 /\ k % c = 0
  BY <1>5
<1>10. IsPrime(c)
  BY <1>8, <1>9, Zenon DEF IsPrime
<1>11. \A e \in 2..(c - 1) : k % e # 0
  BY <1>7, Zenon
<1>12. QED
  BY <1>6, <1>9, <1>10, <1>11, Zenon

-----------------------------------------------------------------------------
(* The table. *)

LEMMA Table ==
  /\ prime \in Seq(Nat) /\ pr_limit \in Nat \ {0} /\ DOMAIN prime = 1..pr_limit
  /\ \A i \in 1..pr_limit : prime[i] \in Nat /\ prime[i] > 1 /\ prime[i] <= prime[pr_limit]
                            /\ IsPrime(prime[i])
  /\ \A i, j \in 1..pr_limit : i < j => prime[i] < prime[j]
  /\ \A k \in Nat : IsPrime(k) /\ k <= prime[pr_limit] => \E i \in 1..pr_limit : prime[i] = k
<1>1. pr_limit \in Nat \ {0} /\ DOMAIN prime = 1..pr_limit
  BY TableAssumption DEF pr_limit
<1>2. \A i \in 1..pr_limit : prime[i] \in Nat /\ prime[i] > 1
  BY TableAssumption DEF pr_limit
<1>3. prime \in Seq(Nat)
  BY TableAssumption
<1>4. \A i, j \in 1..pr_limit : i < j => prime[i] < prime[j]
  BY <1>1, TableAssumption, Zenon
<1>5. \A i \in 1..pr_limit : prime[i] <= prime[pr_limit]
  BY <1>1, <1>2, <1>4
<1>6. \A k \in 2..prime[pr_limit] :
        (\A d \in 2..(k - 1) : k % d # 0) <=> (\E i \in 1..pr_limit : prime[i] = k)
  <2>1. \A k \in 2..prime[pr_limit] :
          (\A d \in 2..(k - 1) : k % d # 0) <=> (\E i \in DOMAIN prime : prime[i] = k)
    BY TableAssumption, Zenon DEF pr_limit
  <2>2. QED
    BY <1>1, <2>1, Zenon
<1>7. ASSUME NEW i \in 1..pr_limit PROVE IsPrime(prime[i])
  <2>1. prime[i] \in 2..prime[pr_limit] /\ prime[i] > 1
    BY <1>1, <1>2, <1>5
  <2>2. \A d \in 2..(prime[i] - 1) : prime[i] % d # 0
    BY <1>6, <2>1, Zenon
  <2>3. QED
    BY <2>1, <2>2, Zenon DEF IsPrime
<1>8. ASSUME NEW k \in Nat, IsPrime(k), k <= prime[pr_limit]
      PROVE  \E i \in 1..pr_limit : prime[i] = k
  <2>1. k > 1 /\ \A d \in 2..(k - 1) : k % d # 0
    BY <1>8, Zenon DEF IsPrime
  <2>2. k \in 2..prime[pr_limit]
    BY <1>1, <1>2, <1>8, <2>1
  <2>3. QED
    BY <1>6, <2>1, <2>2, Zenon
<1>9. QED
  BY <1>1, <1>2, <1>3, <1>4, <1>5, <1>7, <1>8

\* No prime of the table divides v.
Coprime(v) == \A i \in 1..pr_limit : v % prime[i] # 0

\* A number that no prime of the table divides is larger than the table's
\* primes, and it is prime or larger than the square of the last one.
LEMMA RestLarge ==
  ASSUME NEW v \in Nat, v > 1, Coprime(v)
  PROVE  /\ v > prime[pr_limit]
         /\ IsPrime(v) \/ v > prime[pr_limit] * prime[pr_limit]
<1> DEFINE p == prime[pr_limit]
<1>1. p \in Nat
  BY Table
<1>2. PICK d \in 2..v : IsPrime(d) /\ v % d = 0 /\ \A e \in 2..(d - 1) : v % e # 0
  BY PrimeDivisor, Zenon
<1>3. d > p
  <2>1. d \in Nat
    OBVIOUS
  <2>2. ~(d <= p)
    BY <1>2, <2>1, Table, Zenon DEF Coprime
  <2>3. QED
    BY <1>1, <2>1, <2>2
<1> HIDE DEF p
<1>4. ASSUME ~IsPrime(v) PROVE v > p * p
  <2>1. d # v /\ d \in Nat /\ d > 1
    BY <1>2, <1>4
  <2> DEFINE q == v \div d
  <2>2. q \in Nat \ {0} /\ q < v /\ v % q = 0 /\ v = d * q
    BY <1>2, <2>1, Quotient
  <2> HIDE DEF q
  <2>3. q # 1
    BY <2>1, <2>2
  <2>4. q >= d
    BY <1>2, <2>1, <2>2, <2>3
  <2>5. d * q >= d * d /\ d * d > p * p
    BY <1>1, <1>3, <2>1, <2>2, <2>4
  <2>6. QED
    BY <1>1, <2>1, <2>2, <2>5
<1>5. QED
  BY <1>1, <1>2, <1>3, <1>4 DEF p
-----------------------------------------------------------------------------
(* Numbers written with digits. *)

Numerals == [plus : BOOLEAN, minus : BOOLEAN, prefix : BOOLEAN, digits : Seq(0..15)]

\* The values of the beginnings of a sequence of digits.
ValuesOf(v, digits, base) ==
  /\ v \in [0..Len(digits) -> Nat] /\ v[0] = 0
  /\ \A i \in 1..Len(digits) : v[i] = v[i - 1] * base + digits[i]

LEMMA ValueDefined ==
  ASSUME NEW digits \in Seq(Nat), NEW base \in Nat
  PROVE  \E v : ValuesOf(v, digits, base) /\ Value(digits, base) = v[Len(digits)]
<1> DEFINE m == Len(digits)
           H(v) == v = [i \in 0..m |-> IF i = 0 THEN 0 ELSE v[i - 1] * base + digits[i]]
           prev == [i \in 1..m |-> i - 1]
           step == [i \in 1..m |-> [x \in Nat |-> x * base + digits[i]]]
<1>1. m \in Nat /\ \A i \in 1..m : digits[i] \in Nat
  OBVIOUS
<1> HIDE DEF m
<1>2. \A i \in 1..m : prev[i] = i - 1 /\ prev[i] \in 0..(i - 1)
  BY <1>1
<1>3. \A i \in 1..m : \A x \in Nat : step[i][x] = x * base + digits[i] /\ step[i][x] \in Nat
  BY <1>1
<1> HIDE DEF prev, step
<1>4. PICK f \in [0..m -> Nat] : Follows(f, 0, m, 0, prev, step)
  <2>1. 0 + 1 = 1 /\ 0 \in Int /\ m \in Int /\ 0 <= m /\ 0 \in Nat
    BY <1>1
  <2>2. QED
    BY <1>2, <1>3, <2>1, Recursion, Zenon
<1>5. f[0] = 0 /\ \A i \in 1..m : f[i] = f[i - 1] * base + digits[i]
  <2>1. f[0] = 0 /\ \A i \in 1..m : f[i] = step[i][f[prev[i]]]
    BY <1>4 DEF Follows
  <2>2. \A i \in 1..m : f[i - 1] \in Nat
    BY <1>1
  <2>3. QED
    BY <1>2, <1>3, <2>1, <2>2, ZenonT(30)
<1>6. H(f)
  BY <1>5
<1> DEFINE v == CHOOSE x : H(x)
<1>7. H(v)
  <2> HIDE DEF H
  <2>1. QED
    BY <1>6, Zenon
<1>8. Value(digits, base) = v[m]
  BY Zenon DEF Value, m
<1> HIDE DEF v
<1>9. v[0] = 0 /\ \A i \in 1..m : v[i] = v[i - 1] * base + digits[i]
  BY <1>1, <1>7
<1>10. v = f
  <2>1. \A i \in 0..m : v[i] = f[i]
    <3>1. \A i \in (0 + 1)..m : v[i - 1] = f[i - 1] => v[i] = f[i]
      BY <1>5, <1>9
    <3>2. 0 \in Int /\ m \in Int /\ v[0] = f[0]
      BY <1>1, <1>5, <1>9
    <3>3. Alike(v, f, 0, m)
      BY <3>1, <3>2, Zenon DEF Alike
    <3>4. QED
      BY <3>2, <3>3, Agree
  <2>2. QED
    BY <1>7, <2>1
<1>11. QED
  BY <1>8, <1>9, <1>10, Zenon DEF ValuesOf, m

\* One digit more.
LEMMA ValueAppend ==
  ASSUME NEW s \in Seq(Nat), NEW base \in Nat, NEW x \in Nat
  PROVE  Value(Append(s, x), base) = Value(s, base) * base + x
<1> DEFINE m == Len(s)
           t == Append(s, x)
<1>1. /\ t \in Seq(Nat) /\ Len(t) = m + 1 /\ m \in Nat /\ t[m + 1] = x
      /\ \A i \in 1..m : t[i] = s[i]
  OBVIOUS
<1>2. PICK f : ValuesOf(f, s, base) /\ Value(s, base) = f[m]
  BY ValueDefined, Zenon
<1> HIDE DEF t
<1>3. PICK g : ValuesOf(g, t, base) /\ Value(t, base) = g[m + 1]
  BY <1>1, ValueDefined, Zenon
<1> HIDE DEF m
<1>4. /\ f[0] = 0 /\ g[0] = 0
      /\ \A i \in 1..m : f[i] = f[i - 1] * base + s[i]
      /\ \A i \in 1..(m + 1) : g[i] = g[i - 1] * base + t[i]
  BY <1>1, <1>2, <1>3, Zenon DEF ValuesOf, m
<1>5. \A i \in (0 + 1)..m : g[i - 1] = f[i - 1] => g[i] = f[i]
  <2>1. \A i \in (0 + 1)..m : i \in 1..m /\ i \in 1..(m + 1)
    BY <1>1
  <2>2. QED
    BY <1>1, <1>4, <2>1, Zenon
<1>6. \A i \in 0..m : g[i] = f[i]
  <2>1. 0 \in Int /\ m \in Int /\ g[0] = f[0]
    BY <1>1, <1>4
  <2>2. Alike(g, f, 0, m)
    BY <1>5, <2>1, Zenon DEF Alike
  <2>3. QED
    BY <2>1, <2>2, Agree
<1>7. m \in 0..m /\ m + 1 \in 1..(m + 1) /\ (m + 1) - 1 = m
  BY <1>1
<1>8. g[m + 1] = f[m] * base + x
  BY <1>1, <1>4, <1>6, <1>7, Zenon
<1>9. QED
  BY <1>2, <1>3, <1>8 DEF t

LEMMA ValueType ==
  ASSUME NEW s \in Seq(Nat), NEW base \in Nat
  PROVE  Value(s, base) \in Nat /\ Value(<<>>, base) = 0
<1>1. ASSUME NEW r \in Seq(Nat) PROVE Value(r, base) \in Nat /\ (Len(r) = 0 => Value(r, base) = 0)
  <2>1. PICK f : ValuesOf(f, r, base) /\ Value(r, base) = f[Len(r)]
    BY ValueDefined, Zenon
  <2>2. Len(r) \in 0..Len(r)
    OBVIOUS
  <2>3. QED
    BY <2>1, <2>2, Zenon DEF ValuesOf
<1>2. <<>> \in Seq(Nat) /\ Len(<<>>) = 0
  OBVIOUS
<1>3. QED
  BY <1>1, <1>2, Zenon

\* The digits of the numbers up to v.
DigitsOf(d, v, base) ==
  /\ d \in [0..v -> Seq(0..(base - 1))] /\ d[0] = <<>>
  /\ \A w \in 1..v : d[w] = Append(d[w \div base], w % base)

\* One digit less.
LEMMA Shorter ==
  ASSUME NEW w \in Nat \ {0}, NEW base \in Nat, base > 1
  PROVE  /\ w \div base \in 0..(w - 1) /\ w % base \in 0..(base - 1)
         /\ w = (w \div base) * base + (w % base)
OBVIOUS

LEMMA DigitsDefined ==
  ASSUME NEW m \in Nat, NEW base \in Nat, base > 1
  PROVE  \E d : DigitsOf(d, m, base) /\ Digits(m, base) = d[m]
<1> DEFINE S == Seq(0..(base - 1))
           G(d, w) == Append(d[w \div base], w % base)
           H(d) == d = [w \in 0..m |-> IF w = 0 THEN <<>> ELSE G(d, w)]
           prev == [w \in 1..m |-> w \div base]
           step == [w \in 1..m |-> [x \in S |-> Append(x, w % base)]]
<1>1. \A w \in 1..m : w \div base \in 0..(w - 1) /\ w % base \in 0..(base - 1)
  <2>1. \A w \in 1..m : w \in Nat \ {0}
    OBVIOUS
  <2>2. QED
    BY <2>1, Shorter, Zenon
<1>2. \A w \in 1..m : \A x \in S : Append(x, w % base) \in S
  BY <1>1
<1>3. <<>> \in S
  OBVIOUS
<1> HIDE DEF S
<1>4. \A w \in 1..m : prev[w] = w \div base /\ prev[w] \in 0..(w - 1)
  BY <1>1, Zenon
<1>5. \A w \in 1..m : \A x \in S : step[w][x] = Append(x, w % base) /\ step[w][x] \in S
  BY <1>2, Zenon
<1> HIDE DEF prev, step
<1>6. PICK f \in [0..m -> S] : Follows(f, 0, m, <<>>, prev, step)
  <2>1. 0 + 1 = 1 /\ 0 \in Int /\ m \in Int /\ 0 <= m
    OBVIOUS
  <2>2. QED
    BY <1>3, <1>4, <1>5, <2>1, Recursion, Zenon
<1>7. f[0] = <<>> /\ \A w \in 1..m : f[w] = G(f, w)
  <2>1. f[0] = <<>> /\ \A w \in 1..m : f[w] = step[w][f[prev[w]]]
    BY <1>6 DEF Follows
  <2>2. ASSUME NEW w \in 1..m PROVE f[w \div base] \in S
    <3> DEFINE u == w \div base
    <3>1. u \in 0..(w - 1)
      BY <1>1, Zenon
    <3> HIDE DEF u
    <3>2. f[u] \in S
      BY <3>1
    <3>3. QED
      BY <3>2 DEF u
  <2>3. QED
    BY <1>4, <1>5, <2>1, <2>2, Zenon
<1>8. H(f)
  <2> HIDE DEF G
  <2>1. QED
    BY <1>7
<1> DEFINE d == CHOOSE x : H(x)
<1>9. H(d)
  <2> HIDE DEF H
  <2>1. QED
    BY <1>8, Zenon
<1>10. Digits(m, base) = d[m]
  BY Zenon DEF Digits
<1> HIDE DEF d
<1>11. d[0] = <<>> /\ \A w \in 1..m : d[w] = G(d, w)
  <2> HIDE DEF G
  <2>1. QED
    BY <1>9
<1>12. d = f
  <2>1. ASSUME NEW i \in 0..m, \A j \in 0..(i - 1) : d[j] = f[j] PROVE d[i] = f[i]
    <3>1. CASE i = 0
      BY <1>7, <1>11, <3>1
    <3>2. CASE i # 0
      <4>1. i \in 1..m
        BY <3>2
      <4>2. d[i \div base] = f[i \div base]
        BY <1>1, <2>1, <4>1, Zenon
      <4>3. QED
        BY <1>7, <1>11, <4>1, <4>2, Zenon
    <3>3. QED
      BY <3>1, <3>2
  <2>2. AlikeBelow(d, f, m)
    BY <2>1, Zenon DEF AlikeBelow
  <2>3. \A i \in 0..m : d[i] = f[i]
    BY <2>2, AgreeBelow
  <2> HIDE DEF G
  <2>4. QED
    BY <1>9, <2>3
<1>13. QED
  BY <1>10, <1>11, <1>12, Zenon DEF DigitsOf, S

LEMMA DigitsStep ==
  ASSUME NEW m \in Nat \ {0}, NEW base \in Nat, base > 1
  PROVE  Digits(m, base) = Append(Digits(m \div base, base), m % base)
<1> DEFINE q == m \div base
<1>1. q \in Nat /\ q \in 0..(m - 1)
  <2>1. q \in 0..(m - 1)
    BY Shorter, Zenon
  <2> HIDE DEF q
  <2>2. QED
    BY <2>1
<1>2. PICK d : DigitsOf(d, m, base) /\ Digits(m, base) = d[m]
  BY DigitsDefined
<1> HIDE DEF q
<1>3. PICK f : DigitsOf(f, q, base) /\ Digits(q, base) = f[q]
  BY <1>1, DigitsDefined
<1>4. ASSUME NEW i \in 0..q, \A j \in 0..(i - 1) : d[j] = f[j] PROVE d[i] = f[i]
  <2>1. CASE i = 0
    BY <1>2, <1>3, <2>1 DEF DigitsOf
  <2>2. CASE i # 0
    <3>1. i \in 1..q /\ i \in 1..m /\ i \in Nat \ {0}
      BY <1>1, <2>2
    <3>2. i \div base \in 0..(i - 1)
      BY <3>1, Shorter, Zenon
    <3>3. d[i \div base] = f[i \div base]
      BY <1>4, <3>2, Zenon
    <3>4. d[i] = Append(d[i \div base], i % base) /\ f[i] = Append(f[i \div base], i % base)
      BY <1>2, <1>3, <3>1, Zenon DEF DigitsOf
    <3>5. QED
      BY <3>3, <3>4, Zenon
  <2>3. QED
    BY <2>1, <2>2
<1>5. AlikeBelow(d, f, q)
  BY <1>4, Zenon DEF AlikeBelow
<1>6. \A i \in 0..q : d[i] = f[i]
  BY <1>1, <1>5, AgreeBelow
<1>7. q \in 0..q /\ m \in 1..m
  BY <1>1
<1>8. d[m] = Append(d[q], m % base)
  BY <1>2, <1>7 DEF DigitsOf, q
<1>9. d[q] = f[q]
  BY <1>6, <1>7, Zenon
<1>10. QED
  BY <1>2, <1>3, <1>8, <1>9 DEF q

\* What a number's digits are, and that they stand for it.
LEMMA DigitsRead ==
  ASSUME NEW base \in Nat, base > 1, NEW m \in Nat
  PROVE  /\ Digits(m, base) \in Seq(0..(base - 1))
         /\ Value(Digits(m, base), base) = m
         /\ m # 0 => Digits(m, base) # <<>> /\ Digits(m, base)[1] # 0
<1> DEFINE S == Seq(0..(base - 1))
           Good(w) == /\ Digits(w, base) \in S /\ Value(Digits(w, base), base) = w
                      /\ w # 0 => Digits(w, base) # <<>> /\ Digits(w, base)[1] # 0
                      /\ w = 0 => Digits(w, base) = <<>>
           P == {w \in Nat : Good(w)}
<1>1. ASSUME NEW w \in Nat, \A j \in 0..(w - 1) : j \in P PROVE w \in P
  <2>1. CASE w = 0
    <3>1. PICK d : DigitsOf(d, 0, base) /\ Digits(0, base) = d[0]
      BY DigitsDefined
    <3>2. Digits(0, base) = <<>>
      BY <3>1 DEF DigitsOf
    <3>3. <<>> \in S /\ <<>> \in Seq(Nat)
      OBVIOUS
    <3>4. Value(<<>>, base) = 0
      BY <3>3, ValueType, Zenon
    <3>5. QED
      BY <2>1, <3>2, <3>3, <3>4, Zenon
  <2>2. CASE w # 0
    <3> DEFINE q == w \div base
               r == w % base
               s == Digits(q, base)
    <3>1. q \in 0..(w - 1) /\ r \in 0..(base - 1) /\ w = q * base + r
      BY <2>2, Shorter, Zenon
    <3>2. Digits(w, base) = Append(s, r)
      BY <2>2, DigitsStep, Zenon
    <3>3. Good(q)
      <4> HIDE DEF q, Good
      <4>1. QED
        BY <1>1, <3>1
    <3>4. s \in S /\ Value(s, base) = q /\ (q # 0 => s # <<>> /\ s[1] # 0) /\ (q = 0 => s = <<>>)
      BY <3>3, Zenon
    <3> HIDE DEF q, r, s
    <3>5. r \in Nat /\ q \in Nat /\ s \in Seq(Nat)
      BY <3>1, <3>4
    <3>6. Value(Append(s, r), base) = w
      BY <3>1, <3>4, <3>5, ValueAppend
    <3>7. Append(s, r) \in S /\ Append(s, r) # <<>>
      <4> DEFINE D == 0..(base - 1)
      <4>1. r \in D /\ s \in Seq(D)
        BY <3>1, <3>4, Zenon
      <4> HIDE DEF D
      <4>2. Append(s, r) \in Seq(D) /\ Append(s, r) # <<>>
        BY <4>1, SMTT(30)
      <4>3. QED
        BY <4>2 DEF D
    <3>8. Append(s, r)[1] # 0
      <4>1. CASE q = 0
        <5>1. r = w /\ Append(s, r)[1] = r
          BY <3>1, <3>4, <3>5, <4>1
        <5>2. QED
          BY <2>2, <5>1
      <4>2. CASE q # 0
        BY <3>4, <3>5, <4>2
      <4>3. QED
        BY <4>1, <4>2
    <3>9. Good(w)
      BY <2>2, <3>2, <3>6, <3>7, <3>8, Zenon
    <3> HIDE DEF Good
    <3>10. QED
      BY <3>9
  <2>3. QED
    BY <2>1, <2>2
<1>2. \A w \in Nat : w \in P
  <2> HIDE DEF P
  <2>1. QED
    BY <1>1, Complete, Zenon
<1>3. Good(m)
  <2> HIDE DEF Good
  <2>1. QED
    BY <1>2
<1>4. QED
  BY <1>3, Zenon

\* What factor prints of a word it reads back as the same word.
LEMMA PrintedRead ==
  ASSUME NEW w \in Nat, w # 0, w < Width, hflag \in BOOLEAN
  PROVE  convert_str2bn(Printed(w)) = [ok |-> TRUE, val |-> w]
<1> DEFINE base == IF hflag THEN 16 ELSE 10
           ds == Digits(w, base)
<1>1. base \in Nat /\ base > 1 /\ base <= 16
  OBVIOUS
<1>2. ds \in Seq(0..(base - 1)) /\ Value(ds, base) = w /\ ds # <<>> /\ ds[1] # 0
  <2> HIDE DEF base
  <2>1. QED
    BY <1>1, DigitsRead, Zenon
<1>3. /\ Printed(w).minus = FALSE /\ Printed(w).prefix = hflag
      /\ Printed(w).digits = ds
  BY DEF Printed, Numeral
<1> HIDE DEF ds
<1>4. strtoul(ds, base) = [ok |-> TRUE, val |-> w]
  <2> HIDE DEF base
  <2>1. QED
    BY <1>2, TableAssumption DEF strtoul
<1>5. CASE hflag
  <2>1. convert_str2bn(Printed(w)) = strtoul(ds, 16)
    BY <1>2, <1>3, <1>5, Zenon DEF convert_str2bn
  <2>2. QED
    BY <1>4, <1>5, <2>1
<1>6. CASE ~hflag
  <2>1. ~is_hex_str(ds)
    BY <1>2, <1>6 DEF is_hex_str
  <2> HIDE DEF base
  <2>2. convert_str2bn(Printed(w)) = strtoul(ds, 10)
    BY <1>2, <1>3, <1>6, <2>1 DEF convert_str2bn
  <2>3. QED
    BY <1>4, <1>6, <2>2 DEF base
<1>7. QED
  BY <1>5, <1>6

\* A conversion that succeeds gives a word.
LEMMA Converted ==
  ASSUME NEW s \in Numerals
  PROVE  LET c == convert_str2bn(s) IN c.ok => c.val \in Nat /\ c.val < Width
<1>1. ASSUME NEW base \in Nat
      PROVE  LET c == strtoul(s.digits, base) IN c.ok => c.val \in Nat /\ c.val < Width
  <2>1. s.digits \in Seq(Nat)
    BY DEF Numerals
  <2>2. Value(s.digits, base) \in Nat
    BY <2>1, ValueType, Zenon
  <2>3. QED
    BY <2>2, TableAssumption DEF strtoul, Illegal
<1>2. 16 \in Nat /\ 10 \in Nat
  OBVIOUS
<1>3. ~Illegal.ok
  BY DEF Illegal
<1>4. \/ convert_str2bn(s) = Illegal \/ convert_str2bn(s) = strtoul(s.digits, 16)
      \/ convert_str2bn(s) = strtoul(s.digits, 10)
  BY Zenon DEF convert_str2bn
<1>5. QED
  BY <1>1, <1>2, <1>3, <1>4, Zenon

-----------------------------------------------------------------------------
(* Products. *)

\* The products of the beginnings of a sequence.
ProductsOf(v, s) ==
  /\ v \in [0..Len(s) -> Nat] /\ v[0] = 1
  /\ \A i \in 1..Len(s) : v[i] = v[i - 1] * s[i]

LEMMA ProductDefined ==
  ASSUME NEW s \in Seq(Nat)
  PROVE  \E v : ProductsOf(v, s) /\ Product(s) = v[Len(s)]
<1> DEFINE m == Len(s)
           H(v) == v = [i \in 0..m |-> IF i = 0 THEN 1 ELSE v[i - 1] * s[i]]
           prev == [i \in 1..m |-> i - 1]
           step == [i \in 1..m |-> [x \in Nat |-> x * s[i]]]
<1>1. m \in Nat /\ \A i \in 1..m : s[i] \in Nat
  OBVIOUS
<1> HIDE DEF m
<1>2. \A i \in 1..m : prev[i] = i - 1 /\ prev[i] \in 0..(i - 1)
  BY <1>1
<1>3. \A i \in 1..m : \A x \in Nat : step[i][x] = x * s[i] /\ step[i][x] \in Nat
  BY <1>1
<1> HIDE DEF prev, step
<1>4. PICK f \in [0..m -> Nat] : Follows(f, 0, m, 1, prev, step)
  <2>1. 0 + 1 = 1 /\ 0 \in Int /\ m \in Int /\ 0 <= m /\ 1 \in Nat
    BY <1>1
  <2>2. QED
    BY <1>2, <1>3, <2>1, Recursion, Zenon
<1>5. f[0] = 1 /\ \A i \in 1..m : f[i] = f[i - 1] * s[i]
  <2>1. f[0] = 1 /\ \A i \in 1..m : f[i] = step[i][f[prev[i]]]
    BY <1>4 DEF Follows
  <2>2. \A i \in 1..m : f[i - 1] \in Nat
    BY <1>1
  <2>3. QED
    BY <1>2, <1>3, <2>1, <2>2, ZenonT(30)
<1>6. H(f)
  BY <1>5
<1> DEFINE v == CHOOSE x : H(x)
<1>7. H(v)
  <2> HIDE DEF H
  <2>1. QED
    BY <1>6, Zenon
<1>8. Product(s) = v[m]
  BY Zenon DEF Product, m
<1> HIDE DEF v
<1>9. v[0] = 1 /\ \A i \in 1..m : v[i] = v[i - 1] * s[i]
  BY <1>1, <1>7
<1>10. v = f
  <2>1. \A i \in 0..m : v[i] = f[i]
    <3>1. \A i \in (0 + 1)..m : v[i - 1] = f[i - 1] => v[i] = f[i]
      BY <1>5, <1>9
    <3>2. 0 \in Int /\ m \in Int /\ v[0] = f[0]
      BY <1>1, <1>5, <1>9
    <3>3. Alike(v, f, 0, m)
      BY <3>1, <3>2, Zenon DEF Alike
    <3>4. QED
      BY <3>2, <3>3, Agree
  <2>2. QED
    BY <1>7, <2>1
<1>11. QED
  BY <1>8, <1>9, <1>10, Zenon DEF ProductsOf, m

\* One factor more.
LEMMA ProductAppend ==
  ASSUME NEW s \in Seq(Nat), NEW x \in Nat
  PROVE  Product(Append(s, x)) = Product(s) * x
<1> DEFINE m == Len(s)
           t == Append(s, x)
<1>1. /\ t \in Seq(Nat) /\ Len(t) = m + 1 /\ m \in Nat /\ t[m + 1] = x
      /\ \A i \in 1..m : t[i] = s[i]
  OBVIOUS
<1>2. PICK f : ProductsOf(f, s) /\ Product(s) = f[m]
  BY ProductDefined, Zenon
<1> HIDE DEF t
<1>3. PICK g : ProductsOf(g, t) /\ Product(t) = g[m + 1]
  BY <1>1, ProductDefined, Zenon
<1> HIDE DEF m
<1>4. /\ f[0] = 1 /\ g[0] = 1
      /\ \A i \in 1..m : f[i] = f[i - 1] * s[i]
      /\ \A i \in 1..(m + 1) : g[i] = g[i - 1] * t[i]
  BY <1>1, <1>2, <1>3, Zenon DEF ProductsOf, m
<1>5. \A i \in (0 + 1)..m : g[i - 1] = f[i - 1] => g[i] = f[i]
  <2>1. \A i \in (0 + 1)..m : i \in 1..m /\ i \in 1..(m + 1)
    BY <1>1
  <2>2. QED
    BY <1>1, <1>4, <2>1, Zenon
<1>6. \A i \in 0..m : g[i] = f[i]
  <2>1. 0 \in Int /\ m \in Int /\ g[0] = f[0]
    BY <1>1, <1>4
  <2>2. Alike(g, f, 0, m)
    BY <1>5, <2>1, Zenon DEF Alike
  <2>3. QED
    BY <2>1, <2>2, Agree
<1>7. m \in 0..m /\ m + 1 \in 1..(m + 1) /\ (m + 1) - 1 = m
  BY <1>1
<1>8. g[m + 1] = f[m] * x
  BY <1>1, <1>4, <1>6, <1>7, Zenon
<1>9. QED
  BY <1>2, <1>3, <1>8 DEF t

LEMMA ProductType ==
  ASSUME NEW s \in Seq(Nat)
  PROVE  Product(s) \in Nat /\ Product(<<>>) = 1
<1>1. ASSUME NEW r \in Seq(Nat) PROVE Product(r) \in Nat /\ (Len(r) = 0 => Product(r) = 1)
  <2>1. PICK f : ProductsOf(f, r) /\ Product(r) = f[Len(r)]
    BY ProductDefined, Zenon
  <2>2. Len(r) \in 0..Len(r)
    OBVIOUS
  <2>3. QED
    BY <2>1, <2>2 DEF ProductsOf
<1>2. <<>> \in Seq(Nat) /\ Len(<<>>) = 0
  OBVIOUS
<1>3. QED
  BY <1>1, <1>2, Zenon

-----------------------------------------------------------------------------
(* The inductive invariant.  PrimesAscending and ReadsBehind look at what is *)
(* printed; what keeps them is that the primes tried so far do not divide    *)
(* what is left, and that what is left divides the number.                   *)

Types == /\ args \in Seq(Numerals)
         /\ val \in Nat /\ n \in Nat /\ out \in Seq(Nat) /\ fact \in Nat \ {0}

\* The primes before f do not divide v.
Tried(v, f) == \A i \in 1..pr_limit : i < f => v % prime[i] # 0

\* The numbers of s are primes of the table up to f.
FactorsUpTo(s, f) == \A i \in DOMAIN s : \E j \in 1..pr_limit : j <= f /\ s[i] = prime[j]

Ascend(s) == \A i, j \in DOMAIN s : i < j => s[i] <= s[j]

Line(s) ==
  \A i \in DOMAIN s :
    \/ IsPrime(s[i])
    \/ /\ i = Len(s) /\ s[i] > prime[pr_limit] * prime[pr_limit]
       /\ \A j \in DOMAIN prime : s[i] % prime[j] # 0

Working ==
  pc \in {"seek", "divide"} =>
    /\ n # 0 /\ val > 1 /\ n % val = 0
    /\ fact <= pr_limit + 1
    /\ Tried(val, fact) /\ FactorsUpTo(out, fact)
    /\ fact > pr_limit => n % prime[pr_limit] = 0

Dividing == pc = "divide" => fact <= pr_limit /\ val % prime[fact] = 0

LinePrinted == pc = "read" /\ out # <<>> /\ n # 1 => Line(out)

IInv == Types /\ Working /\ Dividing /\ Ascend(out) /\ LinePrinted

-----------------------------------------------------------------------------
(* What a number added to the line does. *)

LEMMA Added ==
  ASSUME NEW s \in Seq(Nat), NEW v \in Nat
  PROVE  /\ Append(s, v) \in Seq(Nat) /\ Len(s) \in Nat /\ DOMAIN s = 1..Len(s)
         /\ Len(Append(s, v)) = Len(s) + 1 /\ DOMAIN Append(s, v) = 1..(Len(s) + 1)
         /\ Append(s, v)[Len(s) + 1] = v
         /\ \A i \in 1..Len(s) : s[i] \in Nat /\ Append(s, v)[i] = s[i]
OBVIOUS

LEMMA AddedAscends ==
  ASSUME NEW s \in Seq(Nat), NEW v \in Nat, Ascend(s), \A i \in DOMAIN s : s[i] <= v
  PROVE  Ascend(Append(s, v))
<1>1. ASSUME NEW i \in 1..(Len(s) + 1), NEW j \in 1..(Len(s) + 1), i < j
      PROVE  Append(s, v)[i] <= Append(s, v)[j]
  <2>1. i \in 1..Len(s) /\ i \in DOMAIN s /\ Append(s, v)[i] = s[i]
    BY <1>1, Added
  <2>2. CASE j = Len(s) + 1
    BY <2>1, <2>2, Added
  <2>3. CASE j # Len(s) + 1
    <3>1. j \in DOMAIN s /\ Append(s, v)[j] = s[j]
      BY <2>3, Added
    <3>2. QED
      BY <1>1, <2>1, <3>1 DEF Ascend
  <2>4. QED
    BY <2>2, <2>3
<1>2. QED
  BY <1>1, Added DEF Ascend

\* The primes divided out so far are not above the one divided out next.
LEMMA AddFactor ==
  ASSUME NEW s \in Seq(Nat), NEW f \in 1..pr_limit, FactorsUpTo(s, f), Ascend(s)
  PROVE  /\ prime[f] \in Nat
         /\ Ascend(Append(s, prime[f]))
         /\ FactorsUpTo(Append(s, prime[f]), f)
         /\ FactorsUpTo(Append(s, prime[f]), f + 1)
<1>1. prime[f] \in Nat /\ f \in Nat
  BY Table
<1>2. \A i \in DOMAIN s : s[i] <= prime[f]
  <2>1. ASSUME NEW j \in 1..pr_limit, j <= f PROVE prime[j] <= prime[f]
    <3>1. j = f \/ (j < f /\ prime[j] < prime[f])
      BY <2>1, Table
    <3>2. prime[j] \in Nat
      BY Table
    <3>3. QED
      BY <1>1, <3>1, <3>2
  <2>2. QED
    BY <2>1, Zenon DEF FactorsUpTo
<1>3. ASSUME NEW i \in 1..(Len(s) + 1)
      PROVE  \E j \in 1..pr_limit : j <= f /\ Append(s, prime[f])[i] = prime[j]
  <2>1. CASE i = Len(s) + 1
    <3>1. f <= f /\ Append(s, prime[f])[i] = prime[f]
      BY <1>1, <2>1, Added
    <3>2. QED
      BY <3>1, Zenon
  <2>2. CASE i # Len(s) + 1
    <3>1. i \in DOMAIN s /\ Append(s, prime[f])[i] = s[i]
      BY <1>1, <2>2, Added
    <3>2. QED
      BY <3>1, Zenon DEF FactorsUpTo
  <2>3. QED
    BY <2>1, <2>2
<1>4. DOMAIN Append(s, prime[f]) = 1..(Len(s) + 1)
  BY <1>1, Added
<1>5. FactorsUpTo(Append(s, prime[f]), f)
  BY <1>3, <1>4, Zenon DEF FactorsUpTo
<1>6. \A j \in 1..pr_limit : j <= f => j <= f + 1
  BY <1>1, Table
<1>7. FactorsUpTo(Append(s, prime[f]), f + 1)
  BY <1>5, <1>6, Zenon DEF FactorsUpTo
<1>8. QED
  BY <1>1, <1>2, <1>5, <1>7, AddedAscends

\* A line of primes of the table is a line of primes.
LEMMA FactorsLine ==
  ASSUME NEW s, NEW f, FactorsUpTo(s, f)
  PROVE  Line(s)
BY Table, Zenon DEF FactorsUpTo, Line

\* The rest printed behind the table's primes.
LEMMA AddRest ==
  ASSUME NEW s \in Seq(Nat), NEW f, FactorsUpTo(s, f), Ascend(s),
         NEW v \in Nat, v > 1, Coprime(v)
  PROVE  Ascend(Append(s, v)) /\ Line(Append(s, v))
<1>1. prime[pr_limit] \in Nat /\ v > prime[pr_limit]
  BY Table, RestLarge
<1>2. \A j \in 1..pr_limit : prime[j] <= v
  BY <1>1, Table
<1>3. \A i \in DOMAIN s : s[i] <= v
  BY <1>2, Zenon DEF FactorsUpTo
<1>4. ASSUME NEW i \in 1..(Len(s) + 1)
      PROVE  \/ IsPrime(Append(s, v)[i])
             \/ /\ i = Len(Append(s, v))
                /\ Append(s, v)[i] > prime[pr_limit] * prime[pr_limit]
                /\ \A j \in DOMAIN prime : Append(s, v)[i] % prime[j] # 0
  <2>1. CASE i = Len(s) + 1
    <3>1. Append(s, v)[i] = v /\ i = Len(Append(s, v))
      BY <2>1, Added
    <3>2. \A j \in DOMAIN prime : v % prime[j] # 0
      BY Table, Zenon DEF Coprime
    <3>3. QED
      BY <3>1, <3>2, RestLarge, Zenon
  <2>2. CASE i # Len(s) + 1
    <3>1. i \in DOMAIN s /\ Append(s, v)[i] = s[i]
      BY <2>2, Added
    <3>2. QED
      BY <3>1, Table, Zenon DEF FactorsUpTo
  <2>3. QED
    BY <2>1, <2>2
<1>5. DOMAIN Append(s, v) = 1..(Len(s) + 1)
  BY Added
<1>6. Line(Append(s, v))
  BY <1>4, <1>5, Zenon DEF Line
<1>7. QED
  BY <1>3, <1>6, AddedAscends

-----------------------------------------------------------------------------
(* The steps. *)

\* What main takes from its arguments converts into a word.
LEMMA Taken ==
  ASSUME NEW list \in Seq(Numerals), list # <<>>
  PROVE  /\ Tail(list) \in Seq(Numerals)
         /\ LET c == convert_str2bn(Head(list)) IN c.ok => c.val \in Nat /\ c.val < Width
<1> HIDE DEF Numerals
<1>1. Tail(list) \in Seq(Numerals) /\ Head(list) \in Numerals
  OBVIOUS
<1>2. QED
  BY <1>1, Converted, Zenon

LEMMA InitHolds == Init => IInv
<1> SUFFICES ASSUME Init PROVE IInv
  OBVIOUS
<1>1. args \in Seq(Numerals)
  BY InputsAssumption, Zenon DEF Init, Numerals
<1>2. Types
  BY <1>1 DEF Init, Types
<1>3. QED
  BY <1>2 DEF Init, IInv, Working, Dividing, Ascend, LinePrinted

LEMMA ReadStep ==
  ASSUME IInv, Read
  PROVE  IInv'
<1> DEFINE c == convert_str2bn(Head(args))
<1>1. Tail(args) \in Seq(Numerals) /\ (c.ok => c.val \in Nat)
  BY Taken, Zenon DEF IInv, Types, Read
<1>2. args' = Tail(args) /\ pc = "read"
  BY DEF Read, Rest
<1>3. CASE ~c.ok
  <2>1. pc' = "error" /\ UNCHANGED <<val, n, out, fact>>
    BY <1>3 DEF Read
  <2>2. Types'
    BY <1>1, <1>2, <2>1 DEF IInv, Types
  <2>3. QED
    BY <2>1, <2>2 DEF IInv, Working, Dividing, LinePrinted, Ascend
<1>4. CASE c.ok
  <2> DEFINE v == c.val
  <2>1. /\ v \in Nat /\ val' = v /\ n' = v /\ fact' = 1
        /\ out' = IF v = 1 THEN <<1>> ELSE <<>>
        /\ pc' = CASE v = 0 -> "exit" [] v = 1 -> "read" [] OTHER -> "seek"
    BY <1>1, <1>4, Zenon DEF Read, First
  <2> HIDE DEF v, c
  <2>2. out' \in Seq(Nat)
    BY <2>1
  <2>3. Types'
    BY <1>1, <1>2, <2>1, <2>2 DEF Types
  <2>4. Ascend(out')
    BY <2>1 DEF Ascend
  <2>5. Working'
    <3>1. SUFFICES ASSUME pc' = "seek" PROVE Working'
      BY <2>1 DEF Working
    <3>2. v > 1 /\ out' = <<>>
      BY <2>1, <3>1
    <3>3. v % v = 0
      BY <2>1, <3>2, Multiple
    <3>4. Tried(v, 1) /\ FactorsUpTo(<<>>, 1)
      BY Table DEF Tried, FactorsUpTo
    <3>5. 1 <= pr_limit + 1 /\ ~(1 > pr_limit)
      BY Table
    <3>6. QED
      BY <2>1, <3>2, <3>3, <3>4, <3>5 DEF Working, Tried, FactorsUpTo
  <2>6. Dividing' /\ LinePrinted'
    BY <2>1 DEF Dividing, LinePrinted
  <2>7. QED
    BY <2>3, <2>4, <2>5, <2>6 DEF IInv, Ascend
<1>5. QED
  BY <1>3, <1>4

LEMMA EndStep ==
  ASSUME IInv, End
  PROVE  IInv'
<1>1. UNCHANGED <<args, val, n, out, fact>> /\ pc' \notin {"seek", "divide", "read"}
  BY DEF End
<1>2. Types' /\ Ascend(out')
  BY <1>1 DEF IInv, Types, Ascend
<1>3. QED
  BY <1>1, <1>2 DEF IInv, Working, Dividing, LinePrinted, Ascend

\* A rest that no prime of the table divides is printed.
LEMMA PrintRestStep ==
  ASSUME IInv, pc = "seek", Coprime(val), PrintRest, fact' \in Nat \ {0},
         UNCHANGED <<args, val, n>>
  PROVE  IInv'
<1>1. out' = Append(out, val) /\ pc' = "read"
  BY DEF PrintRest
<1>2. out \in Seq(Nat) /\ val \in Nat /\ val > 1 /\ FactorsUpTo(out, fact) /\ Ascend(out)
  BY DEF IInv, Types, Working
<1>3. Ascend(Append(out, val)) /\ Line(Append(out, val))
  BY <1>2, AddRest, Zenon
<1>4. Append(out, val) \in Seq(Nat)
  BY <1>2
<1>5. Types'
  BY <1>1, <1>4 DEF IInv, Types
<1>6. Ascend(out)' /\ LinePrinted'
  BY <1>1, <1>3 DEF LinePrinted, Line, Ascend
<1>7. QED
  BY <1>1, <1>5, <1>6 DEF IInv, Working, Dividing

LEMMA SeekStep ==
  ASSUME IInv, Seek
  PROVE  IInv'
<1>1. /\ pc = "seek" /\ UNCHANGED <<args, val, n>>
      /\ fact \in Nat \ {0} /\ val \in Nat /\ val > 1 /\ Tried(val, fact)
      /\ fact <= pr_limit + 1 /\ pr_limit \in Nat
  BY Table DEF Seek, SeekUpTo, IInv, Types, Working
<1>2. PICK e \in Entry(fact) :
        \/ e # 0 /\ val % e = 0 /\ fact <= pr_limit /\ pc' = "divide" /\ UNCHANGED <<out, fact>>
        \/ fact > pr_limit /\ PrintRest /\ UNCHANGED fact
        \/ /\ ~(e # 0 /\ val % e = 0) /\ fact' = fact + 1
           /\ IF fact' <= pr_limit THEN UNCHANGED <<out, pc>> ELSE PrintRest
        \/ pc' = "trap" /\ UNCHANGED <<out, fact>>
  BY Zenon DEF Seek, SeekUpTo
<1>3. fact <= pr_limit => e = prime[fact] /\ prime[fact] \in Nat /\ prime[fact] > 1
  BY <1>1, Table DEF Entry
<1>4. CASE e # 0 /\ val % e = 0 /\ fact <= pr_limit /\ pc' = "divide" /\ UNCHANGED <<out, fact>>
  <2>1. Types' /\ Ascend(out)' /\ LinePrinted'
    BY <1>1, <1>4 DEF IInv, Types, Ascend, LinePrinted
  <2>2. Working'
    BY <1>1, <1>4 DEF IInv, Working, Tried, FactorsUpTo
  <2>3. Dividing'
    BY <1>1, <1>3, <1>4 DEF Dividing
  <2>4. QED
    BY <2>1, <2>2, <2>3 DEF IInv
<1>5. CASE fact > pr_limit /\ PrintRest /\ UNCHANGED fact
  <2>1. Coprime(val)
    BY <1>1, <1>5 DEF Tried, Coprime
  <2>2. QED
    BY <1>1, <1>5, <2>1, PrintRestStep
<1>6. CASE /\ ~(e # 0 /\ val % e = 0) /\ fact' = fact + 1
           /\ IF fact' <= pr_limit THEN UNCHANGED <<out, pc>> ELSE PrintRest
  <2>1. Tried(val, fact + 1)
    BY <1>1, <1>3, <1>6 DEF Tried
  <2>2. fact' \in Nat \ {0}
    BY <1>1, <1>6
  <2>3. CASE fact' <= pr_limit
    <3>1. UNCHANGED <<out, pc>>
      BY <1>6, <2>3
    <3>2. Types' /\ Ascend(out)' /\ LinePrinted' /\ Dividing'
      BY <1>1, <2>2, <3>1 DEF IInv, Types, Ascend, LinePrinted, Dividing
    <3>3. FactorsUpTo(out, fact + 1)
      <4>1. \A j \in 1..pr_limit : j <= fact => j <= fact + 1
        BY <1>1
      <4>2. QED
        BY <1>1, <4>1, Zenon DEF IInv, Working, FactorsUpTo
    <3>4. Working'
      BY <1>1, <1>6, <2>1, <2>3, <3>1, <3>3 DEF IInv, Working, Tried, FactorsUpTo
    <3>5. QED
      BY <3>2, <3>4 DEF IInv
  <2>4. CASE ~(fact' <= pr_limit)
    <3>1. Coprime(val)
      BY <1>1, <1>6, <2>1, <2>4 DEF Tried, Coprime
    <3>2. QED
      BY <1>1, <1>6, <2>2, <2>4, <3>1, PrintRestStep
  <2>5. QED
    BY <2>3, <2>4
<1>7. CASE pc' = "trap" /\ UNCHANGED <<out, fact>>
  <2>1. Types' /\ Ascend(out)'
    BY <1>1, <1>7 DEF IInv, Types, Ascend
  <2>2. QED
    BY <1>7, <2>1 DEF IInv, Working, Dividing, LinePrinted
<1>8. QED
  BY <1>2, <1>4, <1>5, <1>6, <1>7

LEMMA DivideStep ==
  ASSUME IInv, Divide
  PROVE  IInv'
<1> DEFINE p == prime[fact]
           q == val \div p
<1>1. /\ pc = "divide" /\ UNCHANGED <<args, n>>
      /\ out' = Append(out, p) /\ val' = q
      /\ IF val' % p = 0 THEN UNCHANGED <<fact, pc>>
         ELSE fact' = fact + 1 /\ pc' = IF val' = 1 THEN "read" ELSE "seek"
  BY DEF Divide
<1>2. /\ fact \in 1..pr_limit /\ p \in Nat /\ p > 1
      /\ val \in Nat \ {0} /\ val % p = 0 /\ n \in Nat \ {0} /\ n % val = 0
      /\ out \in Seq(Nat) /\ Ascend(out) /\ FactorsUpTo(out, fact) /\ Tried(val, fact)
  <2>1. fact \in 1..pr_limit
    BY <1>1, Table DEF IInv, Types, Dividing
  <2>2. QED
    BY <1>1, <2>1, Table DEF IInv, Types, Working, Dividing
<1>3. q \in Nat \ {0} /\ val % q = 0
  BY <1>2, Quotient
<1> HIDE DEF q
<1>4. n % q = 0
  BY <1>2, <1>3, Transitive, Zenon
<1>5. /\ Ascend(Append(out, p)) /\ FactorsUpTo(Append(out, p), fact)
      /\ FactorsUpTo(Append(out, p), fact + 1)
  BY <1>2, AddFactor
<1>6. Tried(q, fact)
  <2>1. ASSUME NEW i \in 1..pr_limit, i < fact, q % prime[i] = 0 PROVE FALSE
    <3>1. prime[i] \in Nat \ {0}
      BY Table
    <3>2. val % prime[i] = 0
      BY <1>2, <1>3, <2>1, <3>1, Transitive
    <3>3. QED
      BY <1>2, <2>1, <3>2, Zenon DEF Tried
  <2>2. QED
    BY <2>1, Zenon DEF Tried
<1>7. fact \in Nat \ {0} /\ pr_limit \in Nat
  BY <1>2, Table
<1>8. Append(out, p) \in Seq(Nat)
  BY <1>2
<1> HIDE DEF p
<1>9. Types' /\ Ascend(out)'
  <2>1. args' \in Seq(Numerals) /\ val' \in Nat /\ n' \in Nat /\ out' \in Seq(Nat)
    BY <1>1, <1>2, <1>3, <1>8 DEF IInv, Types
  <2>2. fact' \in Nat \ {0}
    BY <1>1, <1>7
  <2>3. QED
    BY <1>1, <1>5, <2>1, <2>2 DEF Types, Ascend
<1>10. CASE q % p = 0
  <2>1. UNCHANGED <<fact, pc>>
    BY <1>1, <1>10
  <2>2. q > 1
    BY <1>2, <1>3, <1>10, DivisorBelow
  <2>3. Working'
    BY <1>1, <1>2, <1>4, <1>5, <1>6, <1>7, <2>1, <2>2 DEF Working, Tried, FactorsUpTo
  <2>4. Dividing' /\ LinePrinted'
    BY <1>1, <1>2, <1>10, <2>1 DEF Dividing, LinePrinted, p
  <2>5. QED
    BY <1>9, <2>3, <2>4 DEF IInv
<1>11. CASE q % p # 0
  <2>1. fact' = fact + 1 /\ pc' = IF q = 1 THEN "read" ELSE "seek"
    BY <1>1, <1>11
  <2>2. Dividing'
    BY <2>1 DEF Dividing
  <2>3. LinePrinted'
    <3>1. Line(Append(out, p))
      BY <1>5, FactorsLine
    <3>2. QED
      BY <1>1, <3>1 DEF LinePrinted, Line
  <2>4. Working'
    <3>1. Tried(q, fact + 1)
      BY <1>6, <1>7, <1>11 DEF Tried, p
    <3>2. fact + 1 > pr_limit => n % prime[pr_limit] = 0
      <4>1. SUFFICES ASSUME fact = pr_limit PROVE n % prime[pr_limit] = 0
        BY <1>2, <1>7
      <4>2. p \in Nat \ {0}
        BY <1>2
      <4>3. n % p = 0
        BY <1>2, <4>2, Transitive, Zenon
      <4>4. QED
        BY <4>1, <4>3 DEF p
    <3>3. SUFFICES ASSUME pc' = "seek" PROVE Working'
      BY <2>1 DEF Working
    <3>4. q > 1 /\ fact + 1 <= pr_limit + 1
      BY <1>2, <1>3, <1>7, <2>1, <3>3
    <3>5. QED
      BY <1>1, <1>2, <1>4, <1>5, <2>1, <3>1, <3>2, <3>4 DEF Working, Tried, FactorsUpTo
  <2>5. QED
    BY <1>9, <2>2, <2>3, <2>4 DEF IInv
<1>12. QED
  BY <1>10, <1>11

\* At every step of pr_fact the primes it has gone past do not divide what is
\* left of the number, and what it has printed are primes it has gone past.
THEOREM Invariance == Spec => []IInv
<1>1. IInv /\ [Next]_vars => IInv'
  <2> SUFFICES ASSUME IInv, [Next]_vars PROVE IInv'
    OBVIOUS
  <2>1. CASE Read
    BY <2>1, ReadStep
  <2>2. CASE End
    BY <2>2, EndStep
  <2>3. CASE Seek
    BY <2>3, SeekStep
  <2>4. CASE Divide
    BY <2>4, DivideStep
  <2>5. CASE UNCHANGED vars
    BY <2>5 DEF vars, IInv, Types, Working, Dividing, LinePrinted, Ascend, Tried,
                FactorsUpTo, Line
  <2>6. QED
    BY <2>1, <2>2, <2>3, <2>4, <2>5 DEF Next
<1>2. QED
  BY InitHolds, <1>1, PTL DEF Spec

\* Every line that pr_fact completes is in ascending order and consists of
\* primes, but for a last factor without a factor in the table that is larger
\* than the square of the table's last prime: for every table that is an
\* initial part of the primes, every number and whatever lies behind the table.
THEOREM LinesArePrimes == Spec => []PrimesAscending
<1>1. IInv => PrimesAscending
  BY DEF IInv, PrimesAscending, Ascend, LinePrinted, LineDone, Line
<1>2. QED
  BY <1>1, Invariance, PTL

\* pr_fact reads one entry behind its table at most, and then only when the
\* number is a multiple of the table's last prime with a larger rest: for
\* every table that is an initial part of the primes.
THEOREM ReadsOneBehind == Spec => []ReadsBehind
<1>1. IInv => ReadsBehind
  <2> SUFFICES ASSUME IInv, pc = "seek", fact > pr_limit
               PROVE  fact = pr_limit + 1 /\ n % prime[pr_limit] = 0 /\ val > prime[pr_limit]
    BY DEF ReadsBehind
  <2>1. /\ fact \in Nat /\ pr_limit \in Nat /\ val \in Nat /\ val > 1
        /\ fact <= pr_limit + 1 /\ Tried(val, fact) /\ n % prime[pr_limit] = 0
    BY Table DEF IInv, Types, Working
  <2>2. Coprime(val)
    BY <2>1 DEF Tried, Coprime
  <2>3. QED
    BY <2>1, <2>2, RestLarge
<1>2. QED
  BY <1>1, Invariance, PTL

-----------------------------------------------------------------------------
(* What is printed multiplies out to the number, and can be read back.     *)

\* What is left and what is printed are words.
Words ==
  /\ hflag \in BOOLEAN /\ val < Width
  /\ \A i \in DOMAIN out : out[i] # 0 /\ out[i] < Width

\* The product with a number added to the line.
LEMMA AddedProduct ==
  ASSUME NEW s \in Seq(Nat), NEW v \in Nat, \A i \in DOMAIN s : s[i] # 0 /\ s[i] < Width,
         v # 0, v < Width
  PROVE  /\ Append(s, v) \in Seq(Nat) /\ Product(s) \in Nat
         /\ Product(Append(s, v)) = Product(s) * v
         /\ \A i \in DOMAIN Append(s, v) : Append(s, v)[i] # 0 /\ Append(s, v)[i] < Width
<1>1. Append(s, v) \in Seq(Nat) /\ Product(s) \in Nat /\ Product(Append(s, v)) = Product(s) * v
  BY ProductType, ProductAppend
<1>2. ASSUME NEW i \in 1..(Len(s) + 1) PROVE Append(s, v)[i] # 0 /\ Append(s, v)[i] < Width
  <2>1. CASE i = Len(s) + 1
    BY <2>1, Added
  <2>2. CASE i # Len(s) + 1
    <3>1. i \in DOMAIN s /\ Append(s, v)[i] = s[i]
      BY <2>2, Added
    <3>2. QED
      BY <3>1, Zenon
  <2>3. QED
    BY <2>1, <2>2
<1>3. DOMAIN Append(s, v) = 1..(Len(s) + 1)
  BY Added
<1>4. QED
  BY <1>1, <1>2, <1>3, Zenon

LEMMA ReadKeeps ==
  ASSUME IInv, Words, ProductKept, Read
  PROVE  Words' /\ ProductKept'
<1> DEFINE c == convert_str2bn(Head(args))
           v == c.val
<1>1. c.ok => v \in Nat /\ v < Width
  BY Taken, Zenon DEF IInv, Types, Read
<1>2. CASE ~c.ok
  <2>1. pc' = "error" /\ UNCHANGED <<val, n, out, fact, hflag>>
    BY <1>2 DEF Read
  <2>2. QED
    BY <2>1 DEF Words, ProductKept, LineDone
<1>3. CASE c.ok
  <2>1. /\ v \in Nat /\ v < Width /\ val' = v /\ n' = v /\ UNCHANGED hflag
        /\ out' = IF v = 1 THEN <<1>> ELSE <<>>
        /\ pc' = CASE v = 0 -> "exit" [] v = 1 -> "read" [] OTHER -> "seek"
    BY <1>1, <1>3, Zenon DEF Read
  <2> HIDE DEF v, c
  <2>2. Words'
    BY <2>1 DEF Words
  <2>3. <<>> \in Seq(Nat) /\ <<1>> = Append(<<>>, 1)
    OBVIOUS
  <2>4. Product(<<>>) = 1 /\ Product(<<1>>) = 1
    <3>1. Product(<<>>) = 1 /\ 1 \in Nat
      BY <2>3, ProductType, Zenon
    <3>2. Product(Append(<<>>, 1)) = Product(<<>>) * 1
      BY <2>3, <3>1, ProductAppend, Zenon
    <3>3. QED
      BY <2>3, <3>1, <3>2
  <2>5. CASE v = 1
    <3>1. out' = <<1>> /\ pc' = "read" /\ n' = 1
      BY <2>1, <2>5
    <3>2. QED
      BY <2>2, <2>4, <3>1 DEF ProductKept, LineDone
  <2>6. CASE v # 1
    <3>1. out' = <<>> /\ pc' \in {"exit", "seek"}
      BY <2>1, <2>6
    <3>2. Product(out') * val' = n'
      BY <2>1, <2>4, <3>1
    <3>3. QED
      BY <2>2, <3>1, <3>2 DEF ProductKept, LineDone
  <2>7. QED
    BY <2>5, <2>6
<1>4. QED
  BY <1>2, <1>3

LEMMA SeekKeeps ==
  ASSUME IInv, Words, ProductKept, Seek
  PROVE  Words' /\ ProductKept'
<1>1. /\ pc = "seek" /\ UNCHANGED <<args, hflag, val, n>>
      /\ val \in Nat /\ val > 1 /\ out \in Seq(Nat) /\ n \in Nat
  BY DEF Seek, SeekUpTo, IInv, Types, Working
<1>2. \/ pc' = "divide" /\ UNCHANGED out
      \/ PrintRest
      \/ UNCHANGED <<out, pc>>
      \/ pc' = "trap" /\ UNCHANGED out
  BY Zenon DEF Seek, SeekUpTo
<1>3. Product(out) * val = n
  BY <1>1 DEF ProductKept
<1>4. CASE PrintRest
  <2>1. out' = Append(out, val) /\ pc' = "read"
    BY <1>4 DEF PrintRest
  <2>2. /\ Product(Append(out, val)) = Product(out) * val
        /\ \A i \in DOMAIN Append(out, val) :
             Append(out, val)[i] # 0 /\ Append(out, val)[i] < Width
    BY <1>1, AddedProduct DEF Words
  <2>3. Words'
    BY <1>1, <2>1, <2>2, Zenon DEF Words
  <2>4. QED
    BY <1>1, <1>3, <2>1, <2>2, <2>3 DEF ProductKept, LineDone
<1>5. CASE UNCHANGED out /\ pc' \in {"seek", "divide", "trap"}
  <2>1. Words'
    BY <1>1, <1>5 DEF Words
  <2>2. QED
    BY <1>1, <1>3, <1>5, <2>1 DEF ProductKept, LineDone
<1>6. QED
  BY <1>1, <1>2, <1>4, <1>5

LEMMA DivideKeeps ==
  ASSUME IInv, Words, ProductKept, Divide
  PROVE  Words' /\ ProductKept'
<1> DEFINE p == prime[fact]
           q == val \div p
<1>1. /\ pc = "divide" /\ UNCHANGED <<args, n, hflag>>
      /\ out' = Append(out, p) /\ val' = q
      /\ pc' \in {"divide", "read", "seek"} /\ (pc' = "read" => q = 1)
  <2>1. /\ pc = "divide" /\ UNCHANGED <<args, n, hflag>>
        /\ out' = Append(out, p) /\ val' = q
        /\ IF val' % p = 0 THEN UNCHANGED <<fact, pc>>
           ELSE fact' = fact + 1 /\ pc' = IF val' = 1 THEN "read" ELSE "seek"
    BY DEF Divide
  <2> HIDE DEF p, q
  <2>2. QED
    BY <2>1
<1>2. /\ p \in Nat /\ p > 1 /\ p < Width
      /\ val \in Nat \ {0} /\ val % p = 0 /\ n \in Nat /\ out \in Seq(Nat)
  <2>1. fact \in 1..pr_limit
    BY <1>1, Table DEF IInv, Types, Dividing
  <2>2. prime[fact] < Width
    BY <2>1, TableAssumption DEF pr_limit
  <2>3. QED
    BY <1>1, <2>1, <2>2, Table DEF IInv, Types, Working, Dividing
<1> HIDE DEF p
<1>3. q \in Nat \ {0} /\ q < val /\ val = p * q
  BY <1>2, Quotient
<1> HIDE DEF q
<1>4. Product(out) * val = n
  BY <1>1 DEF ProductKept
<1>5. /\ Product(Append(out, p)) = Product(out) * p /\ Product(out) \in Nat
      /\ \A i \in DOMAIN Append(out, p) : Append(out, p)[i] # 0 /\ Append(out, p)[i] < Width
  <2>1. p \in Nat /\ p # 0 /\ p < Width /\ out \in Seq(Nat)
    BY <1>2
  <2>2. \A i \in DOMAIN out : out[i] # 0 /\ out[i] < Width
    BY DEF Words
  <2>3. QED
    BY <2>1, <2>2, AddedProduct, Zenon
<1>6. val < Width /\ Width \in Nat /\ hflag \in BOOLEAN
  BY TableAssumption DEF Words
<1>7. Words'
  <2>1. q < Width
    BY <1>2, <1>3, <1>6
  <2>2. QED
    BY <1>1, <1>5, <1>6, <2>1, Zenon DEF Words
<1>8. Product(Append(out, p)) * q = n
  <2>1. (Product(out) * p) * q = Product(out) * (p * q)
    <3>1. q \in Nat
      BY <1>3
    <3>2. p \in Nat /\ Product(out) \in Nat
      BY <1>2, <1>5, Zenon
    <3>3. QED
      BY <3>1, <3>2, Assoc, Zenon
  <2>2. QED
    BY <1>3, <1>4, <1>5, <2>1
<1>9. q = 1 => Product(Append(out, p)) = n
  <2>1. Product(Append(out, p)) \in Nat
    BY <1>2, <1>5
  <2>2. QED
    BY <1>8, <2>1
<1>10. QED
  BY <1>1, <1>7, <1>8, <1>9 DEF ProductKept, LineDone

\* What is printed and left are words whose product is the number.
THEOREM ProductInvariance == Spec => [](Words /\ ProductKept)
<1>1. Init => Words /\ ProductKept
  <2>1. 0 < Width
    BY TableAssumption
  <2>2. QED
    BY <2>1 DEF Init, Words, ProductKept, LineDone
<1>2. IInv /\ Words /\ ProductKept /\ [Next]_vars => Words' /\ ProductKept'
  <2> SUFFICES ASSUME IInv, Words, ProductKept, [Next]_vars PROVE Words' /\ ProductKept'
    OBVIOUS
  <2>1. CASE Read
    BY <2>1, ReadKeeps
  <2>2. CASE End
    BY <2>2 DEF End, Words, ProductKept, LineDone
  <2>3. CASE Seek
    BY <2>3, SeekKeeps
  <2>4. CASE Divide
    BY <2>4, DivideKeeps
  <2>5. CASE UNCHANGED vars
    BY <2>5 DEF vars, Words, ProductKept, LineDone
  <2>6. QED
    BY <2>1, <2>2, <2>3, <2>4, <2>5 DEF Next
<1>3. QED
  BY <1>1, <1>2, Invariance, PTL DEF Spec

\* What pr_fact has printed times what is left is the number it was given, and
\* every line it completes multiplies out to the number: for every table that
\* is an initial part of the primes and whatever lies behind it.
THEOREM ProductsKept == Spec => []ProductKept
BY ProductInvariance, PTL

\* Every number that factor prints, with -h or without, convert_str2bn reads
\* back as the same number, for every width of a word.
THEOREM OutputReadBack == Spec => []ReadBack
<1>1. IInv /\ Words => ReadBack
  <2> SUFFICES ASSUME IInv, Words, NEW i \in DOMAIN out
               PROVE  convert_str2bn(Printed(out[i])) = [ok |-> TRUE, val |-> out[i]]
    BY Zenon DEF ReadBack
  <2>1. out[i] \in Nat
    BY DEF IInv, Types
  <2>2. out[i] # 0 /\ out[i] < Width /\ hflag \in BOOLEAN
    BY Zenon DEF Words
  <2>3. QED
    BY <2>1, <2>2, PrintedRead, Zenon
<1>2. QED
  BY <1>1, Invariance, ProductInvariance, PTL
=============================================================================
