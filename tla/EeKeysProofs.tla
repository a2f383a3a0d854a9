---------------------------- MODULE EeKeysProofs ----------------------------
(***************************************************************************)
(* Proofs about the keyboard input of new_curse, for any bytes, key        *)
(* sequences and junk, any number of typed bytes and any depth of nesting. *)
(***************************************************************************)
EXTENDS EeKeys, Induction, FiniteSetTheorems, TLAPS

-----------------------------------------------------------------------------
(* Places.                                                                 *)

LEMMA PlacesType ==
  ASSUME NEW s \in Seq(Item)
  PROVE  Places(s) \subseteq 1..MaxTyped
<1>1. ASSUME NEW k \in DOMAIN s PROVE s[k].i \in 0..MaxTyped
  <2>1. s[k] \in Item
    OBVIOUS
  <2>2. QED
    BY <2>1, Zenon DEF Item
<1>2. QED
  BY <1>1, KeysAssumption DEF Places

LEMMA PlacesNone == Places(<<>>) = {} /\ Ascending(<<>>)
BY DEF Places, Ascending

LEMMA PlacesOne ==
  ASSUME NEW x
  PROVE  Places(<<x>>) = {x.i} \ {0} /\ Ascending(<<x>>)
BY DEF Places, Ascending

LEMMA Concat ==
  ASSUME NEW s \in Seq(Item), NEW t \in Seq(Item)
  PROVE  /\ \A k \in DOMAIN s : k \in DOMAIN (s \o t) /\ (s \o t)[k] = s[k]
         /\ \A k \in DOMAIN t : k + Len(s) \in DOMAIN (s \o t) /\ (s \o t)[k + Len(s)] = t[k]
         /\ \A k \in DOMAIN (s \o t) :
              IF k <= Len(s) THEN k \in DOMAIN s /\ (s \o t)[k] = s[k]
              ELSE k - Len(s) \in DOMAIN t /\ (s \o t)[k] = t[k - Len(s)]
OBVIOUS

LEMMA PlacesConcat ==
  ASSUME NEW s \in Seq(Item), NEW t \in Seq(Item)
  PROVE  Places(s \o t) = Places(s) \cup Places(t)
<1>1. ASSUME NEW x \in Places(s) PROVE x \in Places(s \o t)
  <2>1. PICK k \in DOMAIN s : x = s[k].i /\ x # 0
    BY Zenon DEF Places
  <2>2. k \in DOMAIN (s \o t) /\ (s \o t)[k] = s[k]
    BY Concat, Zenon
  <2>3. QED
    BY <2>1, <2>2, Zenon DEF Places
<1>2. ASSUME NEW x \in Places(t) PROVE x \in Places(s \o t)
  <2>1. PICK k \in DOMAIN t : x = t[k].i /\ x # 0
    BY Zenon DEF Places
  <2>2. k + Len(s) \in DOMAIN (s \o t) /\ (s \o t)[k + Len(s)] = t[k]
    BY Concat, Zenon
  <2>3. QED
    BY <2>1, <2>2, Zenon DEF Places
<1>3. ASSUME NEW x \in Places(s \o t) PROVE x \in Places(s) \cup Places(t)
  <2>1. PICK k \in DOMAIN (s \o t) : x = (s \o t)[k].i /\ x # 0
    BY Zenon DEF Places
  <2>2. CASE k <= Len(s)
    <3>1. k \in DOMAIN s /\ (s \o t)[k] = s[k]
      BY <2>2, Concat, Zenon
    <3>2. QED
      BY <2>1, <3>1, Zenon DEF Places
  <2>3. CASE ~(k <= Len(s))
    <3>1. k - Len(s) \in DOMAIN t /\ (s \o t)[k] = t[k - Len(s)]
      BY <2>3, Concat, Zenon
    <3>2. QED
      BY <2>1, <3>1, Zenon DEF Places
  <2>4. QED
    BY <2>2, <2>3, Zenon
<1>4. QED
  BY <1>1, <1>2, <1>3, Zenon

LEMMA AscendingConcat ==
  ASSUME NEW s \in Seq(Item), NEW t \in Seq(Item), Ascending(s), Ascending(t),
         Before(Places(s), Places(t))
  PROVE  Ascending(s \o t)
<1>1. SUFFICES ASSUME NEW j \in DOMAIN (s \o t), NEW k \in DOMAIN (s \o t), j < k,
                      (s \o t)[j].i # 0, (s \o t)[k].i # 0
               PROVE  (s \o t)[j].i < (s \o t)[k].i
  BY Zenon DEF Ascending
<1>2. CASE k <= Len(s)
  <2>1. j <= Len(s)
    BY <1>1, <1>2
  <2>2. j \in DOMAIN s /\ k \in DOMAIN s /\ (s \o t)[j] = s[j] /\ (s \o t)[k] = s[k]
    BY <1>2, <2>1, Concat, Zenon
  <2>3. QED
    BY <1>1, <2>2, Zenon DEF Ascending
<1>3. CASE ~(k <= Len(s)) /\ j <= Len(s)
  <2>1. j \in DOMAIN s /\ (s \o t)[j] = s[j]
    BY <1>3, Concat, Zenon
  <2>2. k - Len(s) \in DOMAIN t /\ (s \o t)[k] = t[k - Len(s)]
    BY <1>3, Concat, Zenon
  <2>3. s[j].i \in Places(s) /\ t[k - Len(s)].i \in Places(t)
    BY <1>1, <2>1, <2>2, Zenon DEF Places
  <2>4. QED
    BY <2>1, <2>2, <2>3, Zenon DEF Before
<1>4. CASE ~(k <= Len(s)) /\ ~(j <= Len(s))
  <2>1. j - Len(s) \in DOMAIN t /\ (s \o t)[j] = t[j - Len(s)]
    BY <1>4, Concat, Zenon
  <2>2. k - Len(s) \in DOMAIN t /\ (s \o t)[k] = t[k - Len(s)]
    BY <1>4, Concat, Zenon
  <2>3. j - Len(s) < k - Len(s)
    BY <1>1
  <2>4. QED
    BY <1>1, <2>1, <2>2, <2>3, Zenon DEF Ascending
<1>5. QED
  BY <1>2, <1>3, <1>4, Zenon

\* A string is its first byte and the others.
LEMMA HeadAndTail ==
  ASSUME NEW s \in Seq(Item), s # <<>>
  PROVE  /\ Head(s) = s[1] /\ s[1] \in Item /\ Tail(s) \in Seq(Item)
         /\ Len(Tail(s)) = Len(s) - 1
         /\ Places(s) = Places(<<s[1]>>) \cup Places(Tail(s))
         /\ Ascending(s) => Ascending(Tail(s)) /\ Before(Places(<<s[1]>>), Places(Tail(s)))
<1>1. /\ Head(s) = s[1] /\ s[1] \in Item /\ Tail(s) \in Seq(Item) /\ Len(Tail(s)) = Len(s) - 1
      /\ 1 \in DOMAIN s
  OBVIOUS
<1>2. \A k \in DOMAIN Tail(s) : k + 1 \in DOMAIN s /\ Tail(s)[k] = s[k + 1] /\ 1 < k + 1
  OBVIOUS
<1>3. \A k \in DOMAIN s : k = 1 \/ (k - 1 \in DOMAIN Tail(s) /\ s[k] = Tail(s)[k - 1])
  OBVIOUS
<1>4. Places(<<s[1]>>) = {s[1].i} \ {0}
  BY PlacesOne, Zenon
<1>5. Places(s) = Places(<<s[1]>>) \cup Places(Tail(s))
  <2>1. ASSUME NEW x \in Places(s) PROVE x \in Places(<<s[1]>>) \cup Places(Tail(s))
    <3>1. PICK k \in DOMAIN s : x = s[k].i /\ x # 0
      BY Zenon DEF Places
    <3>2. CASE k = 1
      BY <1>4, <3>1, <3>2, Zenon
    <3>3. CASE k - 1 \in DOMAIN Tail(s) /\ s[k] = Tail(s)[k - 1]
      BY <3>1, <3>3, Zenon DEF Places
    <3>4. QED
      BY <1>3, <3>2, <3>3, Zenon
  <2>2. Places(Tail(s)) \subseteq Places(s)
    BY <1>2, Zenon DEF Places
  <2>3. Places(<<s[1]>>) \subseteq Places(s)
    BY <1>1, <1>4, Zenon DEF Places
  <2>4. QED
    BY <2>1, <2>2, <2>3, Zenon
<1>6. ASSUME Ascending(s)
      PROVE  Ascending(Tail(s)) /\ Before(Places(<<s[1]>>), Places(Tail(s)))
  <2>1. Before({s[1].i} \ {0}, Places(Tail(s)))
    <3>1. SUFFICES ASSUME s[1].i # 0, NEW x \in Places(Tail(s))
                   PROVE  s[1].i < x
      BY Zenon DEF Before
    <3>2. PICK k \in DOMAIN Tail(s) : x = Tail(s)[k].i /\ x # 0
      BY Zenon DEF Places
    <3>3. k + 1 \in DOMAIN s /\ x = s[k + 1].i /\ 1 < k + 1
      BY <1>2, <3>2, Zenon
    <3>4. QED
      BY <1>1, <1>6, <3>1, <3>2, <3>3, Zenon DEF Ascending
  <2>2. \A j, k \in DOMAIN Tail(s) : j < k => j + 1 < k + 1
    OBVIOUS
  <2>3. Ascending(Tail(s))
    BY <1>2, <1>6, <2>2, Zenon DEF Ascending
  <2>4. QED
    BY <1>4, <2>1, <2>3, Zenon
<1>7. QED
  BY <1>1, <1>5, <1>6, Zenon

\* The last bytes of a string.
LEMMA Suffix ==
  ASSUME NEW s \in Seq(Item), NEW m \in 1..(Len(s) + 1), NEW z, z = SubSeq(s, m, Len(s))
  PROVE  /\ z \in Seq(Item) /\ Len(z) = Len(s) - m + 1 /\ Places(z) \subseteq Places(s)
         /\ Ascending(s) => Ascending(z)
<1>1. z \in Seq(Item) /\ Len(z) = Len(s) - m + 1
  OBVIOUS
<1>2. ASSUME NEW k \in DOMAIN z PROVE m + k - 1 \in DOMAIN s /\ z[k] = s[m + k - 1]
  <2>1. k \in 1..(Len(s) - m + 1)
    BY <1>1
  <2>2. QED
    BY <2>1
<1>3. ASSUME NEW x \in Places(z) PROVE x \in Places(s)
  <2>1. PICK k \in DOMAIN z : x = z[k].i /\ x # 0
    BY Zenon DEF Places
  <2>2. m + k - 1 \in DOMAIN s /\ x = s[m + k - 1].i
    BY <1>2, <2>1, Zenon
  <2>3. QED
    BY <2>1, <2>2, Zenon DEF Places
<1>4. ASSUME Ascending(s) PROVE Ascending(z)
  <2>1. SUFFICES ASSUME NEW j \in DOMAIN z, NEW k \in DOMAIN z, j < k, z[j].i # 0, z[k].i # 0
                 PROVE  z[j].i < z[k].i
    BY Zenon DEF Ascending
  <2>2. m + j - 1 < m + k - 1
    BY <1>1, <2>1
  <2>3. QED
    BY <1>2, <1>4, <2>1, <2>2, Zenon DEF Ascending
<1>5. QED
  BY <1>1, <1>3, <1>4, Zenon

LEMMA FittingType ==
  ASSUME NEW s \in Seq(Item)
  PROVE  /\ Fitting(s) \in Seq(Item) /\ Len(Fitting(s)) <= BuffSize
         /\ Places(Fitting(s)) \subseteq Places(s)
         /\ Ascending(s) => Ascending(Fitting(s))
<1> DEFINE m == Max({1, Len(s) - BuffSize + 1})
           z == Fitting(s)
<1>1. BuffSize \in Nat /\ Len(s) \in Nat
  BY KeysAssumption
<1>2. m \in 1..(Len(s) + 1) /\ m >= Len(s) - BuffSize + 1
  <2>1. \E x \in {1, Len(s) - BuffSize + 1} : \A y \in {1, Len(s) - BuffSize + 1} : x >= y
    BY <1>1
  <2>2. m \in {1, Len(s) - BuffSize + 1} /\ \A y \in {1, Len(s) - BuffSize + 1} : m >= y
    BY <2>1, Zenon DEF Max
  <2> HIDE DEF m
  <2>3. QED
    BY <1>1, <2>2
<1>3. z = SubSeq(s, m, Len(s))
  BY Zenon DEF Fitting
<1> HIDE DEF m, z
<1>4. /\ z \in Seq(Item) /\ Len(z) = Len(s) - m + 1 /\ Places(z) \subseteq Places(s)
      /\ Ascending(s) => Ascending(z)
  BY <1>2, <1>3, Suffix, Zenon
<1>5. Len(z) <= BuffSize
  BY <1>1, <1>2, <1>4
<1>6. QED
  BY <1>4, <1>5, Zenon DEF z
-----------------------------------------------------------------------------
(* Calls of Get_key and wgetch.                                            *)

\* The bytes that the calls F hold: in order, behind those of K and before
\* those of R.
Held(F) == UNION {Places(F[k]) : k \in 1..Len(F)}
Stacked(F, K, R) ==
  /\ \A k \in 1..Len(F) :
       Ascending(F[k]) /\ Before(K, Places(F[k])) /\ Before(Places(F[k]), R)
  /\ \A j, k \in 1..Len(F) : j < k => Before(Places(F[j]), Places(F[k]))

LEMMA Called ==
  ASSUME NEW T, NEW F \in Seq(T), NEW c \in T
  PROVE  Append(F, c) \in Seq(T) /\ Append(F, c) # <<>> /\ Inner(Append(F, c)) = c
BY DEF Inner

LEMMA Calls ==
  ASSUME NEW T, NEW F \in Seq(T), F # <<>>
  PROVE  /\ Outer(F) \in Seq(T) /\ Inner(F) \in T /\ Len(Outer(F)) = Len(F) - 1
         /\ Inner(F) = F[Len(F)] /\ Len(F) \in 1..Len(F)
         /\ \A k \in 1..(Len(F) - 1) : Outer(F)[k] = F[k] /\ k \in 1..Len(F) /\ k # Len(F)
<1>1. Inner(F) \in T
  BY DEF Inner
<1>2. Len(F) \in 1..Len(F) /\ \A k \in 1..(Len(F) - 1) : k \in 1..Len(F) /\ k # Len(F)
  OBVIOUS
<1> DEFINE m == Len(F) - 1
           G == SubSeq(F, 1, m)
<1>3. m \in 0..Len(F)
  OBVIOUS
<1>4. G \in Seq(T) /\ Len(G) = m /\ \A k \in 1..m : G[k] = F[k]
  <2> HIDE DEF m
  <2>1. QED
    BY <1>3
<1>5. QED
  BY <1>1, <1>2, <1>4, Zenon DEF Inner, Outer

LEMMA Fewer ==
  ASSUME NEW F, NEW K, NEW R, NEW S \in SUBSET R, Stacked(F, K, R)
  PROVE  Stacked(F, K, S)
BY Zenon DEF Stacked, Before

\* The string c takes the first bytes of R, and leaves S.
Taking(c, K, R, S) ==
  /\ S \subseteq R /\ Places(c) \subseteq R
  /\ Ascending(c) /\ Before(K, Places(c)) /\ Before(Places(c), S)
Pushed(G, F, c, K, S) == Stacked(G, K, S) /\ Held(G) = Held(F) \cup Places(c)

LEMMA Push ==
  ASSUME NEW T, NEW F \in Seq(T), NEW c \in T, NEW K, NEW R, NEW S, Stacked(F, K, R),
         Taking(c, K, R, S)
  PROVE  Pushed(Append(F, c), F, c, K, S)
<1> DEFINE G == Append(F, c)
           n == Len(F) + 1
<1>1. /\ Len(G) = n /\ G[n] = c /\ \A k \in 1..n : k = n \/ k \in 1..Len(F)
      /\ \A k \in 1..Len(F) : G[k] = F[k] /\ k \in 1..n /\ k < n
      /\ n \in 1..n /\ \A k \in 1..n : ~(n < k)
  OBVIOUS
<1> HIDE DEF G, n
<1>2. \A k \in 1..n : Ascending(G[k]) /\ Before(K, Places(G[k])) /\ Before(Places(G[k]), S)
  <2>1. \A k \in 1..Len(F) : Before(Places(F[k]), S)
    BY Zenon DEF Stacked, Taking, Before
  <2>2. Ascending(c) /\ Before(K, Places(c)) /\ Before(Places(c), S)
    BY Zenon DEF Taking
  <2>3. QED
    BY <1>1, <2>1, <2>2, Zenon DEF Stacked
<1>3. \A j, k \in 1..n : j < k => Before(Places(G[j]), Places(G[k]))
  <2>1. \A j \in 1..Len(F) : Before(Places(F[j]), Places(c))
    BY Zenon DEF Stacked, Taking, Before
  <2>2. QED
    BY <1>1, <2>1, Zenon DEF Stacked
<1>4. Held(G) = Held(F) \cup Places(c)
  <2>1. Held(G) \subseteq Held(F) \cup Places(c)
    BY <1>1, Zenon DEF Held
  <2>2. Held(F) \cup Places(c) \subseteq Held(G)
    BY <1>1, Zenon DEF Held
  <2>3. QED
    BY <2>1, <2>2, Zenon
<1>5. QED
  BY <1>1, <1>2, <1>3, <1>4, Zenon DEF Stacked, G, Pushed

LEMMA Pop ==
  ASSUME NEW T, NEW F \in Seq(T), F # <<>>, NEW K, NEW R, Stacked(F, K, R)
  PROVE  /\ Outer(F) \in Seq(T) /\ Inner(F) \in T /\ Len(Outer(F)) = Len(F) - 1
         /\ \A k \in 1..(Len(F) - 1) : Outer(F)[k] = F[k]
         /\ Stacked(Outer(F), K, R \cup Places(Inner(F)))
         /\ Ascending(Inner(F)) /\ Before(K, Places(Inner(F))) /\ Before(Places(Inner(F)), R)
         /\ Held(F) = Held(Outer(F)) \cup Places(Inner(F))
<1> DEFINE G == Outer(F)
           n == Len(F)
           c == Inner(F)
<1>1. G \in Seq(T) /\ c \in T /\ Len(G) = n - 1 /\ \A k \in 1..(n - 1) : G[k] = F[k]
  BY Calls, Zenon
<1>2. c = F[n]
  BY Zenon DEF Inner
<1>3. /\ \A k \in 1..(n - 1) : k \in 1..n /\ k < n
      /\ \A k \in 1..n : k = n \/ k \in 1..(n - 1)
      /\ n \in 1..n
  OBVIOUS
<1> HIDE DEF G, n, c
<1>4. \A k \in 1..(n - 1) :
        Ascending(G[k]) /\ Before(K, Places(G[k])) /\ Before(Places(G[k]), R \cup Places(c))
  <2>1. \A k \in 1..(n - 1) : Before(Places(F[k]), R) /\ Before(Places(F[k]), Places(c))
    BY <1>2, <1>3, Zenon DEF Stacked, n
  <2>2. \A k \in 1..(n - 1) : Before(Places(F[k]), R \cup Places(c))
    BY <2>1, Zenon DEF Before
  <2>3. QED
    BY <1>1, <1>3, <2>2, Zenon DEF Stacked, n
<1>5. \A j, k \in 1..(n - 1) : j < k => Before(Places(G[j]), Places(G[k]))
  BY <1>1, <1>3, Zenon DEF Stacked, n
<1>6. Ascending(c) /\ Before(K, Places(c)) /\ Before(Places(c), R)
  BY <1>2, <1>3, Zenon DEF Stacked, n
<1>7. Held(F) = Held(G) \cup Places(c)
  <2>1. Held(F) \subseteq Held(G) \cup Places(c)
    BY <1>1, <1>2, <1>3, Zenon DEF Held, n
  <2>2. Held(G) \cup Places(c) \subseteq Held(F)
    BY <1>1, <1>2, <1>3, Zenon DEF Held, n
  <2>3. QED
    BY <2>1, <2>2, Zenon
<1>8. QED
  BY <1>1, <1>4, <1>5, <1>6, <1>7, Zenon DEF Stacked, G, n, c
-----------------------------------------------------------------------------
(* The whole input: calls F, value v, in_buff b, pending p and the bytes   *)
(* K that ee has been given.                                               *)

Order(F, v, b, p, K) ==
  /\ Stacked(F, K, Places(v) \cup Places(b) \cup Places(p))
  /\ Ascending(v) /\ Ascending(b) /\ Ascending(p)
  /\ Before(K, Places(v) \cup Places(b) \cup Places(p))
  /\ Before(Places(v), Places(b) \cup Places(p)) /\ Before(Places(b), Places(p))
Seen(F, v, b, p, K) == K \cup Held(F) \cup Places(v) \cup Places(b) \cup Places(p)

LEMMA Apart ==
  ASSUME NEW S \in SUBSET Int, NEW T, Before(S, T)
  PROVE  \A x \in S : x \notin T
<1>1. SUFFICES ASSUME NEW x \in S, x \in T PROVE FALSE
  OBVIOUS
<1>2. x < x /\ x \in Int
  BY <1>1, Zenon DEF Before
<1>3. QED
  BY <1>2

LEMMA BeforeParts ==
  ASSUME NEW S, NEW A, NEW B
  PROVE  /\ Before(S, A \cup B) <=> Before(S, A) /\ Before(S, B)
         /\ Before(A \cup B, S) <=> Before(A, S) /\ Before(B, S)
         /\ Before(S, {}) /\ Before({}, S)
BY Zenon DEF Before

\* Bytes may be dropped anywhere.
LEMMA Drop ==
  ASSUME NEW F, NEW K, NEW v, NEW b, NEW p, NEW x, NEW y, NEW z, Order(F, v, b, p, K),
         Ascending(x), Ascending(y), Ascending(z), Places(x) \subseteq Places(v),
         Places(y) \subseteq Places(b), Places(z) \subseteq Places(p)
  PROVE  Order(F, x, y, z, K)
<1>1. Stacked(F, K, Places(x) \cup Places(y) \cup Places(z))
  <2>1. Places(x) \cup Places(y) \cup Places(z) \subseteq Places(v) \cup Places(b) \cup Places(p)
    BY Zenon
  <2>2. Stacked(F, K, Places(v) \cup Places(b) \cup Places(p))
    BY Zenon DEF Order
  <2>3. QED
    BY <2>1, <2>2, Fewer, Zenon
<1>2. /\ Before(K, Places(x) \cup Places(y) \cup Places(z))
      /\ Before(Places(x), Places(y) \cup Places(z)) /\ Before(Places(y), Places(z))
  BY Zenon DEF Order, Before
<1>3. QED
  BY <1>1, <1>2, Zenon DEF Order

Missing(v, b, p, x, y, z) ==
  (Places(v) \ Places(x)) \cup (Places(b) \ Places(y)) \cup (Places(p) \ Places(z))
Thinned(v, b, p, x, y, z) ==
  Places(x) \subseteq Places(v) /\ Places(y) \subseteq Places(b) /\ Places(z) \subseteq Places(p)
Accounted(F, K, v, b, p, x, y, z) ==
  Seen(F, x, y, z, K) = Seen(F, v, b, p, K) \ Missing(v, b, p, x, y, z)

\* ... and only they are missed.
LEMMA Dropped ==
  ASSUME NEW F, NEW K, NEW v, NEW b, NEW p, NEW x, NEW y, NEW z, Order(F, v, b, p, K),
         Thinned(v, b, p, x, y, z), Seen(F, v, b, p, K) \subseteq Int
  PROVE  Accounted(F, K, v, b, p, x, y, z)
<1> DEFINE V == Places(v)
           B == Places(b)
           P == Places(p)
           H == Held(F)
<1>1. V \subseteq Int /\ B \subseteq Int /\ P \subseteq Int /\ H \subseteq Int /\ K \subseteq Int
  BY Zenon DEF Seen
<1>2. Before(K, V) /\ Before(K, B) /\ Before(K, P) /\ Before(V, B) /\ Before(V, P) /\ Before(B, P)
  BY Zenon DEF Order, Before
<1>3. Before(H, V) /\ Before(H, B) /\ Before(H, P)
  BY Zenon DEF Order, Stacked, Held, Before
<1>4. /\ \A i \in K : i \notin V /\ i \notin B /\ i \notin P
      /\ \A i \in H : i \notin V /\ i \notin B /\ i \notin P
      /\ \A i \in V : i \notin B /\ i \notin P
      /\ \A i \in B : i \notin P
  <2> HIDE DEF V, B, P, H
  <2>1. QED
    BY <1>1, <1>2, <1>3, Apart, Zenon
<1> DEFINE X == Places(x)
           Y == Places(y)
           Z == Places(z)
<1>5. X \subseteq V /\ Y \subseteq B /\ Z \subseteq P
  BY Zenon DEF Thinned
<1>6. /\ Seen(F, x, y, z, K) = K \cup H \cup X \cup Y \cup Z
      /\ Seen(F, v, b, p, K) = K \cup H \cup V \cup B \cup P
  BY Zenon DEF Seen
<1> HIDE DEF V, B, P, H, X, Y, Z
<1>7. K \cup H \cup X \cup Y \cup Z = (K \cup H \cup V \cup B \cup P) \ ((V \ X) \cup (B \ Y) \cup (P \ Z))
  BY <1>4, <1>5
<1>8. QED
  BY <1>6, <1>7, Zenon DEF V, B, P, X, Y, Z, Missing, Accounted

\* The input becomes that of calls G, value x, in_buff y, pending z and given
\* bytes J, and nothing is lost.
Becomes(F, v, b, p, K, G, x, y, z, J) ==
  Order(G, x, y, z, J) /\ Seen(G, x, y, z, J) = Seen(F, v, b, p, K)

\* The last call takes the value.
LEMMA PushOrder ==
  ASSUME NEW F \in Seq(Seq(Item)), NEW v \in Seq(Item), NEW b, NEW p, NEW K, Order(F, v, b, p, K)
  PROVE  Becomes(F, v, b, p, K, Append(F, v), <<>>, b, p, K)
<1> DEFINE V == Places(v)
           B == Places(b)
           P == Places(p)
           R == V \cup B \cup P
           S == B \cup P
           G == Append(F, v)
<1>1. /\ Stacked(F, K, R) /\ Ascending(v) /\ Ascending(b) /\ Ascending(p) /\ Before(K, R)
      /\ Before(V, S) /\ Before(B, P)
  BY Zenon DEF Order
<1>2. S \subseteq R /\ V \subseteq R /\ Before(K, V) /\ Before(K, S)
  BY <1>1, Zenon DEF Before
<1>3. Stacked(G, K, S) /\ Held(G) = Held(F) \cup V
  <2> DEFINE T == Seq(Item)
  <2>1. F \in Seq(T) /\ v \in T
    OBVIOUS
  <2>2. Stacked(F, K, R) /\ Taking(v, K, R, S)
    BY <1>1, <1>2, Zenon DEF Taking
  <2> HIDE DEF S, R, T
  <2>3. Pushed(G, F, v, K, S)
    BY <2>1, <2>2, Push, Zenon
  <2>4. QED
    BY <2>3, Zenon DEF Pushed
<1> HIDE DEF G
<1>4. Places(<<>>) = {} /\ Ascending(<<>>)
  BY PlacesNone, Zenon
<1>5. Places(<<>>) \cup B \cup P = S
  BY <1>4, Zenon
<1>6. Order(G, <<>>, b, p, K)
  <2>1. Before(Places(<<>>), S)
    BY <1>4, Zenon DEF Before
  <2>2. QED
    BY <1>1, <1>2, <1>3, <1>4, <1>5, <2>1, Zenon DEF Order
<1>7. Seen(G, <<>>, b, p, K) = Seen(F, v, b, p, K)
  BY <1>3, <1>4, Zenon DEF Seen
<1>8. QED
  BY <1>6, <1>7, Zenon DEF G, Becomes

\* The last call ends, with its string or, if it has none, with the value.
LEMMA PopOrder ==
  ASSUME NEW F \in Seq(Seq(Item)), F # <<>>, NEW v, NEW b, NEW p, NEW K, Order(F, v, b, p, K),
         NEW x, (x = v /\ Inner(F) = <<>>) \/ (x = Inner(F) /\ v = <<>>)
  PROVE  Becomes(F, v, b, p, K, Outer(F), x, b, p, K)
<1> DEFINE c == Inner(F)
           G == Outer(F)
           V == Places(v)
           B == Places(b)
           P == Places(p)
           R == V \cup B \cup P
<1>1. /\ Stacked(F, K, R) /\ Ascending(v) /\ Ascending(b) /\ Ascending(p) /\ Before(K, R)
      /\ Before(V, B \cup P) /\ Before(B, P)
  BY Zenon DEF Order
<1>2. /\ Stacked(G, K, R \cup Places(c)) /\ Ascending(c) /\ Before(K, Places(c))
      /\ Before(Places(c), R) /\ Held(F) = Held(G) \cup Places(c)
  <2> HIDE DEF R
  <2>1. QED
    BY <1>1, Pop, Zenon
<1> HIDE DEF G, c
<1>3. Places(<<>>) = {}
  BY PlacesNone, Zenon
<1>4. /\ R \cup Places(c) = Places(x) \cup B \cup P /\ Places(x) = V \cup Places(c)
      /\ Ascending(x)
  BY <1>1, <1>2, <1>3, Zenon DEF c
<1>5. Before(K, Places(x) \cup B \cup P) /\ Before(Places(x), B \cup P)
  BY <1>1, <1>2, <1>4, Zenon DEF Before
<1>6. Order(G, x, b, p, K)
  BY <1>1, <1>2, <1>4, <1>5, Zenon DEF Order
<1>7. Seen(G, x, b, p, K) = Seen(F, v, b, p, K)
  BY <1>2, <1>4, Zenon DEF Seen
<1>8. QED
  BY <1>6, <1>7, Zenon DEF G, Becomes

\* The value is appended to the last call's string.
LEMMA ExtendOrder ==
  ASSUME NEW F \in Seq(Seq(Item)), F # <<>>, NEW v \in Seq(Item), NEW b, NEW p, NEW K,
         Order(F, v, b, p, K)
  PROVE  Becomes(F, v, b, p, K, Append(Outer(F), Inner(F) \o v), <<>>, b, p, K)
<1> DEFINE c == Inner(F)
           E == Outer(F)
           V == Places(v)
           B == Places(b)
           P == Places(p)
           R == V \cup B \cup P
           S == B \cup P
           d == c \o v
           G == Append(E, d)
<1>1. /\ Stacked(F, K, R) /\ Ascending(v) /\ Ascending(b) /\ Ascending(p) /\ Before(K, R)
      /\ Before(V, S) /\ Before(B, P)
  BY Zenon DEF Order
<1>2. /\ E \in Seq(Seq(Item)) /\ c \in Seq(Item)
      /\ Stacked(E, K, R \cup Places(c)) /\ Ascending(c) /\ Before(K, Places(c))
      /\ Before(Places(c), R) /\ Held(F) = Held(E) \cup Places(c)
  <2> HIDE DEF R
  <2>1. QED
    BY <1>1, Pop, Zenon
<1> HIDE DEF E, c
<1>3. Before(Places(c), V) /\ Before(Places(c), S) /\ Before(K, V) /\ Before(K, S)
  BY <1>1, <1>2, Zenon DEF Before
<1>4. d \in Seq(Item)
  BY <1>2
<1>5. Places(d) = Places(c) \cup V /\ Ascending(d)
  BY <1>1, <1>2, <1>3, PlacesConcat, AscendingConcat, Zenon
<1> HIDE DEF d
<1>6. Before(K, Places(d)) /\ Before(Places(d), S) /\ Places(d) \subseteq R \cup Places(c)
      /\ S \subseteq R \cup Places(c)
  BY <1>1, <1>2, <1>3, <1>5, Zenon DEF Before
<1>7. Stacked(G, K, S) /\ Held(G) = Held(E) \cup Places(d)
  <2> DEFINE Q == R \cup Places(c)
  <2>1. Stacked(E, K, Q) /\ Taking(d, K, Q, S)
    BY <1>2, <1>5, <1>6, Zenon DEF Taking
  <2> DEFINE T == Seq(Item)
  <2>2. E \in Seq(T) /\ d \in T
    BY <1>2, <1>4
  <2> HIDE DEF S, Q, T
  <2>3. Pushed(G, E, d, K, S)
    BY <2>1, <2>2, Push, Zenon
  <2>4. QED
    BY <2>3, Zenon DEF Pushed
<1> HIDE DEF G
<1>8. Places(<<>>) = {} /\ Ascending(<<>>)
  BY PlacesNone, Zenon
<1>9. Places(<<>>) \cup B \cup P = S /\ Before(Places(<<>>), S)
  BY <1>8, Zenon DEF Before
<1>10. Order(G, <<>>, b, p, K)
  BY <1>1, <1>3, <1>7, <1>8, <1>9, Zenon DEF Order
<1>11. Seen(G, <<>>, b, p, K) = Seen(F, v, b, p, K)
  BY <1>2, <1>5, <1>7, <1>8, Zenon DEF Seen
<1>12. QED
  BY <1>10, <1>11, Zenon DEF G, d, c, E, Becomes

\* The first byte of in_buff, or of pending if in_buff is empty, is taken.
LEMMA TakeOrder ==
  ASSUME NEW F, NEW b, NEW p, NEW K, Order(F, <<>>, b, p, K), NEW s \in Seq(Item), s # <<>>
  PROVE  /\ s = b => Becomes(F, <<>>, b, p, K, F, <<s[1]>>, Tail(s), p, K)
         /\ s = p /\ b = <<>> => Becomes(F, <<>>, b, p, K, F, <<s[1]>>, b, Tail(s), K)
<1> DEFINE h == <<s[1]>>
           t == Tail(s)
<1>1. Places(s) = Places(h) \cup Places(t)
  BY HeadAndTail, Zenon
<1>2. Ascending(s) => Ascending(t) /\ Before(Places(h), Places(t))
  BY HeadAndTail, Zenon
<1>3. Ascending(h)
  BY PlacesOne, Zenon
<1>4. Places(<<>>) = {} /\ Ascending(<<>>)
  BY PlacesNone, Zenon
<1> HIDE DEF h, t
<1>5. ASSUME s = b
      PROVE  Order(F, h, t, p, K) /\ Seen(F, h, t, p, K) = Seen(F, <<>>, b, p, K)
  <2>1. Places(h) \cup Places(t) \cup Places(p) = Places(<<>>) \cup Places(b) \cup Places(p)
    BY <1>1, <1>4, <1>5, Zenon
  <2>2. /\ Stacked(F, K, Places(<<>>) \cup Places(b) \cup Places(p)) /\ Ascending(b) /\ Ascending(p)
        /\ Before(K, Places(<<>>) \cup Places(b) \cup Places(p)) /\ Before(Places(b), Places(p))
    BY Zenon DEF Order
  <2>3. Before(Places(h), Places(t) \cup Places(p)) /\ Before(Places(t), Places(p)) /\ Ascending(t)
    BY <1>1, <1>2, <1>5, <2>2, Zenon DEF Before
  <2>4. QED
    BY <1>1, <1>3, <1>4, <1>5, <2>1, <2>2, <2>3, Zenon DEF Order, Seen
<1>6. ASSUME s = p, b = <<>>
      PROVE  Order(F, h, b, t, K) /\ Seen(F, h, b, t, K) = Seen(F, <<>>, b, p, K)
  <2>1. Places(h) \cup Places(b) \cup Places(t) = Places(<<>>) \cup Places(b) \cup Places(p)
    BY <1>1, <1>4, <1>6, Zenon
  <2>2. /\ Stacked(F, K, Places(<<>>) \cup Places(b) \cup Places(p)) /\ Ascending(b) /\ Ascending(p)
        /\ Before(K, Places(<<>>) \cup Places(b) \cup Places(p))
    BY Zenon DEF Order
  <2>3. Before(Places(h), Places(b) \cup Places(t)) /\ Before(Places(b), Places(t)) /\ Ascending(t)
    BY <1>1, <1>2, <1>4, <1>6, <2>2, Zenon DEF Before
  <2>4. QED
    BY <1>1, <1>3, <1>4, <1>6, <2>1, <2>2, <2>3, Zenon DEF Order, Seen
<1>7. QED
  BY <1>5, <1>6, Zenon DEF h, t, Becomes

\* All of the value but its first byte is pushed back.
LEMMA PushBackOrder ==
  ASSUME NEW F, NEW s \in Seq(Item), s # <<>>, NEW b \in Seq(Item), NEW p, NEW K, Order(F, s, b, p, K)
  PROVE  Becomes(F, s, b, p, K, F, <<s[1]>>, Tail(s) \o b, p, K)
<1> DEFINE h == <<s[1]>>
           t == Tail(s)
           d == t \o b
<1>1. Places(s) = Places(h) \cup Places(t) /\ t \in Seq(Item)
  BY HeadAndTail, Zenon
<1>2. /\ Stacked(F, K, Places(s) \cup Places(b) \cup Places(p)) /\ Ascending(s) /\ Ascending(b)
      /\ Ascending(p) /\ Before(K, Places(s) \cup Places(b) \cup Places(p))
      /\ Before(Places(s), Places(b) \cup Places(p)) /\ Before(Places(b), Places(p))
  BY Zenon DEF Order
<1>3. Ascending(t) /\ Before(Places(h), Places(t))
  BY <1>2, HeadAndTail, Zenon
<1>4. Ascending(h)
  BY PlacesOne, Zenon
<1> HIDE DEF h, t
<1>5. Before(Places(t), Places(b))
  BY <1>1, <1>2, Zenon DEF Before
<1>6. Places(d) = Places(t) \cup Places(b) /\ Ascending(d)
  BY <1>1, <1>2, <1>3, <1>5, PlacesConcat, AscendingConcat, Zenon
<1> HIDE DEF d
<1>7. Places(h) \cup Places(d) \cup Places(p) = Places(s) \cup Places(b) \cup Places(p)
  BY <1>1, <1>6, Zenon
<1>8. Before(Places(h), Places(d) \cup Places(p)) /\ Before(Places(d), Places(p))
  BY <1>1, <1>2, <1>3, <1>6, Zenon DEF Before
<1>9. QED
  BY <1>1, <1>2, <1>4, <1>6, <1>7, <1>8, Zenon DEF Order, Seen, h, d, t, Becomes

\* The value is given to ee.
LEMMA GiveOrder ==
  ASSUME NEW v, NEW b, NEW p, NEW K, Order(<<>>, v, b, p, K)
  PROVE  Becomes(<<>>, v, b, p, K, <<>>, <<>>, b, p, K \cup Places(v))
<1>1. Places(<<>>) = {} /\ Ascending(<<>>)
  BY PlacesNone, Zenon
<1>2. \A R, Q : Stacked(<<>>, R, Q)
  BY DEF Stacked
<1>3. /\ Before(K \cup Places(v), Places(<<>>) \cup Places(b) \cup Places(p))
      /\ Before(Places(<<>>), Places(b) \cup Places(p))
  BY <1>1, Zenon DEF Order, Before
<1>4. QED
  BY <1>1, <1>2, <1>3, Zenon DEF Order, Seen, Becomes

Grown(F, v, b, p, K, q, n) ==
  Order(F, v, b, q, K) /\ Seen(F, v, b, q, K) = Seen(F, v, b, p, K) \cup {n + 1}

\* Another byte is typed.
LEMMA TypeOrder ==
  ASSUME NEW F, NEW v, NEW b, NEW p \in Seq(Item), NEW K, NEW n \in Nat, NEW x \in Item, x.i = n + 1,
         Order(F, v, b, p, K), Seen(F, v, b, p, K) \subseteq 1..n
  PROVE  Grown(F, v, b, p, K, Append(p, x), n)
<1> DEFINE q == Append(p, x)
           N == {n + 1}
<1>1. \A S : S \subseteq 1..n => Before(S, N)
  BY DEF Before
<1>2. /\ K \subseteq 1..n /\ Held(F) \subseteq 1..n /\ Places(v) \subseteq 1..n /\ Places(b) \subseteq 1..n
      /\ Places(p) \subseteq 1..n
  BY Zenon DEF Seen
<1>3. Before(K, N) /\ Before(Held(F), N) /\ Before(Places(v), N) /\ Before(Places(b), N) /\ Before(Places(p), N)
  BY <1>1, <1>2, Zenon
<1>4. q = p \o <<x>> /\ <<x>> \in Seq(Item)
  OBVIOUS
<1>5. Places(<<x>>) = N /\ Ascending(<<x>>)
  <2>1. n + 1 # 0
    OBVIOUS
  <2>2. QED
    BY <2>1, PlacesOne, Zenon
<1>6. Places(q) = Places(p) \cup N
  BY <1>4, <1>5, PlacesConcat, Zenon
<1>7. Ascending(q)
  BY <1>3, <1>4, <1>5, AscendingConcat, Zenon DEF Order
<1> HIDE DEF q, N
<1>8. \A k \in 1..Len(F) : Before(Places(F[k]), N)
  BY <1>3, Zenon DEF Held, Before
<1>9. Stacked(F, K, Places(v) \cup Places(b) \cup Places(q))
  <2>1. Stacked(F, K, Places(v) \cup Places(b) \cup Places(p))
    BY Zenon DEF Order
  <2>2. \A k \in 1..Len(F) : Before(Places(F[k]), Places(v) \cup Places(b) \cup Places(q))
    BY <1>6, <1>8, <2>1, Zenon DEF Stacked, Before
  <2>3. QED
    BY <2>1, <2>2, Zenon DEF Stacked
<1>10. /\ Before(K, Places(v) \cup Places(b) \cup Places(q))
       /\ Before(Places(v), Places(b) \cup Places(q)) /\ Before(Places(b), Places(q))
  BY <1>3, <1>6, Zenon DEF Order, Before
<1>11. Order(F, v, b, q, K)
  BY <1>7, <1>9, <1>10, Zenon DEF Order
<1>12. Seen(F, v, b, q, K) = Seen(F, v, b, p, K) \cup N
  BY <1>6, Zenon DEF Seen
<1>13. QED
  BY <1>11, <1>12, Zenon DEF q, N, Grown
-----------------------------------------------------------------------------
(* The inductive invariant.                                                *)

Longest == Max({1, Max_Key_len})

\* Where the typed bytes are: t of them, those of l lost.
Input(F, v, b, p, K, t, l) ==
  /\ F \in Seq(Seq(Item)) /\ v \in Seq(Item) /\ b \in Seq(Item) /\ p \in Seq(Item)
  /\ Order(F, v, b, p, K)
  /\ Seen(F, v, b, p, K) = (1..t) \ l /\ l \subseteq 1..t

\* What value and the innermost call can be at a.
Stage(a, v, F) ==
  /\ a \in {"call", "read", "loop", "exit"} => v = <<>>
  /\ a = "check" => Len(v) <= 1
  /\ a = "loop" => F # <<>> /\ Inner(F) # <<>>

\* A Get_key that waits for wgetch has room for another byte.
Room(F, a) ==
  \A k \in 1..Len(F) :
    /\ Len(F[k]) <= Longest
    /\ Len(F[k]) < Max_Key_len \/ F[k] = <<>> \/ (k = Len(F) /\ a = "loop")

IInv ==
  /\ typed \in 0..MaxTyped
  /\ at \in {"call", "read", "check", "return", "loop", "exit"}
  /\ {hung, Noblock, Time_Out, alarm, interrupt_flag} \subseteq BOOLEAN
  /\ Len(in_buff) <= BuffSize
  /\ Input(frames, value, in_buff, pending, keys, typed, lost)
  /\ Stage(at, value, frames) /\ Room(frames, at)

\* The keys' strings are finitely many: one is the longest.
LEMMA Lengths ==
  Max_Key_len \in Nat /\ Longest \in Nat /\ Longest >= 1 /\ Longest >= Max_Key_len
<1>1. PICK q \in Seq(Sequences) : \A s \in Sequences : \E n \in 1..Len(q) : q[n] = s
  BY KeysAssumption, Zenon DEF IsFiniteSet
<1>2. Len(q) \in Nat /\ \A n \in 1..Len(q) : Len(q[n]) \in Nat
  <2>1. \A n \in 1..Len(q) : q[n] \in Sequences
    OBVIOUS
  <2>2. \A s \in Sequences : Len(s) \in Nat
    BY KeysAssumption
  <2>3. QED
    BY <2>1, <2>2
<1> DEFINE B(n, m) == \A k \in 1..Len(q) : k <= n => Len(q[k]) <= m
           T == {n \in Nat : \E m \in Nat : B(n, m)}
<1>3. \A n \in Nat : n \in T
  <2>1. 0 \in T
    <3>1. 0 \in Nat /\ B(0, 0)
      OBVIOUS
    <3>2. QED
      BY <3>1, Zenon
  <2>2. ASSUME NEW n \in Nat, n \in T PROVE n + 1 \in T
    <3>1. PICK m \in Nat : B(n, m)
      BY <2>2, Zenon
    <3>2. CASE n + 1 \in 1..Len(q)
      <4> DEFINE o == IF Len(q[n + 1]) <= m THEN m ELSE Len(q[n + 1])
      <4>1. o \in Nat /\ m <= o /\ Len(q[n + 1]) <= o
        BY <1>2, <3>2
      <4> HIDE DEF o
      <4>2. ASSUME NEW k \in 1..Len(q), k <= n + 1 PROVE Len(q[k]) <= o
        <5>1. k <= n \/ k = n + 1
          BY <4>2
        <5>2. k <= n => Len(q[k]) <= m
          BY <3>1, Zenon
        <5>3. QED
          BY <1>2, <4>1, <5>1, <5>2
      <4>3. n + 1 \in Nat
        OBVIOUS
      <4>4. QED
        BY <4>1, <4>2, <4>3, Zenon
    <3>3. CASE n + 1 \notin 1..Len(q)
      <4>1. n + 1 \in Nat /\ \A k \in 1..Len(q) : k <= n + 1 => k <= n
        BY <1>2, <3>3
      <4>2. QED
        BY <3>1, <4>1, Zenon
    <3>4. QED
      BY <3>2, <3>3, Zenon
  <2> HIDE DEF T
  <2>3. QED
    BY <2>1, <2>2, Inductive, Zenon
<1>4. PICK m \in Nat : B(Len(q), m)
  BY <1>2, <1>3, Zenon
<1>5. \A n \in 1..Len(q) : Len(q[n]) \in 0..m
  BY <1>2, <1>4
<1> DEFINE U == {0} \cup {Len(s) : s \in Sequences}
<1>6. U \subseteq 0..m /\ 0 \in U
  <2>1. \A s \in Sequences : Len(s) \in 0..m
    BY <1>1, <1>5, Zenon
  <2>2. QED
    BY <2>1
<1>7. \E x \in U : \A y \in U : y <= x
  <2> HIDE DEF U
  <2>1. U # {}
    BY <1>6, Zenon
  <2>2. QED
    BY <1>6, <2>1, Greatest, Zenon
<1>8. \E x \in U : \A y \in U : x >= y
  <2> HIDE DEF U
  <2>1. \A x, y \in U : y <= x => x >= y
    BY <1>6
  <2>2. QED
    BY <1>7, <2>1, Zenon
<1>9. Max_Key_len \in U
  BY <1>8, Zenon DEF Max_Key_len, Max
<1>10. Max_Key_len \in Nat
  <2> HIDE DEF U
  <2>1. QED
    BY <1>6, <1>9
<1>11. \E x \in {1, Max_Key_len} : \A y \in {1, Max_Key_len} : x >= y
  BY <1>10
<1>12. Longest \in {1, Max_Key_len} /\ \A y \in {1, Max_Key_len} : Longest >= y
  BY <1>11, Zenon DEF Longest, Max
<1>13. QED
  BY <1>10, <1>12

\* What the input loses is counted.
LEMMA Lose ==
  ASSUME NEW F, NEW v, NEW b, NEW p, NEW K, NEW t \in Nat, NEW l, Input(F, v, b, p, K, t, l),
         NEW x \in Seq(Item), NEW y \in Seq(Item), NEW z \in Seq(Item),
         Ascending(v) => Ascending(x), Ascending(b) => Ascending(y), Ascending(p) => Ascending(z),
         Places(x) \subseteq Places(v), Places(y) \subseteq Places(b), Places(z) \subseteq Places(p),
         NEW m, m = l \cup Missing(v, b, p, x, y, z)
  PROVE  Input(F, x, y, z, K, t, m)
<1> DEFINE D == Missing(v, b, p, x, y, z)
           S == Seen(F, v, b, p, K)
           R == 1..t
<1>1. F \in Seq(Seq(Item)) /\ Order(F, v, b, p, K) /\ S = R \ l /\ l \subseteq R
  BY Zenon DEF Input
<1>2. Order(F, x, y, z, K)
  <2>1. Ascending(x) /\ Ascending(y) /\ Ascending(z)
    BY <1>1, Zenon DEF Order
  <2>2. QED
    BY <1>1, <2>1, Drop, Zenon
<1>3. S \subseteq Int
  <2>1. R \subseteq Int
    OBVIOUS
  <2>2. QED
    BY <1>1, <2>1, Zenon
<1>4. Seen(F, x, y, z, K) = S \ D
  <2>1. Order(F, v, b, p, K)
    BY <1>1, Zenon
  <2>2. Thinned(v, b, p, x, y, z)
    BY Zenon DEF Thinned
  <2>3. Accounted(F, K, v, b, p, x, y, z)
    BY <1>3, <2>1, <2>2, Dropped, Zenon
  <2>4. QED
    BY <2>3, Zenon DEF Accounted
<1>5. D \subseteq S
  BY Zenon DEF Seen, Missing
<1>6. m = l \cup D
  BY Zenon
<1> HIDE DEF S, D, R
<1>7. Seen(F, x, y, z, K) = R \ m /\ m \subseteq R
  BY <1>1, <1>4, <1>5, <1>6
<1>8. QED
  BY <1>1, <1>2, <1>7, Zenon DEF Input, R

LEMMA RoomPush ==
  ASSUME NEW F \in Seq(Seq(Item)), NEW c \in Seq(Item), NEW a, a # "loop", Room(F, a), NEW e,
         Len(c) <= Longest, Len(c) < Max_Key_len \/ c = <<>> \/ e = "loop"
  PROVE  Room(Append(F, c), e)
<1> DEFINE G == Append(F, c)
           n == Len(F) + 1
<1>1. /\ Len(G) = n /\ G[n] = c /\ \A k \in 1..n : k = n \/ k \in 1..Len(F)
      /\ \A k \in 1..Len(F) : G[k] = F[k]
  OBVIOUS
<1> HIDE DEF G, n
<1>2. QED
  BY <1>1, Zenon DEF Room, G

LEMMA RoomPop ==
  ASSUME NEW F \in Seq(Seq(Item)), F # <<>>, NEW a, Room(F, a), NEW e
  PROVE  /\ Room(Outer(F), e)
         /\ Len(Inner(F)) <= Longest
         /\ Inner(F) # <<>> /\ a # "loop" => Len(Inner(F)) < Max_Key_len
         /\ Len(Inner(F)) < Max_Key_len => Room(F, e)
         /\ a # "loop" => Room(F, e)
<1> DEFINE G == Outer(F)
           c == Inner(F)
           n == Len(F)
           T == Seq(Item)
<1>1. F \in Seq(T)
  OBVIOUS
<1>2. /\ Len(G) = n - 1 /\ c = F[n] /\ n \in 1..n
      /\ \A k \in 1..(n - 1) : G[k] = F[k] /\ k \in 1..n /\ k # n
  <2> HIDE DEF T
  <2>1. QED
    BY <1>1, Calls, Zenon
<1> HIDE DEF G, c, n
<1>3. Room(G, e)
  BY <1>2, Zenon DEF Room, n
<1>4. Len(c) <= Longest /\ (c # <<>> /\ a # "loop" => Len(c) < Max_Key_len)
  BY <1>2, Zenon DEF Room, n
<1>5. Len(c) < Max_Key_len \/ a # "loop" => Room(F, e)
  BY <1>2, Zenon DEF Room, n
<1>6. QED
  BY <1>3, <1>4, <1>5, Zenon DEF G, c

LEMMA RoomStays ==
  ASSUME NEW F, NEW a, a # "loop", Room(F, a), NEW e
  PROVE  Room(F, e)
BY Zenon DEF Room

\* The end of wgetch, in a call or after one that it made.
LEMMA DecodeKept ==
  ASSUME NEW F, NEW c, NEW b, NEW p, NEW K, NEW t, NEW l, Input(F, c, b, p, K, t, l),
         NEW a, a # "loop", Room(F, a), {Time_Out, alarm, Noblock} \subseteq BOOLEAN, Decode(F, c)
  PROVE  /\ Input(frames', value', b, p, K, t, l) /\ Stage(at', value', frames') /\ Room(frames', at')
         /\ at' \in {"loop", "return"} /\ {Time_Out', alarm', Noblock'} \subseteq BOOLEAN
<1>1. F \in Seq(Seq(Item)) /\ c \in Seq(Item) /\ Order(F, c, b, p, K)
  BY Zenon DEF Input
<1>2. CASE Len(c) = 1 /\ c[1].b = Esc
  <2>1. /\ at' = "loop" /\ value' = <<>> /\ frames' = Append(F, c)
        /\ Time_Out' = FALSE /\ alarm' = TRUE /\ Noblock' = TRUE
    BY <1>2, Zenon DEF Decode, Nothing
  <2> DEFINE G == Append(F, c)
  <2>2. G \in Seq(Seq(Item)) /\ G # <<>> /\ Inner(G) = c /\ c # <<>> /\ <<>> \in Seq(Item)
    <3> DEFINE T == Seq(Item)
    <3>1. F \in Seq(T) /\ c \in T
      BY <1>1, Zenon
    <3>2. <<>> \in T /\ c # <<>>
      BY <1>2
    <3> HIDE DEF T
    <3>3. G \in Seq(T) /\ G # <<>> /\ Inner(G) = c
      BY <3>1, Called, Zenon
    <3>4. QED
      BY <3>2, <3>3, Zenon DEF T
  <2>3. Order(G, <<>>, b, p, K) /\ Seen(G, <<>>, b, p, K) = Seen(F, c, b, p, K)
    <3>1. Becomes(F, c, b, p, K, G, <<>>, b, p, K)
      BY <1>1, PushOrder, Zenon
    <3>2. QED
      BY <3>1, Zenon DEF Becomes
  <2>4. Room(G, "loop")
    <3>1. Len(c) <= Longest
      BY <1>2, Lengths
    <3>2. QED
      BY <1>1, <3>1, RoomPush, Zenon
  <2> HIDE DEF G
  <2>5. Input(G, <<>>, b, p, K, t, l)
    BY <2>2, <2>3, Zenon DEF Input
  <2>6. Stage("loop", <<>>, G)
    BY <2>2, Zenon DEF Stage
  <2>7. frames' = G
    BY <2>1, Zenon DEF G
  <2>8. QED
    BY <2>1, <2>4, <2>5, <2>6, <2>7, Zenon
<1>3. CASE ~(Len(c) = 1 /\ c[1].b = Esc)
  <2>1. /\ at' = "return" /\ value' = c /\ frames' = F
        /\ Time_Out' = Time_Out /\ alarm' = alarm /\ Noblock' = Noblock
    BY <1>3, Zenon DEF Decode
  <2>2. Room(F, "return")
    BY RoomStays, Zenon
  <2>3. Stage("return", c, F)
    BY Zenon DEF Stage
  <2>4. QED
    BY <2>1, <2>2, <2>3, Zenon
<1>4. QED
  BY <1>2, <1>3, Zenon
-----------------------------------------------------------------------------
(* The steps.                                                              *)

LEMMA InitKept == Init => IInv
<1>1. SUFFICES ASSUME Init PROVE IInv
  OBVIOUS
<1>2. <<>> \in Seq(Seq(Item)) /\ <<>> \in Seq(Item) /\ Len(<<>>) = 0 /\ 1..0 = {}
  OBVIOUS
<1>3. Places(<<>>) = {} /\ Ascending(<<>>)
  BY PlacesNone, Zenon
<1>4. /\ typed = 0 /\ pending = <<>> /\ hung = FALSE /\ in_buff = <<>> /\ frames = <<>>
      /\ at = "call" /\ value = <<>> /\ Noblock = FALSE /\ Time_Out = FALSE /\ alarm = FALSE
      /\ interrupt_flag = FALSE /\ keys = {} /\ lost = {}
  BY <1>1, Zenon DEF Init, Nothing
<1>5. Input(<<>>, <<>>, <<>>, <<>>, {}, 0, {})
  <2>1. Held(<<>>) = {} /\ \A K, R : Stacked(<<>>, K, R)
    BY <1>2, Zenon DEF Held, Stacked
  <2>2. Order(<<>>, <<>>, <<>>, <<>>, {})
    BY <1>3, <2>1, Zenon DEF Order, Before
  <2>3. Seen(<<>>, <<>>, <<>>, <<>>, {}) = {}
    BY <1>3, <2>1, Zenon DEF Seen
  <2>4. QED
    BY <1>2, <2>2, <2>3, Zenon DEF Input
<1>6. Stage("call", <<>>, <<>>) /\ Room(<<>>, "call")
  BY <1>2, Zenon DEF Stage, Room
<1>7. 0 \in 0..MaxTyped /\ 0 <= BuffSize
  BY KeysAssumption
<1>8. QED
  BY <1>2, <1>4, <1>5, <1>6, <1>7, Zenon DEF IInv

LEMMA TypeKept == IInv /\ Type => IInv'
<1>1. SUFFICES ASSUME IInv, Type PROVE IInv'
  OBVIOUS
<1>2. PICK b \in Bytes : pending' = Append(pending, [b |-> b, i |-> typed + 1])
  BY <1>1, Zenon DEF Type
<1>3. /\ typed < MaxTyped /\ typed' = typed + 1
      /\ UNCHANGED <<hung, Time_Out, alarm, interrupt_flag, in_buff, frames, at, value, Noblock,
                     keys, lost>>
  BY <1>1, Zenon DEF Type, reading
<1>4. typed \in 0..MaxTyped /\ Input(frames, value, in_buff, pending, keys, typed, lost)
  BY <1>1, Zenon DEF IInv
<1>5. MaxTyped \in Nat
  BY KeysAssumption, Zenon
<1> DEFINE x == [b |-> b, i |-> typed + 1]
           q == Append(pending, x)
<1>6. /\ frames \in Seq(Seq(Item)) /\ value \in Seq(Item) /\ in_buff \in Seq(Item)
      /\ pending \in Seq(Item) /\ Order(frames, value, in_buff, pending, keys)
      /\ Seen(frames, value, in_buff, pending, keys) = (1..typed) \ lost /\ lost \subseteq 1..typed
  BY <1>4, Zenon DEF Input
<1>7. typed \in Nat /\ typed + 1 \in 0..MaxTyped
  BY <1>3, <1>4, <1>5
<1>8. x \in Item /\ x.i = typed + 1
  BY <1>7 DEF Item
<1>9. q \in Seq(Item)
  BY <1>6, <1>8
<1>10. Seen(frames, value, in_buff, pending, keys) \subseteq 1..typed
  BY <1>6, Zenon
<1> HIDE DEF x
<1>11. Grown(frames, value, in_buff, pending, keys, q, typed)
  BY <1>6, <1>7, <1>8, <1>10, TypeOrder, Zenon
<1> HIDE DEF q
<1>12. Input(frames, value, in_buff, q, keys, typed + 1, lost)
  <2>1. ((1..typed) \ lost) \cup {typed + 1} = (1..(typed + 1)) \ lost /\ lost \subseteq 1..(typed + 1)
    BY <1>6, <1>7
  <2>2. QED
    BY <1>6, <1>9, <1>11, <2>1, Zenon DEF Input, Grown
<1>13. pending' = q
  BY <1>2, Zenon DEF q, x
<1>14. QED
  BY <1>1, <1>3, <1>7, <1>12, <1>13, Zenon DEF IInv

LEMMA OutsideKept == IInv /\ (HangUp \/ Winch \/ Clear \/ UNCHANGED vars) => IInv'
<1>1. ASSUME IInv, HangUp PROVE IInv'
  BY <1>1, Zenon DEF IInv, HangUp, reading
<1>2. ASSUME IInv, Winch PROVE IInv'
  BY <1>2, Zenon DEF IInv, Winch, reading, input
<1>3. ASSUME IInv, Clear PROVE IInv'
  BY <1>3, Zenon DEF IInv, Clear, reading, input
<1>4. ASSUME IInv, UNCHANGED vars PROVE IInv'
  BY <1>4, Zenon DEF IInv, vars
<1>5. QED
  BY <1>1, <1>2, <1>3, <1>4, Zenon

LEMMA CallKept == IInv /\ Call => IInv'
<1>1. SUFFICES ASSUME IInv, Call PROVE IInv'
  OBVIOUS
<1>2. /\ at = "call" /\ at' = "read" /\ Time_Out' = (Time_Out /\ ~Noblock)
      /\ UNCHANGED <<typed, pending, hung, in_buff, frames, value, Noblock, alarm, interrupt_flag,
                     keys, lost>>
  BY <1>1, Zenon DEF Call, input
<1>3. Room(frames, "read") /\ Stage("read", value, frames)
  <2>1. Room(frames, "call") /\ Stage("call", value, frames)
    BY <1>1, <1>2, Zenon DEF IInv
  <2>2. Room(frames, "read")
    BY <2>1, RoomStays, Zenon
  <2>3. QED
    BY <2>1, <2>2, Zenon DEF Stage
<1>4. QED
  BY <1>1, <1>2, <1>3, Zenon DEF IInv

\* The input of one state becomes that of another.
LEMMA Moved ==
  ASSUME NEW F, NEW v, NEW b, NEW p, NEW K, NEW t, NEW l, Input(F, v, b, p, K, t, l),
         NEW G \in Seq(Seq(Item)), NEW x \in Seq(Item), NEW y \in Seq(Item), NEW z \in Seq(Item), NEW J,
         Becomes(F, v, b, p, K, G, x, y, z, J)
  PROVE  Input(G, x, y, z, J, t, l)
BY Zenon DEF Input, Becomes

\* A byte that nobody typed.
LEMMA JunkInput ==
  ASSUME NEW F, NEW b, NEW p, NEW K, NEW t \in Nat, NEW l, Input(F, <<>>, b, p, K, t, l),
         NEW c \in Bytes \cup {Low}
  PROVE  <<[b |-> c, i |-> 0]>> \in Seq(Item) /\ Input(F, <<[b |-> c, i |-> 0]>>, b, p, K, t, l)
<1> DEFINE x == [b |-> c, i |-> 0]
           j == <<x>>
<1>1. x \in Item /\ x.i = 0
  BY KeysAssumption DEF Item
<1>2. Places(j) = {} /\ Ascending(j) /\ Places(<<>>) = {}
  BY <1>1, PlacesOne, PlacesNone
<1> HIDE DEF x
<1>3. j \in Seq(Item)
  BY <1>1
<1> HIDE DEF j
<1>4. Missing(<<>>, b, p, j, b, p) = {} /\ l = l \cup Missing(<<>>, b, p, j, b, p)
  <2>1. Missing(<<>>, b, p, j, b, p) = {}
    BY <1>2, Zenon DEF Missing
  <2>2. QED
    BY <2>1, Zenon
<1>5. b \in Seq(Item) /\ p \in Seq(Item)
  BY Zenon DEF Input
<1>6. Places(j) \subseteq Places(<<>>)
  BY <1>2, Zenon
<1>7. Input(F, j, b, p, K, t, l)
  BY <1>2, <1>3, <1>4, <1>5, <1>6, Lose, Zenon
<1>8. QED
  BY <1>3, <1>7, Zenon DEF j, x

LEMMA TakeKept == IInv /\ Take => IInv'
<1>1. SUFFICES ASSUME IInv, Take PROVE IInv'
  OBVIOUS
<1>2. /\ at = "read" /\ at' = "check"
      /\ UNCHANGED <<typed, hung, frames, Noblock, Time_Out, alarm, interrupt_flag, keys, lost>>
  BY <1>1, Zenon DEF Take
<1>3. /\ typed \in 0..MaxTyped /\ Len(in_buff) <= BuffSize
      /\ Input(frames, value, in_buff, pending, keys, typed, lost)
      /\ Stage("read", value, frames) /\ Room(frames, "read")
  BY <1>1, <1>2, Zenon DEF IInv
<1>4. Room(frames, "check")
  BY <1>3, RoomStays, Zenon
<1>5. value = <<>>
  BY <1>3, Zenon DEF Stage
<1>6. Input(frames, <<>>, in_buff, pending, keys, typed, lost)
  BY <1>3, <1>5, Zenon
<1>7. /\ frames \in Seq(Seq(Item)) /\ in_buff \in Seq(Item) /\ pending \in Seq(Item)
      /\ Order(frames, <<>>, in_buff, pending, keys)
  BY <1>6, Zenon DEF Input
<1>8. typed \in Nat /\ BuffSize \in Nat /\ Junk \subseteq Bytes
  BY <1>3, KeysAssumption
<1>9. \A v : Len(v) <= 1 => Stage("check", v, frames)
  BY Zenon DEF Stage
<1>10. \A y : Len(<<y>>) <= 1
  OBVIOUS
<1>11. SUFFICES Len(value') <= 1 /\ Len(in_buff') <= BuffSize /\
                Input(frames, value', in_buff', pending', keys, typed, lost)
  BY <1>1, <1>2, <1>4, <1>9, Zenon DEF IInv
<1>12. CASE in_buff # <<>> /\ value' = <<Head(in_buff)>> /\ in_buff' = Tail(in_buff) /\ pending' = pending
  <2> DEFINE h == <<in_buff[1]>>
             r == Tail(in_buff)
  <2>1. Head(in_buff) = in_buff[1] /\ in_buff[1] \in Item /\ r \in Seq(Item) /\ Len(r) = Len(in_buff) - 1
    BY <1>7, <1>12, HeadAndTail, Zenon
  <2>2. Becomes(frames, <<>>, in_buff, pending, keys, frames, h, r, pending, keys)
    BY <1>7, <1>12, TakeOrder, Zenon
  <2>3. h \in Seq(Item)
    BY <2>1
  <2>4. Len(r) <= BuffSize
    BY <1>3, <1>7, <1>8, <2>1
  <2> HIDE DEF r
  <2>5. Input(frames, h, r, pending, keys, typed, lost)
    BY <1>6, <1>7, <2>1, <2>2, <2>3, Moved, Zenon
  <2>6. QED
    BY <1>10, <1>12, <2>1, <2>4, <2>5, Zenon DEF r
<1>13. CASE in_buff = <<>> /\ pending # <<>> /\ value' = <<Head(pending)>> /\ pending' = Tail(pending)
              /\ in_buff' = in_buff
  <2> DEFINE h == <<pending[1]>>
             r == Tail(pending)
  <2>1. Head(pending) = pending[1] /\ pending[1] \in Item /\ r \in Seq(Item)
    BY <1>7, <1>13, HeadAndTail, Zenon
  <2>2. Becomes(frames, <<>>, in_buff, pending, keys, frames, h, in_buff, r, keys)
    BY <1>7, <1>13, TakeOrder, Zenon
  <2>3. h \in Seq(Item)
    BY <2>1
  <2> HIDE DEF r
  <2>4. Input(frames, h, in_buff, r, keys, typed, lost)
    BY <1>6, <1>7, <2>1, <2>2, <2>3, Moved, Zenon
  <2>5. QED
    BY <1>3, <1>10, <1>13, <2>1, <2>4, Zenon DEF r
<1>14. CASE value' = <<>> /\ in_buff' = in_buff /\ pending' = pending
  <2>1. Len(<<>>) <= 1
    OBVIOUS
  <2>2. QED
    BY <1>3, <1>6, <1>14, <2>1, Zenon
<1>15. ASSUME NEW b \in Junk, value' = <<[b |-> b, i |-> 0]>>, in_buff' = in_buff, pending' = pending
       PROVE  Len(value') <= 1 /\ Len(in_buff') <= BuffSize /\
              Input(frames, value', in_buff', pending', keys, typed, lost)
  <2>1. Input(frames, <<[b |-> b, i |-> 0]>>, in_buff, pending, keys, typed, lost)
    BY <1>6, <1>8, JunkInput, Zenon
  <2>2. QED
    BY <1>3, <1>10, <1>15, <2>1, Zenon
<1>16. QED
  BY <1>1, <1>12, <1>13, <1>14, <1>15, Zenon DEF Take, Nothing

LEMMA CheckKept == IInv /\ Check => IInv'
<1>1. SUFFICES ASSUME IInv, Check PROVE IInv'
  OBVIOUS
<1>2. /\ at = "check" /\ lost' = lost \cup (Places(value) \ Places(Kept))
      /\ UNCHANGED <<typed, pending, hung, in_buff, keys>>
  BY <1>1, Zenon DEF Check, input
<1>3. /\ typed \in 0..MaxTyped /\ {hung, Noblock, Time_Out, alarm, interrupt_flag} \subseteq BOOLEAN
      /\ Len(in_buff) <= BuffSize
      /\ Input(frames, value, in_buff, pending, keys, typed, lost) /\ Room(frames, "check")
  BY <1>1, <1>2, Zenon DEF IInv
<1>4. {Time_Out, alarm, Noblock} \subseteq BOOLEAN /\ hung \in BOOLEAN /\ interrupt_flag \in BOOLEAN
  BY <1>3, Zenon
<1>5. value \in Seq(Item) /\ in_buff \in Seq(Item) /\ pending \in Seq(Item) /\ frames \in Seq(Seq(Item))
  BY <1>3, Zenon DEF Input
<1>6. Input(frames, Kept, in_buff, pending, keys, typed, lost')
  <2>1. <<>> \in Seq(Item) /\ Places(<<>>) = {} /\ Ascending(<<>>)
    BY PlacesNone
  <2>2. Kept \in Seq(Item) /\ Places(Kept) \subseteq Places(value) /\ (Ascending(value) => Ascending(Kept))
    BY <1>5, <2>1, Zenon DEF Kept, Nothing
  <2> DEFINE c == Kept
  <2>3. lost' = lost \cup Missing(value, in_buff, pending, c, in_buff, pending)
    <3>1. Missing(value, in_buff, pending, c, in_buff, pending) = Places(value) \ Places(c)
      BY Zenon DEF Missing
    <3>2. QED
      BY <1>2, <3>1, Zenon
  <2>4. typed \in Nat
    BY <1>3
  <2> DEFINE m == lost'
  <2>5. c \in Seq(Item) /\ m = lost \cup Missing(value, in_buff, pending, c, in_buff, pending)
    BY <2>2, <2>3, Zenon
  <2> HIDE DEF c, m
  <2>6. Input(frames, c, in_buff, pending, keys, typed, m)
    BY <1>3, <1>5, <2>2, <2>4, <2>5, Lose, Zenon DEF c
  <2>7. QED
    BY <2>6, Zenon DEF c, m
<1>7. CASE /\ Kept = <<>> /\ interrupt_flag' = FALSE /\ at' = "call" /\ value' = <<>>
           /\ frames' = Append(frames, <<>>) /\ UNCHANGED <<Time_Out, alarm, Noblock>>
  <2> DEFINE G == Append(frames, <<>>)
             T == Seq(Item)
             m == lost'
  <2>1. Input(frames, <<>>, in_buff, pending, keys, typed, m)
    BY <1>6, <1>7, Zenon
  <2>2. <<>> \in Seq(Item) /\ Len(<<>>) = 0
    OBVIOUS
  <2>3. Becomes(frames, <<>>, in_buff, pending, keys, G, <<>>, in_buff, pending, keys)
    <3>1. Order(frames, <<>>, in_buff, pending, keys)
      BY <2>1, Zenon DEF Input
    <3>2. QED
      BY <1>5, <2>2, <3>1, PushOrder, Zenon
  <2>4. G \in Seq(T)
    <3>1. frames \in Seq(T) /\ <<>> \in T
      BY <1>5, <2>2, Zenon
    <3> HIDE DEF T
    <3>2. QED
      BY <3>1, Called, Zenon
  <2>5. Room(G, "call")
    <3>1. Len(<<>>) <= Longest
      BY Lengths
    <3>2. QED
      BY <1>3, <1>5, <2>2, <3>1, RoomPush, Zenon
  <2> HIDE DEF G, m
  <2>6. Input(G, <<>>, in_buff, pending, keys, typed, m)
    BY <1>5, <2>1, <2>2, <2>3, <2>4, Moved, Zenon
  <2>7. Stage("call", <<>>, G)
    BY Zenon DEF Stage
  <2>8. frames' = G /\ lost' = m
    BY <1>7, Zenon DEF G, m
  <2>9. QED
    BY <1>2, <1>3, <1>4, <1>7, <2>5, <2>6, <2>7, <2>8, Zenon DEF IInv
<1>8. CASE Decode(frames, Kept) /\ interrupt_flag' = interrupt_flag
  <2> DEFINE c == Kept
             m == lost'
  <2>1. Decode(frames, c) /\ Input(frames, c, in_buff, pending, keys, typed, m)
    BY <1>6, <1>8, Zenon
  <2> HIDE DEF c, m
  <2>2. /\ Input(frames', value', in_buff, pending, keys, typed, m) /\ Stage(at', value', frames')
        /\ Room(frames', at')
        /\ at' \in {"loop", "return"} /\ {Time_Out', alarm', Noblock'} \subseteq BOOLEAN
    BY <1>3, <1>4, <2>1, DecodeKept, Zenon
  <2>3. QED
    BY <1>2, <1>3, <1>4, <1>8, <2>2, Zenon DEF IInv, m
<1>9. QED
  BY <1>1, <1>7, <1>8, Zenon DEF Check, Nothing

\* The innermost call ends.
LEMMA PopInput ==
  ASSUME NEW F, F # <<>>, NEW v, NEW b, NEW p, NEW K, NEW t, NEW l, Input(F, v, b, p, K, t, l),
         NEW x, (x = v /\ Inner(F) = <<>>) \/ (x = Inner(F) /\ v = <<>>)
  PROVE  Input(Outer(F), x, b, p, K, t, l)
<1> DEFINE T == Seq(Item)
           G == Outer(F)
<1>1. F \in Seq(T) /\ v \in T /\ b \in T /\ p \in T /\ Order(F, v, b, p, K)
  BY Zenon DEF Input
<1>2. G \in Seq(T) /\ Inner(F) \in T
  <2> HIDE DEF T
  <2>1. QED
    BY <1>1, Calls, Zenon
<1>3. x \in T
  BY <1>1, <1>2, Zenon
<1>4. Becomes(F, v, b, p, K, G, x, b, p, K)
  BY <1>1, PopOrder, Zenon
<1> HIDE DEF G
<1>5. Input(G, x, b, p, K, t, l)
  BY <1>1, <1>2, <1>3, <1>4, Moved, Zenon
<1>6. QED
  BY <1>5, Zenon DEF G

LEMMA ReturnKept == IInv /\ Return => IInv'
<1>1. SUFFICES ASSUME IInv, Return PROVE IInv'
  OBVIOUS
<1>2. /\ at = "return" /\ UNCHANGED <<typed, pending, hung, in_buff, interrupt_flag>>
  BY <1>1, Zenon DEF Return, input
<1>3. /\ typed \in 0..MaxTyped /\ {hung, Noblock, Time_Out, alarm, interrupt_flag} \subseteq BOOLEAN
      /\ Len(in_buff) <= BuffSize
      /\ Input(frames, value, in_buff, pending, keys, typed, lost) /\ Room(frames, "return")
  BY <1>1, <1>2, Zenon DEF IInv
<1>4. {Time_Out, alarm, Noblock} \subseteq BOOLEAN /\ hung \in BOOLEAN /\ interrupt_flag \in BOOLEAN
  BY <1>3, Zenon
<1>5. value \in Seq(Item) /\ in_buff \in Seq(Item) /\ pending \in Seq(Item) /\ frames \in Seq(Seq(Item))
  BY <1>3, Zenon DEF Input
<1>6. typed \in Nat /\ <<>> \in Seq(Item)
  BY <1>3
<1>7. CASE /\ frames = <<>> /\ keys' = keys \cup Places(value)
           /\ at' = (IF value = Nothing THEN "exit" ELSE "call") /\ value' = Nothing
           /\ UNCHANGED <<frames, Noblock, Time_Out, alarm, lost>>
  <2> DEFINE J == keys \cup Places(value)
  <2>1. Becomes(<<>>, value, in_buff, pending, keys, <<>>, <<>>, in_buff, pending, J)
    <3>1. Order(<<>>, value, in_buff, pending, keys)
      BY <1>3, <1>7, Zenon DEF Input
    <3>2. QED
      BY <3>1, GiveOrder, Zenon
  <2>2. Input(<<>>, value, in_buff, pending, keys, typed, lost) /\ <<>> \in Seq(Seq(Item))
    BY <1>3, <1>5, <1>7, Zenon
  <2> HIDE DEF J
  <2>3. Input(<<>>, <<>>, in_buff, pending, J, typed, lost)
    BY <1>5, <1>6, <2>1, <2>2, Moved, Zenon
  <2>4. at' \in {"exit", "call"} /\ value' = <<>> /\ frames' = <<>> /\ keys' = J
    BY <1>7, Zenon DEF Nothing, J
  <2>5. Stage(at', <<>>, <<>>) /\ Room(<<>>, at')
    <3>1. at' # "loop" /\ at' # "check"
      BY <2>4
    <3>2. Room(<<>>, at')
      BY <1>3, <1>7, RoomStays, Zenon
    <3>3. QED
      BY <3>1, <3>2, Zenon DEF Stage
  <2>6. QED
    BY <1>2, <1>3, <1>7, <2>3, <2>4, <2>5, Zenon DEF IInv
<1>8. CASE /\ frames # <<>> /\ Inner(frames) = <<>> /\ Decode(Outer(frames), value)
           /\ UNCHANGED <<keys, lost>>
  <2> DEFINE G == Outer(frames)
  <2>1. Input(G, value, in_buff, pending, keys, typed, lost)
    BY <1>3, <1>8, PopInput, Zenon
  <2>2. Room(G, "return")
    BY <1>3, <1>5, <1>8, RoomPop, Zenon
  <2>3. Decode(G, value)
    BY <1>8, Zenon
  <2> HIDE DEF G
  <2>4. /\ Input(frames', value', in_buff, pending, keys, typed, lost) /\ Stage(at', value', frames')
        /\ Room(frames', at')
        /\ at' \in {"loop", "return"} /\ {Time_Out', alarm', Noblock'} \subseteq BOOLEAN
    BY <1>4, <2>1, <2>2, <2>3, DecodeKept, Zenon
  <2>5. QED
    BY <1>2, <1>3, <1>4, <1>8, <2>4, Zenon DEF IInv
<1> DEFINE item == IF Len(value) > 1 THEN <<[b |-> Low, i |-> 0]>> ELSE value
<1>9. CASE /\ frames # <<>> /\ Inner(frames) # <<>>
           /\ frames' = Append(Outer(frames), Inner(frames) \o item)
           /\ lost' = lost \cup (Places(value) \ Places(item))
           /\ at' = "loop" /\ value' = Nothing /\ UNCHANGED <<keys, Noblock, Time_Out, alarm>>
  <2>1. item \in Seq(Item) /\ Len(item) <= 1 /\ Places(item) \subseteq Places(value)
        /\ (Ascending(value) => Ascending(item))
    <3>1. CASE Len(value) > 1
      <4> DEFINE x == [b |-> Low, i |-> 0]
      <4>1. x \in Item /\ x.i = 0
        BY KeysAssumption DEF Item
      <4> HIDE DEF x
      <4>2. Places(<<x>>) = {} /\ Ascending(<<x>>)
        BY <4>1, PlacesOne
      <4>3. <<x>> \in Seq(Item) /\ Len(<<x>>) <= 1
        BY <4>1
      <4>4. item = <<x>>
        BY <3>1, Zenon DEF x
      <4>5. QED
        BY <4>2, <4>3, <4>4, Zenon
    <3>2. CASE ~(Len(value) > 1)
      <4>1. item = value
        BY <3>2, Zenon
      <4>2. Len(value) <= 1
        BY <1>5, <3>2
      <4>3. QED
        BY <1>5, <4>1, <4>2, Zenon
    <3>3. QED
      BY <3>1, <3>2, Zenon
  <2> DEFINE m == lost'
             T == Seq(Item)
             s == Inner(frames)
             E == Outer(frames)
             d == s \o item
             G == Append(E, d)
  <2>2. m = lost \cup Missing(value, in_buff, pending, item, in_buff, pending)
    <3>1. Missing(value, in_buff, pending, item, in_buff, pending) = Places(value) \ Places(item)
      BY Zenon DEF Missing
    <3>2. QED
      BY <1>9, <3>1, Zenon
  <2>3. frames' = G /\ lost' = m
    BY <1>9, Zenon
  <2> HIDE DEF item, m
  <2>4. Input(frames, item, in_buff, pending, keys, typed, m)
    BY <1>3, <1>5, <1>6, <2>1, <2>2, Lose, Zenon
  <2>5. Becomes(frames, item, in_buff, pending, keys, G, <<>>, in_buff, pending, keys)
    <3>1. Order(frames, item, in_buff, pending, keys)
      BY <2>4, Zenon DEF Input
    <3>2. QED
      BY <1>5, <1>9, <2>1, <3>1, ExtendOrder, Zenon
  <2>6. E \in Seq(T) /\ s \in T
    <3>1. frames \in Seq(T)
      BY <1>5, Zenon
    <3> HIDE DEF T
    <3>2. QED
      BY <1>9, <3>1, Calls, Zenon
  <2>7. Room(E, "return") /\ Len(s) < Max_Key_len
    <3>1. Room(E, "return")
      BY <1>3, <1>5, <1>9, RoomPop, Zenon
    <3>2. "return" # "loop"
      OBVIOUS
    <3>3. Len(s) < Max_Key_len
      BY <1>3, <1>5, <1>9, <3>2, RoomPop, Zenon
    <3>4. QED
      BY <3>1, <3>3, Zenon
  <2>8. s # <<>>
    BY <1>9, Zenon
  <2> HIDE DEF s, E
  <2>9. d \in T /\ d # <<>> /\ Len(d) = Len(s) + Len(item)
    BY <2>1, <2>6, <2>8
  <2>10. Len(d) <= Longest
    BY <2>1, <2>6, <2>7, <2>9, Lengths
  <2> HIDE DEF d
  <2>11. Room(G, "loop")
    BY <2>6, <2>7, <2>9, <2>10, RoomPush, Zenon
  <2>12. G \in Seq(T) /\ G # <<>> /\ Inner(G) = d
    <3> HIDE DEF T
    <3>1. QED
      BY <2>6, <2>9, Called, Zenon
  <2> HIDE DEF G
  <2>13. Input(G, <<>>, in_buff, pending, keys, typed, m)
    BY <1>5, <1>6, <2>4, <2>5, <2>12, Moved, Zenon
  <2>14. Stage("loop", <<>>, G)
    BY <2>9, <2>12, Zenon DEF Stage
  <2>15. QED
    BY <1>2, <1>3, <1>9, <2>3, <2>11, <2>13, <2>14, Zenon DEF IInv, Nothing
<1>10. QED
  BY <1>1, <1>7, <1>8, <1>9, Zenon DEF Return

LEMMA LoopKept == IInv /\ Loop => IInv'
<1>1. SUFFICES ASSUME IInv, Loop PROVE IInv'
  OBVIOUS
<1>2. /\ at = "loop" /\ UNCHANGED <<typed, hung, Time_Out, interrupt_flag, keys>>
  BY <1>1, Zenon DEF Loop
<1>3. /\ typed \in 0..MaxTyped /\ {hung, Noblock, Time_Out, alarm, interrupt_flag} \subseteq BOOLEAN
      /\ Len(in_buff) <= BuffSize /\ Input(frames, value, in_buff, pending, keys, typed, lost)
      /\ Stage("loop", value, frames) /\ Room(frames, "loop")
  BY <1>1, <1>2, Zenon DEF IInv
<1>4. value \in Seq(Item) /\ in_buff \in Seq(Item) /\ pending \in Seq(Item) /\ frames \in Seq(Seq(Item))
  BY <1>3, Zenon DEF Input
<1>5. value = <<>> /\ frames # <<>> /\ Inner(frames) # <<>>
  BY <1>3, Zenon DEF Stage
<1>6. typed \in Nat /\ <<>> \in Seq(Item)
  BY <1>3
<1> DEFINE s == Inner(frames)
           z == IF hung THEN pending ELSE <<>>
<1>7. CASE /\ Len(s) < Max_Key_len /\ at' = "call"
           /\ UNCHANGED <<frames, value, in_buff, pending, alarm, Noblock, lost>>
  <2>1. Room(frames, "call")
    BY <1>3, <1>4, <1>5, <1>7, RoomPop, Zenon
  <2>2. Stage("call", value, frames)
    BY <1>5, Zenon DEF Stage
  <2>3. QED
    BY <1>2, <1>3, <1>7, <2>1, <2>2, Zenon DEF IInv
<1>8. CASE /\ at' = "return" /\ frames' = Outer(frames)
           /\ alarm' = (alarm /\ Time_Out) /\ Noblock' = FALSE /\ pending' = z
           /\ IF Found(s)
              THEN /\ value' = s /\ in_buff' = in_buff
                   /\ lost' = lost \cup Places(Discarded)
              ELSE /\ value' = <<s[1]>> /\ in_buff' = Fitting(PushedBack(s))
                   /\ lost' = lost \cup Places(Discarded)
                                   \cup (Places(PushedBack(s)) \ Places(Fitting(PushedBack(s))))
  <2> DEFINE G == Outer(frames)
             T == Seq(Item)
             m == lost'
  <2>1. G \in Seq(T) /\ s \in T
    <3>1. frames \in Seq(T)
      BY <1>4, Zenon
    <3> HIDE DEF T
    <3>2. QED
      BY <1>5, <3>1, Calls, Zenon
  <2>2. Input(G, s, in_buff, pending, keys, typed, lost)
    BY <1>3, <1>5, PopInput, Zenon
  <2>3. Room(G, "return")
    BY <1>3, <1>4, <1>5, RoomPop, Zenon
  <2>4. /\ z \in T /\ Places(z) \subseteq Places(pending) /\ (Ascending(pending) => Ascending(z))
        /\ Places(pending) \ Places(z) = Places(Discarded)
    <3>1. Places(<<>>) = {} /\ Ascending(<<>>)
      BY PlacesNone, Zenon
    <3>2. CASE hung
      BY <1>4, <3>1, <3>2, Zenon DEF Discarded
    <3>3. CASE ~hung
      BY <1>6, <3>1, <3>3, Zenon DEF Discarded
    <3>4. QED
      BY <3>2, <3>3, Zenon
  <2>5. \A v : Stage("return", v, G)
    BY Zenon DEF Stage
  <2>6. s # <<>>
    BY <1>5, Zenon
  <2>7. frames' = G /\ lost' = m /\ pending' = z
    BY <1>8, Zenon
  <2> HIDE DEF G, s, z
  <2>8. SUFFICES Len(in_buff') <= BuffSize /\ Input(G, value', in_buff', z, keys, typed, m)
    BY <1>2, <1>3, <1>8, <2>3, <2>5, <2>7, Zenon DEF IInv
  <2>9. CASE Found(s)
    <3>1. value' = s /\ in_buff' = in_buff /\ m = lost \cup Places(Discarded)
      BY <1>8, <2>9, Zenon
    <3>2. m = lost \cup Missing(s, in_buff, pending, s, in_buff, z)
      <4>1. Missing(s, in_buff, pending, s, in_buff, z) = Places(pending) \ Places(z)
        BY Zenon DEF Missing
      <4>2. QED
        BY <2>4, <3>1, <4>1, Zenon
    <3> HIDE DEF m
    <3>3. Input(G, s, in_buff, z, keys, typed, m)
      BY <1>4, <1>6, <2>1, <2>2, <2>4, <3>2, Lose, Zenon
    <3>4. QED
      BY <1>3, <3>1, <3>3, Zenon
  <2>10. CASE ~Found(s)
    <3> DEFINE h == <<s[1]>>
               b == Tail(s) \o in_buff
               y == Fitting(b)
    <3>1. value' = h /\ in_buff' = y /\ m = lost \cup Places(Discarded) \cup (Places(b) \ Places(y))
      BY <1>8, <2>10, Zenon DEF PushedBack
    <3>2. s[1] \in Item /\ Tail(s) \in Seq(Item)
      BY <2>1, <2>6, HeadAndTail, Zenon
    <3>3. h \in Seq(Item) /\ b \in Seq(Item)
      BY <1>4, <3>2
    <3>4. Becomes(G, s, in_buff, pending, keys, G, h, b, pending, keys)
      <4>1. Order(G, s, in_buff, pending, keys)
        BY <2>2, Zenon DEF Input
      <4>2. QED
        BY <1>4, <2>1, <2>6, <4>1, PushBackOrder, Zenon
    <3> HIDE DEF h, b
    <3>5. Input(G, h, b, pending, keys, typed, lost)
      BY <1>4, <2>1, <2>2, <3>3, <3>4, Moved, Zenon
    <3>6. /\ y \in Seq(Item) /\ Len(y) <= BuffSize /\ Places(y) \subseteq Places(b)
          /\ (Ascending(b) => Ascending(y))
      BY <3>3, FittingType, Zenon
    <3> HIDE DEF y
    <3>7. m = lost \cup Missing(h, b, pending, h, y, z)
      <4>1. Missing(h, b, pending, h, y, z) = (Places(b) \ Places(y)) \cup (Places(pending) \ Places(z))
        BY Zenon DEF Missing
      <4>2. QED
        BY <2>4, <3>1, <4>1, Zenon
    <3> HIDE DEF m
    <3>8. Input(G, h, y, z, keys, typed, m)
      BY <1>4, <1>6, <2>4, <3>3, <3>5, <3>6, <3>7, Lose, Zenon
    <3>9. QED
      BY <3>1, <3>6, <3>8, Zenon
  <2>11. QED
    BY <2>9, <2>10, Zenon
<1>9. QED
  BY <1>1, <1>7, <1>8, Zenon DEF Loop

LEMMA StepKept == IInv /\ [Next]_vars => IInv'
<1>1. ASSUME IInv, Next PROVE IInv'
  <2>1. Outside \/ Clear \/ Ee
    BY <1>1, Zenon DEF Next
  <2>2. CASE Outside
    BY <1>1, <2>2, TypeKept, OutsideKept, Zenon DEF Outside
  <2>3. CASE Clear
    BY <1>1, <2>3, OutsideKept, Zenon
  <2>4. CASE Ee
    BY <1>1, <2>4, CallKept, TakeKept, CheckKept, ReturnKept, LoopKept, Zenon DEF Ee
  <2>5. QED
    BY <2>1, <2>2, <2>3, <2>4, Zenon
<1>2. QED
  BY <1>1, OutsideKept, Zenon

LEMMA AlwaysIInv == Spec => []IInv
BY InitKept, StepKept, PTL DEF Spec
-----------------------------------------------------------------------------
(* The properties.                                                         *)

\* Q is the n calls of F, and behind them three strings.
Queued(F, v, b, p, Q, n) ==
  /\ \A k \in 1..n : k \in DOMAIN Q /\ Q[k] = F[k]
  /\ n + 1 \in DOMAIN Q /\ n + 2 \in DOMAIN Q /\ n + 3 \in DOMAIN Q
  /\ Q[n + 1] = v /\ Q[n + 2] = b /\ Q[n + 3] = p
  /\ \A k \in DOMAIN Q : k \in 1..n \/ k = n + 1 \/ k = n + 2 \/ k = n + 3
  /\ \A j, k \in DOMAIN Q : j < k =>
       \/ j \in 1..n
       \/ j = n + 1 /\ (k = n + 2 \/ k = n + 3)
       \/ j = n + 2 /\ k = n + 3

LEMMA Behind ==
  ASSUME NEW T, NEW F \in Seq(T), NEW v, NEW b, NEW p, NEW Q, Q = F \o <<v, b, p>>, NEW n, n = Len(F)
  PROVE  Queued(F, v, b, p, Q, n)
<1>1. n \in Nat /\ DOMAIN Q = 1..(n + 3)
  OBVIOUS
<1>2. /\ \A k \in 1..n : Q[k] = F[k]
      /\ Q[n + 1] = v /\ Q[n + 2] = b /\ Q[n + 3] = p
  OBVIOUS
<1>3. /\ \A k \in 1..n : k \in DOMAIN Q
      /\ n + 1 \in DOMAIN Q /\ n + 2 \in DOMAIN Q /\ n + 3 \in DOMAIN Q
  BY <1>1
<1>4. \A k \in DOMAIN Q : k \in 1..n \/ k = n + 1 \/ k = n + 2 \/ k = n + 3
  <2>1. \A k \in 1..(n + 3) : k \in 1..n \/ k = n + 1 \/ k = n + 2 \/ k = n + 3
    BY <1>1
  <2>2. QED
    BY <1>1, <2>1, Zenon
<1>5. /\ ~(n + 1 < n + 1) /\ ~(n + 2 < n + 1) /\ ~(n + 2 < n + 2)
      /\ ~(n + 3 < n + 1) /\ ~(n + 3 < n + 2) /\ ~(n + 3 < n + 3)
      /\ \A k \in 1..n : ~(n + 1 < k) /\ ~(n + 2 < k) /\ ~(n + 3 < k)
  BY <1>1
<1>6. ASSUME NEW j \in DOMAIN Q, NEW k \in DOMAIN Q, j < k, j \notin 1..n
      PROVE  (j = n + 1 /\ (k = n + 2 \/ k = n + 3)) \/ (j = n + 2 /\ k = n + 3)
  BY <1>4, <1>5, <1>6, Zenon
<1>7. QED
  BY <1>2, <1>3, <1>4, <1>6, Zenon DEF Queued

LEMMA InOrder == IInv => KeysInOrder
<1>1. SUFFICES ASSUME IInv PROVE KeysInOrder
  OBVIOUS
<1> DEFINE F == frames
           v == value
           b == in_buff
           p == pending
           K == keys
           V == Places(v)
           B == Places(b)
           P == Places(p)
           n == Len(F)
           T == Seq(Item)
           Q == Queue
           q1 == n + 1
           q2 == n + 2
           q3 == n + 3
<1>2. F \in Seq(T) /\ Order(F, v, b, p, K) /\ Seen(F, v, b, p, K) = (1..typed) \ lost
  BY <1>1, Zenon DEF IInv, Input
<1>3. /\ \A k \in 1..n : k \in DOMAIN Q /\ Q[k] = F[k]
      /\ q1 \in DOMAIN Q /\ q2 \in DOMAIN Q /\ q3 \in DOMAIN Q
      /\ Q[q1] = v /\ Q[q2] = b /\ Q[q3] = p
      /\ \A k \in DOMAIN Q : k \in 1..n \/ k = q1 \/ k = q2 \/ k = q3
      /\ \A j, k \in DOMAIN Q : j < k =>
           j \in 1..n \/ (j = q1 /\ (k = q2 \/ k = q3)) \/ (j = q2 /\ k = q3)
  <2> HIDE DEF T, n
  <2>1. Q = F \o <<v, b, p>> /\ n = Len(F)
    BY Zenon DEF Queue, n
  <2> HIDE DEF F, v, b, p, Q
  <2>2. Queued(F, v, b, p, Q, n)
    BY <1>2, <2>1, Behind, Zenon
  <2>3. QED
    BY <2>2, Zenon DEF Queued
<1>4. /\ Stacked(F, K, V \cup B \cup P) /\ Ascending(v) /\ Ascending(b) /\ Ascending(p)
      /\ Before(K, V \cup B \cup P) /\ Before(V, B \cup P) /\ Before(B, P)
  BY <1>2, Zenon DEF Order
<1>5. /\ Before(K, V) /\ Before(K, B) /\ Before(K, P) /\ Before(V, B) /\ Before(V, P) /\ Before(B, P)
      /\ \A k \in 1..n : /\ Before(Places(F[k]), V) /\ Before(Places(F[k]), B) /\ Before(Places(F[k]), P)
                         /\ Ascending(F[k]) /\ Before(K, Places(F[k]))
      /\ \A j, k \in 1..n : j < k => Before(Places(F[j]), Places(F[k]))
  <2>1. /\ \A k \in 1..n : /\ Before(Places(F[k]), V \cup B \cup P)
                           /\ Ascending(F[k]) /\ Before(K, Places(F[k]))
        /\ \A j, k \in 1..n : j < k => Before(Places(F[j]), Places(F[k]))
    BY <1>4, Zenon DEF Stacked
  <2> HIDE DEF V, B, P, F, K, n
  <2>2. QED
    BY <1>4, <2>1, Zenon DEF Before
<1> HIDE DEF Q, q1, q2, q3, n, F, v, b, p
<1>6. \A q \in DOMAIN Q : Ascending(Q[q]) /\ Before(keys, Places(Q[q]))
  <2>1. SUFFICES ASSUME NEW q \in DOMAIN Q PROVE Ascending(Q[q]) /\ Before(K, Places(Q[q]))
    BY Zenon
  <2>2. q \in 1..n \/ q = q1 \/ q = q2 \/ q = q3
    BY <1>3, Zenon
  <2>3. QED
    BY <1>3, <1>4, <1>5, <2>2, Zenon
<1>7. \A j, k \in DOMAIN Q : j < k => Before(Places(Q[j]), Places(Q[k]))
  <2>1. SUFFICES ASSUME NEW j \in DOMAIN Q, NEW k \in DOMAIN Q, j < k
                 PROVE  Before(Places(Q[j]), Places(Q[k]))
    BY Zenon
  <2>2. CASE j \in 1..n
    <3>1. k \in 1..n \/ k = q1 \/ k = q2 \/ k = q3
      BY <1>3, Zenon
    <3>2. Q[j] = F[j]
      BY <1>3, <2>2, Zenon
    <3>3. CASE k \in 1..n
      BY <1>3, <1>5, <2>1, <2>2, <3>2, <3>3, Zenon
    <3>4. CASE k = q1 \/ k = q2 \/ k = q3
      BY <1>3, <1>5, <2>2, <3>2, <3>4, Zenon
    <3>5. QED
      BY <3>1, <3>3, <3>4, Zenon
  <2>3. CASE j \notin 1..n
    <3>1. (j = q1 /\ (k = q2 \/ k = q3)) \/ (j = q2 /\ k = q3)
      BY <1>3, <2>1, <2>3, Zenon
    <3>2. QED
      BY <1>3, <1>5, <3>1, Zenon
  <2>4. QED
    BY <2>2, <2>3, Zenon
<1>8. keys \cup UNION {Places(Q[q]) : q \in DOMAIN Q} = (1..typed) \ lost
  <2> DEFINE U == UNION {Places(Q[q]) : q \in DOMAIN Q}
  <2>1. ASSUME NEW i \in U PROVE i \in Held(F) \cup V \cup B \cup P
    <3>1. PICK q \in DOMAIN Q : i \in Places(Q[q])
      BY Zenon
    <3>2. q \in 1..n \/ q = q1 \/ q = q2 \/ q = q3
      BY <1>3, Zenon
    <3>3. CASE q \in 1..n
      BY <1>3, <3>1, <3>3, Zenon DEF Held, n
    <3>4. CASE q = q1 \/ q = q2 \/ q = q3
      BY <1>3, <3>1, <3>4, Zenon
    <3>5. QED
      BY <3>2, <3>3, <3>4, Zenon
  <2>2. ASSUME NEW i \in Held(F) PROVE i \in U
    <3>1. PICK k \in 1..n : i \in Places(F[k])
      BY Zenon DEF Held, n
    <3>2. QED
      BY <1>3, <3>1, Zenon
  <2>3. V \subseteq U /\ B \subseteq U /\ P \subseteq U
    <3>1. Places(Q[q1]) \subseteq U /\ Places(Q[q2]) \subseteq U /\ Places(Q[q3]) \subseteq U
      BY <1>3, Zenon
    <3>2. QED
      BY <1>3, <3>1, Zenon
  <2> HIDE DEF U
  <2>4. keys \cup U = Seen(F, v, b, p, K)
    BY <2>1, <2>2, <2>3, Zenon DEF Seen
  <2>5. QED
    BY <1>2, <2>4, Zenon DEF U
<1>9. QED
  BY <1>6, <1>7, <1>8, Zenon DEF KeysInOrder, Q

LEMMA Types == IInv => TypeOK
<1>1. SUFFICES ASSUME IInv PROVE TypeOK
  OBVIOUS
<1>2. /\ frames \in Seq(Seq(Item)) /\ value \in Seq(Item) /\ in_buff \in Seq(Item)
      /\ pending \in Seq(Item) /\ Seen(frames, value, in_buff, pending, keys) = (1..typed) \ lost
      /\ lost \subseteq 1..typed /\ typed \in 0..MaxTyped
  BY <1>1, Zenon DEF IInv, Input
<1>3. keys \cup lost \subseteq 1..MaxTyped
  <2>1. keys \subseteq 1..typed
    BY <1>2, Zenon DEF Seen
  <2>2. 1..typed \subseteq 1..MaxTyped
    BY <1>2, KeysAssumption
  <2>3. QED
    BY <1>2, <2>1, <2>2, Zenon
<1>4. \A k \in DOMAIN frames : Len(frames[k]) <= Max({1, Max_Key_len})
  <2>1. DOMAIN frames = 1..Len(frames)
    BY <1>2
  <2>2. QED
    BY <1>1, <2>1, Zenon DEF IInv, Room, Longest
<1>5. QED
  BY <1>1, <1>2, <1>3, <1>4, Zenon DEF IInv, TypeOK

\* Every variable of the keyboard input keeps its type: in_buff never holds
\* more than it has room for, however often ungetch pushes back what a Get_key
\* has read, and Get_key's string never more than the longest key sequence.
THEOREM TypesKept == Spec => []TypeOK
BY AlwaysIInv, Types, PTL

\* No byte that is typed overtakes another, is given to ee twice, or is missed
\* but for those that the alarm, an overfull in_buff, a key inside a sequence
\* or the ioctl at the end of one takes: for any key sequences, any junk that a
\* read without input leaves and any interleaving of reads, alarms and SIGWINCH.
THEOREM OrderKept == Spec => []KeysInOrder
BY AlwaysIInv, InOrder, PTL
=============================================================================
