--------------------------- MODULE EeMotionProofs ---------------------------
(***************************************************************************)
(* Proofs about the part of EeBuffer that moves the cursor, for every      *)
(* text, window and width of a tab: what it is for the buffer to be sound, *)
(* and that every motion keeps it so and leaves the text alone.            *)
(***************************************************************************)
EXTENDS EeBuffer, Induction, TLAPS

-----------------------------------------------------------------------------
(* Least and greatest numbers.                                             *)

LEMMA MinOf ==
  ASSUME NEW T, T \subseteq Nat, T # {}
  PROVE  Min(T) \in T /\ \A y \in T : Min(T) <= y
<1>1. \E x \in T : \A y \in T : x <= y
  BY Least, Zenon
<1>2. QED
  BY <1>1, Zenon DEF Min

LEMMA MaxOf ==
  ASSUME NEW hi \in Nat, NEW T, T \subseteq 0..hi, T # {}
  PROVE  Max(T) \in T /\ \A y \in T : y <= Max(T)
<1>1. PICK x \in T : \A y \in T : y <= x
  BY Greatest, Zenon
<1>2. \A y \in T : y \in Int
  OBVIOUS
<1>3. \A y \in T : x >= y
  BY <1>1, <1>2
<1>4. Max(T) \in T /\ \A y \in T : Max(T) >= y
  BY <1>3, Zenon DEF Max
<1>5. QED
  BY <1>2, <1>4

LEMMA MinTwo ==
  ASSUME NEW a \in Int, NEW b \in Int
  PROVE  Min({a, b}) \in {a, b} /\ Min({a, b}) <= a /\ Min({a, b}) <= b
<1>1. \E x \in {a, b} : \A y \in {a, b} : x <= y
  OBVIOUS
<1>2. QED
  BY <1>1 DEF Min

LEMMA MaxTwo ==
  ASSUME NEW a \in Int, NEW b \in Int
  PROVE  Max({a, b}) \in {a, b} /\ Max({a, b}) >= a /\ Max({a, b}) >= b
<1>1. \E x \in {a, b} : \A y \in {a, b} : x >= y
  OBVIOUS
<1>2. QED
  BY <1>1 DEF Max

LEMMA MinThree ==
  ASSUME NEW a \in Int, NEW b \in Int, NEW c \in Int
  PROVE  /\ Min({a, b, c}) \in {a, b, c}
         /\ Min({a, b, c}) <= a /\ Min({a, b, c}) <= b /\ Min({a, b, c}) <= c
<1>1. \E x \in {a, b, c} : \A y \in {a, b, c} : x <= y
  OBVIOUS
<1>2. QED
  BY <1>1 DEF Min

-----------------------------------------------------------------------------
(* Columns.                                                                *)

LEMMA CharWidth ==
  ASSUME NEW b, NEW col \in Nat
  PROVE  len_char(b, col) \in Nat /\ (b \notin {"tab", "ctl", "del", "nul"} => len_char(b, col) = 1)
BY LineAssumption DEF len_char, tabshift

\* The columns of the bytes up to p.
ColumnsOf(v, s, p) ==
  /\ v \in [1..p -> Nat] /\ v[1] = 0
  /\ \A i \in 2..p : v[i] = v[i - 1] + len_char(s[i - 1], v[i - 1])

LEMMA ColumnDefined ==
  ASSUME NEW s, NEW p \in Nat \ {0}
  PROVE  \E v : ColumnsOf(v, s, p) /\ scanline(s, p) = v[p]
<1> DEFINE w(i, x) == len_char(s[i], x)
           H(v) == v = [i \in 1..p |-> IF i = 1 THEN 0 ELSE v[i - 1] + w(i - 1, v[i - 1])]
           prev == [i \in 2..p |-> i - 1]
           step == [i \in 2..p |-> [x \in Nat |-> x + w(i - 1, x)]]
           v == CHOOSE x : H(x)
<1>1. \A i \in 2..p : prev[i] = i - 1 /\ prev[i] \in 1..(i - 1)
  OBVIOUS
<1>2. \A i \in 2..p : \A x \in Nat : x + w(i - 1, x) \in Nat
  BY CharWidth
<1>3. scanline(s, p) = v[p]
  BY Zenon DEF scanline
<1> HIDE DEF w
<1>4. \A i \in 2..p : \A x \in Nat : step[i][x] = x + w(i - 1, x) /\ step[i][x] \in Nat
  BY <1>2
<1> HIDE DEF prev, step
<1>5. PICK f \in [1..p -> Nat] : Follows(f, 1, p, 0, prev, step)
  <2>1. 1 + 1 = 2 /\ 1 \in Int /\ p \in Int /\ 1 <= p /\ 0 \in Nat
    OBVIOUS
  <2>2. QED
    BY <1>1, <1>4, <2>1, Recursion, Zenon
<1>6. f[1] = 0 /\ \A i \in 2..p : f[i] = f[i - 1] + w(i - 1, f[i - 1])
  <2>1. f[1] = 0 /\ \A i \in 2..p : f[i] = step[i][f[prev[i]]]
    BY <1>5 DEF Follows
  <2>2. ASSUME NEW i \in 2..p PROVE f[i] = f[i - 1] + w(i - 1, f[i - 1])
    <3>1. f[i - 1] \in Nat
      OBVIOUS
    <3>2. f[i] = step[i][f[i - 1]]
      BY <1>1, <2>1, Zenon
    <3>3. QED
      BY <1>4, <3>1, <3>2, Zenon
  <2>3. QED
    BY <2>1, <2>2, Zenon
<1>7. H(f)
  BY <1>6
<1>8. H(v)
  <2> HIDE DEF H
  <2>1. QED
    BY <1>7, Zenon
<1> HIDE DEF v
<1>9. v[1] = 0 /\ \A i \in 2..p : v[i] = v[i - 1] + w(i - 1, v[i - 1])
  BY <1>8
<1>10. v = f
  <2>1. \A i \in (1 + 1)..p : v[i - 1] = f[i - 1] => v[i] = f[i]
    BY <1>6, <1>9
  <2>2. 1 \in Int /\ p \in Int /\ v[1] = f[1]
    BY <1>6, <1>9
  <2>3. Alike(v, f, 1, p)
    BY <2>1, <2>2, Zenon DEF Alike
  <2>4. \A i \in 1..p : v[i] = f[i]
    BY <2>2, <2>3, Agree
  <2>5. QED
    BY <1>8, <2>4
<1>11. QED
  BY <1>3, <1>6, <1>10, Zenon DEF ColumnsOf, w

LEMMA ColumnType ==
  ASSUME NEW s
  PROVE  scanline(s, 1) = 0 /\ \A p \in Nat \ {0} : scanline(s, p) \in Nat
<1>1. ASSUME NEW p \in Nat \ {0} PROVE scanline(s, p) \in Nat /\ (p = 1 => scanline(s, p) = 0)
  <2>1. PICK v : ColumnsOf(v, s, p) /\ scanline(s, p) = v[p]
    BY ColumnDefined, Zenon
  <2>2. QED
    BY <2>1 DEF ColumnsOf
<1>2. QED
  BY <1>1

\* s and t have the same bytes before p.
Begin(s, t, p) == \A i \in 1..(p - 1) : s[i] = t[i]

\* The column depends on the bytes before it.
LEMMA ColumnPrefix ==
  ASSUME NEW s, NEW t, NEW p \in Nat \ {0}, Begin(s, t, p)
  PROVE  scanline(s, p) = scanline(t, p)
<1>1. PICK v : ColumnsOf(v, s, p) /\ scanline(s, p) = v[p]
  BY ColumnDefined, Zenon
<1>2. PICK w : ColumnsOf(w, t, p) /\ scanline(t, p) = w[p]
  BY ColumnDefined, Zenon
<1>3. \A i \in (1 + 1)..p : v[i - 1] = w[i - 1] => v[i] = w[i]
  <2>1. \A i \in (1 + 1)..p : i \in 2..p /\ i - 1 \in 1..(p - 1)
    OBVIOUS
  <2>2. QED
    BY <1>1, <1>2, <2>1, Zenon DEF ColumnsOf, Begin
<1>4. 1 \in Int /\ p \in Int /\ v[1] = w[1] /\ p \in 1..p
  BY <1>1, <1>2 DEF ColumnsOf
<1>5. Alike(v, w, 1, p)
  BY <1>3, <1>4, Zenon DEF Alike
<1>6. \A i \in 1..p : v[i] = w[i]
  BY <1>4, <1>5, Agree
<1>7. QED
  BY <1>1, <1>2, <1>4, <1>6, Zenon

LEMMA ColumnStep ==
  ASSUME NEW s, NEW p \in Nat \ {0}
  PROVE  scanline(s, p + 1) = scanline(s, p) + len_char(s[p], scanline(s, p))
<1>1. PICK v : ColumnsOf(v, s, p) /\ scanline(s, p) = v[p]
  BY ColumnDefined, Zenon
<1>2. PICK w : ColumnsOf(w, s, p + 1) /\ scanline(s, p + 1) = w[p + 1]
  <2>1. p + 1 \in Nat \ {0}
    OBVIOUS
  <2>2. QED
    BY <2>1, ColumnDefined, Zenon
<1>3. \A i \in (1 + 1)..p : v[i - 1] = w[i - 1] => v[i] = w[i]
  <2>1. \A i \in (1 + 1)..p : i \in 2..p /\ i \in 2..(p + 1)
    OBVIOUS
  <2>2. QED
    BY <1>1, <1>2, <2>1, Zenon DEF ColumnsOf
<1>4. 1 \in Int /\ p \in Int /\ v[1] = w[1] /\ p \in 1..p
  BY <1>1, <1>2 DEF ColumnsOf
<1>5. Alike(v, w, 1, p)
  BY <1>3, <1>4, Zenon DEF Alike
<1>6. v[p] = w[p]
  <2>1. \A i \in 1..p : v[i] = w[i]
    BY <1>4, <1>5, Agree
  <2>2. QED
    BY <1>4, <2>1
<1>7. w[p + 1] = w[p] + len_char(s[p], w[p])
  <2>1. p + 1 \in 2..(p + 1) /\ (p + 1) - 1 = p
    OBVIOUS
  <2>2. w[p + 1] = w[(p + 1) - 1] + len_char(s[(p + 1) - 1], w[(p + 1) - 1])
    BY <1>2, <2>1, Zenon DEF ColumnsOf
  <2>3. QED
    BY <2>1, <2>2
<1>8. QED
  BY <1>1, <1>2, <1>6, <1>7, Zenon

\* The same for find_pos.
FoundsOf(v, s, p) ==
  /\ v \in [1..p -> Nat] /\ v[1] = 0
  /\ \A i \in 2..p : v[i] = v[i - 1] + (IF s[i - 1] = "del" THEN 1 ELSE len_char(s[i - 1], v[i - 1]))

LEMMA FoundDefined ==
  ASSUME NEW s, NEW p \in Nat \ {0}
  PROVE  \E v : FoundsOf(v, s, p) /\ FoundColumn(s, p) = v[p]
<1> DEFINE w(i, x) == (IF s[i] = "del" THEN 1 ELSE len_char(s[i], x))
           H(v) == v = [i \in 1..p |-> IF i = 1 THEN 0 ELSE v[i - 1] + w(i - 1, v[i - 1])]
           prev == [i \in 2..p |-> i - 1]
           step == [i \in 2..p |-> [x \in Nat |-> x + w(i - 1, x)]]
           v == CHOOSE x : H(x)
<1>1. \A i \in 2..p : prev[i] = i - 1 /\ prev[i] \in 1..(i - 1)
  OBVIOUS
<1>2. \A i \in 2..p : \A x \in Nat : x + w(i - 1, x) \in Nat
  BY CharWidth
<1>3. FoundColumn(s, p) = v[p]
  BY Zenon DEF FoundColumn
<1> HIDE DEF w
<1>4. \A i \in 2..p : \A x \in Nat : step[i][x] = x + w(i - 1, x) /\ step[i][x] \in Nat
  BY <1>2
<1> HIDE DEF prev, step
<1>5. PICK f \in [1..p -> Nat] : Follows(f, 1, p, 0, prev, step)
  <2>1. 1 + 1 = 2 /\ 1 \in Int /\ p \in Int /\ 1 <= p /\ 0 \in Nat
    OBVIOUS
  <2>2. QED
    BY <1>1, <1>4, <2>1, Recursion, Zenon
<1>6. f[1] = 0 /\ \A i \in 2..p : f[i] = f[i - 1] + w(i - 1, f[i - 1])
  <2>1. f[1] = 0 /\ \A i \in 2..p : f[i] = step[i][f[prev[i]]]
    BY <1>5 DEF Follows
  <2>2. ASSUME NEW i \in 2..p PROVE f[i] = f[i - 1] + w(i - 1, f[i - 1])
    <3>1. f[i - 1] \in Nat
      OBVIOUS
    <3>2. f[i] = step[i][f[i - 1]]
      BY <1>1, <2>1, Zenon
    <3>3. QED
      BY <1>4, <3>1, <3>2, Zenon
  <2>3. QED
    BY <2>1, <2>2, Zenon
<1>7. H(f)
  BY <1>6
<1>8. H(v)
  <2> HIDE DEF H
  <2>1. QED
    BY <1>7, Zenon
<1> HIDE DEF v
<1>9. v[1] = 0 /\ \A i \in 2..p : v[i] = v[i - 1] + w(i - 1, v[i - 1])
  BY <1>8
<1>10. v = f
  <2>1. \A i \in (1 + 1)..p : v[i - 1] = f[i - 1] => v[i] = f[i]
    BY <1>6, <1>9
  <2>2. 1 \in Int /\ p \in Int /\ v[1] = f[1]
    BY <1>6, <1>9
  <2>3. Alike(v, f, 1, p)
    BY <2>1, <2>2, Zenon DEF Alike
  <2>4. \A i \in 1..p : v[i] = f[i]
    BY <2>2, <2>3, Agree
  <2>5. QED
    BY <1>8, <2>4
<1>11. QED
  BY <1>3, <1>6, <1>10, Zenon DEF FoundsOf, w

\* find_pos and scanline agree on lines without a DEL.
LEMMA FoundType ==
  ASSUME NEW s, NEW p \in Nat \ {0}
  PROVE  /\ FoundColumn(s, p) \in Nat
         /\ (\A i \in 1..(p - 1) : s[i] # "del") => FoundColumn(s, p) = scanline(s, p)
<1>1. PICK v : FoundsOf(v, s, p) /\ FoundColumn(s, p) = v[p]
  BY FoundDefined, Zenon
<1>2. PICK w : ColumnsOf(w, s, p) /\ scanline(s, p) = w[p]
  BY ColumnDefined, Zenon
<1>3. v[p] \in Nat
  BY <1>1 DEF FoundsOf
<1>4. ASSUME \A i \in 1..(p - 1) : s[i] # "del" PROVE v[p] = w[p]
  <2>1. \A i \in (1 + 1)..p : v[i - 1] = w[i - 1] => v[i] = w[i]
    <3>1. \A i \in (1 + 1)..p : i \in 2..p /\ i - 1 \in 1..(p - 1)
      OBVIOUS
    <3>2. QED
      BY <1>1, <1>2, <1>4, <3>1, Zenon DEF ColumnsOf, FoundsOf
  <2>2. 1 \in Int /\ p \in Int /\ v[1] = w[1] /\ p \in 1..p
    BY <1>1, <1>2 DEF ColumnsOf, FoundsOf
  <2>3. Alike(v, w, 1, p)
    BY <2>1, <2>2, Zenon DEF Alike
  <2>4. \A i \in 1..p : v[i] = w[i]
    BY <2>2, <2>3, Agree
  <2>5. QED
    BY <2>2, <2>4
<1>5. QED
  BY <1>1, <1>2, <1>3, <1>4, Zenon

-----------------------------------------------------------------------------
(* Places in a line.                                                       *)

LEMMA FindColumnPlace ==
  ASSUME NEW s, Len(s) \in Nat \ {0}, NEW col
  PROVE  find_column(s, col) \in 1..Len(s)
<1> DEFINE T == {p \in 1..Len(s) : p = Len(s) \/ FoundColumn(s, p) >= col}
<1>1. T \subseteq Nat /\ T # {} /\ T \subseteq 1..Len(s)
  OBVIOUS
<1>2. find_column(s, col) = Min(T)
  BY DEF find_column
<1> HIDE DEF T
<1>3. QED
  BY <1>1, <1>2, MinOf, Zenon

LEMMA NextWordPlace ==
  ASSUME NEW s, Len(s) \in Nat, NEW p \in 1..Len(s)
  PROVE  NextWord(s, p) \in p..Len(s)
<1>1. ASSUME NEW a \in 1..Len(s), NEW T, T \subseteq a..Len(s), T # {} PROVE Min(T) \in a..Len(s)
  <2>1. T \subseteq Nat
    BY <1>1
  <2>2. QED
    BY <1>1, <2>1, MinOf, Zenon
<1>2. WordEnd(s, p) \in p..Len(s)
  <2> DEFINE T == {q \in p..Len(s) : q = Len(s) \/ Blank(s[q])}
  <2>1. T \subseteq p..Len(s) /\ T # {}
    OBVIOUS
  <2>2. WordEnd(s, p) = Min(T)
    BY DEF WordEnd
  <2> HIDE DEF T
  <2>3. QED
    BY <1>1, <2>1, <2>2, Zenon
<1> DEFINE w == WordEnd(s, p)
           T == {q \in w..Len(s) : q = Len(s) \/ ~Blank(s[q])}
<1>3. NextWord(s, p) = Min(T)
  BY DEF NextWord
<1> HIDE DEF w
<1>4. w \in p..Len(s)
  BY <1>2 DEF w
<1>5. T \subseteq w..Len(s) /\ T # {} /\ w \in 1..Len(s)
  BY <1>4
<1> HIDE DEF T
<1>6. Min(T) \in w..Len(s)
  BY <1>1, <1>5, Zenon
<1>7. QED
  BY <1>3, <1>4, <1>6

-----------------------------------------------------------------------------
(* The invariant, for lines over a set of bytes C.                         *)

Globals == {"lines", "cur", "position", "point", "scr_horz", "scr_vert", "scr_pos",
            "absolute_lin", "text_changes", "overrun", "d_char", "d_word", "d_line"}

Line(C) == {l \in [s : Seq(C), max : Int, no : Int] : l.s # <<>> /\ Len(l.s) <= l.max}

\* What was deleted, and the text.
Rest(b, C) ==
  /\ b.d_char \in Seq(C) /\ Len(b.d_char) \in 1..2
  /\ b.d_word \in Seq(C) /\ b.d_line.s \in Seq(C)
  /\ b.text_changes \in BOOLEAN /\ b.overrun = FALSE
TextOK(b, C) == DOMAIN b = Globals /\ b.lines \in Seq(Line(C)) /\ Rest(b, C)

\* ... and the cursor: where it is, in which row and in which column.
Shape(b, C) ==
  /\ DOMAIN b = Globals /\ b.lines \in Seq(Line(C)) /\ b.lines[b.cur].s \in Seq(C)
  /\ Lines(b) = Len(b.lines) /\ Length(b) = Len(b.lines[b.cur].s)
Place(b) ==
  /\ Lines(b) \in Nat /\ b.cur \in Nat /\ b.cur >= 1 /\ b.cur <= Lines(b)
  /\ Length(b) \in Nat /\ b.position \in Nat /\ b.position >= 1 /\ b.position <= Length(b)
  /\ b.point = b.position - 1
  /\ b.scr_horz \in Int /\ b.scr_pos \in Int /\ b.absolute_lin \in Int
Row(b) == b.scr_vert \in 0..LastLine /\ b.scr_vert < b.cur
Column(b, C) == "del" \notin C => b.scr_horz = scanline(b.lines[b.cur].s, b.position)

Sound(b, C) == TextOK(b, C) /\ Shape(b, C) /\ Place(b) /\ Row(b) /\ Column(b, C)

\* Where the cursor of a sound buffer is.
LEMMA SoundFacts ==
  ASSUME NEW C, NEW b, Sound(b, C)
  PROVE  /\ DOMAIN b = Globals /\ b.lines \in Seq(Line(C)) /\ b.lines[b.cur] \in Line(C)
         /\ b.cur \in 1..Len(b.lines) /\ b.cur \in Nat /\ b.cur \in Int /\ b.cur >= 1
         /\ b.position \in 1..Len(b.lines[b.cur].s) /\ b.position \in Nat \ {0} /\ b.position \in Nat
         /\ b.position >= 1 /\ b.position <= Len(b.lines[b.cur].s) /\ b.point = b.position - 1
         /\ b.scr_horz \in Int /\ b.scr_pos \in Int /\ b.absolute_lin \in Int
<1>1. /\ DOMAIN b = Globals /\ b.lines \in Seq(Line(C)) /\ Lines(b) = Len(b.lines)
      /\ Length(b) = Len(b.lines[b.cur].s) /\ b.point = b.position - 1
      /\ b.scr_horz \in Int /\ b.scr_pos \in Int /\ b.absolute_lin \in Int
  BY Zenon DEF Sound, Shape, Place
<1>2. /\ Lines(b) \in Nat /\ b.cur \in Nat /\ b.cur >= 1 /\ b.cur <= Lines(b)
      /\ Length(b) \in Nat /\ b.position \in Nat /\ b.position >= 1 /\ b.position <= Length(b)
  BY Zenon DEF Sound, Place
<1>3. \A n \in Nat, i \in Nat : i >= 1 /\ i <= n => i \in 1..n /\ i \in Int /\ i \in Nat \ {0}
  OBVIOUS
<1>4. /\ b.cur \in 1..Lines(b) /\ b.cur \in Int
      /\ b.position \in 1..Length(b) /\ b.position \in Nat \ {0}
  BY <1>2, <1>3, Zenon
<1>5. \A S : \A s \in Seq(S) : \A i \in 1..Len(s) : s[i] \in S
  OBVIOUS
<1>6. b.lines[b.cur] \in Line(C)
  BY <1>1, <1>4, <1>5, Zenon
<1>7. QED
  BY <1>1, <1>2, <1>4, <1>6, Zenon

\* c has the text of b.
Same(b, c) ==
  /\ DOMAIN c = Globals
  /\ c.lines = b.lines /\ c.text_changes = b.text_changes /\ c.overrun = b.overrun
  /\ c.d_char = b.d_char /\ c.d_word = b.d_word /\ c.d_line = b.d_line

\* c is b with the cursor elsewhere.
Moved(b, c) == Same(b, c) /\ c.absolute_lin - c.cur = b.absolute_lin - b.cur

\* The cursor is at position p of line n.
At(c, n, p) == c.cur = n /\ c.position = p /\ c.point = p - 1

\* ... and what depends on it is right, where b was before.
Landed(b, c, C, n, p) ==
  /\ n \in 1..Len(b.lines) /\ p \in 1..Len(b.lines[n].s) /\ At(c, n, p)
  /\ c.scr_horz \in Int /\ c.scr_pos \in Int
  /\ "del" \notin C => c.scr_horz = scanline(b.lines[n].s, p)
  /\ c.scr_vert \in 0..LastLine /\ c.scr_vert < n

\* ... absolute_lin too.
Placed(b, c, C, n, p) ==
  /\ Landed(b, c, C, n, p)
  /\ b.absolute_lin \in Int /\ b.cur \in Int /\ c.absolute_lin = b.absolute_lin + (n - b.cur)

LEMMA MovedTwice ==
  ASSUME NEW b, NEW c, NEW d, Moved(b, c), Moved(c, d)
  PROVE  Moved(b, d)
BY DEF Moved, Same

LEMMA LineType ==
  ASSUME NEW C, NEW lines \in Seq(Line(C)), NEW i \in 1..Len(lines)
  PROVE  /\ lines[i].s \in Seq(C) /\ Len(lines[i].s) \in Nat \ {0}
         /\ lines[i].max \in Int /\ Len(lines[i].s) <= lines[i].max
         /\ lines[i].no \in Int
BY DEF Line

LEMMA MovedNot ==
  ASSUME NEW C, NEW b, Sound(b, C)
  PROVE  Same(b, b) /\ Moved(b, b)
BY DEF Sound, Shape, Same, Moved

\* How a motion is shown to keep the buffer sound.
LEMMA Lands ==
  ASSUME NEW C, NEW b, NEW c, NEW n, NEW p, TextOK(b, C), Same(b, c), Landed(b, c, C, n, p),
         c.absolute_lin \in Int
  PROVE  Sound(c, C)
<1>1. /\ n \in Nat /\ n >= 1 /\ n <= Len(b.lines) /\ b.lines \in Seq(Line(C))
      /\ n \in 1..Len(b.lines)
  BY DEF TextOK, Landed
<1>2. b.lines[n].s \in Seq(C) /\ Len(b.lines[n].s) \in Nat
  BY <1>1, LineType
<1>3. p \in Nat /\ p >= 1 /\ p <= Len(b.lines[n].s)
  BY <1>2 DEF Landed
<1>4. TextOK(c, C) /\ DOMAIN c = Globals /\ c.lines = b.lines
  BY Zenon DEF TextOK, Rest, Same
<1>5. Lines(c) = Len(b.lines) /\ Length(c) = Len(b.lines[n].s) /\ c.cur = n /\ c.position = p
  BY <1>4 DEF Lines, Length, line_length, curr_line, Landed, At
<1>6. Shape(c, C)
  BY <1>1, <1>2, <1>4, <1>5, Zenon DEF Shape
<1>7. Place(c)
  BY <1>1, <1>2, <1>3, <1>5 DEF Place, Landed, At
<1>8. Row(c) /\ Column(c, C)
  BY <1>4, <1>5 DEF Row, Column, Landed
<1>9. QED
  BY <1>4, <1>6, <1>7, <1>8, SMTT(30) DEF Sound

LEMMA Arrives ==
  ASSUME NEW C, NEW b, NEW c, NEW n, NEW p, TextOK(b, C), Same(b, c), Placed(b, c, C, n, p)
  PROVE  Moved(b, c) /\ Sound(c, C)
<1>1. n \in Int /\ c.cur = n
  BY DEF TextOK, Placed, Landed, At
<1>2. c.absolute_lin \in Int /\ c.absolute_lin - c.cur = b.absolute_lin - b.cur
  BY <1>1 DEF Placed
<1>3. Sound(c, C)
  BY <1>2, Lands, Zenon DEF Placed
<1>4. QED
  BY <1>2, <1>3 DEF Moved

LEMMA MoveToMoves ==
  ASSUME NEW C, NEW b, Sound(b, C), NEW p \in 1..Length(b)
  PROVE  /\ Moved(b, MoveTo(b, p)) /\ Sound(MoveTo(b, p), C) /\ At(MoveTo(b, p), b.cur, p)
         /\ MoveTo(b, p).scr_vert = b.scr_vert /\ Same(b, MoveTo(b, p))
<1> DEFINE c == MoveTo(b, p)
           h == scanline(b.lines[b.cur].s, p)
<1>1. CASE p = b.position
  <2>1. MoveTo(b, p) = b /\ At(b, b.cur, p)
    BY <1>1, SMTT(30) DEF MoveTo, At, Sound, Place
  <2>2. QED
    BY <2>1, MovedNot, Zenon
<1>2. CASE p # b.position
  <2>1. p \in Nat \ {0} /\ p \in 1..Len(b.lines[b.cur].s) /\ b.cur \in 1..Len(b.lines)
    BY SMTT(30) DEF Sound, Place, Shape
  <2>2. h \in Nat
    BY <2>1, ColumnType, Zenon
  <2>3. /\ Same(b, c) /\ At(c, b.cur, p) /\ c.scr_horz = h /\ c.scr_pos = h
        /\ c.scr_vert = b.scr_vert /\ c.absolute_lin = b.absolute_lin
    BY <1>2, SMTT(30) DEF Sound, Shape, MoveTo, curr_line, Same, At, Globals
  <2> HIDE DEF c
  <2>4. Placed(b, c, C, b.cur, p)
    BY <2>1, <2>2, <2>3, SMTT(30) DEF Sound, Place, Row, Placed, Landed
  <2>5. Moved(b, c) /\ Sound(c, C)
    BY <2>3, <2>4, Arrives, Zenon DEF Sound
  <2>6. QED
    BY <2>3, <2>5 DEF c
<1>3. QED
  BY <1>1, <1>2

\* find_pos, from the start of a line.
LEMMA FindPosMoves ==
  ASSUME NEW C, NEW b, TextOK(b, C), b.cur \in 1..Len(b.lines), b.point = 0,
         b.scr_pos \in Int, b.absolute_lin \in Int, b.scr_vert \in 0..LastLine, b.scr_vert < b.cur
  PROVE  Moved(b, find_pos(b)) /\ Sound(find_pos(b), C) /\ find_pos(b).cur = b.cur
<1> DEFINE c == find_pos(b)
           s == b.lines[b.cur].s
           p == find_column(s, b.scr_pos)
<1>1. s \in Seq(C) /\ Len(s) \in Nat \ {0}
  BY LineType DEF TextOK
<1>2. p \in 1..Len(s)
  BY <1>1, FindColumnPlace
<1>3. /\ Same(b, c) /\ At(c, b.cur, p) /\ c.scr_horz = FoundColumn(s, p) /\ c.scr_pos = b.scr_pos
      /\ c.scr_vert = b.scr_vert /\ c.absolute_lin = b.absolute_lin
  <2>1. p \in Int
    BY <1>1, <1>2
  <2> HIDE DEF p
  <2>2. 0 + p - 1 = p - 1
    BY <2>1
  <2>3. QED
    BY <2>2 DEF find_pos, curr_line, TextOK, Globals, Same, At, p
<1> HIDE DEF c
<1>4. p \in Nat \ {0}
  BY <1>1, <1>2
<1>5. FoundColumn(s, p) \in Int
  BY <1>4, FoundType
<1>6. ASSUME "del" \notin C PROVE FoundColumn(s, p) = scanline(s, p)
  <2>1. \A i \in 1..(p - 1) : i \in 1..Len(s)
    BY <1>1, <1>2
  <2>2. \A i \in 1..Len(s) : s[i] \in C
    BY <1>1
  <2>3. \A i \in 1..(p - 1) : s[i] # "del"
    BY <1>6, <2>1, <2>2, Zenon
  <2>4. QED
    BY <1>4, <2>3, FoundType
<1>7. b.cur \in Int /\ c.absolute_lin = b.absolute_lin + (b.cur - b.cur)
  BY <1>3 DEF TextOK
<1> HIDE DEF p
<1>8. Placed(b, c, C, b.cur, p)
  BY <1>2, <1>3, <1>5, <1>6, <1>7 DEF Placed, Landed
<1>9. Moved(b, c) /\ Sound(c, C)
  BY <1>3, <1>8, Arrives, Zenon
<1>10. QED
  BY <1>3, <1>9, Zenon DEF At, c

-----------------------------------------------------------------------------
(* Motions.                                                                *)

LEMMA NextlineFields ==
  ASSUME NEW b, DOMAIN b = Globals
  PROVE  /\ Same(b, nextline(b)) /\ At(nextline(b), b.cur + 1, 1)
         /\ nextline(b).scr_pos = b.scr_pos
         /\ nextline(b).scr_vert = IF b.scr_vert = LastLine THEN b.scr_vert ELSE b.scr_vert + 1
         /\ nextline(b).absolute_lin = b.absolute_lin + 1
<1>1. 1 - 1 = 0
  OBVIOUS
<1>2. QED
  BY <1>1 DEF nextline, Globals, Same, At

LEMMA PrevlineFields ==
  ASSUME NEW b, DOMAIN b = Globals
  PROVE  /\ Same(b, prevline(b)) /\ At(prevline(b), b.cur - 1, Len(b.lines[b.cur - 1].s))
         /\ prevline(b).scr_pos = b.scr_pos
         /\ prevline(b).scr_vert = IF b.scr_vert = 0 THEN 0 ELSE b.scr_vert - 1
         /\ prevline(b).absolute_lin = b.absolute_lin - 1
BY DEF prevline, line_length, Globals, Same, At

\* The rows of the lines next to the cursor's.
LEMMA RowsNextTo ==
  ASSUME NEW v \in 0..LastLine, NEW n \in Nat, v < n
  PROVE  /\ (IF v = LastLine THEN v ELSE v + 1) \in 0..LastLine
         /\ (IF v = LastLine THEN v ELSE v + 1) < n + 1
         /\ n > 1 => /\ (IF v = 0 THEN 0 ELSE v - 1) \in 0..LastLine
                     /\ (IF v = 0 THEN 0 ELSE v - 1) < n - 1
BY BufferAssumption

\* The lines above and below the cursor's.
LEMMA LineAbove ==
  ASSUME NEW C, NEW b, Sound(b, C), b.cur # 1
  PROVE  /\ b.cur > 1 /\ b.cur - 1 \in 1..Len(b.lines)
         /\ Len(b.lines[b.cur - 1].s) \in Nat \ {0}
<1>1. b.cur > 1 /\ b.cur - 1 \in 1..Len(b.lines) /\ b.lines \in Seq(Line(C))
  BY SMTT(30) DEF Sound, Shape, Place
<1>2. QED
  BY <1>1, LineType

LEMMA LineBelow ==
  ASSUME NEW C, NEW b, Sound(b, C), b.cur # Lines(b)
  PROVE  /\ b.cur < Lines(b) /\ b.cur + 1 \in 1..Len(b.lines)
         /\ Len(b.lines[b.cur + 1].s) \in Nat \ {0}
<1>1. b.cur < Lines(b) /\ b.cur + 1 \in 1..Len(b.lines) /\ b.lines \in Seq(Line(C))
  BY SMTT(30) DEF Sound, Shape, Place
<1>2. QED
  BY <1>1, LineType

LEMMA LeftMoves ==
  ASSUME NEW C, NEW b, Sound(b, C)
  PROVE  /\ Moved(b, left(b, TRUE)) /\ Sound(left(b, TRUE), C)
         /\ b.point = 0 /\ b.cur # 1 => At(left(b, TRUE), b.cur - 1, Len(b.lines[b.cur - 1].s))
<1>1. CASE b.point # 0
  <2>1. left(b, TRUE) = MoveTo(b, b.position - 1)
    BY <1>1 DEF left
  <2>2. b.position - 1 \in 1..Length(b)
    BY <1>1, SMTT(30) DEF Sound, Place
  <2>3. QED
    BY <1>1, <2>1, <2>2, MoveToMoves, Zenon
<1>2. CASE b.point = 0 /\ b.cur = 1
  BY <1>2, MovedNot, Zenon DEF left
<1>3. CASE b.point = 0 /\ b.cur # 1
  <2> DEFINE a == prevline(b)
             n == Len(b.lines[b.cur - 1].s)
             h == scanline(a.lines[a.cur].s, a.point + 1)
             c == [a EXCEPT !.scr_horz = h, !.scr_pos = h]
  <2>1. left(b, TRUE) = c
    BY <1>3 DEF left, curr_line
  <2>2. b.cur > 1 /\ b.cur - 1 \in 1..Len(b.lines) /\ n \in Nat \ {0}
    BY <1>3, LineAbove
  <2>3. /\ Same(b, a) /\ At(a, b.cur - 1, n)
        /\ a.scr_vert = IF b.scr_vert = 0 THEN 0 ELSE b.scr_vert - 1
        /\ a.absolute_lin = b.absolute_lin - 1
    BY PrevlineFields, Zenon DEF Sound, Shape
  <2> HIDE DEF a
  <2>4. h = scanline(b.lines[b.cur - 1].s, n)
    <3>1. n - 1 + 1 = n
      BY <2>2
    <3>2. QED
      BY <2>3, <3>1 DEF Same, At
  <2>5. h \in Nat
    BY <2>2, <2>4, ColumnType, Zenon
  <2> HIDE DEF h
  <2>6. /\ Same(b, c) /\ At(c, b.cur - 1, n) /\ c.scr_horz = h /\ c.scr_pos = h
        /\ c.scr_vert = a.scr_vert /\ c.absolute_lin = b.absolute_lin - 1
    BY <2>3 DEF Same, At, Globals
  <2> HIDE DEF c
  <2>7. c.scr_vert \in 0..LastLine /\ c.scr_vert < b.cur - 1
    BY <2>2, <2>3, <2>6, RowsNextTo, Zenon DEF Sound, Place, Row
  <2>8. b.absolute_lin - 1 = b.absolute_lin + ((b.cur - 1) - b.cur) /\ b.cur \in Int /\ b.absolute_lin \in Int
    BY SMTT(30) DEF Sound, Place
  <2>9. Placed(b, c, C, b.cur - 1, n)
    BY <2>2, <2>4, <2>5, <2>6, <2>7, <2>8, SMTT(30) DEF Placed, Landed
  <2>10. Moved(b, c) /\ Sound(c, C)
    BY <2>6, <2>9, Arrives, Zenon DEF Sound
  <2>11. QED
    BY <2>1, <2>6, <2>10, Zenon
<1>4. QED
  BY <1>1, <1>2, <1>3, Zenon

\* nextline, with the column of the line's start.
LEMMA NextlineMoves ==
  ASSUME NEW C, NEW b, Sound(b, C), b.cur # Lines(b)
  PROVE  LET c == [nextline(b) EXCEPT !.scr_horz = 0, !.scr_pos = 0]
         IN Moved(b, c) /\ Sound(c, C) /\ At(c, b.cur + 1, 1) /\ c.scr_pos = 0
<1> DEFINE a == nextline(b)
           c == [a EXCEPT !.scr_horz = 0, !.scr_pos = 0]
<1>1. b.cur + 1 \in 1..Len(b.lines) /\ Len(b.lines[b.cur + 1].s) \in Nat \ {0}
  BY LineBelow, Zenon
<1>2. /\ Same(b, a) /\ At(a, b.cur + 1, 1)
      /\ a.scr_vert = IF b.scr_vert = LastLine THEN b.scr_vert ELSE b.scr_vert + 1
      /\ a.absolute_lin = b.absolute_lin + 1
  BY NextlineFields, Zenon DEF Sound, Shape
<1> HIDE DEF a
<1>4. /\ Same(b, c) /\ At(c, b.cur + 1, 1) /\ c.scr_horz = 0 /\ c.scr_pos = 0
      /\ c.scr_vert = a.scr_vert /\ c.absolute_lin = b.absolute_lin + 1
  BY <1>2 DEF Same, At, Globals
<1> HIDE DEF c
<1>5. c.scr_vert \in 0..LastLine /\ c.scr_vert < b.cur + 1
  BY <1>2, <1>4, RowsNextTo DEF Sound, Place, Row
<1>6. b.absolute_lin + 1 = b.absolute_lin + ((b.cur + 1) - b.cur) /\ b.cur \in Int /\ b.absolute_lin \in Int
  BY SMTT(30) DEF Sound, Place
<1>7. scanline(b.lines[b.cur + 1].s, 1) = 0
  BY ColumnType, Zenon
<1>8. Placed(b, c, C, b.cur + 1, 1)
  <2>1. 1 \in 1..Len(b.lines[b.cur + 1].s) /\ 0 \in Int
    BY <1>1
  <2>2. QED
    BY <1>1, <1>4, <1>5, <1>6, <1>7, <2>1, Zenon DEF Placed, Landed
<1>9. Moved(b, c) /\ Sound(c, C)
  BY <1>4, <1>8, Arrives, Zenon DEF Sound
<1>10. QED
  BY <1>4, <1>9, Zenon DEF c, a

LEMMA RightMoves ==
  ASSUME NEW C, NEW b, Sound(b, C)
  PROVE  /\ Moved(b, right(b, TRUE)) /\ Sound(right(b, TRUE), C)
         /\ b.position = Length(b) =>
              IF b.cur = Lines(b) THEN right(b, TRUE) = b ELSE At(right(b, TRUE), b.cur + 1, 1)
<1>1. CASE b.position < Length(b)
  <2>1. b.position + 1 \in 1..Length(b) /\ b.position # Length(b) /\ ~(b.position >= Length(b))
    BY <1>1, SMTT(30) DEF Sound, Place
  <2>2. right(b, TRUE) = MoveTo(b, b.position + 1)
    BY <1>1, <2>1 DEF right
  <2>3. QED
    BY <2>1, <2>2, MoveToMoves, Zenon
<1>2. CASE ~(b.position < Length(b)) /\ b.cur = Lines(b)
  <2>1. b.position >= Length(b)
    BY <1>2, SMTT(30) DEF Sound, Place
  <2>2. right(b, TRUE) = b
    BY <1>2, <2>1 DEF right
  <2>3. QED
    BY <1>2, <2>2, MovedNot, Zenon
<1>3. CASE ~(b.position < Length(b)) /\ b.cur # Lines(b)
  <2>1. right(b, TRUE) = [nextline(b) EXCEPT !.scr_horz = 0, !.scr_pos = 0]
    BY <1>3 DEF right
  <2>2. QED
    BY <1>3, <2>1, NextlineMoves, Zenon
<1>4. QED
  BY <1>1, <1>2, <1>3, Zenon

LEMMA UpMoves ==
  ASSUME NEW C, NEW b, Sound(b, C)
  PROVE  Moved(b, up(b)) /\ Sound(up(b), C)
<1>1. CASE b.cur = 1
  BY <1>1, MovedNot, Zenon DEF up
<1>2. CASE b.cur # 1
  <2> DEFINE a == prevline(b)
             c == [a EXCEPT !.point = 0]
  <2>1. up(b) = find_pos(c)
    BY <1>2 DEF up
  <2>2. b.cur > 1 /\ b.cur - 1 \in 1..Len(b.lines)
    BY <1>2, LineAbove
  <2>3. /\ Same(b, a) /\ a.cur = b.cur - 1 /\ a.scr_pos = b.scr_pos
        /\ a.scr_vert = IF b.scr_vert = 0 THEN 0 ELSE b.scr_vert - 1
        /\ a.absolute_lin = b.absolute_lin - 1
    BY PrevlineFields, Zenon DEF Sound, Shape, At
  <2> HIDE DEF a
  <2>4. /\ Same(b, c) /\ c.point = 0 /\ c.cur = b.cur - 1 /\ c.scr_pos = b.scr_pos
        /\ c.scr_vert = a.scr_vert /\ c.absolute_lin = b.absolute_lin - 1
    BY <2>3 DEF Same, Globals
  <2> HIDE DEF c
  <2>5. c.scr_vert \in 0..LastLine /\ c.scr_vert < c.cur
    <3>1. b.scr_vert \in 0..LastLine /\ b.scr_vert < b.cur /\ b.cur \in Nat
      BY Zenon DEF Sound, Place, Row
    <3>2. /\ (IF b.scr_vert = 0 THEN 0 ELSE b.scr_vert - 1) \in 0..LastLine
          /\ (IF b.scr_vert = 0 THEN 0 ELSE b.scr_vert - 1) < b.cur - 1
      BY <2>2, <3>1, RowsNextTo, Zenon
    <3>3. QED
      BY <2>3, <2>4, <3>2, Zenon
  <2>6. Moved(b, c) /\ c.scr_pos \in Int /\ c.absolute_lin \in Int
    BY <2>4, SMTT(30) DEF Sound, Place, Moved
  <2>7. TextOK(c, C) /\ c.cur \in 1..Len(c.lines)
    <3>1. TextOK(b, C)
      BY Zenon DEF Sound
    <3>2. TextOK(c, C) /\ c.lines = b.lines
      BY <2>4, <3>1 DEF TextOK, Rest, Same
    <3>3. QED
      BY <2>2, <2>4, <3>2, Zenon
  <2>8. Moved(c, find_pos(c)) /\ Sound(find_pos(c), C)
    BY <2>4, <2>5, <2>6, <2>7, FindPosMoves
  <2>9. QED
    BY <2>1, <2>6, <2>8, MovedTwice, Zenon
<1>3. QED
  BY <1>1, <1>2

LEMMA DownMoves ==
  ASSUME NEW C, NEW b, Sound(b, C)
  PROVE  /\ Moved(b, down(b)) /\ Sound(down(b), C)
         /\ down(b).cur = IF b.cur = Lines(b) THEN b.cur ELSE b.cur + 1
<1>1. CASE b.cur = Lines(b)
  BY <1>1, MovedNot, Zenon DEF down
<1>2. CASE b.cur # Lines(b)
  <2> DEFINE c == nextline(b)
  <2>1. down(b) = find_pos(c)
    BY <1>2 DEF down
  <2>2. b.cur + 1 \in 1..Len(b.lines)
    BY <1>2, LineBelow
  <2>3. /\ Same(b, c) /\ c.cur = b.cur + 1 /\ c.scr_pos = b.scr_pos /\ c.point = 1 - 1
        /\ c.scr_vert = IF b.scr_vert = LastLine THEN b.scr_vert ELSE b.scr_vert + 1
        /\ c.absolute_lin = b.absolute_lin + 1
    BY NextlineFields, Zenon DEF Sound, Shape, At
  <2> HIDE DEF c
  <2>4. c.scr_vert \in 0..LastLine /\ c.scr_vert < c.cur
    BY <2>2, <2>3, RowsNextTo, Zenon DEF Sound, Place, Row
  <2>5. Moved(b, c) /\ c.scr_pos \in Int /\ c.absolute_lin \in Int /\ c.point = 0
    BY <2>3, SMTT(30) DEF Sound, Place, Moved
  <2>6. TextOK(c, C) /\ c.cur \in 1..Len(c.lines)
    <3>1. TextOK(b, C)
      BY Zenon DEF Sound
    <3>2. TextOK(c, C) /\ c.lines = b.lines
      BY <2>3, <3>1 DEF TextOK, Rest, Same
    <3>3. QED
      BY <2>2, <2>3, <3>2, Zenon
  <2>7. Moved(c, find_pos(c)) /\ Sound(find_pos(c), C) /\ find_pos(c).cur = c.cur
    BY <2>4, <2>5, <2>6, FindPosMoves
  <2>8. QED
    BY <1>2, <2>1, <2>3, <2>5, <2>7, MovedTwice, Zenon
<1>3. QED
  BY <1>1, <1>2

\* scr_pos, the column to go to in other lines, is free.
LEMMA ScrPosFree ==
  ASSUME NEW C, NEW b, Sound(b, C), NEW k \in Int
  PROVE  LET c == [b EXCEPT !.scr_pos = k]
         IN /\ Moved(b, c) /\ Sound(c, C) /\ At(c, b.cur, b.position) /\ c.scr_pos = k
            /\ c.scr_vert = b.scr_vert
<1> DEFINE c == [b EXCEPT !.scr_pos = k]
<1>1. b.cur \in 1..Len(b.lines) /\ b.position \in 1..Len(b.lines[b.cur].s)
  BY SoundFacts, Zenon
<1>2. /\ Same(b, c) /\ At(c, b.cur, b.position) /\ c.scr_horz = b.scr_horz /\ c.scr_pos = k
      /\ c.scr_vert = b.scr_vert /\ c.absolute_lin = b.absolute_lin
  BY SMTT(30) DEF Sound, Shape, Place, Same, At, Globals
<1> HIDE DEF c
<1>3. Placed(b, c, C, b.cur, b.position)
  BY <1>1, <1>2, SMTT(30) DEF Sound, Place, Row, Column, Placed, Landed
<1>4. Moved(b, c) /\ Sound(c, C)
  BY <1>2, <1>3, Arrives, Zenon DEF Sound
<1>5. QED
  BY <1>2, <1>4, Zenon DEF c

\* midscreen, with absolute_lin x.
Jump(b, n, line, x) == [midscreen(b, n, line) EXCEPT !.absolute_lin = x, !.scr_pos = 0]

LEMMA MidscreenLands ==
  ASSUME NEW C, NEW b, Sound(b, C), NEW n \in 1..Len(b.lines), NEW line \in Nat, NEW x \in Int
  PROVE  LET c == Jump(b, n, line, x)
         IN /\ Same(b, c) /\ Sound(c, C) /\ At(c, n, 1) /\ c.absolute_lin = x
            /\ x = b.absolute_lin + (n - b.cur) => Moved(b, c)
<1> DEFINE v == Min({line, LastLine, n - 1})
           c == Jump(b, n, line, x)
<1>1. n \in Nat /\ n >= 1 /\ LastLine \in Nat /\ b.lines \in Seq(Line(C))
  BY BufferAssumption DEF Sound, Shape
<1>2. v \in 0..LastLine /\ v < n
  <2>1. line \in Int /\ LastLine \in Int /\ n - 1 \in Int
    BY <1>1
  <2>2. v \in {line, LastLine, n - 1} /\ v <= LastLine /\ v <= n - 1
    BY <2>1, MinThree, Zenon
  <2>3. QED
    BY <1>1, <2>2
<1> HIDE DEF v
<1>3. /\ Same(b, c) /\ At(c, n, 1) /\ c.scr_horz = 0 /\ c.scr_pos = 0
      /\ c.scr_vert = v /\ c.absolute_lin = x
  <2>1. 1 - 1 = 0
    OBVIOUS
  <2>2. QED
    BY <2>1, SMTT(30) DEF Sound, Shape, Jump, midscreen, Same, At, Globals, v
<1> HIDE DEF c
<1>4. Len(b.lines[n].s) \in Nat \ {0} /\ scanline(b.lines[n].s, 1) = 0
  BY <1>1, LineType, ColumnType
<1>5. Landed(b, c, C, n, 1)
  <2>1. 1 \in 1..Len(b.lines[n].s) /\ 0 \in Int
    BY <1>4
  <2>2. QED
    BY <1>2, <1>3, <1>4, <2>1, Zenon DEF Landed
<1>6. Sound(c, C)
  BY <1>3, <1>5, Lands, Zenon DEF Sound
<1>7. ASSUME x = b.absolute_lin + (n - b.cur) PROVE Moved(b, c)
  <2>1. c.absolute_lin - c.cur = b.absolute_lin - b.cur
    BY <1>1, <1>3, <1>7, SMTT(30) DEF Sound, Place, At
  <2>2. QED
    BY <1>3, <2>1 DEF Moved
<1>8. QED
  BY <1>3, <1>6, <1>7, Zenon DEF c

LEMMA TopMoves ==
  ASSUME NEW C, NEW b, Sound(b, C)
  PROVE  /\ Moved(b, top(b)) /\ Sound(top(b), C)
         /\ Moved(b, bottom(b)) /\ Sound(bottom(b), C)
<1> DEFINE x == b.absolute_lin - (b.cur - 1)
           y == b.absolute_lin + Lines(b) - b.cur
<1>1. /\ x \in Int /\ 1 \in 1..Len(b.lines) /\ x = b.absolute_lin + (1 - b.cur)
      /\ y \in Int /\ Lines(b) \in 1..Len(b.lines) /\ y = b.absolute_lin + (Lines(b) - b.cur)
      /\ 0 \in Nat /\ LastLine \in Nat
  <2>1. LastLine \in Nat
    BY BufferAssumption
  <2>2. /\ Lines(b) = Len(b.lines) /\ Lines(b) \in Nat /\ b.cur \in Nat /\ b.cur >= 1
        /\ b.cur <= Lines(b) /\ b.absolute_lin \in Int
    BY Zenon DEF Sound, Place, Shape
  <2>3. QED
    BY <2>1, <2>2
<1>2. top(b) = Jump(b, 1, 0, x)
  BY SMTT(30) DEF Sound, Shape, top, Jump, midscreen, Globals
<1>3. bottom(b) = Jump(b, Lines(b), LastLine, y)
  BY SMTT(30) DEF Sound, Shape, bottom, Jump, midscreen, Globals
<1> HIDE DEF x, y
<1>4. /\ Sound(Jump(b, 1, 0, x), C)
      /\ x = b.absolute_lin + (1 - b.cur) => Moved(b, Jump(b, 1, 0, x))
  BY <1>1, MidscreenLands, Zenon
<1>5. /\ Sound(Jump(b, Lines(b), LastLine, y), C)
      /\ y = b.absolute_lin + (Lines(b) - b.cur) => Moved(b, Jump(b, Lines(b), LastLine, y))
  BY <1>1, MidscreenLands, Zenon
<1>6. QED
  BY <1>1, <1>2, <1>3, <1>4, <1>5, Zenon

LEMMA AdvWordMoves ==
  ASSUME NEW C, NEW b, Sound(b, C)
  PROVE  Moved(b, adv_word(b)) /\ Sound(adv_word(b), C)
<1>1. NextWord(b.lines[b.cur].s, b.position) \in b.position..Length(b)
  <2>1. /\ b.position \in 1..Length(b) /\ Length(b) = Len(b.lines[b.cur].s)
        /\ Length(b) \in Nat
    BY SMTT(30) DEF Sound, Shape, Place
  <2>2. QED
    BY <2>1, NextWordPlace, Zenon
<1>2. NextWord(b.lines[b.cur].s, b.position) \in 1..Length(b)
  BY <1>1, SMTT(30) DEF Sound, Place
<1>3. QED
  BY <1>2, MoveToMoves, Zenon DEF adv_word, curr_line

LEMMA EolMoves ==
  ASSUME NEW C, NEW b, Sound(b, C)
  PROVE  Moved(b, eol(b)) /\ Sound(eol(b), C)
<1> DEFINE c == IF b.position < Length(b) THEN b ELSE right(b, TRUE)
<1>1. Moved(b, c) /\ Sound(c, C)
  BY MovedNot, RightMoves, Zenon
<1>2. eol(b) = b \/ eol(b) = MoveTo(c, Length(c))
  BY Zenon DEF eol
<1> HIDE DEF c
<1>3. Length(c) \in 1..Length(c)
  BY <1>1, SMTT(30) DEF Sound, Place
<1>4. Moved(c, MoveTo(c, Length(c))) /\ Sound(MoveTo(c, Length(c)), C)
  BY <1>1, <1>3, MoveToMoves, Zenon
<1>5. Moved(b, MoveTo(c, Length(c)))
  BY <1>1, <1>4, MovedTwice, Zenon
<1>6. Moved(b, b)
  BY MovedNot, Zenon
<1>7. QED
  BY <1>2, <1>4, <1>5, <1>6, Zenon

LEMMA BolMoves ==
  ASSUME NEW C, NEW b, Sound(b, C)
  PROVE  Moved(b, bol(b)) /\ Sound(bol(b), C)
<1> DEFINE c == [b EXCEPT !.scr_pos = 0]
<1>1. bol(b) = b \/ bol(b) = MoveTo(b, 1) \/ bol(b) = up(c)
  BY DEF bol
<1>2. Moved(b, c) /\ Sound(c, C)
  <2>1. 0 \in Int
    OBVIOUS
  <2>2. QED
    BY <2>1, ScrPosFree, Zenon
<1> HIDE DEF c
<1>3. 1 \in 1..Length(b)
  BY SMTT(30) DEF Sound, Place
<1>4. Moved(c, up(c)) /\ Sound(up(c), C)
  BY <1>2, UpMoves, Zenon
<1>5. Moved(b, MoveTo(b, 1)) /\ Sound(MoveTo(b, 1), C)
  BY <1>3, MoveToMoves, Zenon
<1>6. Moved(b, up(c))
  BY <1>2, <1>4, MovedTwice, Zenon
<1>7. Moved(b, b)
  BY MovedNot, Zenon
<1>8. QED
  BY <1>1, <1>4, <1>5, <1>6, <1>7, Zenon

LEMMA AdvLineMoves ==
  ASSUME NEW C, NEW b, Sound(b, C)
  PROVE  /\ Moved(b, adv_line(b)) /\ Sound(adv_line(b), C)
         /\ adv_line(b).cur = IF b.cur = Lines(b) THEN b.cur ELSE b.cur + 1
<1> DEFINE a == MoveTo(b, Length(b))
           c == [b EXCEPT !.scr_pos = 0]
<1>1. Length(b) \in 1..Length(b) /\ 0 \in Int /\ (b.cur < Lines(b) <=> b.cur # Lines(b))
  BY SMTT(30) DEF Sound, Place
<1>2. /\ Moved(b, a) /\ Sound(a, C) /\ At(a, b.cur, Length(b)) /\ Same(b, a)
  BY <1>1, MoveToMoves, Zenon
<1>3. Moved(b, c) /\ Sound(c, C) /\ At(c, b.cur, b.position)
  BY <1>1, ScrPosFree, Zenon
<1>4. CASE b.point # 0 \/ b.scr_pos > 0
  <2>1. adv_line(b) = right(a, TRUE)
    BY <1>4, Zenon DEF adv_line
  <2> HIDE DEF a
  <2>2. a.position = Length(a) /\ Lines(a) = Lines(b) /\ a.cur = b.cur
    BY <1>2 DEF At, Same, Length, line_length, curr_line, Lines
  <2>3. Moved(a, right(a, TRUE)) /\ Sound(right(a, TRUE), C)
    BY <1>2, RightMoves, Zenon
  <2>4. right(a, TRUE).cur = IF a.cur = Lines(a) THEN a.cur ELSE a.cur + 1
    BY <1>2, <2>2, RightMoves, Zenon DEF At
  <2>5. QED
    BY <1>2, <2>1, <2>2, <2>3, <2>4, MovedTwice, Zenon
<1>5. CASE ~(b.point # 0 \/ b.scr_pos > 0) /\ b.cur # Lines(b)
  <2>1. adv_line(b) = down(c)
    BY <1>1, <1>5 DEF adv_line
  <2> HIDE DEF c
  <2>2. c.cur = b.cur /\ Lines(c) = Lines(b)
    BY <1>3 DEF At, Moved, Same, Lines
  <2>3. /\ Moved(c, down(c)) /\ Sound(down(c), C)
        /\ down(c).cur = IF c.cur = Lines(c) THEN c.cur ELSE c.cur + 1
    BY <1>3, DownMoves, Zenon
  <2>4. QED
    BY <1>3, <2>1, <2>2, <2>3, MovedTwice, Zenon
<1>6. CASE ~(b.point # 0 \/ b.scr_pos > 0) /\ b.cur = Lines(b)
  <2>1. adv_line(b) = b
    BY <1>1, <1>6 DEF adv_line
  <2>2. QED
    BY <1>6, <2>1, MovedNot, Zenon
<1>7. QED
  BY <1>4, <1>5, <1>6, Zenon

LEMMA UpsMoves ==
  ASSUME NEW C, NEW b, Sound(b, C), NEW k \in 0..(b.cur - 1)
  PROVE  /\ Moved(b, Ups(b, k)) /\ Sound(Ups(b, k), C) /\ Ups(b, k).cur = b.cur - k
         /\ Ups(b, k).scr_vert = Max({b.scr_vert - k, 0})
<1> DEFINE c == Ups(b, k)
           v == Max({b.scr_vert - k, 0})
<1>1. /\ b.cur \in Nat /\ k \in Nat /\ b.scr_vert \in Nat /\ b.scr_vert <= LastLine
      /\ b.scr_vert < b.cur /\ LastLine \in Nat
  BY BufferAssumption DEF Sound, Place, Row
<1>2. v \in {b.scr_vert - k, 0} /\ v >= b.scr_vert - k /\ v >= 0
  <2>1. b.scr_vert - k \in Int /\ 0 \in Int
    BY <1>1
  <2>2. QED
    BY <2>1, MaxTwo, Zenon
<1> HIDE DEF v
<1>3. CASE k = 0
  <2>1. Ups(b, k) = b /\ b.cur = b.cur - k /\ b.scr_vert = v
    BY <1>1, <1>2, <1>3 DEF Ups
  <2>2. QED
    BY <2>1, MovedNot, Zenon DEF v
<1>4. CASE k # 0
  <2>1. /\ b.cur - k \in 1..Len(b.lines) /\ v \in 0..LastLine /\ v < b.cur - k
        /\ b.absolute_lin - k = b.absolute_lin + ((b.cur - k) - b.cur) /\ ~(k <= 0)
    <3>1. /\ Lines(b) = Len(b.lines) /\ Lines(b) \in Nat /\ b.cur <= Lines(b)
          /\ b.absolute_lin \in Int
      BY Zenon DEF Sound, Place, Shape
    <3>2. v \in 0..LastLine /\ v < b.cur - k /\ ~(k <= 0)
      BY <1>1, <1>2, <1>4
    <3>3. b.cur - k \in 1..Len(b.lines)
      BY <1>1, <3>1
    <3>4. b.absolute_lin - k = b.absolute_lin + ((b.cur - k) - b.cur)
      BY <1>1, <3>1
    <3>5. QED
      BY <3>2, <3>3, <3>4
  <2>2. /\ Same(b, c) /\ At(c, b.cur - k, 1) /\ c.scr_horz = 0 /\ c.scr_pos = b.scr_pos
        /\ c.scr_vert = v /\ c.absolute_lin = b.absolute_lin - k
    <3>1. 1 - 1 = 0
      OBVIOUS
    <3>2. QED
      BY <2>1, <3>1, SMTT(30) DEF Sound, Shape, Ups, Same, At, Globals, v
  <2> HIDE DEF c
  <2>3. Len(b.lines[b.cur - k].s) \in Nat \ {0} /\ scanline(b.lines[b.cur - k].s, 1) = 0
    BY <2>1, LineType, ColumnType DEF Sound, Shape
  <2>4. 1 \in 1..Len(b.lines[b.cur - k].s) /\ 0 \in Int /\ b.cur \in Int /\ b.cur - k \in Int
    BY <1>1, <2>3
  <2>5. Placed(b, c, C, b.cur - k, 1)
    BY <2>1, <2>2, <2>3, <2>4, Zenon DEF Placed, Landed, Sound, Place
  <2>6. Moved(b, c) /\ Sound(c, C)
    BY <2>2, <2>5, Arrives, Zenon DEF Sound
  <2>7. QED
    BY <2>2, <2>6, Zenon DEF c, v, At
<1>5. QED
  BY <1>3, <1>4

LEMMA DownsMoves ==
  ASSUME NEW C, NEW b, Sound(b, C), NEW k \in 0..(Lines(b) - b.cur)
  PROVE  /\ Moved(b, Downs(b, k)) /\ Sound(Downs(b, k), C) /\ Downs(b, k).cur = b.cur + k
         /\ Downs(b, k).scr_vert = Min({b.scr_vert + k, LastLine})
<1> DEFINE c == Downs(b, k)
           v == Min({b.scr_vert + k, LastLine})
<1>1. /\ b.cur \in Nat /\ k \in Nat /\ b.scr_vert \in Nat /\ b.scr_vert <= LastLine
      /\ b.scr_vert < b.cur /\ LastLine \in Nat
  BY BufferAssumption DEF Sound, Place, Row
<1>2. v \in {b.scr_vert + k, LastLine} /\ v <= b.scr_vert + k /\ v <= LastLine
  <2>1. b.scr_vert + k \in Int /\ LastLine \in Int
    BY <1>1
  <2>2. QED
    BY <2>1, MinTwo, Zenon
<1> HIDE DEF v
<1>3. CASE k = 0
  <2>1. Downs(b, k) = b /\ b.cur = b.cur + k /\ b.scr_vert = v
    BY <1>1, <1>2, <1>3 DEF Downs
  <2>2. QED
    BY <2>1, MovedNot, Zenon DEF v
<1>4. CASE k # 0
  <2>1. /\ b.cur + k \in 1..Len(b.lines) /\ v \in 0..LastLine /\ v < b.cur + k
        /\ b.absolute_lin + k = b.absolute_lin + ((b.cur + k) - b.cur) /\ ~(k <= 0)
    <3>1. /\ Lines(b) = Len(b.lines) /\ Lines(b) \in Nat /\ b.cur <= Lines(b)
          /\ b.absolute_lin \in Int
      BY Zenon DEF Sound, Place, Shape
    <3>2. v \in 0..LastLine /\ v < b.cur + k /\ ~(k <= 0)
      BY <1>1, <1>2, <1>4
    <3>3. b.cur + k \in 1..Len(b.lines)
      BY <1>1, <3>1
    <3>4. b.absolute_lin + k = b.absolute_lin + ((b.cur + k) - b.cur)
      BY <1>1, <3>1
    <3>5. QED
      BY <3>2, <3>3, <3>4
  <2>2. /\ Same(b, c) /\ At(c, b.cur + k, 1) /\ c.scr_horz = 0 /\ c.scr_pos = b.scr_pos
        /\ c.scr_vert = v /\ c.absolute_lin = b.absolute_lin + k
    <3>1. 1 - 1 = 0
      OBVIOUS
    <3>2. QED
      BY <2>1, <3>1, SMTT(30) DEF Sound, Shape, Downs, Same, At, Globals, v
  <2> HIDE DEF c
  <2>3. Len(b.lines[b.cur + k].s) \in Nat \ {0} /\ scanline(b.lines[b.cur + k].s, 1) = 0
    BY <2>1, LineType, ColumnType DEF Sound, Shape
  <2>4. 1 \in 1..Len(b.lines[b.cur + k].s) /\ 0 \in Int /\ b.cur \in Int /\ b.cur + k \in Int
    BY <1>1, <2>3
  <2>5. Placed(b, c, C, b.cur + k, 1)
    BY <2>1, <2>2, <2>3, <2>4, Zenon DEF Placed, Landed, Sound, Place
  <2>6. Moved(b, c) /\ Sound(c, C)
    BY <2>2, <2>5, Arrives, Zenon DEF Sound
  <2>7. QED
    BY <2>2, <2>6, Zenon DEF c, v, At
<1>5. QED
  BY <1>3, <1>4

\* The row may be any that has enough lines above.
Reshown(b, v) == [b EXCEPT !.scr_vert = v, !.scr_horz = scanline(curr_line(b).s, b.point + 1)]

LEMMA ReshownMoves ==
  ASSUME NEW C, NEW b, Sound(b, C), NEW v \in 0..LastLine, v < b.cur
  PROVE  /\ Moved(b, Reshown(b, v)) /\ Sound(Reshown(b, v), C)
         /\ Reshown(b, v).cur = b.cur
<1> DEFINE c == Reshown(b, v)
           h == scanline(b.lines[b.cur].s, b.position)
<1>1. /\ b.cur \in 1..Len(b.lines) /\ b.position \in 1..Len(b.lines[b.cur].s)
      /\ b.position \in Nat \ {0}
  BY SoundFacts, Zenon
<1>2. h \in Int
  <2>1. h \in Nat
    BY <1>1, ColumnType, Zenon
  <2>2. QED
    BY <2>1
<1>3. b.point + 1 = b.position
  BY SMTT(30) DEF Sound, Place
<1>4. /\ Same(b, c) /\ At(c, b.cur, b.position) /\ c.scr_horz = h /\ c.scr_pos = b.scr_pos
      /\ c.scr_vert = v /\ c.absolute_lin = b.absolute_lin
  BY <1>3, SMTT(30) DEF Sound, Shape, Place, Reshown, curr_line, Same, At, Globals
<1> HIDE DEF c
<1>5. Landed(b, c, C, b.cur, b.position)
  BY <1>1, <1>2, <1>4, Zenon DEF Sound, Place, Landed
<1>6. b.absolute_lin \in Int /\ b.cur \in Int /\ b.absolute_lin = b.absolute_lin + (b.cur - b.cur)
  BY SMTT(30) DEF Sound, Place
<1>7. Placed(b, c, C, b.cur, b.position)
  BY <1>4, <1>5, <1>6, Zenon DEF Placed
<1>8. Moved(b, c) /\ Sound(c, C)
  BY <1>4, <1>7, Arrives, Zenon DEF Sound
<1>9. QED
  BY <1>4, <1>8, Zenon DEF c, At

LEMMA MoveUpMoves ==
  ASSUME NEW C, NEW b, Sound(b, C), NEW n \in Nat
  PROVE  /\ Moved(b, move_up(b, n)) /\ Sound(move_up(b, n), C)
         /\ n < b.cur => move_up(b, n).cur = b.cur - n
<1> DEFINE d == MoveTo(b, 1)
           a == [d EXCEPT !.scr_pos = 0]
           k == Min({n, b.cur - 1})
           c == Ups(a, k)
           i == Min({LookAhead, c.cur - 1})
           v == Ups(c, i).scr_vert + i
<1>1. 1 \in 1..Length(b) /\ 0 \in Int /\ b.cur \in Nat /\ b.cur >= 1
  BY SMTT(30) DEF Sound, Place
<1>2. Moved(b, d) /\ Sound(d, C) /\ d.cur = b.cur
  BY <1>1, MoveToMoves, Zenon DEF At
<1>3. move_up(b, n) = IF LastLine > LookAhead /\ c.scr_vert < LookAhead - 1
                      THEN Reshown(c, v) ELSE c
  BY DEF move_up, Reshown
<1> HIDE DEF d
<1>4. Moved(d, a) /\ Sound(a, C) /\ a.cur = d.cur
  <2>1. Moved(d, a) /\ Sound(a, C) /\ At(a, d.cur, d.position)
    BY <1>1, <1>2, ScrPosFree, Zenon
  <2>2. QED
    BY <2>1, Zenon DEF At
<1> HIDE DEF a
<1>5. Moved(b, a) /\ a.cur = b.cur
  BY <1>2, <1>4, MovedTwice, Zenon
<1>6. k \in 0..(a.cur - 1) /\ (n < b.cur => k = n)
  <2>1. n \in Int /\ b.cur - 1 \in Int
    BY <1>1
  <2>2. k \in {n, b.cur - 1} /\ k <= n /\ k <= b.cur - 1
    BY <2>1, MinTwo, Zenon
  <2>3. QED
    BY <1>1, <1>5, <2>2
<1> HIDE DEF k
<1>7. Moved(a, c) /\ Sound(c, C) /\ c.cur = a.cur - k
  BY <1>4, <1>6, UpsMoves, Zenon
<1> HIDE DEF c
<1>8. Moved(b, c)
  BY <1>5, <1>7, MovedTwice, Zenon
<1>9. CASE LastLine > LookAhead /\ c.scr_vert < LookAhead - 1
  <2>1. /\ LookAhead \in Int /\ c.cur - 1 \in Int /\ c.cur \in Nat /\ c.cur >= 1 /\ LookAhead >= 1
        /\ c.scr_vert \in Nat /\ c.scr_vert <= LastLine /\ c.scr_vert < c.cur /\ LastLine \in Nat
    BY <1>7, BufferAssumption DEF Sound, Place, Row
  <2>2. i \in {LookAhead, c.cur - 1} /\ i <= LookAhead /\ i <= c.cur - 1
    BY <2>1, MinTwo, Zenon
  <2> HIDE DEF i
  <2>3. i \in 0..(c.cur - 1) /\ c.scr_vert - i \in Int
    BY <2>1, <2>2
  <2>4. v = Max({c.scr_vert - i, 0}) + i
    BY <1>7, <2>3, UpsMoves, Zenon
  <2>5. Max({c.scr_vert - i, 0}) \in {c.scr_vert - i, 0}
    BY <1>1, <2>3, MaxTwo, Zenon
  <2>6. v \in 0..LastLine /\ v < c.cur
    BY <1>9, <2>1, <2>2, <2>3, <2>4, <2>5
  <2> HIDE DEF v
  <2>7. Moved(c, Reshown(c, v)) /\ Sound(Reshown(c, v), C) /\ Reshown(c, v).cur = c.cur
    BY <1>7, <2>6, ReshownMoves, Zenon
  <2>8. move_up(b, n) = Reshown(c, v)
    BY <1>3, <1>9, Zenon
  <2>9. QED
    BY <1>5, <1>6, <1>7, <1>8, <2>7, <2>8, MovedTwice, Zenon
<1>10. CASE ~(LastLine > LookAhead /\ c.scr_vert < LookAhead - 1)
  <2>1. move_up(b, n) = c
    BY <1>3, <1>10, Zenon
  <2>2. QED
    BY <1>5, <1>6, <1>7, <1>8, <2>1, Zenon
<1>11. QED
  BY <1>9, <1>10, Zenon

LEMMA MoveDownMoves ==
  ASSUME NEW C, NEW b, Sound(b, C), NEW n \in Nat \ {0}
  PROVE  /\ Moved(b, move_down(b, n)) /\ Sound(move_down(b, n), C)
         /\ b.cur + n <= Lines(b) => move_down(b, n).cur = b.cur + n
<1> DEFINE d == [nextline(b) EXCEPT !.scr_pos = 0, !.scr_horz = 0]
           f == [nextline(b) EXCEPT !.scr_horz = 0, !.scr_pos = 0]
           a == IF b.position # 1 /\ b.cur < Lines(b) THEN d ELSE adv_line(b)
           k == Min({n - 1, Lines(a) - a.cur})
           c == Downs(a, k)
           i == Min({LookAhead, Lines(c) - c.cur})
           v == Downs(c, i).scr_vert - i
<1>1. /\ b.cur \in Nat /\ b.cur >= 1 /\ b.cur <= Lines(b) /\ Lines(b) \in Nat
      /\ (b.cur < Lines(b) <=> b.cur # Lines(b))
  BY SMTT(30) DEF Sound, Place
<1>2. move_down(b, n) = IF LastLine > 2 * LookAhead /\ c.scr_vert > LastLine - LookAhead
                        THEN Reshown(c, v) ELSE c
  BY Zenon DEF move_down, Reshown
<1>3. d = f
  BY Zenon DEF nextline, Sound, Shape, Globals
<1>4. /\ Moved(b, a) /\ Sound(a, C)
      /\ a.cur = IF b.cur = Lines(b) THEN b.cur ELSE b.cur + 1
  <2>1. CASE b.position # 1 /\ b.cur < Lines(b)
    <3>1. Moved(b, f) /\ Sound(f, C) /\ f.cur = b.cur + 1
      BY <1>1, <2>1, NextlineMoves, Zenon DEF At
    <3> HIDE DEF d, f
    <3>2. QED
      BY <1>1, <1>3, <2>1, <3>1, Zenon
  <2>2. CASE ~(b.position # 1 /\ b.cur < Lines(b))
    BY <2>2, AdvLineMoves, Zenon
  <2>3. QED
    BY <2>1, <2>2, Zenon
<1> HIDE DEF a
<1>5. /\ Lines(a) = Lines(b) /\ a.cur \in Nat /\ a.cur <= Lines(a)
      /\ b.cur + n <= Lines(b) => a.cur = b.cur + 1
  <2>1. Lines(a) = Lines(b) /\ a.cur \in Nat /\ a.cur <= Lines(a)
    BY <1>4, SMTT(30) DEF Moved, Same, Lines, Sound, Place
  <2>2. QED
    BY <1>1, <1>4, <2>1
<1>6. k \in 0..(Lines(a) - a.cur) /\ (b.cur + n <= Lines(b) => a.cur + k = b.cur + n)
  <2>1. n - 1 \in Int /\ Lines(a) - a.cur \in Int
    BY <1>1, <1>5
  <2>2. k \in {n - 1, Lines(a) - a.cur} /\ k <= n - 1 /\ k <= Lines(a) - a.cur
    BY <2>1, MinTwo, Zenon
  <2>3. QED
    BY <1>1, <1>5, <2>2
<1> HIDE DEF k
<1>7. Moved(a, c) /\ Sound(c, C) /\ c.cur = a.cur + k
  <2>1. Sound(a, C)
    BY <1>4
  <2>2. k \in 0..(Lines(a) - a.cur)
    BY <1>6
  <2>3. QED
    BY <2>1, <2>2, DownsMoves, Zenon
<1> HIDE DEF c
<1>8. Moved(b, c)
  BY <1>4, <1>7, MovedTwice, Zenon
<1>9. CASE LastLine > 2 * LookAhead /\ c.scr_vert > LastLine - LookAhead
  <2>1. /\ LookAhead \in Int /\ Lines(c) - c.cur \in Int /\ Lines(c) - c.cur >= 0 /\ LookAhead >= 1
        /\ c.scr_vert \in Nat /\ c.scr_vert <= LastLine /\ c.scr_vert < c.cur /\ LastLine \in Nat
        /\ c.cur \in Nat
    BY <1>7, BufferAssumption DEF Sound, Place, Row
  <2>2. i \in {LookAhead, Lines(c) - c.cur} /\ i <= LookAhead /\ i <= Lines(c) - c.cur
    BY <2>1, MinTwo, Zenon
  <2> HIDE DEF i
  <2>3. i \in 0..(Lines(c) - c.cur) /\ c.scr_vert + i \in Int /\ LastLine \in Int
    BY <2>1, <2>2
  <2>4. v = Min({c.scr_vert + i, LastLine}) - i
    BY <1>7, <2>3, DownsMoves, Zenon
  <2>5. /\ Min({c.scr_vert + i, LastLine}) \in {c.scr_vert + i, LastLine}
        /\ Min({c.scr_vert + i, LastLine}) <= c.scr_vert + i
        /\ Min({c.scr_vert + i, LastLine}) <= LastLine
    BY <2>3, MinTwo, Zenon
  <2>6. v \in 0..LastLine /\ v < c.cur
    BY <1>9, <2>1, <2>2, <2>3, <2>4, <2>5
  <2> HIDE DEF v
  <2>7. Moved(c, Reshown(c, v)) /\ Sound(Reshown(c, v), C) /\ Reshown(c, v).cur = c.cur
    BY <1>7, <2>6, ReshownMoves, Zenon
  <2>8. move_down(b, n) = Reshown(c, v)
    BY <1>2, <1>9, Zenon
  <2>9. QED
    BY <1>6, <1>7, <1>8, <2>7, <2>8, MovedTwice, Zenon
<1>10. CASE ~(LastLine > 2 * LookAhead /\ c.scr_vert > LastLine - LookAhead)
  <2>1. move_down(b, n) = c
    BY <1>2, <1>10, Zenon
  <2>2. QED
    BY <1>6, <1>7, <1>8, <2>1, Zenon
<1>11. QED
  BY <1>9, <1>10, Zenon

LEMMA PageType == Page \in Nat \ {0}
<1>1. /\ LookAhead \in Int /\ LastLine - LookAhead \in Int /\ LookAhead >= 1
  BY BufferAssumption
<1>2. Page \in {LookAhead, LastLine - LookAhead} /\ Page >= LookAhead
  BY <1>1, MaxTwo, Zenon DEF Page
<1>3. QED
  BY <1>1, <1>2

\* The lines are numbered from 1.
Numbered(b) == \A q \in 1..Len(b.lines) : b.lines[q].no = q

LEMMA GotoTargetPlace ==
  ASSUME NEW C, NEW b, Sound(b, C), NEW number \in Int
  PROVE  LET t == GotoTarget(b, number)
         IN /\ t.line \in 1..Len(b.lines) /\ t.i \in Nat /\ (t.i = 0 => t.line = b.cur)
            /\ Numbered(b) => /\ t.line = Max({1, Min({number, Lines(b)})})
                              /\ t.down => b.cur + t.i = t.line
                              /\ ~t.down => b.cur - t.i = t.line /\ t.i < b.cur
<1> DEFINE T == {q \in 1..b.cur : q = 1 \/ b.lines[q].no <= number}
           top1 == Max(T)
           U == {q \in top1..Lines(b) : q = Lines(b) \/ b.lines[q].no >= number}
           u == Min(U)
           t == GotoTarget(b, number)
           n == Min({number, Lines(b)})
           m == Max({1, n})
<1>1. /\ Lines(b) = Len(b.lines) /\ Lines(b) \in Nat /\ b.cur \in Nat /\ b.cur >= 1
      /\ b.cur <= Lines(b)
  BY Zenon DEF Sound, Shape, Place
<1>2. t.line = u /\ t.down = (u > top1) /\ t.i = (b.cur - top1) + (u - top1)
  BY DEF GotoTarget
<1>3. T \subseteq 0..b.cur /\ 1 \in T
  BY <1>1
<1>4. top1 \in T /\ \A q \in T : q <= top1
  BY <1>1, <1>3, MaxOf, Zenon
<1>5. /\ top1 \in 1..b.cur /\ (top1 = 1 \/ b.lines[top1].no <= number)
      /\ \A q \in 1..b.cur : (q = 1 \/ b.lines[q].no <= number) => q <= top1
  BY <1>4
<1> HIDE DEF T, top1
<1>6. U \subseteq Nat /\ Lines(b) \in U
  BY <1>1, <1>5
<1>7. u \in U /\ \A q \in U : u <= q
  BY <1>6, MinOf, Zenon
<1>8. /\ u \in top1..Lines(b) /\ (u = Lines(b) \/ b.lines[u].no >= number)
      /\ \A q \in top1..Lines(b) : (q = Lines(b) \/ b.lines[q].no >= number) => u <= q
  BY <1>7
<1> HIDE DEF U, u
<1> HIDE DEF t
<1>9. t.line \in 1..Len(b.lines) /\ t.i \in Nat /\ (t.i = 0 => t.line = b.cur)
  BY <1>1, <1>2, <1>5, <1>8
<1>10. ASSUME Numbered(b)
       PROVE  /\ t.line = m /\ (t.down => b.cur + t.i = t.line)
              /\ ~t.down => b.cur - t.i = t.line /\ t.i < b.cur
  <2>1. /\ top1 = 1 \/ top1 <= number
        /\ \A q \in 1..b.cur : (q = 1 \/ q <= number) => q <= top1
    BY <1>1, <1>5, <1>10 DEF Numbered
  <2>2. /\ u = Lines(b) \/ u >= number
        /\ \A q \in top1..Lines(b) : (q = Lines(b) \/ q >= number) => u <= q
    BY <1>1, <1>5, <1>8, <1>10 DEF Numbered
  <2>3. n \in {number, Lines(b)} /\ n <= number /\ n <= Lines(b)
    <3>1. number \in Int /\ Lines(b) \in Int
      BY <1>1
    <3>2. QED
      BY <3>1, MinTwo, Zenon
  <2> HIDE DEF n
  <2>4. m \in {1, n} /\ m >= 1 /\ m >= n
    <3>1. 1 \in Int /\ n \in Int
      BY <1>1, <2>3
    <3>2. QED
      BY <3>1, MaxTwo, Zenon
  <2> HIDE DEF m
  <2>5. CASE number >= b.cur
    <3>1. top1 = b.cur
      BY <1>1, <1>5, <2>1, <2>5
    <3>2. u = m
      BY <1>1, <1>8, <2>2, <2>3, <2>4, <2>5, <3>1
    <3>3. b.cur + t.i = u /\ (~(u > top1) => b.cur - t.i = u /\ t.i < b.cur)
      BY <1>1, <1>2, <1>8, <3>1
    <3>4. QED
      BY <1>2, <3>2, <3>3, Zenon
  <2>6. CASE ~(number >= b.cur)
    <3>1. top1 >= number /\ (top1 = 1 \/ top1 = number)
      <4>1. CASE number >= 1
        BY <1>1, <1>5, <2>1, <2>6, <4>1
      <4>2. CASE ~(number >= 1)
        BY <1>1, <1>5, <2>1, <4>2
      <4>3. QED
        BY <4>1, <4>2
    <3>2. u = top1 /\ n = number
      BY <1>1, <1>5, <1>8, <2>2, <2>3, <2>6, <3>1
    <3>3. u = m
      BY <1>1, <1>5, <2>4, <3>1, <3>2
    <3>4. ~(u > top1) /\ b.cur - t.i = u /\ t.i < b.cur
      BY <1>1, <1>2, <1>5, <3>2
    <3>5. QED
      BY <1>2, <3>3, <3>4, Zenon
  <2>7. QED
    BY <2>5, <2>6
<1>11. QED
  BY <1>9, <1>10, Zenon DEF t, m, n

LEMMA GotoLineMoves ==
  ASSUME NEW C, NEW b, Sound(b, C), NEW number \in Int
  PROVE  /\ Same(b, goto_line(b, number)) /\ Sound(goto_line(b, number), C)
         /\ ~(GotoTarget(b, number).i >= Far) => Moved(b, goto_line(b, number))
         /\ Numbered(b) => goto_line(b, number).cur = Max({1, Min({number, Lines(b)})})
<1> DEFINE t == GotoTarget(b, number)
           m == Max({1, Min({number, Lines(b)})})
           x == IF t.down THEN b.absolute_lin - t.i ELSE b.absolute_lin + t.i
           half == LastLine \div 2
<1>1. /\ t.line \in 1..Len(b.lines) /\ t.i \in Nat /\ (t.i = 0 => t.line = b.cur)
      /\ Numbered(b) => /\ t.line = m /\ (t.down => b.cur + t.i = t.line)
                        /\ ~t.down => b.cur - t.i = t.line /\ t.i < b.cur
  BY GotoTargetPlace, Zenon
<1>2. goto_line(b, number) = IF t.i < Far /\ t.i > 0
                             THEN IF t.down THEN move_down(b, t.i) ELSE move_up(b, t.i)
                             ELSE Jump(b, t.line, half, x)
  BY SMTT(30) DEF goto_line, Jump, midscreen, Sound, Shape, Globals
<1>3. /\ b.absolute_lin \in Int /\ b.cur \in Int /\ half \in Nat /\ Far \in Nat \ {0}
      /\ Lines(b) = Len(b.lines)
  <2>1. b.absolute_lin \in Int /\ b.cur \in Int /\ Lines(b) = Len(b.lines)
    BY SMTT(30) DEF Sound, Shape, Place
  <2>2. QED
    BY <2>1, BufferAssumption
<1> HIDE DEF t, m, half
<1>4. CASE t.i < Far /\ t.i > 0 /\ t.down
  <2>1. goto_line(b, number) = move_down(b, t.i) /\ t.i \in Nat \ {0}
    BY <1>1, <1>2, <1>4
  <2>2. /\ Moved(b, move_down(b, t.i)) /\ Sound(move_down(b, t.i), C)
        /\ b.cur + t.i <= Lines(b) => move_down(b, t.i).cur = b.cur + t.i
    BY <2>1, MoveDownMoves, Zenon
  <2>3. Numbered(b) => b.cur + t.i <= Lines(b) /\ b.cur + t.i = m
    BY <1>1, <1>3, <1>4
  <2>4. Same(b, move_down(b, t.i))
    BY <2>2 DEF Moved
  <2>5. QED
    BY <2>1, <2>2, <2>3, <2>4, Zenon DEF m
<1>5. CASE t.i < Far /\ t.i > 0 /\ ~t.down
  <2>1. goto_line(b, number) = move_up(b, t.i)
    BY <1>2, <1>5, Zenon
  <2>2. /\ Moved(b, move_up(b, t.i)) /\ Sound(move_up(b, t.i), C)
        /\ t.i < b.cur => move_up(b, t.i).cur = b.cur - t.i
    BY <1>1, MoveUpMoves, Zenon
  <2>3. Numbered(b) => t.i < b.cur /\ b.cur - t.i = m
    BY <1>1, <1>5, Zenon
  <2>4. Same(b, move_up(b, t.i))
    BY <2>2 DEF Moved
  <2>5. QED
    BY <2>1, <2>2, <2>3, <2>4, Zenon DEF m
<1>6. CASE ~(t.i < Far /\ t.i > 0)
  <2>1. goto_line(b, number) = Jump(b, t.line, half, x)
    BY <1>2, <1>6, Zenon
  <2>2. x \in Int /\ (~(t.i >= Far) => x = b.absolute_lin + (t.line - b.cur))
    BY <1>1, <1>3, <1>6
  <2> HIDE DEF x
  <2>3. /\ Same(b, Jump(b, t.line, half, x)) /\ Sound(Jump(b, t.line, half, x), C)
        /\ At(Jump(b, t.line, half, x), t.line, 1)
        /\ x = b.absolute_lin + (t.line - b.cur) => Moved(b, Jump(b, t.line, half, x))
    BY <1>1, <1>3, <2>2, MidscreenLands, Zenon
  <2>4. Jump(b, t.line, half, x).cur = t.line
    BY <2>3, Zenon DEF At
  <2>5. QED
    BY <1>1, <2>1, <2>2, <2>3, <2>4, Zenon DEF t, m
<1>7. QED
  BY <1>4, <1>5, <1>6, Zenon

\* A match that search finds is in a line, at a byte of it.
LEMMA MatchPlace ==
  ASSUME NEW C, NEW b, Sound(b, C), NEW pat, Matches(b, pat) # {}
  PROVE  LET line == Min({m[1] : m \in Matches(b, pat)})
             iter == Min({m[2] : m \in {x \in Matches(b, pat) : x[1] = line}})
         IN line \in b.cur..Len(b.lines) /\ iter \in 1..Len(b.lines[line].s)
<1> DEFINE M == Matches(b, pat)
           L == {m[1] : m \in M}
           line == Min(L)
           I == {m[2] : m \in {x \in M : x[1] = line}}
           iter == Min(I)
<1>1. /\ Lines(b) = Len(b.lines) /\ Lines(b) \in Nat /\ b.cur \in Nat
      /\ b.lines \in Seq(Line(C)) /\ b.cur >= 1
  BY Zenon DEF Sound, Shape, Place
<1>2. \A m \in M : m[1] \in b.cur..Len(b.lines) /\ m[2] \in 1..Len(b.lines[m[1]].s)
  BY <1>1 DEF Matches
<1> HIDE DEF M
<1>3. L \subseteq Nat /\ L # {}
  <2>1. M # {}
    BY DEF M
  <2>2. QED
    BY <1>1, <1>2, <2>1
<1>4. line \in L
  BY <1>3, MinOf, Zenon
<1>5. PICK m \in M : m[1] = line
  BY <1>4, Zenon
<1> HIDE DEF L, line
<1>6. line \in b.cur..Len(b.lines) /\ line \in 1..Len(b.lines)
  BY <1>1, <1>2, <1>5
<1>7. Len(b.lines[line].s) \in Nat
  BY <1>1, <1>6, LineType
<1>8. I \subseteq 1..Len(b.lines[line].s) /\ m[2] \in I
  BY <1>2, <1>5, Zenon
<1>9. I \subseteq Nat /\ I # {}
  BY <1>7, <1>8
<1>10. iter \in I
  BY <1>9, MinOf, Zenon
<1>11. iter \in 1..Len(b.lines[line].s)
  BY <1>8, <1>10, Zenon
<1>12. QED
  BY <1>6, <1>11, Zenon DEF iter, I, line, L, M

LEMMA SearchMoves ==
  ASSUME NEW C, NEW b, Sound(b, C), NEW pat
  PROVE  Moved(b, search(b, pat)) /\ Sound(search(b, pat), C)
<1>1. CASE pat = <<>> \/ Matches(b, pat) = {}
  <2>1. search(b, pat) = b
    BY <1>1, Zenon DEF search
  <2>2. QED
    BY <2>1, MovedNot, Zenon
<1>2. CASE ~(pat = <<>> \/ Matches(b, pat) = {})
  <2> DEFINE line == Min({m[1] : m \in Matches(b, pat)})
             iter == Min({m[2] : m \in {x \in Matches(b, pat) : x[1] = line}})
             h == scanline(b.lines[line].s, iter)
             moved == line - b.cur
             c == [midscreen(b, line, LastLine \div 2)
                    EXCEPT !.absolute_lin = @ + moved, !.position = iter, !.point = iter - 1,
                           !.scr_horz = h, !.scr_pos = h]
  <2>1. line \in b.cur..Len(b.lines) /\ iter \in 1..Len(b.lines[line].s)
    BY <1>2, MatchPlace, Zenon
  <2>2. search(b, pat) = IF moved = 0 THEN MoveTo(b, iter)
                         ELSE IF moved < Far THEN MoveTo(move_down(b, moved), iter) ELSE c
    BY <1>2, Zenon DEF search
  <2> HIDE DEF line, iter
  <2>3. /\ Lines(b) = Len(b.lines) /\ Length(b) = Len(b.lines[b.cur].s) /\ b.cur \in Nat
        /\ b.lines \in Seq(Line(C)) /\ Lines(b) \in Nat /\ b.cur >= 1
    BY Zenon DEF Sound, Shape, Place
  <2>4. line \in 1..Len(b.lines) /\ moved \in Nat /\ line \in Nat
    BY <2>1, <2>3
  <2>5. CASE moved = 0
    <3>1. iter \in 1..Length(b)
      BY <2>1, <2>3, <2>4, <2>5
    <3>2. QED
      BY <2>2, <2>5, <3>1, MoveToMoves, Zenon
  <2>6. CASE moved # 0 /\ moved < Far
    <3> DEFINE d == move_down(b, moved)
    <3>1. moved \in Nat \ {0} /\ b.cur + moved <= Lines(b) /\ b.cur + moved = line
      BY <2>1, <2>3, <2>4, <2>6
    <3> HIDE DEF moved
    <3>2. Moved(b, d) /\ Sound(d, C) /\ d.cur = line
      BY <3>1, MoveDownMoves, Zenon
    <3>3. search(b, pat) = MoveTo(d, iter)
      BY <2>2, <2>6, Zenon
    <3> HIDE DEF d
    <3>4. iter \in 1..Length(d)
      BY <2>1, <3>2, Zenon DEF Moved, Same, Length, line_length, curr_line
    <3>5. Moved(d, MoveTo(d, iter)) /\ Sound(MoveTo(d, iter), C)
      BY <3>2, <3>4, MoveToMoves, Zenon
    <3>6. QED
      BY <3>2, <3>3, <3>5, MovedTwice, Zenon
  <2>7. CASE moved # 0 /\ ~(moved < Far)
    <3> DEFINE v == Min({LastLine \div 2, LastLine, line - 1})
    <3>1. search(b, pat) = c
      BY <2>2, <2>7, Zenon
    <3>2. v \in 0..LastLine /\ v < line
      <4>1. LastLine \div 2 \in Nat /\ LastLine \in Nat /\ line - 1 \in Nat
        BY <2>4, BufferAssumption
      <4>2. LastLine \div 2 \in Int /\ LastLine \in Int /\ line - 1 \in Int
        BY <4>1
      <4>3. v \in {LastLine \div 2, LastLine, line - 1} /\ v <= LastLine /\ v <= line - 1
        BY <4>2, MinThree, Zenon
      <4> HIDE DEF v
      <4>4. v \in Nat
        BY <4>1, <4>3
      <4>5. QED
        BY <2>4, <4>1, <4>3, <4>4
    <3> HIDE DEF v
    <3>3. iter \in Nat \ {0}
      <4>1. Len(b.lines[line].s) \in Nat
        BY <2>3, <2>4, LineType
      <4>2. QED
        BY <2>1, <4>1
    <3>4. h \in Nat
      BY <3>3, ColumnType, Zenon
    <3>5. h \in Int
      BY <3>4
    <3> HIDE DEF h, moved
    <3>6. /\ Same(b, c) /\ At(c, line, iter) /\ c.scr_horz = h /\ c.scr_pos = h
          /\ c.scr_vert = v /\ c.absolute_lin = b.absolute_lin + moved
      BY Zenon DEF Sound, Shape, midscreen, Same, At, Globals, v
    <3> HIDE DEF c
    <3>7. Landed(b, c, C, line, iter)
      BY <2>1, <2>4, <3>2, <3>5, <3>6, Zenon DEF Landed, h
    <3>8. b.absolute_lin \in Int /\ b.cur \in Int
      BY SMTT(30) DEF Sound, Place
    <3>9. Placed(b, c, C, line, iter)
      BY <3>6, <3>7, <3>8, Zenon DEF Placed, moved
    <3>10. Moved(b, c) /\ Sound(c, C)
      BY <3>6, <3>9, Arrives, Zenon DEF Sound
    <3>11. QED
      BY <3>1, <3>10, Zenon
  <2>8. QED
    BY <2>5, <2>6, <2>7, Zenon
<1>3. QED
  BY <1>1, <1>2, Zenon
=============================================================================
