--------------------------- MODULE EeBufferProofs ---------------------------
(***************************************************************************)
(* Proofs about EeBuffer, for every text, window, margin and width of a    *)
(* tab, every chunk lines are allocated in and every length of a session:  *)
(* editing keeps the buffer sound, and what follows for the specification. *)
(***************************************************************************)
EXTENDS EeMotionProofs

-----------------------------------------------------------------------------
(* Places in a line, and room for it.                                      *)

LEMMA WrapPlace ==
  ASSUME NEW s, NEW p \in Nat, NEW margin
  PROVE  WrapAt(s, p, margin) \in {1} \cup 2..(p - 1)
<1> DEFINE T == {1} \cup {q \in 3..(p - 1) : /\ ~Blank(s[q]) /\ Blank(s[q - 1])
                                             /\ scanline(s, q) <= margin}
<1>1. T \subseteq 0..(p + 1) /\ T # {} /\ T \subseteq {1} \cup 2..(p - 1) /\ p + 1 \in Nat
  OBVIOUS
<1>2. WrapAt(s, p, margin) = Max(T)
  BY DEF WrapAt
<1> HIDE DEF T
<1>3. QED
  BY <1>1, <1>2, MaxOf, Zenon

\* insert_line's allocation leaves room.
LEMMA NodeRoom ==
  ASSUME NEW k \in Nat
  PROVE  NodeMax(k) \in Int /\ NodeMax(k) >= k + LineSlack
<1> DEFINE y == k + LineSlack + LineChunk - 1
           q == y \div LineChunk
<1>1. y \in Nat /\ LineChunk \in Nat \ {0} /\ LineSlack \in Nat /\ y = k + LineSlack + LineChunk - 1
  BY LineAssumption
<1>2. NodeMax(k) = LineChunk * q
  BY DEF NodeMax
<1> HIDE DEF y
<1>3. q \in Int /\ y % LineChunk \in 0..(LineChunk - 1) /\ y = LineChunk * q + (y % LineChunk)
  BY <1>1
<1> HIDE DEF q
<1>4. LineChunk * q \in Int
  BY <1>1, <1>3
<1> DEFINE z == LineChunk * q
<1> HIDE DEF z
<1>5. z \in Int /\ NodeMax(k) = z /\ y = z + (y % LineChunk)
  BY <1>2, <1>3, <1>4 DEF z
<1>6. QED
  BY <1>1, <1>3, <1>5

-----------------------------------------------------------------------------
(* Sequences: bytes of a line and lines of the text.                       *)

LEMMA InsertedSeq ==
  ASSUME NEW S, NEW s \in Seq(S), NEW p \in 1..(Len(s) + 1), NEW c \in S
  PROVE  /\ Inserted(s, p, c) \in Seq(S) /\ Len(Inserted(s, p, c)) = Len(s) + 1
         /\ Begin(Inserted(s, p, c), s, p)
         /\ Inserted(s, p, c)[p] = c
<1> DEFINE a == SubSeq(s, 1, p - 1)
           b == SubSeq(s, p, Len(s))
           d == a \o <<c>>
<1>1. a \in Seq(S) /\ Len(a) = p - 1 /\ \A i \in 1..(p - 1) : a[i] = s[i]
  OBVIOUS
<1>2. b \in Seq(S) /\ Len(b) = Len(s) - p + 1
  OBVIOUS
<1> HIDE DEF a, b
<1>3. d \in Seq(S) /\ Len(d) = p /\ d[p] = c /\ \A i \in 1..(p - 1) : d[i] = s[i]
  BY <1>1, SMTT(30)
<1>4. Inserted(s, p, c) = d \o b
  BY DEF Inserted, a, b
<1> HIDE DEF d
<1>5. /\ d \o b \in Seq(S) /\ Len(d \o b) = Len(s) + 1 /\ (d \o b)[p] = c
      /\ \A i \in 1..(p - 1) : (d \o b)[i] = s[i]
  BY <1>2, <1>3, SMTT(30)
<1>6. QED
  BY <1>4, <1>5, Zenon DEF Begin

LEMMA RemovedSeq ==
  ASSUME NEW S, NEW s \in Seq(S), NEW p \in 1..Len(s)
  PROVE  /\ Removed(s, p) \in Seq(S) /\ Len(Removed(s, p)) = Len(s) - 1
         /\ Begin(Removed(s, p), s, p)
<1> DEFINE a == SubSeq(s, 1, p - 1)
           b == SubSeq(s, p + 1, Len(s))
<1>1. a \in Seq(S) /\ Len(a) = p - 1 /\ \A i \in 1..(p - 1) : a[i] = s[i]
  OBVIOUS
<1>2. b \in Seq(S) /\ Len(b) = Len(s) - p
  OBVIOUS
<1> HIDE DEF a, b
<1>3. a \o b \in Seq(S) /\ Len(a \o b) = Len(s) - 1 /\ \A i \in 1..(p - 1) : (a \o b)[i] = s[i]
  BY <1>1, <1>2, SMTT(30)
<1>4. QED
  BY <1>3, Zenon DEF Removed, a, b, Begin

\* The bytes before p with something else behind them.
LEMMA ReplacedSeq ==
  ASSUME NEW S, NEW s \in Seq(S), NEW p \in 1..(Len(s) + 1), NEW t \in Seq(S)
  PROVE  /\ SubSeq(s, 1, p - 1) \o t \in Seq(S)
         /\ Len(SubSeq(s, 1, p - 1) \o t) = p - 1 + Len(t)
         /\ Begin(SubSeq(s, 1, p - 1) \o t, s, p)
<1> DEFINE a == SubSeq(s, 1, p - 1)
<1>1. a \in Seq(S) /\ Len(a) = p - 1 /\ \A i \in 1..(p - 1) : a[i] = s[i]
  OBVIOUS
<1> HIDE DEF a
<1>2. a \o t \in Seq(S) /\ Len(a \o t) = p - 1 + Len(t) /\ \A i \in 1..(p - 1) : (a \o t)[i] = s[i]
  BY <1>1
<1>3. QED
  BY <1>2 DEF a, Begin

LEMMA EndedSeq ==
  ASSUME NEW S, NEW s \in Seq(S), NEW p \in 1..(Len(s) + 1), NEW c \in S
  PROVE  /\ Append(SubSeq(s, 1, p - 1), c) \in Seq(S)
         /\ Len(Append(SubSeq(s, 1, p - 1), c)) = p
         /\ Begin(Append(SubSeq(s, 1, p - 1), c), s, p)
<1> DEFINE a == SubSeq(s, 1, p - 1)
<1>1. a \in Seq(S) /\ Len(a) = p - 1 /\ \A i \in 1..(p - 1) : a[i] = s[i]
  OBVIOUS
<1> HIDE DEF a
<1>2. Append(a, c) \in Seq(S) /\ Len(Append(a, c)) = p /\ \A i \in 1..(p - 1) : Append(a, c)[i] = s[i]
  BY <1>1
<1>3. QED
  BY <1>2 DEF a, Begin

\* A stretch of bytes.
LEMMA StretchSeq ==
  ASSUME NEW S, NEW s \in Seq(S), NEW m \in Nat, NEW n \in Nat, m >= 1, m <= n + 1, n <= Len(s)
  PROVE  SubSeq(s, m, n) \in Seq(S) /\ Len(SubSeq(s, m, n)) = n - m + 1
OBVIOUS

-----------------------------------------------------------------------------
(* Editing.                                                                *)

\* The line is still where absolute_lin says, and a change is noted.
Level(b, c) == c.absolute_lin - c.cur = b.absolute_lin - b.cur
Noted(b, c) ==
  \/ c.text_changes = TRUE
  \/ /\ TextOf(c.lines) = TextOf(b.lines) /\ c.d_word = b.d_word
     /\ c.text_changes = b.text_changes
Changed(b, c) == Level(b, c) /\ Noted(b, c)

LEMMA ChangedTwice ==
  ASSUME NEW b, NEW c, NEW d, Changed(b, c), Changed(c, d)
  PROVE  Changed(b, d)
<1>1. Level(b, d)
  BY DEF Changed, Level
<1>2. Noted(b, d)
  BY Zenon DEF Changed, Noted
<1>3. QED
  BY <1>1, <1>2 DEF Changed

LEMMA MovedChanged ==
  ASSUME NEW b, NEW c, Moved(b, c)
  PROVE  Changed(b, c)
<1>1. Level(b, c)
  BY DEF Moved, Level
<1>2. Noted(b, c)
  BY Zenon DEF Moved, Same, Noted
<1>3. QED
  BY <1>1, <1>2 DEF Changed

\* A line of bytes x, with space m and number k, and a text with l as its i-th line.
Struct(x, m, k) == [s |-> x, max |-> m, no |-> k]
Put(q, i, l) == [q EXCEPT ![i] = l]
Differ(q, z, i, l) ==
  Len(z) = Len(q) /\ z[i] = l /\ \A j \in 1..Len(q) : j # i => z[j] = q[j]

LEMMA StructType ==
  ASSUME NEW C, NEW x \in Seq(C), NEW m \in Int, NEW k \in Int, Len(x) >= 1, Len(x) <= m
  PROVE  Struct(x, m, k) \in Line(C)
BY DEF Line, Struct

LEMMA LineFields ==
  ASSUME NEW C, NEW l \in Line(C)
  PROVE  /\ l.s \in Seq(C) /\ Len(l.s) \in Nat /\ Len(l.s) >= 1 /\ l.max \in Int
         /\ Len(l.s) <= l.max /\ l.no \in Int
BY DEF Line

LEMMA LineChanged ==
  ASSUME NEW C, NEW l \in Line(C), NEW x, NEW m
  PROVE  /\ [l EXCEPT !.s = x] = Struct(x, l.max, l.no)
         /\ [l EXCEPT !.max = m] = Struct(l.s, m, l.no)
         /\ [l EXCEPT !.s = x, !.max = m] = Struct(x, m, l.no)
<1>1. l \in [s : Seq(C), max : Int, no : Int]
  BY DEF Line
<1>2. DOMAIN l = {"s", "max", "no"}
  BY <1>1
<1>4. [l EXCEPT !.s = x] = Struct(x, l.max, l.no)
  BY <1>2 DEF Struct
<1>5. [l EXCEPT !.max = m] = Struct(l.s, m, l.no)
  BY <1>2 DEF Struct
<1>6. [l EXCEPT !.s = x, !.max = m] = Struct(x, m, l.no)
  <2>1. [Struct(x, l.max, l.no) EXCEPT !.max = m] = Struct(x, m, l.no)
    BY DEF Struct
  <2>2. QED
    BY <1>4, <2>1, Zenon
<1>7. QED
  BY <1>4, <1>5, <1>6, Zenon

LEMMA LineReplaced ==
  ASSUME NEW S, NEW q \in Seq(S), NEW i \in 1..Len(q), NEW l \in S
  PROVE  Put(q, i, l) \in Seq(S) /\ Differ(q, Put(q, i, l), i, l)
BY DEF Put, Differ

\* How an edit is shown to keep the buffer sound.
LEMMA EditArrives ==
  ASSUME NEW C, NEW c, NEW n, NEW p, TextOK(c, C), Landed(c, c, C, n, p),
         c.absolute_lin \in Int
  PROVE  Sound(c, C)
<1>1. Same(c, c)
  BY DEF Same, TextOK
<1>2. QED
  BY <1>1, Lands, Zenon

\* What an edit leaves alone is still well.
Untouched(b, c) ==
  /\ c.overrun = b.overrun /\ c.d_char = b.d_char /\ c.d_word = b.d_word /\ c.d_line = b.d_line
  /\ c.text_changes = b.text_changes \/ c.text_changes = TRUE

LEMMA UntouchedRest ==
  ASSUME NEW C, NEW b, NEW c, Rest(b, C), Untouched(b, c)
  PROVE  Rest(c, C)
BY Zenon DEF Rest, Untouched

\* c is b with another current line l, and the cursor at p.
Rewritten(b, c, l, p) ==
  /\ DOMAIN c = Globals /\ c.lines = Put(b.lines, b.cur, l) /\ At(c, b.cur, p)
  /\ c.scr_vert = b.scr_vert /\ c.absolute_lin = b.absolute_lin
  /\ c.scr_horz \in Int /\ c.scr_pos \in Int

LEMMA RewrittenSound ==
  ASSUME NEW C, NEW b, NEW c, NEW l \in Line(C), NEW p \in 1..Len(l.s), Sound(b, C),
         Rewritten(b, c, l, p), Rest(c, C), "del" \notin C => c.scr_horz = scanline(l.s, p)
  PROVE  Sound(c, C) /\ Level(b, c) /\ Differ(b.lines, c.lines, b.cur, l)
<1>1. b.cur \in 1..Len(b.lines) /\ b.lines \in Seq(Line(C)) /\ b.absolute_lin \in Int /\ b.cur \in Int
  BY SoundFacts, Zenon
<1>2. c.lines = Put(b.lines, b.cur, l)
  BY DEF Rewritten
<1>3. Put(b.lines, b.cur, l) \in Seq(Line(C)) /\ Differ(b.lines, Put(b.lines, b.cur, l), b.cur, l)
  BY <1>1, LineReplaced, Zenon
<1>4. c.lines \in Seq(Line(C)) /\ Differ(b.lines, c.lines, b.cur, l)
  BY <1>2, <1>3, Zenon
<1>5. Len(c.lines) = Len(b.lines) /\ c.lines[b.cur] = l
  BY <1>4, Zenon DEF Differ
<1>6. TextOK(c, C)
  BY <1>4, Zenon DEF TextOK, Rewritten
<1>7. Landed(c, c, C, b.cur, p)
  BY <1>1, <1>5, Zenon DEF Landed, Rewritten, Sound, Row
<1>8. c.absolute_lin \in Int /\ c.cur = b.cur /\ c.absolute_lin = b.absolute_lin
  BY <1>1 DEF Rewritten, At
<1>9. Sound(c, C)
  BY <1>6, <1>7, <1>8, EditArrives, Zenon
<1>10. QED
  BY <1>4, <1>8, <1>9, Zenon DEF Level

\* resiz_line.
Resized(b, a, k) ==
  /\ DOMAIN a = Globals
  /\ a.lines = Put(b.lines, b.cur, Struct(b.lines[b.cur].s, b.lines[b.cur].max + k,
                                          b.lines[b.cur].no))
  /\ a.cur = b.cur /\ a.position = b.position /\ a.point = b.position - 1
  /\ a.scr_horz = b.scr_horz /\ a.scr_vert = b.scr_vert /\ a.scr_pos = b.scr_pos
  /\ a.absolute_lin = b.absolute_lin /\ a.text_changes = b.text_changes /\ a.overrun = b.overrun
  /\ a.d_char = b.d_char /\ a.d_word = b.d_word /\ a.d_line = b.d_line

LEMMA ResizLineFields ==
  ASSUME NEW C, NEW b, DOMAIN b = Globals, b.lines \in Seq(Line(C)), b.cur \in 1..Len(b.lines),
         NEW k
  PROVE  Resized(b, resiz_line(b, k), k)
<1> DEFINE l == b.lines[b.cur]
<1>1. l \in Line(C)
  OBVIOUS
<1> HIDE DEF l
<1>2. [l EXCEPT !.max = l.max + k] = Struct(l.s, l.max + k, l.no)
  BY <1>1, LineChanged, Zenon
<1>3. QED
  BY <1>2 DEF Resized, resiz_line, SetLine, curr_line, Globals, Put, l

LEMMA ResizedSound ==
  ASSUME NEW C, NEW b, NEW a, NEW k \in Nat, Sound(b, C), Resized(b, a, k)
  PROVE  LET m == Struct(b.lines[b.cur].s, b.lines[b.cur].max + k, b.lines[b.cur].no)
         IN /\ Sound(a, C) /\ Level(b, a) /\ m \in Line(C) /\ At(a, b.cur, b.position)
            /\ Differ(b.lines, a.lines, b.cur, m)
<1> DEFINE l == b.lines[b.cur]
           m == Struct(l.s, l.max + k, l.no)
<1>1. /\ l \in Line(C) /\ b.position \in 1..Len(l.s) /\ b.scr_horz \in Int /\ b.scr_pos \in Int
  BY SoundFacts, Zenon
<1>2. "del" \notin C => b.scr_horz = scanline(l.s, b.position)
  BY Zenon DEF Sound, Column
<1>3. Rewritten(b, a, m, b.position) /\ Untouched(b, a) /\ a.scr_horz = b.scr_horz
  BY <1>1, Zenon DEF Resized, Rewritten, Untouched, At
<1> HIDE DEF l
<1>4. m \in Line(C)
  <2>1. /\ l.s \in Seq(C) /\ Len(l.s) \in Nat /\ Len(l.s) >= 1 /\ l.max \in Int
        /\ Len(l.s) <= l.max /\ l.no \in Int
    BY <1>1, LineFields, Zenon
  <2>2. l.max + k \in Int /\ Len(l.s) <= l.max + k
    BY <2>1
  <2>3. QED
    BY <2>1, <2>2, StructType, Zenon
<1>5. m.s = l.s
  BY DEF Struct
<1> HIDE DEF m
<1>6. Rest(a, C)
  BY <1>3, UntouchedRest, Zenon DEF Sound, TextOK
<1>7. "del" \notin C => a.scr_horz = scanline(m.s, b.position)
  BY <1>2, <1>3, <1>5, Zenon
<1>8. b.position \in 1..Len(m.s)
  BY <1>1, <1>5, Zenon
<1>9. Sound(a, C) /\ Level(b, a) /\ Differ(b.lines, a.lines, b.cur, m)
  BY <1>3, <1>4, <1>6, <1>7, <1>8, RewrittenSound, Zenon
<1>10. QED
  BY <1>3, <1>4, <1>9, Zenon DEF m, l, Rewritten

LEMMA CharWidthInt ==
  ASSUME NEW b, NEW col \in Int
  PROVE  len_char(b, col) \in Int
BY LineAssumption DEF len_char, tabshift

\* The line PutChar writes to, with room for a byte and the one behind the NUL.
Roomy(b) ==
  IF b.lines[b.cur].max - Len(b.lines[b.cur].s) < LineSlack THEN resiz_line(b, LineChunk) ELSE b

LEMMA RoomyRoom ==
  ASSUME NEW C, NEW b, Sound(b, C)
  PROVE  LET a == Roomy(b)
         IN /\ Sound(a, C) /\ Level(b, a) /\ At(a, b.cur, b.position)
            /\ Len(a.lines[a.cur].s) + 1 < a.lines[a.cur].max
<1> DEFINE l == b.lines[b.cur]
           a == resiz_line(b, LineChunk)
           m == Struct(l.s, l.max + LineChunk, l.no)
<1>1. /\ l \in Line(C) /\ b.cur \in 1..Len(b.lines) /\ DOMAIN b = Globals
      /\ b.lines \in Seq(Line(C)) /\ b.point = b.position - 1
  BY SoundFacts, Zenon
<1>2. /\ Len(l.s) \in Nat /\ l.max \in Int /\ Len(l.s) <= l.max
  BY <1>1, LineFields, Zenon
<1>3. LineChunk \in Nat /\ LineSlack \in Nat /\ 2 <= LineSlack /\ LineSlack <= LineChunk
  BY LineAssumption
<1>4. CASE l.max - Len(l.s) < LineSlack
  <2>1. Resized(b, a, LineChunk)
    BY <1>1, ResizLineFields, Zenon
  <2>2. /\ Sound(a, C) /\ Level(b, a) /\ At(a, b.cur, b.position)
        /\ Differ(b.lines, a.lines, b.cur, m)
    BY <1>3, <2>1, ResizedSound, Zenon
  <2>3. a.lines[a.cur] = m
    BY <2>2, Zenon DEF At, Differ
  <2>4. m.s = l.s /\ m.max = l.max + LineChunk
    BY DEF Struct
  <2>5. Len(l.s) + 1 < l.max + LineChunk
    BY <1>2, <1>3
  <2>6. QED
    BY <1>4, <2>2, <2>3, <2>4, <2>5, Zenon DEF Roomy
<1>5. CASE ~(l.max - Len(l.s) < LineSlack)
  <2>1. Len(l.s) + 1 < l.max
    BY <1>2, <1>3, <1>5
  <2>2. Roomy(b) = b
    BY <1>5, Zenon DEF Roomy
  <2>3. Level(b, b) /\ At(b, b.cur, b.position)
    BY <1>1, Zenon DEF Level, At
  <2>4. QED
    BY <2>1, <2>2, <2>3, Zenon
<1>6. QED
  BY <1>4, <1>5, Zenon

LEMMA PutCharSound ==
  ASSUME NEW C, NEW b, Sound(b, C), NEW ch \in C
  PROVE  Sound(PutChar(b, ch), C) /\ Changed(b, PutChar(b, ch))
<1> DEFINE a == Roomy(b)
           l == a.lines[a.cur]
           p == b.position
           x == Inserted(l.s, p, ch)
           m == Struct(x, l.max, l.no)
           h == a.scr_horz + len_char(ch, a.scr_horz)
           c == PutChar(b, ch)
           d == [SetLine(a, [l EXCEPT !.s = Inserted(@, a.point + 1, ch)])
                   EXCEPT !.text_changes = TRUE, !.scr_horz = h, !.scr_pos = h,
                          !.point = @ + 1, !.position = @ + 1,
                          !.overrun = @ \/ Len(l.s) + 1 >= l.max]
<1>1. c = d
  BY Zenon DEF PutChar, Roomy, curr_line, line_length
<1>2. Sound(a, C) /\ Level(b, a) /\ At(a, b.cur, p) /\ Len(l.s) + 1 < l.max
  BY RoomyRoom, Zenon
<1> HIDE DEF a, c
<1>3. /\ l \in Line(C) /\ p \in 1..Len(l.s) /\ a.scr_horz \in Int /\ p \in Nat \ {0}
      /\ DOMAIN a = Globals /\ a.point + 1 = p /\ a.position = p /\ a.overrun = FALSE
      /\ a.cur = b.cur
  <2>1. /\ l \in Line(C) /\ a.position \in 1..Len(l.s) /\ a.position \in Nat \ {0}
    BY <1>2, SoundFacts, Zenon
  <2>2. /\ a.scr_horz \in Int /\ DOMAIN a = Globals /\ a.position = p /\ a.cur = b.cur
        /\ a.overrun = FALSE /\ a.point = p - 1
    BY <1>2, Zenon DEF Sound, Shape, Place, At, TextOK, Rest
  <2>3. a.point + 1 = p
    BY <2>1, <2>2
  <2>4. QED
    BY <2>1, <2>2, <2>3, Zenon
<1>4. ("del" \notin C => a.scr_horz = scanline(l.s, p)) /\ Rest(a, C)
  BY <1>2, <1>3, Zenon DEF Sound, Column, TextOK
<1> HIDE DEF l, p
<1>5. /\ l.s \in Seq(C) /\ Len(l.s) \in Nat /\ l.max \in Int /\ l.no \in Int
  BY <1>3, LineFields, Zenon
<1>6. [l EXCEPT !.s = x] = m
  BY <1>3, LineChanged, Zenon
<1>7. h \in Int
  <2>1. len_char(ch, a.scr_horz) \in Int
    BY <1>3, CharWidthInt, Zenon
  <2>2. QED
    BY <1>3, <2>1
<1>8. ~(Len(l.s) + 1 >= l.max) /\ p + 1 - 1 = p /\ a.point + 1 = p + 1 - 1
  BY <1>2, <1>3, <1>5
<1> HIDE DEF x, m, h
<1>9. /\ DOMAIN c = Globals /\ c.lines = Put(a.lines, a.cur, m) /\ At(c, a.cur, p + 1)
      /\ c.scr_vert = a.scr_vert /\ c.absolute_lin = a.absolute_lin
      /\ c.scr_horz = h /\ c.scr_pos = h /\ c.d_char = a.d_char /\ c.d_word = a.d_word
      /\ c.d_line = a.d_line
  BY <1>1, <1>3, <1>6, <1>8 DEF SetLine, Put, At, Globals, l, x
<1>10. c.text_changes = TRUE
  BY <1>1, <1>3, Zenon DEF SetLine, Globals
<1>11. c.overrun = FALSE
  BY <1>1, <1>3, <1>8, Zenon DEF SetLine, Globals
<1>12. /\ x \in Seq(C) /\ Len(x) = Len(l.s) + 1 /\ x[p] = ch
       /\ Begin(x, l.s, p)
  <2>1. p \in 1..(Len(l.s) + 1)
    BY <1>3, <1>5
  <2>2. QED
    BY <1>5, <2>1, InsertedSeq DEF x
<1>13. scanline(x, p + 1) = scanline(l.s, p) + len_char(ch, scanline(l.s, p))
  <2>1. scanline(x, p) = scanline(l.s, p)
    BY <1>3, <1>12, ColumnPrefix, Zenon
  <2>2. scanline(x, p + 1) = scanline(x, p) + len_char(x[p], scanline(x, p))
    BY <1>3, ColumnStep
  <2>3. QED
    BY <1>12, <2>1, <2>2, Zenon
<1>14. m \in Line(C) /\ m.s = x /\ p + 1 \in 1..Len(x)
  <2>1. Len(x) >= 1 /\ Len(x) <= l.max /\ p + 1 \in 1..Len(x)
    BY <1>2, <1>3, <1>5, <1>12
  <2>2. m \in Line(C)
    BY <1>5, <1>12, <2>1, StructType, Zenon DEF m
  <2>3. QED
    BY <2>1, <2>2 DEF m, Struct
<1>15. "del" \notin C => c.scr_horz = scanline(m.s, p + 1)
  BY <1>4, <1>9, <1>13, <1>14, Zenon DEF h
<1>16. Rewritten(a, c, m, p + 1) /\ Untouched(a, c)
  BY <1>3, <1>7, <1>9, <1>10, <1>11, Zenon DEF Rewritten, Untouched
<1>17. Rest(c, C)
  BY <1>4, <1>16, UntouchedRest, Zenon
<1>18. p + 1 \in 1..Len(m.s)
  BY <1>14, Zenon
<1>19. Sound(c, C) /\ Level(a, c)
  BY <1>2, <1>14, <1>15, <1>16, <1>17, <1>18, RewrittenSound, Zenon
<1>20. Level(b, c)
  BY <1>2, <1>19 DEF Level
<1>21. QED
  BY <1>10, <1>19, <1>20, Zenon DEF c, Changed, Noted

\* The two lines insert_line leaves.
LEMMA InsertLineSound ==
  ASSUME NEW C, NEW b, Sound(b, C), "nul" \in C
  PROVE  LET c == insert_line(b, TRUE)
         IN /\ Sound(c, C) /\ Changed(b, c) /\ At(c, b.cur + 1, 1) /\ c.text_changes = TRUE
            /\ Len(c.lines[b.cur].s) = b.position
            /\ Len(c.lines[b.cur + 1].s) = Length(b) + 1 - b.position
            /\ c.d_line = b.d_line
<1> DEFINE l == b.lines[b.cur]
           p == b.position
           rest == SubSeq(l.s, p, Len(l.s) - 1)
           new == Struct(Append(rest, "nul"), NodeMax(Len(rest)), l.no + 1)
           old == Struct(Append(SubSeq(l.s, 1, p - 1), "nul"), l.max - Len(rest), l.no)
           q == Put(b.lines, b.cur, old)
           z == Inserted(q, b.cur + 1, new)
           v == IF b.scr_vert < LastLine THEN b.scr_vert + 1 ELSE b.scr_vert
           c == insert_line(b, TRUE)
<1>1. /\ l \in Line(C) /\ b.cur \in 1..Len(b.lines) /\ p \in 1..Len(l.s) /\ DOMAIN b = Globals
      /\ b.lines \in Seq(Line(C)) /\ Length(b) = Len(l.s) /\ b.absolute_lin \in Int /\ b.cur \in Nat
      /\ b.scr_vert \in 0..LastLine /\ b.scr_vert < b.cur
  BY SMTT(30) DEF Sound, Shape, Place, Row
<1>2. /\ l.s \in Seq(C) /\ Len(l.s) \in Nat /\ l.max \in Int /\ Len(l.s) <= l.max /\ l.no \in Int
  BY <1>1, LineFields, Zenon
<1>3. [l EXCEPT !.s = Append(SubSeq(l.s, 1, p - 1), "nul"), !.max = l.max - Len(rest)] = old
  BY <1>1, LineChanged, Zenon
<1>4. /\ DOMAIN c = Globals /\ c.lines = z /\ At(c, b.cur + 1, 1) /\ c.absolute_lin = b.absolute_lin + 1
      /\ c.scr_vert = v /\ c.scr_horz = 0 /\ c.scr_pos = 0
      /\ c.overrun = b.overrun /\ c.d_char = b.d_char /\ c.d_word = b.d_word
      /\ c.d_line = b.d_line
  <2>1. 1 - 1 = 0
    OBVIOUS
  <2> DEFINE f == [l EXCEPT !.s = Append(SubSeq(@, 1, p - 1), "nul"), !.max = @ - Len(rest)]
             g == [s |-> Append(rest, "nul"), max |-> NodeMax(Len(rest)), no |-> l.no + 1]
             w == Inserted([b.lines EXCEPT ![b.cur] = f], b.cur + 1, g)
             c1 == [b EXCEPT !.lines = w,
                        !.cur = @ + 1, !.absolute_lin = @ + 1, !.position = 1,
                        !.point = 0, !.text_changes = TRUE]
             c2 == [c1 EXCEPT !.scr_vert = IF @ < LastLine THEN @ + 1 ELSE @,
                            !.scr_horz = 0, !.scr_pos = 0]
  <2>2. c = c2
    BY Zenon DEF insert_line, curr_line
  <2>3. w = z
    BY <1>3, Zenon DEF Struct, Put
  <2> HIDE DEF w, z, l, c, f, g
  <2>4. QED
    BY <1>1, <2>1, <2>2, <2>3, Zenon DEF At, Globals
<1>5. c.text_changes = TRUE
  BY <1>1, Zenon DEF insert_line, Globals
<1> HIDE DEF l, c
<1>6. rest \in Seq(C) /\ Len(rest) = Len(l.s) - p /\ Len(rest) \in Nat
  <2>1. /\ p \in Nat /\ Len(l.s) - 1 \in Nat /\ p >= 1 /\ p <= (Len(l.s) - 1) + 1
        /\ Len(l.s) - 1 <= Len(l.s) /\ (Len(l.s) - 1) - p + 1 = Len(l.s) - p
        /\ Len(l.s) - p \in Nat
    BY <1>1, <1>2, SMTT(30)
  <2>2. rest \in Seq(C) /\ Len(rest) = (Len(l.s) - 1) - p + 1
    BY <1>2, <2>1, StretchSeq, Zenon
  <2>3. QED
    BY <2>1, <2>2, Zenon
<1> HIDE DEF rest
<1>7. Append(rest, "nul") \in Seq(C) /\ Len(Append(rest, "nul")) = Len(l.s) - p + 1
  BY <1>6
<1>8. /\ Append(SubSeq(l.s, 1, p - 1), "nul") \in Seq(C)
      /\ Len(Append(SubSeq(l.s, 1, p - 1), "nul")) = p
  <2>1. p \in 1..(Len(l.s) + 1)
    BY <1>1, <1>2
  <2>2. QED
    BY <1>2, <2>1, EndedSeq
<1>9. new \in Line(C) /\ new.s = Append(rest, "nul")
  <2>1. /\ NodeMax(Len(rest)) \in Int /\ NodeMax(Len(rest)) >= Len(rest) + LineSlack
    BY <1>6, NodeRoom, Zenon
  <2>2. LineSlack \in Nat /\ 2 <= LineSlack
    BY LineAssumption
  <2>3. /\ Len(Append(rest, "nul")) >= 1 /\ Len(Append(rest, "nul")) <= NodeMax(Len(rest))
        /\ l.no + 1 \in Int
    BY <1>1, <1>2, <1>6, <1>7, <2>1, <2>2, SMTT(30)
  <2>4. new \in Line(C)
    BY <1>7, <2>1, <2>3, StructType, Zenon
  <2>5. QED
    BY <2>4 DEF Struct
<1>10. old \in Line(C) /\ old.s = Append(SubSeq(l.s, 1, p - 1), "nul")
  <2>1. l.max - Len(rest) \in Int /\ p >= 1 /\ p <= l.max - Len(rest)
    BY <1>1, <1>2, <1>6, SMTT(30)
  <2>2. old \in Line(C)
    BY <1>2, <1>8, <2>1, StructType, Zenon
  <2>3. old.s = Append(SubSeq(l.s, 1, p - 1), "nul")
    BY Zenon DEF Struct
  <2>4. QED
    BY <2>2, <2>3, Zenon
<1> HIDE DEF old, new
<1>11. q \in Seq(Line(C)) /\ Len(q) = Len(b.lines) /\ q[b.cur] = old
  <2>1. q \in Seq(Line(C)) /\ Differ(b.lines, q, b.cur, old)
    BY <1>1, <1>10, LineReplaced, Zenon
  <2>2. QED
    BY <2>1, Zenon DEF Differ
<1> HIDE DEF q
<1>12. /\ z \in Seq(Line(C)) /\ Len(z) = Len(b.lines) + 1 /\ z[b.cur + 1] = new
       /\ z[b.cur] = old
  <2>1. b.cur + 1 \in 1..(Len(q) + 1) /\ b.cur \in 1..((b.cur + 1) - 1)
    BY <1>1, <1>11
  <2>2. /\ z \in Seq(Line(C)) /\ Len(z) = Len(q) + 1 /\ z[b.cur + 1] = new
        /\ Begin(z, q, b.cur + 1)
    <3> DEFINE n == b.cur + 1
               T == Line(C)
    <3>1. n \in 1..(Len(q) + 1) /\ q \in Seq(T) /\ new \in T
      BY <1>9, <1>11, <2>1
    <3> HIDE DEF n, T
    <3>2. /\ Inserted(q, n, new) \in Seq(T) /\ Len(Inserted(q, n, new)) = Len(q) + 1
          /\ Inserted(q, n, new)[n] = new /\ Begin(Inserted(q, n, new), q, n)
      BY <3>1, InsertedSeq
    <3>3. QED
      BY <3>2, Zenon DEF n, T
  <2>3. QED
    BY <1>11, <2>1, <2>2, Zenon DEF Begin
<1> HIDE DEF z
<1>13. v \in 0..LastLine /\ v < b.cur + 1
  BY <1>1, BufferAssumption
<1> HIDE DEF v
<1>14. Untouched(b, c) /\ Rest(b, C)
  BY <1>4, <1>5, Zenon DEF Untouched, Sound, TextOK
<1>15. Rest(c, C)
  BY <1>14, UntouchedRest, Zenon
<1>16. TextOK(c, C)
  BY <1>4, <1>12, <1>15, Zenon DEF TextOK
<1>17. Landed(c, c, C, b.cur + 1, 1)
  <2>1. /\ b.cur + 1 \in 1..Len(z) /\ 1 \in 1..Len(z[b.cur + 1].s) /\ 0 \in Int
    <3>1. b.cur + 1 \in 1..Len(z)
      BY <1>1, <1>12
    <3>2. Len(z[b.cur + 1].s) = Len(l.s) - p + 1
      BY <1>7, <1>9, <1>12, Zenon
    <3>3. QED
      BY <1>1, <1>2, <3>1, <3>2
  <2>2. scanline(z[b.cur + 1].s, 1) = 0
    BY ColumnType, Zenon
  <2>3. QED
    BY <1>4, <1>13, <2>1, <2>2, Zenon DEF Landed
<1>18. c.absolute_lin \in Int /\ c.absolute_lin - c.cur = b.absolute_lin - b.cur
  <2>1. /\ b.absolute_lin \in Int /\ b.cur \in Nat /\ c.absolute_lin = b.absolute_lin + 1
        /\ c.cur = b.cur + 1
    BY <1>1, <1>4, Zenon DEF At
  <2>2. QED
    BY <2>1
<1>19. Sound(c, C)
  BY <1>16, <1>17, <1>18, EditArrives, Zenon
<1>20. Changed(b, c)
  BY <1>5, <1>18, Zenon DEF Changed, Level, Noted
<1>21. Len(l.s) - p + 1 = Len(l.s) + 1 - p
  BY <1>1, <1>2
<1>22. QED
  BY <1>1, <1>4, <1>5, <1>7, <1>8, <1>9, <1>10, <1>12, <1>19, <1>20, <1>21, Zenon DEF c

LEMMA InsertSound ==
  ASSUME NEW C, NEW b, Sound(b, C), NEW ch \in C, "nul" \in C
  PROVE  Sound(insert(b, ch), C) /\ Changed(b, insert(b, ch))
<1> DEFINE a == PutChar(b, ch)
           q == WrapAt(a.lines[a.cur].s, a.position, RightMargin)
           one == MoveTo(a, 1)
           d == MoveTo(a, q)
           f == insert_line(d, TRUE)
           k == 1 + a.position - q
<1>1. Sound(a, C) /\ Changed(b, a)
  BY PutCharSound, Zenon
<1>2. insert(b, ch) = IF RightMargin >= a.scr_pos THEN a
                      ELSE IF q = 1 THEN MoveTo(one, a.position) ELSE MoveTo(f, k)
  BY Zenon DEF insert, Wrap, curr_line
<1> HIDE DEF a
<1>3. /\ a.position \in Nat /\ a.position >= 1 /\ a.position <= Length(a) /\ Length(a) \in Nat
      /\ Length(a) = Len(a.lines[a.cur].s)
  BY <1>1, Zenon DEF Sound, Place, Shape
<1>4. q \in {1} \cup 2..(a.position - 1)
  BY <1>3, WrapPlace, Zenon
<1> HIDE DEF q
<1>5. CASE RightMargin >= a.scr_pos
  BY <1>1, <1>2, <1>5, Zenon
<1>6. CASE ~(RightMargin >= a.scr_pos) /\ q = 1
  <2>1. 1 \in 1..Length(a)
    BY <1>3
  <2>2. Moved(a, one) /\ Sound(one, C) /\ At(one, a.cur, 1)
    BY <1>1, <2>1, MoveToMoves, Zenon
  <2> HIDE DEF one
  <2>3. Length(one) = Length(a)
    BY <2>2, Zenon DEF Moved, Same, At, Length, curr_line
  <2>4. a.position \in 1..Length(one)
    BY <1>3, <2>3
  <2>5. Moved(one, MoveTo(one, a.position)) /\ Sound(MoveTo(one, a.position), C)
    BY <2>2, <2>4, MoveToMoves, Zenon
  <2>6. Changed(a, one) /\ Changed(one, MoveTo(one, a.position))
    BY <2>2, <2>5, MovedChanged, Zenon
  <2>7. Changed(b, one)
    BY <1>1, <2>6, ChangedTwice, Zenon
  <2>8. Changed(b, MoveTo(one, a.position))
    BY <2>6, <2>7, ChangedTwice, Zenon
  <2>9. insert(b, ch) = MoveTo(one, a.position)
    BY <1>2, <1>6, Zenon
  <2>10. QED
    BY <2>5, <2>8, <2>9, Zenon
<1>7. CASE ~(RightMargin >= a.scr_pos) /\ q # 1
  <2>1. q \in 1..Length(a) /\ q \in Nat /\ q < a.position
    BY <1>3, <1>4, <1>7
  <2>2. Moved(a, d) /\ Sound(d, C) /\ At(d, a.cur, q)
    BY <1>1, <2>1, MoveToMoves, Zenon
  <2> HIDE DEF d
  <2>3. Length(d) = Length(a) /\ d.position = q /\ d.cur = a.cur
    BY <2>2, Zenon DEF Moved, Same, At, Length, curr_line
  <2>4. /\ Sound(f, C) /\ Changed(d, f) /\ At(f, d.cur + 1, 1)
        /\ Len(f.lines[d.cur + 1].s) = Length(d) + 1 - d.position
    BY <2>2, InsertLineSound, Zenon
  <2> HIDE DEF f
  <2>5. Length(f) = Length(a) + 1 - q
    BY <2>3, <2>4, Zenon DEF At, Length, line_length, curr_line
  <2>6. k \in 1..Length(f)
    <3>1. k \in Nat /\ k >= 1 /\ k <= Length(a) + 1 - q /\ Length(a) + 1 - q \in Int
      <4> DEFINE w == Length(a)
                 p == a.position
      <4>1. w \in Nat /\ p \in Nat /\ p <= w /\ q \in Nat /\ q < p
        BY <1>3, <2>1, Zenon
      <4> HIDE DEF w, p
      <4>2. 1 + p - q \in Nat /\ 1 + p - q >= 1 /\ 1 + p - q <= w + 1 - q /\ w + 1 - q \in Int
        BY <4>1
      <4>3. QED
        BY <4>2, Zenon DEF w, p
    <3> HIDE DEF k
    <3>2. k \in 1..(Length(a) + 1 - q)
      BY <3>1
    <3>3. QED
      BY <2>5, <3>2, Zenon
  <2> HIDE DEF k
  <2>7. Moved(f, MoveTo(f, k)) /\ Sound(MoveTo(f, k), C)
    BY <2>4, <2>6, MoveToMoves, Zenon
  <2>8. Changed(a, d) /\ Changed(f, MoveTo(f, k))
    BY <2>2, <2>7, MovedChanged, Zenon
  <2>9. Changed(b, d)
    BY <1>1, <2>8, ChangedTwice, Zenon
  <2>10. Changed(b, f)
    BY <2>4, <2>9, ChangedTwice, Zenon
  <2>11. Changed(b, MoveTo(f, k))
    BY <2>8, <2>10, ChangedTwice, Zenon
  <2>12. insert(b, ch) = MoveTo(f, k)
    BY <1>2, <1>7, Zenon
  <2>13. QED
    BY <2>7, <2>11, <2>12, Zenon
<1>8. QED
  BY <1>5, <1>6, <1>7, Zenon

\* delete within a line.
LEMMA DeleteCharSound ==
  ASSUME NEW C, NEW b, Sound(b, C), b.point # 0, NEW disp, NEW save \in BOOLEAN
  PROVE  Sound(delete(b, disp, save), C) /\ Changed(b, delete(b, disp, save))
<1> DEFINE l == b.lines[b.cur]
           p == b.position
           k == p - 1
           ch == l.s[k]
           x == Removed(l.s, k)
           m == Struct(x, l.max, l.no)
           h == DeleteColumn(b, ch)
           c == delete(b, disp, save)
           d == [SetLine(b, [l EXCEPT !.s = Removed(@, k)])
                   EXCEPT !.text_changes = TRUE, !.point = @ - 1, !.position = @ - 1,
                          !.scr_horz = h, !.scr_pos = h, !.d_char = IF save THEN <<ch>> ELSE @]
<1>1. /\ l \in Line(C) /\ p \in 1..Len(l.s) /\ b.scr_horz \in Int /\ p \in Nat
      /\ DOMAIN b = Globals /\ b.point = k /\ k \in Nat \ {0} /\ k \in 1..Len(l.s)
  <2>1. /\ DOMAIN b = Globals /\ b.lines \in Seq(Line(C)) /\ b.scr_horz \in Int /\ b.point = k
        /\ b.cur \in Nat /\ b.cur >= 1 /\ b.cur <= Len(b.lines)
        /\ p \in Nat /\ p >= 1 /\ p <= Len(l.s) /\ Len(l.s) \in Nat
    BY Zenon DEF Sound, Shape, Place
  <2>2. l \in Line(C)
    BY <2>1
  <2>3. k # 0
    BY <2>1, Zenon
  <2> HIDE DEF p, l
  <2>4. p \in 1..Len(l.s) /\ k \in Nat \ {0} /\ k \in 1..Len(l.s)
    BY <2>1, <2>3
  <2>5. QED
    BY <2>1, <2>2, <2>4, Zenon
<1>2. ("del" \notin C => b.scr_horz = scanline(l.s, p)) /\ Rest(b, C)
  BY Zenon DEF Sound, Column, TextOK
<1>3. c = d
  BY <1>1, Zenon DEF delete, curr_line
<1>4. h = IF ch \in {"tab", "ctl", "del", "nul"} THEN scanline(l.s, k) ELSE b.scr_horz - 1
  BY <1>1, Zenon DEF DeleteColumn, curr_line
<1> HIDE DEF c, l
<1>5. l.s \in Seq(C) /\ Len(l.s) \in Nat /\ l.max \in Int /\ l.no \in Int /\ Len(l.s) <= l.max
  BY <1>1, LineFields, Zenon
<1>6. [l EXCEPT !.s = x] = m
  BY <1>1, LineChanged, Zenon
<1>7. ch \in C
  BY <1>1, <1>5
<1>8. scanline(l.s, k) \in Nat
  BY <1>1, ColumnType, Zenon
<1>9. h \in Int
  BY <1>1, <1>4, <1>8
<1>10. "del" \notin C => h = scanline(l.s, k)
  <2>1. CASE ch \in {"tab", "ctl", "del", "nul"}
    BY <1>4, <2>1, Zenon
  <2>2. CASE ch \notin {"tab", "ctl", "del", "nul"}
    <3>1. scanline(l.s, k + 1) = scanline(l.s, k) + len_char(ch, scanline(l.s, k))
      BY <1>1, ColumnStep, Zenon
    <3>2. len_char(ch, scanline(l.s, k)) = 1
      BY <1>8, <2>2, CharWidth, Zenon
    <3>3. k + 1 = p
      BY <1>1
    <3>4. scanline(l.s, p) = scanline(l.s, k) + 1
      BY <3>1, <3>2, <3>3, Zenon
    <3> HIDE DEF h, p, k
    <3>5. scanline(l.s, p) - 1 = scanline(l.s, k)
      BY <1>8, <3>4
    <3>6. QED
      BY <1>2, <1>4, <2>2, <3>5, Zenon
  <2>3. QED
    BY <2>1, <2>2
<1>11. /\ x \in Seq(C) /\ Len(x) = Len(l.s) - 1 /\ Begin(x, l.s, k)
  BY <1>1, <1>5, RemovedSeq, Zenon
<1>12. scanline(x, k) = scanline(l.s, k)
  BY <1>1, <1>11, ColumnPrefix, Zenon
<1>13. m \in Line(C) /\ m.s = x /\ k \in 1..Len(x)
  <2>1. Len(x) >= 1 /\ Len(x) <= l.max /\ k \in 1..Len(x)
    BY <1>1, <1>5, <1>11
  <2>2. m \in Line(C)
    BY <1>5, <1>11, <2>1, StructType, Zenon
  <2>3. m.s = x
    BY Zenon DEF Struct
  <2>4. QED
    BY <2>1, <2>2, <2>3, Zenon
<1> HIDE DEF ch, h, m
<1>14. /\ DOMAIN c = Globals /\ c.lines = Put(b.lines, b.cur, m) /\ At(c, b.cur, k)
       /\ c.scr_vert = b.scr_vert /\ c.absolute_lin = b.absolute_lin
       /\ c.scr_horz = h /\ c.scr_pos = h /\ c.overrun = b.overrun /\ c.d_word = b.d_word
       /\ c.d_line = b.d_line
  BY <1>1, <1>3, <1>6 DEF SetLine, Put, At, Globals, l
<1>15. c.text_changes = TRUE /\ (c.d_char = b.d_char \/ c.d_char = <<ch>>)
  BY <1>1, <1>3, Zenon DEF SetLine, Globals
<1>16. Rest(c, C)
  <2>1. <<ch>> \in Seq(C) /\ Len(<<ch>>) \in 1..2
    BY <1>7
  <2>2. QED
    BY <1>2, <1>14, <1>15, <2>1, Zenon DEF Rest
<1>17. Rewritten(b, c, m, k)
  BY <1>1, <1>9, <1>14, Zenon DEF Rewritten
<1>18. ("del" \notin C => c.scr_horz = scanline(m.s, k)) /\ k \in 1..Len(m.s)
  BY <1>10, <1>12, <1>13, <1>14, Zenon
<1>19. Sound(c, C) /\ Level(b, c)
  BY <1>13, <1>16, <1>17, <1>18, RewrittenSound, Zenon
<1>20. QED
  BY <1>15, <1>19, Zenon DEF c, Changed, Noted

\* What delete makes of line and the next one, once line has been resized.
Joined(c, next, save) ==
  [c EXCEPT !.lines = Removed([@ EXCEPT ![c.cur] = [curr_line(c) EXCEPT !.s = Content(curr_line(c)) \o next.s]],
                              c.cur + 1),
            !.text_changes = TRUE, !.scr_pos = c.scr_horz,
            !.d_char = IF save THEN <<"nl">> ELSE @]

LEMMA JoinedRoom ==
  ASSUME NEW p \in Nat, NEW k \in Nat, NEW m \in Int, NEW n, p >= 1, k >= 1, p <= m, n = p - 1 + k
  PROVE  n >= 1 /\ n <= m + k /\ p \in 1..n /\ p \in Nat \ {0} /\ m + k \in Int
OBVIOUS

LEMMA JoinedSound ==
  ASSUME NEW C, NEW b, NEW a, NEW save \in BOOLEAN, Sound(b, C), b.position = Length(b),
         b.cur + 1 \in 1..Len(b.lines), "nl" \in C,
         Resized(b, a, Len(b.lines[b.cur + 1].s))
  PROVE  LET c == Joined(a, a.lines[b.cur + 1], save)
         IN Sound(c, C) /\ Changed(b, c)
<1> DEFINE next == b.lines[b.cur + 1]
           l == b.lines[b.cur]
           p == b.position
           m == Struct(l.s, l.max + Len(next.s), l.no)
           x == SubSeq(l.s, 1, p - 1) \o next.s
           n == Struct(x, l.max + Len(next.s), l.no)
           q == Put(a.lines, b.cur, n)
           z == Removed(q, b.cur + 1)
           c == Joined(a, a.lines[b.cur + 1], save)
<1>1. /\ l \in Line(C) /\ next \in Line(C) /\ b.cur \in 1..Len(b.lines) /\ b.cur \in Nat
      /\ p = Len(l.s) /\ DOMAIN b = Globals /\ b.lines \in Seq(Line(C)) /\ b.absolute_lin \in Int
      /\ b.scr_horz \in Int /\ b.cur + 1 # b.cur
  BY SMTT(30) DEF Sound, Shape, Place
<1>2. ("del" \notin C => b.scr_horz = scanline(l.s, p)) /\ Rest(b, C)
  BY Zenon DEF Sound, Column, TextOK
<1> HIDE DEF l, next, c
<1>3. /\ l.s \in Seq(C) /\ Len(l.s) \in Nat /\ Len(l.s) >= 1 /\ l.max \in Int
      /\ Len(l.s) <= l.max /\ l.no \in Int
  BY <1>1, LineFields, Zenon
<1>4. next.s \in Seq(C) /\ Len(next.s) \in Nat /\ Len(next.s) >= 1
  BY <1>1, LineFields, Zenon
<1>5. /\ Sound(a, C) /\ Level(b, a) /\ m \in Line(C) /\ At(a, b.cur, p)
      /\ Differ(b.lines, a.lines, b.cur, m)
  <2> DEFINE k == Len(next.s)
  <2>1. Resized(b, a, k) /\ k \in Nat
    BY <1>4, Zenon DEF next
  <2>2. m = Struct(b.lines[b.cur].s, b.lines[b.cur].max + k, b.lines[b.cur].no)
    BY Zenon DEF l
  <2> HIDE DEF k, m
  <2>3. QED
    BY <2>1, <2>2, ResizedSound, Zenon
<1>6. /\ Len(a.lines) = Len(b.lines) /\ a.lines[b.cur] = m /\ a.lines[b.cur + 1] = next
      /\ a.cur = b.cur /\ DOMAIN a = Globals /\ a.lines \in Seq(Line(C)) /\ a.position = p
      /\ a.point = p - 1
  BY <1>1, <1>5, Zenon DEF Differ, At, Sound, Shape, next
<1>7. m.s = l.s /\ m.max = l.max + Len(next.s) /\ m.no = l.no
  BY Zenon DEF Struct
<1>8. Content(m) = SubSeq(l.s, 1, p - 1)
  BY <1>1, <1>7, Zenon DEF Content
<1>9. [m EXCEPT !.s = x] = n
  <2>1. [m EXCEPT !.s = x] = Struct(x, m.max, m.no)
    BY <1>5, LineChanged, Zenon
  <2>2. QED
    BY <1>7, <2>1, Zenon
<1>10. x \in Seq(C) /\ Len(x) = p - 1 + Len(next.s) /\ Begin(x, l.s, p)
  <2>1. p \in 1..(Len(l.s) + 1)
    BY <1>1, <1>3
  <2>2. QED
    BY <1>3, <1>4, <2>1, ReplacedSeq, Zenon
<1>11. n \in Line(C) /\ n.s = x /\ p \in 1..Len(x) /\ p \in Nat \ {0}
  <2>1. /\ Len(x) >= 1 /\ Len(x) <= l.max + Len(next.s) /\ p \in 1..Len(x) /\ p \in Nat \ {0}
        /\ l.max + Len(next.s) \in Int
    <3> HIDE DEF x
    <3>1. p = Len(l.s) /\ Len(x) = p - 1 + Len(next.s)
      BY <1>1, <1>10
    <3> HIDE DEF p
    <3>2. QED
      BY <1>3, <1>4, <3>1, JoinedRoom, Zenon
  <2>2. n \in Line(C)
    BY <1>3, <1>10, <2>1, StructType, Zenon
  <2>3. n.s = x
    BY Zenon DEF Struct
  <2>4. QED
    BY <2>1, <2>2, <2>3, Zenon
<1>12. /\ DOMAIN c = Globals /\ c.lines = z /\ At(c, b.cur, p)
       /\ c.scr_vert = a.scr_vert /\ c.absolute_lin = a.absolute_lin
       /\ c.scr_horz = a.scr_horz /\ c.scr_pos = a.scr_horz /\ c.overrun = a.overrun
       /\ c.d_word = a.d_word /\ c.d_line = a.d_line
  <2> DEFINE w == Removed([a.lines EXCEPT ![a.cur] =
                             [curr_line(a) EXCEPT !.s = Content(curr_line(a)) \o a.lines[b.cur + 1].s]],
                          a.cur + 1)
  <2>1. w = z
    <3> HIDE DEF m
    <3>1. curr_line(a) = m
      BY <1>6, Zenon DEF curr_line
    <3>2. Content(curr_line(a)) \o a.lines[b.cur + 1].s = x
      BY <1>6, <1>8, <3>1, Zenon
    <3> HIDE DEF x
    <3>3. [curr_line(a) EXCEPT !.s = Content(curr_line(a)) \o a.lines[b.cur + 1].s] = n
      BY <1>9, <3>1, <3>2, Zenon
    <3> HIDE DEF n
    <3>4. QED
      BY <1>6, <3>3, Zenon DEF Put
  <2>2. c = [a EXCEPT !.lines = w, !.text_changes = TRUE, !.scr_pos = a.scr_horz,
                      !.d_char = IF save THEN <<"nl">> ELSE @]
    BY Zenon DEF c, Joined
  <2> HIDE DEF w, z
  <2>3. QED
    BY <1>6, <2>1, <2>2, Zenon DEF At, Globals
<1>13. c.text_changes = TRUE /\ (c.d_char = a.d_char \/ c.d_char = <<"nl">>)
  BY <1>6, Zenon DEF Joined, Globals, c
<1> HIDE DEF n, x, m, p
<1>14. q \in Seq(Line(C)) /\ Len(q) = Len(a.lines) /\ q[b.cur] = n
  <2>1. b.cur \in 1..Len(a.lines)
    BY <1>1, <1>6, Zenon
  <2>2. q \in Seq(Line(C)) /\ Differ(a.lines, q, b.cur, n)
    BY <1>6, <1>11, <2>1, LineReplaced, Zenon
  <2>3. QED
    BY <2>2, Zenon DEF Differ
<1> HIDE DEF q
<1>15. z \in Seq(Line(C)) /\ Len(z) = Len(b.lines) - 1 /\ z[b.cur] = n
  <2> DEFINE k == b.cur + 1
             T == Line(C)
  <2>1. k \in 1..Len(q) /\ q \in Seq(T) /\ b.cur \in 1..(k - 1)
    BY <1>1, <1>6, <1>14
  <2> HIDE DEF k, T
  <2>2. Removed(q, k) \in Seq(T) /\ Len(Removed(q, k)) = Len(q) - 1 /\ Begin(Removed(q, k), q, k)
    BY <2>1, RemovedSeq
  <2>3. Removed(q, k)[b.cur] = q[b.cur]
    BY <2>1, <2>2, Zenon DEF Begin
  <2>4. QED
    BY <1>6, <1>14, <2>2, <2>3, Zenon DEF k, T
<1> HIDE DEF z
<1>16. Rest(c, C)
  <2>1. <<"nl">> \in Seq(C) /\ Len(<<"nl">>) \in 1..2
    OBVIOUS
  <2>2. Rest(a, C)
    BY <1>5, Zenon DEF Sound, TextOK
  <2>3. QED
    BY <1>12, <1>13, <2>1, <2>2, Zenon DEF Rest
<1>17. TextOK(c, C)
  BY <1>12, <1>15, <1>16, Zenon DEF TextOK
<1>18. Landed(c, c, C, b.cur, p)
  <2>1. b.cur \in 1..Len(z)
    BY <1>1, <1>15
  <2>2. scanline(x, p) = scanline(l.s, p)
    BY <1>10, <1>11, ColumnPrefix, Zenon
  <2>3. /\ a.scr_vert \in 0..LastLine /\ a.scr_vert < b.cur /\ a.scr_horz = b.scr_horz
    BY <1>5, <1>6, Zenon DEF Sound, Row, Resized
  <2>4. QED
    BY <1>1, <1>2, <1>11, <1>12, <1>15, <2>1, <2>2, <2>3, Zenon DEF Landed
<1>19. c.absolute_lin = b.absolute_lin /\ c.cur = b.cur /\ c.absolute_lin \in Int
  BY <1>1, <1>12, Zenon DEF At, Resized
<1>20. Sound(c, C)
  BY <1>17, <1>18, <1>19, EditArrives, Zenon
<1>21. QED
  BY <1>13, <1>19, <1>20, Zenon DEF c, Changed, Level, Noted

LEMMA DeleteSound ==
  ASSUME NEW C, NEW b, Sound(b, C), "nl" \in C, NEW save \in BOOLEAN
  PROVE  Sound(delete(b, TRUE, save), C) /\ Changed(b, delete(b, TRUE, save))
<1>1. CASE b.point # 0
  BY <1>1, DeleteCharSound, Zenon
<1>2. CASE b.point = 0 /\ b.cur = 1
  <2>1. delete(b, TRUE, save) = b
    BY <1>2, Zenon DEF delete
  <2>2. QED
    BY <2>1, MovedNot, MovedChanged, Zenon
<1>3. CASE b.point = 0 /\ b.cur # 1
  <2> DEFINE a == left(b, TRUE)
             next == a.lines[a.cur + 1]
             c == resiz_line(a, Len(next.s))
  <2>1. delete(b, TRUE, save) = Joined(c, next, save)
    BY <1>3, Zenon DEF delete, Joined
  <2>2. Moved(b, a) /\ Sound(a, C) /\ At(a, b.cur - 1, Len(b.lines[b.cur - 1].s))
    BY <1>3, LeftMoves, Zenon
  <2> HIDE DEF a
  <2>3. /\ a.lines = b.lines /\ a.position = Length(a) /\ a.cur = b.cur - 1
    BY <2>2, Zenon DEF Moved, Same, At, Length, line_length, curr_line
  <2>4. /\ a.cur + 1 \in 1..Len(a.lines) /\ DOMAIN a = Globals /\ a.lines \in Seq(Line(C))
        /\ a.cur \in 1..Len(a.lines) /\ a.cur + 1 # a.cur
    <3>1. b.cur \in Nat /\ b.cur >= 1 /\ b.cur <= Len(b.lines) /\ Len(b.lines) \in Nat
      BY Zenon DEF Sound, Shape, Place
    <3>2. a.cur + 1 \in 1..Len(a.lines) /\ a.cur \in 1..Len(a.lines) /\ a.cur + 1 # a.cur
      BY <1>3, <2>3, <3>1
    <3>3. QED
      BY <2>2, <3>2, Zenon DEF Sound, Shape
  <2>5. Resized(a, c, Len(next.s))
    BY <2>4, ResizLineFields, Zenon
  <2>6. Len(next.s) \in Nat
    BY <2>4, LineType
  <2>7. c.lines[a.cur + 1] = next
    <3> DEFINE k == Len(next.s)
               m == Struct(a.lines[a.cur].s, a.lines[a.cur].max + k, a.lines[a.cur].no)
    <3>1. Differ(a.lines, c.lines, a.cur, m)
      <4> HIDE DEF c, k
      <4>1. Resized(a, c, k) /\ k \in Nat /\ Sound(a, C)
        BY <2>2, <2>5, <2>6, Zenon DEF k
      <4>2. QED
        BY <4>1, ResizedSound, Zenon
    <3>2. QED
      BY <2>4, <3>1, Zenon DEF Differ
  <2> HIDE DEF c
  <2>8. /\ Sound(Joined(c, c.lines[a.cur + 1], save), C)
        /\ Changed(a, Joined(c, c.lines[a.cur + 1], save))
    BY <2>2, <2>3, <2>4, <2>5, JoinedSound, Zenon
  <2>9. Changed(b, a)
    BY <2>2, MovedChanged, Zenon
  <2>10. Changed(b, Joined(c, c.lines[a.cur + 1], save))
    BY <2>8, <2>9, ChangedTwice, Zenon
  <2>11. QED
    BY <2>1, <2>7, <2>8, <2>10, Zenon
<1>4. QED
  BY <1>1, <1>2, <1>3, Zenon

LEMMA DelCharSound ==
  ASSUME NEW C, NEW b, Sound(b, C), "nl" \in C
  PROVE  Sound(del_char(b), C) /\ Changed(b, del_char(b))
<1>1. CASE b.position < Length(b)
  <2> DEFINE p == b.position + 1
             h == scanline(b.lines[b.cur].s, p)
             c == [b EXCEPT !.position = @ + 1, !.point = @ + 1, !.scr_horz = h]
  <2>1. del_char(b) = delete(c, TRUE, TRUE)
    BY <1>1, Zenon DEF del_char, curr_line
  <2>2. /\ b.cur \in 1..Len(b.lines) /\ p \in 1..Len(b.lines[b.cur].s) /\ p \in Nat \ {0}
        /\ b.point + 1 = p - 1
    <3>1. /\ b.cur \in Nat /\ b.cur >= 1 /\ b.cur <= Len(b.lines) /\ Len(b.lines) \in Nat
      BY Zenon DEF Sound, Place, Shape
    <3>2. /\ b.position \in Nat /\ b.position >= 1 /\ b.point = b.position - 1
          /\ Length(b) = Len(b.lines[b.cur].s) /\ Length(b) \in Nat
      BY Zenon DEF Sound, Place, Shape
    <3>3. p \in 1..Length(b) /\ p \in Nat \ {0} /\ b.point + 1 = p - 1
      BY <1>1, <3>2, SMTT(30)
    <3>4. b.cur \in 1..Len(b.lines)
      BY <3>1
    <3>5. QED
      BY <3>2, <3>3, <3>4, Zenon
  <2>3. h \in Nat
    BY <2>2, ColumnType, Zenon
  <2>4. h \in Int
    BY <2>3
  <2>5. /\ Same(b, c) /\ At(c, b.cur, p) /\ c.scr_horz = h /\ c.scr_pos = b.scr_pos
        /\ c.scr_vert = b.scr_vert /\ c.absolute_lin = b.absolute_lin
    <3> HIDE DEF h
    <3>1. QED
      BY <2>2, Zenon DEF Sound, Shape, Same, At, Globals
  <2> HIDE DEF c
  <2>6. Landed(b, c, C, b.cur, p)
    BY <2>2, <2>4, <2>5, Zenon DEF Landed, Sound, Place, Row
  <2>7. b.absolute_lin \in Int /\ b.cur \in Int /\ b.absolute_lin = b.absolute_lin + (b.cur - b.cur)
    BY SMTT(30) DEF Sound, Place
  <2>8. Placed(b, c, C, b.cur, p)
    BY <2>5, <2>6, <2>7, Zenon DEF Placed
  <2>9. Moved(b, c) /\ Sound(c, C)
    BY <2>5, <2>8, Arrives, Zenon DEF Sound
  <2>10. Changed(b, c)
    BY <2>9, MovedChanged, Zenon
  <2>11. Sound(delete(c, TRUE, TRUE), C) /\ Changed(c, delete(c, TRUE, TRUE))
    BY <2>9, DeleteSound, Zenon
  <2>12. QED
    BY <2>1, <2>10, <2>11, ChangedTwice, Zenon
<1>2. CASE ~(b.position < Length(b))
  <2> DEFINE c == right(b, TRUE)
  <2>1. del_char(b) = delete(c, TRUE, TRUE)
    BY <1>2, Zenon DEF del_char
  <2>2. Moved(b, c) /\ Sound(c, C)
    BY RightMoves, Zenon
  <2> HIDE DEF c
  <2>3. Changed(b, c)
    BY <2>2, MovedChanged, Zenon
  <2>4. Sound(delete(c, TRUE, TRUE), C) /\ Changed(c, delete(c, TRUE, TRUE))
    BY <2>2, DeleteSound, Zenon
  <2>5. QED
    BY <2>1, <2>3, <2>4, ChangedTwice, Zenon
<1>3. QED
  BY <1>1, <1>2, Zenon

\* The line with other bytes from the cursor on.
LEMMA TailRewritten ==
  ASSUME NEW C, NEW b, NEW c, NEW x \in Seq(C), NEW m \in Int, Sound(b, C), Rest(c, C),
         DOMAIN c = Globals, c.lines = Put(b.lines, b.cur, Struct(x, m, b.lines[b.cur].no)),
         At(c, b.cur, b.position), c.scr_vert = b.scr_vert, c.absolute_lin = b.absolute_lin,
         c.scr_horz = b.scr_horz, c.scr_pos = b.scr_pos,
         Len(x) >= b.position, Len(x) <= m, Begin(x, b.lines[b.cur].s, b.position)
  PROVE  /\ Sound(c, C) /\ Level(b, c)
         /\ Differ(b.lines, c.lines, b.cur, Struct(x, m, b.lines[b.cur].no))
<1> DEFINE l == b.lines[b.cur]
           p == b.position
           n == Struct(x, m, l.no)
<1>1. l \in Line(C) /\ p \in Nat \ {0} /\ b.scr_horz \in Int /\ b.scr_pos \in Int
  BY SoundFacts, Zenon
<1>2. "del" \notin C => b.scr_horz = scanline(l.s, p)
  BY Zenon DEF Sound, Column
<1>3. scanline(x, p) = scanline(l.s, p)
  BY <1>1, ColumnPrefix, Zenon
<1>4. l.no \in Int
  BY <1>1, LineFields, Zenon
<1>5. Len(x) >= 1 /\ p \in 1..Len(x)
  BY <1>1
<1>6. n \in Line(C)
  BY <1>4, <1>5, StructType, Zenon
<1>7. n.s = x
  BY Zenon DEF Struct
<1>8. Rewritten(b, c, n, p)
  BY <1>1, Zenon DEF Rewritten
<1> HIDE DEF n
<1>9. ("del" \notin C => c.scr_horz = scanline(n.s, p)) /\ p \in 1..Len(n.s)
  BY <1>2, <1>3, <1>5, <1>7, Zenon
<1>10. Sound(c, C) /\ Level(b, c) /\ Differ(b.lines, c.lines, b.cur, n)
  BY <1>6, <1>8, <1>9, RewrittenSound, Zenon
<1>11. QED
  BY <1>10, Zenon DEF n

LEMMA DelWordSound ==
  ASSUME NEW C, NEW b, Sound(b, C)
  PROVE  Sound(del_word(b), C) /\ Changed(b, del_word(b))
<1> DEFINE l == b.lines[b.cur]
           p == b.position
           q == NextWord(l.s, p)
           t == SubSeq(l.s, q, Len(l.s))
           w == SubSeq(l.s, p, q - 1)
           x == SubSeq(l.s, 1, p - 1) \o t
           c == del_word(b)
<1>1. /\ l \in Line(C) /\ p \in 1..Len(l.s) /\ DOMAIN b = Globals /\ p \in Nat /\ p >= 1
      /\ b.point = p - 1
  BY SoundFacts, Zenon
<1>2. c = [SetLine(b, [l EXCEPT !.s = x]) EXCEPT !.d_word = w, !.text_changes = TRUE]
  BY Zenon DEF del_word, curr_line
<1>3. /\ l.s \in Seq(C) /\ Len(l.s) \in Nat /\ l.max \in Int /\ Len(l.s) <= l.max
  BY <1>1, LineFields, Zenon
<1>4. q \in p..Len(l.s)
  BY <1>1, <1>3, NextWordPlace, Zenon
<1> HIDE DEF q, c, l, p
<1>5. [l EXCEPT !.s = x] = Struct(x, l.max, l.no)
  BY <1>1, LineChanged, Zenon
<1>6. /\ q \in Nat /\ q - 1 \in Nat /\ q >= 1 /\ q <= Len(l.s) + 1 /\ Len(l.s) <= Len(l.s)
      /\ p <= (q - 1) + 1 /\ q - 1 <= Len(l.s) /\ p \in 1..(Len(l.s) + 1)
  BY <1>1, <1>3, <1>4
<1>7. t \in Seq(C) /\ Len(t) = Len(l.s) - q + 1
  BY <1>3, <1>6, StretchSeq, Zenon
<1>8. w \in Seq(C)
  BY <1>1, <1>3, <1>6, StretchSeq, Zenon
<1> HIDE DEF t, w
<1>9. x \in Seq(C) /\ Len(x) = p - 1 + Len(t) /\ Begin(x, l.s, p)
  BY <1>3, <1>6, <1>7, ReplacedSeq, Zenon
<1> HIDE DEF x
<1>10. Len(x) >= p /\ Len(x) <= l.max
  BY <1>1, <1>3, <1>4, <1>6, <1>7, <1>9
<1>11. /\ DOMAIN c = Globals /\ c.lines = Put(b.lines, b.cur, Struct(x, l.max, l.no))
       /\ At(c, b.cur, p) /\ c.scr_vert = b.scr_vert /\ c.absolute_lin = b.absolute_lin
       /\ c.scr_horz = b.scr_horz /\ c.scr_pos = b.scr_pos /\ c.d_word = w
       /\ c.overrun = b.overrun /\ c.d_char = b.d_char /\ c.d_line = b.d_line
  BY <1>1, <1>2, <1>5, Zenon DEF SetLine, Put, At, Globals, p
<1>12. c.text_changes = TRUE
  BY <1>1, <1>2, Zenon DEF SetLine, Globals
<1>13. Rest(c, C)
  BY <1>8, <1>11, <1>12, Zenon DEF Rest, Sound, TextOK
<1>14. Sound(c, C) /\ Level(b, c)
  <2> DEFINE m == l.max
  <2>1. /\ c.lines = Put(b.lines, b.cur, Struct(x, m, l.no)) /\ m \in Int /\ Len(x) <= m
    BY <1>3, <1>10, <1>11, Zenon
  <2> HIDE DEF m
  <2>2. QED
    BY <1>9, <1>10, <1>11, <1>13, <2>1, TailRewritten, Zenon DEF l, p
<1>15. QED
  BY <1>12, <1>14, Zenon DEF c, Changed, Noted

\* Lines with the same bytes are the same text.
LEMMA SameText ==
  ASSUME NEW S, NEW q \in Seq(S), NEW z \in Seq(S), Len(z) = Len(q),
         \A j \in 1..Len(q) : z[j].s = q[j].s
  PROVE  TextOf(z) = TextOf(q)
<1>1. DOMAIN q = 1..Len(q) /\ DOMAIN z = 1..Len(q)
  OBVIOUS
<1>2. \A j \in 1..Len(q) : Content(z[j]) = Content(q[j])
  BY Zenon DEF Content
<1>3. QED
  BY <1>1, <1>2, Zenon DEF TextOf

LEMMA SeqAgree ==
  ASSUME NEW S, NEW s \in Seq(S), NEW z \in Seq(S), Len(z) = Len(s),
         \A i \in 1..Len(s) : z[i] = s[i]
  PROVE  z = s
OBVIOUS

\* Nothing put back is nothing changed.
LEMMA NothingBetween ==
  ASSUME NEW S, NEW s \in Seq(S), NEW p \in 1..(Len(s) + 1), NEW d, d = <<>>
  PROVE  SubSeq(s, 1, p - 1) \o d \o SubSeq(s, p, Len(s)) = s
<1> DEFINE a == SubSeq(s, 1, p - 1)
           y == SubSeq(s, p, Len(s))
<1>1. a \in Seq(S) /\ Len(a) = p - 1 /\ \A i \in 1..(p - 1) : a[i] = s[i]
  OBVIOUS
<1>2. y \in Seq(S) /\ Len(y) = Len(s) - p + 1 /\ \A i \in 1..Len(y) : y[i] = s[p + i - 1]
  OBVIOUS
<1> HIDE DEF a, y
<1>3. a \o d = a
  BY <1>1
<1>4. a \o y \in Seq(S) /\ Len(a \o y) = Len(s)
  BY <1>1, <1>2
<1>5. ASSUME NEW i \in 1..Len(s)
      PROVE  (a \o y)[i] = s[i]
  <2>1. CASE i <= p - 1
    BY <1>1, <1>2, <2>1
  <2>2. CASE i > p - 1
    <3>1. (a \o y)[i] = y[i - (p - 1)] /\ i - (p - 1) \in 1..Len(y)
      BY <1>1, <1>2, <2>2
    <3>2. y[i - (p - 1)] = s[p + (i - (p - 1)) - 1] /\ p + (i - (p - 1)) - 1 = i
      BY <1>2, <3>1
    <3>3. QED
      BY <3>1, <3>2, Zenon
  <2>3. i <= p - 1 \/ i > p - 1
    OBVIOUS
  <2>4. QED
    BY <2>1, <2>2, <2>3, Zenon
<1>6. a \o y = s
  BY <1>4, <1>5, SeqAgree, Zenon
<1>7. QED
  BY <1>3, <1>6, Zenon DEF a, y

LEMMA WordLonger ==
  ASSUME NEW n \in Nat, NEW p \in Nat, NEW d \in Nat, NEW m \in Int, NEW z \in Nat,
         p >= 1, p <= n, n + d <= m, z = (p - 1 + d) + (n - p + 1)
  PROVE  z >= p /\ z <= m
OBVIOUS

\* Bytes put behind others.
LEMMA LongerSeq ==
  ASSUME NEW S, NEW u \in Seq(S), NEW y \in Seq(S), NEW s, NEW p \in Nat, Begin(u, s, p),
         p <= Len(u) + 1
  PROVE  u \o y \in Seq(S) /\ Len(u \o y) = Len(u) + Len(y) /\ Begin(u \o y, s, p)
BY DEF Begin

LEMMA WordRoom ==
  ASSUME NEW n \in Nat, NEW d \in Nat, NEW x \in Int, NEW y \in Nat, n <= x
  PROVE  LET k == IF x - (n + d) < y THEN d ELSE 0
         IN k \in Nat /\ x + k \in Int /\ n + d <= x + k
OBVIOUS

LEMMA UndelWordSound ==
  ASSUME NEW C, NEW b, Sound(b, C), b.d_word # <<>> => b.text_changes = TRUE
  PROVE  Sound(undel_word(b), C) /\ Changed(b, undel_word(b))
<1> DEFINE l == b.lines[b.cur]
           p == b.position
           w == b.d_word
           d == Len(w)
           k == IF l.max - (Len(l.s) + d) < LineSlack THEN d ELSE 0
           a == IF l.max - (Len(l.s) + d) < LineSlack THEN resiz_line(b, d) ELSE b
           y == SubSeq(l.s, p, Len(l.s))
           u == SubSeq(l.s, 1, p - 1) \o w
           x == u \o y
           m == l.max + k
           c == undel_word(b)
<1>1. /\ l \in Line(C) /\ p \in 1..Len(l.s) /\ DOMAIN b = Globals /\ p \in Nat /\ p >= 1
      /\ b.point = p - 1 /\ b.cur \in 1..Len(b.lines) /\ b.lines \in Seq(Line(C))
  BY SoundFacts, Zenon
<1>2. w \in Seq(C) /\ Rest(b, C)
  BY Zenon DEF Sound, TextOK, Rest
<1>3. d \in Nat
  BY <1>2
<1> HIDE DEF l
<1>4. /\ l.s \in Seq(C) /\ Len(l.s) \in Nat /\ l.max \in Int /\ Len(l.s) <= l.max
      /\ l.no \in Int
  BY <1>1, LineFields, Zenon
<1>5. k \in Nat /\ m \in Int /\ Len(l.s) + d <= m
  <2>1. LineSlack \in Nat
    BY LineAssumption
  <2>2. QED
    BY <1>3, <1>4, <2>1, WordRoom, Zenon
<1>6. /\ DOMAIN a = Globals /\ a.cur = b.cur /\ a.lines[b.cur].s = l.s
      /\ a.lines[b.cur] \in Line(C) /\ a.lines[b.cur].max = m /\ a.lines[b.cur].no = l.no
      /\ At(a, b.cur, p) /\ a.scr_vert = b.scr_vert
      /\ a.absolute_lin = b.absolute_lin /\ a.scr_horz = b.scr_horz /\ a.scr_pos = b.scr_pos
      /\ a.text_changes = b.text_changes /\ a.overrun = b.overrun /\ a.d_char = b.d_char
      /\ a.d_word = b.d_word /\ a.d_line = b.d_line
      /\ \A f : Put(a.lines, b.cur, f) = Put(b.lines, b.cur, f)
  <2>1. CASE l.max - (Len(l.s) + d) < LineSlack
    <3> DEFINE r == resiz_line(b, d)
               n == Struct(l.s, l.max + d, l.no)
    <3>1. a = r /\ m = l.max + d
      BY <2>1, Zenon
    <3>2. Resized(b, r, d)
      BY <1>1, ResizLineFields, Zenon
    <3> HIDE DEF r
    <3>3. n \in Line(C) /\ Differ(b.lines, r.lines, b.cur, n)
      BY <1>3, <3>2, ResizedSound, Zenon DEF l
    <3>4. n.s = l.s /\ n.max = l.max + d /\ n.no = l.no
      BY Zenon DEF Struct
    <3> HIDE DEF n
    <3>5. r.lines[b.cur] = n
      BY <3>3, Zenon DEF Differ
    <3>6. \A f : Put(r.lines, b.cur, f) = Put(b.lines, b.cur, f)
      <4>1. r.lines = [b.lines EXCEPT ![b.cur] = n]
        BY <3>2, Zenon DEF Resized, Put, l, n
      <4>2. QED
        BY <1>1, <4>1 DEF Put
    <3>7. QED
      BY <3>1, <3>2, <3>3, <3>4, <3>5, <3>6, Zenon DEF Resized, At
  <2>2. CASE ~(l.max - (Len(l.s) + d) < LineSlack)
    <3>1. a = b /\ m = l.max
      BY <1>4, <2>2
    <3>2. QED
      BY <1>1, <3>1, Zenon DEF At, l
  <2>3. QED
    BY <2>1, <2>2, Zenon
<1>7. c = SetLine(a, [a.lines[a.cur] EXCEPT
                        !.s = SubSeq(@, 1, p - 1) \o b.d_word \o SubSeq(@, p, Len(@))])
  BY Zenon DEF undel_word, curr_line, l
<1> HIDE DEF a, c, k, m, p, l
<1>8. [a.lines[b.cur] EXCEPT !.s = SubSeq(@, 1, p - 1) \o b.d_word \o SubSeq(@, p, Len(@))]
        = Struct(x, m, l.no)
  <2> DEFINE g == a.lines[b.cur]
  <2>1. g \in Line(C) /\ g.s = l.s /\ g.max = m /\ g.no = l.no
    BY <1>6, Zenon
  <2> HIDE DEF g
  <2>2. [g EXCEPT !.s = SubSeq(@, 1, p - 1) \o b.d_word \o SubSeq(@, p, Len(@))] = [g EXCEPT !.s = x]
    BY <2>1, Zenon
  <2> HIDE DEF x
  <2>3. [g EXCEPT !.s = x] = Struct(x, g.max, g.no)
    BY <2>1, LineChanged, Zenon
  <2>4. QED
    BY <2>1, <2>2, <2>3, Zenon DEF g
<1>9. p \in 1..(Len(l.s) + 1) /\ p <= Len(l.s) + 1 /\ Len(l.s) <= Len(l.s)
  BY <1>1, <1>4
<1>10. y \in Seq(C) /\ Len(y) = Len(l.s) - p + 1
  <2> DEFINE s == l.s
             n == Len(s)
  <2>1. s \in Seq(C) /\ n \in Nat /\ p \in Nat /\ p >= 1 /\ p <= n + 1 /\ n <= Len(s)
    BY <1>1, <1>4, <1>9, Zenon
  <2> HIDE DEF n, s
  <2>2. SubSeq(s, p, n) \in Seq(C) /\ Len(SubSeq(s, p, n)) = n - p + 1
    BY <2>1, StretchSeq, Zenon
  <2>3. QED
    BY <2>2, Zenon DEF n, s
<1>11. u \in Seq(C) /\ Len(u) = p - 1 + d /\ Begin(u, l.s, p)
  BY <1>2, <1>4, <1>9, ReplacedSeq, Zenon
<1>12. ASSUME w = <<>>
       PROVE  x = l.s
  <2> HIDE DEF w
  <2>1. SubSeq(l.s, 1, p - 1) \o w \o SubSeq(l.s, p, Len(l.s)) = l.s
    BY <1>4, <1>9, <1>12, NothingBetween, Zenon
  <2>2. QED
    BY <2>1, Zenon
<1> HIDE DEF y, u
<1>13. x \in Seq(C) /\ Len(x) = (p - 1 + d) + (Len(l.s) - p + 1) /\ Begin(x, l.s, p)
  <2>1. p <= Len(u) + 1
    BY <1>1, <1>3, <1>11
  <2>2. x \in Seq(C) /\ Len(x) = Len(u) + Len(y) /\ Begin(x, l.s, p)
    BY <1>1, <1>10, <1>11, <2>1, LongerSeq, Zenon
  <2>3. QED
    BY <1>10, <1>11, <2>2, Zenon
<1> HIDE DEF x, d
<1>14. Len(x) >= p /\ Len(x) <= m
  <2>1. Len(x) \in Nat /\ p <= Len(l.s)
    BY <1>1, <1>13
  <2>2. QED
    BY <1>1, <1>3, <1>4, <1>5, <1>13, <2>1, WordLonger, Zenon
<1>15. /\ DOMAIN c = Globals /\ c.lines = Put(b.lines, b.cur, Struct(x, m, l.no))
       /\ At(c, b.cur, p) /\ c.scr_vert = b.scr_vert /\ c.absolute_lin = b.absolute_lin
       /\ c.scr_horz = b.scr_horz /\ c.scr_pos = b.scr_pos /\ c.d_word = b.d_word
       /\ c.overrun = b.overrun /\ c.d_char = b.d_char /\ c.d_line = b.d_line
       /\ c.text_changes = b.text_changes
  <2>1. c = [a EXCEPT !.lines = Put(a.lines, b.cur, Struct(x, m, l.no))]
    BY <1>6, <1>7, <1>8, Zenon DEF SetLine, Put
  <2>2. Put(a.lines, b.cur, Struct(x, m, l.no)) = Put(b.lines, b.cur, Struct(x, m, l.no))
    BY <1>6, Zenon
  <2>3. c = [a EXCEPT !.lines = Put(b.lines, b.cur, Struct(x, m, l.no))]
    BY <2>1, <2>2, Zenon
  <2>4. QED
    BY <1>6, <2>3, Zenon DEF At, Globals
<1>16. Rest(c, C)
  BY <1>2, <1>15, Zenon DEF Rest
<1>17. Sound(c, C) /\ Level(b, c) /\ Differ(b.lines, c.lines, b.cur, Struct(x, m, l.no))
  BY <1>5, <1>13, <1>14, <1>15, <1>16, TailRewritten, Zenon DEF l, p
<1>18. Noted(b, c)
  <2>1. CASE w = <<>>
    <3>1. c.lines[b.cur].s = l.s /\ Len(c.lines) = Len(b.lines)
      <4>1. Struct(x, m, l.no).s = x
        BY Zenon DEF Struct
      <4>2. c.lines[b.cur] = Struct(x, m, l.no) /\ Len(c.lines) = Len(b.lines)
        BY <1>17, Zenon DEF Differ
      <4>3. QED
        BY <1>12, <2>1, <4>1, <4>2, Zenon
    <3>2. \A j \in 1..Len(b.lines) : c.lines[j].s = b.lines[j].s
      BY <1>17, <3>1, Zenon DEF Differ, l
    <3>3. c.lines \in Seq(Line(C))
      BY <1>17, Zenon DEF Sound, Shape
    <3>4. TextOf(c.lines) = TextOf(b.lines)
      BY <1>1, <3>1, <3>2, <3>3, SameText
    <3>5. QED
      BY <1>15, <3>4, Zenon DEF Noted
  <2>2. CASE w # <<>>
    BY <1>15, <2>2, Zenon DEF Noted
  <2>3. QED
    BY <2>1, <2>2, Zenon
<1>19. QED
  BY <1>17, <1>18, Zenon DEF c, Changed

\* The first half of del_line: the line ends at the cursor.
Cut(b) ==
  [SetLine(b, [curr_line(b) EXCEPT !.s = Append(SubSeq(@, 1, b.position - 1), "nul")])
     EXCEPT !.d_line = [set |-> TRUE, s |-> SubSeq(curr_line(b).s, b.position, Len(curr_line(b).s) - 1)],
            !.text_changes = TRUE]

LEMMA CutSound ==
  ASSUME NEW C, NEW b, Sound(b, C), "nul" \in C
  PROVE  /\ Sound(Cut(b), C) /\ Changed(b, Cut(b)) /\ Cut(b).cur = b.cur
         /\ Cut(b).position = Length(Cut(b)) /\ Len(Cut(b).lines) = Len(b.lines)
<1> DEFINE l == b.lines[b.cur]
           p == b.position
           w == SubSeq(l.s, p, Len(l.s) - 1)
           x == Append(SubSeq(l.s, 1, p - 1), "nul")
           c == Cut(b)
<1>1. /\ l \in Line(C) /\ p \in 1..Len(l.s) /\ DOMAIN b = Globals /\ p \in Nat /\ p >= 1
      /\ b.point = p - 1 /\ p <= Len(l.s)
  BY SoundFacts, Zenon
<1>2. c = [SetLine(b, [l EXCEPT !.s = x]) EXCEPT !.d_line = [set |-> TRUE, s |-> w], !.text_changes = TRUE]
  BY Zenon DEF Cut, curr_line
<1>3. /\ l.s \in Seq(C) /\ Len(l.s) \in Nat /\ l.max \in Int /\ Len(l.s) <= l.max
  BY <1>1, LineFields, Zenon
<1> HIDE DEF c, l, p
<1>4. [l EXCEPT !.s = x] = Struct(x, l.max, l.no)
  BY <1>1, LineChanged, Zenon
<1>5. /\ Len(l.s) - 1 \in Nat /\ p <= (Len(l.s) - 1) + 1 /\ Len(l.s) - 1 <= Len(l.s)
      /\ p \in 1..(Len(l.s) + 1)
  BY <1>1, <1>3
<1>6. w \in Seq(C)
  BY <1>1, <1>3, <1>5, StretchSeq, Zenon
<1>7. x \in Seq(C) /\ Len(x) = p /\ Begin(x, l.s, p)
  <2> DEFINE s == l.s
             ch == "nul"
  <2>1. s \in Seq(C) /\ p \in 1..(Len(s) + 1) /\ ch \in C
    BY <1>3, <1>5, Zenon
  <2> HIDE DEF s, ch
  <2>2. /\ Append(SubSeq(s, 1, p - 1), ch) \in Seq(C)
        /\ Len(Append(SubSeq(s, 1, p - 1), ch)) = p
        /\ Begin(Append(SubSeq(s, 1, p - 1), ch), s, p)
    BY <2>1, EndedSeq, Zenon
  <2>3. QED
    BY <2>2, Zenon DEF s, ch
<1> HIDE DEF w, x
<1>8. Len(x) >= p /\ Len(x) <= l.max
  BY <1>1, <1>3, <1>7
<1>9. /\ DOMAIN c = Globals /\ c.lines = Put(b.lines, b.cur, Struct(x, l.max, l.no))
      /\ At(c, b.cur, p) /\ c.scr_vert = b.scr_vert /\ c.absolute_lin = b.absolute_lin
      /\ c.scr_horz = b.scr_horz /\ c.scr_pos = b.scr_pos /\ c.d_word = b.d_word
      /\ c.overrun = b.overrun /\ c.d_char = b.d_char /\ c.d_line.s = w
  BY <1>1, <1>2, <1>4, Zenon DEF SetLine, Put, At, Globals, p
<1>10. c.text_changes = TRUE
  BY <1>1, <1>2, Zenon DEF SetLine, Globals
<1>11. Rest(c, C)
  BY <1>6, <1>9, <1>10, Zenon DEF Rest, Sound, TextOK
<1>12. /\ Sound(c, C) /\ Level(b, c) /\ Differ(b.lines, c.lines, b.cur, Struct(x, l.max, l.no))
  <2> DEFINE m == l.max
  <2>1. /\ c.lines = Put(b.lines, b.cur, Struct(x, m, l.no)) /\ m \in Int /\ Len(x) <= m
    BY <1>3, <1>8, <1>9, Zenon
  <2> HIDE DEF m
  <2>2. Sound(c, C) /\ Level(b, c) /\ Differ(b.lines, c.lines, b.cur, Struct(x, m, l.no))
    BY <1>7, <1>8, <1>9, <1>11, <2>1, TailRewritten, Zenon DEF l, p
  <2>3. QED
    BY <2>2, Zenon DEF m
<1>13. c.position = p /\ c.cur = b.cur
  BY <1>9, Zenon DEF At
<1>14. Struct(x, l.max, l.no).s = x
  BY Zenon DEF Struct
<1>15. c.lines[b.cur] = Struct(x, l.max, l.no) /\ Len(c.lines) = Len(b.lines)
  BY <1>12, Zenon DEF Differ
<1>16. Length(c) = p
  BY <1>7, <1>13, <1>14, <1>15, Zenon DEF Length, line_length, curr_line
<1>17. QED
  BY <1>10, <1>12, <1>13, <1>15, <1>16, Zenon DEF c, Changed, Noted

\* right(FALSE) and left(FALSE) at the end of a line: there and back, with point
\* one byte too far.
Back(c) ==
  [c EXCEPT !.point = c.position]

LEMMA ThereAndBack ==
  ASSUME NEW C, NEW c, Sound(c, C), c.position = Length(c), c.cur < Len(c.lines)
  PROVE  LET r == right(c, FALSE)
         IN r.point = 0 /\ r.cur # 1 /\ left(r, FALSE) = Back(c)
<1> DEFINE r == right(c, FALSE)
           n == line_length(r.lines[r.cur - 1])
<1>1. /\ c.cur \in Nat /\ c.cur >= 1 /\ c.position \in Nat /\ DOMAIN c = Globals
      /\ Lines(c) = Len(c.lines) /\ Len(c.lines) \in Nat /\ c.absolute_lin \in Int
  BY Zenon DEF Sound, Shape, Place
<1>2. ~(c.position < Length(c)) /\ c.position >= Length(c) /\ c.cur # Lines(c)
  BY <1>1
<1>3. r = [c EXCEPT !.cur = c.cur + 1, !.absolute_lin = c.absolute_lin + 1, !.point = 0, !.position = 1]
  BY <1>2, Zenon DEF right
<1> HIDE DEF r
<1>4. /\ r.point = 0 /\ r.cur = c.cur + 1 /\ r.absolute_lin = c.absolute_lin + 1
      /\ r.lines = c.lines /\ DOMAIN r = Globals
  BY <1>1, <1>3, Zenon DEF Globals
<1>5. r.cur # 1 /\ r.cur - 1 = c.cur /\ r.absolute_lin - 1 = c.absolute_lin
  BY <1>1, <1>4
<1>6. n = c.position
  BY <1>4, <1>5, Zenon DEF Length, line_length, curr_line
<1>7. left(r, FALSE) = [r EXCEPT !.cur = c.cur, !.absolute_lin = c.absolute_lin,
                                 !.point = c.position, !.position = c.position]
  <2>1. left(r, FALSE) = [r EXCEPT !.cur = r.cur - 1, !.absolute_lin = r.absolute_lin - 1,
                                   !.point = n, !.position = n]
    BY <1>4, <1>5, Zenon DEF left
  <2> HIDE DEF n
  <2>2. QED
    BY <1>5, <1>6, <2>1, Zenon
<1>8. left(r, FALSE) = Back(c)
  BY <1>1, <1>3, <1>7, Zenon DEF Back, Globals
<1>9. QED
  BY <1>4, <1>5, <1>8, Zenon DEF r

LEMMA DelLineSound ==
  ASSUME NEW C, NEW b, Sound(b, C), "nul" \in C, "nl" \in C
  PROVE  Sound(del_line(b), C) /\ Changed(b, del_line(b))
<1> DEFINE c == Cut(b)
           r == right(c, FALSE)
           a == left(r, FALSE)
           next == a.lines[a.cur + 1]
           z == resiz_line(a, Len(next.s))
<1>1. /\ Sound(c, C) /\ Changed(b, c) /\ c.cur = b.cur
      /\ c.position = Length(c) /\ Len(c.lines) = Len(b.lines)
  BY CutSound, Zenon
<1>2. del_line(b) = IF b.cur < Lines(b) THEN delete(r, FALSE, FALSE) ELSE c
  BY Zenon DEF del_line, Cut
<1> HIDE DEF c
<1>3. CASE ~(b.cur < Lines(b))
  BY <1>1, <1>2, <1>3, Zenon
<1>4. CASE b.cur < Lines(b)
  <2>1. c.cur < Len(c.lines)
    BY <1>1, <1>4, Zenon DEF Lines
  <2>2. r.point = 0 /\ r.cur # 1 /\ a = Back(c)
    BY <1>1, <2>1, ThereAndBack, Zenon
  <2> HIDE DEF r
  <2>3. delete(r, FALSE, FALSE) = Joined(z, next, FALSE)
    BY <2>2, Zenon DEF delete, Joined
  <2> HIDE DEF a
  <2>4. /\ DOMAIN c = Globals /\ c.cur \in Nat /\ c.cur >= 1 /\ c.lines \in Seq(Line(C))
        /\ Len(c.lines) \in Nat
    BY <1>1, Zenon DEF Sound, Shape, Place
  <2>5. /\ DOMAIN a = Globals /\ a.lines = c.lines /\ a.cur = c.cur /\ a.position = c.position
        /\ a.scr_horz = c.scr_horz /\ a.scr_vert = c.scr_vert /\ a.scr_pos = c.scr_pos
        /\ a.absolute_lin = c.absolute_lin /\ a.text_changes = c.text_changes
        /\ a.overrun = c.overrun /\ a.d_char = c.d_char /\ a.d_word = c.d_word
        /\ a.d_line = c.d_line
    BY <2>2, <2>4, Zenon DEF Back, Globals
  <2>6. c.cur + 1 \in 1..Len(c.lines) /\ c.cur \in 1..Len(c.lines) /\ c.cur + 1 # c.cur
    BY <2>1, <2>4
  <2>7. Resized(a, z, Len(next.s))
    BY <2>4, <2>5, <2>6, ResizLineFields, Zenon
  <2>8. Len(next.s) \in Nat /\ next = c.lines[c.cur + 1]
    BY <2>4, <2>5, <2>6, LineType
  <2> DEFINE k == Len(next.s)
             m == Struct(c.lines[c.cur].s, c.lines[c.cur].max + k, c.lines[c.cur].no)
  <2> HIDE DEF z
  <2>9. Resized(c, z, k)
    BY <2>5, <2>7, Zenon DEF Resized
  <2>10. z.lines[c.cur + 1] = next
    <3> HIDE DEF k
    <3>1. k \in Nat
      BY <2>8, Zenon DEF k
    <3>2. Differ(c.lines, z.lines, c.cur, m)
      BY <1>1, <2>9, <3>1, ResizedSound, Zenon
    <3>3. QED
      BY <2>6, <2>8, <3>2, Zenon DEF Differ
  <2>11. Resized(c, z, Len(c.lines[c.cur + 1].s))
    BY <2>8, <2>9, Zenon
  <2>12. /\ Sound(Joined(z, z.lines[c.cur + 1], FALSE), C)
         /\ Changed(c, Joined(z, z.lines[c.cur + 1], FALSE))
    BY <1>1, <2>6, <2>11, JoinedSound, Zenon
  <2>13. Sound(Joined(z, next, FALSE), C) /\ Changed(c, Joined(z, next, FALSE))
    BY <2>10, <2>12, Zenon
  <2>14. Changed(b, Joined(z, next, FALSE))
    BY <1>1, <2>13, ChangedTwice, Zenon
  <2>15. QED
    BY <1>2, <1>4, <2>3, <2>13, <2>14, Zenon
<1>5. QED
  BY <1>3, <1>4, Zenon

\* insert_line and then left: the cursor stays at the end of its line.
LEMMA InsertLineKeySound ==
  ASSUME NEW C, NEW b, Sound(b, C), "nul" \in C
  PROVE  LET a == left(insert_line(b, TRUE), TRUE)
         IN /\ Sound(a, C) /\ Changed(b, a) /\ a.position = Length(a) /\ a.text_changes = TRUE
            /\ a.d_line = b.d_line
<1> DEFINE i == insert_line(b, TRUE)
           a == left(i, TRUE)
<1>1. /\ Sound(i, C) /\ Changed(b, i) /\ At(i, b.cur + 1, 1) /\ i.text_changes = TRUE
      /\ Len(i.lines[b.cur].s) = b.position /\ i.d_line = b.d_line
  BY InsertLineSound, Zenon
<1> HIDE DEF i
<1>2. b.cur \in Nat /\ b.cur >= 1 /\ b.position \in Nat
  BY Zenon DEF Sound, Place
<1>3. i.point = 1 - 1 /\ i.cur = b.cur + 1
  BY <1>1, Zenon DEF At
<1>4. i.point = 0 /\ i.cur # 1 /\ i.cur - 1 = b.cur
  BY <1>2, <1>3
<1>5. Moved(i, a) /\ Sound(a, C) /\ At(a, i.cur - 1, Len(i.lines[i.cur - 1].s))
  BY <1>1, <1>4, LeftMoves, Zenon
<1> HIDE DEF a
<1>6. a.lines = i.lines /\ a.text_changes = TRUE /\ a.d_line = b.d_line
  BY <1>1, <1>5, Zenon DEF Moved, Same
<1>7. a.cur = i.cur - 1 /\ a.position = Len(i.lines[i.cur - 1].s)
  BY <1>5, Zenon DEF At
<1>8. a.position = Length(a)
  BY <1>6, <1>7, Zenon DEF Length, line_length, curr_line
<1>9. Changed(i, a)
  BY <1>5, MovedChanged, Zenon
<1>10. Changed(b, a)
  BY <1>1, <1>9, ChangedTwice, Zenon
<1>11. QED
  BY <1>5, <1>6, <1>8, <1>10, Zenon DEF a, i

LEMMA UndelLineSound ==
  ASSUME NEW C, NEW b, Sound(b, C), "nul" \in C
  PROVE  Sound(undel_line(b), C) /\ Changed(b, undel_line(b))
<1>1. CASE ~b.d_line.set
  <2>1. undel_line(b) = b
    BY <1>1, Zenon DEF undel_line
  <2>2. QED
    BY <2>1, MovedNot, MovedChanged, Zenon
<1>2. CASE b.d_line.set
  <2> DEFINE a == left(insert_line(b, TRUE), TRUE)
             d == b.d_line.s
             k == Len(d) + 1
             z == resiz_line(a, k)
             l == a.lines[a.cur]
             p == a.position
             t == Append(d, "nul")
             x == SubSeq(l.s, 1, p - 1) \o t
             m == Struct(l.s, l.max + k, l.no)
             c == undel_line(b)
  <2>1. /\ Sound(a, C) /\ Changed(b, a) /\ a.position = Length(a) /\ a.text_changes = TRUE
        /\ a.d_line = b.d_line
    BY InsertLineKeySound, Zenon
  <2>2. c = SetLine(z, [curr_line(z) EXCEPT !.s = Content(curr_line(z)) \o Append(b.d_line.s, "nul")])
    BY <1>2, Zenon DEF undel_line
  <2> HIDE DEF a, c
  <2>3. /\ DOMAIN a = Globals /\ a.lines \in Seq(Line(C)) /\ a.cur \in 1..Len(a.lines)
        /\ p = Len(l.s) /\ p \in Nat /\ p >= 1 /\ l \in Line(C)
    BY <2>1, SMTT(30) DEF Sound, Shape, Place
  <2>4. Rest(a, C) /\ d \in Seq(C)
    BY <2>1, Zenon DEF Sound, TextOK, Rest
  <2> HIDE DEF d
  <2>5. t \in Seq(C) /\ Len(t) = k /\ Len(d) \in Nat
    BY <2>4
  <2>6. k \in Nat
    BY <2>5, SMTT(30)
  <2>7. Resized(a, z, k)
    <3> HIDE DEF k
    <3>1. QED
      BY <2>3, ResizLineFields, Zenon
  <2> HIDE DEF t, k, z
  <2>8. /\ Sound(z, C) /\ Level(a, z) /\ m \in Line(C) /\ At(z, a.cur, p)
        /\ Differ(a.lines, z.lines, a.cur, m)
    BY <2>1, <2>6, <2>7, ResizedSound, Zenon
  <2> HIDE DEF l
  <2>9. /\ l.s \in Seq(C) /\ Len(l.s) \in Nat /\ l.max \in Int /\ Len(l.s) <= l.max
    BY <2>3, LineFields, Zenon
  <2>10. m.s = l.s /\ m.max = l.max + k /\ m.no = l.no
    BY Zenon DEF Struct
  <2>11. curr_line(z) = m /\ z.cur = a.cur
    BY <2>8, Zenon DEF At, Differ, curr_line
  <2> HIDE DEF m
  <2>12. Content(m) = SubSeq(l.s, 1, p - 1)
    BY <2>3, <2>10, Zenon DEF Content
  <2>13. [m EXCEPT !.s = x] = Struct(x, l.max + k, l.no)
    <3>1. [m EXCEPT !.s = x] = Struct(x, m.max, m.no)
      BY <2>8, LineChanged, Zenon
    <3>2. QED
      BY <2>10, <3>1, Zenon
  <2>14. c = SetLine(z, Struct(x, l.max + k, l.no))
    BY <2>2, <2>11, <2>12, <2>13, Zenon DEF t, d
  <2> HIDE DEF p
  <2>15. x \in Seq(C) /\ Len(x) = p - 1 + k /\ Begin(x, l.s, p)
    <3>1. p \in 1..(Len(l.s) + 1)
      BY <2>3, <2>9
    <3>2. QED
      BY <2>5, <2>9, <3>1, ReplacedSeq, Zenon
  <2> DEFINE g == l.max + k
  <2>16. p <= Len(x) /\ Len(x) <= g /\ g \in Int
    <3>1. p <= l.max
      BY <2>3, <2>9
    <3>2. Len(x) = p - 1 + (Len(d) + 1) /\ g = l.max + (Len(d) + 1)
      BY <2>15, Zenon DEF k
    <3> DEFINE f == Len(d)
               o == l.max
    <3>3. f \in Nat /\ o \in Int /\ p <= o /\ p \in Nat /\ p >= 1
      BY <2>3, <2>5, <2>9, <3>1, Zenon
    <3>4. Len(x) = p - 1 + (f + 1) /\ g = o + (f + 1)
      BY <3>2, Zenon
    <3> HIDE DEF f, o, x, g
    <3>5. p <= p - 1 + (f + 1) /\ p - 1 + (f + 1) <= o + (f + 1) /\ o + (f + 1) \in Int
      BY <3>3
    <3>6. QED
      BY <3>4, <3>5, Zenon
  <2>17. Len(x) >= p
    BY <2>3, <2>15, <2>16
  <2> HIDE DEF x, g
  <2>18. c = [z EXCEPT !.lines = Put(z.lines, a.cur, Struct(x, g, l.no))]
    BY <2>11, <2>14, Zenon DEF SetLine, Put, g
  <2>19. Put(z.lines, a.cur, Struct(x, g, l.no)) = Put(a.lines, a.cur, Struct(x, g, l.no))
    BY <2>3, <2>7 DEF Resized, Put
  <2>20. /\ DOMAIN c = Globals /\ c.lines = Put(a.lines, a.cur, Struct(x, g, l.no))
         /\ At(c, a.cur, p) /\ c.scr_vert = a.scr_vert /\ c.absolute_lin = a.absolute_lin
         /\ c.scr_horz = a.scr_horz /\ c.scr_pos = a.scr_pos /\ c.d_word = a.d_word
         /\ c.overrun = a.overrun /\ c.d_char = a.d_char /\ c.d_line = a.d_line
         /\ c.text_changes = a.text_changes
    BY <2>7, <2>18, <2>19, Zenon DEF At, Globals, Resized, p
  <2>21. Rest(c, C)
    BY <2>4, <2>20, Zenon DEF Rest
  <2>22. Sound(c, C) /\ Level(a, c)
    BY <2>1, <2>15, <2>16, <2>17, <2>20, <2>21, TailRewritten, Zenon DEF l, p
  <2>23. Changed(a, c)
    BY <2>1, <2>20, <2>22, Zenon DEF Changed, Noted
  <2>24. Changed(b, c)
    BY <2>1, <2>23, ChangedTwice, Zenon
  <2>25. QED
    BY <2>22, <2>24, Zenon DEF c
<1>3. QED
  BY <1>1, <1>2, Zenon

\* The command RESEQUENCE.
Renumbered(b) ==
  [b EXCEPT !.lines = [i \in DOMAIN @ |-> [@[i] EXCEPT !.no = b.lines[1].no + i - 1]]]

LEMMA ResequenceSound ==
  ASSUME NEW C, NEW b, Sound(b, C)
  PROVE  Sound(Renumbered(b), C) /\ Changed(b, Renumbered(b))
<1> DEFINE c == Renumbered(b)
           q == b.lines
           z == [i \in 1..Len(q) |-> [q[i] EXCEPT !.no = q[1].no + i - 1]]
<1>1. /\ DOMAIN b = Globals /\ q \in Seq(Line(C)) /\ b.cur \in 1..Len(q) /\ Len(q) >= 1
      /\ b.position \in 1..Len(q[b.cur].s) /\ b.point = b.position - 1
      /\ b.scr_horz \in Int /\ b.scr_pos \in Int /\ b.absolute_lin \in Int
  BY SMTT(30) DEF Sound, Shape, Place
<1>2. /\ b.scr_vert \in 0..LastLine /\ b.scr_vert < b.cur
      /\ "del" \notin C => b.scr_horz = scanline(q[b.cur].s, b.position)
      /\ Rest(b, C)
  BY Zenon DEF Sound, Row, Column, TextOK
<1>3. q[1].no \in Int
  BY <1>1, LineType
<1>4. c = [b EXCEPT !.lines = z]
  <2>1. DOMAIN b.lines = 1..Len(b.lines)
    BY <1>1
  <2>2. QED
    BY <2>1, Zenon DEF Renumbered
<1> HIDE DEF c, q
<1>5. ASSUME NEW i \in 1..Len(q)
      PROVE  [q[i] EXCEPT !.no = q[1].no + i - 1] \in Line(C)
             /\ [q[i] EXCEPT !.no = q[1].no + i - 1].s = q[i].s
  <2> DEFINE l == q[i]
             n == q[1].no + i - 1
  <2>1. l \in Line(C) /\ n \in Int
    BY <1>1, <1>3
  <2> HIDE DEF l, n
  <2>2. [l EXCEPT !.no = n] \in Line(C) /\ [l EXCEPT !.no = n].s = l.s
    BY <2>1 DEF Line
  <2>3. QED
    BY <2>2, Zenon DEF l, n
<1>6. \A i \in 1..Len(q) : z[i] \in Line(C) /\ z[i].s = q[i].s
  BY <1>5, Zenon
<1>7. z \in Seq(Line(C)) /\ Len(z) = Len(q)
  <2>1. z \in [1..Len(q) -> Line(C)]
    BY <1>5, Zenon
  <2> HIDE DEF z
  <2>2. Len(q) \in Nat
    BY <1>1
  <2>3. QED
    BY <2>1, <2>2
<1> HIDE DEF z
<1>8. /\ DOMAIN c = Globals /\ c.lines = z
      /\ c.cur = b.cur /\ c.position = b.position /\ c.point = b.point
      /\ c.scr_horz = b.scr_horz /\ c.scr_vert = b.scr_vert /\ c.scr_pos = b.scr_pos
      /\ c.absolute_lin = b.absolute_lin /\ c.text_changes = b.text_changes
      /\ c.overrun = b.overrun /\ c.d_char = b.d_char /\ c.d_word = b.d_word
      /\ c.d_line = b.d_line
  BY <1>1, <1>4, Zenon DEF Globals
<1>9. TextOK(c, C)
  BY <1>2, <1>7, <1>8, Zenon DEF TextOK, Rest
<1>10. z[b.cur].s = q[b.cur].s
  BY <1>1, <1>6, Zenon
<1>11. Landed(c, c, C, b.cur, b.position)
  BY <1>1, <1>2, <1>7, <1>8, <1>10, Zenon DEF Landed, At, q
<1>12. Sound(c, C)
  BY <1>1, <1>8, <1>9, <1>11, EditArrives, Zenon
<1>13. TextOf(z) = TextOf(q)
  BY <1>1, <1>6, <1>7, SameText, Zenon
<1>14. QED
  BY <1>8, <1>12, <1>13, Zenon DEF Changed, Level, Noted, c, q

-----------------------------------------------------------------------------
(* The specification.                                                      *)

\* The bytes of the texts, of the keys and of what d_char may hold are in C.
Inputs(C) ==
  /\ "sp" \in C /\ "nul" \in C /\ "nl" \in C
  /\ \A t \in Texts : t \in Seq(Seq(C))
  /\ \A d \in DeletedChars : d \in Seq(C)
  /\ Typed \subseteq C

\* text_changes is set when the text was changed, and when there is a deleted
\* word: undel_word, which does not set it, can then not be the first change.
Noticed == TextOf(e.lines) # loaded \/ e.d_word # <<>> => e.text_changes = TRUE

\* The inductive invariant.
IInv(C) ==
  /\ Sound(e, C) /\ todo \in Seq(C) /\ keys \in 0..MaxKeys
  /\ Noticed
  /\ ~jumped => e.absolute_lin = e.cur

\* A handler that keeps the buffer sound and notes its changes keeps the invariant.
LEMMA KeyKept ==
  ASSUME NEW C, IInv(C), NEW c, e' = c, Sound(c, C), Changed(e, c), todo' \in Seq(C),
         keys' \in 0..MaxKeys, UNCHANGED <<loaded, jumped>>
  PROVE  IInv(C)'
<1>1. Sound(e', C) /\ Changed(e, e')
  BY Zenon
<1>2. Noticed'
  BY <1>1, Zenon DEF IInv, Noticed, Changed, Noted
<1>3. ASSUME ~jumped'
      PROVE  e'.absolute_lin = e'.cur
  <2>1. e.absolute_lin = e.cur /\ e.cur \in Int
    BY <1>3, Zenon DEF IInv, Sound, Place
  <2>2. e'.cur \in Nat /\ e'.absolute_lin \in Int
    BY <1>1, Zenon DEF Sound, Place
  <2>3. e'.absolute_lin - e'.cur = e.absolute_lin - e.cur
    BY <1>1, Zenon DEF Changed, Level
  <2>4. QED
    BY <2>1, <2>2, <2>3
<1>4. QED
  BY <1>1, <1>2, <1>3, Zenon DEF IInv

LEMMA PressKept ==
  ASSUME NEW C, IInv(C), NEW k, NEW n, Press(k, n)
  PROVE  keys' \in 0..MaxKeys /\ todo = <<>> /\ todo \in Seq(C)
<1>1. keys \in 0..MaxKeys /\ keys > 0 /\ keys' = keys - 1
  BY Zenon DEF IInv, Press
<1>2. keys' \in 0..MaxKeys
  BY <1>1, BufferAssumption
<1>3. QED
  BY <1>2, Zenon DEF IInv, Press

LEMMA DoKept ==
  ASSUME NEW C, IInv(C), NEW k, NEW c, Do(k, c), Sound(c, C), Changed(e, c)
  PROVE  IInv(C)'
<1>1. e' = c /\ Press(k, 0) /\ todo' = todo /\ UNCHANGED <<loaded, jumped>>
  BY Zenon DEF Do
<1>2. keys' \in 0..MaxKeys /\ todo \in Seq(C)
  BY <1>1, PressKept, Zenon
<1>3. todo' \in Seq(C)
  BY <1>1, <1>2, Zenon
<1>4. QED
  BY <1>1, <1>2, <1>3, KeyKept, Zenon

LEMMA MotionKept ==
  ASSUME NEW C, IInv(C), Motion
  PROVE  IInv(C)'
<1> USE DEF IInv
<1>0. ASSUME NEW k, NEW c, Do(k, c), Sound(c, C), Moved(e, c)
      PROVE  IInv(C)'
  <2> HIDE DEF IInv
  <2>1. Changed(e, c)
    BY <1>0, MovedChanged, Zenon
  <2>2. QED
    BY <1>0, <2>1, DoKept, Zenon
<1>1. Sound(e, C)
  BY Zenon
<1> HIDE DEF IInv
<1>2. CASE Left
  BY <1>0, <1>1, <1>2, LeftMoves, Zenon DEF Left
<1>3. CASE Right
  BY <1>0, <1>1, <1>3, RightMoves, Zenon DEF Right
<1>4. CASE Up
  BY <1>0, <1>1, <1>4, UpMoves, Zenon DEF Up
<1>5. CASE Down
  BY <1>0, <1>1, <1>5, DownMoves, Zenon DEF Down
<1>6. CASE Bol
  BY <1>0, <1>1, <1>6, BolMoves, Zenon DEF Bol
<1>7. CASE Eol
  BY <1>0, <1>1, <1>7, EolMoves, Zenon DEF Eol
<1>8. CASE Top
  BY <1>0, <1>1, <1>8, TopMoves, Zenon DEF Top
<1>9. CASE Bottom
  BY <1>0, <1>1, <1>9, TopMoves, Zenon DEF Bottom
<1>10. CASE AdvWord
  BY <1>0, <1>1, <1>10, AdvWordMoves, Zenon DEF AdvWord
<1>11. CASE AdvLine
  BY <1>0, <1>1, <1>11, AdvLineMoves, Zenon DEF AdvLine
<1>12. CASE PageUp
  <2>1. Page \in Nat
    BY PageType
  <2>2. QED
    BY <1>0, <1>1, <1>12, <2>1, MoveUpMoves, Zenon DEF PageUp
<1>13. CASE PageDown
  BY <1>0, <1>1, <1>13, PageType, MoveDownMoves, Zenon DEF PageDown
<1>14. CASE Search
  BY <1>0, <1>1, <1>14, SearchMoves, Zenon DEF Search
<1>15. CASE GotoLine
  <2>1. PICK n \in LineNumbers : Press("goto", n) /\ e' = goto_line(e, n)
                                  /\ jumped' = (jumped \/ GotoTarget(e, n).i >= Far)
    BY <1>15, Zenon DEF GotoLine
  <2>2. n \in Int
    BY TextsAssumption, Zenon
  <2> DEFINE c == goto_line(e, n)
  <2>3. Same(e, c) /\ Sound(c, C) /\ (~(GotoTarget(e, n).i >= Far) => Moved(e, c))
    BY <1>1, <2>2, GotoLineMoves, Zenon
  <2>4. keys' \in 0..MaxKeys /\ todo' = todo /\ loaded' = loaded /\ todo \in Seq(C)
    BY <1>15, <2>1, PressKept, Zenon DEF GotoLine
  <2>5. e' = c
    BY <2>1
  <2> HIDE DEF c
  <2>6. Sound(e', C) /\ Noticed'
    BY <2>3, <2>4, <2>5, Zenon DEF IInv, Noticed, Same
  <2>7. ASSUME ~jumped'
        PROVE  e'.absolute_lin = e'.cur
    <3>1. ~jumped /\ ~(GotoTarget(e, n).i >= Far)
      BY <2>1, <2>7, Zenon
    <3>2. Moved(e, e')
      BY <2>3, <2>5, <3>1, Zenon
    <3>3. e'.absolute_lin - e'.cur = e.absolute_lin - e.cur
      BY <3>2, Zenon DEF Moved
    <3>4. e.absolute_lin = e.cur /\ e.cur \in Nat /\ e'.cur \in Nat /\ e'.absolute_lin \in Int
      BY <1>1, <2>6, <3>1, Zenon DEF IInv, Sound, Place
    <3>5. QED
      BY <3>3, <3>4
  <2>8. QED
    BY <2>4, <2>6, <2>7, Zenon DEF IInv
<1>16. CASE Resequence
  <2>1. Do("resequence", Renumbered(e))
    BY <1>16, Zenon DEF Resequence, Renumbered
  <2>2. QED
    BY <1>1, <2>1, ResequenceSound, DoKept, Zenon
<1>17. QED
  BY <1>2, <1>3, <1>4, <1>5, <1>6, <1>7, <1>8, <1>9, <1>10, <1>11, <1>12, <1>13, <1>14,
     <1>15, <1>16, Zenon DEF Motion

LEMMA TabSpaces ==
  ASSUME NEW C, "sp" \in C, NEW col \in Int, NEW t \in Seq(C)
  PROVE  [i \in 1..tabshift(col) |-> "sp"] \o t \in Seq(C)
<1>1. tabshift(col) \in Nat
  BY LineAssumption DEF tabshift
<1> DEFINE n == tabshift(col)
           s == [i \in 1..n |-> "sp"]
<1>2. s \in Seq(C)
  <2> HIDE DEF n
  <2>1. n \in Nat
    BY <1>1, Zenon DEF n
  <2>2. s \in [1..n -> C]
    BY Zenon
  <2> HIDE DEF s
  <2>3. QED
    BY <2>1, <2>2
<1> HIDE DEF s
<1>3. s \o t \in Seq(C)
  BY <1>2
<1>4. QED
  BY <1>3, Zenon DEF s

LEMMA EditKept ==
  ASSUME NEW C, Inputs(C), IInv(C), Edit
  PROVE  IInv(C)'
<1>0. /\ Sound(e, C) /\ "sp" \in C /\ "nul" \in C /\ "nl" \in C
      /\ TRUE \in BOOLEAN /\ FALSE \in BOOLEAN
  BY Zenon DEF IInv, Inputs
<1>1. CASE Backspace
  BY <1>0, <1>1, DeleteSound, DoKept, Zenon DEF Backspace
<1>2. CASE BackspaceKey
  BY <1>0, <1>2, DeleteSound, DoKept, Zenon DEF BackspaceKey
<1>3. CASE NewLine
  BY <1>0, <1>3, InsertLineSound, DoKept, Zenon DEF NewLine
<1>4. CASE InsertLineKey
  BY <1>0, <1>4, InsertLineKeySound, DoKept, Zenon DEF InsertLineKey
<1>5. CASE DelChar
  BY <1>0, <1>5, DelCharSound, DoKept, Zenon DEF DelChar
<1>6. CASE DelWord
  BY <1>0, <1>6, DelWordSound, DoKept, Zenon DEF DelWord
<1>7. CASE DelLine
  BY <1>0, <1>7, DelLineSound, DoKept, Zenon DEF DelLine
<1>8. CASE UndelChar
  <2>1. Press("undel_char", 0) /\ UNCHANGED <<loaded, jumped>>
    BY <1>8, Zenon DEF UndelChar
  <2>2. keys' \in 0..MaxKeys /\ todo \in Seq(C)
    BY <2>1, PressKept, Zenon
  <2>3. CASE e.d_char[1] = "nl"
    <3>1. e' = insert_line(e, TRUE) /\ todo' = todo
      BY <1>8, <2>3, Zenon DEF UndelChar
    <3>2. Sound(insert_line(e, TRUE), C) /\ Changed(e, insert_line(e, TRUE)) /\ todo' \in Seq(C)
      BY <1>0, <2>2, <3>1, InsertLineSound, Zenon
    <3>3. QED
      BY <2>1, <2>2, <3>1, <3>2, KeyKept, Zenon
  <2>4. CASE e.d_char[1] # "nl"
    <3>1. e' = e /\ todo' = e.d_char
      BY <1>8, <2>4, Zenon DEF UndelChar
    <3>2. todo' \in Seq(C)
      BY <1>0, <3>1, Zenon DEF Sound, TextOK, Rest
    <3>3. Changed(e, e)
      BY <1>0, MovedNot, MovedChanged, Zenon
    <3>4. QED
      BY <1>0, <2>1, <2>2, <3>1, <3>2, <3>3, KeyKept, Zenon
  <2>5. QED
    BY <2>3, <2>4, Zenon
<1>9. CASE UndelWord
  <2>1. e.d_word # <<>> => e.text_changes = TRUE
    BY Zenon DEF IInv, Noticed
  <2>2. QED
    BY <1>0, <1>9, <2>1, UndelWordSound, DoKept, Zenon DEF UndelWord
<1>10. CASE UndelLine
  BY <1>0, <1>10, UndelLineSound, DoKept, Zenon DEF UndelLine
<1>11. CASE Type
  <2>1. Press("type", 0) /\ UNCHANGED <<loaded, jumped>> /\ e' = e
    BY <1>11, Zenon DEF Type
  <2>2. PICK ch \in Typed : todo' = <<ch>>
    BY <1>11, Zenon DEF Type
  <2>3. ch \in C
    BY Zenon DEF Inputs
  <2>4. todo' \in Seq(C)
    BY <2>2, <2>3
  <2>5. keys' \in 0..MaxKeys
    BY <2>1, PressKept, Zenon
  <2>6. Changed(e, e)
    BY <1>0, MovedNot, MovedChanged, Zenon
  <2>7. QED
    BY <1>0, <2>1, <2>4, <2>5, <2>6, KeyKept, Zenon
<1>12. CASE Insert
  <2> DEFINE ch == Head(todo)
             rest == Tail(todo)
  <2>1. todo # <<>> /\ UNCHANGED <<loaded, jumped>> /\ keys' = keys
    BY <1>12, Zenon DEF Insert
  <2>2. todo \in Seq(C) /\ keys' \in 0..MaxKeys
    BY <2>1, Zenon DEF IInv
  <2>3. ch \in C /\ rest \in Seq(C)
    BY <2>1, <2>2
  <2>4. CASE ch = "tab" /\ ExpandTabs
    <3>1. /\ todo' = [i \in 1..tabshift(e.scr_horz) |-> "sp"] \o rest
          /\ e' = e
      BY <1>12, <2>4, Zenon DEF Insert
    <3>2. e.scr_horz \in Int
      BY <1>0, Zenon DEF Sound, Place
    <3> HIDE DEF rest
    <3>3. [i \in 1..tabshift(e.scr_horz) |-> "sp"] \o rest \in Seq(C)
      BY <1>0, <2>3, <3>2, TabSpaces
    <3>4. todo' \in Seq(C)
      BY <3>1, <3>3, Zenon
    <3>5. Changed(e, e)
      BY <1>0, MovedNot, MovedChanged, Zenon
    <3>6. QED
      BY <1>0, <2>1, <2>2, <3>1, <3>4, <3>5, KeyKept, Zenon
  <2>5. CASE ~(ch = "tab" /\ ExpandTabs)
    <3>1. e' = insert(e, ch) /\ todo' = rest
      BY <1>12, <2>5, Zenon DEF Insert
    <3> HIDE DEF ch, rest
    <3>2. Sound(insert(e, ch), C) /\ Changed(e, insert(e, ch))
      BY <1>0, <2>3, InsertSound, Zenon
    <3>3. todo' \in Seq(C)
      BY <2>3, <3>1, Zenon
    <3>4. QED
      BY <2>1, <2>2, <3>1, <3>2, <3>3, KeyKept, Zenon
  <2>6. QED
    BY <2>4, <2>5, Zenon
<1>13. QED
  BY <1>1, <1>2, <1>3, <1>4, <1>5, <1>6, <1>7, <1>8, <1>9, <1>10, <1>11, <1>12, Zenon DEF Edit

LEMMA LineOfType ==
  ASSUME NEW C, "nul" \in C, NEW t \in Seq(Seq(C)), NEW i \in 1..Len(t)
  PROVE  LineOf(t, i) \in Line(C)
<1> DEFINE x == Append(t[i], "nul")
           m == IF t = << <<>> >> THEN LineChunk
                ELSE Len(t[i]) + 1 + (IF i = 1 THEN LineChunk ELSE 0)
<1>1. t[i] \in Seq(C) /\ Len(t[i]) \in Nat /\ i \in Int
  OBVIOUS
<1>2. x \in Seq(C) /\ Len(x) = Len(t[i]) + 1
  BY <1>1
<1>3. m \in Int /\ Len(x) <= m
  <2>1. LineChunk \in Nat /\ LineChunk >= 2
    BY LineAssumption
  <2>2. CASE t = << <<>> >>
    <3>1. i = 1 /\ Len(t[i]) = 0
      BY <2>2
    <3> HIDE DEF x
    <3>2. m = LineChunk
      BY <2>2, Zenon
    <3>3. QED
      BY <1>2, <2>1, <3>1, <3>2
  <2>3. CASE t # << <<>> >>
    <3> DEFINE n == Len(t[i])
    <3>1. m = n + 1 + (IF i = 1 THEN LineChunk ELSE 0) /\ Len(x) = n + 1 /\ n \in Nat
      BY <1>1, <1>2, <2>3, Zenon
    <3> HIDE DEF m, x, n
    <3>2. QED
      BY <2>1, <3>1
  <2>4. QED
    BY <2>2, <2>3, Zenon
<1> HIDE DEF x, m
<1>4. Len(x) >= 1
  BY <1>1, <1>2
<1>5. Struct(x, m, i) \in Line(C)
  BY <1>1, <1>2, <1>3, <1>4, StructType, Zenon
<1>6. QED
  BY <1>5, Zenon DEF Struct, LineOf, x, m

LEMMA InitKept ==
  ASSUME NEW C, Inputs(C), Init
  PROVE  IInv(C)
<1>1. PICK t \in Texts, d \in DeletedChars :
        e = [lines |-> [i \in DOMAIN t |-> LineOf(t, i)],
             cur |-> 1, position |-> 1, point |-> 0,
             scr_horz |-> 0, scr_vert |-> 0, scr_pos |-> 0, absolute_lin |-> 1,
             text_changes |-> FALSE, overrun |-> FALSE,
             d_char |-> d, d_word |-> <<>>, d_line |-> [set |-> FALSE, s |-> <<>>]]
  BY Zenon DEF Init
<1> DEFINE q == [i \in DOMAIN t |-> LineOf(t, i)]
<1>2. /\ e.lines = q /\ e.cur = 1 /\ e.position = 1 /\ e.point = 0 /\ e.scr_horz = 0
      /\ e.scr_vert = 0 /\ e.scr_pos = 0 /\ e.absolute_lin = 1 /\ e.text_changes = FALSE
      /\ e.overrun = FALSE /\ e.d_char = d /\ e.d_word = <<>> /\ e.d_line.s = <<>>
  BY <1>1, Zenon
<1>3. DOMAIN e = Globals
  BY <1>1 DEF Globals
<1>4. /\ t \in Seq(Seq(C)) /\ t # <<>> /\ d \in Seq(C) /\ Len(d) \in 1..2 /\ "nul" \in C
  BY TextsAssumption, Zenon DEF Inputs
<1>5. DOMAIN t = 1..Len(t) /\ Len(t) \in Nat /\ Len(t) >= 1
  BY <1>4
<1>6. q \in Seq(Line(C)) /\ Len(q) = Len(t)
  <2>1. q \in [1..Len(t) -> Line(C)]
    BY <1>4, <1>5, LineOfType, Zenon
  <2> HIDE DEF q
  <2>2. QED
    BY <1>5, <2>1
<1> HIDE DEF q
<1>7. q \in Seq(Line(C)) /\ 1 \in 1..Len(q)
  BY <1>5, <1>6
<1>8. q[1].s \in Seq(C) /\ Len(q[1].s) \in Nat \ {0}
  BY <1>7, LineType
<1>9. scanline(q[1].s, 1) = 0 /\ 1 \in 1..Len(q[1].s)
  BY <1>8, ColumnType
<1>10. Rest(e, C)
  <2>1. <<>> \in Seq(C)
    OBVIOUS
  <2>2. QED
    BY <1>2, <1>4, <2>1, Zenon DEF Rest
<1>11. TextOK(e, C)
  BY <1>2, <1>3, <1>7, <1>10, Zenon DEF TextOK
<1>12. Landed(e, e, C, 1, 1) /\ e.absolute_lin \in Int
  BY <1>2, <1>7, <1>9, BufferAssumption DEF Landed, At
<1>13. Sound(e, C)
  BY <1>11, <1>12, EditArrives, Zenon
<1>14. todo \in Seq(C) /\ keys \in 0..MaxKeys
  BY BufferAssumption DEF Init
<1>15. Noticed
  BY <1>2, Zenon DEF Noticed, Init
<1>16. QED
  BY <1>2, <1>13, <1>14, <1>15, Zenon DEF IInv

LEMMA StepKept ==
  ASSUME NEW C, Inputs(C), IInv(C), [Next]_vars
  PROVE  IInv(C)'
<1>1. CASE Next
  BY <1>1, MotionKept, EditKept, Zenon DEF Next
<1>2. CASE UNCHANGED vars
  BY <1>2, Zenon DEF vars, IInv, Noticed
<1>3. QED
  BY <1>1, <1>2, Zenon

LEMMA AllBytes == Inputs(Byte)
<1>1. "sp" \in Byte /\ "nul" \in Byte /\ "nl" \in Byte
  BY Zenon DEF Byte
<1>2. QED
  BY <1>1, TextsAssumption, Zenon DEF Inputs

\* The invariant holds throughout, over all bytes.
LEMMA SoundKept == Spec => []IInv(Byte)
<1>1. Init => IInv(Byte)
  BY AllBytes, InitKept, Zenon
<1>2. IInv(Byte) /\ [Next]_vars => IInv(Byte)'
  BY AllBytes, StepKept, Zenon
<1>3. QED
  BY <1>1, <1>2, PTL DEF Spec

\* Every global keeps its type, whatever is typed, deleted, found or gone to.
THEOREM TypesKept == Spec => []TypeOK
<1>1. IInv(Byte) => TypeOK
  <2>1. ASSUME IInv(Byte) PROVE TypeOK
    <3>1. Sound(e, Byte) /\ keys \in 0..MaxKeys
      BY <2>1, Zenon DEF IInv
    <3>2. /\ e.lines \in Seq(Line(Byte)) /\ Len(e.d_char) \in 1..2
          /\ e.text_changes \in BOOLEAN /\ e.overrun \in BOOLEAN
      BY <3>1, Zenon DEF Sound, TextOK, Rest
    <3>3. /\ e.cur \in Nat /\ e.cur >= 1 /\ e.cur <= Len(e.lines) /\ Len(e.lines) \in Nat
          /\ e.position \in Nat /\ e.position >= 1 /\ e.point = e.position - 1
          /\ e.scr_horz \in Int /\ e.scr_pos \in Int /\ e.absolute_lin \in Int
      BY <3>1, Zenon DEF Sound, Shape, Place
    <3>4. e.scr_vert \in 0..LastLine
      BY <3>1, Zenon DEF Sound, Row
    <3>5. e.cur \in 1..Len(e.lines) /\ e.point \in Nat /\ e.scr_vert \in Int /\ e.lines # <<>>
      BY <3>3, <3>4, BufferAssumption
    <3>6. e.lines \in Seq(StructText)
      <4>1. Line(Byte) \subseteq StructText
        BY Zenon DEF Line, StructText
      <4>2. QED
        BY <3>2, <4>1
    <3>7. QED
      BY <3>1, <3>2, <3>3, <3>5, <3>6, Zenon DEF TypeOK
  <2>2. QED
    BY <2>1
<1>2. QED
  BY <1>1, SoundKept, PTL

\* No handler leaves a line with more bytes than were allocated for it
\* (resiz_line), and insert's shift never writes behind them.
THEOREM BufferNeverOverrun == Spec => []BufferFits
<1>1. ASSUME IInv(Byte) PROVE BufferFits
  <2>1. e.lines \in Seq(Line(Byte)) /\ e.overrun = FALSE
    BY <1>1, Zenon DEF IInv, Sound, TextOK, Rest
  <2>2. ASSUME NEW i \in DOMAIN e.lines PROVE line_length(e.lines[i]) <= e.lines[i].max
    <3>1. i \in 1..Len(e.lines)
      BY <2>1
    <3>2. QED
      BY <2>1, <3>1, LineType DEF line_length
  <2>3. QED
    BY <2>1, <2>2, Zenon DEF BufferFits
<1>2. IInv(Byte) => BufferFits
  BY <1>1
<1>3. QED
  BY <1>2, SoundKept, PTL

\* point, a pointer into the line, and position name the same byte of it.
THEOREM PointKept == Spec => []PointAtPosition
<1>1. ASSUME IInv(Byte) PROVE PointAtPosition
  <2>1. /\ Length(e) \in Nat /\ e.position \in Nat /\ e.position >= 1
        /\ e.position <= Length(e) /\ e.point = e.position - 1
    BY <1>1, Zenon DEF IInv, Sound, Place
  <2>2. QED
    BY <2>1 DEF PointAtPosition
<1>2. IInv(Byte) => PointAtPosition
  BY <1>1
<1>3. QED
  BY <1>2, SoundKept, PTL

\* The cursor's row is in the window, and not below the line's place in the text.
THEOREM RowKept == Spec => []RowOnScreen
<1>1. IInv(Byte) => RowOnScreen
  BY Zenon DEF IInv, Sound, Row, RowOnScreen
<1>2. QED
  BY <1>1, SoundKept, PTL

\* absolute_lin is the number of the line, until goto_line goes Far lines.
THEOREM AbsoluteLineKept == Spec => []AbsoluteLine
<1>1. IInv(Byte) => AbsoluteLine
  BY Zenon DEF IInv, AbsoluteLine
<1>2. QED
  BY <1>1, SoundKept, PTL

\* A text that differs from what was read has text_changes set, though
\* undel_word does not set it.
THEOREM NoChangeMissed == Spec => []ChangesNoticed
<1>1. IInv(Byte) => ChangesNoticed
  BY Zenon DEF IInv, Noticed, ChangesNoticed
<1>2. QED
  BY <1>1, SoundKept, PTL

\* Without DEL, which find_pos and scanline count differently, scr_horz is the
\* column that scanline gives the cursor.
THEOREM ColumnKept ==
  ASSUME Inputs(Byte \ {"del"})
  PROVE  Spec => []CursorColumn
<1> DEFINE C == Byte \ {"del"}
<1>1. Init => IInv(C)
  BY InitKept, Zenon
<1>2. IInv(C) /\ [Next]_vars => IInv(C)'
  BY StepKept, Zenon
<1>3. IInv(C) => CursorColumn
  <2>1. "del" \notin C
    OBVIOUS
  <2> HIDE DEF C
  <2>2. QED
    BY <2>1, Zenon DEF IInv, Sound, Column, CursorColumn, curr_line
<1> HIDE DEF C
<1>4. QED
  BY <1>1, <1>2, <1>3, PTL DEF Spec

\* As long as the lines are numbered in sequence, goto_line goes to the line of
\* that number, whichever way it goes and however far.
THEOREM GotoKept == Spec => GotoNumbered
<1> DEFINE Right_line == (key'.op = "goto" /\ keys' # keys /\ \A i \in DOMAIN e.lines : e.lines[i].no = i) =>
                           e'.cur = Max({1, Min({key'.n, Lines(e)})})
<1>1. ASSUME IInv(Byte), Next, key'.op = "goto", keys' # keys,
             \A i \in DOMAIN e.lines : e.lines[i].no = i
      PROVE  e'.cur = Max({1, Min({key'.n, Lines(e)})})
  <2>1. Sound(e, Byte) /\ Numbered(e)
    <3>1. Sound(e, Byte) /\ e.lines \in Seq(Line(Byte))
      BY <1>1, Zenon DEF IInv, Sound, TextOK
    <3>2. DOMAIN e.lines = 1..Len(e.lines)
      BY <3>1
    <3>3. QED
      BY <1>1, <3>1, <3>2, Zenon DEF Numbered
  <2>2. GotoLine
    <3>1. ASSUME NEW k, NEW n, Press(k, n) PROVE k = "goto"
      <4>1. key'.op = k
        BY <3>1, Zenon DEF Press
      <4>2. QED
        BY <1>1, <4>1, Zenon
    <3>2. ASSUME NEW k, NEW c, Do(k, c) PROVE k = "goto"
      BY <3>1, <3>2, Zenon DEF Do
    <3>3. Motion => GotoLine
      BY <3>2, Zenon DEF Motion, Left, Right, Up, Down, Bol, Eol, Top, Bottom, AdvWord, AdvLine,
         PageUp, PageDown, Search, Resequence
    <3>4. ~Type /\ ~UndelChar
      BY <3>1, Zenon DEF Type, UndelChar
    <3>5. ~Insert
      BY <1>1, Zenon DEF Insert
    <3>6. ~Edit
      BY <3>2, <3>4, <3>5, Zenon DEF Edit, Backspace, BackspaceKey, NewLine, InsertLineKey, DelChar,
         DelWord, UndelWord, DelLine, UndelLine
    <3>7. QED
      BY <1>1, <3>3, <3>6, Zenon DEF Next
  <2>3. PICK n \in LineNumbers : Press("goto", n) /\ e' = goto_line(e, n)
    BY <2>2, Zenon DEF GotoLine
  <2>4. n \in Int
    BY TextsAssumption, Zenon
  <2>5. key'.n = n
    BY <2>3, Zenon DEF Press
  <2>6. goto_line(e, n).cur = Max({1, Min({n, Lines(e)})})
    BY <2>1, <2>4, GotoLineMoves, Zenon
  <2>7. QED
    BY <2>3, <2>5, <2>6, Zenon
<1>2. IInv(Byte) /\ [Next]_vars => [Right_line]_vars
  BY <1>1, Zenon DEF vars
<1> HIDE DEF Right_line
<1>3. Spec => [][Right_line]_vars
  BY <1>2, SoundKept, PTL DEF Spec
<1>4. QED
  BY <1>3, Zenon DEF Right_line, GotoNumbered
=============================================================================
