------------------------------ MODULE EeBuffer ------------------------------
(***************************************************************************)
(* The text buffer of ee and the commands the keyboard gives it: every     *)
(* key handler of ee.c that edits the text or moves the cursor.            *)
(*                                                                         *)
(* The globals that the handlers share are one record, e, because the      *)
(* handlers call each other: each C function below is an operator from e   *)
(* to e, and an action is one key.  curr_line is the index e.cur; point,   *)
(* a pointer into the current line, is its offset e.point.  What the       *)
(* handlers draw is left out, and with it horiz_offset, which nothing but  *)
(* drawing reads: midscreen(scr_vert, ...) leaves the cursor where it is.  *)
(* Automatic formatting is off, as it is by default.                       *)
(***************************************************************************)
EXTENDS EeText

CONSTANTS Texts,         \* texts a session may start with, as read from a file
          Typed,         \* characters that may be typed
          DeletedChars,  \* what the uninitialised d_char may hold
          Patterns,      \* search strings
          LineNumbers,   \* numbers given to goto_line
          LastLine,      \* last_line: the text window's rows are 0..LastLine
          RightMargin,   \* right_margin, or a large number when not observed
          ExpandTabs,    \* expand_tabs
          LookAhead,     \* 5 in move_rel
          Far,           \* 30 in goto_line and search
          MaxKeys        \* bound on the length of a session

ASSUME BufferAssumption ==
  /\ LastLine \in Nat /\ RightMargin \in Nat /\ LookAhead \in Nat \ {0}
  /\ Far \in Nat \ {0} /\ MaxKeys \in Nat /\ ExpandTabs \in BOOLEAN

\* There is always a line, and d_char holds a character or a pair.
ASSUME TextsAssumption ==
  /\ \A t \in Texts : t \in Seq(Seq(Byte)) /\ t # <<>>
  /\ \A d \in DeletedChars : d \in Seq(Byte) /\ Len(d) \in 1..2
  /\ \A pat \in Patterns : pat \in Seq(Byte)
  /\ Typed \subseteq Byte /\ LineNumbers \subseteq Int

VARIABLES
  e,         \* the editor's globals
  todo,      \* characters the current handler has still to pass to insert
  keys,      \* keys that may still be pressed
  \* What has happened; no handler reads these.
  key,       \* the last key, and the line number given with it
  loaded,    \* the text as it was read
  jumped     \* has goto_line gone Far lines or more?

vars == <<e, todo, keys, key, loaded, jumped>>

TextOf(lines) == [i \in DOMAIN lines |-> Content(lines[i])]

\* get_line gives a line exactly the space it needs; the first one is appended
\* to the line that main has allocated, which is all there is when nothing is
\* read.
LineOf(t, i) ==
  [s   |-> Append(t[i], "nul"),
   max |-> IF t = << <<>> >> THEN LineChunk
           ELSE Len(t[i]) + 1 + (IF i = 1 THEN LineChunk ELSE 0),
   no  |-> i]

Init ==
  /\ \E t \in Texts, d \in DeletedChars :
       e = [lines |-> [i \in DOMAIN t |-> LineOf(t, i)],
            cur |-> 1, position |-> 1, point |-> 0,
            scr_horz |-> 0, scr_vert |-> 0, scr_pos |-> 0, absolute_lin |-> 1,
            text_changes |-> FALSE, overrun |-> FALSE,
            d_char |-> d, d_word |-> <<>>, d_line |-> [set |-> FALSE, s |-> <<>>]]
  /\ todo = <<>>
  /\ keys = MaxKeys
  /\ key = [op |-> "none", n |-> 0]
  /\ loaded = TextOf(e.lines)
  /\ jumped = FALSE

-----------------------------------------------------------------------------
(* The current line.                                                       *)

curr_line(b) == b.lines[b.cur]
Length(b)    == line_length(curr_line(b))
Lines(b)     == Len(b.lines)

SetLine(b, l) == [b EXCEPT !.lines[b.cur] = l]

\* point = resiz_line(factor, curr_line, position)
resiz_line(b, factor) ==
  [SetLine(b, [curr_line(b) EXCEPT !.max = @ + factor]) EXCEPT !.point = b.position - 1]

-----------------------------------------------------------------------------
(* Moving.                                                                 *)

\* left and right within the line, as often as it takes to be at p.
MoveTo(b, p) ==
  IF p = b.position THEN b
  ELSE LET h == scanline(curr_line(b).s, p)
       IN [b EXCEPT !.position = p, !.point = p - 1, !.scr_horz = h, !.scr_pos = h]

\* Mutant: the line is not counted.
nextline_NotCounted(b) ==
  [b EXCEPT !.cur = @ + 1, !.point = 0, !.position = 1,
            !.scr_vert = IF @ = LastLine THEN @ ELSE @ + 1]

nextline(b) ==
  [b EXCEPT !.cur = @ + 1, !.absolute_lin = @ + 1, !.point = 0, !.position = 1,
            !.scr_vert = IF @ = LastLine THEN @ ELSE @ + 1]

\* Mutant: the row goes up even from the top of the window.
prevline_NoTop(b) ==
  LET n == line_length(b.lines[b.cur - 1])
  IN [b EXCEPT !.cur = @ - 1, !.absolute_lin = @ - 1, !.point = n - 1,
               !.position = n, !.scr_vert = @ - 1]

prevline(b) ==
  LET n == line_length(b.lines[b.cur - 1])
  IN [b EXCEPT !.cur = @ - 1, !.absolute_lin = @ - 1, !.point = n - 1,
               !.position = n, !.scr_vert = IF @ = 0 THEN 0 ELSE @ - 1]

left(b, disp) ==
  CASE b.point # 0             -> MoveTo(b, b.position - 1)
    [] b.point = 0 /\ b.cur = 1 -> b
    [] OTHER ->
         IF disp
         THEN LET c == prevline(b)
                  h == scanline(curr_line(c).s, c.point + 1)
              IN [c EXCEPT !.scr_horz = h, !.scr_pos = h]
         ELSE LET n == line_length(b.lines[b.cur - 1])
              IN [b EXCEPT !.cur = @ - 1, !.absolute_lin = @ - 1,
                           !.point = n, !.position = n]

right(b, disp) ==
  CASE b.position < Length(b)                       -> MoveTo(b, b.position + 1)
    [] b.position >= Length(b) /\ b.cur = Lines(b)    -> b
    [] OTHER ->
         IF disp
         THEN [nextline(b) EXCEPT !.scr_horz = 0, !.scr_pos = 0]
         ELSE [b EXCEPT !.cur = @ + 1, !.absolute_lin = @ + 1, !.point = 0, !.position = 1]

\* find_pos starts from point, which up and nextline have put at the start.
find_pos(b) ==
  LET s == curr_line(b).s
      p == find_column(s, b.scr_pos)
  IN [b EXCEPT !.position = p, !.point = @ + p - 1, !.scr_horz = FoundColumn(s, p)]

\* Mutant: point is left at the end of the line.
up_PointAtEnd(b) == IF b.cur = 1 THEN b ELSE find_pos(prevline(b))

up(b)   == IF b.cur = 1 THEN b ELSE find_pos([prevline(b) EXCEPT !.point = 0])
down(b) == IF b.cur = Lines(b) THEN b ELSE find_pos(nextline(b))

\* midscreen(line, point), with the cursor at the start of line n.
midscreen(b, n, line) ==
  [b EXCEPT !.cur = n, !.position = 1, !.point = 0,
            !.scr_vert = Min({line, LastLine, n - 1}), !.scr_horz = 0]

bottom(b) ==
  [midscreen(b, Lines(b), LastLine) EXCEPT !.absolute_lin = @ + Lines(b) - b.cur, !.scr_pos = 0]

top(b) ==
  [midscreen(b, 1, 0) EXCEPT !.absolute_lin = @ - (b.cur - 1), !.scr_pos = 0]

adv_word(b) == MoveTo(b, NextWord(curr_line(b).s, b.position))

eol(b) ==
  LET c == IF b.position < Length(b) THEN b ELSE right(b, TRUE)
  IN IF b.position >= Length(b) /\ b.cur = Lines(b) THEN b ELSE MoveTo(c, Length(c))

bol(b) ==
  IF b.point # 0 THEN MoveTo(b, 1)
  ELSE IF b.cur > 1 THEN up([b EXCEPT !.scr_pos = 0]) ELSE b

adv_line(b) ==
  IF b.point # 0 \/ b.scr_pos > 0 THEN right(MoveTo(b, Length(b)), TRUE)
  ELSE IF b.cur < Lines(b) THEN down([b EXCEPT !.scr_pos = 0]) ELSE b

\* k calls of up or down with scr_pos = 0.
Ups(b, k) ==
  IF k <= 0 THEN b
  ELSE [b EXCEPT !.cur = @ - k, !.absolute_lin = @ - k, !.position = 1, !.point = 0,
                 !.scr_horz = 0, !.scr_vert = Max({@ - k, 0})]
Downs(b, k) ==
  IF k <= 0 THEN b
  ELSE [b EXCEPT !.cur = @ + k, !.absolute_lin = @ + k, !.position = 1, !.point = 0,
                 !.scr_horz = 0, !.scr_vert = Min({@ + k, LastLine})]

\* Both directions end by showing LookAhead more lines in that direction:
\* they move there and put cursor, line and row back.
move_up(b, lines) ==
  LET c == Ups([MoveTo(b, 1) EXCEPT !.scr_pos = 0], Min({lines, b.cur - 1}))
      i == Min({LookAhead, c.cur - 1})
  IN IF LastLine > LookAhead /\ c.scr_vert < LookAhead - 1
     THEN [c EXCEPT !.scr_vert = Ups(c, i).scr_vert + i,
                    !.scr_horz = scanline(curr_line(c).s, c.point + 1)]
     ELSE c

move_down(b, lines) ==
  LET a == IF b.position # 1 /\ b.cur < Lines(b)
           THEN [nextline(b) EXCEPT !.scr_pos = 0, !.scr_horz = 0] ELSE adv_line(b)
      c == Downs(a, Min({lines - 1, Lines(a) - a.cur}))
      i == Min({LookAhead, Lines(c) - c.cur})
  IN IF LastLine > 2 * LookAhead /\ c.scr_vert > LastLine - LookAhead
     THEN [c EXCEPT !.scr_vert = Downs(c, i).scr_vert - i,
                    !.scr_horz = scanline(curr_line(c).s, c.point + 1)]
     ELSE c

Page == Max({LookAhead, LastLine - LookAhead})
-----------------------------------------------------------------------------
(* Editing.                                                                *)

insert_line(b, disp) ==
  LET l    == curr_line(b)
      rest == SubSeq(l.s, b.position, Len(l.s) - 1)
      new  == [s |-> Append(rest, "nul"), max |-> NodeMax(Len(rest)), no |-> l.no + 1]
      old  == [l EXCEPT !.s = Append(SubSeq(@, 1, b.position - 1), "nul"),
                        !.max = @ - Len(rest)]
      c    == [b EXCEPT !.lines = Inserted([@ EXCEPT ![b.cur] = old], b.cur + 1, new),
                        !.cur = @ + 1, !.absolute_lin = @ + 1, !.position = 1,
                        !.point = 0, !.text_changes = TRUE]
  IN IF disp THEN [c EXCEPT !.scr_vert = IF @ < LastLine THEN @ + 1 ELSE @,
                            !.scr_horz = 0, !.scr_pos = 0]
             ELSE c

\* The byte goes in at point; the bytes from there up to and including the one
\* behind the NUL are shifted.  overrun: a byte was written outside the line.
PutChar(b, ch) ==
  LET l0 == curr_line(b)
      a  == IF l0.max - Len(l0.s) < LineSlack THEN resiz_line(b, LineChunk) ELSE b
      l  == curr_line(a)
      h  == a.scr_horz + len_char(ch, a.scr_horz)
  IN [SetLine(a, [l EXCEPT !.s = Inserted(@, a.point + 1, ch)])
        EXCEPT !.text_changes = TRUE, !.scr_horz = h, !.scr_pos = h,
               !.point = @ + 1, !.position = @ + 1,
               !.overrun = @ \/ Len(l.s) + 1 >= l.max]

\* insert beyond the right margin breaks the line before the word, if it is
\* not the first one.
Wrap(b) ==
  LET q == WrapAt(curr_line(b).s, b.position, RightMargin)
  IN IF RightMargin >= b.scr_pos THEN b
     ELSE IF q = 1 THEN MoveTo(MoveTo(b, 1), b.position)
     ELSE MoveTo(insert_line(MoveTo(b, q), TRUE), 1 + b.position - q)

insert(b, ch) == Wrap(PutChar(b, ch))

\* Mutant: every character is taken to be one column wide.
DeleteColumn_One(b, ch) == b.scr_horz - 1

\* The column once ch, the character before the cursor, is deleted.
DeleteColumn(b, ch) ==
  IF ch \in {"tab", "ctl", "del", "nul"} THEN scanline(curr_line(b).s, b.point)
                                         ELSE b.scr_horz - 1

\* delete: the character before the cursor, or the line's beginning.  save is
\* the test in == 8.
delete(b, disp, save) ==
  IF b.point # 0
  THEN LET l  == curr_line(b)
           ch == l.s[b.point]
           c  == SetLine(b, [l EXCEPT !.s = Removed(@, b.point)])
           h  == DeleteColumn(b, ch)
       IN [c EXCEPT !.text_changes = TRUE, !.point = @ - 1, !.position = @ - 1,
                    !.scr_horz = h, !.scr_pos = h,
                    !.d_char = IF save THEN <<ch>> ELSE @]
  ELSE IF b.cur = 1 THEN b
  ELSE LET a    == left(b, disp)
           next == a.lines[a.cur + 1]
           c    == resiz_line(a, Len(next.s))
           l    == curr_line(c)
       IN [c EXCEPT !.lines = Removed([@ EXCEPT ![c.cur] = [l EXCEPT !.s = Content(l) \o next.s]],
                                       c.cur + 1),
                    !.text_changes = TRUE, !.scr_pos = c.scr_horz,
                    !.d_char = IF save THEN <<"nl">> ELSE @]

\* Mutant: at the end of a line the cursor is not moved to the next one.
del_char_Stays(b) ==
  IF b.position < Length(b)
  THEN delete([b EXCEPT !.position = @ + 1, !.point = @ + 1,
                        !.scr_horz = scanline(curr_line(b).s, b.position + 1)], TRUE, TRUE)
  ELSE delete(b, TRUE, TRUE)

del_char(b) ==
  IF b.position < Length(b)
  THEN delete([b EXCEPT !.position = @ + 1, !.point = @ + 1,
                        !.scr_horz = scanline(curr_line(b).s, b.position + 1)], TRUE, TRUE)
  ELSE delete(right(b, TRUE), TRUE, TRUE)

\* Mutant: the change is not noted.
del_word_Unnoted(b) ==
  LET l == curr_line(b)
      q == NextWord(l.s, b.position)
  IN [SetLine(b, [l EXCEPT !.s = SubSeq(@, 1, b.position - 1) \o SubSeq(@, q, Len(@))])
        EXCEPT !.d_word = SubSeq(l.s, b.position, q - 1)]

del_word(b) ==
  LET l == curr_line(b)
      q == NextWord(l.s, b.position)
  IN [SetLine(b, [l EXCEPT !.s = SubSeq(@, 1, b.position - 1) \o SubSeq(@, q, Len(@))])
        EXCEPT !.d_word = SubSeq(l.s, b.position, q - 1), !.text_changes = TRUE]

\* text_changes is not set.
undel_word(b) ==
  LET l == curr_line(b)
      d == Len(b.d_word)
      a == IF l.max - (Len(l.s) + d) < LineSlack THEN resiz_line(b, d) ELSE b
  IN SetLine(a, [curr_line(a) EXCEPT
                   !.s = SubSeq(@, 1, b.position - 1) \o b.d_word \o SubSeq(@, b.position, Len(@))])

del_line(b) ==
  LET l == curr_line(b)
      c == [SetLine(b, [l EXCEPT !.s = Append(SubSeq(@, 1, b.position - 1), "nul")])
              EXCEPT !.d_line = [set |-> TRUE, s |-> SubSeq(l.s, b.position, Len(l.s) - 1)],
                     !.text_changes = TRUE]
  IN IF b.cur < Lines(b) THEN delete(right(c, FALSE), FALSE, FALSE) ELSE c

\* Mutant: the line is resized by two bytes too few.
undel_line_Short(b) ==
  LET a == left(insert_line(b, TRUE), TRUE)
      c == resiz_line(a, Len(b.d_line.s) - 1)
      l == curr_line(c)
  IN IF ~b.d_line.set THEN b
     ELSE SetLine(c, [l EXCEPT !.s = Content(l) \o Append(b.d_line.s, "nul")])

undel_line(b) ==
  LET a == left(insert_line(b, TRUE), TRUE)
      c == resiz_line(a, Len(b.d_line.s) + 1)
      l == curr_line(c)
  IN IF ~b.d_line.set THEN b
     ELSE SetLine(c, [l EXCEPT !.s = Content(l) \o Append(b.d_line.s, "nul")])

-----------------------------------------------------------------------------
(* Going to a line and searching.                                          *)

\* t_line goes up while its number is too large, then down while it is too
\* small; i counts both.
GotoTarget(b, number) ==
  LET top1 == Max({q \in 1..b.cur : q = 1 \/ b.lines[q].no <= number})
      t    == Min({q \in top1..Lines(b) : q = Lines(b) \/ b.lines[q].no >= number})
  IN [line |-> t, down |-> t > top1, i |-> (b.cur - top1) + (t - top1)]

\* Mutant: one line too far down.
goto_line_Further(b, number) ==
  LET t == GotoTarget(b, number)
  IN IF t.i < Far /\ t.i > 0
     THEN IF t.down THEN move_down(b, t.i + 1) ELSE move_up(b, t.i)
     ELSE [midscreen(b, t.line, LastLine \div 2)
             EXCEPT !.absolute_lin = IF t.down THEN @ - t.i ELSE @ + t.i, !.scr_pos = 0]

goto_line(b, number) ==
  LET t == GotoTarget(b, number)
  IN IF t.i < Far /\ t.i > 0
     THEN IF t.down THEN move_down(b, t.i) ELSE move_up(b, t.i)
     ELSE [midscreen(b, t.line, LastLine \div 2)
             EXCEPT !.absolute_lin = IF t.down THEN @ - t.i ELSE @ + t.i, !.scr_pos = 0]

\* The matches behind the cursor, and the first of them.
Matches(b, pat) ==
  {m \in UNION {{i} \X (1..Len(b.lines[i].s)) : i \in b.cur..Lines(b)} :
     /\ MatchAt(b.lines[m[1]].s, m[2], pat)
     /\ m[1] = b.cur => m[2] > b.position}

search(b, pat) ==
  LET line == Min({m[1] : m \in Matches(b, pat)})
      iter == Min({m[2] : m \in {x \in Matches(b, pat) : x[1] = line}})
      h    == scanline(b.lines[line].s, iter)
      moved == line - b.cur
  IN CASE pat = <<>> \/ Matches(b, pat) = {} -> b
       [] OTHER ->
            IF moved = 0 THEN MoveTo(b, iter)
            ELSE IF moved < Far THEN MoveTo(move_down(b, moved), iter)
            ELSE [midscreen(b, line, LastLine \div 2)
                    EXCEPT !.absolute_lin = @ + moved, !.position = iter, !.point = iter - 1,
                           !.scr_horz = h, !.scr_pos = h]
-----------------------------------------------------------------------------
(* One action for each key handler.                                        *)

Press(k, n) ==
  /\ todo = <<>>
  /\ keys > 0
  /\ keys' = keys - 1
  /\ key' = [op |-> k, n |-> n]

\* A handler that does nothing but change the globals.
Do(k, b) == Press(k, 0) /\ e' = b /\ UNCHANGED <<todo, loaded, jumped>>

Left    == Do("left", left(e, TRUE))
Right   == Do("right", right(e, TRUE))
Up      == Do("up", up(e))
Down    == Do("down", down(e))
Bol     == Do("bol", bol(e))
Eol     == Do("eol", eol(e))
Top     == Do("top", top(e))
Bottom  == Do("bottom", bottom(e))
AdvWord == Do("adv_word", adv_word(e))
AdvLine == Do("adv_line", adv_line(e))
PageUp   == Do("prev page", move_up(e, Page))
PageDown == Do("next page", move_down(e, Page))
Search   == \E pat \in Patterns : Do("search", search(e, pat))

GotoLine ==
  /\ \E n \in LineNumbers :
       /\ Press("goto", n)
       /\ e' = goto_line(e, n)
       /\ jumped' = (jumped \/ GotoTarget(e, n).i >= Far)
  /\ UNCHANGED <<todo, loaded>>

\* The command RESEQUENCE.
Resequence ==
  Do("resequence", [e EXCEPT !.lines = [i \in DOMAIN @ |-> [@[i] EXCEPT !.no = e.lines[1].no + i - 1]]])

\* main turns ^H and DEL into 8; KEY_BACKSPACE keeps its own code.
Backspace    == Do("backspace", delete(e, TRUE, TRUE))
BackspaceKey == Do("backspace key", delete(e, TRUE, FALSE))

NewLine       == Do("newline", insert_line(e, TRUE))
InsertLineKey == Do("insert line key", left(insert_line(e, TRUE), TRUE))
DelChar       == Do("del_char", del_char(e))
DelWord       == Do("del_word", del_word(e))
UndelWord     == Do("undel_word", undel_word(e))
DelLine       == Do("del_line", del_line(e))
UndelLine     == Do("undel_line", undel_line(e))

\* A key, or the character whose code was given to ^a (^o with emacs keys).
Type ==
  /\ Press("type", 0)
  /\ \E ch \in Typed : todo' = <<ch>>
  /\ UNCHANGED <<e, loaded, jumped>>

UndelChar ==
  /\ Press("undel_char", 0)
  /\ IF e.d_char[1] = "nl" THEN e' = insert_line(e, TRUE) /\ UNCHANGED todo
                           ELSE todo' = e.d_char /\ UNCHANGED e
  /\ UNCHANGED <<loaded, jumped>>

\* insert: a tab is expanded to spaces, which insert passes to itself.
Insert ==
  /\ todo # <<>>
  /\ LET ch == Head(todo)
     IN IF ch = "tab" /\ ExpandTabs
        THEN /\ todo' = [i \in 1..tabshift(e.scr_horz) |-> "sp"] \o Tail(todo)
             /\ UNCHANGED e
        ELSE /\ e' = insert(e, ch)
             /\ todo' = Tail(todo)
  /\ UNCHANGED <<keys, key, loaded, jumped>>

Motion == Left \/ Right \/ Up \/ Down \/ Bol \/ Eol \/ Top \/ Bottom \/ AdvWord
            \/ AdvLine \/ PageUp \/ PageDown \/ Search \/ GotoLine \/ Resequence

Edit == Backspace \/ BackspaceKey \/ NewLine \/ InsertLineKey \/ DelChar \/ DelWord
          \/ DelLine \/ UndelChar \/ UndelWord \/ UndelLine \/ Type \/ Insert

Next == Motion \/ Edit

Spec == Init /\ [][Next]_vars
-----------------------------------------------------------------------------
(* Properties.                                                             *)

StructText == [s : Seq(Byte), max : Int, no : Int]

\* Every global keeps its type.
TypeOK ==
  /\ e.lines \in Seq(StructText) /\ e.lines # <<>>
  /\ e.cur \in 1..Len(e.lines)
  /\ e.position \in Nat /\ e.point \in Nat
  /\ e.scr_horz \in Int /\ e.scr_vert \in Int /\ e.scr_pos \in Int
  /\ e.absolute_lin \in Int
  /\ e.text_changes \in BOOLEAN /\ e.overrun \in BOOLEAN
  /\ Len(e.d_char) \in 1..2
  /\ keys \in 0..MaxKeys

\* No line holds more bytes than were allocated for it, and insert, which
\* shifts one byte more than the line has, stays inside too.
BufferFits ==
  /\ \A i \in DOMAIN e.lines : line_length(e.lines[i]) <= e.lines[i].max
  /\ ~e.overrun

\* point and position, which the handlers update side by side, name the same
\* byte of the current line (ee.c:144 and ee.c:189).
PointAtPosition ==
  /\ e.point = e.position - 1
  /\ e.position \in 1..Length(e)

\* scr_horz is the column of the cursor (ee.c:147), in texts without DEL, which
\* find_pos takes to be one column wide.
CursorColumn == e.scr_horz = scanline(curr_line(e).s, e.position)

\* The cursor is on a row of the window, and the rows above it are lines.
RowOnScreen == e.scr_vert \in 0..LastLine /\ e.scr_vert < e.cur

\* absolute_lin counts the lines from the top (ee.c:148), as long as goto_line
\* has not gone Far lines: then it adds the distance going up and subtracts it
\* going down (ee.c:2015).
AbsoluteLine == ~jumped => e.absolute_lin = e.cur

\* Text that differs from the file's is known to (ee.c:160).
ChangesNoticed == TextOf(e.lines) # loaded => e.text_changes

\* As long as the lines' numbers are in sequence, as they are after reading a
\* file and after RESEQUENCE, goto_line goes to the line with that number, to
\* the first for a smaller and to the last for a greater one.
GotoNumbered ==
  [][(key'.op = "goto" /\ keys' # keys /\ \A i \in DOMAIN e.lines : e.lines[i].no = i) =>
       e'.cur = Max({1, Min({key'.n, Lines(e)})})]_vars
=============================================================================
