------------------------------ MODULE EeFormat ------------------------------
(* ee's paragraph formatting: Format, the menu's "format paragraph", and     *)
(* Auto_Format, which insert calls after a blank in autoformat mode.  Both   *)
(* work on the text with the key handlers of EeBuffer.                       *)
(*                                                                           *)
(* The locals of the two functions are one record, f; each iteration of one  *)
(* of their loops is a step, so that a loop that does not end is a behaviour *)
(* that does not.  Margins are observed and tabs not expanded.  The cursor   *)
(* may start anywhere in a text, as motions can put it anywhere.             *)
EXTENDS EeEdits

ASSUME FormatAssumption == ~ExpandTabs

VARIABLES f,           \* where the formatter is, and its locals
          auto_format, \* the mode
          formatted,   \* the paragraph has been formatted since it was changed
          d_wrd_len,   \* the length del_word noted, which undel_word goes by
          before       \* the editor's globals when formatting began

fvars == <<f, auto_format, formatted, d_wrd_len, before>>

Idle == [at |-> "idle", auto |-> FALSE, offset |-> 0, word |-> <<>>, line |-> <<0, 0>>,
         count |-> 0, status |-> TRUE, counter |-> 0, not_blank |-> FALSE, dwl |-> 0,
         turn |-> FALSE]

FInit ==
  /\ Init
  /\ f = Idle /\ formatted = FALSE /\ d_wrd_len = 0
  /\ auto_format \in BOOLEAN
  /\ before = e

\* Main's session, with the cursor where motions have put it.
Placed ==
  /\ keys = MaxKeys /\ key.op = "none" /\ f = Idle
  /\ \E n \in DOMAIN e.lines : \E p \in 1..line_length(e.lines[n]) :
       LET b == Downs([e EXCEPT !.scr_pos = 0], n - e.cur)
       IN e' = MoveTo(b, p)
  /\ key' = [op |-> "placed", n |-> 0]
  /\ before' = e'
  /\ UNCHANGED <<todo, keys, loaded, jumped, f, auto_format, formatted, d_wrd_len>>
-----------------------------------------------------------------------------
(* Paragraphs and words.                                                   *)

At(b) == curr_line(b).s[b.point + 1]
Behind(b) == IF b.point + 2 <= Length(b) THEN curr_line(b).s[b.point + 2] ELSE "nul"

\* Blank_Line: no line, one of blanks, or one that begins with '.' or '>'.
Blank_Line(b, n) ==
  IF n \notin DOMAIN b.lines THEN TRUE
  ELSE LET s == b.lines[n].s
       IN s[1] \in {".", ">"} \/ \A p \in 1..(Len(s) - 1) : Blank(s[p])

prev_word(b) ==
  IF b.position = 1 THEN left(b, TRUE) ELSE MoveTo(b, PrevWord(curr_line(b).s, b.position))

first_word_len(b, n) ==
  IF n \notin DOMAIN b.lines \/ Blank_Line(b, n) THEN 0
  ELSE LET s == b.lines[n].s
           p == IF Blank(s[1]) THEN NextWord(s, 1) ELSE 1
       IN NextWord(s, p) - p

\* if (position != 1) bol();
Start(b) == IF b.position # 1 THEN bol(b) ELSE b

\* k calls of bol at the start of a line.
Bols(b, k) == IF k <= 0 THEN b ELSE Ups([b EXCEPT !.scr_pos = 0], Min({k, b.cur - 1}))

\* while (!Blank_Line(curr_line->prev_line)) bol();
Climb(b) ==
  LET first == Max({q \in 1..b.cur : Blank_Line(b, q - 1)})
  IN Bols(b, b.cur - first)

\* insert(' '), with margins observed or not.
PutSpace(b, observ_margins) == IF observ_margins THEN insert(b, "sp") ELSE PutChar(b, "sp")

\* A space at the end of the line, unless there is one.
SpaceAtEnd(b, observ_margins) ==
  LET c == left(b, TRUE)
  IN IF At(c) # "sp" THEN PutSpace(right(c, TRUE), observ_margins) ELSE right(c, TRUE)
-----------------------------------------------------------------------------
(* The steps both have in common.                                          *)

Go(where) == [f EXCEPT !.at = where]

\* Once more around a loop; turn makes that a step even if nothing changes.
Again == [f EXCEPT !.turn = ~@]
Same == UNCHANGED <<todo, keys, key, loaded, jumped, auto_format, before>>

\* The word the cursor is in or behind and the cursor's offset in it; then to
\* the start of the paragraph.
Begin(b, auto) ==
  LET away == IF auto THEN Blank(At(b)) \/ b.position = Length(b) ELSE TRUE
      c    == IF b.position # 1 /\ away THEN prev_word(b) ELSE b
      d    == IF Blank(At(c)) THEN adv_word(c) ELSE c
      s    == curr_line(d).s
      word == SubSeq(s, d.position, WordEnd(s, d.position) - 1)
  IN IF Blank_Line(b, b.cur) THEN f' = Idle /\ e' = b
     ELSE /\ f' = [Idle EXCEPT !.at = "count", !.auto = auto, !.word = word,
                               !.offset = b.position - d.position, !.line = <<d.cur, d.point>>,
                               !.dwl = d_wrd_len]
          /\ e' = Climb(Start(d))

\* Which occurrence of the word it is.
Count ==
  /\ f.at = "count" /\ Same /\ UNCHANGED <<formatted, d_wrd_len>>
  /\ IF <<e.cur, e.point>> = f.line \/ ~f.status
     THEN /\ f' = Go(IF f.auto THEN "fill" ELSE "join")
          /\ e' = Climb(Start(e))
     ELSE /\ e' = search(e, f.word)
          /\ f' = [f EXCEPT !.count = @ + 1, !.status = f.word # <<>> /\ Matches(e, f.word) # {}]

\* Back to that occurrence.  Only Auto_Format looks at what search returns.
Find ==
  /\ f.at = "find" /\ Same /\ UNCHANGED <<formatted, d_wrd_len>>
  /\ IF f.status /\ f.count > 0
     THEN /\ e' = search(e, f.word)
          /\ f' = [f EXCEPT !.count = @ - 1,
                            !.status = f.auto => f.word # <<>> /\ Matches(e, f.word) # {}]
     ELSE f' = Go("advance") /\ UNCHANGED e

\* Mutant: the offset is not counted down.
Advance_Uncounted ==
  /\ f.at = "advance" /\ f.offset # 0 /\ (f.offset < 0 => f.auto /\ f.count > 0)
  /\ f' = Again
  /\ e' = IF f.offset > 0 THEN right(e, TRUE) ELSE left(e, TRUE)
  /\ Same /\ UNCHANGED <<formatted, d_wrd_len>>

\* Forward to the cursor's place in it, one column a step, or backward.
Advance ==
  /\ f.at = "advance" /\ f.offset # 0 /\ (f.offset < 0 => f.auto /\ f.count > 0)
  /\ f' = [f EXCEPT !.offset = IF @ > 0 THEN @ - 1 ELSE @ + 1]
  /\ e' = IF f.offset > 0 THEN right(e, TRUE) ELSE left(e, TRUE)
  /\ Same /\ UNCHANGED <<formatted, d_wrd_len>>

\* The deleted word, character and line are what they were; the word's length
\* only after Auto_Format.
Done ==
  /\ f.at = "advance" /\ (f.offset = 0 \/ (f.offset < 0 /\ ~(f.auto /\ f.count > 0)))
  /\ f' = Idle
  /\ e' = [e EXCEPT !.d_word = before.d_word, !.d_char = before.d_char,
                    !.d_line = IF f.auto THEN before.d_line ELSE @]
  /\ formatted' = (formatted \/ f.auto)
  /\ d_wrd_len' = IF f.auto THEN f.dwl ELSE d_wrd_len
  /\ Same
-----------------------------------------------------------------------------
(* Format.                                                                 *)

\* Mutant: no space is put between the lines.
JoinLine_NoSpace(b) == del_char(eol(b))

\* The next line is joined to this one, with one space between them.
JoinLine(b) == del_char(SpaceAtEnd(eol(b), FALSE))

Join ==
  /\ f.at = "join" /\ ~Blank_Line(e, e.cur + 1) /\ Same
  /\ LET b == JoinLine(e)
     IN IF Blank(At(b)) THEN e' = del_word(b) /\ d_wrd_len' = Len(e'.d_word)
                        ELSE e' = b /\ UNCHANGED d_wrd_len
  /\ formatted' = FALSE
  /\ f' = Again

\* bol is called at the start of the line too, from where it goes up.
Joined ==
  /\ f.at = "join" /\ Blank_Line(e, e.cur + 1) /\ Same
  /\ e' = adv_word(bol(e))
  /\ f' = Go("squeeze")
  /\ UNCHANGED <<formatted, d_wrd_len>>

\* One space of two goes, behind the first word.
Squeeze ==
  /\ f.at = "squeeze" /\ e.position < Length(e) /\ Same
  /\ IF At(e) = "sp" /\ Behind(e) = "sp"
     THEN e' = del_char(e) /\ formatted' = FALSE
     ELSE e' = right(e, TRUE) /\ UNCHANGED formatted
  /\ f' = Again
  /\ UNCHANGED d_wrd_len

Squeezed ==
  /\ f.at = "squeeze" /\ e.position >= Length(e) /\ Same
  /\ e' = bol(e)
  /\ f' = Go("dots")
  /\ UNCHANGED <<formatted, d_wrd_len>>

\* while (*point == ' ') del_char();
DelSpaces(b) ==
  LET s == curr_line(b).s
      k == Min({q \in b.position..Len(s) : s[q] # "sp"}) - b.position
      deleted[i \in 0..k] == IF i = 0 THEN b ELSE del_char(deleted[i - 1])
  IN deleted[k]

\* Two spaces behind a '.'.
Dots ==
  /\ f.at = "dots" /\ e.position < Length(e) /\ Same
  /\ IF At(e) = "." /\ Behind(e) = "sp"
     THEN /\ e' = right(DelSpaces(PutSpace(PutSpace(right(e, TRUE), FALSE), FALSE)), TRUE)
          /\ formatted' = FALSE
     ELSE e' = right(e, TRUE) /\ UNCHANGED formatted
  /\ f' = Again
  /\ UNCHANGED d_wrd_len

Dotted ==
  /\ f.at = "dots" /\ e.position >= Length(e) /\ Same
  /\ e' = bol(e)
  /\ f' = Go("break")
  /\ UNCHANGED <<formatted, d_wrd_len>>

\* The line is broken before the word at the margin, or behind the first word.
BreakLine(b) ==
  LET s == curr_line(b).s
      m == MoveTo(b, Min({q \in b.position..Len(s) : q = Len(s) \/ scanline(s, q) >= RightMargin}))
      w == prev_word(m)
  IN IF m.position >= Length(m) THEN m
     ELSE insert_line(IF w.position = 1 THEN adv_word(w) ELSE w, TRUE)

Break ==
  /\ f.at = "break" /\ e.position < Length(e) /\ Same
  /\ e' = BreakLine(e)
  /\ f' = Again
  /\ UNCHANGED <<formatted, d_wrd_len>>

Broken ==
  /\ f.at = "break" /\ e.position >= Length(e) /\ Same
  /\ e' = Climb(bol(e))
  /\ f' = Go("find")
  /\ UNCHANGED <<formatted, d_wrd_len>>
-----------------------------------------------------------------------------
(* Auto_Format.                                                            *)

Fill ==
  /\ f.at = "fill" /\ Same
  /\ e' = SpaceAtEnd(IF e.position # Length(e) THEN eol(e) ELSE e, TRUE)
  /\ f' = [Go("pull") EXCEPT !.not_blank = FALSE]
  /\ UNCHANGED <<formatted, d_wrd_len>>

Fits == LET w == first_word_len(e, e.cur + 1) IN w > 0 /\ e.scr_pos + w < RightMargin

\* The next line's first word goes to the end of this one, and the line with it
\* if nothing else is left of it.
Pull ==
  /\ f.at = "pull" /\ Fits /\ Same
  /\ LET next  == adv_line(e)
         cut   == del_word(IF Blank(At(next)) THEN adv_word(next) ELSE next)
         rest  == Start(cut)
         empty == Blank_Line(rest, rest.cur) /\ At([rest EXCEPT !.point = 0]) \notin {".", ">"}
         back  == left(IF empty THEN del_line(rest) ELSE rest, TRUE)
     IN /\ e' = SpaceAtEnd(eol(undel_word(back)), TRUE)
        /\ f' = [Again EXCEPT !.not_blank = ~empty]
        /\ d_wrd_len' = Len(cut.d_word)
  /\ formatted' = FALSE

Pulled == f.at = "pull" /\ ~Fits /\ f' = Go("push") /\ Same /\ UNCHANGED <<e, formatted, d_wrd_len>>

\* Mutant: the next line takes the word even if it is of no paragraph.
Push_AnyLine ==
  /\ f.at = "push" /\ RightMargin <= e.scr_pos /\ Same
  /\ LET w    == prev_word(e)
         cut  == del_word(w)
         next == IF cut.cur = Lines(cut) THEN insert_line(cut, TRUE) ELSE adv_line(cut)
         put  == undel_word(IF Blank(At(next)) THEN adv_word(next) ELSE next)
     IN IF w.position = 1 THEN e' = w /\ f' = Again /\ UNCHANGED <<formatted, d_wrd_len>>
        ELSE /\ e' = left(Start(put), TRUE)
             /\ f' = [Again EXCEPT !.not_blank = TRUE]
             /\ formatted' = FALSE /\ d_wrd_len' = Len(cut.d_word)

\* A word beyond the margin goes to the next line, or to one made for it.
Push ==
  /\ f.at = "push" /\ RightMargin <= e.scr_pos /\ Same
  /\ LET w    == prev_word(e)
         cut  == del_word(w)
         next == IF Blank_Line(cut, cut.cur + 1) THEN insert_line(cut, TRUE) ELSE adv_line(cut)
         put  == undel_word(IF Blank(At(next)) THEN adv_word(next) ELSE next)
     IN IF w.position = 1 THEN e' = w /\ f' = Again /\ UNCHANGED <<formatted, d_wrd_len>>
        ELSE /\ e' = left(Start(put), TRUE)
             /\ f' = [Again EXCEPT !.not_blank = TRUE]
             /\ formatted' = FALSE /\ d_wrd_len' = Len(cut.d_word)

\* On to the next line, or back to the first.
Pushed ==
  /\ f.at = "push" /\ RightMargin > e.scr_pos /\ Same
  /\ IF ~Blank_Line(e, e.cur + 1) \/ f.not_blank
     THEN /\ e' = adv_line(e)
          /\ f' = [Go("fill") EXCEPT !.counter = @ + 1]
     ELSE /\ e' = Climb(Bols(Start(e), f.counter))
          /\ f' = [Go("find") EXCEPT !.status = TRUE]
  /\ UNCHANGED <<formatted, d_wrd_len>>
-----------------------------------------------------------------------------
(* Keys.                                                                   *)

FormatKey ==
  /\ f = Idle /\ Press("format", 0)
  /\ Begin(e, FALSE)
  /\ before' = e
  /\ UNCHANGED <<todo, loaded, jumped, auto_format, formatted, d_wrd_len>>

\* insert, which formats after a blank.
InsertKey ==
  /\ f = Idle /\ todo # <<>>
  /\ LET ch == Head(todo)
         b  == insert(e, ch)
     IN /\ IF auto_format /\ ch = "sp" /\ ~formatted THEN Begin(b, TRUE) ELSE e' = b /\ f' = Idle
        /\ before' = b
        /\ formatted' = (formatted /\ Blank(ch))
  /\ todo' = Tail(todo)
  /\ UNCHANGED <<keys, key, loaded, jumped, auto_format, d_wrd_len>>

OtherKey ==
  /\ f = Idle
  /\ \/ Type /\ UNCHANGED <<formatted, d_wrd_len, before>>
     \/ NewLine /\ before' = e' /\ UNCHANGED <<formatted, d_wrd_len>>
     \/ Backspace /\ before' = e' /\ formatted' = FALSE /\ UNCHANGED d_wrd_len
     \/ DelWord /\ before' = e' /\ formatted' = FALSE /\ d_wrd_len' = Len(e'.d_word)
  /\ UNCHANGED <<f, auto_format>>

Formatting == Count \/ Join \/ Joined \/ Squeeze \/ Squeezed \/ Dots \/ Dotted \/ Break \/ Broken
                \/ Fill \/ Pull \/ Pulled \/ Push \/ Pushed \/ Find \/ Advance \/ Done

FNext == Placed \/ FormatKey \/ InsertKey \/ OtherKey \/ Formatting

\* The formatter runs on: weak fairness of Formatting, which is enabled just
\* when f # Idle.
Running == []<>(f = Idle) \/ []<><<Formatting>>_<<vars, fvars>>

FSpec == FInit /\ [][FNext]_<<vars, fvars>> /\ Running
-----------------------------------------------------------------------------
(* Properties.                                                             *)

Space(c) == c \in {"sp", "tab", "nl"}

\* The words of a text, each with one space behind it.
Words(t) ==
  LET u == Append(t, "sp")
      kept == {i \in DOMAIN u : ~Space(u[i]) \/ (i > 1 /\ ~Space(u[i - 1]))}
  IN [k \in 1..Cardinality(kept) |->
        LET i == CHOOSE j \in kept : Cardinality({m \in kept : m <= j}) = k
        IN IF Space(u[i]) THEN "sp" ELSE u[i]]

\* However words are moved about by way of the deleted word, when formatting is
\* done every word of the text is there again, once, whole and in its place:
\* nothing but the space between words has changed (ee.1:404).
WordsKept == f = Idle => Words(Flat(e)) = Words(Flat(before))

\* Every loop of the two formatters comes to an end, so that the editor comes
\* back to read the next key.
FormatEnds == []<>(f = Idle)

\* The lines of the paragraph the cursor is in.
Paragraph(b) ==
  Max({q \in 1..b.cur : Blank_Line(b, q - 1)})..Min({q \in b.cur..Lines(b) : Blank_Line(b, q + 1)})

\* The column behind the last character of a line that is not blank.
Width(s) == scanline(s, Max({0} \cup {i \in 1..(Len(s) - 1) : ~Blank(s[i])}) + 1)
OneWord(s) ==
  \A i, j, k \in 1..(Len(s) - 1) : i < j /\ j < k /\ Blank(s[j]) => Blank(s[i]) \/ Blank(s[k])

\* Automatic formatting: "ee will make sure the entire paragraph fits within the
\* width of the terminal every time the user inserts a space" (ee.1:304), save
\* for a word that is wider; and what is not of the paragraph stays as it is.
\* (A word with a '.' or '>' in front that comes to begin a line ends the
\* paragraph, as it would in a file.)
ParagraphFits ==
  [][(f.auto /\ f' = Idle) =>
       LET p    == Paragraph(before)
           rest == SubSeq(TextOf(before.lines), Max(p) + 1, Lines(before))
       IN /\ IsPrefix(SubSeq(TextOf(before.lines), 1, Min(p) - 1), TextOf(e'.lines))
          /\ IsSuffix(rest, TextOf(e'.lines))
          /\ \A i \in Min(p)..(Lines(e') - Len(rest)) :
               \/ \E q \in Min(p)..i : e'.lines[q].s[1] \in {".", ">"}
               \/ Width(e'.lines[i].s) <= RightMargin
               \/ OneWord(e'.lines[i].s)]_<<vars, fvars>>
=============================================================================
