------------------------------- MODULE EeText -------------------------------
(***************************************************************************)
(* The lines of ee's text and the helpers that measure them.               *)
(*                                                                         *)
(* struct text is a record: the bytes of the line, its terminating NUL     *)
(* included, so that their number is line_length; the space allocated for  *)
(* them; and the line number.  The doubly linked list is a sequence.       *)
(*                                                                         *)
(* Bytes stand for the classes the code tells apart: "sp" and "tab" end    *)
(* words, "ctl" (0..31) takes two columns, "del" (127) takes two in        *)
(* scanline and one in find_pos, "nul" is NUL and every other byte is a    *)
(* printing character.  16-bit characters (ee_chinese, off by default) are *)
(* not modelled, and eightbit has its default.                             *)
(***************************************************************************)
EXTENDS Integers, Sequences, FiniteSetsExt

CONSTANTS TabWidth,   \* 8 in tabshift
          LineChunk,  \* 10: what malloc and resiz_line add to a line
          LineSlack   \* 5: a line with less room is resized

ASSUME LineAssumption ==
  /\ TabWidth \in Nat \ {0}
  /\ LineSlack \in Nat /\ LineChunk \in Nat
  /\ 2 <= LineSlack /\ LineSlack <= LineChunk

\* The bytes that the handlers tell apart, and the others.
Byte == {"sp", "tab", "ctl", "del", "nul", "nl"} \cup STRING

Blank(b) == b \in {"sp", "tab"}

line_length(l) == Len(l.s)

\* The characters of a line.
Content(l) == SubSeq(l.s, 1, Len(l.s) - 1)

tabshift(col) ==
  LET leftover == (col + 1) % TabWidth
  IN IF leftover = 0 THEN 1 ELSE TabWidth + 1 - leftover

len_char(b, col) ==
  CASE b = "tab"                 -> tabshift(col)
    [] b \in {"ctl", "del", "nul"} -> 2
    [] OTHER                     -> 1

\* s with c put in at p, and s without its p-th byte: the shifts of insert and
\* delete, of the bytes of a line and of the lines.
Inserted(s, p, c) == SubSeq(s, 1, p - 1) \o <<c>> \o SubSeq(s, p, Len(s))
Removed(s, p)     == SubSeq(s, 1, p - 1) \o SubSeq(s, p + 1, Len(s))

\* The column of the p-th byte, as scanline counts it.
scanline(s, p) ==
  LET col[i \in 1..p] == IF i = 1 THEN 0
                         ELSE col[i - 1] + len_char(s[i - 1], col[i - 1])
  IN col[p]

\* ... and as find_pos counts it: a DEL is one column wide.
FoundColumn(s, p) ==
  LET col[i \in 1..p] ==
        IF i = 1 THEN 0
        ELSE col[i - 1] + (IF s[i - 1] = "del" THEN 1 ELSE len_char(s[i - 1], col[i - 1]))
  IN col[p]

\* The loop of find_pos: the first position at or beyond column scr_pos.
find_column(s, scr_pos) ==
  Min({p \in 1..Len(s) : p = Len(s) \/ FoundColumn(s, p) >= scr_pos})

\* Back to a blank, or to a byte that is none, or to the start of the line.
BackToBlank(s, p) == Max({q \in 1..p : q = 1 \/ Blank(s[q])})
BackToWord(s, p)  == Max({q \in 1..p : q = 1 \/ ~Blank(s[q])})

\* Where prev_word goes within a line.  Having gone back to a blank it steps
\* forward again, but not from the start of the line.
PrevWord(s, p) ==
  LET start == IF Blank(s[p - 1]) THEN BackToBlank(s, p) ELSE p
      stop  == BackToBlank(s, BackToWord(s, start))
  IN IF stop # 1 /\ Blank(s[stop]) THEN stop + 1 ELSE stop

\* insert's loop of prev_word calls: the last word start within the margin, or
\* the start of the line, where PrevWord goes from a word at 2 and from the
\* first word.
WrapAt(s, p, margin) ==
  Max({1} \cup {q \in 3..(p - 1) : /\ ~Blank(s[q]) /\ Blank(s[q - 1])
                                   /\ scanline(s, q) <= margin})

\* Past the rest of the word at p, and past the blanks behind it.
WordEnd(s, p)  == Min({q \in p..Len(s) : q = Len(s) \/ Blank(s[q])})
NextWord(s, p) ==
  LET w == WordEnd(s, p) IN Min({q \in w..Len(s) : q = Len(s) \/ ~Blank(s[q])})

\* The space insert_line's loop allocates for k characters: it starts with
\* one chunk and adds another whenever less than LineSlack is left.
NodeMax(k) == LineChunk * ((k + LineSlack + LineChunk - 1) \div LineChunk)

\* pat stands in s at p.
MatchAt(s, p, pat) == /\ p + Len(pat) <= Len(s)
                      /\ SubSeq(s, p, p + Len(pat) - 1) = pat
=============================================================================
