----------------------------- MODULE MCEeFormat -----------------------------
(* Instances of EeFormat for TLC. *)
EXTENDS EeFormat

\* Three lines: blank ones, quoted ones, the end of a sentence, leading and
\* double spaces, and a word longer than the margin.
SomeLines == {<<>>, <<"y", "sp", "sp", "x">>, <<"sp", "z", "y", "z">>, <<">", "x">>,
              <<"z", "y", "x", "y", ".", "sp", "y">>}
Paragraphs == [1..3 -> SomeLines]

\* insert's loop as it stands: while (scr_pos > right_margin) prev_word();
WrapLoop(s, p) ==
  LET at[i \in 0..p] == IF i = 0 THEN p
                        ELSE IF scanline(s, at[i - 1]) <= RightMargin THEN at[i - 1]
                        ELSE PrevWord(s, at[i - 1])
  IN at[p]

\* WrapAt is where that loop ends, in every line of up to five bytes.
ASSUME WrapsWhereLoopEnds ==
  \A n \in 1..5 : \A t \in [1..n -> {"x", "sp", "tab", "ctl"}] :
    LET s == Append(t, "nul")
    IN \A p \in 2..Len(s) : scanline(s, p) > RightMargin => WrapAt(s, p, RightMargin) = WrapLoop(s, p)

NoPatterns == {}
NewLines == {<<"nl">>}
=============================================================================
