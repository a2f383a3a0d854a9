----------------------------- MODULE MCEeBuffer -----------------------------
(* Instances of EeBuffer for TLC. *)
EXTENDS EeEdits

\* Texts of up to three lines with words, blanks and an empty line.
EditTexts == {<< <<>> >>,
              << <<"x", "y">>, <<"sp", "y">>, <<>> >>,
              << <<"x", "sp", "y">>, <<"ctl">> >>}

\* Many short lines, to page and scroll.
LongText == [i \in 1..9 |-> IF i % 3 = 0 THEN <<"x", "y">> ELSE IF i % 3 = 1 THEN <<>> ELSE <<"x">>]
MotionTexts == {LongText, <<<<"tab">>, <<"x", "x">>, <<"y", "sp", "sp", "x">> >>}

SomeTexts == EditTexts \cup MotionTexts

NewLines == {<<"nl">>}
Garbage == {<<"nl">>, <<"x">>, <<"nul", "y">>}
Pats == {<<>>, <<"x">>, <<"sp", "y">>}
=============================================================================
