----------------------------- MODULE MCEeShell ------------------------------
(* Instances of EeShell for TLC. *)
EXTENDS EeShell

\* A line longer than a pipe, the cursor inside it, and a blank line.
SmallTexts == {[text |-> <<"a", "a", "nl">>, cursor |-> 1], [text |-> <<"nl">>, cursor |-> 0]}

\* in_string as the program starts, and as reading a file has left it.
Leftovers == {<<"nul", "nul", "nul">>, <<"a", "nl", "nul">>}
=============================================================================
