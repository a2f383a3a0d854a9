------------------------------ MODULE EeEdits ------------------------------
(***************************************************************************)
(* The text in EeBuffer's lines as a user sees it, one sequence of         *)
(* characters, and what the keys do to it.                                 *)
(***************************************************************************)
EXTENDS EeBuffer, SequencesExt

\* The text as one sequence of characters, and the cursor's place in it.
Flat(b)   == FlattenSeq([i \in DOMAIN b.lines |-> Append(Content(b.lines[i]), "nl")])
Before(b) == FlattenSeq([i \in 1..(b.cur - 1) |-> Append(Content(b.lines[i]), "nl")])
               \o SubSeq(curr_line(b).s, 1, b.position - 1)
After(b)  == LET t == Flat(b) IN SubSeq(t, Len(Before(b)) + 1, Len(t) - 1)

D == INSTANCE EeDocument WITH before <- Before(e), after <- After(e), char <- e.d_char,
                              word <- e.d_word, line <- e.d_line, pending <- todo,
                              op <- key.op

\* ^k at the end of the text, where there is no character to sit on.
BackspaceAtEnd == key'.op = "del_char" /\ After(e) = <<>> /\ D!DeleteBefore

\* The handlers, with their lines, capacities and columns, do to the text as a
\* whole what the manual page says the keys do (ee.1:73-170): every character
\* typed or undeleted is put in once and in order, and nothing else changes.
\* One case is excepted: at the end of the text ^k deletes the character before
\* the cursor (ee.c:2723), where ee.1:100 has it delete the one it is on.
EditsDocument == D!Init /\ [][D!Next \/ BackspaceAtEnd]_(D!dvars)
=============================================================================
