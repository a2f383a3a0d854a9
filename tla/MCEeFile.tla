------------------------------ MODULE MCEeFile ------------------------------
(* Instances of EeFile for TLC. *)
EXTENDS EeFile

Empty == {<< <<>> >>}
NewLines == {<<"nl">>}

File(b)  == [kind |-> "file", bytes |-> b]
Special(k) == [kind |-> k, bytes |-> <<>>]

\* A directory, a missing, an empty and a read-only file, and files whose chunks
\* end before and behind a newline, with and without one at the end.
AllDisks ==
  {[a |-> File(<<"x", "nl", "y">>), b |-> [kind |-> "readonly", bytes |-> <<"nl", "x", "y", "nl">>],
    c |-> File(<<>>), d |-> Special("dir"), n |-> Special("none")]}
SomeDisks == {[a |-> File(<<"x", "y">>), b |-> File(<<"y">>)]}

Ee(files, line) == [name |-> "ee", files |-> files, line |-> line]
Ree(files)      == [name |-> "ree", files |-> files, line |-> 0]
AllArgs == {Ee(<<"a", "d", "b">>, 0), Ee(<<"n", "d">>, 0), Ee(<<"n", "b">>, 2), Ee(<<>>, 0), Ree(<<>>), Ree(<<"c">>)}
OneArg  == {Ee(<<"a">>, 0)}
=============================================================================
