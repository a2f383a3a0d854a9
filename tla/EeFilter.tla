------------------------------ MODULE EeFilter ------------------------------
(* What ee's shell commands promise: a command run with '>' is given the     *)
(* text, one run with '<' has what it says put into the text at the cursor,  *)
(* and the editor goes on only once the command is over.  EeShell, with its  *)
(* processes, pipes and signals, implements this.                            *)
EXTENDS Integers, Sequences, FiniteSets

CONSTANTS Bytes,    \* the characters of a text, "nl" among them
          Texts     \* the texts a session starts with: [text, cursor]

VARIABLES text,     \* the text, each line with its newline
          cursor,   \* how many characters of it are before the cursor
          state,    \* "idle", "asked", "runs", "over" or "gone"
          flags,    \* [in_pipe, out_pipe]: the command was given with '<', with '>'
          given,    \* how much of the text the command has read
          eof,      \* it has read the end of file
          said      \* what it has written

fvars == <<text, cursor, state, flags, given, eof, said>>

-----------------------------------------------------------------------------
(* Where the output goes.                                                  *)

\* The characters before the cursor's line.
LineStart(t, c) ==
  CHOOSE i \in 0..c : (i = 0 \/ t[i] = "nl") /\ \A j \in (i + 1)..c : t[j] # "nl"

Blank(t, c) == LineStart(t, c) = c /\ t[c + 1] = "nl"

\* The output with a line break more behind each place of cuts, and without the
\* empty line behind its last newline.
Broken(out, cuts) ==
  LET Moved(i) == i + Cardinality({c \in cuts : c < i})
      all == [k \in 1..(Len(out) + Cardinality(cuts)) |->
                IF \E i \in DOMAIN out : Moved(i) = k
                THEN out[CHOOSE i \in DOMAIN out : Moved(i) = k]
                ELSE "nl"]
  IN IF all # <<>> /\ all[Len(all)] = "nl" THEN SubSeq(all, 1, Len(all) - 1) ELSE all

\* A line that is not blank is split at the cursor, whether anything is read or
\* not.
Place(t, c, out, cuts) ==
  LET before == SubSeq(t, 1, c)
      after  == SubSeq(t, c + 1, Len(t))
  IN CASE Blank(t, c)                 -> before \o Broken(out, cuts) \o after
       [] ~Blank(t, c) /\ out = <<>>  -> before \o <<"nl">> \o after
       [] OTHER -> before \o <<"nl">> \o Broken(out, cuts) \o <<"nl">> \o after

-----------------------------------------------------------------------------
Init ==
  /\ \E s \in Texts : text = s.text /\ cursor = s.cursor
  /\ state = "idle"
  /\ flags = [in_pipe |-> FALSE, out_pipe |-> FALSE]
  /\ given = 0 /\ eof = FALSE /\ said = <<>>

\* The user gives a command.
Ask ==
  /\ state = "idle" /\ state' = "asked"
  /\ flags' \in [in_pipe : BOOLEAN, out_pipe : BOOLEAN]
  /\ given' = 0 /\ eof' = FALSE /\ said' = <<>>
  /\ UNCHANGED <<text, cursor>>

\* It is started, or cannot be.
Begin ==
  /\ state = "asked" /\ state' \in {"runs", "over"}
  /\ UNCHANGED <<text, cursor, flags, given, eof, said>>

\* The command reads the next byte of the text; the end of file is behind all
\* of it.
Hear ==
  /\ state = "runs" /\ flags.out_pipe
  /\ \/ given < Len(text) /\ given' = given + 1 /\ UNCHANGED eof
     \/ given = Len(text) /\ eof' = TRUE /\ UNCHANGED given
  /\ UNCHANGED <<text, cursor, state, flags, said>>

Say ==
  /\ state = "runs" /\ flags.in_pipe
  /\ \E b \in Bytes : said' = Append(said, b)
  /\ UNCHANGED <<text, cursor, state, flags, given, eof>>

Over ==
  /\ state = "runs" /\ state' = "over"
  /\ UNCHANGED <<text, cursor, flags, given, eof, said>>

\* Back to editing.  Lines may be broken where one read ended and the next
\* began.
End ==
  /\ state = "over" /\ state' = "idle"
  /\ \/ /\ flags.in_pipe
        /\ \E cuts \in SUBSET (1..(Len(said) - 1)) : text' = Place(text, cursor, said, cuts)
        /\ cursor' = LineStart(text, cursor)
     \/ ~flags.in_pipe /\ UNCHANGED <<text, cursor>>
  /\ UNCHANGED <<flags, given, eof, said>>

\* SIGINT ends the editor, but not while a command runs.
Interrupted ==
  /\ state \in {"asked", "over"} /\ state' = "gone"
  /\ UNCHANGED <<text, cursor, flags, given, eof, said>>

Next == Ask \/ Begin \/ Hear \/ Say \/ Over \/ End \/ Interrupted

Spec == Init /\ [][Next]_fvars
=============================================================================
