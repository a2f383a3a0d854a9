----------------------------- MODULE EeDocument -----------------------------
(* What the keys of ee promise (ee.1, "Control keys") of the text as a user  *)
(* sees it: one sequence of characters with the cursor somewhere in it, and  *)
(* the last character, word and line deleted, each of which one key brings   *)
(* back.  There are no lines but the "nl" characters, no buffers and no      *)
(* columns.                                                                  *)
EXTENDS Integers, Sequences, SequencesExt

VARIABLES before, after,    \* the text before and behind the cursor
          char, word, line, \* what was deleted
          pending,          \* characters typed or undeleted that are still to be put in
          op                \* the key

dvars == <<before, after, char, word, line, pending, op>>

Blank(c) == c \in {"sp", "tab"}
Kept == UNCHANGED <<char, word, line>>
Text == before \o after

Edits == {"newline", "insert line key", "del_word", "undel_word", "del_line", "type"}

\* Nothing is pending when a key is pressed, and most keys are done at once.
AtOnce == pending = <<>> /\ pending' = <<>>

\* A motion changes nothing but the cursor's place, and a key with nothing to
\* delete or to undelete not even that.
Move ==
  /\ before' \o after' = Text /\ Kept /\ AtOnce
  /\ op' \notin Edits
  /\ op' \in {"backspace", "backspace key"} => before = <<>>
  /\ op' = "del_char" => after = <<>>
  /\ op' = "undel_line" => ~line.set
  /\ op' # "undel_char"

\* A key gives one character, ^f the one deleted last.
Give ==
  /\ pending = <<>>
  /\ \/ op' = "type" /\ Len(pending') = 1
     \/ op' = "undel_char" /\ Head(char) # "nl" /\ pending' = char
  /\ UNCHANGED <<before, after>> /\ Kept

\* A tab is put in as spaces.
Expand ==
  /\ pending # <<>> /\ Head(pending) = "tab" /\ op' = op
  /\ \E n \in 1..Len(pending') : pending' = [i \in 1..n |-> "sp"] \o Tail(pending)
  /\ UNCHANGED <<before, after>> /\ Kept

\* The character is put in before the cursor.  Beyond the margin a line break
\* too, in front of a word of this line.
Put ==
  /\ pending # <<>> /\ pending' = Tail(pending) /\ op' = op
  /\ LET b == Append(before, Head(pending))
     IN \/ before' = b
        \/ \E i \in 2..Len(b) :
             /\ Blank(b[i - 1]) /\ ~Blank(b[i]) /\ \A j \in i..Len(b) : b[j] # "nl"
             /\ before' = InsertAt(b, i, "nl")
  /\ after' = after /\ Kept

\* A line break, before or behind the cursor.
NewLine ==
  /\ \/ op' \in {"newline", "undel_char"} /\ before' = Append(before, "nl") /\ after' = after
     \/ op' = "insert line key" /\ before' = before /\ after' = <<"nl">> \o after
  /\ op' = "undel_char" => Head(char) = "nl"
  /\ Kept /\ AtOnce

\* The character before the cursor, which ^h keeps and the backspace key does
\* not.
DeleteBefore ==
  /\ before # <<>>
  /\ before' = Front(before) /\ after' = after
  /\ char' = IF op' = "backspace key" THEN char ELSE <<Last(before)>>
  /\ UNCHANGED <<word, line>> /\ AtOnce
DeleteBack == op' \in {"backspace", "backspace key"} /\ DeleteBefore

\* "Delete the character the cursor is sitting on" (ee.1:100).
DeleteAt ==
  /\ op' = "del_char" /\ after # <<>>
  /\ before' = before /\ after' = Tail(after)
  /\ char' = <<Head(after)>>
  /\ UNCHANGED <<word, line>> /\ AtOnce

\* n characters at the cursor: the rest of the line.
RestOfLine(n) ==
  /\ n <= Len(after) /\ \A i \in 1..n : after[i] # "nl"
  /\ n < Len(after) => after[n + 1] = "nl"

\* The rest of the word and the blanks behind it, in this line.
DeleteWord ==
  /\ op' = "del_word"
  /\ before' = before /\ after = word' \o after'
  /\ \E k \in 0..Len(word') : \A i \in DOMAIN word' : word'[i] # "nl" /\ (Blank(word'[i]) <=> i > k)
  /\ after' # <<>> /\ Head(after') # "nl" =>
       ~Blank(Head(after')) /\ word' # <<>> /\ Blank(Last(word'))
  /\ UNCHANGED <<char, line>> /\ AtOnce

UndeleteWord ==
  /\ op' = "undel_word"
  /\ before' = before /\ after' = word \o after
  /\ Kept /\ AtOnce

\* The rest of the line, with its break.
DeleteLine ==
  /\ op' = "del_line"
  /\ before' = before
  /\ line'.set /\ RestOfLine(Len(line'.s)) /\ IsPrefix(line'.s, after)
  /\ after' = SubSeq(after, Len(line'.s) + 2, Len(after))
  /\ UNCHANGED <<char, word>> /\ AtOnce

UndeleteLine ==
  /\ op' = "undel_line" /\ line.set
  /\ before' = before /\ after' = line.s \o <<"nl">> \o after
  /\ Kept /\ AtOnce

Init ==
  /\ before = <<>> /\ word = <<>> /\ line = [set |-> FALSE, s |-> <<>>]
  /\ pending = <<>> /\ op = "none"

Next == Move \/ Give \/ Expand \/ Put \/ NewLine \/ DeleteBack \/ DeleteAt \/ DeleteWord \/ UndeleteWord
          \/ DeleteLine \/ UndeleteLine

Spec == Init /\ [][Next]_dvars
=============================================================================
