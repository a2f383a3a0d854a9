--------------------------- MODULE EeShellProofs ----------------------------
(* Proofs about EeShell, for pipes, reads, texts and commands of any size:   *)
(* its variables keep their types, and it implements EeFilter.               *)
EXTENDS EeShell, FiniteSetTheorems, Induction, TLAPS

-----------------------------------------------------------------------------
(* The inductive invariant.                                                *)

Reading == {"fork", "read"}
Begun == {"forked", "run", "zombie", "over"}

\* What may have become of the command, by where the process p that runs it is.
Stage(p) ==
  /\ pc[p] \in {"edit", "pipe", "shell", "run"} => cmd.at = "none"
  /\ pc[p] \in {"write", "wait"} => cmd.at \in Begun
  /\ pc[p] \in {"close", "prompt", "exit", "none"} => cmd.at = "over"
  /\ pc[p] = "gone" => cmd.at \in {"none", "over"}

\* Where the two processes are determines what the command can be doing, what
\* SIGINT does, and which ends of the pipes must be open.
Control ==
  /\ pc["ee"] \in {"edit", "pipe", "fork", "read", "close", "prompt", "shell", "run", "write",
                   "wait", "gone"}
  /\ pc["child"] \in {"none", "shell", "run", "write", "wait", "exit"}
  /\ IF pc["ee"] \in Reading THEN Stage("child") ELSE Stage("ee") /\ pc["child"] = "none"
  /\ pc["ee"] # "edit" => (flags.in_pipe <=> pc["ee"] \in Reading \cup {"pipe", "close"})
  /\ raw <=> pc["ee"] \in Reading \cup {"edit", "pipe", "close"}
  /\ sigint = "ignore" <=> pc["ee"] \in {"run", "write", "wait"}
  /\ cmd.want = "read" => flags.out_pipe
  /\ cmd.want \in Bytes => flags.in_pipe
  /\ cmd.at # "run" => cmd.want = "none"

Open ==
  /\ pc["child"] # "none" => "child" \in ends.in_w
  /\ \A p \in Procs : pc[p] = "run" /\ flags.out_pipe => p \in ends.out_r \cap ends.out_w
  /\ \A p \in Procs : pc[p] = "write" => p \in ends.out_w
  /\ cmd.at \in {"forked", "run"} /\ flags.out_pipe => "cmd" \in ends.out_r

\* Every byte said is in the pipe or has been read, and the cursor is in the text.
InBytes ==
  /\ text # <<>> /\ cursor < Len(text)
  /\ pc["ee"] \notin Reading => pipe_in = <<>>
  /\ pc["ee"] \notin {"read", "close"} => got = <<>>
  /\ pc["ee"] # "edit" => said = got \o pipe_in
  /\ cuts \subseteq 1..(Len(got) - 1)

\* Every byte of the text has been heard, is in the pipe or is unsent.
OutBytes ==
  /\ pc["ee"] # "edit" /\ cmd.at = "none" => given = 0
  /\ \A p \in Procs : pc[p] = "run" => pipe_out = <<>>
  /\ \A p \in Procs : pc[p] = "wait" => unsent = <<>>
  /\ cmd.at \in {"forked", "run"} /\ flags.out_pipe
       => given + Len(pipe_out) + Len(unsent) = Len(text)

\* The two halves of TypeOK.
ControlTypes ==
  /\ pc \in [Procs -> {"none", "edit", "pipe", "fork", "read", "close", "prompt", "shell",
                       "run", "write", "wait", "exit", "gone"}]
  /\ cmd \in [at : {"none", "forked", "run", "zombie", "over"},
              want : {"none", "read", "exit"} \cup Bytes]
  /\ flags \in [in_pipe : BOOLEAN, out_pipe : BOOLEAN]
  /\ ends \in [in_w : Ends, out_r : Ends, out_w : Ends]
  /\ sigint \in {"abort", "ignore"} /\ sigchld \in {"default", "ignore"} /\ raw \in BOOLEAN
  /\ dying \in Nat /\ zombies \in Nat /\ commands \in Nat

ByteTypes ==
  /\ text \in Seq(Bytes) /\ cursor \in Nat
  /\ pipe_in \in Seq(Bytes) /\ Len(pipe_in) <= PipeSize
  /\ pipe_out \in Seq(Bytes) /\ Len(pipe_out) <= PipeSize
  /\ unsent \in Seq(Bytes)
  /\ in_string \in [1..(ChunkSize + 1) -> Bytes \cup {"nul"}] /\ in_string[ChunkSize + 1] = "nul"
  /\ got \in Seq(Bytes) /\ append \in BOOLEAN /\ cuts \in SUBSET Nat
  /\ given \in Nat /\ eof \in BOOLEAN /\ said \in Seq(Bytes)

IInv == ControlTypes /\ ByteTypes /\ Control /\ Open /\ InBytes /\ OutBytes

-----------------------------------------------------------------------------
(* Control.                                                                *)

LEMMA ControlTypesStep ==
  ASSUME ControlTypes, [Next]_vars
  PROVE  ControlTypes'
<1> USE DEF ControlTypes, Procs, Ends
<1>1. ASSUME Command PROVE ControlTypes'
  BY <1>1 DEF Command, Goto, editor, reader, report, family, pipes
<1>2. ASSUME ForkChild PROVE ControlTypes'
  BY <1>2 DEF ForkChild, Goto, editor, reader, report, family, pipes
<1>3. ASSUME StartReading PROVE ControlTypes'
  BY <1>3 DEF StartReading, Goto, editor, reader, report, family, pipes
<1>4. ASSUME Read PROVE ControlTypes'
  BY <1>4 DEF Read, Goto, editor, reader, report, family, pipes
<1>5. ASSUME ReadEof PROVE ControlTypes'
  BY <1>5 DEF ReadEof, Goto, editor, reader, report, family, pipes
<1>6. ASSUME EndReading PROVE ControlTypes'
  BY <1>6 DEF EndReading, Goto, NoCommand, editor, reader, report, family, pipes
<1>7. ASSUME WaitOther PROVE ControlTypes'
  BY <1>7 DEF WaitOther, Goto, editor, reader, report, family, pipes
<1>8. ASSUME Continue PROVE ControlTypes'
  BY <1>8 DEF Continue, Goto, NoCommand, editor, reader, report, family, pipes
<1>9. ASSUME NEW p \in Procs, Shell(p) PROVE ControlTypes'
  BY <1>9, Zenon DEF Shell, Goto, editor, reader, report, family, pipes
<1>10. ASSUME NEW p \in Procs, ForkCommand(p) PROVE ControlTypes'
  BY <1>10 DEF ForkCommand, Goto, editor, reader, report, family, pipes
<1>11. ASSUME NEW p \in Procs, WriteOut(p) PROVE ControlTypes'
  BY <1>11 DEF WriteOut, Goto, editor, reader, report, family, pipes
<1>12. ASSUME NEW p \in Procs, CloseOut(p) PROVE ControlTypes'
  BY <1>12 DEF CloseOut, Goto, editor, reader, report, family, pipes
<1>13. ASSUME NEW p \in Procs, WaitCommand(p) PROVE ControlTypes'
  BY <1>13 DEF WaitCommand, Goto, Waited, editor, reader, report, family, pipes
<1>14. ASSUME ExitChild PROVE ControlTypes'
  BY <1>14 DEF ExitChild, Goto, editor, reader, report, family, pipes
<1>15. ASSUME ChildEnds PROVE ControlTypes'
  BY <1>15 DEF ChildEnds, Goto, editor, reader, report, family, pipes
<1>16. ASSUME Exec PROVE ControlTypes'
  BY <1>16 DEF Exec, Goto, editor, reader, report, family, pipes
<1>17. ASSUME Settle PROVE ControlTypes'
  BY <1>17 DEF Settle, Goto, editor, reader, report, family, pipes
<1>18. ASSUME Hear PROVE ControlTypes'
  BY <1>18 DEF Hear, Goto, Settled, editor, reader, report, family, pipes
<1>19. ASSUME Say PROVE ControlTypes'
  BY <1>19 DEF Say, Goto, Settled, editor, reader, report, family, pipes
<1>20. ASSUME Exit PROVE ControlTypes'
  BY <1>20 DEF Exit, Goto, Ended, editor, reader, report, family, pipes
<1>21. ASSUME Interrupt PROVE ControlTypes'
  BY <1>21 DEF Interrupt, Goto, Ended, editor, reader, report, family, pipes
<1>22. CASE UNCHANGED vars
  BY <1>22 DEF vars, editor, reader, report, family, pipes
<1>23. QED
  BY <1>1, <1>2, <1>3, <1>4, <1>5, <1>6, <1>7, <1>8, <1>9, <1>10, <1>11,
     <1>12, <1>13, <1>14, <1>15, <1>16, <1>17, <1>18, <1>19, <1>20, <1>21, <1>22, Zenon
     DEF Next, Editor, Run, Child, Program

LEMMA ControlStep ==
  ASSUME ControlTypes, Control, Open, [Next]_vars
  PROVE  Control'
<1> USE TextsAssumption DEF ControlTypes, Control, Stage, Reading, Begun, Procs
<1>1. ASSUME Command PROVE Control'
  BY <1>1 DEF Command, Goto, editor, reader, report, family, pipes
<1>2. ASSUME ForkChild PROVE Control'
  BY <1>2 DEF ForkChild, Goto, editor, reader, report, family, pipes
<1>3. ASSUME StartReading PROVE Control'
  BY <1>3 DEF StartReading, Goto, editor, reader, report, family, pipes
<1>4. ASSUME Read PROVE Control'
  BY <1>4 DEF Read, Goto, editor, reader, report, family, pipes
<1>5. ASSUME ReadEof PROVE Control'
  BY <1>5 DEF ReadEof, Open, Goto, editor, reader, report, family, pipes
<1>6. ASSUME EndReading PROVE Control'
  BY <1>6 DEF EndReading, Goto, NoCommand, editor, reader, report, family, pipes
<1>7. ASSUME WaitOther PROVE Control'
  BY <1>7 DEF WaitOther, Goto, editor, reader, report, family, pipes
<1>8. ASSUME Continue PROVE Control'
  BY <1>8 DEF Continue, Goto, NoCommand, editor, reader, report, family, pipes
<1>9. ASSUME NEW p \in Procs, Shell(p) PROVE Control'
  BY <1>9 DEF Shell, Goto, editor, reader, report, family, pipes
<1>10. ASSUME NEW p \in Procs, ForkCommand(p) PROVE Control'
  BY <1>10 DEF ForkCommand, Goto, editor, reader, report, family, pipes
<1>11. ASSUME NEW p \in Procs, WriteOut(p) PROVE Control'
  BY <1>11 DEF WriteOut, Goto, editor, reader, report, family, pipes
<1>12. ASSUME NEW p \in Procs, CloseOut(p) PROVE Control'
  BY <1>12 DEF CloseOut, Goto, editor, reader, report, family, pipes
<1>13. ASSUME NEW p \in Procs, WaitCommand(p) PROVE Control'
  BY <1>13 DEF WaitCommand, Goto, Waited, editor, reader, report, family, pipes
<1>14. ASSUME ExitChild PROVE Control'
  BY <1>14 DEF ExitChild, Goto, editor, reader, report, family, pipes
<1>15. ASSUME ChildEnds PROVE Control'
  BY <1>15 DEF ChildEnds, Goto, editor, reader, report, family, pipes
<1>16. ASSUME Exec PROVE Control'
  BY <1>16 DEF Exec, Goto, editor, reader, report, family, pipes
<1>17. ASSUME Settle PROVE Control'
  BY <1>17 DEF Settle, Goto, editor, reader, report, family, pipes
<1>18. ASSUME Hear PROVE Control'
  BY <1>18 DEF Hear, Goto, Settled, editor, reader, report, family, pipes
<1>19. ASSUME Say PROVE Control'
  BY <1>19 DEF Say, Goto, Settled, editor, reader, report, family, pipes
<1>20. ASSUME Exit PROVE Control'
  BY <1>20 DEF Exit, Goto, Ended, editor, reader, report, family, pipes
<1>21. ASSUME Interrupt PROVE Control'
  BY <1>21 DEF Interrupt, Goto, Ended, editor, reader, report, family, pipes
<1>22. CASE UNCHANGED vars
  BY <1>22 DEF vars, editor, reader, report, family, pipes
<1>23. QED
  BY <1>1, <1>2, <1>3, <1>4, <1>5, <1>6, <1>7, <1>8, <1>9, <1>10, <1>11, Zenon,
     <1>12, <1>13, <1>14, <1>15, <1>16, <1>17, <1>18, <1>19, <1>20, <1>21, <1>22
     DEF Next, Editor, Run, Child, Program

LEMMA OpenStep ==
  ASSUME ControlTypes, Control, Open, [Next]_vars
  PROVE  Open'
<1> USE DEF Open, ControlTypes, Control, Stage, Reading, Begun, Procs
<1>1. ASSUME Command PROVE Open'
  BY <1>1 DEF Command, Goto, editor, reader, report, family, pipes
<1>2. ASSUME ForkChild PROVE Open'
  BY <1>2 DEF ForkChild, Goto, editor, reader, report, family, pipes
<1>3. ASSUME StartReading PROVE Open'
  BY <1>3 DEF StartReading, Goto, editor, reader, report, family, pipes
<1>4. ASSUME Read PROVE Open'
  BY <1>4 DEF Read, Goto, editor, reader, report, family, pipes
<1>5. ASSUME ReadEof PROVE Open'
  BY <1>5 DEF ReadEof, Goto, editor, reader, report, family, pipes
<1>6. ASSUME EndReading PROVE Open'
  BY <1>6 DEF EndReading, Goto, NoCommand, editor, reader, report, family, pipes
<1>7. ASSUME WaitOther PROVE Open'
  BY <1>7 DEF WaitOther, Goto, editor, reader, report, family, pipes
<1>8. ASSUME Continue PROVE Open'
  BY <1>8 DEF Continue, Goto, NoCommand, editor, reader, report, family, pipes
<1>9. ASSUME NEW p \in Procs, Shell(p) PROVE Open'
  BY <1>9 DEF Shell, Goto, editor, reader, report, family, pipes
<1>10. ASSUME NEW p \in Procs, ForkCommand(p) PROVE Open'
  BY <1>10 DEF ForkCommand, Goto, editor, reader, report, family, pipes
<1>11. ASSUME NEW p \in Procs, WriteOut(p) PROVE Open'
  BY <1>11 DEF WriteOut, Goto, editor, reader, report, family, pipes
<1>12. ASSUME NEW p \in Procs, CloseOut(p) PROVE Open'
  BY <1>12 DEF CloseOut, Goto, editor, reader, report, family, pipes
<1>13. ASSUME NEW p \in Procs, WaitCommand(p) PROVE Open'
  BY <1>13 DEF WaitCommand, Goto, Waited, editor, reader, report, family, pipes
<1>14. ASSUME ExitChild PROVE Open'
  BY <1>14 DEF ExitChild, Goto, editor, reader, report, family, pipes
<1>15. ASSUME ChildEnds PROVE Open'
  BY <1>15 DEF ChildEnds, Goto, editor, reader, report, family, pipes
<1>16. ASSUME Exec PROVE Open'
  BY <1>16 DEF Exec, Goto, editor, reader, report, family, pipes
<1>17. ASSUME Settle PROVE Open'
  BY <1>17 DEF Settle, Goto, editor, reader, report, family, pipes
<1>18. ASSUME Hear PROVE Open'
  BY <1>18 DEF Hear, Goto, Settled, editor, reader, report, family, pipes
<1>19. ASSUME Say PROVE Open'
  BY <1>19 DEF Say, Goto, Settled, editor, reader, report, family, pipes
<1>20. ASSUME Exit PROVE Open'
  BY <1>20 DEF Exit, Goto, Ended, editor, reader, report, family, pipes
<1>21. ASSUME Interrupt PROVE Open'
  BY <1>21 DEF Interrupt, Goto, Ended, editor, reader, report, family, pipes
<1>22. CASE UNCHANGED vars
  BY <1>22 DEF vars, editor, reader, report, family, pipes
<1>23. QED
  BY <1>1, <1>2, <1>3, <1>4, <1>5, <1>6, <1>7, <1>8, <1>9, <1>10, <1>11,
     <1>12, <1>13, <1>14, <1>15, <1>16, <1>17, <1>18, <1>19, <1>20, <1>21, <1>22, Zenon
     DEF Next, Editor, Run, Child, Program

-----------------------------------------------------------------------------
(* Where the output goes.                                                  *)

\* The cursor's line starts at or before the cursor.
LEMMA LineStartType ==
  ASSUME NEW t, NEW c \in Nat
  PROVE  F!LineStart(t, c) \in 0..c
<1> DEFINE S == {i \in 0..c : i = 0 \/ t[i] = "nl"}
<1>1. S \subseteq 0..c /\ S # {}
  OBVIOUS
<1>2. PICK i \in S : \A j \in S : j <= i
  <2> HIDE DEF S
  <2>1. QED
    BY <1>1, Greatest, Zenon
<1>3. /\ i \in 0..c /\ (i = 0 \/ t[i] = "nl")
      /\ \A j \in (i + 1)..c : t[j] # "nl"
  BY <1>2
<1>4. QED
  BY <1>3, Zenon DEF F!LineStart

\* What is read stays a sequence of bytes, however it is broken into lines.
LEMMA BrokenType ==
  ASSUME NEW out \in Seq(Bytes), NEW cuts_ \in SUBSET (1..(Len(out) - 1))
  PROVE  F!Broken(out, cuts_) \in Seq(Bytes)
<1> DEFINE Moved(i) == i + Cardinality({c \in cuts_ : c < i})
           Byte(k)  == IF \E i \in DOMAIN out : Moved(i) = k
                       THEN out[CHOOSE i \in DOMAIN out : Moved(i) = k]
                       ELSE "nl"
           n   == Len(out) + Cardinality(cuts_)
           all == [k \in 1..n |-> Byte(k)]
<1>1. n \in Nat
  <2>1. IsFiniteSet(1..(Len(out) - 1))
    BY FS_Interval
  <2>2. IsFiniteSet(cuts_)
    BY <2>1, FS_Subset, Zenon
  <2>3. QED
    BY <2>2, FS_CardinalityType
<1>2. \A k \in 1..n : Byte(k) \in Bytes
  <2> HIDE DEF Moved
  <2> TAKE k \in 1..n
  <2>1. CASE \E i \in DOMAIN out : Moved(i) = k
    <3> DEFINE j == CHOOSE i \in DOMAIN out : Moved(i) = k
    <3>1. j \in DOMAIN out
      BY <2>1
    <3>2. QED
      BY <2>1, <3>1
  <2>2. CASE ~\E i \in DOMAIN out : Moved(i) = k
    BY <2>2, TextsAssumption
  <2>3. QED
    BY <2>1, <2>2
<1>3. F!Broken(out, cuts_) = IF all # <<>> /\ all[Len(all)] = "nl" THEN SubSeq(all, 1, Len(all) - 1) ELSE all
  BY Zenon DEF F!Broken, F!Cardinality, Cardinality
<1>4. all \in Seq(Bytes)
  <2> HIDE DEF n, Byte
  <2>1. QED
    BY <1>1, <1>2
<1> HIDE DEF all
<1>5. all # <<>> => SubSeq(all, 1, Len(all) - 1) \in Seq(Bytes)
  BY <1>4
<1>6. QED
  BY <1>3, <1>4, <1>5

LEMMA Concat ==
  ASSUME NEW x \in Seq(Bytes), NEW y \in Seq(Bytes)
  PROVE  x \o y \in Seq(Bytes) /\ Len(x \o y) = Len(x) + Len(y)
OBVIOUS

LEMMA Concat3 ==
  ASSUME NEW x \in Seq(Bytes), NEW y \in Seq(Bytes), NEW z \in Seq(Bytes)
  PROVE  x \o y \o z \in Seq(Bytes) /\ Len(x \o y \o z) = Len(x) + Len(y) + Len(z)
<1> DEFINE xy == x \o y
<1>1. xy \in Seq(Bytes) /\ Len(xy) = Len(x) + Len(y)
  BY Concat
<1> HIDE DEF xy
<1>2. xy \o z \in Seq(Bytes) /\ Len(xy \o z) = Len(xy) + Len(z)
  BY <1>1, Concat, Zenon
<1>3. QED
  BY <1>1, <1>2 DEF xy

\* Reading makes the text longer, if anything, and keeps the cursor in it.
LEMMA PlaceType ==
  ASSUME NEW t \in Seq(Bytes), NEW c \in 0..(Len(t) - 1),
         NEW out \in Seq(Bytes), NEW cuts_ \in SUBSET (1..(Len(out) - 1))
  PROVE  /\ F!Place(t, c, out, cuts_) \in Seq(Bytes)
         /\ Len(F!Place(t, c, out, cuts_)) >= Len(t)
<1> DEFINE b == SubSeq(t, 1, c)
           a == SubSeq(t, c + 1, Len(t))
           new == F!Broken(out, cuts_)
           nl == <<"nl">>
<1>1. b \in Seq(Bytes) /\ a \in Seq(Bytes) /\ Len(b) + Len(a) = Len(t)
  OBVIOUS
<1>2. new \in Seq(Bytes)
  BY BrokenType
<1>3. nl \in Seq(Bytes) /\ Len(nl) = 1
  BY TextsAssumption
<1>4. \/ F!Place(t, c, out, cuts_) = b \o new \o a
      \/ F!Place(t, c, out, cuts_) = b \o nl \o a
      \/ F!Place(t, c, out, cuts_) = b \o nl \o new \o nl \o a
  <2> HIDE DEF new
  <2>1. CASE F!Blank(t, c)
    BY <2>1, Zenon DEF F!Place, new
  <2>2. CASE ~F!Blank(t, c) /\ out = <<>>
    BY <2>2, Zenon DEF F!Place, new
  <2>3. CASE ~F!Blank(t, c) /\ out # <<>>
    BY <2>3, Zenon DEF F!Place, new
  <2>4. QED
    BY <2>1, <2>2, <2>3, Zenon
<1> HIDE DEF a, b, new, nl
<1>5. b \in Seq(Bytes) /\ nl \in Seq(Bytes) /\ new \in Seq(Bytes) /\ a \in Seq(Bytes)
  BY <1>1, <1>2, <1>3, Zenon
<1>6. b \o new \o a \in Seq(Bytes) /\ Len(b \o new \o a) = Len(b) + Len(new) + Len(a)
  BY <1>5, Concat3
<1>7. b \o nl \o a \in Seq(Bytes) /\ Len(b \o nl \o a) = Len(b) + Len(nl) + Len(a)
  BY <1>5, Concat3
<1>8. /\ b \o nl \o new \o nl \o a \in Seq(Bytes)
      /\ Len(b \o nl \o new \o nl \o a) = Len(b) + Len(nl) + Len(new) + Len(nl) + Len(a)
  <2> DEFINE bn == b \o nl \o new
  <2>1. bn \in Seq(Bytes) /\ Len(bn) = Len(b) + Len(nl) + Len(new)
    BY <1>5, Concat3
  <2> HIDE DEF bn
  <2>2. bn \o nl \o a \in Seq(Bytes) /\ Len(bn \o nl \o a) = Len(bn) + Len(nl) + Len(a)
    <3>1. bn \in Seq(Bytes) /\ nl \in Seq(Bytes) /\ a \in Seq(Bytes)
      BY <1>5, <2>1, Zenon
    <3>2. QED
      BY <3>1, Concat3
  <2>3. QED
    BY <2>1, <2>2 DEF bn
<1>9. Len(new) \in Nat /\ Len(b) \in Nat /\ Len(a) \in Nat
  BY <1>5
<1>10. /\ Len(b) + Len(new) + Len(a) >= Len(t)
       /\ Len(b) + Len(nl) + Len(a) >= Len(t)
       /\ Len(b) + Len(nl) + Len(new) + Len(nl) + Len(a) >= Len(t)
  BY <1>1, <1>3, <1>9
<1>11. QED
  BY <1>4, <1>6, <1>7, <1>8, <1>10, Zenon

-----------------------------------------------------------------------------
(* Data.                                                                   *)

LEMMA EmptyType == <<>> \in Seq(Bytes) /\ Len(<<>>) = 0
OBVIOUS

LEMMA AppendType ==
  ASSUME NEW s \in Seq(Bytes), NEW b \in Bytes
  PROVE  Append(s, b) \in Seq(Bytes) /\ Len(Append(s, b)) = Len(s) + 1
OBVIOUS

LEMMA TailType ==
  ASSUME NEW s \in Seq(Bytes), s # <<>>
  PROVE  Head(s) \in Bytes /\ Tail(s) \in Seq(Bytes) /\ Len(Tail(s)) = Len(s) - 1 /\ Len(s) >= 1
OBVIOUS

LEMMA SameBytes ==
  ASSUME NEW x \in Seq(Bytes), NEW y \in Seq(Bytes), Len(x) = Len(y), \A i \in 1..Len(x) : x[i] = y[i]
  PROVE  x = y
OBVIOUS

\* What is taken from the front of a sequence and what is left make it up.
LEMMA Split ==
  ASSUME NEW s \in Seq(Bytes), NEW n \in 0..Len(s)
  PROVE  /\ SubSeq(s, 1, n) \in Seq(Bytes) /\ Len(SubSeq(s, 1, n)) = n
         /\ SubSeq(s, n + 1, Len(s)) \in Seq(Bytes) /\ Len(SubSeq(s, n + 1, Len(s))) = Len(s) - n
         /\ SubSeq(s, 1, n) \o SubSeq(s, n + 1, Len(s)) = s
<1> DEFINE x == SubSeq(s, 1, n)
           y == SubSeq(s, n + 1, Len(s))
<1>1. x \in Seq(Bytes) /\ Len(x) = n /\ \A i \in 1..n : x[i] = s[i]
  OBVIOUS
<1>2. y \in Seq(Bytes) /\ Len(y) = Len(s) - n /\ \A i \in 1..(Len(s) - n) : y[i] = s[n + i]
  OBVIOUS
<1> HIDE DEF x, y
<1>3. x \o y \in Seq(Bytes) /\ Len(x \o y) = Len(s)
  BY <1>1, <1>2, Concat
<1>4. \A i \in 1..Len(s) : (x \o y)[i] = s[i]
  BY <1>1, <1>2
<1>5. x \o y = s
  <2> DEFINE c == x \o y
  <2> HIDE DEF c
  <2>1. c = s
    BY <1>3, <1>4, SameBytes, Zenon DEF c
  <2>2. QED
    BY <2>1 DEF c
<1>6. QED
  BY <1>1, <1>2, <1>5, Zenon DEF x, y

LEMMA ConcatAssoc ==
  ASSUME NEW x \in Seq(Bytes), NEW y \in Seq(Bytes), NEW z \in Seq(Bytes)
  PROVE  (x \o y) \o z = x \o (y \o z)
OBVIOUS
LEMMA ConcatAppend ==
  ASSUME NEW x \in Seq(Bytes), NEW y \in Seq(Bytes), NEW b \in Bytes
  PROVE  Append(x \o y, b) = x \o Append(y, b)
OBVIOUS
LEMMA ConcatEmpty ==
  ASSUME NEW x \in Seq(Bytes)
  PROVE  x \o <<>> = x /\ <<>> \o x = x
OBVIOUS

\* One read takes what there is, if it is no more than a chunk.
LEMMA ReadSome ==
  ASSUME ByteTypes, Read
  PROVE  \E n \in Nat :
           /\ 1 <= n /\ n <= ChunkSize /\ n <= Len(pipe_in)
           /\ got' = got \o SubSeq(pipe_in, 1, n)
           /\ pipe_in' = SubSeq(pipe_in, n + 1, Len(pipe_in))
           /\ in_string' = [i \in DOMAIN in_string |-> IF i <= n THEN pipe_in[i] ELSE in_string[i]]
           /\ append' = (in_string[n + 1] # "nl")
<1> DEFINE n == IF Len(pipe_in) < ChunkSize THEN Len(pipe_in) ELSE ChunkSize
<1>1. n \in Nat /\ 1 <= n /\ n <= ChunkSize /\ n <= Len(pipe_in)
  <2>1. pipe_in \in Seq(Bytes) /\ pipe_in # <<>>
    BY DEF ByteTypes, Read
  <2>2. Len(pipe_in) \in Nat /\ Len(pipe_in) > 0
    BY <2>1
  <2>3. QED
    BY <2>2, SizesAssumption
<1>2. /\ got' = got \o SubSeq(pipe_in, 1, n)
      /\ pipe_in' = SubSeq(pipe_in, n + 1, Len(pipe_in))
      /\ in_string' = [i \in DOMAIN in_string |-> IF i <= n THEN pipe_in[i] ELSE in_string[i]]
      /\ append' = (in_string[n + 1] # "nl")
  BY DEF Read
<1> HIDE DEF n
<1>3. QED
  BY <1>1, <1>2, Zenon

LEMMA ByteTypesStep ==
  ASSUME ByteTypes, InBytes, [Next]_vars
  PROVE  ByteTypes'
<1> DEFINE bytes == <<text, cursor, pipe_in, pipe_out, unsent, in_string, got, append, cuts,
                      given, eof, said>>
<1>u. bytes' = bytes => ByteTypes'
  BY DEF ByteTypes
<1>1. ASSUME Command PROVE ByteTypes'
  <2>1. UNCHANGED <<text, cursor, pipe_in, pipe_out, unsent, in_string, got, append, cuts>>
    BY <1>1 DEF Command, editor, reader, report, family, pipes
  <2>2. given' = 0 /\ eof' = FALSE /\ said' = <<>>
    BY <1>1 DEF Command
  <2>3. QED
    BY <2>1, <2>2, EmptyType, Zenon DEF ByteTypes
<1>2. ASSUME ForkChild PROVE ByteTypes'
  BY <1>2, <1>u DEF ForkChild, Goto, editor, reader, report, family, pipes
<1>3. ASSUME StartReading PROVE ByteTypes'
  <2>1. append' \in BOOLEAN
    BY <1>3 DEF StartReading, F!Blank
  <2>2. UNCHANGED <<text, cursor, pipe_in, pipe_out, unsent, in_string, given, eof, said>>
    BY <1>3 DEF StartReading, editor, reader, report, family, pipes
  <2>3. got' = <<>> /\ cuts' = {}
    BY <1>3 DEF StartReading
  <2>4. QED
    BY <2>1, <2>2, <2>3, EmptyType DEF ByteTypes
<1>4. ASSUME Read PROVE ByteTypes'
  <2>1. PICK n \in Nat :
           /\ 1 <= n /\ n <= ChunkSize /\ n <= Len(pipe_in)
           /\ got' = got \o SubSeq(pipe_in, 1, n)
           /\ pipe_in' = SubSeq(pipe_in, n + 1, Len(pipe_in))
           /\ in_string' = [i \in DOMAIN in_string |-> IF i <= n THEN pipe_in[i] ELSE in_string[i]]
           /\ append' = (in_string[n + 1] # "nl")
    BY <1>4, ReadSome, Zenon
  <2>2. pipe_in \in Seq(Bytes) /\ got \in Seq(Bytes) /\ n \in 0..Len(pipe_in) /\ Len(pipe_in) <= PipeSize
    BY <2>1 DEF ByteTypes
  <2> DEFINE taken == SubSeq(pipe_in, 1, n)
             left  == SubSeq(pipe_in, n + 1, Len(pipe_in))
  <2>3. taken \in Seq(Bytes) /\ left \in Seq(Bytes) /\ Len(left) = Len(pipe_in) - n
    BY <2>2, Split
  <2>4. got' = got \o taken /\ pipe_in' = left
    BY <2>1
  <2>5. in_string' \in [1..(ChunkSize + 1) -> Bytes \cup {"nul"}] /\ in_string'[ChunkSize + 1] = "nul"
    BY <2>1, SizesAssumption DEF ByteTypes
  <2>6. append' \in BOOLEAN
    BY <2>1
  <2> HIDE DEF taken, left
  <2>7. got' \in Seq(Bytes) /\ pipe_in' \in Seq(Bytes)
    BY <2>2, <2>3, <2>4, Concat
  <2>8. Len(pipe_in') <= PipeSize
    BY <2>2, <2>3, <2>4, SizesAssumption
  <2>9. cuts' \in SUBSET Nat
    <3>1. Len(got) \in Nat /\ cuts \in SUBSET Nat
      BY DEF ByteTypes
    <3>2. cuts' \in {cuts, cuts \cup {Len(got)}}
      BY <1>4 DEF Read
    <3>3. QED
      BY <3>1, <3>2
  <2>10. UNCHANGED <<text, cursor, pipe_out, unsent, given, eof, said>>
    BY <1>4 DEF Read, editor, reader, report, family, pipes
  <2>11. QED
    BY <2>5, <2>6, <2>7, <2>8, <2>9, <2>10 DEF ByteTypes
<1>5. ASSUME ReadEof PROVE ByteTypes'
  BY <1>5, <1>u DEF ReadEof, Goto, editor, reader, report, family, pipes
<1>6. ASSUME EndReading PROVE ByteTypes'
  <2>1. /\ text \in Seq(Bytes) /\ cursor \in 0..(Len(text) - 1)
        /\ got \in Seq(Bytes) /\ cuts \in SUBSET (1..(Len(got) - 1))
    BY DEF ByteTypes, InBytes
  <2>2. text' \in Seq(Bytes)
    BY <1>6, <2>1, PlaceType DEF EndReading
  <2>3. cursor' \in Nat
    BY <1>6, <2>1, LineStartType DEF EndReading
  <2>4. UNCHANGED <<pipe_in, pipe_out, unsent, in_string, given, eof, said>>
    BY <1>6 DEF EndReading, editor, reader, report, family, pipes
  <2>5. got' = <<>> /\ append' = FALSE /\ cuts' = {}
    BY <1>6 DEF EndReading
  <2>6. QED
    BY <2>2, <2>3, <2>4, <2>5, EmptyType, Zenon DEF ByteTypes
<1>7. ASSUME WaitOther PROVE ByteTypes'
  BY <1>7, <1>u DEF WaitOther, Goto, editor, reader, report, family, pipes
<1>8. ASSUME Continue PROVE ByteTypes'
  BY <1>8, <1>u DEF Continue, Goto, NoCommand, editor, reader, report, family, pipes
<1>9. ASSUME NEW p \in Procs, Shell(p) PROVE ByteTypes'
  <2>1. UNCHANGED <<text, cursor, pipe_in, unsent, in_string, got, append, cuts, given, eof, said>>
    BY <1>9 DEF Shell, editor, reader, report, family, pipes
  <2>2. pipe_out' = <<>>
    BY <1>9 DEF Shell
  <2>3. QED
    BY <2>1, <2>2, EmptyType, SizesAssumption DEF ByteTypes
<1>10. ASSUME NEW p \in Procs, ForkCommand(p) PROVE ByteTypes'
  <2>1. UNCHANGED <<text, cursor, pipe_in, pipe_out, in_string, got, append, cuts, given, eof, said>>
    BY <1>10 DEF ForkCommand, editor, reader, report, family, pipes
  <2>2. unsent' \in {text, <<>>}
    BY <1>10 DEF ForkCommand
  <2>3. QED
    BY <2>1, <2>2, EmptyType, Zenon DEF ByteTypes
<1>11. ASSUME NEW p \in Procs, WriteOut(p) PROVE ByteTypes'
  <2>1. unsent \in Seq(Bytes) /\ pipe_out \in Seq(Bytes) /\ Len(pipe_out) <= PipeSize
    BY DEF ByteTypes
  <2>2. unsent # <<>> /\ unsent' = Tail(unsent)
    BY <1>11 DEF WriteOut
  <2>3. Head(unsent) \in Bytes /\ unsent' \in Seq(Bytes)
    BY <2>1, <2>2, TailType
  <2>4. pipe_out' = pipe_out \/ (Len(pipe_out) < PipeSize /\ pipe_out' = Append(pipe_out, Head(unsent)))
    BY <1>11 DEF WriteOut
  <2>5. pipe_out' \in Seq(Bytes) /\ Len(pipe_out') <= PipeSize
    <3>1. CASE pipe_out' = pipe_out
      BY <2>1, <3>1
    <3>2. CASE Len(pipe_out) < PipeSize /\ pipe_out' = Append(pipe_out, Head(unsent))
      <4>1. pipe_out' \in Seq(Bytes) /\ Len(pipe_out') = Len(pipe_out) + 1
        BY <2>1, <2>3, <3>2, AppendType, Zenon
      <4>2. Len(pipe_out) \in Nat
        BY <2>1
      <4>3. QED
        BY <3>2, <4>1, <4>2, SizesAssumption
    <3>3. QED
      BY <2>4, <3>1, <3>2
  <2>6. UNCHANGED <<text, cursor, pipe_in, in_string, got, append, cuts, given, eof, said>>
    BY <1>11 DEF WriteOut, editor, reader, report, family, pipes
  <2>7. QED
    BY <2>3, <2>5, <2>6 DEF ByteTypes
<1>12. ASSUME NEW p \in Procs, CloseOut(p) PROVE ByteTypes'
  BY <1>12, <1>u DEF CloseOut, Goto, editor, reader, report, family, pipes
<1>13. ASSUME NEW p \in Procs, WaitCommand(p) PROVE ByteTypes'
  BY <1>13, <1>u DEF WaitCommand, Goto, Waited, editor, reader, report, family, pipes
<1>14. ASSUME ExitChild PROVE ByteTypes'
  BY <1>14, <1>u DEF ExitChild, Goto, editor, reader, report, family, pipes
<1>15. ASSUME ChildEnds PROVE ByteTypes'
  BY <1>15, <1>u DEF ChildEnds, Goto, editor, reader, report, family, pipes
<1>16. ASSUME Exec PROVE ByteTypes'
  BY <1>16, <1>u DEF Exec, Goto, editor, reader, report, family, pipes
<1>17. ASSUME Settle PROVE ByteTypes'
  BY <1>17, <1>u DEF Settle, Goto, editor, reader, report, family, pipes
<1>18. ASSUME Hear PROVE ByteTypes'
  <2>1. pipe_out \in Seq(Bytes) /\ Len(pipe_out) <= PipeSize
    BY DEF ByteTypes
  <2>2. pipe_out' = pipe_out \/ (pipe_out # <<>> /\ pipe_out' = Tail(pipe_out))
    BY <1>18 DEF Hear
  <2>3. pipe_out' \in Seq(Bytes) /\ Len(pipe_out') <= PipeSize
    BY <2>1, <2>2, TailType, SizesAssumption
  <2>4. given' \in {given, given + 1} /\ eof' \in {eof, TRUE}
    BY <1>18, Zenon DEF Hear
  <2>5. UNCHANGED <<text, cursor, pipe_in, unsent, in_string, got, append, cuts, said>>
    BY <1>18, Zenon DEF Hear, editor, reader, report, family, pipes
  <2>6. given' \in Nat
    BY <2>4 DEF ByteTypes
  <2>7. eof' \in BOOLEAN
    BY <2>4, Zenon DEF ByteTypes
  <2>8. QED
    BY <2>3, <2>5, <2>6, <2>7 DEF ByteTypes
<1>19. ASSUME Say PROVE ByteTypes'
  <2>1. pipe_in \in Seq(Bytes) /\ said \in Seq(Bytes)
    BY DEF ByteTypes
  <2>2. /\ cmd.want \in Bytes /\ Len(pipe_in) < PipeSize
        /\ pipe_in' = Append(pipe_in, cmd.want) /\ said' = Append(said, cmd.want)
    BY <1>19 DEF Say
  <2>3. /\ pipe_in' \in Seq(Bytes) /\ Len(pipe_in') <= PipeSize
        /\ said' \in Seq(Bytes)
    BY <2>1, <2>2, AppendType, SizesAssumption
  <2>4. UNCHANGED <<text, cursor, pipe_out, unsent, in_string, got, append, cuts, given, eof>>
    BY <1>19 DEF Say, editor, reader, report, family, pipes
  <2>5. QED
    BY <2>3, <2>4 DEF ByteTypes
<1>20. ASSUME Exit PROVE ByteTypes'
  BY <1>20, <1>u DEF Exit, Goto, Ended, editor, reader, report, family, pipes
<1>21. ASSUME Interrupt PROVE ByteTypes'
  BY <1>21, <1>u DEF Interrupt, Goto, Ended, editor, reader, report, family, pipes
<1>22. CASE UNCHANGED vars
  BY <1>22, <1>u DEF vars, editor, reader, report, family, pipes
<1>23. QED
  BY <1>1, <1>2, <1>3, <1>4, <1>5, <1>6, <1>7, <1>8, <1>9, <1>10, <1>11,
     <1>12, <1>13, <1>14, <1>15, <1>16, <1>17, <1>18, <1>19, <1>20, <1>21, <1>22
     DEF Next, Editor, Run, Child, Program

LEMMA InBytesStep ==
  ASSUME ControlTypes, ByteTypes, Control, InBytes, [Next]_vars
  PROVE  InBytes'
<1>u. ASSUME UNCHANGED <<text, cursor, pipe_in, got, cuts, said>>,
             pc["ee"] \in Reading => pc'["ee"] \in Reading,
             pc["ee"] \in {"read", "close"} => pc'["ee"] \in {"read", "close"},
             pc["ee"] = "edit" => pc'["ee"] = "edit"
      PROVE  InBytes'
  BY <1>u DEF InBytes
<1>1. ASSUME Command PROVE InBytes'
  <2>1. pc["ee"] = "edit" /\ pc'["ee"] \notin Reading \cup {"read", "close"} /\ said' = <<>>
    BY <1>1 DEF Command, Goto, ControlTypes, Procs, Reading
  <2>2. UNCHANGED <<text, cursor, pipe_in, got, cuts>>
    BY <1>1 DEF Command, reader, pipes
  <2>3. QED
    BY <2>1, <2>2, EmptyType, ConcatEmpty DEF InBytes, Reading
<1>2. ASSUME ForkChild PROVE InBytes'
  BY <1>2, <1>u DEF ControlTypes, Control, Stage, Reading, Procs, ForkChild, Goto, editor,
     reader, report, family, pipes
<1>3. ASSUME StartReading PROVE InBytes'
  <2>1. pc["ee"] = "fork" /\ pc'["ee"] = "read" /\ got' = <<>> /\ cuts' = {}
    BY <1>3 DEF StartReading, Goto, ControlTypes, Procs
  <2>2. UNCHANGED <<text, cursor, pipe_in, said>>
    BY <1>3 DEF StartReading, editor, report
  <2>3. QED
    BY <2>1, <2>2, Zenon DEF InBytes, Reading
<1>4. ASSUME Read PROVE InBytes'
  <2>1. PICK n \in Nat :
           /\ 1 <= n /\ n <= Len(pipe_in)
           /\ got' = got \o SubSeq(pipe_in, 1, n)
           /\ pipe_in' = SubSeq(pipe_in, n + 1, Len(pipe_in))
    BY <1>4, ReadSome
  <2> DEFINE taken == SubSeq(pipe_in, 1, n)
             left  == SubSeq(pipe_in, n + 1, Len(pipe_in))
  <2>2. pipe_in \in Seq(Bytes) /\ got \in Seq(Bytes) /\ n \in 0..Len(pipe_in)
    BY <2>1 DEF ByteTypes
  <2>3. /\ taken \in Seq(Bytes) /\ Len(taken) = n
        /\ left \in Seq(Bytes) /\ taken \o left = pipe_in
    BY <2>2, Split, Zenon
  <2>4. got' = got \o taken /\ pipe_in' = left
    BY <2>1
  <2> HIDE DEF taken, left
  <2>5. got' \o pipe_in' = got \o pipe_in
    BY <2>2, <2>3, <2>4, ConcatAssoc, Zenon
  <2>6. Len(got') = Len(got) + n /\ Len(got) \in Nat
    <3>1. Len(got \o taken) = Len(got) + Len(taken)
      BY <2>2, <2>3, Concat, Zenon
    <3>2. QED
      BY <2>2, <2>3, <2>4, <3>1
  <2>7. pc["ee"] = "read" /\ pc' = pc /\ UNCHANGED <<text, cursor, said>>
    BY <1>4 DEF Read, editor, report
  <2>8. cuts' = cuts \/ (got # <<>> /\ cuts' = cuts \cup {Len(got)})
    BY <1>4 DEF Read
  <2>9. cuts' \subseteq 1..(Len(got') - 1)
    <3>1. cuts \subseteq 1..(Len(got) - 1)
      BY DEF InBytes
    <3>2. got # <<>> => Len(got) >= 1
      BY <2>2, TailType
    <3>3. 1..(Len(got) - 1) \subseteq 1..(Len(got') - 1)
      BY <2>1, <2>6
    <3>4. got # <<>> => Len(got) \in 1..(Len(got') - 1)
      BY <2>1, <2>6, <3>2
    <3>5. CASE cuts' = cuts
      BY <3>1, <3>3, <3>5, Zenon
    <3>6. CASE got # <<>> /\ cuts' = cuts \cup {Len(got)}
      BY <3>1, <3>3, <3>4, <3>6, Zenon
    <3>7. QED
      BY <2>8, <3>5, <3>6
  <2>10. QED
    BY <2>5, <2>7, <2>9 DEF InBytes, Reading
<1>5. ASSUME ReadEof PROVE InBytes'
  <2>1. pc["ee"] = "read" /\ pc'["ee"] = "close" /\ pipe_in = <<>>
    BY <1>5 DEF ReadEof, Goto, ControlTypes, Procs
  <2>2. UNCHANGED <<text, cursor, pipe_in, got, cuts, said>>
    BY <1>5 DEF ReadEof, editor, reader, report, pipes
  <2>3. QED
    BY <2>1, <2>2 DEF InBytes, Reading
<1>6. ASSUME EndReading PROVE InBytes'
  <2>1. /\ text \in Seq(Bytes) /\ cursor \in 0..(Len(text) - 1)
        /\ got \in Seq(Bytes) /\ cuts \in SUBSET (1..(Len(got) - 1))
    BY DEF ByteTypes, InBytes
  <2>2. text' \in Seq(Bytes) /\ Len(text') >= Len(text)
    BY <1>6, <2>1, PlaceType DEF EndReading
  <2>3. cursor' \in 0..cursor
    BY <1>6, <2>1, LineStartType DEF EndReading
  <2>4. cursor' < Len(text') /\ text' # <<>>
    BY <2>1, <2>2, <2>3
  <2>5. /\ pc["ee"] = "close" /\ pc'["ee"] = "edit"
        /\ got' = <<>> /\ cuts' = {} /\ pipe_in' = pipe_in
    BY <1>6 DEF EndReading, Goto, pipes, ControlTypes, Procs
  <2>6. QED
    BY <2>4, <2>5 DEF InBytes, Reading
<1>7. ASSUME WaitOther PROVE InBytes'
  BY <1>7, <1>u DEF ControlTypes, Control, Stage, Reading, Procs, WaitOther, Goto, editor,
     reader, report, family, pipes
<1>8. ASSUME Continue PROVE InBytes'
  BY <1>8, <1>u DEF ControlTypes, Control, Stage, Reading, Procs, Continue, Goto, NoCommand,
     editor, reader, report, family, pipes
<1>9. ASSUME NEW p \in Procs, Shell(p) PROVE InBytes'
  BY <1>9, <1>u DEF ControlTypes, Control, Stage, Reading, Procs, Shell, Goto, editor,
     reader, report, family, pipes
<1>10. ASSUME NEW p \in Procs, ForkCommand(p) PROVE InBytes'
  BY <1>10, <1>u DEF ControlTypes, Control, Stage, Reading, Procs, ForkCommand, Goto,
     editor, reader, report, family, pipes
<1>11. ASSUME NEW p \in Procs, WriteOut(p) PROVE InBytes'
  BY <1>11, <1>u DEF ControlTypes, Control, Stage, Reading, Procs, WriteOut, Goto, editor,
     reader, report, family, pipes
<1>12. ASSUME NEW p \in Procs, CloseOut(p) PROVE InBytes'
  BY <1>12, <1>u DEF ControlTypes, Control, Stage, Reading, Procs, CloseOut, Goto, editor,
     reader, report, family, pipes
<1>13. ASSUME NEW p \in Procs, WaitCommand(p) PROVE InBytes'
  BY <1>13, <1>u DEF ControlTypes, Control, Stage, Reading, Procs, WaitCommand, Goto,
     Waited, editor, reader, report, family, pipes
<1>14. ASSUME ExitChild PROVE InBytes'
  BY <1>14, <1>u DEF ControlTypes, Control, Stage, Reading, Procs, ExitChild, Goto, editor,
     reader, report, family, pipes
<1>15. ASSUME ChildEnds PROVE InBytes'
  BY <1>15, <1>u DEF ControlTypes, Control, Stage, Reading, Procs, ChildEnds, Goto, editor,
     reader, report, family, pipes
<1>16. ASSUME Exec PROVE InBytes'
  BY <1>16, <1>u DEF ControlTypes, Control, Stage, Reading, Procs, Exec, Goto, editor,
     reader, report, family, pipes
<1>17. ASSUME Settle PROVE InBytes'
  BY <1>17, <1>u DEF ControlTypes, Control, Stage, Reading, Procs, Settle, Goto, editor,
     reader, report, family, pipes
<1>18. ASSUME Hear PROVE InBytes'
  BY <1>18, <1>u DEF ControlTypes, Control, Stage, Reading, Procs, Hear, Goto, Settled,
     editor, reader, report, family, pipes
<1>19. ASSUME Say PROVE InBytes'
  <2>1. pipe_in \in Seq(Bytes) /\ got \in Seq(Bytes)
    BY DEF ByteTypes
  <2>2. /\ cmd.want \in Bytes /\ cmd.at = "run"
        /\ pipe_in' = Append(pipe_in, cmd.want) /\ said' = Append(said, cmd.want)
        /\ UNCHANGED <<pc, text, cursor, got, cuts>>
    BY <1>19 DEF Say, editor, reader
  <2>3. pc["ee"] \in Reading
    BY <2>2 DEF Control, Stage, Reading, Begun
  <2>4. said = got \o pipe_in => said' = got \o pipe_in'
    BY <2>1, <2>2, ConcatAppend, Zenon
  <2>5. QED
    BY <2>2, <2>3, <2>4, Zenon DEF InBytes, Reading
<1>20. ASSUME Exit PROVE InBytes'
  BY <1>20, <1>u DEF ControlTypes, Control, Stage, Reading, Procs, Exit, Goto, Ended,
     editor, reader, report, family, pipes
<1>21. ASSUME Interrupt PROVE InBytes'
  BY <1>21, <1>u DEF ControlTypes, Control, Stage, Reading, Procs, Interrupt, Goto, Ended,
     editor, reader, report, family, pipes
<1>22. CASE UNCHANGED vars
  BY <1>22, <1>u DEF ControlTypes, Control, Stage, Reading, Procs, vars, editor, reader,
     report, family, pipes
<1>23. QED
  BY <1>1, <1>2, <1>3, <1>4, <1>5, <1>6, <1>7, <1>8, <1>9, <1>10, <1>11,
     <1>12, <1>13, <1>14, <1>15, <1>16, <1>17, <1>18, <1>19, <1>20, <1>21, <1>22
     DEF Next, Editor, Run, Child, Program

LEMMA OutBytesStep ==
  ASSUME ControlTypes, ByteTypes, Control, Open, OutBytes, [Next]_vars
  PROVE  OutBytes'
<1>1. ASSUME Command PROVE OutBytes'
  BY <1>1 DEF OutBytes, ControlTypes, Control, Stage, Reading, Begun, Procs, Command, Goto,
     editor, reader, report, family, pipes
<1>2. ASSUME ForkChild PROVE OutBytes'
  BY <1>2 DEF OutBytes, ControlTypes, Control, Stage, Reading, Begun, Procs, ForkChild,
     Goto, editor, reader, report, family, pipes
<1>3. ASSUME StartReading PROVE OutBytes'
  BY <1>3 DEF OutBytes, ControlTypes, Control, Stage, Reading, Begun, Procs, StartReading,
     Goto, editor, reader, report, family, pipes
<1>4. ASSUME Read PROVE OutBytes'
  BY <1>4 DEF OutBytes, ControlTypes, Control, Stage, Reading, Begun, Procs, Read, Goto,
     editor, reader, report, family, pipes
<1>5. ASSUME ReadEof PROVE OutBytes'
  BY <1>5 DEF OutBytes, ControlTypes, Control, Stage, Reading, Begun, Procs, ReadEof, Goto,
     editor, reader, report, family, pipes
<1>6. ASSUME EndReading PROVE OutBytes'
  <2>1. cmd'.at = "none" /\ pc'["ee"] = "edit" /\ pc'["child"] = "none"
    BY <1>6 DEF OutBytes, ControlTypes, Control, Stage, Reading, Begun, Procs, EndReading,
       NoCommand, Goto, ControlTypes, Control, Reading, Procs
  <2>2. QED
    BY <2>1 DEF OutBytes, Procs
<1>7. ASSUME WaitOther PROVE OutBytes'
  BY <1>7 DEF OutBytes, ControlTypes, Control, Stage, Reading, Begun, Procs, WaitOther,
     Goto, editor, reader, report, family, pipes
<1>8. ASSUME Continue PROVE OutBytes'
  BY <1>8 DEF OutBytes, ControlTypes, Control, Stage, Reading, Begun, Procs, Continue, Goto,
     NoCommand, editor, reader, report, family, pipes
<1>9. ASSUME NEW p \in Procs, Shell(p) PROVE OutBytes'
  BY <1>9 DEF OutBytes, ControlTypes, Control, Stage, Reading, Begun, Procs, Shell, Goto,
     editor, reader, report, family, pipes
<1>10. ASSUME NEW p \in Procs, ForkCommand(p) PROVE OutBytes'
  <2>1. pc[p] = "run" /\ cmd.at = "none" /\ pc["ee"] # "edit"
    BY <1>10 DEF OutBytes, ControlTypes, Control, Stage, Reading, Begun, Procs, ForkCommand,
       ControlTypes, Control, Stage, Reading, Procs
  <2>2. given = 0 /\ pipe_out = <<>>
    BY <2>1 DEF OutBytes
  <2>3. UNCHANGED <<given, pipe_out, flags, text>>
    BY <1>10 DEF OutBytes, ControlTypes, Control, Stage, Reading, Begun, Procs, ForkCommand,
       editor, report
  <2>4. cmd'.at \in {"forked", "over"}
    BY <1>10 DEF OutBytes, ControlTypes, Control, Stage, Reading, Begun, Procs, ForkCommand,
       ControlTypes
  <2>5. flags.out_pipe => unsent' = text
    BY <1>10 DEF OutBytes, ControlTypes, Control, Stage, Reading, Begun, Procs, ForkCommand
  <2>6. \A q \in Procs : pc'[q] # "run"
    BY <1>10, <2>1 DEF ForkCommand, Goto, ControlTypes, Control, Stage, Reading, Procs
  <2>7. \A q \in Procs : pc'[q] = "wait" => unsent' = <<>>
    BY <1>10, <2>1 DEF ForkCommand, Goto, ControlTypes, Control, Stage, Reading, Procs
  <2>8. flags.out_pipe => given' + Len(pipe_out') + Len(unsent') = Len(text')
    <3>1. text \in Seq(Bytes)
      BY DEF ByteTypes
    <3>2. QED
      BY <2>2, <2>3, <2>5, <3>1, EmptyType
  <2>9. QED
    BY <2>3, <2>4, <2>6, <2>7, <2>8 DEF OutBytes
<1>11. ASSUME NEW p \in Procs, WriteOut(p) PROVE OutBytes'
  <2>1. pc[p] = "write" /\ unsent # <<>> /\ unsent' = Tail(unsent)
    BY <1>11 DEF OutBytes, ControlTypes, Control, Stage, Reading, Begun, Procs, WriteOut
  <2>2. UNCHANGED <<pc, cmd, flags, given, text>>
    BY <1>11 DEF OutBytes, ControlTypes, Control, Stage, Reading, Begun, Procs, WriteOut,
       editor, report
  <2>3. \A q \in Procs : pc[q] \notin {"run", "wait"}
    BY <2>1 DEF ControlTypes, Control, Stage, Reading, Procs
  <2>4. cmd.at # "none"
    BY <2>1 DEF ControlTypes, Control, Stage, Reading, Begun, Procs
  <2>5. ASSUME cmd.at \in {"forked", "run"}, flags.out_pipe
        PROVE  given' + Len(pipe_out') + Len(unsent') = Len(text')
    <3>1. unsent \in Seq(Bytes) /\ pipe_out \in Seq(Bytes) /\ given \in Nat
      BY DEF ByteTypes
    <3>2. pipe_out' = Append(pipe_out, Head(unsent))
      BY <1>11, <2>5 DEF WriteOut, Open
    <3>3. given + Len(pipe_out) + Len(unsent) = Len(text)
      BY <2>5 DEF OutBytes
    <3>4. Head(unsent) \in Bytes /\ Len(unsent') = Len(unsent) - 1 /\ Len(unsent) \in Nat
      BY <2>1, <3>1, TailType
    <3>5. Len(pipe_out') = Len(pipe_out) + 1 /\ Len(pipe_out) \in Nat
      BY <3>1, <3>2, <3>4, AppendType
    <3>6. QED
      BY <2>2, <3>1, <3>3, <3>4, <3>5
  <2>6. QED
    BY <2>2, <2>3, <2>4, <2>5 DEF OutBytes
<1>12. ASSUME NEW p \in Procs, CloseOut(p) PROVE OutBytes'
  BY <1>12 DEF OutBytes, ControlTypes, Control, Stage, Reading, Begun, Procs, CloseOut,
     Goto, editor, reader, report, family, pipes
<1>13. ASSUME NEW p \in Procs, WaitCommand(p) PROVE OutBytes'
  BY <1>13 DEF OutBytes, ControlTypes, Control, Stage, Reading, Begun, Procs, WaitCommand,
     Goto, Waited, editor, reader, report, family, pipes
<1>14. ASSUME ExitChild PROVE OutBytes'
  BY <1>14 DEF OutBytes, ControlTypes, Control, Stage, Reading, Begun, Procs, ExitChild,
     Goto, editor, reader, report, family, pipes
<1>15. ASSUME ChildEnds PROVE OutBytes'
  BY <1>15 DEF OutBytes, ControlTypes, Control, Stage, Reading, Begun, Procs, ChildEnds,
     Goto, editor, reader, report, family, pipes
<1>16. ASSUME Exec PROVE OutBytes'
  BY <1>16 DEF OutBytes, ControlTypes, Control, Stage, Reading, Begun, Procs, Exec, Goto,
     editor, reader, report, family, pipes
<1>17. ASSUME Settle PROVE OutBytes'
  BY <1>17 DEF OutBytes, ControlTypes, Control, Stage, Reading, Begun, Procs, Settle, Goto,
     editor, reader, report, family, pipes
<1>18. ASSUME Hear PROVE OutBytes'
  <2>1. cmd.at = "run" /\ cmd'.at = "run" /\ UNCHANGED <<pc, flags, text, unsent>>
    BY <1>18 DEF OutBytes, ControlTypes, Control, Stage, Reading, Begun, Procs, Hear,
       Settled, ControlTypes, editor
  <2>2. \A q \in Procs : pc[q] # "run"
    BY <2>1 DEF ControlTypes, Control, Stage, Reading, Procs
  <2>3. CASE UNCHANGED <<given, pipe_out>>
    BY <2>1, <2>2, <2>3 DEF OutBytes
  <2>4. CASE pipe_out # <<>> /\ pipe_out' = Tail(pipe_out) /\ given' = given + 1
    <3>1. pipe_out \in Seq(Bytes) /\ given \in Nat /\ Len(unsent) \in Nat
      BY DEF ByteTypes
    <3>2. Len(pipe_out') = Len(pipe_out) - 1 /\ Len(pipe_out) \in Nat
      BY <2>4, <3>1, TailType
    <3>3. given' + Len(pipe_out') = given + Len(pipe_out)
      BY <2>4, <3>1, <3>2
    <3>4. QED
      BY <2>1, <2>2, <3>3 DEF OutBytes
  <2>5. QED
    BY <1>18, <2>3, <2>4 DEF Hear
<1>19. ASSUME Say PROVE OutBytes'
  BY <1>19 DEF OutBytes, ControlTypes, Control, Stage, Reading, Begun, Procs, Say, Goto,
     Settled, editor, reader, report, family, pipes
<1>20. ASSUME Exit PROVE OutBytes'
  BY <1>20 DEF OutBytes, ControlTypes, Control, Stage, Reading, Begun, Procs, Exit, Goto,
     Ended, editor, reader, report, family, pipes
<1>21. ASSUME Interrupt PROVE OutBytes'
  <2>1. UNCHANGED <<given, flags, text, pipe_out, unsent>>
    BY <1>21 DEF Interrupt, editor, report
  <2>2. cmd' = cmd \/ cmd'.at = "zombie"
    BY <1>21 DEF Interrupt, Ended
  <2>3. \A q \in Procs : pc'[q] = pc[q] \/ pc'[q] = "gone"
    BY <1>21 DEF Interrupt, Goto, ControlTypes
  <2>4. pc["ee"] # "edit"
    BY <1>21 DEF Interrupt, Control
  <2>5. QED
    BY <2>1, <2>2, <2>3, <2>4 DEF OutBytes
<1>22. CASE UNCHANGED vars
  BY <1>22 DEF OutBytes, ControlTypes, Control, Stage, Reading, Begun, Procs, vars, editor,
     reader, report, family, pipes
<1>23. QED
  BY <1>1, <1>2, <1>3, <1>4, <1>5, <1>6, <1>7, <1>8, <1>9, <1>10, <1>11,
     <1>12, <1>13, <1>14, <1>15, <1>16, <1>17, <1>18, <1>19, <1>20, <1>21, <1>22
     DEF Next, Editor, Run, Child, Program

-----------------------------------------------------------------------------
(* Theorems.                                                               *)

LEMMA Initially == Init => IInv
<1> SUFFICES ASSUME Init PROVE IInv
  OBVIOUS
<1>1. PICK s \in Texts : text = s.text /\ cursor = s.cursor
  BY DEF Init
<1>2. text \in Seq(Bytes) /\ text # <<>> /\ cursor \in 0..(Len(text) - 1)
  BY <1>1, TextsAssumption
<1>3. ControlTypes
  BY BoundsAssumption DEF Init, ControlTypes, NoCommand, Procs, Ends
<1>4. ByteTypes
  <2>1. in_string \in [1..(ChunkSize + 1) -> Bytes \cup {"nul"}] /\ in_string[ChunkSize + 1] = "nul"
    BY TextsAssumption DEF Init
  <2>2. /\ pipe_in = <<>> /\ pipe_out = <<>> /\ unsent = <<>> /\ got = <<>> /\ said = <<>>
        /\ append = FALSE /\ cuts = {} /\ given = 0 /\ eof = FALSE
    BY DEF Init
  <2>3. append \in BOOLEAN /\ eof \in BOOLEAN
    BY <2>2, Zenon
  <2>4. Len(<<>>) <= PipeSize
    BY EmptyType, SizesAssumption
  <2>5. cursor \in Nat /\ given \in Nat /\ cuts \in SUBSET Nat
    BY <1>2, <2>2
  <2>6. QED
    BY <1>2, <2>1, <2>2, <2>3, <2>4, <2>5, EmptyType, Zenon DEF ByteTypes
<1>5. Control
  BY TextsAssumption, Zenon DEF Init, Control, Stage, Reading, NoCommand, Procs
<1>6. Open
  BY DEF Init, Open, NoCommand, Procs
<1>7. InBytes
  <2>1. pc["ee"] = "edit" /\ pipe_in = <<>> /\ got = <<>> /\ cuts = {}
    BY DEF Init, Procs
  <2>2. QED
    BY <1>2, <2>1 DEF InBytes, Reading
<1>8. OutBytes
  BY DEF Init, OutBytes, NoCommand, Procs
<1>9. QED
  BY <1>3, <1>4, <1>5, <1>6, <1>7, <1>8 DEF IInv

\* Every state of sh_command's processes and pipes satisfies the invariant.
THEOREM Invariance == Spec => []IInv
<1>1. IInv /\ [Next]_vars => IInv'
  BY ControlTypesStep, ByteTypesStep, ControlStep, OpenStep, InBytesStep, OutBytesStep DEF IInv
<1>2. QED
  BY Initially, <1>1, PTL DEF Spec

\* The variables of sh_command's processes keep their types, a pipe never holds
\* more than its size, and the cursor never leaves the text, for texts, pipes
\* and reads of any size.
THEOREM TypeCorrect == Spec => []TypeOK
<1>1. IInv => TypeOK
  BY DEF IInv, ControlTypes, ByteTypes, TypeOK
<1>2. QED
  BY Invariance, <1>1, PTL

\* A step of the processes is a step of what the commands promise, or none.
LEMMA Simulation ==
  ASSUME IInv, [Next]_vars
  PROVE  [F!Next]_F!fvars
<1> USE DEF IInv
<1>u. ASSUME UNCHANGED <<text, cursor, flags, given, eof, said>>, state' = state
      PROVE  [F!Next]_F!fvars
  BY <1>u DEF F!fvars
<1>1. ASSUME Command PROVE [F!Next]_F!fvars
  <2>1. state = "idle" /\ state' = "asked"
    BY <1>1 DEF Command, Goto, state, ControlTypes, Control, Stage, Reading, Procs
  <2>2. flags' \in [in_pipe : BOOLEAN, out_pipe : BOOLEAN]
    BY <1>1 DEF Command
  <2>3. given' = 0 /\ eof' = FALSE /\ said' = <<>> /\ UNCHANGED <<text, cursor>>
    BY <1>1 DEF Command
  <2>4. QED
    BY <2>1, <2>2, <2>3 DEF F!Next, F!Ask
<1>2. ASSUME ForkChild PROVE [F!Next]_F!fvars
  <2>1. UNCHANGED <<text, cursor, flags, given, eof, said>>
    BY <1>2 DEF ForkChild, editor, report
  <2>2. state = "asked" /\ state' \in {"asked", "over"}
    BY <1>2 DEF ForkChild, Goto, state, ControlTypes, Control, Stage, Reading, Procs
  <2>3. QED
    BY <2>1, <2>2 DEF F!Next, F!Begin, F!fvars
<1>3. ASSUME StartReading PROVE [F!Next]_F!fvars
  BY <1>3, <1>u DEF state, ControlTypes, Control, Stage, Reading, Begun, Procs,
     StartReading, Goto, editor, reader, report, family, pipes
<1>4. ASSUME Read PROVE [F!Next]_F!fvars
  BY <1>4, <1>u DEF state, ControlTypes, Control, Stage, Reading, Begun, Procs, Read, Goto,
     editor, reader, report, family, pipes
<1>5. ASSUME ReadEof PROVE [F!Next]_F!fvars
  BY <1>5, <1>u DEF state, ControlTypes, Control, Stage, Reading, Begun, Procs, ReadEof,
     Goto, editor, reader, report, family, pipes
<1>6. ASSUME EndReading PROVE [F!Next]_F!fvars
  <2>1. state = "over" /\ state' = "idle" /\ flags.in_pipe
    BY <1>6 DEF EndReading, Goto, state, ControlTypes, Control, Stage, Reading, Procs
  <2>2. said = got
    <3>1. got \in Seq(Bytes) /\ said = got \o pipe_in /\ pipe_in = <<>>
      BY <1>6 DEF EndReading, ByteTypes, InBytes, Reading
    <3>2. QED
      BY <3>1, ConcatEmpty
  <2>3. text' = F!Place(text, cursor, said, cuts) /\ cursor' = F!LineStart(text, cursor)
    BY <1>6, <2>2 DEF EndReading
  <2>4. cuts \in SUBSET (1..(Len(said) - 1))
    BY <2>2 DEF InBytes
  <2>5. UNCHANGED <<flags, given, eof, said>>
    BY <1>6 DEF EndReading, report
  <2>6. QED
    BY <2>1, <2>3, <2>4, <2>5, Zenon DEF F!Next, F!End
<1>7. ASSUME WaitOther PROVE [F!Next]_F!fvars
  BY <1>7, <1>u DEF state, ControlTypes, Control, Stage, Reading, Begun, Procs, WaitOther,
     Goto, editor, reader, report, family, pipes
<1>8. ASSUME Continue PROVE [F!Next]_F!fvars
  <2>1. state = "over" /\ state' = "idle" /\ ~flags.in_pipe
    BY <1>8 DEF Continue, Goto, state, ControlTypes, Control, Stage, Reading, Procs
  <2>2. UNCHANGED <<text, cursor, flags, given, eof, said>>
    BY <1>8 DEF Continue, report
  <2>3. QED
    BY <2>1, <2>2 DEF F!Next, F!End
<1>9. ASSUME NEW p \in Procs, Shell(p) PROVE [F!Next]_F!fvars
  BY <1>9, <1>u DEF state, ControlTypes, Control, Stage, Reading, Begun, Procs, Shell, Goto,
     editor, reader, report, family, pipes
<1>10. ASSUME NEW p \in Procs, ForkCommand(p) PROVE [F!Next]_F!fvars
  <2>1. UNCHANGED <<text, cursor, flags, given, eof, said>>
    BY <1>10 DEF ForkCommand, editor, report
  <2>2. state = "asked" /\ state' \in {"runs", "over"}
    BY <1>10 DEF ForkCommand, Goto, state, ControlTypes, Control, Stage, Reading, Procs
  <2>3. QED
    BY <2>1, <2>2 DEF F!Next, F!Begin
<1>11. ASSUME NEW p \in Procs, WriteOut(p) PROVE [F!Next]_F!fvars
  BY <1>11, <1>u DEF state, ControlTypes, Control, Stage, Reading, Begun, Procs, WriteOut,
     Goto, editor, reader, report, family, pipes
<1>12. ASSUME NEW p \in Procs, CloseOut(p) PROVE [F!Next]_F!fvars
  BY <1>12, <1>u DEF state, ControlTypes, Control, Stage, Reading, Begun, Procs, CloseOut,
     Goto, editor, reader, report, family, pipes
<1>13. ASSUME NEW p \in Procs, WaitCommand(p) PROVE [F!Next]_F!fvars
  BY <1>13, <1>u DEF state, ControlTypes, Control, Stage, Reading, Begun, Procs,
     WaitCommand, Goto, Waited, editor, reader, report, family, pipes
<1>14. ASSUME ExitChild PROVE [F!Next]_F!fvars
  BY <1>14, <1>u DEF state, ControlTypes, Control, Stage, Reading, Begun, Procs, ExitChild,
     Goto, editor, reader, report, family, pipes
<1>15. ASSUME ChildEnds PROVE [F!Next]_F!fvars
  BY <1>15, <1>u DEF state, ControlTypes, Control, Stage, Reading, Begun, Procs, ChildEnds,
     Goto, editor, reader, report, family, pipes
<1>16. ASSUME Exec PROVE [F!Next]_F!fvars
  BY <1>16, <1>u DEF state, ControlTypes, Control, Stage, Reading, Begun, Procs, Exec, Goto,
     editor, reader, report, family, pipes
<1>17. ASSUME Settle PROVE [F!Next]_F!fvars
  BY <1>17, <1>u DEF state, ControlTypes, Control, Stage, Reading, Begun, Procs, Settle,
     Goto, editor, reader, report, family, pipes
<1>18. ASSUME Hear PROVE [F!Next]_F!fvars
  <2>1. cmd.at = "run" /\ cmd.want = "read" /\ flags.out_pipe
    BY <1>18 DEF Hear, Control
  <2>2. state = "runs" /\ state' = "runs"
    BY <1>18 DEF Hear, Settled, state, ControlTypes, Control, Stage, Reading, Procs
  <2>3. UNCHANGED <<text, cursor, flags, said>>
    BY <1>18 DEF Hear, editor
  <2>4. /\ given \in Nat /\ Len(pipe_out) \in Nat /\ Len(unsent) \in Nat
        /\ given + Len(pipe_out) + Len(unsent) = Len(text)
    BY <2>1 DEF ByteTypes, OutBytes
  <2>5. CASE pipe_out # <<>> /\ given' = given + 1 /\ UNCHANGED eof
    <3>1. Len(pipe_out) >= 1
      BY <2>5, TailType DEF ByteTypes
    <3>2. given < Len(text)
      BY <2>4, <3>1
    <3>3. QED
      BY <2>1, <2>2, <2>3, <2>5, <3>2 DEF F!Next, F!Hear
  <2>6. CASE pipe_out = <<>> /\ ends.out_w = {} /\ eof' = TRUE /\ UNCHANGED given
    <3>1. \E q \in Procs : pc[q] \in {"write", "wait"}
      BY <2>1 DEF ControlTypes, Control, Stage, Reading, Procs
    <3>2. unsent = <<>>
      BY <2>6, <3>1 DEF Open, OutBytes
    <3>3. given = Len(text)
      BY <2>4, <2>6, <3>2, EmptyType
    <3>4. QED
      BY <2>1, <2>2, <2>3, <2>6, <3>3 DEF F!Next, F!Hear
  <2>7. QED
    BY <1>18, <2>5, <2>6, Zenon DEF Hear
<1>19. ASSUME Say PROVE [F!Next]_F!fvars
  <2>1. cmd.want \in Bytes /\ flags.in_pipe
    BY <1>19 DEF Say, Control
  <2>2. state = "runs" /\ state' = "runs"
    BY <1>19 DEF Say, Settled, state, ControlTypes, Control, Stage, Reading, Procs
  <2>3. said' = Append(said, cmd.want) /\ UNCHANGED <<text, cursor, flags, given, eof>>
    BY <1>19 DEF Say, editor
  <2>4. QED
    BY <2>1, <2>2, <2>3, Zenon DEF F!Next, F!Say
<1>20. ASSUME Exit PROVE [F!Next]_F!fvars
  <2>1. UNCHANGED <<text, cursor, flags, given, eof, said>>
    BY <1>20 DEF Exit, editor, report
  <2>2. state = "runs" /\ state' = "over"
    BY <1>20 DEF Exit, Ended, state, ControlTypes, Control, Stage, Reading, Procs
  <2>3. QED
    BY <2>1, <2>2 DEF F!Next, F!Over
<1>21. ASSUME Interrupt PROVE [F!Next]_F!fvars
  <2>1. UNCHANGED <<text, cursor, flags, given, eof, said>>
    BY <1>21 DEF Interrupt, editor, report
  <2>2. CASE sigint = "abort"
    <3>1. state \in {"asked", "over"} /\ state' = "gone"
      BY <1>21, <2>2 DEF Interrupt, Goto, state, ControlTypes, Control, Stage, Reading, Procs
    <3>2. QED
      BY <2>1, <3>1 DEF F!Next, F!Interrupted
  <2>3. CASE sigint # "abort"
    <3>1. state = "runs" /\ state' = "over"
      BY <1>21, <2>3 DEF Interrupt, Ended, state, ControlTypes, Control, Stage, Reading, Procs
    <3>2. QED
      BY <2>1, <3>1 DEF F!Next, F!Over
  <2>4. QED
    BY <2>2, <2>3
<1>22. CASE UNCHANGED vars
  BY <1>22, <1>u DEF state, ControlTypes, Control, Stage, Reading, Begun, Procs, vars,
     editor, reader, report, family, pipes
<1>23. QED
  BY <1>1, <1>2, <1>3, <1>4, <1>5, <1>6, <1>7, <1>8, <1>9, <1>10, <1>11,
     <1>12, <1>13, <1>14, <1>15, <1>16, <1>17, <1>18, <1>19, <1>20, <1>21, <1>22
     DEF Next, Editor, Run, Child, Program

\* sh_command implements EeFilter, for texts, pipes and reads of any size: a
\* command run with '>' reads the text from its start and the end of file behind
\* all of it; what one run with '<' writes, all of it and nothing else, is put in
\* at the cursor; the editor goes on once the command is over; and ^C does not
\* end it while a command runs.
THEOREM Implements == Spec => Filters
<1>1. Init => F!Init
  BY DEF Init, F!Init, state, NoCommand, Procs
<1>2. IInv /\ [Next]_vars => [F!Next]_F!fvars
  BY Simulation
<1>3. QED
  BY <1>1, <1>2, Invariance, PTL DEF Spec, Filters, F!Spec
=============================================================================
