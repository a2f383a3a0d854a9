------------------------------ MODULE EeShell -------------------------------
(* ee's sh_command: the editor, the child it forks to send the text while it *)
(* reads the command's output, the command, and the two pipes between them.  *)
(*                                                                           *)
(* "ee" runs a command by itself, unless '<' was given: then it forks        *)
(* "child", which goes down the same path with its standard output in        *)
(* pipe_in, and reads pipe_in through get_file.  The command is external: it *)
(* settles on its next read, write or exit and blocks until that is done.    *)
(* Left out: pipe() failing, and signals sent by other programs.             *)
EXTENDS Integers, Sequences

CONSTANTS Bytes,      \* the characters of a text, "nl" among them
          Texts,      \* the texts a session starts with: [text, cursor]
          InStrings,  \* what earlier reads may have left in in_string
          PipeSize,   \* how many bytes a pipe holds
          ChunkSize,  \* how many bytes get_file asks for (512)
          MaxSaid,    \* bound: how much a command writes
          MaxCommands \* bound: how many commands are given

ASSUME SizesAssumption == PipeSize \in Nat \ {0} /\ ChunkSize \in Nat \ {0}
ASSUME BoundsAssumption == MaxSaid \in Nat /\ MaxCommands \in Nat
ASSUME TextsAssumption ==
  /\ "nl" \in Bytes /\ Bytes \cap {"none", "read", "exit", "nul"} = {}
  /\ \A s \in Texts : /\ s.text \in Seq(Bytes) /\ s.text # <<>> /\ s.text[Len(s.text)] = "nl"
                      /\ s.cursor \in 0..(Len(s.text) - 1)
  /\ \A s \in InStrings : s \in [1..(ChunkSize + 1) -> Bytes \cup {"nul"}] /\ s[ChunkSize + 1] = "nul"

Procs == {"ee", "child"}

VARIABLES pc,         \* where the editor and its child are in sh_command
          cmd,        \* the command: [at, want]
          flags,      \* [in_pipe, out_pipe] as '<' and '>' set them
          text, cursor,
          pipe_in,    \* the bytes in the pipe from the command
          pipe_out,   \* the bytes in the pipe to it
          ends,       \* who has which end open: [in_w, out_r, out_w]
          unsent,     \* what is still to be written to pipe_out
          in_string,  \* get_file's buffer
          got,        \* what get_file has read
          append,     \* its flag: the next chunk continues the line
          cuts,       \* the places in got where it did not
          sigint, sigchld, \* what the editor does on SIGINT and SIGCHLD
          raw,        \* the terminal is in raw mode
          dying,      \* children that have closed their files and not yet ended
          zombies,    \* children that have ended and not been waited for
          given, eof, said, \* what the command has read and written
          commands    \* how many more commands are given

editor == <<flags, text, cursor, raw, sigint, commands>>
reader == <<in_string, got, append, cuts>>
report == <<given, eof, said>>
family == <<sigchld, dying, zombies>>
pipes  == <<pipe_in, pipe_out, ends, unsent>>
vars   == <<pc, cmd, editor, reader, report, family, pipes>>

NoCommand == [at |-> "none", want |-> "none"]

Init ==
  /\ pc = [p \in Procs |-> IF p = "ee" THEN "edit" ELSE "none"]
  /\ cmd = NoCommand
  /\ flags = [in_pipe |-> FALSE, out_pipe |-> FALSE]
  /\ \E s \in Texts : text = s.text /\ cursor = s.cursor
  /\ pipe_in = <<>> /\ pipe_out = <<>>
  /\ ends = [in_w |-> {}, out_r |-> {}, out_w |-> {}]
  /\ unsent = <<>>
  /\ in_string \in InStrings
  /\ got = <<>> /\ append = FALSE /\ cuts = {}
  /\ sigint = "abort" /\ sigchld = "default" /\ raw = TRUE
  /\ dying = 0 /\ zombies = 0
  /\ given = 0 /\ eof = FALSE /\ said = <<>>
  /\ commands = MaxCommands

\* What the editor's user sees of it all.
state ==
  IF pc["ee"] = "gone" THEN "gone"
  ELSE IF pc["ee"] = "edit" THEN "idle"
  ELSE CASE cmd.at = "none"              -> "asked"
         [] cmd.at \in {"forked", "run"}  -> "runs"
         [] cmd.at \in {"zombie", "over"} -> "over"

F == INSTANCE EeFilter

Goto(p, where) == pc' = [pc EXCEPT ![p] = where]
-----------------------------------------------------------------------------
(* The editor.                                                             *)

\* command, with any number of '<' and '>' before the '!', up to the fork; the
\* terminal is left as it is when the output is read.
Command ==
  /\ pc["ee"] = "edit" /\ commands > 0 /\ commands' = commands - 1
  /\ \E i, o \in BOOLEAN : flags' = [in_pipe |-> i, out_pipe |-> o]
  /\ Goto("ee", IF flags'.in_pipe THEN "pipe" ELSE "shell")
  /\ raw' = flags'.in_pipe
  /\ given' = 0 /\ eof' = FALSE /\ said' = <<>>
  /\ UNCHANGED <<cmd, text, cursor, sigint, reader, family, pipes>>

\* pipe(pipe_in) and fork; the child's standard output and error are the pipe.
ForkChild ==
  /\ pc["ee"] = "pipe"
  /\ \/ /\ pc' = [ee |-> "fork", child |-> "shell"]
        /\ ends' = [ends EXCEPT !.in_w = {"ee", "child"}]
        /\ UNCHANGED cmd
     \/ /\ Goto("ee", "fork")
        /\ ends' = [ends EXCEPT !.in_w = {"ee"}]
        /\ cmd' = [cmd EXCEPT !.at = "over"]
  /\ UNCHANGED <<editor, reader, report, family, pipe_in, pipe_out, unsent>>

\* Mutant: the editor keeps the end of the pipe it does not write to.
StartReading_KeepsEnd ==
  /\ pc["ee"] = "fork" /\ Goto("ee", "read")
  /\ sigchld' = "ignore"
  /\ got' = <<>> /\ cuts' = {} /\ append' = F!Blank(text, cursor)
  /\ UNCHANGED <<cmd, editor, in_string, report, dying, zombies, pipe_in, pipe_out, ends, unsent>>

\* SIGCHLD is ignored only now that the child runs; the end to write to is
\* closed and get_file starts, on a line of its own unless the line is blank.
StartReading ==
  /\ pc["ee"] = "fork" /\ Goto("ee", "read")
  /\ sigchld' = "ignore"
  /\ ends' = [ends EXCEPT !.in_w = @ \ {"ee"}]
  /\ got' = <<>> /\ cuts' = {} /\ append' = F!Blank(text, cursor)
  /\ UNCHANGED <<cmd, editor, in_string, report, dying, zombies, pipe_in, pipe_out, unsent>>

\* One read and get_line: what is there is taken, up to ChunkSize bytes.  The
\* next chunk continues the line unless the byte of in_string behind this one,
\* left there by an earlier read, is a newline.
Read ==
  /\ pc["ee"] = "read" /\ pipe_in # <<>>
  /\ LET n == IF Len(pipe_in) < ChunkSize THEN Len(pipe_in) ELSE ChunkSize
     IN /\ got' = got \o SubSeq(pipe_in, 1, n)
        /\ pipe_in' = SubSeq(pipe_in, n + 1, Len(pipe_in))
        /\ in_string' = [i \in DOMAIN in_string |-> IF i <= n THEN pipe_in[i] ELSE in_string[i]]
        /\ append' = (in_string[n + 1] # "nl")
  /\ cuts' = IF append \/ got = <<>> THEN cuts ELSE cuts \cup {Len(got)}
  /\ UNCHANGED <<pc, cmd, editor, report, family, pipe_out, ends, unsent>>

ReadEof ==
  /\ pc["ee"] = "read" /\ pipe_in = <<>> /\ ends.in_w = {}
  /\ Goto("ee", "close")
  /\ UNCHANGED <<cmd, editor, reader, report, family, pipes>>

\* Mutant: position is set to 0.
EndReading_Zero ==
  /\ pc["ee"] = "close" /\ Goto("ee", "edit")
  /\ text' = F!Place(text, cursor, got, cuts)
  /\ cursor' = F!LineStart(text, cursor) - 1
  /\ sigchld' = "default"
  /\ cmd' = NoCommand
  /\ got' = <<>> /\ append' = FALSE /\ cuts' = {}
  /\ UNCHANGED <<flags, raw, sigint, commands, in_string, report, dying, zombies, pipes>>

\* The cursor goes to the start of its line, SIGCHLD is no longer ignored and
\* command clears the flags.
EndReading ==
  /\ pc["ee"] = "close" /\ Goto("ee", "edit")
  /\ text' = F!Place(text, cursor, got, cuts)
  /\ cursor' = F!LineStart(text, cursor)
  /\ sigchld' = "default"
  /\ cmd' = NoCommand
  /\ got' = <<>> /\ append' = FALSE /\ cuts' = {}
  /\ UNCHANGED <<flags, raw, sigint, commands, in_string, report, dying, zombies, pipes>>

\* The newline after the prompt, and the terminal's mode again.
Continue ==
  /\ pc["ee"] = "prompt" /\ Goto("ee", "edit")
  /\ raw' = TRUE
  /\ cmd' = NoCommand
  /\ UNCHANGED <<flags, text, cursor, sigint, commands, reader, report, family, pipes>>
-----------------------------------------------------------------------------
(* Running the command: the editor, or its child.                          *)

\* SIGINT is ignored, by the process p, and pipe_out made.
Shell(p) ==
  /\ pc[p] = "shell" /\ Goto(p, "run")
  /\ sigint' = IF p = "ee" THEN "ignore" ELSE sigint
  /\ ends' = IF flags.out_pipe THEN [ends EXCEPT !.out_r = {p}, !.out_w = {p}] ELSE ends
  /\ pipe_out' = <<>>
  /\ UNCHANGED <<cmd, flags, text, cursor, raw, commands, reader, report, family,
                 pipe_in, unsent>>

\* fork: the command has every end its parent has.  The parent closes the end
\* it does not read from and starts to write the text it has.
ForkCommand(p) ==
  /\ pc[p] = "run" /\ Goto(p, IF flags.out_pipe THEN "write" ELSE "wait")
  /\ unsent' = IF flags.out_pipe THEN text ELSE <<>>
  /\ LET left == [ends EXCEPT !.out_r = @ \ {p}]
     IN \/ /\ cmd' = [at |-> "forked", want |-> "none"]
           /\ ends' = [k \in DOMAIN ends |-> left[k] \cup {"cmd" : q \in ends[k] \cap {p}}]
        \/ /\ cmd' = [cmd EXCEPT !.at = "over"]
           /\ ends' = left
  /\ UNCHANGED <<editor, reader, report, family, pipe_in, pipe_out>>

\* write blocks while the pipe is full.  With nobody to read it fails, SIGPIPE
\* being ignored (ee.c:544), and the loop goes on.
WriteOut(p) ==
  /\ pc[p] = "write" /\ unsent # <<>>
  /\ unsent' = Tail(unsent)
  /\ \/ ends.out_r = {} /\ UNCHANGED pipe_out
     \/ /\ ends.out_r # {} /\ Len(pipe_out) < PipeSize
        /\ pipe_out' = Append(pipe_out, Head(unsent))
  /\ UNCHANGED <<pc, cmd, editor, reader, report, family, pipe_in, ends>>

CloseOut(p) ==
  /\ pc[p] = "write" /\ unsent = <<>>
  /\ Goto(p, "wait")
  /\ ends' = [ends EXCEPT !.out_w = @ \ {p}]
  /\ UNCHANGED <<cmd, editor, reader, report, family, pipe_in, pipe_out, unsent>>

\* What follows the loop of waits: the child exits, the editor takes SIGINT
\* again and prompts.
Waited(p) ==
  /\ Goto(p, IF p = "ee" THEN "prompt" ELSE "exit")
  /\ sigint' = IF p = "ee" THEN "abort" ELSE sigint
  /\ UNCHANGED <<flags, text, cursor, raw, commands, reader, report, pipes>>

\* Mutant: any child's end will do.
WaitOther_Any ==
  /\ pc["ee"] = "wait" /\ zombies > 0
  /\ zombies' = zombies - 1 /\ UNCHANGED <<cmd, sigchld, dying>>
  /\ Waited("ee")

\* wait returns a child of an earlier command: once more.
WaitOther ==
  /\ pc["ee"] = "wait" /\ zombies > 0
  /\ zombies' = zombies - 1
  /\ UNCHANGED <<pc, cmd, editor, reader, report, sigchld, dying, pipes>>

\* wait returns the command, or -1 because there is no child.
WaitCommand(p) ==
  /\ pc[p] = "wait"
  /\ \/ cmd.at = "zombie" /\ cmd' = [cmd EXCEPT !.at = "over"]
     \/ cmd.at = "over" /\ (p = "ee" => dying = 0 /\ zombies = 0) /\ UNCHANGED cmd
  /\ Waited(p)
  /\ UNCHANGED family
-----------------------------------------------------------------------------
(* The end of the child: its files are closed before its parent knows.     *)

ExitChild ==
  /\ pc["child"] = "exit" /\ Goto("child", "none")
  /\ ends' = [k \in DOMAIN ends |-> ends[k] \ {"child"}]
  /\ dying' = dying + 1
  /\ UNCHANGED <<cmd, editor, reader, report, sigchld, zombies, pipe_in, pipe_out, unsent>>

ChildEnds ==
  /\ dying > 0 /\ dying' = dying - 1
  /\ zombies' = IF sigchld = "ignore" THEN zombies ELSE zombies + 1
  /\ UNCHANGED <<pc, cmd, editor, reader, report, sigchld, pipes>>
-----------------------------------------------------------------------------
(* The command.                                                            *)

\* Between fork and exec: standard input is the pipe, whose ends are closed.
Exec ==
  /\ cmd.at = "forked" /\ cmd' = [cmd EXCEPT !.at = "run"]
  /\ ends' = [ends EXCEPT !.out_w = @ \ {"cmd"}]
  /\ UNCHANGED <<pc, editor, reader, report, family, pipe_in, pipe_out, unsent>>

\* What it does next.  A command that has seen the end of file does not read
\* again; standard input and output that are not pipes do not matter here.
Settle ==
  /\ cmd.at = "run" /\ cmd.want = "none"
  /\ \E w \in {"read", "exit"} \cup Bytes :
       /\ w = "read" => flags.out_pipe /\ ~eof
       /\ w \in Bytes => flags.in_pipe /\ Len(said) < MaxSaid
       /\ cmd' = [cmd EXCEPT !.want = w]
  /\ UNCHANGED <<pc, editor, reader, report, family, pipes>>

Settled == cmd' = [cmd EXCEPT !.want = "none"]

Hear ==
  /\ cmd.at = "run" /\ cmd.want = "read" /\ Settled
  /\ \/ /\ pipe_out # <<>> /\ pipe_out' = Tail(pipe_out)
        /\ given' = given + 1
        /\ UNCHANGED eof
     \/ /\ pipe_out = <<>> /\ ends.out_w = {}
        /\ eof' = TRUE
        /\ UNCHANGED <<given, pipe_out>>
  /\ UNCHANGED <<pc, editor, reader, said, family, pipe_in, ends, unsent>>

Say ==
  /\ cmd.at = "run" /\ cmd.want \in Bytes /\ Settled
  /\ Len(pipe_in) < PipeSize
  /\ pipe_in' = Append(pipe_in, cmd.want)
  /\ said' = Append(said, cmd.want)
  /\ UNCHANGED <<pc, editor, reader, given, eof, family, pipe_out, ends, unsent>>

\* Its end, by itself or by a signal.
Ended ==
  /\ cmd' = [at |-> "zombie", want |-> "none"]
  /\ ends' = [k \in DOMAIN ends |-> ends[k] \ {"cmd"}]

Exit ==
  /\ cmd.at = "run" /\ cmd.want = "exit" /\ Ended
  /\ UNCHANGED <<pc, editor, reader, report, family, pipe_in, pipe_out, unsent>>

\* ^C at a terminal that is not raw: SIGINT to the editor and to the command,
\* which has the default handler again once it is exec'd.
Interrupt ==
  /\ ~raw /\ pc["ee"] # "gone"
  /\ sigint = "abort" \/ cmd.at = "run"
  /\ IF sigint = "abort" THEN Goto("ee", "gone") ELSE UNCHANGED pc
  /\ IF cmd.at = "run" THEN Ended ELSE UNCHANGED <<cmd, ends>>
  /\ UNCHANGED <<editor, reader, report, family, pipe_in, pipe_out, unsent>>
-----------------------------------------------------------------------------
Editor == Command \/ ForkChild \/ StartReading \/ Read \/ ReadEof \/ EndReading \/ WaitOther
            \/ Continue

Run(p) == Shell(p) \/ ForkCommand(p) \/ WriteOut(p) \/ CloseOut(p) \/ WaitCommand(p)

Child == ExitChild \/ ChildEnds

Program == Exec \/ Settle \/ Hear \/ Say \/ Exit

Next == Editor \/ (\E p \in Procs : Run(p)) \/ Child \/ Program \/ Interrupt

Spec == Init /\ [][Next]_vars

\* Each process runs on, the user ends each prompt, and the command does what
\* it has settled on as soon as it can.
Fairness ==
  /\ WF_vars(Editor) /\ WF_vars(Child) /\ WF_vars(Program)
  /\ \A p \in Procs : WF_vars(Run(p))

FairSpec == Spec /\ Fairness
-----------------------------------------------------------------------------
(* Properties.                                                             *)

Ends == SUBSET (Procs \cup {"cmd"})

\* Every variable keeps its type, and the pipes their size.
TypeOK ==
  /\ pc \in [Procs -> {"none", "edit", "pipe", "fork", "read", "close", "prompt", "shell",
                       "run", "write", "wait", "exit", "gone"}]
  /\ cmd \in [at : {"none", "forked", "run", "zombie", "over"},
              want : {"none", "read", "exit"} \cup Bytes]
  /\ flags \in [in_pipe : BOOLEAN, out_pipe : BOOLEAN]
  /\ text \in Seq(Bytes) /\ cursor \in Nat
  /\ pipe_in \in Seq(Bytes) /\ Len(pipe_in) <= PipeSize
  /\ pipe_out \in Seq(Bytes) /\ Len(pipe_out) <= PipeSize
  /\ ends \in [in_w : Ends, out_r : Ends, out_w : Ends]
  /\ unsent \in Seq(Bytes)
  /\ in_string \in [1..(ChunkSize + 1) -> Bytes \cup {"nul"}] /\ in_string[ChunkSize + 1] = "nul"
  /\ got \in Seq(Bytes) /\ append \in BOOLEAN /\ cuts \in SUBSET Nat
  /\ sigint \in {"abort", "ignore"} /\ sigchld \in {"default", "ignore"} /\ raw \in BOOLEAN
  /\ dying \in Nat /\ zombies \in Nat
  /\ given \in Nat /\ eof \in BOOLEAN /\ said \in Seq(Bytes)
  /\ commands \in Nat

\* sh_command keeps what EeFilter promises.  A command run with '>' reads the
\* text from its start, and the end of file behind all of it; what one run with
\* '<' has written, all of it and nothing else, is put in at the cursor; the
\* editor goes on once the command is over, whatever children of earlier
\* commands end meanwhile; and ^C does not end it while a command runs.
Filters == F!Spec

\* Neither the pipes nor the waits hold anyone up for good: after each command
\* the editor edits again, or has been interrupted (ee.c:3221).
Returns == []<>(pc["ee"] \in {"edit", "gone"})
=============================================================================
