------------------------------- MODULE EeFile -------------------------------
(***************************************************************************)
(* Sessions of ee: the files that are opened one after the other, read     *)
(* into the text, written, saved and left behind.                          *)
(*                                                                         *)
(* The text buffer and the keys that edit it are EeBuffer's.  A file is a  *)
(* sequence of bytes; file names are plain ones, which resolve_name leaves *)
(* alone.  A prompt is answered in the step that asks it, and what the     *)
(* user agreed to is kept in agreed.  A file is written in two steps,      *)
(* since fopen truncates it before anything is written.                    *)
(***************************************************************************)
EXTENDS EeEdits

CONSTANTS ChunkSize,   \* 512: what get_file reads at a time
          Disks,       \* what may be on the disk
          Arguments,   \* command lines: name of the program, files, +line or 0
          Answers      \* names that may be given at a prompt

NoName == ""

ASSUME FileAssumption == ChunkSize \in Nat \ {0}

VARIABLES
  disk,           \* for each name, what is there
  top_of_stack,   \* the files still to be edited
  input_file,     \* does check_fp take its file from there?
  start_at_line,  \* +line, 0 when there is none
  in_file_name,   \* the name of the file being edited
  restricted,     \* is it ree?
  phase,          \* "start", "open", "edit", "write", "ended" or "crashed"
  writing,        \* the file being written, and what is done next
  \* What has happened; no handler reads these.
  agreed,         \* did the user agree to lose the text or overwrite a file?
  source,         \* the bytes that were read or saved last
  doubt           \* was something lost that ee does not notice?

fvars == <<disk, top_of_stack, input_file, start_at_line, in_file_name, restricted, phase,
           writing, agreed, source, doubt>>
allvars == <<vars, fvars>>

Readable(n)  == disk[n].kind \in {"file", "readonly"}
Exists(n)    == disk[n].kind # "none"

FInit ==
  /\ Init
  /\ disk \in Disks
  /\ \E a \in Arguments :
       /\ top_of_stack = a.files /\ input_file = (a.files # <<>>)
       /\ start_at_line = a.line
       /\ restricted = (a.name = "ree")
  /\ in_file_name = NoName /\ phase = "start"
  /\ writing = [name |-> NoName, next |-> "none"]
  /\ agreed = FALSE /\ source = <<>> /\ doubt = FALSE
-----------------------------------------------------------------------------
(* Reading.                                                                *)

\* What get_line finds between the newlines of a chunk: one piece more than
\* there are newlines.
Pieces(chunk) ==
  LET cuts == SetToSortSeq({0, Len(chunk) + 1} \cup {i \in DOMAIN chunk : chunk[i] = "nl"}, <)
  IN [j \in 1..(Len(cuts) - 1) |-> SubSeq(chunk, cuts[j] + 1, cuts[j + 1] - 1)]

\* A new line has exactly the space it needs.
NewLineOf(piece, number) ==
  [s |-> Append(piece, "nul"), max |-> Len(piece) + 1, no |-> number]

\* get_line: the pieces become lines behind the current one, the first of them
\* the current line's continuation if append is set.
get_line(b, chunk, append) ==
  LET pieces == Pieces(chunk)
      skip   == IF append THEN 1 ELSE 0
      l      == curr_line(b)
      new    == [j \in 1..(Len(pieces) - skip) |-> NewLineOf(pieces[j + skip], l.no + j)]
      grown  == [l EXCEPT !.s = Content(l) \o Append(pieces[1], "nul"),
                          !.max = @ + Len(pieces[1]) + 1]
  IN [b EXCEPT !.lines = SubSeq(@, 1, b.cur - 1) \o <<IF append THEN grown ELSE l>>
                           \o new \o SubSeq(@, b.cur + 1, Len(@)),
               !.cur = @ + Len(new)]

\* The chunks of a file.  All but the last fill the buffer, so that the byte
\* behind them is the NUL at in_string[512] and the next one continues the line.
Chunks(b, bytes, append) ==
  FoldLeftDomain(LAMBDA c, i : get_line(c, SubSeq(bytes, (i - 1) * ChunkSize + 1,
                                                  Min({i * ChunkSize, Len(bytes)})),
                                        i > 1 \/ append),
                 b, [i \in 1..((Len(bytes) + ChunkSize - 1) \div ChunkSize) |-> i])

\* Mutant: a line that is not blank is not split.
get_file_NotSplit(b, bytes) ==
  LET blank == Length(b) = 1
      c     == Chunks(b, bytes, blank)
  IN IF bytes # <<>> /\ Length(c) = 1
     THEN [c EXCEPT !.lines = RemoveAt(@, c.cur), !.cur = @ - 1] ELSE c

\* A line that is not blank is split at the cursor; the empty line behind the
\* last newline is taken away again.
get_file(b, bytes) ==
  LET blank == Length(b) = 1
      c     == Chunks(IF blank THEN b ELSE left(insert_line(b, FALSE), FALSE), bytes, blank)
  IN IF bytes # <<>> /\ Length(c) = 1
     THEN [c EXCEPT !.lines = RemoveAt(@, c.cur), !.cur = @ - 1] ELSE c

\* Mutant: the cursor stays on the last line read.
OpenText_Last(b, bytes, line) ==
  LET c == [get_file(b, bytes) EXCEPT !.point = 0]
  IN IF line = 0 THEN c ELSE move_down(c, line - 1)

\* check_fp for the file to be edited: the cursor is put on the first line, and
\* +line is left to move_rel.
OpenText(b, bytes, line) ==
  LET c == [get_file(b, bytes) EXCEPT !.cur = 1, !.point = 0]
  IN IF line = 0 THEN c ELSE move_down(c, line - 1)

\* check_fp for the command read: the cursor's line and place on the screen are
\* put back and point is at the start of the line.
ReadText(b, bytes) ==
  [get_file(b, bytes) EXCEPT !.cur = b.cur, !.point = 0, !.scr_vert = b.scr_vert,
                             !.scr_horz = b.scr_horz, !.text_changes = TRUE]

\* Mutant: the cursor stays on a line that is freed.
delete_text_CursorStays(b) ==
  [b EXCEPT !.lines = <<[b.lines[1] EXCEPT !.s = <<"nul">>, !.no = 1]>>,
            !.point = 0, !.position = 1,
            !.scr_pos = 0, !.scr_vert = 0, !.scr_horz = 0,
            !.absolute_lin = @ - (Lines(b) - 1)]

\* absolute_lin loses a line for each one freed, wherever the cursor was.
delete_text(b) ==
  [b EXCEPT !.lines = <<[b.lines[1] EXCEPT !.s = <<"nul">>, !.no = 1]>>,
            !.cur = 1, !.point = 0, !.position = 1,
            !.scr_pos = 0, !.scr_vert = 0, !.scr_horz = 0,
            !.absolute_lin = @ - (Lines(b) - 1)]
-----------------------------------------------------------------------------
(* Opening and leaving files.                                              *)

Start ==
  /\ phase = "start"
  /\ phase' = IF top_of_stack # <<>> THEN "open"
              ELSE IF restricted THEN "ended" ELSE "edit"
  /\ UNCHANGED <<vars, disk, top_of_stack, input_file, start_at_line, in_file_name,
                 restricted, writing, agreed, source, doubt>>

\* quit, once it is allowed to: on to the next file, with b emptied, or the end.
Leave(b, stack) ==
  IF stack = <<>> THEN phase' = "ended" /\ e' = b /\ UNCHANGED input_file
                  ELSE phase' = "open" /\ e' = delete_text(b) /\ input_file' = TRUE

\* Mutant: the changes are dropped without a question.
Ask_Unasked(b, stack) == Leave(b, stack) /\ agreed' = FALSE

\* quit(0) asks before it drops changes.
Ask(b, stack) ==
  \/ /\ ~b.text_changes
     /\ Leave(b, stack) /\ agreed' = FALSE
  \/ /\ b.text_changes
     /\ Leave([b EXCEPT !.text_changes = FALSE], stack) /\ agreed' = TRUE
  \/ /\ b.text_changes
     /\ phase' = "edit" /\ e' = b /\ agreed' = FALSE /\ UNCHANGED input_file

\* check_fp with input_file set: the next file of the stack becomes the one being
\* edited.  A directory is left at once; if the user does not agree to that,
\* input_file stays set.
NextFile ==
  /\ top_of_stack # <<>>
  /\ LET name == Head(top_of_stack)
     IN /\ in_file_name' = name
        /\ \/ /\ disk[name].kind = "dir"
              /\ Ask(e, Tail(top_of_stack))
              /\ UNCHANGED <<start_at_line, source, loaded>>
           \/ /\ disk[name].kind = "none"
              /\ phase' = "edit" /\ agreed' = FALSE /\ input_file' = FALSE
              /\ source' = <<>> /\ loaded' = TextOf(e.lines)
              /\ UNCHANGED <<e, start_at_line>>
           \/ /\ Readable(name)
              /\ e' = OpenText(e, disk[name].bytes, start_at_line)
              /\ phase' = "edit" /\ agreed' = FALSE /\ input_file' = FALSE
              /\ start_at_line' = 0
              /\ source' = disk[name].bytes /\ loaded' = TextOf(e'.lines)
  /\ top_of_stack' = Tail(top_of_stack)

\* The next file is opened, by main or by quit.
CheckFp ==
  /\ phase = "open" /\ NextFile
  /\ UNCHANGED <<todo, keys, key, jumped, disk, restricted, writing, doubt>>

\* The command quit.
Quit ==
  /\ phase = "edit" /\ Press("quit", 0)
  /\ Ask(e, top_of_stack)
  /\ UNCHANGED <<todo, loaded, jumped, disk, top_of_stack, start_at_line, in_file_name,
                 restricted, writing, source, doubt>>

\* "no save" of leave_op's menu is quit(TRUE), and so is leaving a text without
\* changes.
LeaveOp ==
  /\ phase = "edit" /\ Press("leave", 0)
  /\ Leave(e, top_of_stack)
  /\ agreed' = e.text_changes
  /\ UNCHANGED <<todo, loaded, jumped, disk, top_of_stack, start_at_line, in_file_name,
                 restricted, writing, source, doubt>>
-----------------------------------------------------------------------------
(* Reading into the text and writing it.                                   *)

\* point and position name the same byte, as EeBuffer's handlers are stated for;
\* a session in which they have come apart is followed through file operations
\* only, and +line is not followed when they come apart in the same step.
Together == e.point = e.position - 1

\* check_fp for the file n named at a prompt; one that cannot be opened is left.
ReadNamed(n) ==
  /\ \/ Readable(n) /\ e' = ReadText(e, disk[n].bytes)
     \/ ~Readable(n) /\ UNCHANGED e
  /\ agreed' = FALSE
  /\ UNCHANGED <<phase, input_file, in_file_name, top_of_stack, start_at_line, source, loaded>>

\* top_of_stack->name, when there is no stack.
ReadNull ==
  /\ top_of_stack = <<>>
  /\ phase' = "crashed" /\ agreed' = FALSE
  /\ UNCHANGED <<e, input_file, in_file_name, top_of_stack, start_at_line, source, loaded>>

\* The command read, and "read a file" of the menu; neither does anything in
\* restricted mode.  With input_file still set the next file of the stack is
\* opened instead of the one named.
ReadFile(n) ==
  /\ phase = "edit" /\ Press("read", 0) /\ Together
  /\ \/ restricted /\ agreed' = FALSE
        /\ UNCHANGED <<e, phase, input_file, in_file_name, top_of_stack, start_at_line,
                       source, loaded>>
     \/ ~restricted /\ ~input_file /\ ReadNamed(n)
     \/ /\ ~restricted /\ input_file /\ (start_at_line # 0 => e.position = 1)
        /\ NextFile \/ ReadNull
  /\ UNCHANGED <<todo, jumped, disk, restricted, writing, doubt>>

\* Mutant: an existing file is overwritten without a question.
MayWrite_Unasked(n) == agreed' = FALSE

\* write_file asks before it overwrites a file it can read, other than the one
\* being edited.
MayWrite(n) == agreed' = (n # in_file_name /\ Exists(n))

\* write_file up to the opening of the file.  Nothing happens when the user says
\* no or when the file cannot be created.
Create(n, next) ==
  \/ /\ disk[n].kind \in {"none", "file"}
     /\ MayWrite(n)
     /\ disk' = [disk EXCEPT ![n] = [kind |-> "file", bytes |-> <<>>]]
     /\ phase' = "write" /\ writing' = [name |-> n, next |-> next]
  \/ /\ n # in_file_name /\ Exists(n)
     /\ agreed' = FALSE /\ UNCHANGED <<disk, phase, writing>>
  \/ /\ disk[n].kind \in {"dir", "readonly"}
     /\ MayWrite(n) /\ UNCHANGED <<disk, phase, writing>>

Unwritten == agreed' = FALSE /\ UNCHANGED <<disk, phase, writing>>

\* finish and "save" ask for a name when there is none, and give up when none is
\* given.
NamedCreate(next) ==
  IF in_file_name # NoName THEN Create(in_file_name, next)
  ELSE \E n \in Answers : IF n = NoName THEN Unwritten ELSE Create(n, next)

\* The command exit, and "save changes" of leave_op's menu.
Finish ==
  /\ phase = "edit" /\ Press("exit", 0)
  /\ NamedCreate("quit")
  /\ UNCHANGED <<e, todo, loaded, jumped, top_of_stack, input_file, start_at_line, in_file_name,
                 restricted, source, doubt>>

SaveFile ==
  /\ phase = "edit" /\ Press("save", 0)
  /\ IF restricted THEN Unwritten ELSE NamedCreate("save")
  /\ UNCHANGED <<e, todo, loaded, jumped, top_of_stack, input_file, start_at_line, in_file_name,
                 restricted, source, doubt>>

\* The command write, and "write a file" of the menu.
WriteFile ==
  /\ phase = "edit" /\ Press("write", 0)
  /\ IF restricted THEN Unwritten ELSE \E n \in Answers \ {NoName} : Create(n, "none")
  /\ UNCHANGED <<e, todo, loaded, jumped, top_of_stack, input_file, start_at_line, in_file_name,
                 restricted, source, doubt>>

\* Mutant: newlines are written between the lines only.
Output_Between(b) == Front(FlattenSeq([i \in DOMAIN b.lines |-> Append(Content(b.lines[i]), "nl")]))

\* The bytes write_file puts out: each line and a newline.
Output(b) == FlattenSeq([i \in DOMAIN b.lines |-> Append(Content(b.lines[i]), "nl")])

\* The rest of write_file and of its callers.  putc's and fclose's results are
\* not looked at, so that a full disk goes unnoticed.
Write ==
  /\ phase = "write"
  /\ LET all == Output(e)
     IN \E k \in 0..Len(all) :
          /\ disk' = [disk EXCEPT ![writing.name].bytes = SubSeq(all, 1, k)]
          /\ doubt' = (doubt \/ k < Len(all))
  /\ \/ /\ writing.next = "none"
        /\ phase' = "edit"
        /\ UNCHANGED <<e, input_file, in_file_name, source, loaded>>
     \/ /\ writing.next = "save"
        /\ phase' = "edit" /\ in_file_name' = writing.name
        /\ e' = [e EXCEPT !.text_changes = FALSE]
        /\ source' = Output(e) /\ loaded' = TextOf(e.lines) /\ UNCHANGED input_file
     \/ /\ writing.next = "quit"
        /\ Leave([e EXCEPT !.text_changes = FALSE], top_of_stack)
        /\ UNCHANGED <<in_file_name, source, loaded>>
  /\ agreed' = FALSE
  /\ UNCHANGED <<todo, keys, key, jumped, top_of_stack, start_at_line, restricted, writing>>

\* SIGINT: edit_abort ends the program, and exit writes out what is buffered.
Abort ==
  /\ phase \in {"open", "edit", "write"}
  /\ phase' = "ended" /\ key' = [op |-> "abort", n |-> 0]
  /\ \/ phase # "write" /\ UNCHANGED disk
     \/ /\ phase = "write"
        /\ \E k \in 0..Len(Output(e)) :
             disk' = [disk EXCEPT ![writing.name].bytes = SubSeq(Output(e), 1, k)]
  /\ UNCHANGED <<e, todo, keys, loaded, jumped, top_of_stack, input_file, start_at_line, in_file_name,
                 restricted, writing, agreed, source, doubt>>

\* wgetch fails: the terminal is gone.
Hangup ==
  /\ phase = "edit" /\ todo = <<>>
  /\ phase' = "ended" /\ key' = [op |-> "hangup", n |-> 0]
  /\ UNCHANGED <<e, todo, keys, loaded, jumped, disk, top_of_stack, input_file, start_at_line,
                 in_file_name, restricted, writing, agreed, source, doubt>>

\* The keys of EeBuffer.  undel_word does not set text_changes.
Key ==
  /\ phase = "edit" /\ Together
  /\ Next
  /\ agreed' = FALSE
  /\ doubt' = (doubt \/ (TextOf(e'.lines) # TextOf(e.lines) /\ ~e'.text_changes))
  /\ UNCHANGED <<disk, top_of_stack, input_file, start_at_line, in_file_name, restricted, phase,
                 writing, source>>

FNext == Start \/ CheckFp \/ Quit \/ LeaveOp \/ (\E n \in DOMAIN disk : ReadFile(n)) \/ Finish \/ SaveFile
           \/ WriteFile \/ Write \/ Abort \/ Hangup \/ Key

FSpec == FInit /\ [][FNext]_allvars
-----------------------------------------------------------------------------
(* Properties.                                                             *)

\* Every variable of a session keeps its type.
FTypeOK ==
  /\ TypeOK
  /\ \A n \in DOMAIN disk : disk[n].kind \in {"none", "dir", "file", "readonly"}
  /\ top_of_stack \in Seq(DOMAIN disk) /\ start_at_line \in Nat
  /\ in_file_name \in {NoName} \cup DOMAIN disk
  /\ phase \in {"start", "open", "edit", "write", "ended", "crashed"}
  /\ phase = "write" => writing.name \in DOMAIN disk
  /\ input_file \in BOOLEAN /\ restricted \in BOOLEAN /\ agreed \in BOOLEAN /\ doubt \in BOOLEAN

\* A text is that of a file when it has its bytes; a last line without a newline
\* counts as a line, and so does no line at all.
Terminated(bytes) ==
  IF bytes # <<>> /\ Last(bytes) = "nl" THEN bytes ELSE Append(bytes, "nl")
IsTextOf(b, bytes) ==
  /\ Flat(b) = Terminated(bytes)
  /\ \A i \in DOMAIN b.lines : "nl" \notin Range(b.lines[i].s)

\* A file that is opened, the first one or one after others have been left, is
\* read completely and divided at its newlines, wherever the chunks end; its
\* lines are numbered, and the cursor is on the line given with + (ee.1:66).
\* +1 is the exception: move_rel goes at least one line down.
Opens ==
  [][(phase = "open" /\ phase' = "edit" /\ Readable(in_file_name')) =>
       /\ IsTextOf(e', disk[in_file_name'].bytes)
       /\ \A i \in DOMAIN e'.lines : e'.lines[i].no = i
       /\ start_at_line # 1 => e'.cur = Min({Max({1, start_at_line}), Lines(e')})]_allvars

\* The file named for the command read, and no other, is put into the text, in
\* lines of its own at the cursor; the text before and behind it is kept, and
\* the file being edited is still the same (ee.1:215).  position stays where it
\* was and point goes to the start of its line: they agree if that was where the
\* cursor stood (ee.c:2203).  Excepted is a read after a directory that the user
\* did not want to go on from, when input_file is still set (ee.c:2171).
ReadInserts ==
  [][\A n \in DOMAIN disk : (ReadFile(n) /\ ~restricted /\ ~input_file) =>
       LET bytes  == Terminated(disk[n].bytes)
           behind == SubSeq(Flat(e), Len(Before(e)) + 1, Len(Flat(e)))
       IN /\ in_file_name' = in_file_name /\ Before(e') = Before(e)
          /\ e.position = 1 => Together'
          /\ IF Readable(n)
             THEN /\ e'.text_changes
                  /\ Flat(e') = Before(e) \o
                       (IF Length(e) = 1 THEN Front(bytes)
                        ELSE IF disk[n].bytes = <<>> THEN <<"nl">>
                        ELSE <<"nl">> \o bytes) \o behind
             ELSE e' = e]_allvars

\* Unless the user agrees to it, a text is left behind only if its file has it.
\* Two things go unnoticed and are excepted: an undeleted word after a save, and
\* a disk that is full (ee.c:2801 and ee.c:2545).  So is a read without a file to
\* open, which ends the program (ReadNull).
NoSilentLoss ==
  [][(/\ phase \in {"edit", "write"} /\ phase' \in {"open", "ended"}
      /\ key'.op \notin {"abort", "hangup"} /\ ~agreed' /\ ~doubt') =>
       \/ source = <<>> /\ Flat(e) = <<"nl">>
       \/ \E n \in DOMAIN disk : /\ n = IF phase = "write" THEN writing.name ELSE in_file_name
                                /\ IsTextOf(e, disk'[n].bytes)]_allvars

\* No existing file but the one being edited is truncated unless the user agrees.
NoClobber ==
  [][\A n \in DOMAIN disk :
       (disk'[n] # disk[n] /\ Exists(n)) =>
         n = in_file_name \/ agreed' \/ (phase = "write" /\ n = writing.name)]_allvars

\* Writing a text that was not changed gives back the file that was read, with
\* a newline at its end.
RoundTrip ==
  [][(phase = "write" /\ phase' # phase /\ ~e.text_changes /\ ~doubt' /\ key'.op # "abort") =>
       disk'[writing.name].bytes = Terminated(source)]_allvars
=============================================================================
