# Verification of apple-core

TLA+ models of the programs apple-core adds to its upstream sources, TLC runs
that check them on small instances, and TLAPS proofs of the properties that
matter most. `PROJECT.json` lists the components, the runs, the mutants, the
source lines behind every definition, the findings, the hazards and the theorems.

## 1. The system

apple-core is a build tree for Darwin's userland. Most of it is Makefiles,
vendored headers and patches to code kept elsewhere. The logic that is its own is
in `src/bsd_additions`: four programs, about 13,500 lines of C with the editor's
own curses library, a tenth of the lines of the tree. Paths below are relative to
that directory.

### Inventory

| component | state | operations | what is hard | what makes it correct |
|---|---|---|---|---|
| `timeout`: conversions | none but `errno` | `parse_duration`, `parse_signal`, `set_interval` | rounding, limits, a stale `errno` | durations and signals mean what they say |
| `timeout`: process | four flags set by the handler, `killsig`, `timedout`, `pstat`; pending signals, timer, child | `main`'s start and loop, `sig_handler`, `send_sig` | every statement may be interrupted by a signal, the timer or the child's exit | the status returned is the command's; no signal without a cause; never to a reaped pid; the escalation ends |
| `ee`: text and cursor | list of lines, `point`, `position`, `scr_*`, `absolute_lin`, deleted text | some thirty key handlers that call each other | the same place is kept in five variables, updated by hand | the variables agree; buffers suffice; editing loses nothing |
| `ee`: files, sessions | list of files, `in_file_name`, `text_changes`; the disk | `check_fp`, `get_file`, `write_file`, `finish`, `quit`, `file_op`, `leave_op`, SIGINT | chunk boundaries, several files, failure of a write | what is read is the file; nothing is lost or overwritten without a question |
| `ee`: shell commands | two pipes, `in_pipe`, `out_pipe`, the children | `sh_command` | two forks, signal dispositions, short reads | the command gets the text, its output is put in, nobody blocks |
| `ee`: prompts, names | the prompt's string | `get_string`, `resolve_name`, `command` | partial expansion, ownership of names | the name used is the name meant |
| `ee`: formatting | as the text, the deleted word | `Format`, `Auto_Format` | joins and splits around the cursor, by way of the deleted word | words are kept, the margin is met, the loops end |
| `ee`: keyboard (`new_curse`) | pushed-back bytes, `Noblock`, `Time_Out`, the alarm | `wgetch`, `Get_key`, `ungetch`, `Clear` | a timer against the keyboard, calls inside calls, SIGWINCH | no byte overtakes another; a lost terminal ends the editor |
| `ee`: menus, modes, configuration | options | `menu_op`, `modes_op`, `ee_init`, `dump_ee_conf` | rewriting the file in place | what is saved is read back |
| `ee`: screen and `new_curse`'s output | windows, virtual screen | `wrefresh`, `doupdate` | SIGWINCH in the middle of drawing | the terminal shows the window |
| `indent`: parser | `p_stack`, `il`, `cstk`, `tos`, `i_l_follow`, `case_ind`, states saved at `#if` | `parse`, `reduce`, `#if`/`#else`/`#endif` | any input, right or wrong; limits tested late | indices stay in the stack; indentation follows the nesting |
| `indent`: main | the output line, `force_nl`, styles | the token switch, `dump_line` | when a line ends relative to `parse` | every line gets its construct's level |
| `indent`: scanner, input, comments, options | buffers, type names, options | `lexi`, `fill_buffer`, `pr_comment`, `set_option` | two input buffers, saved comments | no text is lost |
| `factor` | `val`, `fact` | `convert_str2bn`, `pr_fact` | ends of the table and of the word | factors multiply out, ascend and are prime |
| build system | stamps in the work directory | Make rules | what a stamp depends on | a change is built |

The programs do not interact with each other. Inside `ee` everything meets in the
text buffer: files, formatting and shell commands are sequences of its handlers.
In `indent`, main feeds the parser and reads its levels when a line is output.

## 2. Modules

| module | models | uses |
|---|---|---|
| `TimeoutArgs` | `timeout.c`: conversions, over ticks | |
| `Timeout` | `timeout.c`: `main`, handler, kernel, command | `TimeoutArgs` |
| `TimeoutProofs` | theorems about `Timeout` | `Timeout` |
| `Induction` | least and greatest elements, induction over sets of numbers, recursive functions | |
| `EeText` | bytes, lines, columns, words | |
| `EeDocument` | abstract: what the manual page says of the editing keys | |
| `EeBuffer` | the editor's handlers | `EeText` |
| `EeMotionProofs` | lemmas about `EeBuffer`: columns, `Sound`, motions | `EeBuffer`, `Induction` |
| `EeBufferProofs` | theorems about `EeBuffer` | `EeMotionProofs` |
| `EeEdits` | `EeBuffer`'s lines as one text; implements `EeDocument` | `EeBuffer`, `EeDocument` |
| `EeFile` | files and sessions | `EeEdits` |
| `EeFormat` | `Format`, `Auto_Format` | `EeEdits` |
| `EeFilter` | abstract: what a shell command does to the text | |
| `EeShell` | `sh_command`, its processes and pipes; implements `EeFilter` | |
| `EeShellProofs` | theorems about `EeShell` | `EeShell` |
| `EeKeys` | `new_curse.c`: `wgetch`, `Get_key` | |
| `EeKeysProofs` | theorems about `EeKeys` | `EeKeys`, `Induction` |
| `IndentParser` | `parse.c`, conditionals | |
| `IndentProgram` | main over well-formed programs | `IndentParser` |
| `IndentProofs` | theorems about `IndentParser` and `IndentProgram` | `IndentProgram` |
| `Factor` | `factor.c` without OpenSSL, `pr_tbl.c` | |
| `FactorProofs` | theorems about `Factor` | `Factor`, `Induction` |
| `MC*` | instances for TLC | |

An operator named `X_Something` next to `X` is `X` with a plausible mistake in
it. The `mutants` of `PROJECT.json` say which property notices which of them.

### timeout

`pc` names the statement main executes next; each action is one statement or the
part between two system calls. `HandleAsync` runs `sig_handler` where signals are
not blocked (between `sigaction`, lines 271-275, and `sigprocmask`, line 298);
afterwards only `Sigsuspend` delivers one, chosen by the kernel. `TimerExpires`,
`CommandExits`, `Exec` and `ExternalSignal` are the environment and are marked
external. A command is described by whether exec succeeds and whether it resists
signals. `sent`, `expired`, `received` and `chosen` record what happened; main
reads none of them. In background mode timeout
signals itself (`kill(getpid(), ...)`): SIGKILL ends it, SIGTERM becomes pending.
The `prctl` shim of `include/sys/prctl.h` decides whether it waits for more
children.

### ee

The globals are one record, since the handlers call each other: each C function
is an operator from record to record, an action is one key. `point` is an offset.
A line is its bytes, with the NUL, the space allocated and its number. Drawing is
left out, and `horiz_offset` with it. `d_char` is not initialised in the code, so
its first value is any of `DeletedChars`. `EeFile` adds the disk, the list of
files and the commands that leave, read and write. A file is written in two
steps, as `fopen` truncates it first: SIGINT (`Abort`) or a full disk may come in
between. Answers to prompts are chosen in the step that asks. `input_file` is kept
because `check_fp` does not reset it on every path: after a directory that the user
does not want to leave it is still set, and the command `read` opens the next file
of the command line, or follows a null pointer (`phase` is then `crashed`).

**The document.** `EeDocument` knows one sequence of characters with a cursor in
it, and the last character, word and line deleted: no lines, buffers or columns.
`EeEdits` maps `EeBuffer`'s list of lines onto it, and the property
`EditsDocument` says that every key handler, with all it calls, does one step of
the document. `pending` has the characters given and not yet put in: a step of the
document puts in the first of them, perhaps with a line break in front of a word
of that line, so that what is typed or undeleted is what arrives. In one place the
code does otherwise than the manual page: `^k` at the end of the text deletes the
character before the cursor (`ee.c:2723`, `ee.1:100`). `EeDocument` follows the
page, and `EditsDocument` names the exception (`BackspaceAtEnd`).

**Formatting.** `EeFormat` runs the two formatters over `EeBuffer`'s handlers.
Their locals are the record `f` and every iteration of a loop is a step, so that
a loop that does not end is a behaviour that does not. `before` is the text as it
was when formatting began. The cursor starts anywhere, where motions can put it
(`Placed`, which models no code).

**Shell commands.** `EeShell` has three processes: the editor, the child it forks
when it reads the output (`<`), and the command, which is external and settles on
a read, a write or its exit before it does it. A pipe is its bytes and the set of
processes that hold each end; a fork copies ends, and reading or writing blocks as
POSIX has it. Either fork may fail. A child closes its files before its parent
hears of its end (`dying`, then `zombies`). `get_file` reads what is there;
`get_line` goes on with the line unless the byte of `in_string` behind a short
read, left there by an earlier one, is a newline: those places are `cuts`.
`EeFilter` has the text, the state of the command as the user sees it and what the
command has read and said; `state` is the refinement mapping's only computed
variable.

**Keys.** In this build (neither `SYS5` nor `BSD_SELECT`) a read that does not
block and finds nothing returns -1, which `wgetch` takes for success: the byte is
what an uninitialised variable holds, any of `Junk`. Calls nest, because a byte
read inside a sequence may be an escape, and because `wgetch` calls itself after
SIGWINCH; `frames` is that stack. Bytes carry their place in the input, so that
`KeysInOrder` can follow them: `keys` has the places of those the editor has been
given, `lost` of those that are thrown away. That happens in four places: to the
byte that arrives with the alarm, to what `in_buff` has no room for, to a function
key inside a sequence, which is cut to a `char`, and, at the end of every
sequence, to all input not yet read, which the ioctl `TIOCSETP` flushes
(`new_curse.c:2387`). The read of a terminal that has gone away returns 0.

### indent

`p_stack`, `il` and `cstk` up to `tos` are the sequence `ps.stack`. One call of
`parse` is several steps (`Flush`, `Shift`, the rules of `reduce`), because an
index can go wrong in each. `highest` is the highest index written. Between calls
main does anything it could do: another construct, the end of a line, the resets
around a function, a preprocessor line. `IndentProgram` replaces "anything" by
what C's grammar allows, keeps what decides where main ends lines, and carries
with every symbol the level a reader expects.

### factor

`Read` is main's loop, `convert_str2bn` and the tests for 0 and 1; `Seek` is one
turn of the search, `Divide` one turn of the division. After the last prime of
the table has been divided out the search starts one entry behind it. What lies
there is any member of `Beyond`; a zero may trap or not. A number is written as
its digits, so that choosing a base and printing in one are what they are in the
code. `strtoul` is taken to set `errno` for no digits, as Darwin's does.

## 3. Runs

| run | instance | shows |
|---|---|---|
| `timeout` | all modes, six signals for `-s`, edge cases of the conversions, two outside signals, fair | `TypeOK`, `StatusIsTheCommands`, `SignalHasCause`, `NeverSignalsReaped`, `GracePeriod`, `EscalationEnds`, `ExitNoticedByTimer` |
| `timeout_lostwakeup` | no limit, no outside signal, fair | violates `ExitNoticed` |
| `timeout_killafter` | `-k`, two SIGINTs, fair | violates `KillAfter` |
| `ee_buffer` | five texts, one longer than the window, four keys of any kind, a margin of three columns | `EditsDocument`; the cursor's variables agree (`PointAtPosition`, `CursorColumn`, `RowOnScreen`, `AbsoluteLine`), `BufferFits`, `ChangesNoticed`, `GotoNumbered` |
| `ee_session` | six command lines, five kinds of file, four keys or commands | `FTypeOK`, `Opens`, `ReadInserts`, `NoSilentLoss`, `NoClobber`, `RoundTrip` |
| `ee_shell` | two commands with any of `<` and `>`, up to three bytes said, pipes of one byte, fair | `TypeOK`, `Filters` (the refinement), `Returns` |
| `ee_keys` | three bytes typed, two sequences that begin alike, alarm, SIGWINCH and junk anywhere | `TypeOK`, `KeysInOrder` |
| `ee_hangup` | two bytes and a lost terminal, fair | violates `HangupEnds` |
| `ee_format` | all texts of three lines out of five kinds, the cursor anywhere, two keys | `WordsKept`, `ParagraphFits`, `FormatEnds` |
| `indent_stack` | any constructs, a stack of four, one level of `#if` | `TypeOK`, `NoUnderflow`, `WritesBounded` |
| `indent_program` | all programs of six statements, four styles of braces | `CaseLabels`, `Accepted`, `LineLevel` |
| `factor` | numerals of three digits, a table of three primes | `ProductKept`, `PrimesAscending`, `ReadsBehind`, `ReadBack`, `Ends` |

### Bounds

* `timeout`: time is in ticks, two to a "microsecond" and four of those to a
  second, so that truncation to nothing and the limit both occur. `MaxExt = 2`:
  one outside signal uses up the first kill, a second one meets the state that
  is left. The theorems hold for any number.
* `ee`: tabs are three columns and lines grow by three bytes with a slack of two,
  so that a handful of characters resizes a line. `MaxKeys = 4` reaches
  delete, move, undelete, move. The window has six rows (`LastLine = 5`) against a
  text of nine lines, and a jump is long from four lines on instead of 30; it goes
  to 0, 2 and 8 (`LineNumbers`), before, within and far down the text.
  `ChunkSize = 2` puts chunk boundaries before, on and behind newlines.
* `ee_shell`: a pipe of one byte makes every write a possible block, a text of
  three bytes does not fit, and three bytes said are more than a chunk of two. A
  second command meets the child the first one left. The theorems hold for all
  sizes.
* `ee_keys`: the sequences have two and three bytes; `in_buff` has room for three
  instead of 100, so that it overflows; calls nest three deep (`MaxDepth`).
* `ee_format`: a margin of four columns, words of one to four characters and one
  that is wider; the first key formats, the second formats what the first left.
  `WrapAt`, where a line is broken at the margin, is a maximum over word starts; an
  assumption of `MCEeFormat` compares it with the loop of `prev_word` that `insert`
  runs, for all lines of up to five bytes. The two agree in that a word behind a
  single blank at the start of a line is no place to break.
* `indent`: a stack of four lets every rule fire and overflow as well; levels are
  bounded by `MaxLevel` in the runs where the program may be wrong, since closing
  braces lower them without end. Six statements suffice for `if` in `do` in
  `switch` with an `else` that belongs to an outer `if`.
* `factor`: the word ends at 600, the table at 5. 7 is the first prime beyond it,
  77 and 121 are products it cannot divide; 55 starts a search behind the table.

`CHECK_DEADLOCK FALSE` stands everywhere: all four programs end.

### Fairness

`timeout`: weak fairness of main, of the delivery of unblocked signals, of the
timer and of exec, which the scheduler and the clock give. The command's exit and
outside signals are not fair. `factor`: weak fairness of the loop; its input ends.
`ee_shell`: weak fairness of each process, which the scheduler gives; of the user
who ends a prompt; and of the command doing what it has settled on. The last is an
assumption about the command, and it is the one under which "nobody blocks for
good" is a statement about the editor: a command that sleeps for ever keeps it
waiting. ^C is not fair. `ee_hangup`: weak fairness of the editor's own steps and
of an alarm that is set. `ee_format`: the formatter runs on (`Running`, weak
fairness of `Formatting` written out, as it is enabled just when `f # Idle`).

## 4. Proofs

All theorems hold for every value of the constants that satisfies the assumptions
named in the modules.

**timeout.** `TypeCorrect`, `StatusCorrect`, `CauseCorrect`, `ReapedSafe` and
`GraceKept`.
`StatusIsTheCommands` is not inductive: it says nothing of the loop. `IInv` adds
`StartInv` (before the handlers are in place nothing is pending or sent, and
there is no child before fork), `ReapInv` (a reaped child means that the loop is
over, and `pstat` is its status; `child_done` only then) and `CauseInv` (a pending
or flagged SIGALRM has a cause, a flagged signal was received, and `killsig`
differs from `-s` only once something was sent). One lemma per part shows that
every action keeps it. `NeverSignalsReaped` is an action property: the steps that
send are in the loop, where by `ReapInv` the child is not reaped. `GracePeriod`,
that KILL follows only when the second interval has run out, is one too, and needs
an invariant of its own: `GraceInv` says that as long as nothing came from outside
a signal of the timer that is still to be handled is that of the interval that
`killsig` stands for.

**ee's buffer.** For every text, window, margin, chunk size and sequence of keys:
`BufferNeverOverrun` (no handler writes behind the bytes a line has),
`PointKept`, `RowKept`, `AbsoluteLineKept`, `NoChangeMissed`, `ColumnKept`,
`TypesKept`, and the action property `GotoKept`. None of these is inductive alone:
a handler that moves the cursor by a column relies on the place, one that inserts
on the room of the line, and `scr_vert` stays in the window only because the line
the cursor goes to exists. `Sound` puts them together, as a predicate on the
record of the editor's globals, so that what a handler calls (`bol`, `insert_line`,
`next_line`, ...) has a lemma of its own: from a sound buffer it gives a sound one,
and what it did is said by `Moved`, `Landed`, `Changed` and their like. A handler's
lemma puts those of its calls together. `EeMotionProofs` has the invariant and the
motions, `EeBufferProofs` the editing and the theorems. `IInv` adds `Noticed`:
`undel_word` does not set `text_changes`, and needs not to, because there is a
deleted word only after a change. `ColumnKept` alone has a hypothesis, that there is no DEL in the
texts and among the keys: with one the theorem is false (section 5). The code that
loops over a line (`scanline`, `find_pos`) is written as recursive functions;
`Recursion` of `Induction` gives their equations.

**ee's keys.** `OrderKept` and `TypesKept`, for any set of keys that begin with
escape, any size of `in_buff` and calls nested to any depth. `Order` says that
every byte that is with the editor, in the calls of `Get_key` from the outermost to
the innermost, in `value`, in `in_buff` or with the terminal was typed after those
before it in this list; `Seen` is their set. `Input` adds that these are just the
bytes typed that are not lost. One lemma for each way a byte takes (`Push`, `Pop`,
`Take`, `PushBack`, `Give`) shows that the order is kept. `Stage` is needed because
the order is kept only if `value` is empty when a byte is read, and `Room` because
a sequence that has become longer than every key is never read on.

**ee's shell commands.** `Invariance`, `TypeCorrect`, and `Implements`: `EeShell`
implements `EeFilter`, for texts, pipes, chunks and outputs of any size and any
number of commands. Two parts of `IInv` carry the control: `Control` ties the
places of the editor and its child to the stage of the command, the flags and the
signal dispositions, and `Open` says which process must still hold which end of a
pipe. Two carry the bytes: by `InBytes` what was said is what has been read and
what is in the pipe, in order; by `OutBytes` what was heard, what is in the pipe
and what is unsent add up to the text. Why each is needed: the filter's step that
sees the end of file may only happen when all of the text has been read, which
follows from `OutBytes` once `Open` says that the end to write to is open until
all is sent; and the step that puts in the output needs `InBytes` at the moment
all writers are gone. `Simulation` maps each action to a step of the filter or to
none.

**indent.** `TypeCorrect`, `StackFloor` and `StackCeiling`. `reduce` reads
`p_stack[tos - 1]` without a test. What keeps it inside is that the very first
call, `parse(semicolon)`, makes the bottom entry a statement list, which no rule
takes away. `IInv` says so of the stack and of every stack saved at an `#if`, with
`Booting` for the first call itself, and bounds the length: one below the limit
before a push, so that two entries pushed at once go one beyond it and stop.
`CaseLabelsHold` is about well-formed programs. `case_ind` is saved in the entry of
a switch: `Cases` says that every switch on the stack has saved the level for the
labels of the one around it. A closing brace drops whatever is on top, so the
invariant also needs that a switch on top is still to have its statement
(`SwitchOpen`); that follows from what may stand next to what in the rest of the
program (`WellFormed`, `Followed`).

**factor.** `LinesArePrimes`, `ReadsOneBehind`, `ProductsKept` and
`OutputReadBack`, for every table that is an initial part of the primes (`TableAssumption`), every word size and whatever lies
behind the table. `IInv` adds to what is printed that no prime the search has gone
past divides what is left (`Tried`), that what is left divides the number, and
that everything printed so far is a prime of the table up to the one being tried.
The arithmetic is in a few lemmas: divisibility is transitive, every number above
one has a least divisor, which is prime, and so a rest that no prime of the table
divides is prime or larger than the square of the last one (`RestLarge`). The
least divisor comes from `Least` of `Induction`. That what was printed times what
is left is the number follows by induction on the factors, and that what is printed
is read back by induction on the digits: `strtoul` is modelled as the value of the
numeral, and a number's digits have the number as their value in both bases.
`InputsAssumption` only says what a numeral is made of.

**Induction.** The library's induction theorems have an operator as a parameter,
which no installed prover instantiates. The lemmas of `Induction` speak of a set
instead: a set of numbers that is not empty has a least element, a set that has 0
and with each number the next has all of them, and a function defined by recursion
on the numbers up to n exists and satisfies its equation. A property is proved by
applying them to the set of the numbers that have it.

Only model-checked: liveness and everything under fairness (`ENABLED` is out of
the prover's reach); `EditsDocument`, which flattens the lines to one text with
`FlattenSeq`, a fold the provers know nothing of; the editor's files (`FTypeOK`,
`Opens`, `ReadInserts`, `NoSilentLoss`, `NoClobber`, `RoundTrip`) and formatting
(`WordsKept`, `ParagraphFits`); and of what is said of whole programs `Accepted`
and `LineLevel`, whose invariant has to relate the whole stack to the part of the
program already read.

## 5. Findings

1. **timeout loses the command's exit** (`timeout.c:298`, run
   `timeout_lostwakeup`). Handlers are in place before fork, signals are blocked
   after it, and the loop suspends before it looks at the flags. A SIGCHLD handled
   in between is never seen; with duration 0 timeout never returns.
2. **`-k` has no effect after a second signal** (`timeout.c:361`, run
   `timeout_killafter`). The loop ends and `wait` runs with SIGALRM blocked.
3. **ee may loop for ever when its terminal goes away** (`new_curse.c:2278`, run
   `ee_hangup`). `wgetch` resets `Time_Out` on every call inside an escape
   sequence. An alarm between `Get_key`'s test and that reset is forgotten, it is
   set only once, and `Get_key` takes -1 for a byte, so that main's own test for
   the end of input (`ee.c:629`) is never reached.

Disagreements met while modelling that no run is spent on; the properties name
the exception where they touch it:

* timeout in background mode kills itself with SIGKILL at the limit; a signal sent
  before exec is lost; with `-s ALRM` the second timer is swallowed; with `-s CHLD`
  and `-k` the command's exit is; an outside signal may shorten the grace period.
* ee, text: `find_pos` takes DEL to be one column wide and `scanline` two;
  `goto_line` over 30 lines or more moves `absolute_lin` the wrong way; `^k` at the
  end of the text deletes the character before; line numbers are stale until
  RESEQUENCE; `undel_word` does not set `text_changes`.
* ee, files: reading a file in the middle of a line leaves `point` and `position`
  at different places (`ee.c:2203`); `ee +1 file` starts on line 2; a full disk
  goes unnoticed. When a directory of the command line is opened and the user
  answers that they do not want to leave, `input_file` stays set: a later `read`
  opens the next file of the command line instead of the one named, and crashes if
  there is none (`ee.c:2158-2173`).
* ee, formatting: the cursor is not always kept "in the same relative position"
  (`ee.c:3932`). In a paragraph of one line below two blank lines `bol` goes up
  from position 1, nothing is formatted and the cursor ends two lines up;
  `Auto_Format` moves it when the word it counts by comes to begin a line. The
  deleted word is restored but its length, `d_wrd_len`, is not (`ee.c:4098`). A
  word with a `.` or `>` in front that comes to begin a line ends the paragraph.
* ee, shell commands: a short read followed by a stale newline in `in_string`
  breaks a line of the output (`ee.c:2360`; `EeFilter` allows it as `cuts`). The
  child and the command inherit the end of `pipe_in` that they do not use.
* ee, keys: what was typed behind an escape sequence and is not read when the
  sequence ends is thrown away (`new_curse.c:2387`), as is a byte that arrives as
  the alarm goes off; a function
  key inside a sequence is cut to its low byte; only main looks at -1.
* indent: `case_ind` is not in the state that `#else` restores (`indent.c:1176`),
  so case labels behind it may be misplaced; a brace may be written one entry
  beyond `p_stack` before the test; with `-bl -cli2` the brace of a switch is
  misplaced.
* factor: a plain `0`, or a number with a leading zero, is refused, although
  factor.6 says that 0 ends the input and that decimal digits are decimal; a rest
  with two factors above 65537 is printed as one; after 65537 itself is divided
  out the entry behind the table is read, which decides nothing unless it is zero.

## 6. Not modelled

The map covers few of the tree's 131,000 lines because nine tenths of them are not
programs of this repository: headers vendored under `include/` and `frameworks/`,
`tiffdump` of libtiff, and Makefiles. They declare and configure; there is no
state of their own to model. Of the four programs the following is left out.

* `ee`: drawing, menus, messages and help, and the output half of `new_curse`.
  They show the state that `EeBuffer` models; what they do depends on the
  terminal. The line editor of the prompts and the expansion of names in
  `resolve_name`: an answer is any answer. The configuration file, which
  `dump_ee_conf` replaces in three steps (`ee.c:4287`), as no state of the editor
  depends on it after the start. `spell_op` and `ispell_op`, which are sequences of
  commands modelled here. 16-bit characters.
* `indent`: the scanner, the expressions, `pr_comment`, the buffers of `io.c` with
  the comments saved before a brace, and the options. The parser is driven by any
  sequence of constructs, or by all well-formed programs, instead of by text. The
  backup copy behind which the file is truncated (`indent.c:1266`) is two copies in
  a row without recovery.
* `factor`: the half for OpenSSL, which is not compiled.
* The stub and the script in `mk` keep no state; the stamps of the ports are files
  that make compares.

Hazards of these parts that no property covers: descriptors `check_fp` leaves open
(`ee.c:2177`); windows replaced by the handler of SIGWINCH (`new_curse.c:738`); the
two input buffers (`io.c:291`) and the limit of unclosed parentheses
(`indent.c:572`); a port's copy that depends on its patches only
(`mk/port.mk:225`). In parts that are modelled, without a property of their own:
handlers in place before exec (`timeout.c:286`) and the comment saved for a brace
(`indent.c:357`).
