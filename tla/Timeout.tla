------------------------------ MODULE Timeout ------------------------------
(***************************************************************************)
(* timeout(1): the parent process of src/bsd_additions/timeout/timeout.c,  *)
(* its signal handler, and the command it runs.                            *)
(*                                                                         *)
(* main is sequential; what is hard about it is what happens between its   *)
(* statements.  A signal may arrive at any point, the handler runs at any  *)
(* point where signals are not blocked, the interval timer expires on its  *)
(* own and the command exits when it likes.  Each of those is an action    *)
(* here, and pc names the statement main is about to execute.              *)
(*                                                                         *)
(* The kernel (pending signals, the interval timer, fork, wait) and the    *)
(* command are external: they are modelled from the system calls that      *)
(* timeout.c makes.                                                        *)
(***************************************************************************)
EXTENDS TimeoutArgs, Sequences, FiniteSets

CONSTANTS Argvs,       \* command lines the program may be started with
          Commands,    \* behaviours of the command: [exec, stubborn]
          ExitCodes,   \* statuses the command may exit with
          ExtSignals,  \* signals other processes may send to timeout
          MaxExt       \* bound on how many of them arrive

EXIT_FAILURE   == 1
EXIT_TIMEOUT   == 124
EXIT_INVALID   == 125
EXIT_CMD_ERROR == 126
EXIT_CMD_NOENT == 127

Durations == [conv : BOOLEAN, ticks : Int, suffix : Suffixes]

SignalArgs == [kind : {"num", "name", "junk"}, num : Nat, name : Signals]

\* Every option has both argument fields; getopt_long fills in the one its
\* letter takes.
Options == [opt : {"k", "s", "foreground", "preserve", "usage"},
            dur : Durations, sig : SignalArgs]

\* operands: were a duration and a command given?
CommandLines == [opts : Seq(Options), duration : Durations, operands : BOOLEAN]

ASSUME ArgvAssumption == Argvs \subseteq CommandLines

ASSUME CommandAssumption ==
  /\ Commands \subseteq [exec : {"ok", "noent", "error"}, stubborn : BOOLEAN]
  /\ ExitCodes \subseteq 0..255
  /\ ExtSignals \subseteq Signals \ {"KILL", "STOP"}
  /\ MaxExt \in Nat

VARIABLES
  pc,             \* the statement of main executed next
  argv,           \* the options not yet parsed, and the operands
  errno,          \* is errno EINVAL or ERANGE?  (read by parse_signal)
  foreground, preserve, killsig, first_kill, second_kill, do_second_kill,
  sig_chld, sig_alrm, sig_term, sig_ign,     \* set by sig_handler
  timedout, child_done, pstat,
  exit_status,    \* what the parent of timeout sees
  handled,        \* signals whose disposition is sig_handler
  pending,        \* signals pending for timeout
  timer,          \* ITIMER_REAL: "off", or which set_interval armed it
  cmd, child, cstat,  \* the command: behaviour, process state, wait status
  ext,            \* signals the environment may still send
  \* What has happened; main reads none of these.
  chosen, sent, expired, received

main_vars   == <<argv, errno, foreground, preserve, killsig, first_kill,
                 second_kill, do_second_kill, timedout, child_done, pstat,
                 exit_status>>
flag_vars   == <<sig_chld, sig_alrm, sig_term, sig_ign>>
kernel_vars == <<handled, pending, timer>>
cmd_vars    == <<cmd, child, cstat>>
hist_vars   == <<chosen, sent, expired, received>>
vars == <<pc, main_vars, flag_vars, kernel_vars, cmd_vars, ext, hist_vars>>

NoStatus  == [kind |-> "none", code |-> 0, sig |-> NoSig]
Exited(c) == [kind |-> "exit", code |-> c, sig |-> NoSig]
Killed(s) == [kind |-> "sig", code |-> 0, sig |-> s]

Statuses == {NoStatus} \cup {Exited(c) : c \in 0..255} \cup {Killed(s) : s \in Signals}

Init ==
  /\ pc = "options"
  /\ argv \in Argvs
  /\ errno = FALSE
  /\ foreground = FALSE
  /\ preserve = FALSE
  /\ killsig = "TERM"
  /\ first_kill = 0
  /\ second_kill = 0
  /\ do_second_kill = FALSE
  /\ sig_chld = FALSE
  /\ sig_alrm = FALSE
  /\ sig_term = NoSig
  /\ sig_ign = NoSig
  /\ timedout = FALSE
  /\ child_done = FALSE
  /\ pstat = NoStatus
  /\ exit_status = NoStatus
  /\ handled = {}
  /\ pending = {}
  /\ timer = "off"
  /\ cmd \in Commands
  /\ child = "none"
  /\ cstat = NoStatus
  /\ ext = MaxExt
  /\ chosen = NoSig
  /\ sent = {}
  /\ expired = {}
  /\ received = {}

\* The process has ended: main returned, err() was called, or a signal
\* with its default action (or SIGKILL) ended it.
Ended == pc = "ended"

Exit(status) ==
  /\ pc' = "ended"
  /\ exit_status' = status

-----------------------------------------------------------------------------
(* Start-up.                                                               *)

ParseOption ==
  /\ pc = "options"
  /\ argv.opts # <<>>
  /\ argv' = [argv EXCEPT !.opts = Tail(@)]
  /\ LET o == Head(argv.opts)
     IN \/ /\ o.opt = "k"
           /\ LET d == parse_duration(o.dur)
              IN \/ /\ d.ok
                    /\ do_second_kill' = TRUE
                    /\ second_kill' = d.ticks
                    /\ UNCHANGED <<pc, exit_status>>
                 \/ /\ ~d.ok
                    /\ do_second_kill' = TRUE
                    /\ Exit(Exited(EXIT_INVALID))
                    /\ UNCHANGED second_kill
           /\ UNCHANGED <<errno, killsig, foreground, preserve>>
        \/ /\ o.opt = "s"
           /\ LET p == parse_signal(o.sig, errno)
              IN /\ errno' = p.errno
                 /\ \/ /\ p.sig # NoSig
                       /\ killsig' = p.sig
                       /\ UNCHANGED <<pc, exit_status>>
                    \/ /\ p.sig = NoSig
                       /\ Exit(Exited(EXIT_INVALID))
                       /\ UNCHANGED killsig
           /\ UNCHANGED <<do_second_kill, second_kill, foreground, preserve>>
        \/ /\ o.opt = "foreground"
           /\ foreground' = TRUE
           /\ UNCHANGED <<pc, exit_status, errno, killsig, do_second_kill,
                          second_kill, preserve>>
        \/ /\ o.opt = "preserve"
           /\ preserve' = TRUE
           /\ UNCHANGED <<pc, exit_status, errno, killsig, do_second_kill,
                          second_kill, foreground>>
        \/ /\ o.opt = "usage"
           /\ Exit(Exited(EXIT_FAILURE))
           /\ UNCHANGED <<errno, killsig, do_second_kill, second_kill,
                          foreground, preserve>>
  /\ UNCHANGED <<first_kill, timedout, child_done, pstat, flag_vars,
                 kernel_vars, cmd_vars, ext, hist_vars>>

ParseOperands ==
  /\ pc = "options"
  /\ argv.opts = <<>>
  /\ LET d == parse_duration(argv.duration)
     IN \/ /\ ~argv.operands
           /\ Exit(Exited(EXIT_FAILURE))
           /\ UNCHANGED first_kill
        \/ /\ argv.operands /\ ~d.ok
           /\ Exit(Exited(EXIT_INVALID))
           /\ UNCHANGED first_kill
        \/ /\ argv.operands /\ d.ok
           /\ first_kill' = d.ticks
           /\ pc' = "sigaction"
           /\ UNCHANGED exit_status
  /\ UNCHANGED <<argv, errno, foreground, preserve, killsig, second_kill,
                 do_second_kill, timedout, child_done, pstat, flag_vars,
                 kernel_vars, cmd_vars, ext, hist_vars>>

\* Mutant: the -1 that stands for an uncatchable -s signal is not skipped.
signums_Unskipped == {"TERM", "INT", "HUP", "CHLD", "ALRM", "QUIT"}
                       \cup (IF killsig \in {"KILL", "STOP"} THEN {NoSig} ELSE {killsig})

\* The signals of signums[]; KILL and STOP cannot be caught.
signums == {"TERM", "INT", "HUP", "CHLD", "ALRM", "QUIT"}
             \cup ({killsig} \ {"KILL", "STOP"})

InstallHandlers ==
  /\ pc = "sigaction"
  /\ handled' = signums
  /\ chosen' = killsig
  /\ pc' = "fork"
  /\ UNCHANGED <<main_vars, flag_vars, pending, timer, cmd_vars, ext,
                 sent, expired, received>>

Fork ==
  /\ pc = "fork"
  /\ \/ /\ child' = "forked"
        /\ pc' = "sigprocmask"
        /\ UNCHANGED exit_status
     \/ /\ Exit(Exited(EXIT_FAILURE))
        /\ UNCHANGED child
  /\ UNCHANGED <<argv, errno, foreground, preserve, killsig, first_kill,
                 second_kill, do_second_kill, timedout, child_done, pstat,
                 flag_vars, kernel_vars, cmd, cstat, ext, hist_vars>>

\* From here on signals are blocked everywhere but in sigsuspend.
BlockSignals ==
  /\ pc = "sigprocmask"
  /\ pc' = "set_interval"
  /\ UNCHANGED <<main_vars, flag_vars, kernel_vars, cmd_vars, ext, hist_vars>>

\* Mutant: the first timer is never set.
ArmFirst_NotArmed ==
  /\ pc = "set_interval"
  /\ pc' = "sigsuspend"
  /\ UNCHANGED <<main_vars, flag_vars, kernel_vars, cmd_vars, ext, hist_vars>>

ArmFirst ==
  /\ pc = "set_interval"
  /\ \/ /\ set_interval(first_kill) = "fail"
        /\ Exit(Exited(EXIT_FAILURE))
        /\ UNCHANGED timer
     \/ /\ set_interval(first_kill) # "fail"
        /\ timer' = IF set_interval(first_kill) = "arm" THEN "first" ELSE "off"
        /\ pc' = "sigsuspend"
        /\ UNCHANGED exit_status
  /\ UNCHANGED <<argv, errno, foreground, preserve, killsig, first_kill,
                 second_kill, do_second_kill, timedout, child_done, pstat,
                 flag_vars, handled, pending, cmd_vars, ext, hist_vars>>
-----------------------------------------------------------------------------
(* Signals to timeout.                                                     *)

\* Can the handler run between two statements of main?
Unblocked == pc \in {"fork", "sigprocmask"}

sig_handler(signo) ==
  IF sig_ign = signo
  THEN /\ sig_ign' = NoSig
       /\ UNCHANGED <<sig_chld, sig_alrm, sig_term>>
  ELSE /\ sig_term' = IF signo \in {"INT", "HUP", "QUIT", "TERM"}
                      THEN signo ELSE sig_term
       /\ sig_chld' = (sig_chld \/ signo = "CHLD")
       /\ sig_alrm' = (sig_alrm \/ signo = "ALRM")
       /\ UNCHANGED sig_ign

\* A pending signal is handled while signals are not blocked.
HandleAsync ==
  /\ Unblocked
  /\ \E s \in pending : /\ sig_handler(s)
                        /\ pending' = pending \ {s}
  /\ UNCHANGED <<pc, main_vars, handled, timer, cmd_vars, ext, hist_vars>>

\* sigsuspend runs one handler: the others stay blocked by sa_mask while it
\* runs, and by the restored mask when sigsuspend returns.
Sigsuspend ==
  /\ pc = "sigsuspend"
  /\ \E s \in pending : /\ sig_handler(s)
                        /\ pending' = pending \ {s}
  /\ pc' = "check"
  /\ UNCHANGED <<main_vars, handled, timer, cmd_vars, ext, hist_vars>>

\* Another process signals timeout.  A signal with no handler yet has its
\* default action, which for SIGCHLD is to be ignored.
ExternalSignal ==
  /\ ~Ended
  /\ ext > 0
  /\ ext' = ext - 1
  /\ \E s \in ExtSignals :
       /\ received' = received \cup {s}
       /\ \/ /\ s \in handled
             /\ pending' = pending \cup {s}
             /\ UNCHANGED <<pc, exit_status>>
          \/ /\ s \notin handled
             /\ s # "CHLD"
             /\ Exit(Killed(s))
             /\ UNCHANGED pending
  /\ UNCHANGED <<argv, errno, foreground, preserve, killsig, first_kill,
                 second_kill, do_second_kill, timedout, child_done, pstat,
                 flag_vars, handled, timer, cmd_vars, chosen, sent, expired>>

TimerExpires ==
  /\ ~Ended
  /\ timer # "off"
  /\ pending' = pending \cup {"ALRM"}
  /\ expired' = expired \cup {timer}
  /\ timer' = "off"
  /\ UNCHANGED <<pc, main_vars, flag_vars, handled, cmd_vars, ext, chosen,
                 sent, received>>

-----------------------------------------------------------------------------
(* The command.                                                            *)

\* The kernel tells the parent, if it is still there, of a change of state.
NotifyParent == pending' = IF Ended THEN pending ELSE pending \cup {"CHLD"}

Exec ==
  /\ child = "forked"
  /\ \/ /\ cmd.exec = "ok"
        /\ child' = "running"
        /\ UNCHANGED <<cstat, pending>>
     \/ /\ cmd.exec # "ok"
        /\ child' = "zombie"
        /\ cstat' = Exited(IF cmd.exec = "noent" THEN EXIT_CMD_NOENT
                                                 ELSE EXIT_CMD_ERROR)
        /\ NotifyParent
  /\ UNCHANGED <<pc, main_vars, flag_vars, handled, timer, cmd, ext, hist_vars>>

CommandExits ==
  /\ child = "running"
  /\ child' = "zombie"
  /\ \E c \in ExitCodes : cstat' = Exited(c)
  /\ NotifyParent
  /\ UNCHANGED <<pc, main_vars, flag_vars, handled, timer, cmd, ext, hist_vars>>

\* kill(pid, s).  Between fork and exec the child still has timeout's own
\* handler, which does nothing there but set a flag that exec discards.
send_sig(s) ==
  /\ sent' = sent \cup {s}
  /\ \/ /\ \/ s = "KILL" /\ child \in {"forked", "running", "stopped"}
           \/ s \notin {"KILL", "STOP", "CHLD"} /\ child = "running" /\ ~cmd.stubborn
        /\ child' = "zombie"
        /\ cstat' = Killed(s)
        /\ pending' = pending \cup {"CHLD"}
     \/ /\ s = "STOP"
        /\ child \in {"forked", "running"}
        /\ child' = "stopped"
        /\ pending' = pending \cup {"CHLD"}
        /\ UNCHANGED cstat
     \/ /\ \/ child \in {"zombie", "reaped"}
           \/ child = "stopped" /\ s # "KILL"
           \/ child = "forked" /\ s \notin {"KILL", "STOP"}
           \/ child = "running" /\ (s = "CHLD" \/ (cmd.stubborn /\ s \notin {"KILL", "STOP"}))
        /\ UNCHANGED <<child, cstat, pending>>
-----------------------------------------------------------------------------
(* The body of the loop, after sigsuspend has returned.                    *)

\* Mutant: the loop goes on after the command was reaped.
CheckChld_NoBreak ==
  /\ pc = "check"
  /\ sig_chld
  /\ sig_chld' = FALSE
  /\ pc' = "sigsuspend"
  /\ IF child = "zombie"
     THEN child' = "reaped" /\ pstat' = cstat /\ child_done' = TRUE
     ELSE UNCHANGED <<child, pstat, child_done>>
  /\ UNCHANGED <<argv, errno, foreground, preserve, killsig, first_kill,
                 second_kill, do_second_kill, timedout, exit_status, sig_alrm,
                 sig_term, sig_ign, kernel_vars, cmd, cstat, ext, hist_vars>>

\* sig_chld: reap whatever has exited.  prctl's shim reports that no
\* descendants remain, so background mode leaves the loop like foreground.
CheckChld ==
  /\ pc = "check"
  /\ sig_chld
  /\ sig_chld' = FALSE
  /\ \/ /\ child = "zombie"
        /\ child' = "reaped"
        /\ pstat' = cstat
        /\ child_done' = TRUE
        /\ pc' = "wait"
     \/ /\ child # "zombie"
        /\ pc' = "sigsuspend"
        /\ UNCHANGED <<child, pstat, child_done>>
  /\ UNCHANGED <<argv, errno, foreground, preserve, killsig, first_kill,
                 second_kill, do_second_kill, timedout, exit_status, sig_alrm,
                 sig_term, sig_ign, kernel_vars, cmd, cstat, ext, hist_vars>>

\* Mutant: the timer is not set again for the second signal.
Escalate_NoTimer ==
  \/ /\ ~do_second_kill
     /\ pc' = "wait"
     /\ UNCHANGED <<timer, do_second_kill, sig_ign, killsig, exit_status>>
  \/ /\ do_second_kill
     /\ do_second_kill' = FALSE
     /\ sig_ign' = killsig
     /\ killsig' = "KILL"
     /\ pc' = "sigsuspend"
     /\ UNCHANGED <<timer, exit_status>>

\* What both branches below do once the signal is out.
Escalate ==
  \/ /\ ~do_second_kill
     /\ pc' = "wait"
     /\ UNCHANGED <<timer, do_second_kill, sig_ign, killsig, exit_status>>
  \/ /\ do_second_kill
     /\ set_interval(second_kill) = "fail"
     /\ Exit(Exited(EXIT_FAILURE))
     /\ UNCHANGED <<timer, do_second_kill, sig_ign, killsig>>
  \/ /\ do_second_kill
     /\ set_interval(second_kill) # "fail"
     /\ timer' = IF set_interval(second_kill) = "arm" THEN "second" ELSE "off"
     /\ do_second_kill' = FALSE
     /\ sig_ign' = killsig
     /\ killsig' = "KILL"
     /\ pc' = "sigsuspend"
     /\ UNCHANGED exit_status

\* Mutant: sig_alrm is not cleared.
CheckAlrm_Kept ==
  /\ pc = "check"
  /\ ~sig_chld /\ sig_alrm
  /\ foreground
  /\ timedout' = TRUE
  /\ send_sig(killsig)
  /\ Escalate
  /\ UNCHANGED <<argv, errno, foreground, preserve, first_kill, second_kill,
                 child_done, pstat, sig_chld, sig_alrm, sig_term, handled, cmd,
                 ext, chosen, expired, received>>

\* sig_alrm, --foreground.
CheckAlrm ==
  /\ pc = "check"
  /\ ~sig_chld /\ sig_alrm
  /\ foreground
  /\ sig_alrm' = FALSE
  /\ timedout' = TRUE
  /\ send_sig(killsig)
  /\ Escalate
  /\ UNCHANGED <<argv, errno, foreground, preserve, first_kill, second_kill,
                 child_done, pstat, sig_chld, sig_term, handled, cmd, ext,
                 chosen, expired, received>>

\* sig_alrm in background mode: kill(getpid(), SIGKILL).
CheckAlrmBackground ==
  /\ pc = "check"
  /\ ~sig_chld /\ sig_alrm
  /\ ~foreground
  /\ sig_alrm' = FALSE
  /\ timedout' = TRUE
  /\ Exit(Killed("KILL"))
  /\ UNCHANGED <<argv, errno, foreground, preserve, killsig, first_kill,
                 second_kill, do_second_kill, child_done, pstat, sig_chld,
                 sig_term, sig_ign, kernel_vars, cmd_vars, ext, hist_vars>>

\* Mutant: the -s signal is sent in place of the one received.
CheckTerm_SendsKillsig ==
  /\ pc = "check"
  /\ ~sig_chld /\ ~sig_alrm /\ sig_term # NoSig
  /\ foreground
  /\ send_sig(killsig)
  /\ Escalate
  /\ UNCHANGED <<argv, errno, foreground, preserve, first_kill, second_kill,
                 timedout, child_done, pstat, sig_chld, sig_alrm, sig_term,
                 handled, cmd, ext, chosen, expired, received>>

\* sig_term is acted on and left set.
CheckTerm ==
  /\ pc = "check"
  /\ ~sig_chld /\ ~sig_alrm /\ sig_term # NoSig
  /\ foreground
  /\ send_sig(sig_term)
  /\ Escalate
  /\ UNCHANGED <<argv, errno, foreground, preserve, first_kill, second_kill,
                 timedout, child_done, pstat, sig_chld, sig_alrm, sig_term,
                 handled, cmd, ext, chosen, expired, received>>

\* Background mode: kill(getpid(), SIGTERM), with SIGTERM blocked.
CheckTermBackground ==
  /\ pc = "check"
  /\ ~sig_chld /\ ~sig_alrm /\ sig_term # NoSig
  /\ ~foreground
  /\ pending' = pending \cup {"TERM"}
  /\ Escalate
  /\ UNCHANGED <<argv, errno, foreground, preserve, first_kill, second_kill,
                 timedout, child_done, pstat, sig_chld, sig_alrm, sig_term,
                 handled, cmd_vars, ext, hist_vars>>

\* A wake-up that set no flag: the signal was sig_ign, or a killsig that
\* sig_handler has no case for.
CheckNothing ==
  /\ pc = "check"
  /\ ~sig_chld /\ ~sig_alrm /\ sig_term = NoSig
  /\ pc' = "sigsuspend"
  /\ UNCHANGED <<main_vars, flag_vars, kernel_vars, cmd_vars, ext, hist_vars>>

-----------------------------------------------------------------------------
(* After the loop.                                                         *)

\* Mutant: wait() is not called again, or not at all.
Wait_NotWaiting ==
  /\ pc = "wait"
  /\ pc' = "return"
  /\ UNCHANGED <<main_vars, flag_vars, kernel_vars, cmd_vars, ext, hist_vars>>

Wait ==
  /\ pc = "wait"
  /\ \/ /\ child_done
        /\ UNCHANGED <<child, pstat>>
     \/ /\ ~child_done
        /\ child = "zombie"
        /\ child' = "reaped"
        /\ pstat' = cstat
  /\ pc' = "return"
  /\ UNCHANGED <<argv, errno, foreground, preserve, killsig, first_kill,
                 second_kill, do_second_kill, timedout, child_done, exit_status,
                 flag_vars, kernel_vars, cmd, cstat, ext, hist_vars>>

\* WEXITSTATUS of a signalled child is 0, so the second test decides it.
Shell(status) == IF status.kind = "sig" THEN 128 + SigNum[status.sig]
                                        ELSE status.code

Return ==
  /\ pc = "return"
  /\ Exit(Exited(IF timedout /\ ~preserve THEN EXIT_TIMEOUT ELSE Shell(pstat)))
  /\ UNCHANGED <<argv, errno, foreground, preserve, killsig, first_kill,
                 second_kill, do_second_kill, timedout, child_done, pstat,
                 flag_vars, kernel_vars, cmd_vars, ext, hist_vars>>

-----------------------------------------------------------------------------
StartUp == ParseOption \/ ParseOperands \/ InstallHandlers \/ Fork
             \/ BlockSignals \/ ArmFirst

Check == CheckChld \/ CheckAlrm \/ CheckAlrmBackground \/ CheckTerm
           \/ CheckTermBackground \/ CheckNothing

main == StartUp \/ Sigsuspend \/ Check \/ Wait \/ Return

Next == main \/ HandleAsync \/ ExternalSignal \/ TimerExpires \/ Exec
          \/ CommandExits

Spec == Init /\ [][Next]_vars

\* The scheduler runs timeout and the forked child, an unblocked pending
\* signal is delivered, and time passes.  The command need never exit and
\* nobody need send a signal.
Fairness == WF_vars(main) /\ WF_vars(HandleAsync) /\ WF_vars(TimerExpires)
              /\ WF_vars(Exec)

FairSpec == Spec /\ Fairness
-----------------------------------------------------------------------------
(* Properties.                                                             *)

pcs == {"options", "sigaction", "fork", "sigprocmask", "set_interval",
        "sigsuspend", "check", "wait", "return", "ended"}

OptionType ==
  /\ argv \in CommandLines
  /\ errno \in BOOLEAN
  /\ foreground \in BOOLEAN
  /\ preserve \in BOOLEAN
  /\ killsig \in Signals
  /\ first_kill \in Int
  /\ second_kill \in Int
  /\ do_second_kill \in BOOLEAN

FlagType ==
  /\ sig_chld \in BOOLEAN
  /\ sig_alrm \in BOOLEAN
  /\ sig_term \in {"TERM", "INT", "HUP", "QUIT", NoSig}
  /\ sig_ign \in Signals \cup {NoSig}
  /\ timedout \in BOOLEAN
  /\ child_done \in BOOLEAN

KernelType ==
  /\ pc \in pcs
  /\ handled \subseteq Signals
  /\ pending \subseteq Signals
  /\ timer \in {"off", "first", "second"}
  /\ ext \in 0..MaxExt

StatusTypes ==
  /\ pstat \in Statuses
  /\ exit_status \in Statuses
  /\ cstat \in Statuses
  /\ cmd \in Commands
  /\ child \in {"none", "forked", "running", "stopped", "zombie", "reaped"}

HistoryType ==
  /\ chosen \in Signals \cup {NoSig}
  /\ sent \subseteq Signals
  /\ expired \subseteq {"first", "second"}
  /\ received \subseteq Signals

\* Every variable keeps its type.
TypeOK == OptionType /\ FlagType /\ KernelType /\ StatusTypes /\ HistoryType

\* When main returns, the command has been waited for, pstat is the status it
\* really ended with (never the uninitialised local), and the status returned
\* is 124 exactly after a time-out without --preserve-status and the
\* command's own otherwise (lines 366-382).
StatusIsTheCommands ==
  /\ pc = "return" => pstat = cstat /\ child = "reaped"
  /\ (Ended /\ pstat # NoStatus /\ exit_status.kind = "exit") =>
       /\ child = "reaped"
       /\ exit_status = Exited(IF timedout /\ ~preserve THEN EXIT_TIMEOUT
                                                       ELSE Shell(cstat))

\* kill() is never given the pid of a command that has been reaped and whose
\* pid may by then belong to another process (lines 322-330, 339, 354).
NeverSignalsReaped == [][sent' # sent => child # "reaped"]_vars

\* A signal reaches the command only for a reason: it was received by timeout
\* and is passed on, it is the -s signal after a timer expired (or somebody
\* sent SIGALRM), or it is the SIGKILL of -k and another signal went before.
SignalHasCause ==
  \A s \in sent :
    \/ s \in received
    \/ s = chosen /\ (expired # {} \/ "ALRM" \in received)
    \/ s = "KILL" /\ sent \ {"KILL"} # {}

Armed(iv) == set_interval(iv) = "arm"

Dead == child \in {"zombie", "reaped"}

\* Once a first and a second limit are set in foreground mode and as long as
\* nobody interferes, timeout ends, whatever the command does about the -s
\* signal: the SIGKILL of -k sees to it (lines 341-345).  With -s ALRM it does
\* not: sig_ign then swallows the SIGALRM of the second timer.
EscalationEnds ==
  (/\ pc = "sigsuspend"
   /\ foreground /\ do_second_kill
   /\ Armed(first_kill) /\ Armed(second_kill)
   /\ chosen # "ALRM" /\ received = {}) ~> (Ended \/ received # {})

\* With a time limit set, the command's exit is noticed, at the latest when
\* the timer expires, whatever signals arrive (lines 304-330).  -s CHLD is
\* the exception: with -k its sig_ign swallows the command's own SIGCHLD.
ExitNoticedByTimer ==
  (child = "zombie" /\ Armed(first_kill) /\ pc = "sigsuspend" /\ chosen # "CHLD")
     ~> Ended

\* The same without a time limit (timeout.1:110: "If the timeout was not
\* reached, the exit status of command is returned").
ExitNoticed == (child = "zombie") ~> Ended

\* timeout.1:66-73: -k sends SIGKILL "if command is still running after time
\* after the first signal was sent".
KillAfter == (timer = "second" /\ foreground) ~> (Dead \/ "KILL" \in sent)

\* Nor is it sent before that time has passed, unless somebody else signals
\* timeout: handling such a signal sets the timer again, and the SIGALRM of the
\* first one may by then be pending (lines 354-360).
GracePeriod ==
  [][("KILL" \in sent' \ sent /\ chosen # "KILL" /\ received = {}) =>
       "second" \in expired]_vars
-----------------------------------------------------------------------------
(* The inductive invariant behind the safety properties, in parts.         *)

Starting == pc \in {"options", "sigaction"}

\* Before the handlers are installed nothing has happened, and until fork
\* there is no child.
StartInv ==
  /\ Starting => /\ handled = {} /\ pending = {} /\ timer = "off"
                 /\ sig_term = NoSig /\ ~sig_alrm
                 /\ sent = {}
  /\ pc \in {"options", "sigaction", "fork"} => child = "none"
  /\ pc \in {"sigprocmask", "set_interval", "sigsuspend", "check"} => child # "none"

\* A reaped command and its status: reaping ends the loop.
ReapInv ==
  /\ child = "reaped" => pc \in {"wait", "return", "ended"} /\ pstat = cstat
  /\ child # "reaped" => pstat = NoStatus
  /\ child \in {"zombie", "reaped"} <=> cstat # NoStatus
  /\ child_done => child = "reaped"
  /\ (pc = "wait" /\ child = "reaped") => child_done
  /\ pc = "return" => child = "reaped"
  /\ (Ended /\ pstat # NoStatus /\ exit_status.kind = "exit") =>
       exit_status = Exited(IF timedout /\ ~preserve THEN EXIT_TIMEOUT
                                                     ELSE Shell(cstat))

\* Where the signals timeout knows of came from.
AlarmSeen == expired # {} \/ "ALRM" \in received

CauseInv ==
  /\ "ALRM" \in pending => AlarmSeen
  /\ sig_alrm => AlarmSeen
  /\ foreground => /\ sig_term # NoSig => sig_term \in received
                   /\ pending \cap {"TERM", "INT", "HUP", "QUIT"} \subseteq received
  /\ (foreground /\ ~Starting /\ ~Ended /\ killsig # chosen) =>
       killsig = "KILL" /\ sent \ {"KILL"} # {}

IInv == TypeOK /\ StartInv /\ ReapInv /\ CauseInv /\ SignalHasCause

\* Of the timers' alarms, while nobody else signals timeout: one of the first
\* timer at most is on its way, and none once killsig is SIGKILL; then there is
\* no other than the second timer's.
GraceInv ==
  (foreground /\ received = {} /\ chosen # "KILL" /\ ~Starting /\ ~Ended) =>
    /\ pc \in {"fork", "sigprocmask", "set_interval"} =>
         killsig = chosen /\ timer = "off" /\ "ALRM" \notin pending /\ ~sig_alrm
    /\ killsig = chosen =>
         /\ timer # "second" /\ ~("ALRM" \in pending /\ sig_alrm)
         /\ timer = "first" => "ALRM" \notin pending /\ ~sig_alrm
    /\ killsig # chosen =>
         timer # "first" /\ ("ALRM" \in pending \/ sig_alrm => "second" \in expired)
=============================================================================
