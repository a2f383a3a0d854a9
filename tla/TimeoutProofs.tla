--------------------------- MODULE TimeoutProofs ---------------------------
(***************************************************************************)
(* Proofs about Timeout, for every set of command lines, commands, exit    *)
(* codes and outside signals, and any number of the latter.                *)
(***************************************************************************)
EXTENDS Timeout, TLAPS

\* Converting a duration gives a number of ticks.
LEMMA DurationType ==
  ASSUME NEW d \in Durations
  PROVE  parse_duration(d).ticks \in Int
<1>1. UnitSecs(d.suffix) \in Int
  BY DEF UnitSecs
<1>2. d.ticks \in Int
  BY DEF Durations
<1>3. d.ticks * UnitSecs(d.suffix) \in Int
  BY <1>1, <1>2
<1>4. parse_duration(d).ticks = d.ticks * UnitSecs(d.suffix)
  BY DEF parse_duration
<1> QED BY <1>3, <1>4

\* Converting a signal argument gives a signal or nothing, and a truth value
\* for errno.
LEMMA SignalType ==
  ASSUME NEW a \in SignalArgs, NEW e \in BOOLEAN
  PROVE  /\ parse_signal(a, e).sig \in Signals \cup {NoSig}
         /\ parse_signal(a, e).errno \in BOOLEAN
<1>1. ASSUME NEW n, NumericSignal(n) # {}
      PROVE  (CHOOSE s \in NumericSignal(n) : TRUE) \in Signals
  BY <1>1 DEF NumericSignal
<1>2. a.name \in Signals
  BY DEF SignalArgs
<1>3. parse_signal(a, e).errno \in BOOLEAN
  BY DEF parse_signal
<1>4. parse_signal(a, e).sig \in Signals \cup {NoSig}
  BY <1>1, <1>2 DEF parse_signal
<1> QED BY <1>3, <1>4

\* The statuses a process can end with are statuses.
LEMMA StatusType ==
  /\ NoStatus \in Statuses
  /\ \A c \in 0..255 : Exited(c) \in Statuses
  /\ \A s \in Signals : Killed(s) \in Statuses
BY DEF Statuses

\* The shell's view of a status is an exit status.
LEMMA ShellType ==
  ASSUME NEW st \in Statuses
  PROVE  Shell(st) \in 0..255
<1>1. CASE st = NoStatus
  BY <1>1 DEF Shell, NoStatus
<1>2. ASSUME NEW c \in 0..255, st = Exited(c)
      PROVE  Shell(st) \in 0..255
  BY <1>2 DEF Shell, Exited
<1>3. ASSUME NEW s \in Signals, st = Killed(s)
      PROVE  Shell(st) \in 0..255
  BY <1>3 DEF Shell, Killed, Signals, SigNum
<1> QED BY <1>1, <1>2, <1>3, Zenon DEF Statuses

\* The three kinds of status are told apart by their kind.
LEMMA StatusKinds ==
  /\ NoStatus.kind = "none"
  /\ \A c : Exited(c).kind = "exit" /\ Exited(c) # NoStatus
  /\ \A s : Killed(s).kind = "sig" /\ Killed(s) # NoStatus
BY DEF NoStatus, Exited, Killed

\* The names of signals that timeout.c uses.
LEMMA SignalNames ==
  /\ "HUP" \in Signals /\ "INT" \in Signals /\ "QUIT" \in Signals
  /\ "KILL" \in Signals /\ "ALRM" \in Signals /\ "TERM" \in Signals
  /\ "CHLD" \in Signals /\ NoSig \notin Signals
BY DEF Signals, NoSig

-----------------------------------------------------------------------------
LEMMA InitIInv == Init => IInv
<1> SUFFICES ASSUME Init PROVE IInv
  OBVIOUS
<1>1. OptionType
  <2>1. argv \in CommandLines
    BY ArgvAssumption DEF Init
  <2>2. first_kill \in Int /\ second_kill \in Int
    BY DEF Init
  <2> QED BY <2>1, <2>2, SignalNames, Zenon DEF Init, OptionType
<1>2. FlagType
  BY Zenon DEF Init, FlagType, NoSig
<1>3. KernelType
  BY CommandAssumption DEF Init, KernelType, pcs
<1>4. StatusTypes
  BY StatusType DEF Init, StatusTypes
<1>5. HistoryType
  BY DEF Init, HistoryType
<1>6. StartInv
  BY DEF Init, StartInv, Starting
<1>7. ReapInv
  BY DEF Init, ReapInv, Ended
<1>8. CauseInv
  BY DEF Init, CauseInv, Starting, Ended, AlarmSeen
<1>9. SignalHasCause
  BY DEF Init, SignalHasCause
<1> QED
  BY <1>1, <1>2, <1>3, <1>4, <1>5, <1>6, <1>7, <1>8, <1>9 DEF IInv, TypeOK

-----------------------------------------------------------------------------
(* What the steps shared by several actions do to the types.               *)

\* Escalate: the -k bookkeeping after a signal went out.
LEMMA EscalateType ==
  ASSUME TypeOK, Escalate
  PROVE  /\ killsig' \in Signals
         /\ do_second_kill' \in BOOLEAN
         /\ sig_ign' \in Signals \cup {NoSig}
         /\ timer' \in {"off", "first", "second"}
         /\ exit_status' \in Statuses
         /\ pc' \in pcs
<1> USE DEF TypeOK, OptionType, FlagType, KernelType, StatusTypes, Escalate, Exit
<1>1. killsig' \in Signals
  BY SignalNames
<1>2. do_second_kill' \in BOOLEAN
  BY Zenon
<1>3. sig_ign' \in Signals \cup {NoSig}
  OBVIOUS
<1>4. timer' \in {"off", "first", "second"}
  OBVIOUS
<1>5. exit_status' \in Statuses
  <2>1. Exited(EXIT_FAILURE) \in Statuses
    BY StatusType DEF EXIT_FAILURE
  <2> QED BY <2>1
<1>6. pc' \in pcs
  BY DEF pcs
<1> QED BY <1>1, <1>2, <1>3, <1>4, <1>5, <1>6

\* send_sig: kill() and what it does to the command.
LEMMA SendType ==
  ASSUME TypeOK, NEW s \in Signals, send_sig(s)
  PROVE  /\ sent' = sent \cup {s}
         /\ sent' \subseteq Signals
         /\ child' \in {"none", "forked", "running", "stopped", "zombie", "reaped"}
         /\ cstat' \in Statuses
         /\ pending' \subseteq Signals
<1> USE DEF TypeOK, KernelType, StatusTypes, HistoryType, send_sig
<1>1. sent' = sent \cup {s} /\ sent' \subseteq Signals
  OBVIOUS
<1>2. child' \in {"none", "forked", "running", "stopped", "zombie", "reaped"}
  OBVIOUS
<1>3. cstat' \in Statuses
  BY StatusType
<1>4. pending' \subseteq Signals
  BY SignalNames
<1> QED BY <1>1, <1>2, <1>3, <1>4

\* The option being parsed, and the ones after it.
LEMMA OptionParts ==
  ASSUME argv \in CommandLines, argv.opts # <<>>
  PROVE  /\ Head(argv.opts) \in Options
         /\ Head(argv.opts).dur \in Durations
         /\ Head(argv.opts).sig \in SignalArgs
         /\ [argv EXCEPT !.opts = Tail(@)] \in CommandLines
<1>1. argv.opts \in Seq(Options)
  BY DEF CommandLines
<1>2. Head(argv.opts) \in Options /\ Tail(argv.opts) \in Seq(Options)
  BY <1>1
<1>3. [argv EXCEPT !.opts = Tail(@)] \in CommandLines
  BY <1>2 DEF CommandLines
<1>4. Head(argv.opts).dur \in Durations /\ Head(argv.opts).sig \in SignalArgs
  BY <1>2 DEF Options
<1> QED BY <1>2, <1>3, <1>4

-----------------------------------------------------------------------------
(* Each part of the type invariant is preserved, action by action.         *)

\* The options: what main parsed, and what Escalate changes.
LEMMA OptionStep == TypeOK /\ [Next]_vars => OptionType'
<1> SUFFICES ASSUME TypeOK, [Next]_vars PROVE OptionType'
  OBVIOUS
<1> USE DEF TypeOK, OptionType, main_vars, flag_vars, kernel_vars, cmd_vars,
  hist_vars
<1>1. CASE ParseOption
  <2> DEFINE o == Head(argv.opts)
  <2>1. argv' \in CommandLines
    BY <1>1, OptionParts DEF ParseOption
  <2>2. parse_duration(o.dur).ticks \in Int
    BY <1>1, OptionParts, DurationType DEF ParseOption
  <2>3. /\ parse_signal(o.sig, errno).sig \in Signals \cup {NoSig}
        /\ parse_signal(o.sig, errno).errno \in BOOLEAN
    BY <1>1, OptionParts, SignalType DEF ParseOption
  <2>4. first_kill' \in Int /\ second_kill' \in Int
    BY <1>1, <2>2 DEF ParseOption
  <2>5. killsig' \in Signals /\ errno' \in BOOLEAN
    BY <1>1, <2>3 DEF ParseOption
  <2>6. foreground' \in BOOLEAN /\ preserve' \in BOOLEAN /\ do_second_kill' \in BOOLEAN
    BY <1>1, Zenon DEF ParseOption
  <2> QED BY <2>1, <2>4, <2>5, <2>6
<1>2. CASE ParseOperands
  <2>1. parse_duration(argv.duration).ticks \in Int
    BY DurationType DEF CommandLines
  <2> QED BY <1>2, <2>1 DEF ParseOperands
<1>3. CASE InstallHandlers
  BY <1>3 DEF InstallHandlers
<1>4. CASE Fork
  BY <1>4 DEF Fork
<1>5. CASE BlockSignals
  BY <1>5 DEF BlockSignals
<1>6. CASE ArmFirst
  BY <1>6 DEF ArmFirst
<1>7. CASE Sigsuspend
  BY <1>7 DEF Sigsuspend
<1>8. CASE CheckChld
  BY <1>8 DEF CheckChld
<1>9. CASE CheckAlrm
  BY <1>9, EscalateType DEF CheckAlrm
<1>10. CASE CheckAlrmBackground
  BY <1>10 DEF CheckAlrmBackground
<1>11. CASE CheckTerm
  BY <1>11, EscalateType DEF CheckTerm
<1>12. CASE CheckTermBackground
  BY <1>12, EscalateType DEF CheckTermBackground
<1>13. CASE CheckNothing
  BY <1>13 DEF CheckNothing
<1>14. CASE Wait
  BY <1>14 DEF Wait
<1>15. CASE Return
  BY <1>15 DEF Return
<1>16. CASE HandleAsync
  BY <1>16 DEF HandleAsync
<1>17. CASE ExternalSignal
  BY <1>17 DEF ExternalSignal
<1>18. CASE TimerExpires
  BY <1>18 DEF TimerExpires
<1>19. CASE Exec
  BY <1>19 DEF Exec
<1>20. CASE CommandExits
  BY <1>20 DEF CommandExits
<1>21. CASE UNCHANGED vars
  BY <1>21 DEF vars
<1> QED
  BY <1>1, <1>2, <1>3, <1>4, <1>5, <1>6, <1>7, <1>8, <1>9, <1>10, <1>11,
    <1>12, <1>13, <1>14, <1>15, <1>16, <1>17, <1>18, <1>19, <1>20, <1>21
  DEF Next, main, StartUp, Check

\* The handler's flags and main's own.
LEMMA FlagStep == TypeOK /\ [Next]_vars => FlagType'
<1> SUFFICES ASSUME TypeOK, [Next]_vars PROVE FlagType'
  OBVIOUS
<1> USE DEF TypeOK, FlagType, main_vars, flag_vars, kernel_vars, cmd_vars,
  hist_vars
<1>1. CASE ParseOption
  BY <1>1 DEF ParseOption
<1>2. CASE ParseOperands
  BY <1>2 DEF ParseOperands
<1>3. CASE InstallHandlers
  BY <1>3 DEF InstallHandlers
<1>4. CASE Fork
  BY <1>4 DEF Fork
<1>5. CASE BlockSignals
  BY <1>5 DEF BlockSignals
<1>6. CASE ArmFirst
  BY <1>6 DEF ArmFirst
<1>7. CASE Sigsuspend
  BY <1>7, Zenon DEF Sigsuspend, KernelType, sig_handler
<1>8. CASE CheckChld
  BY <1>8, Zenon DEF CheckChld
<1>9. CASE CheckAlrm
  BY <1>9, EscalateType, Zenon DEF CheckAlrm
<1>10. CASE CheckAlrmBackground
  BY <1>10, Zenon DEF CheckAlrmBackground
<1>11. CASE CheckTerm
  BY <1>11, EscalateType DEF CheckTerm
<1>12. CASE CheckTermBackground
  BY <1>12, EscalateType DEF CheckTermBackground
<1>13. CASE CheckNothing
  BY <1>13 DEF CheckNothing
<1>14. CASE Wait
  BY <1>14 DEF Wait
<1>15. CASE Return
  BY <1>15 DEF Return
<1>16. CASE HandleAsync
  BY <1>16, Zenon DEF HandleAsync, KernelType, sig_handler
<1>17. CASE ExternalSignal
  BY <1>17 DEF ExternalSignal
<1>18. CASE TimerExpires
  BY <1>18 DEF TimerExpires
<1>19. CASE Exec
  BY <1>19 DEF Exec
<1>20. CASE CommandExits
  BY <1>20 DEF CommandExits
<1>21. CASE UNCHANGED vars
  BY <1>21 DEF vars
<1> QED
  BY <1>1, <1>2, <1>3, <1>4, <1>5, <1>6, <1>7, <1>8, <1>9, <1>10, <1>11,
    <1>12, <1>13, <1>14, <1>15, <1>16, <1>17, <1>18, <1>19, <1>20, <1>21
  DEF Next, main, StartUp, Check

\* Where main is, and what the kernel keeps for it.
LEMMA KernelStep == TypeOK /\ [Next]_vars => KernelType'
<1> SUFFICES ASSUME TypeOK, [Next]_vars PROVE KernelType'
  OBVIOUS
<1> USE DEF TypeOK, KernelType, main_vars, flag_vars, kernel_vars, cmd_vars,
  hist_vars
<1>1. CASE ParseOption
  BY <1>1 DEF ParseOption, Exit, pcs
<1>2. CASE ParseOperands
  BY <1>2 DEF ParseOperands, Exit, pcs
<1>3. CASE InstallHandlers
  BY <1>3, SignalNames DEF InstallHandlers, signums, pcs, OptionType
<1>4. CASE Fork
  BY <1>4 DEF Fork, Exit, pcs
<1>5. CASE BlockSignals
  BY <1>5 DEF BlockSignals, pcs
<1>6. CASE ArmFirst
  BY <1>6 DEF ArmFirst, Exit, pcs
<1>7. CASE Sigsuspend
  BY <1>7 DEF Sigsuspend, pcs
<1>8. CASE CheckChld
  BY <1>8 DEF CheckChld, pcs
<1>9. CASE CheckAlrm
  <2>1. killsig \in Signals
    BY <1>9, SignalNames DEF CheckAlrm, OptionType, FlagType
  <2>2. send_sig(killsig) /\ Escalate
    BY <1>9 DEF CheckAlrm
  <2> QED BY <1>9, <2>1, <2>2, EscalateType, SendType DEF CheckAlrm
<1>10. CASE CheckAlrmBackground
  BY <1>10 DEF CheckAlrmBackground, Exit, pcs
<1>11. CASE CheckTerm
  <2>1. sig_term \in Signals
    BY <1>11, SignalNames DEF CheckTerm, OptionType, FlagType
  <2>2. send_sig(sig_term) /\ Escalate
    BY <1>11 DEF CheckTerm
  <2> QED BY <1>11, <2>1, <2>2, EscalateType, SendType DEF CheckTerm
<1>12. CASE CheckTermBackground
  BY <1>12, EscalateType, SignalNames DEF CheckTermBackground
<1>13. CASE CheckNothing
  BY <1>13 DEF CheckNothing, pcs
<1>14. CASE Wait
  BY <1>14 DEF Wait, pcs
<1>15. CASE Return
  BY <1>15 DEF Return, Exit, pcs
<1>16. CASE HandleAsync
  BY <1>16 DEF HandleAsync
<1>17. CASE ExternalSignal
  BY <1>17, CommandAssumption DEF ExternalSignal, Exit, pcs
<1>18. CASE TimerExpires
  BY <1>18, SignalNames DEF TimerExpires
<1>19. CASE Exec
  BY <1>19, SignalNames DEF Exec, NotifyParent
<1>20. CASE CommandExits
  BY <1>20, SignalNames DEF CommandExits, NotifyParent
<1>21. CASE UNCHANGED vars
  BY <1>21 DEF vars
<1> QED
  BY <1>1, <1>2, <1>3, <1>4, <1>5, <1>6, <1>7, <1>8, <1>9, <1>10, <1>11,
    <1>12, <1>13, <1>14, <1>15, <1>16, <1>17, <1>18, <1>19, <1>20, <1>21
  DEF Next, main, StartUp, Check

\* The statuses, the command and its process.
LEMMA StatusStep == TypeOK /\ [Next]_vars => StatusTypes'
<1> SUFFICES ASSUME TypeOK, [Next]_vars PROVE StatusTypes'
  OBVIOUS
<1> USE DEF TypeOK, StatusTypes, main_vars, flag_vars, kernel_vars, cmd_vars,
  hist_vars
<1>1. CASE ParseOption
  <2>1. Exited(EXIT_INVALID) \in Statuses /\ Exited(EXIT_FAILURE) \in Statuses
    BY StatusType DEF EXIT_INVALID, EXIT_FAILURE
  <2> QED BY <1>1, <2>1 DEF ParseOption, Exit
<1>2. CASE ParseOperands
  <2>1. Exited(EXIT_INVALID) \in Statuses /\ Exited(EXIT_FAILURE) \in Statuses
    BY StatusType DEF EXIT_INVALID, EXIT_FAILURE
  <2> QED BY <1>2, <2>1 DEF ParseOperands, Exit
<1>3. CASE InstallHandlers
  BY <1>3 DEF InstallHandlers
<1>4. CASE Fork
  <2>1. Exited(EXIT_INVALID) \in Statuses /\ Exited(EXIT_FAILURE) \in Statuses
    BY StatusType DEF EXIT_INVALID, EXIT_FAILURE
  <2> QED BY <1>4, <2>1 DEF Fork, Exit
<1>5. CASE BlockSignals
  BY <1>5 DEF BlockSignals
<1>6. CASE ArmFirst
  <2>1. Exited(EXIT_INVALID) \in Statuses /\ Exited(EXIT_FAILURE) \in Statuses
    BY StatusType DEF EXIT_INVALID, EXIT_FAILURE
  <2> QED BY <1>6, <2>1 DEF ArmFirst, Exit
<1>7. CASE Sigsuspend
  BY <1>7 DEF Sigsuspend
<1>8. CASE CheckChld
  BY <1>8 DEF CheckChld
<1>9. CASE CheckAlrm
  <2>1. killsig \in Signals
    BY <1>9, SignalNames DEF CheckAlrm, OptionType, FlagType
  <2>2. send_sig(killsig) /\ Escalate
    BY <1>9 DEF CheckAlrm
  <2> QED BY <1>9, <2>1, <2>2, EscalateType, SendType DEF CheckAlrm
<1>10. CASE CheckAlrmBackground
  BY <1>10, StatusType, SignalNames DEF CheckAlrmBackground, Exit
<1>11. CASE CheckTerm
  <2>1. sig_term \in Signals
    BY <1>11, SignalNames DEF CheckTerm, OptionType, FlagType
  <2>2. send_sig(sig_term) /\ Escalate
    BY <1>11 DEF CheckTerm
  <2> QED BY <1>11, <2>1, <2>2, EscalateType, SendType DEF CheckTerm
<1>12. CASE CheckTermBackground
  BY <1>12, EscalateType DEF CheckTermBackground
<1>13. CASE CheckNothing
  BY <1>13 DEF CheckNothing
<1>14. CASE Wait
  BY <1>14 DEF Wait
<1>15. CASE Return
  <2>1. Shell(pstat) \in 0..255 /\ EXIT_TIMEOUT \in 0..255
    BY ShellType DEF EXIT_TIMEOUT
  <2>2. Exited(IF timedout /\ ~preserve THEN EXIT_TIMEOUT ELSE Shell(pstat)) \in Statuses
    BY <2>1, StatusType
  <2> QED BY <1>15, <2>2 DEF Return, Exit
<1>16. CASE HandleAsync
  BY <1>16 DEF HandleAsync
<1>17. CASE ExternalSignal
  BY <1>17, CommandAssumption, StatusType DEF ExternalSignal, Exit
<1>18. CASE TimerExpires
  BY <1>18 DEF TimerExpires
<1>19. CASE Exec
  <2>1. Exited(EXIT_CMD_NOENT) \in Statuses /\ Exited(EXIT_CMD_ERROR) \in Statuses
    BY StatusType DEF EXIT_CMD_NOENT, EXIT_CMD_ERROR
  <2> QED BY <1>19, <2>1 DEF Exec
<1>20. CASE CommandExits
  BY <1>20, CommandAssumption, StatusType DEF CommandExits
<1>21. CASE UNCHANGED vars
  BY <1>21 DEF vars
<1> QED
  BY <1>1, <1>2, <1>3, <1>4, <1>5, <1>6, <1>7, <1>8, <1>9, <1>10, <1>11,
    <1>12, <1>13, <1>14, <1>15, <1>16, <1>17, <1>18, <1>19, <1>20, <1>21
  DEF Next, main, StartUp, Check

\* What has happened.
LEMMA HistoryStep == TypeOK /\ [Next]_vars => HistoryType'
<1> SUFFICES ASSUME TypeOK, [Next]_vars PROVE HistoryType'
  OBVIOUS
<1> USE DEF TypeOK, HistoryType, main_vars, flag_vars, kernel_vars, cmd_vars,
  hist_vars
<1>1. CASE ParseOption
  BY <1>1 DEF ParseOption
<1>2. CASE ParseOperands
  BY <1>2 DEF ParseOperands
<1>3. CASE InstallHandlers
  BY <1>3 DEF InstallHandlers, OptionType
<1>4. CASE Fork
  BY <1>4 DEF Fork
<1>5. CASE BlockSignals
  BY <1>5 DEF BlockSignals
<1>6. CASE ArmFirst
  BY <1>6 DEF ArmFirst
<1>7. CASE Sigsuspend
  BY <1>7 DEF Sigsuspend
<1>8. CASE CheckChld
  BY <1>8 DEF CheckChld
<1>9. CASE CheckAlrm
  <2>1. killsig \in Signals
    BY <1>9, SignalNames DEF CheckAlrm, OptionType, FlagType
  <2>2. send_sig(killsig) /\ Escalate
    BY <1>9 DEF CheckAlrm
  <2> QED BY <1>9, <2>1, <2>2, EscalateType, SendType DEF CheckAlrm
<1>10. CASE CheckAlrmBackground
  BY <1>10 DEF CheckAlrmBackground
<1>11. CASE CheckTerm
  <2>1. sig_term \in Signals
    BY <1>11, SignalNames DEF CheckTerm, OptionType, FlagType
  <2>2. send_sig(sig_term) /\ Escalate
    BY <1>11 DEF CheckTerm
  <2> QED BY <1>11, <2>1, <2>2, EscalateType, SendType DEF CheckTerm
<1>12. CASE CheckTermBackground
  BY <1>12 DEF CheckTermBackground
<1>13. CASE CheckNothing
  BY <1>13 DEF CheckNothing
<1>14. CASE Wait
  BY <1>14 DEF Wait
<1>15. CASE Return
  BY <1>15 DEF Return
<1>16. CASE HandleAsync
  BY <1>16 DEF HandleAsync
<1>17. CASE ExternalSignal
  BY <1>17, CommandAssumption DEF ExternalSignal
<1>18. CASE TimerExpires
  BY <1>18 DEF TimerExpires, KernelType
<1>19. CASE Exec
  BY <1>19 DEF Exec
<1>20. CASE CommandExits
  BY <1>20 DEF CommandExits
<1>21. CASE UNCHANGED vars
  BY <1>21 DEF vars
<1> QED
  BY <1>1, <1>2, <1>3, <1>4, <1>5, <1>6, <1>7, <1>8, <1>9, <1>10, <1>11,
    <1>12, <1>13, <1>14, <1>15, <1>16, <1>17, <1>18, <1>19, <1>20, <1>21, Zenon
  DEF Next, main, StartUp, Check

\* The type invariant is inductive by itself.
LEMMA TypeStep == TypeOK /\ [Next]_vars => TypeOK'
BY OptionStep, FlagStep, KernelStep, StatusStep, HistoryStep DEF TypeOK

\* Every variable of timeout(1) keeps its type, for every command line,
\* command and arrival of signals.
THEOREM TypeCorrect == Spec => []TypeOK
<1>1. Init => TypeOK
  BY InitIInv DEF IInv
<1> QED BY <1>1, TypeStep, PTL DEF Spec

-----------------------------------------------------------------------------
(* The parts of the inductive invariant that the safety properties rest on. *)

\* Nothing happens before the handlers are installed.
LEMMA StartStep == IInv /\ [Next]_vars => StartInv'
<1> SUFFICES ASSUME IInv, [Next]_vars PROVE StartInv'
  OBVIOUS
<1> USE DEF IInv, Starting, StartInv, main_vars, flag_vars, kernel_vars,
  cmd_vars, hist_vars
<1>1. CASE ParseOption
  BY <1>1 DEF ParseOption, Exit
<1>2. CASE ParseOperands
  BY <1>2 DEF ParseOperands, Exit
<1>3. CASE InstallHandlers
  BY <1>3 DEF InstallHandlers
<1>4. CASE Fork
  BY <1>4 DEF Fork, Exit
<1>5. CASE BlockSignals
  BY <1>5 DEF BlockSignals
<1>6. CASE ArmFirst
  BY <1>6 DEF ArmFirst, Exit
<1>7. CASE Sigsuspend
  BY <1>7 DEF Sigsuspend, sig_handler
<1>8. CASE CheckChld
  BY <1>8 DEF CheckChld
<1>9. CASE CheckAlrm
  BY <1>9 DEF CheckAlrm, Escalate, Exit, send_sig
<1>10. CASE CheckAlrmBackground
  BY <1>10 DEF CheckAlrmBackground, Exit
<1>11. CASE CheckTerm
  BY <1>11 DEF CheckTerm, Escalate, Exit, send_sig
<1>12. CASE CheckTermBackground
  BY <1>12 DEF CheckTermBackground, Escalate, Exit
<1>13. CASE CheckNothing
  BY <1>13 DEF CheckNothing
<1>14. CASE Wait
  BY <1>14 DEF Wait
<1>15. CASE Return
  BY <1>15 DEF Return, Exit
<1>16. CASE HandleAsync
  BY <1>16 DEF HandleAsync, Unblocked, sig_handler
<1>17. CASE ExternalSignal
  BY <1>17 DEF ExternalSignal, Exit
<1>18. CASE TimerExpires
  BY <1>18 DEF TimerExpires
<1>19. CASE Exec
  BY <1>19 DEF Exec, NotifyParent
<1>20. CASE CommandExits
  BY <1>20 DEF CommandExits, NotifyParent
<1>21. CASE UNCHANGED vars
  BY <1>21 DEF vars
<1> QED
  BY <1>1, <1>2, <1>3, <1>4, <1>5, <1>6, <1>7, <1>8, <1>9, <1>10, <1>11, Zenon,
    <1>12, <1>13, <1>14, <1>15, <1>16, <1>17, <1>18, <1>19, <1>20, <1>21
  DEF Next, main, StartUp, Check

\* A reaped command and its status.
LEMMA ReapStep == IInv /\ [Next]_vars => ReapInv'
<1> SUFFICES ASSUME IInv, [Next]_vars PROVE ReapInv'
  OBVIOUS
<1> USE DEF IInv, StartInv, Ended, ReapInv, main_vars, flag_vars, kernel_vars,
  cmd_vars, hist_vars
<1>1. CASE ParseOption
  BY <1>1 DEF ParseOption, Exit
<1>2. CASE ParseOperands
  BY <1>2 DEF ParseOperands, Exit
<1>3. CASE InstallHandlers
  BY <1>3 DEF InstallHandlers
<1>4. CASE Fork
  BY <1>4 DEF Fork, Exit
<1>5. CASE BlockSignals
  BY <1>5 DEF BlockSignals
<1>6. CASE ArmFirst
  BY <1>6 DEF ArmFirst, Exit
<1>7. CASE Sigsuspend
  BY <1>7 DEF Sigsuspend
<1>8. CASE CheckChld
  BY <1>8 DEF CheckChld
<1>9. CASE CheckAlrm
  BY <1>9, StatusKinds DEF CheckAlrm, Escalate, Exit, send_sig
<1>10. CASE CheckAlrmBackground
  BY <1>10, StatusKinds DEF CheckAlrmBackground, Exit
<1>11. CASE CheckTerm
  BY <1>11, StatusKinds DEF CheckTerm, Escalate, Exit, send_sig
<1>12. CASE CheckTermBackground
  BY <1>12, StatusKinds DEF CheckTermBackground, Escalate, Exit
<1>13. CASE CheckNothing
  BY <1>13 DEF CheckNothing
<1>14. CASE Wait
  BY <1>14 DEF Wait
<1>15. CASE Return
  BY <1>15 DEF Return, Exit
<1>16. CASE HandleAsync
  BY <1>16 DEF HandleAsync, Unblocked
<1>17. CASE ExternalSignal
  BY <1>17, StatusKinds DEF ExternalSignal, Exit
<1>18. CASE TimerExpires
  BY <1>18 DEF TimerExpires
<1>19. CASE Exec
  BY <1>19, StatusKinds DEF Exec, NotifyParent
<1>20. CASE CommandExits
  BY <1>20, StatusKinds DEF CommandExits, NotifyParent
<1>21. CASE UNCHANGED vars
  BY <1>21 DEF vars
<1> QED
  BY <1>1, <1>2, <1>3, <1>4, <1>5, <1>6, <1>7, <1>8, <1>9, <1>10, <1>11, Zenon,
    <1>12, <1>13, <1>14, <1>15, <1>16, <1>17, <1>18, <1>19, <1>20, <1>21
  DEF Next, main, StartUp, Check

\* Where the signals timeout knows of came from.
LEMMA CauseStep == IInv /\ [Next]_vars => CauseInv'
<1> SUFFICES ASSUME IInv, [Next]_vars PROVE CauseInv'
  OBVIOUS
<1> USE DEF IInv, AlarmSeen, Starting, Ended, CauseInv, main_vars, flag_vars,
  kernel_vars, cmd_vars, hist_vars
<1>1. CASE ParseOption
  BY <1>1 DEF ParseOption, StartInv, Starting, Exit
<1>2. CASE ParseOperands
  BY <1>2 DEF ParseOperands, StartInv, Starting, Exit
<1>3. CASE InstallHandlers
  BY <1>3 DEF InstallHandlers
<1>4. CASE Fork
  BY <1>4 DEF Fork, Exit
<1>5. CASE BlockSignals
  BY <1>5 DEF BlockSignals
<1>6. CASE ArmFirst
  BY <1>6 DEF ArmFirst, Exit
<1>7. CASE Sigsuspend
  BY <1>7, Zenon DEF Sigsuspend, sig_handler
<1>8. CASE CheckChld
  BY <1>8 DEF CheckChld
<1>9. CASE CheckAlrm
  BY <1>9 DEF CheckAlrm, Escalate, Exit, send_sig
<1>10. CASE CheckAlrmBackground
  BY <1>10 DEF CheckAlrmBackground, Exit
<1>11. CASE CheckTerm
  <2>1. sig_term # "KILL"
    BY <1>11 DEF CheckTerm, TypeOK, FlagType, NoSig
  <2>2. sig_term \in sent'
    BY <1>11 DEF CheckTerm, send_sig
  <2> QED BY <1>11, <2>1, <2>2 DEF CheckTerm, Escalate, Exit, send_sig
<1>12. CASE CheckTermBackground
  BY <1>12 DEF CheckTermBackground, Escalate, Exit
<1>13. CASE CheckNothing
  BY <1>13 DEF CheckNothing
<1>14. CASE Wait
  BY <1>14 DEF Wait
<1>15. CASE Return
  BY <1>15 DEF Return, Exit
<1>16. CASE HandleAsync
  BY <1>16, Zenon DEF HandleAsync, sig_handler, Unblocked
<1>17. CASE ExternalSignal
  BY <1>17 DEF ExternalSignal, Exit
<1>18. CASE TimerExpires
  BY <1>18 DEF TimerExpires, TypeOK, KernelType
<1>19. CASE Exec
  BY <1>19 DEF Exec, NotifyParent
<1>20. CASE CommandExits
  BY <1>20 DEF CommandExits, NotifyParent
<1>21. CASE UNCHANGED vars
  BY <1>21 DEF vars
<1> QED
  BY <1>1, <1>2, <1>3, <1>4, <1>5, <1>6, <1>7, <1>8, <1>9, <1>10, <1>11, Zenon,
    <1>12, <1>13, <1>14, <1>15, <1>16, <1>17, <1>18, <1>19, <1>20, <1>21
  DEF Next, main, StartUp, Check

\* Every signal sent to the command has its cause.
LEMMA SignalCauseStep == IInv /\ [Next]_vars => SignalHasCause'
<1> SUFFICES ASSUME IInv, [Next]_vars PROVE SignalHasCause'
  OBVIOUS
<1> USE DEF IInv, SignalHasCause, main_vars, flag_vars, kernel_vars, cmd_vars,
  hist_vars
<1>1. CASE ParseOption
  BY <1>1 DEF ParseOption
<1>2. CASE ParseOperands
  BY <1>2, Zenon DEF ParseOperands
<1>3. CASE InstallHandlers
  BY <1>3 DEF InstallHandlers, StartInv, Starting
<1>4. CASE Fork
  BY <1>4 DEF Fork
<1>5. CASE BlockSignals
  BY <1>5 DEF BlockSignals
<1>6. CASE ArmFirst
  BY <1>6 DEF ArmFirst
<1>7. CASE Sigsuspend
  BY <1>7 DEF Sigsuspend
<1>8. CASE CheckChld
  BY <1>8 DEF CheckChld
<1>9. CASE CheckAlrm
  BY <1>9 DEF CheckAlrm, Escalate, Exit, send_sig, CauseInv, AlarmSeen,
    Starting, Ended
<1>10. CASE CheckAlrmBackground
  BY <1>10 DEF CheckAlrmBackground
<1>11. CASE CheckTerm
  BY <1>11 DEF CheckTerm, Escalate, Exit, send_sig, CauseInv, AlarmSeen
<1>12. CASE CheckTermBackground
  BY <1>12 DEF CheckTermBackground
<1>13. CASE CheckNothing
  BY <1>13 DEF CheckNothing
<1>14. CASE Wait
  BY <1>14 DEF Wait
<1>15. CASE Return
  BY <1>15 DEF Return
<1>16. CASE HandleAsync
  BY <1>16 DEF HandleAsync
<1>17. CASE ExternalSignal
  BY <1>17 DEF ExternalSignal
<1>18. CASE TimerExpires
  BY <1>18 DEF TimerExpires
<1>19. CASE Exec
  BY <1>19 DEF Exec
<1>20. CASE CommandExits
  BY <1>20 DEF CommandExits
<1>21. CASE UNCHANGED vars
  BY <1>21 DEF vars
<1> QED
  BY <1>1, <1>2, <1>3, <1>4, <1>5, <1>6, <1>7, <1>8, <1>9, <1>10, <1>11,
    <1>12, <1>13, <1>14, <1>15, <1>16, <1>17, <1>18, <1>19, <1>20, <1>21, Zenon
  DEF Next, main, StartUp, Check

\* The alarms of the timers.
LEMMA GraceStep == IInv /\ GraceInv /\ [Next]_vars => GraceInv'
<1> SUFFICES ASSUME IInv, GraceInv, [Next]_vars PROVE GraceInv'
  OBVIOUS
<1> USE DEF GraceInv, Starting, Ended, main_vars, flag_vars, kernel_vars, cmd_vars,
  hist_vars
<1>1. CASE ParseOption
  BY <1>1, Zenon DEF ParseOption, Exit
<1>2. CASE ParseOperands
  BY <1>2, Zenon DEF ParseOperands, Exit, IInv, StartInv
<1>3. CASE InstallHandlers
  BY <1>3 DEF InstallHandlers, IInv, StartInv
<1>4. CASE Fork
  BY <1>4 DEF Fork, Exit
<1>5. CASE BlockSignals
  BY <1>5 DEF BlockSignals
<1>6. CASE ArmFirst
  BY <1>6 DEF ArmFirst, Exit
<1>7. CASE Sigsuspend
  BY <1>7, Zenon DEF Sigsuspend, sig_handler
<1>8. CASE CheckChld
  BY <1>8 DEF CheckChld
<1>9. CASE CheckAlrm
  BY <1>9 DEF CheckAlrm, Escalate, Exit, send_sig
<1>10. CASE CheckAlrmBackground
  BY <1>10 DEF CheckAlrmBackground, Exit
<1>11. CASE CheckTerm
  BY <1>11 DEF CheckTerm, IInv, CauseInv
<1>12. CASE CheckTermBackground
  BY <1>12 DEF CheckTermBackground
<1>13. CASE CheckNothing
  BY <1>13 DEF CheckNothing
<1>14. CASE Wait
  BY <1>14 DEF Wait
<1>15. CASE Return
  BY <1>15 DEF Return, Exit
<1>16. CASE HandleAsync
  BY <1>16, Zenon DEF HandleAsync, sig_handler, Unblocked
<1>17. CASE ExternalSignal
  BY <1>17 DEF ExternalSignal, Exit
<1>18. CASE TimerExpires
  BY <1>18 DEF TimerExpires, IInv, TypeOK, KernelType
<1>19. CASE Exec
  BY <1>19 DEF Exec, NotifyParent
<1>20. CASE CommandExits
  BY <1>20 DEF CommandExits, NotifyParent
<1>21. CASE UNCHANGED vars
  BY <1>21 DEF vars
<1> QED
  BY <1>1, <1>2, <1>3, <1>4, <1>5, <1>6, <1>7, <1>8, <1>9, <1>10, <1>11, Zenon,
    <1>12, <1>13, <1>14, <1>15, <1>16, <1>17, <1>18, <1>19, <1>20, <1>21
  DEF Next, main, StartUp, Check

\* The whole invariant is preserved by every step.
LEMMA IInvStep == IInv /\ [Next]_vars => IInv'
BY TypeStep, StartStep, ReapStep, CauseStep, SignalCauseStep DEF IInv

LEMMA Invariance == Spec => []IInv
BY InitIInv, IInvStep, PTL DEF Spec

\* Whatever the command and its signals do, the status main returns is that
\* of the command it waited for, or 124 after a time-out.
THEOREM StatusCorrect == Spec => []StatusIsTheCommands
<1>1. IInv => StatusIsTheCommands
  BY DEF IInv, ReapInv, StatusIsTheCommands
<1> QED BY <1>1, Invariance, PTL

\* No signal is sent to the command without a cause.
THEOREM CauseCorrect == Spec => []SignalHasCause
<1>1. IInv => SignalHasCause
  BY DEF IInv
<1> QED BY <1>1, Invariance, PTL

\* kill() is never given the pid of a reaped command: signals are sent from
\* the loop only, and reaping ends the loop.
THEOREM ReapedSafe == Spec => NeverSignalsReaped
<1>1. IInv /\ [Next]_vars => [sent' # sent => child # "reaped"]_vars
  <2> SUFFICES ASSUME IInv, Next, sent' # sent
               PROVE  child # "reaped"
    BY DEF vars, hist_vars
  <2>1. pc = "check"
    BY Zenon DEF Next, main, StartUp, Check, ParseOption, ParseOperands, InstallHandlers,
       Fork, BlockSignals, ArmFirst, Sigsuspend, CheckChld, CheckAlrm,
       CheckAlrmBackground, CheckTerm, CheckTermBackground, CheckNothing, Wait,
       Return, HandleAsync, ExternalSignal, TimerExpires, Exec, CommandExits, hist_vars
  <2> QED BY <2>1 DEF IInv, ReapInv
<1> QED BY <1>1, Invariance, PTL DEF Spec, NeverSignalsReaped

\* SIGKILL follows the first signal only when the time given with -k has
\* passed, as long as nobody else signals timeout.
THEOREM GraceKept == Spec => GracePeriod
<1>1. Init => GraceInv
  BY DEF Init, GraceInv, Starting
<1>2. IInv /\ GraceInv /\ [Next]_vars =>
        [("KILL" \in sent' \ sent /\ chosen # "KILL" /\ received = {}) => "second" \in expired]_vars
  <2> SUFFICES ASSUME IInv, GraceInv, Next, "KILL" \in sent' \ sent, chosen # "KILL", received = {}
               PROVE  "second" \in expired
    BY DEF vars, hist_vars
  <2>1. CheckAlrm \/ CheckTerm
    BY Zenon DEF Next, main, StartUp, Check, ParseOption, ParseOperands, InstallHandlers,
       Fork, BlockSignals, ArmFirst, Sigsuspend, CheckChld,
       CheckAlrmBackground, CheckTermBackground, CheckNothing, Wait,
       Return, HandleAsync, ExternalSignal, TimerExpires, Exec, CommandExits, hist_vars
  <2>2. CASE CheckAlrm
    BY <2>2 DEF CheckAlrm, send_sig, GraceInv, Starting, Ended
  <2>3. CASE CheckTerm
    BY <2>3 DEF CheckTerm, IInv, CauseInv
  <2> QED BY <2>1, <2>2, <2>3
<1> QED BY <1>1, <1>2, GraceStep, Invariance, PTL DEF Spec, GracePeriod
=============================================================================
