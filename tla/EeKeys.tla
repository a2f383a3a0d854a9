------------------------------- MODULE EeKeys -------------------------------
(* new_curse's keyboard input as this build has it (neither SYS5 nor         *)
(* BSD_SELECT): wgetch reads a byte, and Get_key the rest of an escape       *)
(* sequence, with reads that do not block and an alarm after a second.       *)
(*                                                                           *)
(* A read that does not block and finds nothing returns -1, which wgetch     *)
(* takes for success: its value is then whatever the uninitialized temp      *)
(* holds.  Each byte is kept with its place in the input (0 for one nobody   *)
(* typed), so that it can be followed.  Left out: parity, and bytes of 255.  *)
EXTENDS Integers, Sequences, FiniteSetsExt

CONSTANTS Bytes,     \* the bytes a keyboard sends, Esc among them
          Esc,
          Sequences, \* the strings of KEY_STACK, each beginning with Esc
          Low,       \* the low byte of a function key's value
          Junk,      \* what temp may hold
          BuffSize,  \* the size of in_buff (100)
          MaxTyped,  \* bound: how many bytes are typed
          MaxDepth   \* bound: how deep junk and SIGWINCH nest the calls

ASSUME KeysAssumption ==
  /\ Esc \in Bytes /\ Junk \subseteq Bytes
  /\ BuffSize \in Nat /\ MaxTyped \in Nat /\ MaxDepth \in Nat
  /\ IsFiniteSet(Sequences)
  /\ \A s \in Sequences : s \in Seq(Bytes) /\ Len(s) > 1 /\ s[1] = Esc

Max_Key_len == Max({0} \cup {Len(s) : s \in Sequences})

VARIABLES typed,     \* how many bytes have been typed
          pending,   \* those not yet read
          hung,      \* the terminal is gone: read returns 0
          in_buff,   \* what ungetch has pushed back, the last one first
          frames,    \* the calls that wait for wgetch, the outermost first: the string
                     \* of a Get_key, or <<>> for a wgetch that calls itself again
          at,        \* where the innermost call is
          value,     \* what it has read, or returns: the bytes of one key
          Noblock, Time_Out,
          alarm,     \* the alarm is set
          interrupt_flag,
          keys,      \* the places of the bytes ee has been given
          lost       \* the places of bytes that came to nothing

vars == <<typed, pending, hung, in_buff, frames, at, value, Noblock, Time_Out, alarm,
          interrupt_flag, keys, lost>>

Nothing == <<>>
Places(items) == {items[k].i : k \in DOMAIN items} \ {0}

\* The innermost call, and those around it.
Inner(calls) == calls[Len(calls)]
Outer(calls) == SubSeq(calls, 1, Len(calls) - 1)

String(items) == [k \in DOMAIN items |-> items[k].b]

Init ==
  /\ typed = 0 /\ pending = <<>> /\ hung = FALSE
  /\ in_buff = <<>> /\ frames = <<>>
  /\ at = "call" /\ value = Nothing
  /\ Noblock = FALSE /\ Time_Out = FALSE /\ alarm = FALSE
  /\ interrupt_flag = FALSE
  /\ keys = {} /\ lost = {}

-----------------------------------------------------------------------------
(* The world outside.                                                      *)

input == <<typed, pending, hung>>
reading == <<in_buff, frames, at, value, Noblock, keys, lost>>

Type ==
  /\ typed < MaxTyped /\ ~hung /\ typed' = typed + 1
  /\ \E b \in Bytes : pending' = Append(pending, [b |-> b, i |-> typed + 1])
  /\ UNCHANGED <<hung, Time_Out, alarm, interrupt_flag, reading>>

HangUp ==
  /\ ~hung /\ hung' = TRUE
  /\ UNCHANGED <<typed, pending, Time_Out, alarm, interrupt_flag, reading>>

\* SIGALRM: Clear.
Clear ==
  /\ alarm /\ alarm' = FALSE
  /\ Time_Out' = TRUE
  /\ UNCHANGED <<input, interrupt_flag, reading>>

\* SIGWINCH: reinitscr.  The read goes on.
Winch ==
  /\ ~interrupt_flag /\ interrupt_flag' = TRUE
  /\ Len(frames) < MaxDepth
  /\ UNCHANGED <<input, Time_Out, alarm, reading>>
-----------------------------------------------------------------------------
(* wgetch.                                                                 *)

Call ==
  /\ at = "call" /\ at' = "read"
  /\ Time_Out' = (Time_Out /\ ~Noblock)
  /\ UNCHANGED <<input, in_buff, frames, value, Noblock, alarm, interrupt_flag, keys, lost>>

\* A byte pushed back, else one from the terminal, else the end of file, else
\* whatever temp holds; a read that blocks waits.
Take ==
  /\ at = "read" /\ at' = "check"
  /\ \/ /\ in_buff # <<>>
        /\ value' = <<Head(in_buff)>> /\ in_buff' = Tail(in_buff)
        /\ UNCHANGED pending
     \/ /\ in_buff = <<>> /\ pending # <<>>
        /\ value' = <<Head(pending)>> /\ pending' = Tail(pending)
        /\ UNCHANGED in_buff
     \/ /\ in_buff = <<>> /\ pending = <<>> /\ hung
        /\ value' = Nothing
        /\ UNCHANGED <<in_buff, pending>>
     \/ /\ in_buff = <<>> /\ pending = <<>> /\ ~hung /\ Noblock
        /\ \E b \in Junk : /\ b = Esc => Len(frames) < MaxDepth
                           /\ value' = <<[b |-> b, i |-> 0]>>
        /\ UNCHANGED <<in_buff, pending>>
  /\ UNCHANGED <<typed, hung, frames, Noblock, Time_Out, alarm, interrupt_flag, keys, lost>>

\* What the time-out leaves of the byte.
Kept == IF Noblock /\ Time_Out THEN Nothing ELSE value

\* The end of wgetch: an escape byte c begins a Get_key.
Decode(calls, c) ==
  IF Len(c) = 1 /\ c[1].b = Esc
  THEN /\ at' = "loop" /\ value' = Nothing
       /\ frames' = Append(calls, c)
       /\ Time_Out' = FALSE /\ alarm' = TRUE /\ Noblock' = TRUE
  ELSE /\ at' = "return" /\ value' = c
       /\ frames' = calls
       /\ UNCHANGED <<Time_Out, alarm, Noblock>>

\* The rest of wgetch: without a byte it calls itself if there was a SIGWINCH.
Check ==
  /\ at = "check"
  /\ lost' = lost \cup (Places(value) \ Places(Kept))
  /\ \/ /\ Kept = Nothing /\ interrupt_flag
        /\ interrupt_flag' = FALSE /\ at' = "call" /\ value' = Nothing
        /\ frames' = Append(frames, <<>>)
        /\ UNCHANGED <<Time_Out, alarm, Noblock>>
     \/ /\ Kept # Nothing \/ ~interrupt_flag
        /\ Decode(frames, Kept)
        /\ UNCHANGED interrupt_flag
  /\ UNCHANGED <<input, in_buff, keys>>
-----------------------------------------------------------------------------
(* Get_key.                                                                *)

\* A call of wgetch returns: to ee, which exits when there is no more input, to
\* the wgetch that called it, which decodes its value again, or to Get_key,
\* which puts a function key found inside a sequence into a char.
Return ==
  /\ at = "return"
  /\ \/ /\ frames = <<>>
        /\ keys' = keys \cup Places(value)
        /\ at' = IF value = Nothing THEN "exit" ELSE "call"
        /\ value' = Nothing
        /\ UNCHANGED <<frames, Noblock, Time_Out, alarm, lost>>
     \/ /\ frames # <<>> /\ Inner(frames) = <<>>
        /\ Decode(Outer(frames), value)
        /\ UNCHANGED <<keys, lost>>
     \/ /\ frames # <<>> /\ Inner(frames) # <<>>
        /\ LET item == IF Len(value) > 1 THEN <<[b |-> Low, i |-> 0]>> ELSE value
           IN /\ frames' = Append(Outer(frames), Inner(frames) \o item)
              /\ lost' = lost \cup (Places(value) \ Places(item))
        /\ at' = "loop" /\ value' = Nothing
        /\ UNCHANGED <<keys, Noblock, Time_Out, alarm>>
  /\ UNCHANGED <<input, in_buff, interrupt_flag>>

Found(s) == String(s) \in Sequences

\* Mutant: behind what was pushed back before.
PushedBack_Behind(s) == in_buff \o Tail(s)

\* in_buff when all of a string but its first byte has been given to ungetch,
\* the last byte first.
PushedBack(s) == Tail(s) \o in_buff

\* Mutant: ungetch does not look at the size of in_buff.
Fitting_All(buff) == buff

\* ungetch drops what does not fit.
Fitting(buff) == SubSeq(buff, Max({1, Len(buff) - BuffSize + 1}), Len(buff))

\* TIOCSETP throws away what has not been read, unless the terminal is gone.
Discarded == IF hung THEN <<>> ELSE pending

\* Get_key's loop: on, or its end.
Loop ==
  /\ at = "loop"
  /\ LET s == Inner(frames)
     IN \/ /\ Len(s) < Max_Key_len /\ ~Time_Out /\ ~Found(s)
           /\ at' = "call"
           /\ UNCHANGED <<frames, value, in_buff, pending, alarm, Noblock, lost>>
        \/ /\ Len(s) >= Max_Key_len \/ Time_Out \/ Found(s)
           /\ at' = "return" /\ frames' = Outer(frames)
           /\ alarm' = (alarm /\ Time_Out) /\ Noblock' = FALSE
           /\ pending' = IF hung THEN pending ELSE <<>>
           /\ IF Found(s)
              THEN /\ value' = s /\ in_buff' = in_buff
                   /\ lost' = lost \cup Places(Discarded)
              ELSE LET buff == PushedBack(s)
                   IN /\ value' = <<s[1]>>
                      /\ in_buff' = Fitting(buff)
                      /\ lost' = lost \cup Places(Discarded)
                                      \cup (Places(buff) \ Places(Fitting(buff)))
  /\ UNCHANGED <<typed, hung, Time_Out, interrupt_flag, keys>>

Outside == Type \/ HangUp \/ Winch
Ee == Call \/ Take \/ Check \/ Return \/ Loop

Next == Outside \/ Clear \/ Ee

Spec == Init /\ [][Next]_vars

\* ee runs, and an alarm that is set goes off.
FairSpec == Spec /\ WF_vars(Ee) /\ WF_vars(Clear)
-----------------------------------------------------------------------------
(* Properties.                                                             *)

Item == [b : Bytes \cup {Low}, i : 0..MaxTyped]

\* Every variable keeps its type; in_buff holds no more than it has room for,
\* and a Get_key no more than the longest sequence.
TypeOK ==
  /\ typed \in 0..MaxTyped
  /\ pending \in Seq(Item) /\ in_buff \in Seq(Item) /\ value \in Seq(Item)
  /\ frames \in Seq(Seq(Item))
  /\ at \in {"call", "read", "check", "return", "loop", "exit"}
  /\ {hung, Noblock, Time_Out, alarm, interrupt_flag} \subseteq BOOLEAN
  /\ Len(in_buff) <= BuffSize
  /\ \A k \in DOMAIN frames : Len(frames[k]) <= Max({1, Max_Key_len})
  /\ keys \cup lost \subseteq 1..MaxTyped

\* The bytes that ee is going to be given, in that order.
Queue == frames \o <<value, in_buff, pending>>

Ascending(items) ==
  \A j, k \in DOMAIN items :
    j < k /\ items[j].i # 0 /\ items[k].i # 0 => items[j].i < items[k].i

Before(S, T) == \A i \in S, j \in T : i < j

\* No byte overtakes another or is seen twice, however reads, pushed-back bytes,
\* nested sequences and the alarm interleave: those ee has been given come
\* before those it is going to be given, which are in order.  None disappears
\* but for those the alarm, an overfull in_buff, a key inside a sequence or the
\* ioctl at the end of a sequence takes.
KeysInOrder ==
  /\ \A q \in DOMAIN Queue : Ascending(Queue[q]) /\ Before(keys, Places(Queue[q]))
  /\ \A p, q \in DOMAIN Queue : p < q => Before(Places(Queue[p]), Places(Queue[q]))
  /\ keys \cup UNION {Places(Queue[q]) : q \in DOMAIN Queue} = (1..typed) \ lost

\* When the terminal is gone ee ends: "without this exit ee will go into an
\* infinite loop if the network session detaches" (ee.c:629).
HangupEnds == hung ~> (at = "exit")
=============================================================================
