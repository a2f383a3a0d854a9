---------------------------- MODULE TimeoutArgs ----------------------------
(***************************************************************************)
(* The argument conversions of timeout(1): parse_duration, parse_signal    *)
(* and the rounding of set_interval.                                       *)
(*                                                                         *)
(* Time is counted in ticks, TicksPerUsec of them to a microsecond, so     *)
(* that a duration below the timer's resolution can be written.  The two   *)
(* large numbers of the source (1000000 microseconds to a second and the   *)
(* limit of 100000000 seconds) are constants.                              *)
(***************************************************************************)
EXTENDS Integers

CONSTANTS TicksPerUsec,  \* resolution of the model's durations
          UsecPerSec,    \* 1000000 in timeout.c
          MaxSecs        \* 100000000 in timeout.c, and the kernel's own limit

ASSUME ScaleAssumption ==
  /\ TicksPerUsec \in Nat \ {0}
  /\ UsecPerSec \in Nat \ {0}
  /\ MaxSecs \in Nat \ {0}

TicksPerSec == TicksPerUsec * UsecPerSec

-----------------------------------------------------------------------------
(* Signals: the ones timeout.c names, and USR1 for all the others.  The    *)
(* numbers are Darwin's.                                                   *)

SigNum == [HUP |-> 1, INT |-> 2, QUIT |-> 3, KILL |-> 9, ALRM |-> 14,
           TERM |-> 15, STOP |-> 17, CHLD |-> 20, USR1 |-> 30]

Signals == {"HUP", "INT", "QUIT", "KILL", "ALRM", "TERM", "STOP", "CHLD", "USR1"}

NoSig == "none"

-----------------------------------------------------------------------------
(* A duration as strtod sees it: whether a number was found, its value in  *)
(* ticks, and what follows it ("" nothing, "long" several characters).     *)

Suffixes == {"", "s", "m", "h", "d", "other", "long"}

UnitSecs(suffix) ==
  CASE suffix = "m" -> 60
    [] suffix = "h" -> 60 * 60
    [] suffix = "d" -> 60 * 60 * 24
    [] OTHER        -> 1

\* The range test is reached only by a duration that carries a suffix.
parse_duration(d) ==
  LET ret == d.ticks * UnitSecs(d.suffix)
  IN [ok    |-> /\ d.conv
                /\ \/ d.suffix = ""
                   \/ /\ d.suffix \in {"s", "m", "h", "d"}
                      /\ ret >= 0
                      /\ ret < MaxSecs * TicksPerSec,
      ticks |-> ret]

\* C's conversion of a double to an integer drops the fraction.
Truncate(a, b) == IF a < 0 THEN -((-a) \div b) ELSE a \div b

\* What set_interval asks of setitimer: "fail" (EINVAL), "off" or "arm".
set_interval(iv) ==
  LET sec  == Truncate(iv, TicksPerSec)
      usec == Truncate(iv - sec * TicksPerSec, TicksPerUsec)
  IN IF sec < 0 \/ sec > MaxSecs \/ usec < 0 THEN "fail"
     ELSE IF sec = 0 /\ usec = 0 THEN "off" ELSE "arm"

-----------------------------------------------------------------------------
(* A signal argument is a number ("num") or a word; a word names a signal  *)
(* or nothing ("junk").  strtol sets errno to EINVAL on a word, and        *)
(* parse_signal reads errno without ever clearing it.                      *)

NumericSignal(n) == {s \in Signals : SigNum[s] = n}

parse_signal(arg, errno) ==
  LET err == errno \/ arg.kind # "num"
  IN [errno |-> err,
      sig   |-> IF ~err /\ arg.num > 1 /\ NumericSignal(arg.num) # {}
                THEN CHOOSE s \in NumericSignal(arg.num) : TRUE
                ELSE IF arg.kind = "name" THEN arg.name ELSE NoSig]
=============================================================================
