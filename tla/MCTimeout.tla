----------------------------- MODULE MCTimeout -----------------------------
(* Command lines for the runs of Timeout.  A second is 8 ticks here and the  *)
(* limit on durations is 100000 seconds, just above a day.                   *)
EXTENDS Timeout

Dur(ticks, suffix) == [conv |-> TRUE, ticks |-> ticks, suffix |-> suffix]
NoDur  == [conv |-> FALSE, ticks |-> 0, suffix |-> "long"]
NoArg  == [kind |-> "junk", num |-> 0, name |-> "TERM"]
Num(n) == [kind |-> "num", num |-> n, name |-> "TERM"]
Name(s) == [kind |-> "name", num |-> 0, name |-> s]

K(d) == [opt |-> "k", dur |-> d, sig |-> NoArg]
S(a) == [opt |-> "s", dur |-> NoDur, sig |-> a]
Flag(f) == [opt |-> f, dur |-> NoDur, sig |-> NoArg]

Line(opts, d) == [opts |-> opts, duration |-> d, operands |-> TRUE]

OneSec == Dur(8, "")

\* Modes and signals in every combination that changes what main does.
LoopArgvs ==
  {Line(f \o p \o s \o k, d) :
     f \in {<<>>, <<Flag("foreground")>>},
     p \in {<<>>, <<Flag("preserve")>>},
     s \in {<<>>, <<S(Num(9))>>, <<S(Name("ALRM"))>>, <<S(Name("USR1"))>>,
            <<S(Name("CHLD"))>>, <<S(Name("STOP"))>>},
     k \in {<<>>, <<K(OneSec)>>},
     d \in {OneSec, Dur(0, "")}}

\* Command lines at the edges of the conversions: negative, below the
\* timer's resolution, too long with and without a suffix, a repeated -s.
EdgeArgvs ==
  {Line(<<Flag("foreground")>>, d) :
     d \in {Dur(-8, ""), Dur(-8, "s"), Dur(1, ""), Dur(-1, ""), Dur(8, "d"),
            Dur(16, "d"), Dur(8, "m"), Dur(8, "h"), Dur(8, "other"),
            Dur(8, "long"), Dur(8 * 100001, ""), NoDur}}
  \cup {Line(<<Flag("foreground"), S(a), S(b)>>, OneSec) :
          a \in {Num(15), Name("INT"), NoArg}, b \in {Num(1), Num(2), Name("HUP")}}
  \cup {Line(<<Flag("foreground"), K(d)>>, OneSec) : d \in {Dur(-8, ""), Dur(1, ""), NoDur}}
  \cup {Line(<<Flag("usage")>>, OneSec),
        [opts |-> <<>>, duration |-> OneSec, operands |-> FALSE]}

AllArgvs == LoopArgvs \cup EdgeArgvs

NoLimitArgvs == {Line(<<>>, Dur(0, ""))}
KillAfterArgvs == {Line(<<Flag("foreground"), K(OneSec)>>, OneSec)}

AllCommands == [exec : {"ok", "noent", "error"}, stubborn : BOOLEAN]
GoodCommands == [exec : {"ok"}, stubborn : BOOLEAN]
=============================================================================
