------------------------------- MODULE Factor -------------------------------
(***************************************************************************)
(* factor(6) as this repository builds it, without OpenSSL: main reads     *)
(* numbers, convert_str2bn converts them into a word and pr_fact divides   *)
(* out the primes of a table and prints what is left.                      *)
(*                                                                         *)
(* A number is written as an optional sign, an optional 0x and the longest *)
(* run of hexadecimal digits that follows; what comes after the run is not *)
(* read.  A word is a natural number below Width.  `out` is the line being *)
(* printed, `n` the number in front of its colon.                          *)
(***************************************************************************)
EXTENDS Integers, Sequences

CONSTANTS Width,    \* 2^64: what an unsigned long holds
          prime,    \* the table of primes in pr_tbl.c
          Beyond,   \* what a read behind the end of the table may return
          Inputs    \* the sequences of numbers given to the program, as
                    \* arguments or as the lines of the input that are not blank

\* The table is an initial part of the primes, in order.
ASSUME TableAssumption ==
  /\ Width \in Nat
  /\ prime \in Seq(2..(Width - 1)) /\ Len(prime) > 0
  /\ \A k \in 2..prime[Len(prime)] :
       (\A d \in 2..(k - 1) : k % d # 0) <=> (\E i \in DOMAIN prime : prime[i] = k)
  /\ \A i, j \in DOMAIN prime : i < j => prime[i] < prime[j]
  /\ Beyond \subseteq 0..(Width - 1)

VARIABLES args,     \* the numbers not read yet
          hflag,    \* -h
          val,      \* the part of n that is not factored yet
          n, out,
          fact,     \* index of the factor tried
          pc        \* "read", "seek", "divide", or how the program ended

vars == <<args, hflag, val, n, out, fact, pc>>

pr_limit == Len(prime)

Numeral(prefix, digits) ==
  [plus |-> FALSE, minus |-> FALSE, prefix |-> prefix, digits |-> digits]

Illegal == [ok |-> FALSE, val |-> 0]

\* The number that the digits stand for.
Value(digits, base) ==
  LET v[i \in 0..Len(digits)] == IF i = 0 THEN 0 ELSE v[i - 1] * base + digits[i]
  IN v[Len(digits)]

\* C's strtoul: no digits and a value out of range set errno.
strtoul(digits, base) ==
  IF digits = <<>> \/ Value(digits, base) >= Width THEN Illegal
  ELSE [ok |-> TRUE, val |-> Value(digits, base)]

is_hex_str(digits) == \E i \in DOMAIN digits : digits[i] >= 10

convert_str2bn(s) ==
  IF s.minus \/ (~s.prefix /\ s.digits # <<>> /\ s.digits[1] = 0) THEN Illegal
  ELSE strtoul(s.digits, IF s.prefix \/ is_hex_str(s.digits) THEN 16 ELSE 10)

\* What is given to the program are numerals.
ASSUME InputsAssumption ==
  Inputs \subseteq Seq([plus : BOOLEAN, minus : BOOLEAN, prefix : BOOLEAN, digits : Seq(0..15)])

\* printf's %lx and %lu.
Digits(v, base) ==
  LET d[w \in 0..v] == IF w = 0 THEN <<>> ELSE Append(d[w \div base], w % base)
  IN d[v]

\* How BN_print_fp, behind "0x", and BN_print_dec_fp print a number.
Printed_Bare(v) == Numeral(FALSE, Digits(v, IF hflag THEN 16 ELSE 10))
Printed(v) == Numeral(hflag, Digits(v, IF hflag THEN 16 ELSE 10))

Init == /\ args \in Inputs
        /\ hflag \in BOOLEAN
        /\ val = 0 /\ n = 0 /\ out = <<>>
        /\ fact = 1
        /\ pc = "read"

\* for (p = *argv; p != NULL; p = *++argv), or the next line of the input.
Rest_Same == args
Rest == Tail(args)

\* fact = &prime[0]
First == 1

\* main takes the next number, and pr_fact looks at it: zero ends the
\* program, one is printed as it is.
Read ==
  /\ pc = "read" /\ args # <<>>
  /\ args' = Rest
  /\ LET c == convert_str2bn(Head(args))
     IN IF ~c.ok THEN pc' = "error" /\ UNCHANGED <<val, n, out, fact>>
        ELSE /\ val' = c.val
             /\ n' = c.val
             /\ out' = IF c.val = 1 THEN <<1>> ELSE <<>>
             /\ fact' = First
             /\ pc' = CASE c.val = 0 -> "exit" [] c.val = 1 -> "read" [] OTHER -> "seek"
  /\ UNCHANGED hflag

\* End of the arguments or of the input, or an error reading it.
End == /\ pc = "read" /\ args = <<>>
       /\ pc' \in {"exit", "error"}
       /\ UNCHANGED <<args, hflag, val, n, out, fact>>

\* The table's entry at f; behind the table, any word that may lie there.
Entry(f) == IF f <= pr_limit THEN {prime[f]} ELSE Beyond

\* What is left is larger than the table's primes: print it, end the line.
PrintRest_Not == /\ out' = out
                 /\ pc' = "read"
PrintRest == /\ out' = Append(out, val)
             /\ pc' = "read"

\* One turn of the loop that looks for the smallest factor.  When the
\* table's last prime has just been divided out the loop starts behind the
\* table; a zero found there may or may not trap, as the processor has it.
SeekUpTo(limit) ==
  /\ pc = "seek"
  /\ \E e \in Entry(fact) :
       LET divides == e # 0 /\ val % e = 0
       IN \/ divides /\ fact <= limit /\ pc' = "divide" /\ UNCHANGED <<out, fact>>
          \/ divides /\ fact > limit /\ PrintRest /\ UNCHANGED fact
          \/ /\ ~divides /\ fact' = fact + 1
             /\ IF fact' <= limit THEN UNCHANGED <<out, pc>> ELSE PrintRest
          \/ e = 0 /\ pc' = "trap" /\ UNCHANGED <<out, fact>>
  /\ UNCHANGED <<args, hflag, val, n>>

Seek_Early == SeekUpTo(pr_limit - 1)
Seek_Late == SeekUpTo(pr_limit + 1)
Seek == SeekUpTo(pr_limit)

\* One turn of the loop that divides a factor out, and behind its last turn
\* the head of the for loop.
Divide ==
  /\ pc = "divide"
  /\ out' = Append(out, prime[fact])
  /\ val' = val \div prime[fact]
  /\ IF val' % prime[fact] = 0 THEN UNCHANGED <<fact, pc>>
     ELSE fact' = fact + 1 /\ pc' = IF val' = 1 THEN "read" ELSE "seek"
  /\ UNCHANGED <<args, hflag, n>>

Next == Read \/ End \/ Seek \/ Divide

\* The loops run without waiting for anything but input.
Spec == Init /\ [][Next]_vars /\ WF_vars(Next)

-----------------------------------------------------------------------------
\* A line of output is complete.
LineDone == pc = "read" /\ out # <<>>

Product(s) ==
  LET p[i \in 0..Len(s)] == IF i = 0 THEN 1 ELSE p[i - 1] * s[i]
  IN p[Len(s)]

\* What has been printed times what is left is the number, at every step of
\* pr_fact's loops, and a complete line multiplies out to it: no factor is
\* lost or printed twice whatever lies behind the table.
ProductKept ==
  /\ pc \in {"seek", "divide"} => Product(out) * val = n
  /\ LineDone => Product(out) = n

IsPrime(k) == k > 1 /\ \A d \in 2..(k - 1) : k % d # 0

\* "Factors are listed in ascending order" (factor.6:57), the rest that pr_print
\* adds behind the table's primes included; and what a complete line holds are
\* primes, but for a last factor that has two prime factors above the table's
\* last prime: without OpenSSL pr_fact prints that one as it is.
PrimesAscending ==
  /\ \A i, j \in DOMAIN out : i < j => out[i] <= out[j]
  /\ LineDone /\ n # 1 =>
       \A i \in DOMAIN out :
         \/ IsPrime(out[i])
         \/ /\ i = Len(out) /\ out[i] > prime[pr_limit] * prime[pr_limit]
            /\ \A j \in DOMAIN prime : out[i] % prime[j] # 0

\* The table is read behind its end by one entry at most, and only after
\* its last prime was divided out with something left over.
ReadsBehind ==
  pc = "seek" /\ fact > pr_limit =>
    fact = pr_limit + 1 /\ n % prime[pr_limit] = 0 /\ val > prime[pr_limit]

\* What factor prints, with -h or without, factor reads back as the same
\* number: printing in base 16 and convert_str2bn's choice of a base agree.
ReadBack ==
  \A i \in DOMAIN out : convert_str2bn(Printed(out[i])) = [ok |-> TRUE, val |-> out[i]]

\* Every number given is factored or ends the program: the loops end.
Ends == <>(pc \in {"exit", "error", "trap"})
=============================================================================
