------------------------------ MODULE MCFactor ------------------------------
(* A table of three primes and words below 600: products of the last prime  *)
(* of the table, of primes above it and numbers at the end of the range.    *)
EXTENDS Factor

Table == <<2, 3, 5>>

Numbers ==
  {[plus |-> FALSE, minus |-> m, prefix |-> x, digits |-> d] :
     m \in {FALSE}, x \in BOOLEAN,
     d \in UNION {[1..k -> {0, 1, 2, 5, 7, 10}] : k \in 0..3}}
  \cup {[plus |-> TRUE, minus |-> m, prefix |-> FALSE, digits |-> <<7>>] : m \in BOOLEAN}

Lists == {<<>>} \cup {<<a>> : a \in Numbers}
         \cup {<<a, b>> : a \in {Numeral(FALSE, <<1>>), Numeral(FALSE, <<1, 2>>), Numeral(TRUE, <<0>>)},
                          b \in Numbers}
=============================================================================
