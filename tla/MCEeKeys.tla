------------------------------ MODULE MCEeKeys ------------------------------
(* Instances of EeKeys for TLC. *)
EXTENDS EeKeys

\* One key of two bytes and one of three, beginning alike.
TwoKeys == {<<"esc", "a">>, <<"esc", "b", "a">>}
=============================================================================
