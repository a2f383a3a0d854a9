--------------------------- MODULE MCIndentParser ---------------------------
(* Instances of IndentParser for TLC.                                      *)
EXTENDS IndentParser

CONSTANT MaxLevel  \* bound on the indentation levels

Bounded == ps.i_l_follow <= MaxLevel /\ ps.ind_level \in -1..MaxLevel
=============================================================================
