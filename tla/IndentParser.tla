---------------------------- MODULE IndentParser ----------------------------
(***************************************************************************)
(* The shift-reduce parser of indent (parse.c) and the saving and          *)
(* restoring of its state around #if, #else and #endif (indent.c).         *)
(*                                                                         *)
(* The entries of the arrays p_stack, il and cstk up to tos are the        *)
(* sequence ps.stack, so that tos is Len(ps.stack) - 1.  A call of parse   *)
(* is several steps, one for each turn of its loops, in the order pc       *)
(* says; between two calls main may call it with any construct, end the    *)
(* output line, or meet a preprocessor line.                               *)
(*                                                                         *)
(* Left out: search_brace and break_comma, which parse only sets for main, *)
(* match_state, which nothing reads, and the level main starts with when   *)
(* the first line of the input is indented.  case_indent, a float, is a    *)
(* whole number of levels.                                                 *)
(***************************************************************************)
EXTENDS Integers, Sequences, FiniteSets

CONSTANTS StackSize,   \* STACKSIZE
          IfdefDepth,  \* the size of state_stack
          CaseIndent,  \* opt.case_indent
          ElseIf,      \* opt.else_if
          LjustDecl,   \* opt.ljust_decl
          Constructs   \* the constructs of the programs considered

Tokens  == {"decl", "ifstmt", "dolit", "forstmt", "lbrace", "whilestmt", "elselit",
            "rbrace", "swstmt", "semicolon"}
Symbols == {"decl", "ifstmt", "dolit", "forstmt", "lbrace", "whilestmt", "swstmt",
            "stmt", "stmtl", "ifhead", "elsehead", "dohead"}

ASSUME ParserAssumption ==
  /\ StackSize \in Nat /\ StackSize >= 3
  /\ IfdefDepth \in Nat /\ CaseIndent \in Nat
  /\ ElseIf \in BOOLEAN /\ LjustDecl \in BOOLEAN
  /\ Constructs \subseteq Tokens

VARIABLES
  ps,           \* parser_state: stack, i_l_follow and ind_level
  case_ind,     \* the level of case labels; not part of ps
  state_stack,  \* ps as it was at each open #if; its length is ifdef_level
  pc,           \* where in parse we are; "ready" between calls
  tk,           \* the construct given to parse
  empty,        \* s_code == e_code: is the output line still empty?
  back,         \* where reduce returns to
  found_err,    \* has diag2 been called with level 1?
  highest       \* the highest index of p_stack ever written; nothing reads it

vars == <<ps, case_ind, state_stack, pc, tk, empty, back, found_err, highest>>

tos        == Len(ps.stack) - 1
Top        == ps.stack[Len(ps.stack)]
Under      == ps.stack[Len(ps.stack) - 1]
Entry(t, il, cstk) == [t |-> t, il |-> il, cstk |-> cstk]
SetTop(s, t)       == [s EXCEPT ![Len(s)].t = t]
Pop(s, n)          == SubSeq(s, 1, Len(s) - n)

\* Mutant: main does not begin with parse(semicolon).
Init_NoSemicolon ==
  /\ ps = [stack |-> <<Entry("stmt", 0, 0)>>, i_l_follow |-> 0, ind_level |-> 0]
  /\ case_ind = 0 /\ state_stack = <<>>
  /\ pc = "ready" /\ tk = "semicolon" /\ empty = TRUE /\ back = "ready"
  /\ found_err = FALSE /\ highest = 0

\* main has put stmt at the bottom and called parse(semicolon).
Init ==
  /\ ps = [stack |-> <<Entry("stmt", 0, 0)>>, i_l_follow |-> 0, ind_level |-> 0]
  /\ case_ind = 0 /\ state_stack = <<>>
  /\ pc = "flush" /\ tk = "semicolon" /\ empty = TRUE /\ back = "ready"
  /\ found_err = FALSE /\ highest = 0

-----------------------------------------------------------------------------
(* What main does between two calls of parse.                              *)

Parse(t, line) ==
  /\ pc = "ready"
  /\ pc' = "flush" /\ tk' = t /\ empty' = line
  /\ UNCHANGED <<ps, case_ind, state_stack, back, found_err, highest>>

\* The state after dump_line, as far as the parser goes, or, when there was no
\* line to write, without it.
Dumped(line) == IF line THEN [ps EXCEPT !.ind_level = ps.i_l_follow] ELSE ps

dump_line ==
  /\ pc = "ready"
  /\ ps' = Dumped(TRUE)
  /\ UNCHANGED <<case_ind, state_stack, pc, tk, empty, back, found_err, highest>>

\* After the declaration of a function's parameter (K&R style).
Parameter ==
  /\ pc = "ready" /\ tos <= 2 /\ Top.t = "decl"
  /\ ps' = [ps EXCEPT !.ind_level = 1, !.i_l_follow = 1]
  /\ UNCHANGED <<case_ind, state_stack, pc, tk, empty, back, found_err, highest>>

\* Before the brace of a function.
FunctionBrace ==
  /\ pc = "ready" /\ tos <= 1
  /\ \E line \in BOOLEAN : ps' = [ps EXCEPT !.i_l_follow = 0, !.ind_level = IF line THEN 0 ELSE @]
  /\ UNCHANGED <<case_ind, state_stack, pc, tk, empty, back, found_err, highest>>

\* #if, #ifdef and #ifndef.
If(line) ==
  /\ pc = "ready"
  /\ ps' = Dumped(line)
  /\ IF Len(state_stack) < IfdefDepth
     THEN state_stack' = Append(state_stack, Dumped(line)) /\ UNCHANGED found_err
     ELSE found_err' = TRUE /\ UNCHANGED state_stack
  /\ UNCHANGED <<case_ind, pc, tk, empty, back, highest>>

\* #else and #elif.
Else(line) ==
  /\ pc = "ready"
  /\ IF state_stack = <<>> THEN found_err' = TRUE /\ ps' = Dumped(line)
                           ELSE ps' = state_stack[Len(state_stack)] /\ UNCHANGED found_err
  /\ UNCHANGED <<case_ind, state_stack, pc, tk, empty, back, highest>>

Endif(line) ==
  /\ pc = "ready"
  /\ ps' = Dumped(line)
  /\ IF state_stack = <<>> THEN found_err' = TRUE /\ UNCHANGED state_stack
                           ELSE state_stack' = Pop(state_stack, 1) /\ UNCHANGED found_err
  /\ UNCHANGED <<case_ind, pc, tk, empty, back, highest>>

-----------------------------------------------------------------------------
(* parse: first, an if without an else is a statement.                     *)

\* Mutant: an if that no else follows stays as it is.
Flush_Kept ==
  /\ pc = "flush" /\ pc' = "shift"
  /\ UNCHANGED <<ps, case_ind, state_stack, tk, empty, back, found_err, highest>>

Flush ==
  /\ pc = "flush"
  /\ IF Top.t = "ifhead" /\ tk # "elselit"
     THEN /\ ps' = [ps EXCEPT !.stack = SetTop(@, "stmt")]
          /\ pc' = "reduce" /\ back' = "flush"
     ELSE /\ pc' = "shift"
          /\ UNCHANGED <<ps, back>>
  /\ UNCHANGED <<case_ind, state_stack, tk, empty, found_err, highest>>

-----------------------------------------------------------------------------
(* Then the construct is shifted.                                          *)

\* Mutant: the stack is taken to be one entry larger.
Shifted_Later(p, err) ==
  /\ pc = "shift"
  /\ ps' = p
  /\ highest' = IF Len(p.stack) - 1 > highest THEN Len(p.stack) - 1 ELSE highest
  /\ pc' = IF Len(p.stack) - 1 >= StackSize THEN "overflow" ELSE "reduce"
  /\ back' = "ready"
  /\ found_err' = (found_err \/ err)
  /\ UNCHANGED <<state_stack, tk, empty>>

\* The end of parse: the stack must not be full.  highest is taken after the
\* shift, where tos is at its highest.
Shifted(p, err) ==
  /\ pc = "shift"
  /\ ps' = p
  /\ highest' = IF Len(p.stack) - 1 > highest THEN Len(p.stack) - 1 ELSE highest
  /\ pc' = IF Len(p.stack) - 1 >= StackSize - 1 THEN "overflow" ELSE "reduce"
  /\ back' = "ready"
  /\ found_err' = (found_err \/ err)
  /\ UNCHANGED <<state_stack, tk, empty>>

\* The declarations below the new top, which is at index Len(s).
DeclsBelow(s) == Cardinality({i \in 2..Len(s) : s[i].t = "decl"})

Decl ==
  /\ tk = "decl"
  /\ LET p == [ps EXCEPT !.stack = Append(@, Entry("decl", ps.i_l_follow, 0))]
         n == DeclsBelow(ps.stack)
     IN Shifted(IF Top.t = "decl" THEN ps
                ELSE IF LjustDecl THEN [p EXCEPT !.ind_level = n, !.i_l_follow = n] ELSE p, FALSE)
  /\ UNCHANGED case_ind

\* if, do and for; "else if" takes the place of the else.
Headed(q) ==
  [q EXCEPT !.stack = Append(@, Entry(tk, q.i_l_follow, 0)),
            !.ind_level = q.i_l_follow, !.i_l_follow = @ + 1]
Header ==
  /\ tk \in {"ifstmt", "dolit", "forstmt"}
  /\ Shifted(Headed(IF tk = "ifstmt" /\ Top.t = "elsehead" /\ ElseIf
                   THEN [ps EXCEPT !.stack = Pop(@, 1), !.i_l_follow = Top.il]
                   ELSE ps), FALSE)
  /\ UNCHANGED case_ind

Lbrace ==
  /\ tk = "lbrace"
  /\ LET group  == Top.t \in {"stmt", "decl", "stmtl"}
         follow == IF group THEN ps.i_l_follow + 1 ELSE ps.i_l_follow
         level  == ps.ind_level - (IF group \/ ~empty THEN 0
                                   ELSE IF Top.t = "swstmt" /\ CaseIndent >= 1 THEN 2 ELSE 1)
     IN Shifted([stack |-> Append(Append(ps.stack, Entry("lbrace", level, 0)), Entry("stmt", follow, 0)),
                 i_l_follow |-> follow, ind_level |-> level], FALSE)
  /\ UNCHANGED case_ind

While ==
  /\ tk = "whilestmt"
  /\ Shifted(IF Top.t = "dohead"
             THEN [stack |-> Append(ps.stack, Entry("whilestmt", Top.il, 0)),
                   i_l_follow |-> Top.il, ind_level |-> Top.il]
             ELSE [ps EXCEPT !.stack = Append(@, Entry("whilestmt", ps.i_l_follow, 0)),
                             !.i_l_follow = @ + 1], FALSE)
  /\ UNCHANGED case_ind

\* Mutant: what is inside the else is not further in.
Elselit_NotIn ==
  /\ tk = "elselit"
  /\ Shifted(IF Top.t # "ifhead" THEN ps
             ELSE [stack |-> SetTop(ps.stack, "elsehead"),
                   i_l_follow |-> Top.il, ind_level |-> Top.il], Top.t # "ifhead")
  /\ UNCHANGED case_ind

Elselit ==
  /\ tk = "elselit"
  /\ Shifted(IF Top.t # "ifhead" THEN ps
             ELSE [stack |-> SetTop(ps.stack, "elsehead"),
                   i_l_follow |-> Top.il + 1, ind_level |-> Top.il], Top.t # "ifhead")
  /\ UNCHANGED case_ind

Closes == tos > 0 /\ Under.t = "lbrace"
Rbrace ==
  /\ tk = "rbrace"
  /\ Shifted(IF ~Closes THEN ps
             ELSE [stack |-> SetTop(Pop(ps.stack, 1), "stmt"),
                   i_l_follow |-> Under.il, ind_level |-> Under.il], ~Closes)
  /\ UNCHANGED case_ind

Switch ==
  /\ tk = "swstmt"
  /\ Shifted([ps EXCEPT !.stack = Append(@, Entry("swstmt", ps.i_l_follow, case_ind)),
                        !.i_l_follow = @ + CaseIndent + 1], FALSE)
  /\ case_ind' = ps.i_l_follow + CaseIndent

Semicolon ==
  /\ tk = "semicolon"
  /\ Shifted([ps EXCEPT !.stack = Append(@, Entry("stmt", ps.ind_level, 0))], FALSE)
  /\ UNCHANGED case_ind

Shift == Decl \/ Header \/ Lbrace \/ While \/ Elselit \/ Rbrace \/ Switch \/ Semicolon
-----------------------------------------------------------------------------
(* reduce: one step for each turn of its loop.                             *)

Reduces(p) ==
  /\ ps' = p
  /\ UNCHANGED <<state_stack, pc, tk, empty, back, found_err, highest>>

\* stmt or while on top looks at the entry under it; the rules below are not
\* defined where there is none.
Looks == pc = "reduce" /\ Top.t \in {"stmt", "whilestmt"}

ReduceList ==
  /\ Looks /\ tos > 0 /\ Top.t = "stmt" /\ Under.t \in {"stmt", "stmtl"}
  /\ Reduces([ps EXCEPT !.stack = SetTop(Pop(@, 1), "stmtl")])
  /\ UNCHANGED case_ind

ReduceDo ==
  /\ Looks /\ tos > 0 /\ Top.t = "stmt" /\ Under.t = "dolit"
  /\ Reduces([ps EXCEPT !.stack = SetTop(Pop(@, 1), "dohead"), !.i_l_follow = Under.il])
  /\ UNCHANGED case_ind

\* The entries the search for the enclosing list may stop at.
Enclosing == {i \in 1..(Len(ps.stack) - 2) : ps.stack[i].t \in {"stmt", "stmtl", "lbrace"}}
Innermost(S) == CHOOSE i \in S : \A j \in S : j <= i

ReduceIf ==
  /\ Looks /\ tos > 0 /\ Top.t = "stmt" /\ Under.t = "ifstmt"
  /\ Enclosing # {}
  /\ Reduces([ps EXCEPT !.stack = SetTop(Pop(@, 1), "ifhead"),
                        !.i_l_follow = ps.stack[Innermost(Enclosing)].il])
  /\ UNCHANGED case_ind

\* Mutant: the case indentation of the enclosing switch is not restored.
ReduceStmt_CaseKept ==
  /\ Looks /\ tos > 0 /\ Top.t = "stmt"
  /\ Under.t \in {"swstmt", "decl", "elsehead", "forstmt", "whilestmt"}
  /\ Reduces([ps EXCEPT !.stack = SetTop(Pop(@, 1), "stmt"), !.i_l_follow = Under.il])
  /\ UNCHANGED case_ind

\* switch, declaration, else, for and while.
ReduceStmt ==
  /\ Looks /\ tos > 0 /\ Top.t = "stmt"
  /\ Under.t \in {"swstmt", "decl", "elsehead", "forstmt", "whilestmt"}
  /\ Reduces([ps EXCEPT !.stack = SetTop(Pop(@, 1), "stmt"), !.i_l_follow = Under.il])
  /\ case_ind' = IF Under.t = "swstmt" THEN Under.cstk ELSE case_ind

\* Mutant: what was below the do goes too.
ReduceDoWhile_TooMany ==
  /\ Looks /\ tos > 0 /\ Top.t = "whilestmt" /\ Under.t = "dohead"
  /\ Reduces([ps EXCEPT !.stack = Pop(@, 3)])
  /\ UNCHANGED case_ind

\* The while of a do.
ReduceDoWhile ==
  /\ Looks /\ tos > 0 /\ Top.t = "whilestmt" /\ Under.t = "dohead"
  /\ Reduces([ps EXCEPT !.stack = Pop(@, 2)])
  /\ UNCHANGED case_ind

ReduceDone ==
  /\ pc = "reduce"
  /\ \/ Top.t \notin {"stmt", "whilestmt"}
     \/ tos > 0 /\ Top.t = "stmt" /\ Under.t \in {"lbrace", "ifhead", "dohead"}
     \/ tos > 0 /\ Top.t = "whilestmt" /\ Under.t # "dohead"
  /\ pc' = back
  /\ UNCHANGED <<ps, case_ind, state_stack, tk, empty, back, found_err, highest>>

Reduce == ReduceList \/ ReduceDo \/ ReduceIf \/ ReduceStmt \/ ReduceDoWhile \/ ReduceDone

Preprocessor == \E line \in BOOLEAN : If(line) \/ Else(line) \/ Endif(line)
Internal     == Flush \/ Shift \/ Reduce

\* Only for a brace does parse ask whether the line is empty.
Call == \E t \in Constructs, line \in BOOLEAN : (t # "lbrace" => line) /\ Parse(t, line)

Next == \/ Call
        \/ dump_line \/ Parameter \/ FunctionBrace \/ Preprocessor \/ Internal

Spec == Init /\ [][Next]_vars
-----------------------------------------------------------------------------
(* Properties.                                                             *)

EntryType == [t : Symbols, il : Int, cstk : Int]
StateType == [stack : Seq(EntryType), i_l_follow : Int, ind_level : Int]

\* Every variable keeps its type, and the stack is never empty.
TypeOK ==
  /\ ps \in StateType /\ ps.stack # <<>>
  /\ case_ind \in Int
  /\ state_stack \in Seq(StateType)
  /\ pc \in {"ready", "flush", "shift", "reduce", "overflow"}
  /\ tk \in Tokens /\ empty \in BOOLEAN /\ back \in {"ready", "flush"}
  /\ found_err \in BOOLEAN /\ highest \in Nat

\* reduce never looks below p_stack[0], neither for the entry under the top nor
\* in its search for the enclosing list, whatever the program it is given.
NoUnderflow ==
  Looks => /\ tos > 0
           /\ (Top.t = "stmt" /\ Under.t = "ifstmt") => Enclosing # {}

\* parse checks for a full stack after it has pushed.  What it pushes is at most
\* one entry beyond the array, and then the program stops at once.
WritesBounded == highest <= StackSize /\ (highest >= StackSize - 1 => pc = "overflow")

\* case labels are put CaseIndent levels in from the innermost open switch
\* (indent_globs.h:232), again after the switches inside it have ended.
Switches == {i \in DOMAIN ps.stack : ps.stack[i].t = "swstmt"}
CaseLabels ==
  (pc = "ready" /\ Switches # {}) =>
    case_ind = ps.stack[Innermost(Switches)].il + CaseIndent
=============================================================================
