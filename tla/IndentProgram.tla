---------------------------- MODULE IndentProgram ---------------------------
(***************************************************************************)
(* indent's parser driven by main (indent.c) over a well-formed program.   *)
(*                                                                         *)
(* goal is what is left of the program: terminals, which main hands to     *)
(* parse, and nonterminals, which are expanded by C's grammar as they are  *)
(* reached.  Every symbol carries the level a reader expects it at.  Of    *)
(* main it keeps what decides where lines end: force_nl and whether the    *)
(* output line is empty.  A keyword and its condition are one token, on    *)
(* one line; expressions that go over several lines, comments, labels and  *)
(* initialisers are left out, and with them in_stmt's extra indentation.   *)
(***************************************************************************)
EXTENDS IndentParser

CONSTANT MaxStmts  \* bound on the statements of a program

ASSUME ProgramAssumption == MaxStmts \in Nat

VARIABLES
  opt,       \* btype_2: a brace is on the line of its if (-br);
             \* cuddle_else: "} else" (-ce)
  goal,      \* the rest of the program
  budget,    \* statements it may still have
  force_nl,  \* must the next token start a line?
  last,      \* the last token, which ends the output line unless that is empty
  level      \* the level expected of the output line: that of its first token,
             \* or of the else or while that continues a brace's line

mvars == <<opt, goal, budget, force_nl, last, level>>
pvars == <<vars, mvars>>

\* A symbol at level d; k is how much further in the contents of a block are,
\* and a closed statement does not end in an if that an else could still join.
Sym(t, d)        == [t |-> t, d |-> d, k |-> 1, closed |-> FALSE]
Body(d, k, c)    == [t |-> "Body", d |-> d, k |-> k, closed |-> c]
ElseBody(d, c)   == [t |-> "ElseBody", d |-> d, k |-> 1, closed |-> c]
Nonterminals     == {"Stmt", "Body", "ElseBody", "List", "Members", "Program"}

Block(d, k) == <<Sym("lbrace", d), Sym("List", d + k), Sym("rbrace", d)>>

\* A variable, and a structure.
Declarations(d) ==
  {<<Sym("decl", d), Sym("semicolon", d)>>,
   <<Sym("decl", d), Sym("lbrace", d), Sym("Members", d + 1), Sym("rbrace", d), Sym("semicolon", d)>>}

Ifs(d, c) ==
  {<<Sym("ifstmt", d), Body(d, 1, TRUE), Sym("elselit", d), ElseBody(d, c)>>}
    \cup (IF c THEN {} ELSE {<<Sym("ifstmt", d), Body(d, 1, FALSE)>>})

Others(d, c) ==
  {<<Sym("semicolon", d)>>,
   <<Sym("expr", d), Sym("semicolon", d)>>,
   <<Sym("forstmt", d), Body(d, 1, c)>>,
   <<Sym("whilestmt", d), Body(d, 1, c)>>,
   <<Sym("swstmt", d), Body(d, 1 + CaseIndent, c)>>,
   <<Sym("dolit", d), Body(d, 1, FALSE), Sym("dowhile", d), Sym("semicolon", d)>>}

\* The statements of a list and the declarations of a program start on lines
\* of their own.  "else if" stays at the level of the else when ElseIf is set.
Expansions(s) ==
  CASE s.t = "Stmt"     -> Declarations(s.d) \cup Ifs(s.d, FALSE) \cup Others(s.d, FALSE)
                             \cup {Block(s.d, 1)}
    [] s.t = "Body"     -> Ifs(s.d + s.k, s.closed) \cup Others(s.d + s.k, s.closed)
                             \cup {Block(s.d, s.k)}
    [] s.t = "ElseBody" -> Ifs(IF ElseIf THEN s.d ELSE s.d + 1, s.closed)
                             \cup Others(s.d + 1, s.closed) \cup {Block(s.d, 1)}
    [] s.t = "List"     -> {<<>>, <<Sym("newline", s.d), Sym("Stmt", s.d), s>>}
    [] s.t = "Members"  -> {<<>>, <<Sym("decl", s.d), Sym("semicolon", s.d), s>>}
    [] s.t = "Program"  ->
         {<<>>} \cup {x \o <<Sym("newline", s.d), s>> : x \in Declarations(s.d) \cup
                          {<<Sym("decl", s.d), Sym("kluge", s.d)>> \o Block(s.d, 1)}}

\* What is left when the budget is spent.
Shortest(s) == IF s.t \in {"List", "Members", "Program"} THEN {<<>>}
               ELSE {x \in Expansions(s) : Len(x) = 1}

PInit ==
  /\ Init
  /\ opt \in [btype_2 : BOOLEAN, cuddle_else : BOOLEAN]
  /\ goal = <<Sym("Program", 0)>> /\ budget = MaxStmts
  /\ force_nl = FALSE /\ last = "none" /\ level = 0

Expand ==
  /\ pc = "ready" /\ goal # <<>> /\ Head(goal).t \in Nonterminals
  /\ \E x \in IF budget > 0 THEN Expansions(Head(goal)) ELSE Shortest(Head(goal)) :
       /\ goal' = x \o Tail(goal)
       /\ budget' = IF x = <<>> \/ budget = 0 \/ Head(goal).t = "List" THEN budget ELSE budget - 1
  /\ UNCHANGED <<vars, opt, force_nl, last, level>>

Line == last # "none"

\* A newline in the source ends the line; some the program needs, and others
\* may be anywhere.
Newline ==
  /\ dump_line
  /\ \/ goal # <<>> /\ Head(goal).t = "newline" /\ goal' = Tail(goal)
     \/ Line /\ UNCHANGED goal
  /\ last' = "none" /\ force_nl' = FALSE
  /\ UNCHANGED <<opt, budget, level>>

\* Does main end the line before token t?  "else if" is kept together, and a
\* brace follows on the line with -br, unless it begins a function (-fbs).
Breaks(t) ==
  \/ force_nl /\ t # "semicolon" /\ ~(t = "lbrace" /\ opt.btype_2)
              /\ ~(t = "ifstmt" /\ last = "elselit" /\ ElseIf)
  \/ Line /\ t = "lbrace" /\ (~opt.btype_2 \/ last = "kluge")
  \/ Line /\ t = "elselit" /\ ~(opt.cuddle_else /\ last = "rbrace")
  \/ Line /\ t \in {"dolit", "rbrace"}

\* The tokens after which main forces a new line.
Forces == {"ifstmt", "forstmt", "whilestmt", "dowhile", "swstmt", "elselit", "dolit", "semicolon", "lbrace"}

\* main's handling of one token.  An expression is not handed to parse, and the
\* parenthesis after a function's name is handed to it as a semicolon.
Token ==
  /\ pc = "ready" /\ goal # <<>> /\ Head(goal).t \notin Nonterminals \cup {"newline"}
  /\ LET t     == Head(goal).t
         start == Breaks(t) \/ ~Line
     IN /\ ps' = IF Breaks(t) THEN [ps EXCEPT !.ind_level = ps.i_l_follow] ELSE ps
        /\ empty' = start
        /\ level' = IF start \/ t \in {"elselit", "dowhile"} THEN Head(goal).d ELSE level
        /\ force_nl' = (t \in Forces \/ (force_nl /\ ~Breaks(t)))
        /\ last' = t
        /\ pc' = IF t = "expr" THEN "ready" ELSE "flush"
        /\ tk' = CASE t = "kluge"   -> "semicolon"
                   [] t = "dowhile" -> "whilestmt"
                   [] t = "expr"    -> tk
                   [] OTHER         -> t
  /\ goal' = Tail(goal)
  /\ UNCHANGED <<opt, budget, case_ind, state_stack, back, found_err, highest>>

PNext == Expand \/ Newline \/ Token \/ (Internal /\ UNCHANGED mvars)

PSpec == PInit /\ [][PNext]_pvars
-----------------------------------------------------------------------------
(* Properties.                                                             *)

\* A well-formed program is never reported to be wrong, neither by parse nor
\* at its end, where main complains if tos is more than 1 (indent.c:496); and
\* there the indentation is back where it began.
Accepted ==
  /\ ~found_err
  /\ (goal = <<>> /\ pc = "ready") => tos <= 1 /\ ps.i_l_follow = 0

\* A line that is written is indented by the level of the construct it begins
\* with: inside as many ifs, loops, switches and blocks as the program says.
LineLevel == (pc = "ready" /\ Line) => ps.ind_level = level
=============================================================================
