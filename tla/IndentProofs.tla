---------------------------- MODULE IndentProofs ----------------------------
(***************************************************************************)
(* Proofs about indent's parser, for every stack size, every depth of      *)
(* conditionals and every option: the types, that reduce never looks below *)
(* the stack, how far beyond its end parse can write, and the case labels  *)
(* of well-formed programs.                                                *)
(*                                                                         *)
(* The first call of parse turns the bottom entry into a statement list,   *)
(* and no rule takes that away again: IInv says so of the stack and of     *)
(* every stack saved at an #if.                                            *)
(*                                                                         *)
(* parse saves case_ind in the entry of a switch and takes it back when    *)
(* the switch is reduced.  Cases says what is saved: in every switch the   *)
(* level for the labels of the one around it.  That is inductive as long   *)
(* as no switch leaves the stack in another way.  A closing brace drops    *)
(* whatever is on top, so SwitchOpen says that a switch on top is still to *)
(* have its statement, which follows from what stands next to each other   *)
(* in the rest of the program (WellFormed, Followed).                      *)
(***************************************************************************)
EXTENDS IndentProgram, FiniteSetTheorems, WellFoundedInduction, TLAPS

\* What holds of the parser's state whenever parse has not overflowed.
Listed(p) == p \in StateType /\ Len(p.stack) >= 1 /\ p.stack[1].t = "stmtl"
Good(p)   == Listed(p) /\ Len(p.stack) <= StackSize - 1

\* The first call of parse: one stmt, then two.
Booting ==
  /\ ps \in StateType
  /\ \/ pc \in {"flush", "shift"} /\ tk = "semicolon" /\ Len(ps.stack) = 1
     \/ pc = "reduce" /\ Len(ps.stack) = 2 /\ ps.stack[2].t = "stmt"
  /\ ps.stack[1].t = "stmt"
  /\ back = "ready"

Core ==
  \/ Booting
  \/ pc # "overflow" /\ Good(ps)
  \/ pc = "overflow" /\ Listed(ps)

Saved == state_stack \in Seq(StateType) /\ \A i \in 1..Len(state_stack) : Good(state_stack[i])

Rest ==
  /\ case_ind \in Int
  /\ pc \in {"ready", "flush", "shift", "reduce", "overflow"}
  /\ tk \in Tokens /\ empty \in BOOLEAN /\ back \in {"ready", "flush"}
  /\ found_err \in BOOLEAN /\ highest \in Nat

Highest == highest <= (IF pc = "overflow" THEN StackSize ELSE StackSize - 2)

IInv == Core /\ Saved /\ Rest /\ Highest
-----------------------------------------------------------------------------
(* The stack operations.                                                   *)

\* A push keeps the type and the entries below.
LEMMA PushLemma ==
  ASSUME NEW s \in Seq(EntryType), NEW e \in EntryType
  PROVE  /\ Append(s, e) \in Seq(EntryType)
         /\ Len(Append(s, e)) = Len(s) + 1
         /\ \A i \in 1..Len(s) : Append(s, e)[i] = s[i]
         /\ Append(s, e)[Len(s) + 1] = e
OBVIOUS

\* A pop that leaves something keeps the type and the entries below.
LEMMA PopLemma ==
  ASSUME NEW s \in Seq(EntryType), NEW n \in Nat, n < Len(s)
  PROVE  /\ Pop(s, n) \in Seq(EntryType)
         /\ Len(Pop(s, n)) = Len(s) - n
         /\ \A i \in 1..(Len(s) - n) : Pop(s, n)[i] = s[i]
BY DEF Pop

\* Renaming the top keeps the type, the size and everything else.
LEMMA SetTopLemma ==
  ASSUME NEW s \in Seq(EntryType), Len(s) >= 1, NEW t \in Symbols
  PROVE  /\ SetTop(s, t) \in Seq(EntryType)
         /\ Len(SetTop(s, t)) = Len(s)
         /\ \A i \in 1..(Len(s) - 1) : SetTop(s, t)[i] = s[i]
         /\ SetTop(s, t)[Len(s)].t = t
         /\ SetTop(s, t)[Len(s)].il = s[Len(s)].il
         /\ SetTop(s, t)[Len(s)].cstk = s[Len(s)].cstk
<1> DEFINE e == [s[Len(s)] EXCEPT !.t = t]
<1>1. Len(s) \in 1..Len(s) /\ s[Len(s)] \in EntryType
  OBVIOUS
<1>2. e \in EntryType /\ e.t = t /\ e.il = s[Len(s)].il /\ e.cstk = s[Len(s)].cstk
  BY <1>1 DEF EntryType
<1>3. SetTop(s, t) = [s EXCEPT ![Len(s)] = e]
  BY DEF SetTop
<1> HIDE DEF e
<1>4. QED
  BY <1>1, <1>2, <1>3

\* Innermost takes the largest of some indices.
LEMMA InnermostLemma ==
  ASSUME NEW n \in Int, NEW S \in SUBSET (1..n), S # {}
  PROVE  Innermost(S) \in S /\ \A j \in S : j <= Innermost(S)
<1>0. \A j \in S : j \in Int
  OBVIOUS
<1> DEFINE R == OpToRel(<, Nat)
           T == {n - j : j \in S}
<1>1. T \subseteq Nat /\ T # {}
  <2>1. \A j \in S : j \in Int /\ n - j \in Nat
    OBVIOUS
  <2>2. QED
    BY <2>1, Zenon
<1>2. PICK x \in T : \A y \in T : ~(<<y, x>> \in R)
  <2> HIDE DEF R, T
  <2>1. IsWellFoundedOn(R, Nat)
    BY NatLessThanWellFounded, Zenon DEF R
  <2>2. QED
    BY <1>1, <2>1, WFMin, Zenon
<1>3. \A y \in T : ~(y < x)
  BY <1>1, <1>2, Zenon DEF OpToRel
<1>4. PICK m \in S : x = n - m
  OBVIOUS
<1>5. \A j \in S : j <= m
  <2>1. SUFFICES ASSUME NEW j \in S PROVE j <= m
    OBVIOUS
  <2>2. j \in Int /\ m \in Int
    BY <1>0, Zenon
  <2> n - j \in T
    BY Zenon
  <2>3. ~(n - j < n - m)
    BY <1>3, <1>4, <2>2, Zenon
  <2>4. QED
    BY <2>2, <2>3
<1>6. QED
  BY <1>5, Zenon DEF Innermost

\* Every entry has its type.
LEMMA EntryLemma ==
  ASSUME NEW p \in StateType, NEW i \in 1..Len(p.stack)
  PROVE  /\ p.stack \in Seq(EntryType)
         /\ p.stack[i] \in EntryType
         /\ p.stack[i].t \in Symbols /\ p.stack[i].il \in Int /\ p.stack[i].cstk \in Int
<1>1. p.stack \in Seq(EntryType)
  BY DEF StateType
<1>2. p.stack[i] \in EntryType
  BY <1>1
<1>3. QED
  BY <1>1, <1>2 DEF EntryType

LEMMA MakeEntry ==
  ASSUME NEW t \in Symbols, NEW il \in Int, NEW cstk \in Int
  PROVE  /\ Entry(t, il, cstk) \in EntryType
         /\ Entry(t, il, cstk).t = t /\ Entry(t, il, cstk).il = il
         /\ Entry(t, il, cstk).cstk = cstk
BY DEF Entry, EntryType

\* A state with another stack and other levels.
LEMMA MakeState ==
  ASSUME NEW s \in Seq(EntryType), NEW f \in Int, NEW l \in Int
  PROVE  [stack |-> s, i_l_follow |-> f, ind_level |-> l] \in StateType
BY DEF StateType

LEMMA Levels ==
  ASSUME NEW p \in StateType
  PROVE  p.i_l_follow \in Int /\ p.ind_level \in Int /\ p.stack \in Seq(EntryType)
BY DEF StateType
-----------------------------------------------------------------------------
(* The ends of the two phases of parse.                                    *)

\* A shift that keeps the bottom and pushes at most two entries.
LEMMA ShiftedInv ==
  ASSUME IInv, NEW p, NEW err \in BOOLEAN, Shifted(p, err), Good(ps), Listed(p),
         Len(p.stack) <= Len(ps.stack) + 2, case_ind' \in Int
  PROVE  IInv'
<1> USE ParserAssumption
<1>1. Len(p.stack) \in Nat /\ Len(ps.stack) \in Nat
  BY DEF Listed, Good, StateType
<1>2. Len(p.stack) <= StackSize + 1
  BY <1>1 DEF Good
<1>3. ps' = p /\ pc' \in {"overflow", "reduce"} /\ back' = "ready"
      /\ (pc' = "overflow" <=> Len(p.stack) - 1 >= StackSize - 1)
  BY DEF Shifted
<1>4. Core'
  BY <1>1, <1>3 DEF Core, Good, Listed
<1>5. Saved'
  BY DEF IInv, Saved, Shifted, Good, Listed
<1>6. highest <= StackSize - 2 /\ highest \in Nat
  BY DEF IInv, Highest, Shifted, Rest
<1>7. highest' \in Nat /\ highest' <= (IF pc' = "overflow" THEN StackSize ELSE StackSize - 2)
  <2>1. highest' = IF Len(p.stack) - 1 > highest THEN Len(p.stack) - 1 ELSE highest
    BY DEF Shifted
  <2>2. QED
    BY <1>1, <1>2, <1>3, <1>6, <2>1
<1>8. Rest'
  BY <1>3, <1>7 DEF IInv, Rest, Shifted
<1>9. QED
  BY <1>4, <1>5, <1>7, <1>8 DEF IInv, Highest

\* A reduction that keeps the bottom and pushes nothing.
LEMMA ReducesInv ==
  ASSUME IInv, NEW p, Reduces(p), pc = "reduce", Good(p), case_ind' \in Int
  PROVE  IInv'
<1>1. Core'
  BY DEF Core, Good, Listed, Reduces
<1>2. Saved'
  BY DEF IInv, Saved, Reduces, Good, Listed
<1>3. Rest' /\ Highest'
  BY DEF IInv, Rest, Highest, Reduces
<1>4. QED
  BY <1>1, <1>2, <1>3 DEF IInv
-----------------------------------------------------------------------------
(* Shifts.                                                                 *)

\* Outside the first call the state is good whenever parse shifts or reduces.
LEMMA ShiftGood ==
  ASSUME IInv, pc \in {"ready", "flush", "shift", "reduce"}, ~Booting
  PROVE  Good(ps) /\ ps \in StateType /\ ps.stack \in Seq(EntryType)
         /\ Len(ps.stack) \in Nat /\ Len(ps.stack) >= 1
         /\ case_ind \in Int /\ ps.i_l_follow \in Int /\ ps.ind_level \in Int
         /\ Top \in EntryType /\ Top.t \in Symbols /\ Top.il \in Int
BY EntryLemma, Levels DEF IInv, Core, Good, Listed, Rest, Top

\* One entry pushed.
LEMMA PushInv ==
  ASSUME IInv, Good(ps), NEW e \in EntryType, case_ind' \in Int,
         NEW p \in StateType, p.stack = Append(ps.stack, e), Shifted(p, FALSE)
  PROVE  IInv'
<1>1. ps.stack \in Seq(EntryType) /\ Len(ps.stack) >= 1 /\ ps.stack[1].t = "stmtl"
  BY Levels DEF Good, Listed
<1>2. p.stack \in Seq(EntryType) /\ Len(p.stack) = Len(ps.stack) + 1 /\ p.stack[1] = ps.stack[1]
  BY <1>1, PushLemma
<1>3. Listed(p) /\ Len(p.stack) <= Len(ps.stack) + 2
  BY <1>1, <1>2 DEF Listed
<1>4. QED
  BY <1>3, ShiftedInv, Zenon

LEMMA DeclInv ==
  ASSUME IInv, pc = "shift", ~Booting, Decl
  PROVE  IInv'
<1> DEFINE e == Entry("decl", ps.i_l_follow, 0)
           q == [ps EXCEPT !.stack = Append(@, e)]
           n == DeclsBelow(ps.stack)
           r == [q EXCEPT !.ind_level = n, !.i_l_follow = n]
<1>1. /\ Good(ps) /\ ps \in StateType /\ ps.stack \in Seq(EntryType)
      /\ case_ind \in Int /\ ps.i_l_follow \in Int
  BY ShiftGood
<1>2. case_ind' \in Int
  BY <1>1 DEF Decl
<1>3. e \in EntryType
  BY <1>1, MakeEntry DEF Symbols
<1>4. Append(ps.stack, e) \in Seq(EntryType)
  BY <1>1, <1>3, PushLemma
<1>5. q \in StateType /\ q.stack = Append(ps.stack, e)
  BY <1>1, <1>4 DEF StateType
<1>6. n \in Int
  <2>1. Len(ps.stack) \in Int
    BY <1>1
  <2>2. IsFiniteSet(2..Len(ps.stack))
    BY <2>1, FS_Interval
  <2>3. IsFiniteSet({i \in 2..Len(ps.stack) : ps.stack[i].t = "decl"})
    BY <2>2, FS_Subset
  <2>4. QED
    BY <2>3, FS_CardinalityType DEF DeclsBelow
<1>7. r \in StateType /\ r.stack = Append(ps.stack, e)
  BY <1>5, <1>6, Zenon DEF StateType
<1>8. CASE Top.t = "decl"
  <2>1. Shifted(ps, FALSE)
    BY <1>8, Zenon DEF Decl
  <2>2. Listed(ps) /\ Len(ps.stack) <= Len(ps.stack) + 2
    BY <1>1 DEF Good
  <2>3. QED
    BY <1>1, <1>2, <2>1, <2>2, ShiftedInv, Zenon
<1>9. CASE Top.t # "decl"
  <2>1. Shifted(IF LjustDecl THEN r ELSE q, FALSE)
    BY <1>9, Zenon DEF Decl
  <2> HIDE DEF e, q, r, n
  <2>2. QED
    BY <1>1, <1>2, <1>3, <1>5, <1>7, <2>1, PushInv, Zenon
<1>10. QED
  BY <1>8, <1>9

LEMMA SemicolonInv ==
  ASSUME IInv, pc = "shift", Semicolon
  PROVE  IInv'
<1> DEFINE e == Entry("stmt", ps.ind_level, 0)
           q == [ps EXCEPT !.stack = Append(@, e)]
<1>1. Shifted(q, FALSE) /\ case_ind' = case_ind /\ case_ind \in Int
  BY Zenon DEF Semicolon, IInv, Rest
<1>2. ps \in StateType /\ ps.ind_level \in Int /\ ps.stack \in Seq(EntryType)
  BY Levels DEF IInv, Core, Good, Listed, Booting
<1>3. e \in EntryType /\ e.t = "stmt"
  BY <1>2, MakeEntry DEF Symbols
<1> HIDE DEF e
<1>4. /\ Append(ps.stack, e) \in Seq(EntryType)
      /\ Len(Append(ps.stack, e)) = Len(ps.stack) + 1
      /\ \A i \in 1..Len(ps.stack) : Append(ps.stack, e)[i] = ps.stack[i]
      /\ Append(ps.stack, e)[Len(ps.stack) + 1] = e
  BY <1>2, <1>3, PushLemma
<1>5. q \in StateType /\ q.stack = Append(ps.stack, e)
  BY <1>2, <1>4 DEF StateType
<1> HIDE DEF q
<1>6. CASE ~Booting
  BY <1>1, <1>3, <1>5, <1>6, ShiftGood, PushInv, Zenon
<1>7. CASE Booting
  <2>1. Len(q.stack) = 2 /\ q.stack[1].t = "stmt" /\ q.stack[2].t = "stmt"
    BY <1>2, <1>3, <1>4, <1>5, <1>7 DEF Booting
  <2>2. pc' = "reduce" /\ ps' = q /\ back' = "ready"
    BY <1>1, <2>1, ParserAssumption DEF Shifted
  <2>3. Core'
    BY <1>5, <2>1, <2>2, Zenon DEF Core, Booting
  <2>4. Saved'
    BY <1>1 DEF IInv, Saved, Shifted, Good, Listed
  <2>5. highest' \in Nat /\ highest' <= StackSize - 2
    <3>1. highest \in Nat /\ highest <= StackSize - 2
      BY ParserAssumption DEF IInv, Rest, Highest
    <3>2. highest' = IF 1 > highest THEN 1 ELSE highest
      BY <1>1, <2>1 DEF Shifted
    <3>3. QED
      BY <3>1, <3>2, ParserAssumption
  <2>6. Rest' /\ Highest'
    BY <1>1, <2>2, <2>5 DEF IInv, Rest, Highest, Shifted
  <2>7. QED
    BY <2>3, <2>4, <2>6 DEF IInv
<1>8. QED
  BY <1>6, <1>7

LEMMA HeaderInv ==
  ASSUME IInv, pc = "shift", ~Booting, Header
  PROVE  IInv'
<1> DEFINE elseif == tk = "ifstmt" /\ Top.t = "elsehead" /\ ElseIf
           o == [ps EXCEPT !.stack = Pop(@, 1), !.i_l_follow = Top.il]
           q == IF elseif THEN o ELSE ps
           e == Entry(tk, q.i_l_follow, 0)
           s == Append(q.stack, e)
           f == q.i_l_follow + 1
<1>1. /\ Good(ps) /\ ps \in StateType /\ ps.stack \in Seq(EntryType) /\ Len(ps.stack) >= 1
      /\ Len(ps.stack) \in Nat /\ case_ind \in Int /\ Top.il \in Int
      /\ ps.stack[1].t = "stmtl"
  BY ShiftGood DEF Good, Listed
<1>2. q \in StateType /\ Len(q.stack) \in 1..Len(ps.stack) /\ q.stack[1] = ps.stack[1]
  <2>1. CASE elseif
    <3>1. Len(ps.stack) > 1
      BY <1>1, <2>1 DEF Top
    <3>2. /\ Pop(ps.stack, 1) \in Seq(EntryType) /\ Len(Pop(ps.stack, 1)) = Len(ps.stack) - 1
          /\ \A i \in 1..(Len(ps.stack) - 1) : Pop(ps.stack, 1)[i] = ps.stack[i]
      BY <1>1, <3>1, PopLemma, Zenon
    <3>3. o \in StateType /\ o.stack = Pop(ps.stack, 1)
      BY <1>1, <3>2, Zenon DEF StateType
    <3>4. q = o
      BY <2>1
    <3> HIDE DEF o, q
    <3>5. QED
      BY <1>1, <3>1, <3>2, <3>3, <3>4
  <2>2. CASE ~elseif
    BY <1>1, <2>2
  <2>3. QED
    BY <2>1, <2>2
<1>3. Shifted(Headed(q), FALSE) /\ tk \in Symbols
  BY Zenon DEF Header, Symbols
<1> HIDE DEF q
<1>4. e \in EntryType /\ q.stack \in Seq(EntryType) /\ q.i_l_follow \in Int
  BY <1>2, <1>3, Levels, MakeEntry
<1>5. s \in Seq(EntryType) /\ Len(s) = Len(q.stack) + 1 /\ s[1] = q.stack[1] /\ f \in Int
  BY <1>2, <1>4, PushLemma
<1>6. Headed(q) \in StateType /\ Headed(q).stack = s
  <2>1. Headed(q) = [q EXCEPT !.stack = s, !.ind_level = q.i_l_follow, !.i_l_follow = f]
    BY DEF Headed
  <2> HIDE DEF s, f
  <2>2. QED
    BY <1>2, <1>4, <1>5, <2>1, Zenon DEF StateType
<1> HIDE DEF e, s
<1>7. Listed(Headed(q)) /\ Len(Headed(q).stack) <= Len(ps.stack) + 2
  BY <1>1, <1>2, <1>5, <1>6 DEF Listed
<1>8. case_ind' \in Int
  BY <1>1 DEF Header
<1>9. QED
  BY <1>1, <1>3, <1>7, <1>8, ShiftedInv, Zenon

LEMMA LbraceInv ==
  ASSUME IInv, pc = "shift", ~Booting, Lbrace
  PROVE  IInv'
<1>1. /\ Good(ps) /\ ps \in StateType /\ ps.stack \in Seq(EntryType) /\ Len(ps.stack) >= 1
      /\ case_ind \in Int /\ ps.i_l_follow \in Int /\ ps.ind_level \in Int
      /\ ps.stack[1].t = "stmtl"
  BY ShiftGood DEF Good, Listed
<1>2. PICK f \in Int, l \in Int :
        Shifted([stack |-> Append(Append(ps.stack, Entry("lbrace", l, 0)), Entry("stmt", f, 0)),
                 i_l_follow |-> f, ind_level |-> l], FALSE)
  <2> DEFINE group == Top.t \in {"stmt", "decl", "stmtl"}
             f == IF group THEN ps.i_l_follow + 1 ELSE ps.i_l_follow
             l == ps.ind_level - (IF group \/ ~empty THEN 0
                                  ELSE IF Top.t = "swstmt" /\ CaseIndent >= 1 THEN 2 ELSE 1)
  <2>1. f \in Int /\ l \in Int
    BY <1>1
  <2>2. Shifted([stack |-> Append(Append(ps.stack, Entry("lbrace", l, 0)), Entry("stmt", f, 0)),
                 i_l_follow |-> f, ind_level |-> l], FALSE)
    BY Zenon DEF Lbrace
  <2> HIDE DEF f, l
  <2>3. QED
    BY <2>1, <2>2, Zenon
<1> DEFINE a == Entry("lbrace", l, 0)
           b == Entry("stmt", f, 0)
           s == Append(Append(ps.stack, a), b)
           p == [stack |-> s, i_l_follow |-> f, ind_level |-> l]
<1>3. a \in EntryType /\ b \in EntryType
  BY MakeEntry DEF Symbols
<1>4. Shifted(p, FALSE)
  BY <1>2, Zenon
<1> HIDE DEF a, b
<1>5. /\ Append(ps.stack, a) \in Seq(EntryType)
      /\ Len(Append(ps.stack, a)) = Len(ps.stack) + 1
      /\ Append(ps.stack, a)[1] = ps.stack[1]
  BY <1>1, <1>3, PushLemma
<1>6. s \in Seq(EntryType) /\ Len(s) = Len(ps.stack) + 2 /\ s[1] = ps.stack[1]
  BY <1>1, <1>3, <1>5, PushLemma
<1> HIDE DEF s
<1>7. Listed(p) /\ Len(p.stack) <= Len(ps.stack) + 2
  BY <1>1, <1>6 DEF Listed, StateType
<1>8. case_ind' \in Int
  BY <1>1 DEF Lbrace
<1> HIDE DEF p
<1>9. QED
  BY <1>1, <1>4, <1>7, <1>8, ShiftedInv, Zenon

LEMMA WhileInv ==
  ASSUME IInv, pc = "shift", ~Booting, While
  PROVE  IInv'
<1>1. /\ Good(ps) /\ ps \in StateType /\ ps.stack \in Seq(EntryType)
      /\ case_ind \in Int /\ ps.i_l_follow \in Int /\ Top.il \in Int
  BY ShiftGood
<1>2. case_ind' \in Int
  BY <1>1 DEF While
<1>3. CASE Top.t = "dohead"
  <2> DEFINE e == Entry("whilestmt", Top.il, 0)
             p == [stack |-> Append(ps.stack, e), i_l_follow |-> Top.il, ind_level |-> Top.il]
  <2>1. Shifted(p, FALSE)
    BY <1>3, Zenon DEF While
  <2>2. e \in EntryType
    <3>1. "whilestmt" \in Symbols /\ 0 \in Int
      BY DEF Symbols
    <3>2. QED
      BY <1>1, <3>1, MakeEntry, Zenon
  <2>3. p \in StateType /\ p.stack = Append(ps.stack, e)
    BY <1>1, <2>2, PushLemma, MakeState, Zenon
  <2> HIDE DEF e, p
  <2>4. QED
    BY <1>1, <1>2, <2>1, <2>2, <2>3, PushInv, Zenon
<1>4. CASE Top.t # "dohead"
  <2> DEFINE e == Entry("whilestmt", ps.i_l_follow, 0)
             s == Append(ps.stack, e)
             f == ps.i_l_follow + 1
             p == [ps EXCEPT !.stack = s, !.i_l_follow = f]
  <2>1. Shifted(p, FALSE)
    BY <1>4, Zenon DEF While
  <2>2. e \in EntryType
    <3>1. "whilestmt" \in Symbols /\ 0 \in Int
      BY DEF Symbols
    <3>2. QED
      BY <1>1, <3>1, MakeEntry, Zenon
  <2>3. s \in Seq(EntryType) /\ f \in Int
    BY <1>1, <2>2, PushLemma
  <2> HIDE DEF s, f
  <2>4. p \in StateType /\ p.stack = Append(ps.stack, e)
    BY <1>1, <2>3, Zenon DEF StateType, s
  <2> HIDE DEF e, p
  <2>5. QED
    BY <1>1, <1>2, <2>1, <2>2, <2>4, PushInv, Zenon
<1>5. QED
  BY <1>3, <1>4
LEMMA ElselitInv ==
  ASSUME IInv, pc = "shift", ~Booting, Elselit
  PROVE  IInv'
<1>1. /\ Good(ps) /\ ps \in StateType /\ ps.stack \in Seq(EntryType) /\ Len(ps.stack) >= 1
      /\ Len(ps.stack) \in Nat /\ case_ind \in Int /\ Top.il \in Int /\ Listed(ps)
  BY ShiftGood DEF Good
<1>2. case_ind' \in Int
  BY <1>1 DEF Elselit
<1>3. CASE Top.t # "ifhead"
  <2>1. Shifted(ps, TRUE)
    BY <1>3, Zenon DEF Elselit
  <2>2. Len(ps.stack) <= Len(ps.stack) + 2
    BY <1>1
  <2>3. QED
    BY <1>1, <1>2, <2>1, <2>2, ShiftedInv, Zenon
<1>4. CASE Top.t = "ifhead"
  <2> DEFINE s == SetTop(ps.stack, "elsehead")
             p == [stack |-> s, i_l_follow |-> Top.il + 1, ind_level |-> Top.il]
  <2>1. Shifted(p, FALSE)
    BY <1>4, Zenon DEF Elselit
  <2>2. s \in Seq(EntryType) /\ Len(s) = Len(ps.stack)
        /\ \A i \in 1..(Len(ps.stack) - 1) : s[i] = ps.stack[i]
    BY <1>1, SetTopLemma, Zenon DEF Symbols
  <2>3. Len(ps.stack) > 1 /\ ps.stack[1].t = "stmtl"
    BY <1>1, <1>4 DEF Listed, Top
  <2> HIDE DEF s
  <2>4. Listed(p) /\ Len(p.stack) <= Len(ps.stack) + 2
    BY <1>1, <2>2, <2>3 DEF Listed, StateType
  <2> HIDE DEF p
  <2>5. QED
    BY <1>1, <1>2, <2>1, <2>4, ShiftedInv, Zenon
<1>5. QED
  BY <1>3, <1>4

\* An entry popped and the one below it renamed, as Rbrace and the reductions do.
LEMMA PopSetLemma ==
  ASSUME NEW s \in Seq(EntryType), Len(s) >= 2, NEW t \in Symbols
  PROVE  /\ SetTop(Pop(s, 1), t) \in Seq(EntryType)
         /\ Len(SetTop(Pop(s, 1), t)) = Len(s) - 1
         /\ \A i \in 1..(Len(s) - 2) : SetTop(Pop(s, 1), t)[i] = s[i]
         /\ SetTop(Pop(s, 1), t)[Len(s) - 1].t = t
         /\ SetTop(Pop(s, 1), t)[Len(s) - 1].il = s[Len(s) - 1].il
         /\ SetTop(Pop(s, 1), t)[Len(s) - 1].cstk = s[Len(s) - 1].cstk
<1> DEFINE r == Pop(s, 1)
<1>1. r \in Seq(EntryType) /\ Len(r) = Len(s) - 1 /\ \A i \in 1..(Len(s) - 1) : r[i] = s[i]
  <2>1. 1 \in Nat /\ 1 < Len(s)
    OBVIOUS
  <2>2. QED
    BY <2>1, PopLemma, Zenon
<1> HIDE DEF r
<1>2. Len(r) >= 1
  BY <1>1
<1>3. /\ SetTop(r, t) \in Seq(EntryType)
      /\ Len(SetTop(r, t)) = Len(r)
      /\ \A i \in 1..(Len(r) - 1) : SetTop(r, t)[i] = r[i]
      /\ SetTop(r, t)[Len(r)].t = t
      /\ SetTop(r, t)[Len(r)].il = r[Len(r)].il
      /\ SetTop(r, t)[Len(r)].cstk = r[Len(r)].cstk
  BY <1>1, <1>2, SetTopLemma, Zenon
<1>4. QED
  BY <1>1, <1>3, SMTT(30) DEF r

LEMMA RbraceInv ==
  ASSUME IInv, pc = "shift", ~Booting, Rbrace
  PROVE  IInv'
<1>1. /\ Good(ps) /\ ps \in StateType /\ ps.stack \in Seq(EntryType) /\ Len(ps.stack) >= 1
      /\ Len(ps.stack) \in Nat /\ case_ind \in Int /\ Listed(ps) /\ ps.stack[1].t = "stmtl"
  BY ShiftGood DEF Good, Listed
<1>2. case_ind' \in Int
  BY <1>1 DEF Rbrace
<1>3. CASE ~Closes
  <2>1. Shifted(ps, TRUE)
    BY <1>3, Zenon DEF Rbrace
  <2>2. Len(ps.stack) <= Len(ps.stack) + 2
    BY <1>1
  <2>3. QED
    BY <1>1, <1>2, <2>1, <2>2, ShiftedInv, Zenon
<1>4. CASE Closes
  <2> DEFINE s == SetTop(Pop(ps.stack, 1), "stmt")
             p == [stack |-> s, i_l_follow |-> Under.il, ind_level |-> Under.il]
  <2>1. Shifted(p, FALSE)
    BY <1>4, Zenon DEF Rbrace
  <2>2. Len(ps.stack) >= 3
    BY <1>1, <1>4 DEF Closes, tos, Under
  <2>3. Under.il \in Int
    BY <1>1, <2>2, EntryLemma DEF Under
  <2>4. s \in Seq(EntryType) /\ Len(s) = Len(ps.stack) - 1
        /\ \A i \in 1..(Len(ps.stack) - 2) : s[i] = ps.stack[i]
    <3>1. Len(ps.stack) >= 2 /\ "stmt" \in Symbols
      BY <1>1, <2>2 DEF Symbols
    <3>2. QED
      BY <1>1, <3>1, PopSetLemma, Zenon
  <2> HIDE DEF s
  <2>5. Listed(p) /\ Len(p.stack) <= Len(ps.stack) + 2
    BY <1>1, <2>2, <2>3, <2>4 DEF Listed, StateType
  <2> HIDE DEF p
  <2>6. QED
    BY <1>1, <1>2, <2>1, <2>5, ShiftedInv, Zenon
<1>5. QED
  BY <1>3, <1>4

LEMMA SwitchInv ==
  ASSUME IInv, pc = "shift", ~Booting, Switch
  PROVE  IInv'
<1> DEFINE e == Entry("swstmt", ps.i_l_follow, case_ind)
           s == Append(ps.stack, e)
           f == ps.i_l_follow + CaseIndent + 1
           p == [ps EXCEPT !.stack = s, !.i_l_follow = f]
<1>1. /\ Good(ps) /\ ps \in StateType /\ ps.stack \in Seq(EntryType)
      /\ case_ind \in Int /\ ps.i_l_follow \in Int
  BY ShiftGood
<1>2. case_ind' \in Int
  BY <1>1, ParserAssumption DEF Switch
<1>3. Shifted(p, FALSE)
  BY Zenon DEF Switch
<1>4. e \in EntryType
  BY <1>1, MakeEntry DEF Symbols
<1>5. s \in Seq(EntryType) /\ f \in Int
  BY <1>1, <1>4, PushLemma, ParserAssumption
<1> HIDE DEF s, f, e
<1>6. p \in StateType /\ p.stack = Append(ps.stack, e)
  BY <1>1, <1>5, Zenon DEF StateType, s
<1> HIDE DEF p
<1>7. QED
  BY <1>1, <1>2, <1>3, <1>4, <1>6, PushInv, Zenon
\* One turn of parse's switch.
LEMMA ShiftInv ==
  ASSUME IInv, Shift
  PROVE  IInv'
<1>1. pc = "shift"
  BY DEF Shift, Decl, Header, Lbrace, While, Elselit, Rbrace, Switch, Semicolon, Shifted
<1>2. CASE Semicolon
  BY <1>1, <1>2, SemicolonInv
<1>3. CASE ~Semicolon
  <2>1. ~Booting
    <3>1. tk # "semicolon"
      BY <1>1, <1>3, Zenon DEF Shift, Decl, Header, Lbrace, While, Elselit, Rbrace, Switch
    <3>2. QED
      BY <1>1, <3>1 DEF Booting
  <2>2. QED
    BY <1>1, <1>3, <2>1, DeclInv, HeaderInv, LbraceInv, WhileInv, ElselitInv, RbraceInv, SwitchInv
       DEF Shift
<1>4. QED
  BY <1>2, <1>3
-----------------------------------------------------------------------------
(* Reductions.                                                             *)

\* The entry under the top, where there is one.
LEMMA UnderLemma ==
  ASSUME IInv, pc = "reduce", ~Booting, tos > 0
  PROVE  /\ ps \in StateType /\ ps.stack \in Seq(EntryType) /\ Len(ps.stack) \in Nat
         /\ Len(ps.stack) >= 2 /\ Len(ps.stack) <= StackSize - 1
         /\ ps.stack[1].t = "stmtl"
         /\ Under.t \in Symbols /\ Under.il \in Int /\ Under.cstk \in Int
         /\ case_ind \in Int
<1>1. /\ Good(ps) /\ ps \in StateType /\ ps.stack \in Seq(EntryType)
      /\ Len(ps.stack) \in Nat /\ case_ind \in Int
  BY ShiftGood
<1>2. Len(ps.stack) >= 2
  BY <1>1 DEF tos
<1>3. Len(ps.stack) - 1 \in 1..Len(ps.stack)
  BY <1>1, <1>2
<1>4. QED
  BY <1>1, <1>2, <1>3, EntryLemma DEF Good, Listed, Under

\* The top goes, and what was under it is renamed.
LEMMA PopSetInv ==
  ASSUME IInv, pc = "reduce", ~Booting, tos > 0, case_ind' \in Int,
         NEW t \in Symbols, t = "stmtl" \/ Under.t # "stmtl",
         NEW p \in StateType, p.stack = SetTop(Pop(ps.stack, 1), t), Reduces(p)
  PROVE  IInv'
<1>1. /\ ps \in StateType /\ ps.stack \in Seq(EntryType) /\ Len(ps.stack) \in Nat
      /\ Len(ps.stack) >= 2 /\ Len(ps.stack) <= StackSize - 1
      /\ ps.stack[1].t = "stmtl"
  BY UnderLemma
<1>2. /\ p.stack \in Seq(EntryType) /\ Len(p.stack) = Len(ps.stack) - 1
      /\ \A i \in 1..(Len(ps.stack) - 2) : p.stack[i] = ps.stack[i]
      /\ p.stack[Len(ps.stack) - 1].t = t
  BY <1>1, PopSetLemma
<1>3. p.stack[1].t = "stmtl"
  <2>1. CASE Len(ps.stack) = 2
    BY <1>1, <1>2, <2>1 DEF Under
  <2>2. CASE Len(ps.stack) > 2
    BY <1>1, <1>2, <2>2
  <2>3. Len(ps.stack) = 2 \/ Len(ps.stack) > 2
    <3> DEFINE n == Len(ps.stack)
    <3>1. n \in Nat /\ n >= 2
      BY <1>1, Zenon
    <3> HIDE DEF n
    <3>2. n = 2 \/ n > 2
      BY <3>1
    <3>3. QED
      BY <3>2 DEF n
  <2>4. QED
    BY <2>1, <2>2, <2>3
<1>4. Good(p)
  BY <1>1, <1>2, <1>3, ParserAssumption DEF Good, Listed
<1>5. QED
  BY <1>4, ReducesInv

\* The first call of parse ends with a list at the bottom.
LEMMA BootReduce ==
  ASSUME IInv, pc = "reduce", Booting, Reduce
  PROVE  IInv'
<1> DEFINE s == SetTop(Pop(ps.stack, 1), "stmtl")
           p == [ps EXCEPT !.stack = s]
<1>1. /\ ps \in StateType /\ ps.stack \in Seq(EntryType) /\ Len(ps.stack) = 2
      /\ ps.stack[1].t = "stmt" /\ ps.stack[2].t = "stmt"
  BY Levels DEF Booting
<1>2. Top.t = "stmt" /\ Under.t = "stmt" /\ tos = 1
  BY <1>1 DEF Top, Under, tos
<1>3. Reduces(p) /\ case_ind' = case_ind
  BY <1>2 DEF Reduce, ReduceList, ReduceDo, ReduceIf, ReduceStmt, ReduceDoWhile, ReduceDone
<1>4. s \in Seq(EntryType) /\ Len(s) = 1 /\ s[1].t = "stmtl"
  <2>1. Len(ps.stack) >= 2 /\ "stmtl" \in Symbols
    BY <1>1 DEF Symbols
  <2>2. /\ s \in Seq(EntryType) /\ Len(s) = Len(ps.stack) - 1
        /\ s[Len(ps.stack) - 1].t = "stmtl"
    BY <1>1, <2>1, PopSetLemma, Zenon
  <2>3. QED
    BY <1>1, <2>2
<1> HIDE DEF s
<1>5. Good(p)
  <2>1. p \in StateType /\ p.stack = s
    BY <1>1, <1>4 DEF StateType
  <2>2. 1 <= StackSize - 1 /\ 1 >= 1
    BY ParserAssumption
  <2> HIDE DEF p
  <2>3. Len(p.stack) = 1 /\ p.stack[1].t = "stmtl"
    BY <1>4, <2>1, Zenon
  <2>4. QED
    BY <2>1, <2>2, <2>3, Zenon DEF Good, Listed
<1>6. case_ind' \in Int
  BY <1>3 DEF IInv, Rest
<1> HIDE DEF p
<1>7. QED
  BY <1>3, <1>5, <1>6, ReducesInv
\* One turn of reduce's loop.
LEMMA ReduceInv ==
  ASSUME IInv, pc = "reduce", Reduce
  PROVE  IInv'
<1>1. CASE Booting
  BY <1>1, BootReduce
<1>2. CASE ReduceDone
  <2>1. ps' = ps /\ pc' = back /\ UNCHANGED <<case_ind, state_stack, tk, empty, back, found_err, highest>>
    BY <1>2 DEF ReduceDone
  <2>2. back \in {"ready", "flush"} /\ (Booting \/ Good(ps))
    BY DEF IInv, Rest, Core
  <2>3. ~Booting
    <3>1. SUFFICES ASSUME Booting PROVE FALSE
      OBVIOUS
    <3>2. Top.t = "stmt" /\ Under.t = "stmt"
      BY <3>1 DEF Booting, Top, Under
    <3>3. QED
      BY <1>2, <3>2 DEF ReduceDone
  <2>4. Core' /\ Saved'
    BY <2>1, <2>2, <2>3 DEF IInv, Core, Good, Listed, Saved
  <2>5. Rest' /\ Highest'
    BY <2>1, <2>2 DEF IInv, Rest, Highest
  <2>6. QED
    BY <2>4, <2>5 DEF IInv
<1>3. CASE ~Booting /\ ReduceList
  <2> DEFINE s == SetTop(Pop(ps.stack, 1), "stmtl")
             p == [ps EXCEPT !.stack = s]
  <2>1. Reduces(p) /\ tos > 0 /\ case_ind' = case_ind
    BY <1>3 DEF ReduceList
  <2>2. /\ ps \in StateType /\ ps.stack \in Seq(EntryType) /\ Len(ps.stack) >= 2
        /\ case_ind \in Int /\ "stmtl" \in Symbols
    BY <1>3, <2>1, UnderLemma DEF Symbols
  <2>3. s \in Seq(EntryType)
    BY <2>2, PopSetLemma, Zenon
  <2> HIDE DEF s
  <2>4. p \in StateType /\ p.stack = s
    BY <2>2, <2>3 DEF StateType
  <2> HIDE DEF p
  <2>5. QED
    BY <1>3, <2>1, <2>2, <2>4, PopSetInv DEF s
<1>4. CASE ~Booting /\ ReduceDo
  <2> DEFINE s == SetTop(Pop(ps.stack, 1), "dohead")
             p == [ps EXCEPT !.stack = s, !.i_l_follow = Under.il]
  <2>1. Reduces(p) /\ tos > 0 /\ case_ind' = case_ind /\ Under.t # "stmtl"
    BY <1>4 DEF ReduceDo
  <2>2. /\ ps \in StateType /\ ps.stack \in Seq(EntryType) /\ Len(ps.stack) >= 2
        /\ case_ind \in Int /\ Under.il \in Int /\ "dohead" \in Symbols
    BY <1>4, <2>1, UnderLemma DEF Symbols
  <2>3. s \in Seq(EntryType)
    BY <2>2, PopSetLemma, Zenon
  <2> HIDE DEF s
  <2>4. p \in StateType /\ p.stack = s
    BY <2>2, <2>3, Zenon DEF StateType
  <2> HIDE DEF p
  <2>5. QED
    BY <1>4, <2>1, <2>2, <2>4, PopSetInv DEF s
<1>5. CASE ~Booting /\ ReduceIf
  <2> DEFINE s == SetTop(Pop(ps.stack, 1), "ifhead")
             f == ps.stack[Innermost(Enclosing)].il
             p == [ps EXCEPT !.stack = s, !.i_l_follow = f]
  <2>1. Reduces(p) /\ tos > 0 /\ case_ind' = case_ind /\ Under.t # "stmtl" /\ Enclosing # {}
    BY <1>5 DEF ReduceIf
  <2>2. /\ ps \in StateType /\ ps.stack \in Seq(EntryType) /\ Len(ps.stack) >= 2
        /\ Len(ps.stack) \in Nat /\ case_ind \in Int /\ "ifhead" \in Symbols
    BY <1>5, <2>1, UnderLemma DEF Symbols
  <2>3. s \in Seq(EntryType)
    BY <2>2, PopSetLemma, Zenon
  <2>4. f \in Int
    <3>1. Enclosing \subseteq 1..(Len(ps.stack) - 2)
      BY DEF Enclosing
    <3>2. Innermost(Enclosing) \in Enclosing
      <4>1. Len(ps.stack) - 2 \in Int
        BY <2>2
      <4>2. QED
        BY <2>1, <3>1, <4>1, InnermostLemma, Zenon
    <3>3. Innermost(Enclosing) \in 1..Len(ps.stack)
      <4> DEFINE m == Innermost(Enclosing)
                 n == Len(ps.stack)
      <4>1. m \in 1..(n - 2) /\ n \in Nat
        BY <2>2, <3>1, <3>2, Zenon
      <4> HIDE DEF m, n
      <4>2. m \in 1..n
        BY <4>1
      <4>3. QED
        BY <4>2 DEF m, n
    <3>4. QED
      BY <2>2, <3>3, EntryLemma
  <2> HIDE DEF s, f
  <2>5. p \in StateType /\ p.stack = s
    BY <2>2, <2>3, <2>4, Zenon DEF StateType
  <2> HIDE DEF p
  <2>6. QED
    BY <1>5, <2>1, <2>2, <2>5, PopSetInv DEF s
<1>6. CASE ~Booting /\ ReduceStmt
  <2> DEFINE s == SetTop(Pop(ps.stack, 1), "stmt")
             p == [ps EXCEPT !.stack = s, !.i_l_follow = Under.il]
  <2>1. Reduces(p) /\ tos > 0 /\ Under.t # "stmtl"
        /\ case_ind' = IF Under.t = "swstmt" THEN Under.cstk ELSE case_ind
    BY <1>6 DEF ReduceStmt
  <2>2. /\ ps \in StateType /\ ps.stack \in Seq(EntryType) /\ Len(ps.stack) >= 2
        /\ case_ind \in Int /\ Under.il \in Int /\ Under.cstk \in Int /\ "stmt" \in Symbols
    BY <1>6, <2>1, UnderLemma DEF Symbols
  <2>3. s \in Seq(EntryType)
    BY <2>2, PopSetLemma, Zenon
  <2> HIDE DEF s
  <2>4. p \in StateType /\ p.stack = s
    BY <2>2, <2>3, Zenon DEF StateType
  <2>5. case_ind' \in Int
    BY <2>1, <2>2
  <2> HIDE DEF p
  <2>6. QED
    BY <1>6, <2>1, <2>2, <2>4, <2>5, PopSetInv DEF s
<1>7. CASE ~Booting /\ ReduceDoWhile
  <2> DEFINE s == Pop(ps.stack, 2)
             p == [ps EXCEPT !.stack = s]
  <2>1. Reduces(p) /\ tos > 0 /\ case_ind' = case_ind /\ Under.t = "dohead"
    BY <1>7 DEF ReduceDoWhile
  <2>2. /\ ps \in StateType /\ ps.stack \in Seq(EntryType) /\ Len(ps.stack) >= 2
        /\ Len(ps.stack) \in Nat /\ Len(ps.stack) <= StackSize - 1
        /\ case_ind \in Int /\ ps.stack[1].t = "stmtl"
    BY <1>7, <2>1, UnderLemma
  <2>3. 2 < Len(ps.stack) /\ 2 \in Nat
    BY <2>1, <2>2 DEF Under
  <2>4. /\ s \in Seq(EntryType) /\ Len(s) = Len(ps.stack) - 2
        /\ \A i \in 1..(Len(ps.stack) - 2) : s[i] = ps.stack[i]
    BY <2>2, <2>3, PopLemma, Zenon
  <2> HIDE DEF s
  <2>5. p \in StateType /\ p.stack = s
    BY <2>2, <2>4, Zenon DEF StateType
  <2> HIDE DEF p
  <2>6. Good(p)
    BY <2>2, <2>3, <2>4, <2>5, ParserAssumption DEF Good, Listed
  <2>7. QED
    BY <2>1, <2>2, <2>6, ReducesInv
<1>8. QED
  BY <1>1, <1>2, <1>3, <1>4, <1>5, <1>6, <1>7 DEF Reduce

-----------------------------------------------------------------------------
(* What main does between calls.                                           *)

\* The levels change, the stack does not.
LEMMA LevelsInv ==
  ASSUME IInv, pc = "ready", NEW f \in Int, NEW l \in Int,
         ps' = [ps EXCEPT !.i_l_follow = f, !.ind_level = l],
         pc' = pc
  PROVE  Core' /\ Good(ps')
<1>1. Good(ps) /\ ps \in StateType
  BY DEF IInv, Core, Booting, Good, Listed
<1>2. ps' \in StateType /\ ps'.stack = ps.stack
  BY <1>1, Zenon DEF StateType
<1>3. Good(ps')
  BY <1>1, <1>2 DEF Good, Listed
<1>4. QED
  BY <1>3 DEF Core, Good, Listed

\* A line is dumped or not.
LEMMA DumpedLemma ==
  ASSUME IInv, pc = "ready", NEW line \in BOOLEAN
  PROVE  \E f \in Int, l \in Int : Dumped(line) = [ps EXCEPT !.i_l_follow = f, !.ind_level = l]
<1>1. ps \in StateType /\ ps.i_l_follow \in Int /\ ps.ind_level \in Int
  BY Levels DEF IInv, Core, Booting, Good, Listed
<1>2. CASE line
  <2>1. Dumped(line) = [ps EXCEPT !.i_l_follow = ps.i_l_follow, !.ind_level = ps.i_l_follow]
    BY <1>1, <1>2, Zenon DEF Dumped, StateType
  <2>2. QED
    BY <1>1, <2>1, Zenon
<1>3. CASE ~line
  <2>1. Dumped(line) = [ps EXCEPT !.i_l_follow = ps.i_l_follow, !.ind_level = ps.ind_level]
    BY <1>1, <1>3, Zenon DEF Dumped, StateType
  <2>2. QED
    BY <1>1, <2>1, Zenon
<1>4. QED
  BY <1>2, <1>3, Zenon

\* What the actions of main leave alone.
LEMMA MainRest ==
  ASSUME IInv, pc = "ready", pc' = "ready", tk' \in Tokens, empty' \in BOOLEAN,
         UNCHANGED <<case_ind, back, highest>>, found_err' \in BOOLEAN
  PROVE  Rest' /\ Highest'
BY DEF IInv, Rest, Highest

LEMMA CallInv ==
  ASSUME IInv, Call
  PROVE  IInv'
<1>1. PICK t \in Constructs, line \in BOOLEAN : Parse(t, line)
  BY DEF Call
<1>2. t \in Tokens
  BY ParserAssumption
<1>3. Good(ps) /\ pc = "ready"
  BY <1>1 DEF Parse, IInv, Core, Booting
<1>4. Core' /\ Saved'
  BY <1>1, <1>3 DEF IInv, Core, Saved, Good, Listed, Parse
<1>5. Rest' /\ Highest'
  BY <1>1, <1>2 DEF IInv, Rest, Highest, Parse
<1>6. QED
  BY <1>4, <1>5 DEF IInv

LEMMA LineInv ==
  ASSUME IInv, dump_line \/ Parameter \/ FunctionBrace
  PROVE  IInv'
<1>1. /\ pc = "ready" /\ pc' = pc
      /\ UNCHANGED <<case_ind, state_stack, pc, tk, empty, back, found_err, highest>>
  BY Zenon DEF dump_line, Parameter, FunctionBrace
<1>2. ps \in StateType /\ ps.i_l_follow \in Int /\ ps.ind_level \in Int
  BY <1>1, Levels DEF IInv, Core, Booting, Good, Listed
<1>3. Core'
  <2>1. CASE dump_line
    BY <1>1, <2>1, DumpedLemma, LevelsInv, Zenon DEF dump_line
  <2>2. CASE Parameter
    <3>1. ps' = [ps EXCEPT !.i_l_follow = 1, !.ind_level = 1]
      BY <1>2, <2>2, Zenon DEF Parameter, StateType
    <3>2. 1 \in Int
      OBVIOUS
    <3>3. QED
      BY <1>1, <3>1, <3>2, LevelsInv, Zenon
  <2>3. CASE FunctionBrace
    <3>1. PICK line \in BOOLEAN :
            ps' = [ps EXCEPT !.i_l_follow = 0, !.ind_level = IF line THEN 0 ELSE ps.ind_level]
      BY <2>3, Zenon DEF FunctionBrace
    <3> DEFINE l == IF line THEN 0 ELSE ps.ind_level
    <3>2. l \in Int /\ 0 \in Int
      BY <1>2
    <3>3. ps' = [ps EXCEPT !.i_l_follow = 0, !.ind_level = l]
      BY <3>1
    <3> HIDE DEF l
    <3>4. QED
      BY <1>1, <3>2, <3>3, LevelsInv, Zenon
  <2>4. QED
    BY <2>1, <2>2, <2>3
<1>4. Saved'
  BY <1>1 DEF IInv, Saved, Good, Listed
<1>5. Rest' /\ Highest'
  BY <1>1, MainRest DEF IInv, Rest
<1>6. QED
  BY <1>3, <1>4, <1>5 DEF IInv

LEMMA PreprocessorInv ==
  ASSUME IInv, Preprocessor
  PROVE  IInv'
<1>1. PICK line \in BOOLEAN : If(line) \/ Else(line) \/ Endif(line)
  BY DEF Preprocessor
<1>2. /\ pc = "ready" /\ found_err' \in BOOLEAN
      /\ UNCHANGED <<case_ind, pc, tk, empty, back, highest>>
  BY <1>1, Zenon DEF If, Else, Endif, IInv, Rest
<1>3. Rest' /\ Highest'
  BY <1>2, MainRest DEF IInv, Rest
<1>4. ps' = Dumped(line) => Core' /\ Good(ps')
  BY <1>2, DumpedLemma, LevelsInv, Zenon
<1>5. CASE If(line)
  <2>1. ps' = Dumped(line) /\ state_stack' \in {state_stack, Append(state_stack, ps')}
    BY <1>5 DEF If
  <2>2. Good(ps') /\ ps' \in StateType
    BY <1>4, <2>1 DEF Good, Listed
  <2>3. Saved'
    BY <2>1, <2>2 DEF IInv, Saved
  <2>4. QED
    BY <1>3, <1>4, <2>1, <2>3 DEF IInv
<1>6. CASE Else(line)
  <2>1. Saved'
    BY <1>6 DEF IInv, Saved, Else
  <2>2. Core'
    <3>1. CASE state_stack = <<>>
      BY <1>4, <1>6, <3>1 DEF Else
    <3>2. CASE state_stack # <<>>
      <4>1. ps' = state_stack[Len(state_stack)] /\ Len(state_stack) \in 1..Len(state_stack)
        BY <1>6, <3>2 DEF Else, IInv, Saved
      <4>2. Good(ps')
        BY <4>1 DEF IInv, Saved
      <4>3. QED
        BY <1>2, <4>2 DEF Core, Good, Listed
    <3>3. QED
      BY <3>1, <3>2
  <2>3. QED
    BY <1>3, <2>1, <2>2 DEF IInv
<1>7. CASE Endif(line)
  <2>1. ps' = Dumped(line)
    BY <1>7 DEF Endif
  <2>2. Saved'
    <3>1. CASE state_stack = <<>>
      BY <1>7, <3>1 DEF IInv, Saved, Endif
    <3>2. CASE state_stack # <<>>
      <4>1. state_stack' = SubSeq(state_stack, 1, Len(state_stack) - 1)
        BY <1>7, <3>2 DEF Endif, Pop
      <4>2. QED
        BY <3>2, <4>1 DEF IInv, Saved
    <3>3. QED
      BY <3>1, <3>2
  <2>3. QED
    BY <1>3, <1>4, <2>1, <2>2 DEF IInv
<1>8. QED
  BY <1>1, <1>5, <1>6, <1>7

\* An if without an else becomes a statement.
LEMMA FlushInv ==
  ASSUME IInv, Flush
  PROVE  IInv'
<1>1. pc = "flush" /\ UNCHANGED <<case_ind, state_stack, tk, empty, found_err, highest>>
  BY DEF Flush
<1>2. Saved'
  BY <1>1 DEF IInv, Saved, Good, Listed
<1>3. Rest' /\ Highest'
  BY <1>1 DEF Flush, IInv, Rest, Highest
<1>4. CASE Top.t = "ifhead" /\ tk # "elselit"
  <2> DEFINE s == SetTop(ps.stack, "stmt")
             p == [ps EXCEPT !.stack = s]
  <2>1. ~Booting
    BY <1>4 DEF Booting, Top
  <2>2. /\ Good(ps) /\ ps \in StateType /\ ps.stack \in Seq(EntryType)
        /\ Len(ps.stack) \in Nat /\ Len(ps.stack) >= 1 /\ ps.stack[1].t = "stmtl"
    BY <1>1, <2>1, ShiftGood DEF Good, Listed
  <2>3. Len(ps.stack) > 1
    BY <1>4, <2>2 DEF Top
  <2>4. s \in Seq(EntryType) /\ Len(s) = Len(ps.stack)
        /\ \A i \in 1..(Len(ps.stack) - 1) : s[i] = ps.stack[i]
    BY <2>2, SetTopLemma, Zenon DEF Symbols
  <2>5. ps' = p /\ pc' = "reduce"
    BY <1>4 DEF Flush
  <2> HIDE DEF s
  <2>6. p \in StateType /\ p.stack = s
    BY <2>2, <2>4 DEF StateType
  <2> HIDE DEF p
  <2>7. p.stack[1].t = "stmtl"
    BY <2>2, <2>3, <2>4, <2>6
  <2>8. Good(p)
    BY <2>2, <2>4, <2>6, <2>7 DEF Good, Listed
  <2>9. Core'
    BY <2>5, <2>8 DEF Core, Good, Listed
  <2>10. QED
    BY <1>2, <1>3, <2>9 DEF IInv
<1>5. CASE ~(Top.t = "ifhead" /\ tk # "elselit")
  <2>1. ps' = ps /\ pc' = "shift" /\ back' = back
    BY <1>5 DEF Flush
  <2>2. Core'
    BY <1>1, <2>1 DEF IInv, Core, Booting, Good, Listed
  <2>3. QED
    BY <1>2, <1>3, <2>2 DEF IInv
<1>6. QED
  BY <1>4, <1>5

-----------------------------------------------------------------------------
(* The invariant and what follows from it.                                 *)

LEMMA InitInv ==
  ASSUME Init
  PROVE  IInv
<1> DEFINE e == Entry("stmt", 0, 0)
<1>1. e \in EntryType /\ e.t = "stmt"
  BY MakeEntry DEF Symbols
<1>2. ps = [stack |-> <<e>>, i_l_follow |-> 0, ind_level |-> 0]
  BY DEF Init
<1> HIDE DEF e
<1>3. ps \in StateType /\ Len(ps.stack) = 1 /\ ps.stack[1].t = "stmt"
  BY <1>1, <1>2 DEF StateType
<1>4. Core
  BY <1>3 DEF Core, Booting, Init
<1>5. Saved
  BY DEF Saved, Init
<1>6. Rest /\ Highest
  <2>1. 0 <= StackSize - 2 /\ 0 \in Nat /\ 0 \in Int
    BY ParserAssumption
  <2>2. "semicolon" \in Tokens
    BY DEF Tokens
  <2>3. Rest
    BY <2>1, <2>2, Zenon DEF Rest, Init
  <2>4. Highest
    BY <2>1 DEF Highest, Init
  <2>5. QED
    BY <2>3, <2>4
<1>7. QED
  BY <1>4, <1>5, <1>6 DEF IInv

LEMMA NextInv ==
  ASSUME IInv, [Next]_vars
  PROVE  IInv'
<1>1. CASE Call
  BY <1>1, CallInv
<1>2. CASE dump_line \/ Parameter \/ FunctionBrace
  BY <1>2, LineInv
<1>3. CASE Preprocessor
  BY <1>3, PreprocessorInv
<1>4. CASE Flush
  BY <1>4, FlushInv
<1>5. CASE Shift
  BY <1>5, ShiftInv
<1>6. CASE Reduce
  <2>1. pc = "reduce"
    BY <1>6 DEF Reduce, ReduceList, ReduceDo, ReduceIf, ReduceStmt, ReduceDoWhile, ReduceDone, Looks
  <2>2. QED
    BY <1>6, <2>1, ReduceInv
<1>7. CASE UNCHANGED vars
  BY <1>7 DEF vars, IInv, Core, Booting, Saved, Good, Listed, Rest, Highest
<1>8. QED
  BY <1>1, <1>2, <1>3, <1>4, <1>5, <1>6, <1>7 DEF Next, Internal

LEMMA Invariance == Spec => []IInv
<1>1. Init => IInv
  BY InitInv
<1>2. IInv /\ [Next]_vars => IInv'
  BY NextInv
<1>3. QED
  BY <1>1, <1>2, PTL DEF Spec

\* The parser's state keeps its types and the stack is never empty, for any
\* sequence of constructs and conditionals.
THEOREM TypeCorrect == Spec => []TypeOK
<1>1. IInv => TypeOK
  <2>1. SUFFICES ASSUME IInv PROVE TypeOK
    OBVIOUS
  <2>2. ps \in StateType /\ Len(ps.stack) >= 1
    BY <2>1 DEF IInv, Core, Booting, Good, Listed
  <2>3. ps.stack # <<>>
    BY <2>2
  <2>4. QED
    BY <2>1, <2>2, <2>3 DEF IInv, Rest, Saved, TypeOK
<1>2. QED
  BY <1>1, Invariance, PTL

\* reduce never reads p_stack[-1], neither under the top nor in its search for
\* the enclosing list: the list at the bottom stops both.
THEOREM StackFloor == Spec => []NoUnderflow
<1>1. IInv => NoUnderflow
  <2>1. SUFFICES ASSUME IInv, Looks
                 PROVE  tos > 0 /\ ((Top.t = "stmt" /\ Under.t = "ifstmt") => Enclosing # {})
    BY DEF NoUnderflow
  <2>2. pc = "reduce" /\ Top.t \in {"stmt", "whilestmt"}
    BY <2>1 DEF Looks
  <2>3. CASE Booting
    <3>1. Len(ps.stack) = 2 /\ ps.stack[1].t = "stmt"
      BY <2>2, <2>3 DEF Booting
    <3>2. QED
      BY <3>1 DEF tos, Under
  <2>4. CASE ~Booting
    <3>1. ps.stack \in Seq(EntryType) /\ Len(ps.stack) >= 1 /\ ps.stack[1].t = "stmtl"
      BY <2>1, <2>2, <2>4, ShiftGood DEF Good, Listed
    <3>2. Len(ps.stack) > 1
      BY <2>2, <3>1 DEF Top
    <3>3. Under.t = "ifstmt" => 1 \in Enclosing
      BY <3>1, <3>2 DEF Under, Enclosing
    <3>4. QED
      BY <3>1, <3>2, <3>3 DEF tos
  <2>5. QED
    BY <2>3, <2>4
<1>2. QED
  BY <1>1, Invariance, PTL

\* What parse writes before it notices a full stack is at most one entry beyond
\* the end, and it stops there.
THEOREM StackCeiling == Spec => []WritesBounded
<1>1. IInv => WritesBounded
  BY ParserAssumption DEF IInv, Highest, Rest, WritesBounded
<1>2. QED
  BY <1>1, Invariance, PTL
-----------------------------------------------------------------------------
(* The switches on the stack.                                              *)

\* c is the level for the labels of the innermost of the first n entries of S.
LabelsAt(S, n, c) ==
  \A i \in 1..n :
    (S[i].t = "swstmt" /\ \A j \in (i + 1)..n : S[j].t # "swstmt") => c = S[i].il + CaseIndent

\* The level of case labels, and what is saved of it in every switch.
Cases(S, c) ==
  /\ LabelsAt(S, Len(S), c)
  /\ \A n \in 1..Len(S) : S[n].t = "swstmt" => LabelsAt(S, n - 1, S[n].cstk)

\* The first b entries of S and of T are the same.
Kept(S, T, b) ==
  /\ S \in Seq(EntryType) /\ T \in Seq(EntryType) /\ b \in Nat /\ b <= Len(S) /\ b <= Len(T)
  /\ \A i \in 1..b : T[i] = S[i]

\* T is the first b entries of S and then e.
Stands(S, T, b, e) == Kept(S, T, b) /\ Len(T) = b + 1 /\ T[b + 1] = e

\* The labels of entries that stay.
LEMMA LabelsKept ==
  ASSUME NEW S, NEW T, NEW b, Kept(S, T, b), NEW n \in Nat, n <= b, NEW c, LabelsAt(S, n, c)
  PROVE  LabelsAt(T, n, c)
<1>1. \A i \in 1..n : T[i] = S[i]
  BY DEF Kept
<1>2. \A i \in 1..n : \A j \in (i + 1)..n : j \in 1..n
  OBVIOUS
<1>3. QED
  BY <1>1, <1>2, Zenon DEF LabelsAt

\* An entry that is no switch changes no label.
LEMMA LabelsMore ==
  ASSUME NEW S, NEW n \in Nat, NEW c, LabelsAt(S, n, c), S[n + 1].t # "swstmt"
  PROVE  LabelsAt(S, n + 1, c)
<1> SUFFICES ASSUME NEW i \in 1..(n + 1), S[i].t = "swstmt", \A j \in (i + 1)..(n + 1) : S[j].t # "swstmt"
             PROVE  c = S[i].il + CaseIndent
  BY DEF LabelsAt
<1>1. i \in 1..n /\ \A j \in (i + 1)..n : j \in (i + 1)..(n + 1)
  OBVIOUS
<1>2. QED
  BY <1>1, Zenon DEF LabelsAt

\* Neither does its going.
LEMMA LabelsLess ==
  ASSUME NEW S, NEW n \in Nat, NEW m \in Nat, m <= n, NEW c, LabelsAt(S, n, c),
         \A i \in (m + 1)..n : S[i].t # "swstmt"
  PROVE  LabelsAt(S, m, c)
<1> SUFFICES ASSUME NEW i \in 1..m, S[i].t = "swstmt", \A j \in (i + 1)..m : S[j].t # "swstmt"
             PROVE  c = S[i].il + CaseIndent
  BY DEF LabelsAt
<1>1. i \in 1..n /\ \A j \in (i + 1)..n : j \in (i + 1)..m \/ j \in (m + 1)..n
  OBVIOUS
<1>2. QED
  BY <1>1, Zenon DEF LabelsAt

\* The entries that stay keep what is saved in them.
LEMMA SavedKept ==
  ASSUME NEW S, NEW T, NEW b, Kept(S, T, b), NEW c, Cases(S, c), NEW n \in 1..b, T[n].t = "swstmt"
  PROVE  LabelsAt(T, n - 1, T[n].cstk)
<1>1. n - 1 \in Nat /\ n - 1 <= b /\ n \in 1..Len(S) /\ T[n] = S[n]
  BY DEF Kept
<1>2. LabelsAt(S, n - 1, S[n].cstk)
  BY <1>1 DEF Cases
<1>3. QED
  BY <1>1, <1>2, LabelsKept

\* Entries go that are no switches.
LEMMA CasesCut ==
  ASSUME NEW S, NEW T, NEW b, Kept(S, T, b), Len(T) = b, NEW c, Cases(S, c),
         \A i \in (b + 1)..Len(S) : S[i].t # "swstmt"
  PROVE  Cases(T, c)
<1>1. b \in Nat /\ Len(S) \in Nat /\ b <= Len(S)
  BY DEF Kept
<1>2. LabelsAt(S, b, c)
  BY <1>1, LabelsLess DEF Cases
<1>3. LabelsAt(T, b, c)
  BY <1>1, <1>2, LabelsKept
<1>4. QED
  BY <1>3, SavedKept DEF Cases

\* One that is no switch takes their place.
LEMMA CasesPlain ==
  ASSUME NEW S, NEW T, NEW b, NEW e, Stands(S, T, b, e), e.t # "swstmt", NEW c, Cases(S, c),
         \A i \in (b + 1)..Len(S) : S[i].t # "swstmt"
  PROVE  Cases(T, c)
<1>1. b \in Nat /\ Len(S) \in Nat /\ b <= Len(S) /\ Kept(S, T, b) /\ Len(T) = b + 1 /\ T[b + 1].t # "swstmt"
  BY DEF Stands, Kept
<1>2. LabelsAt(S, b, c)
  BY <1>1, LabelsLess DEF Cases
<1>3. LabelsAt(T, b + 1, c)
  BY <1>1, <1>2, LabelsKept, LabelsMore
<1>4. ASSUME NEW n \in 1..Len(T), T[n].t = "swstmt" PROVE LabelsAt(T, n - 1, T[n].cstk)
  <2>1. n \in 1..b
    BY <1>1, <1>4
  <2>2. QED
    BY <1>1, <1>4, <2>1, SavedKept
<1>5. QED
  BY <1>1, <1>3, <1>4 DEF Cases

\* A switch begins.
LEMMA CasesEnter ==
  ASSUME NEW S, NEW T, NEW e, Stands(S, T, Len(S), e), e.t = "swstmt", NEW c, Cases(S, c), e.cstk = c
  PROVE  Cases(T, e.il + CaseIndent)
<1>1. Len(S) \in Nat /\ Kept(S, T, Len(S)) /\ Len(T) = Len(S) + 1 /\ T[Len(S) + 1] = e
  BY DEF Stands, Kept
<1>2. LabelsAt(T, Len(S), c)
  BY <1>1, LabelsKept DEF Cases
<1>3. LabelsAt(T, Len(T), e.il + CaseIndent)
  <2>1. ASSUME NEW i \in 1..Len(T), \A j \in (i + 1)..Len(T) : T[j].t # "swstmt"
        PROVE  i = Len(S) + 1
    <3>1. i # Len(S) + 1 => Len(S) + 1 \in (i + 1)..Len(T)
      BY <1>1
    <3>2. QED
      BY <1>1, <2>1, <3>1
  <2>2. QED
    BY <1>1, <2>1, Zenon DEF LabelsAt
<1>4. ASSUME NEW n \in 1..Len(T), T[n].t = "swstmt" PROVE LabelsAt(T, n - 1, T[n].cstk)
  <2>1. CASE n \in 1..Len(S)
    BY <1>1, <1>4, <2>1, SavedKept
  <2>2. CASE n = Len(S) + 1
    BY <1>1, <1>2, <2>2
  <2>3. QED
    BY <1>1, <2>1, <2>2
<1>5. QED
  BY <1>3, <1>4 DEF Cases

\* A switch ends.
LEMMA CasesLeave ==
  ASSUME NEW S, NEW T, NEW b, NEW e, Stands(S, T, b, e), e.t # "swstmt", NEW c, Cases(S, c),
         b + 1 <= Len(S), S[b + 1].t = "swstmt"
  PROVE  Cases(T, S[b + 1].cstk)
<1>1. b \in Nat /\ Len(S) \in Nat /\ Kept(S, T, b) /\ Len(T) = b + 1 /\ T[b + 1].t # "swstmt" /\ b + 1 \in 1..Len(S)
      /\ b = (b + 1) - 1
  BY DEF Stands, Kept
<1>2. LabelsAt(S, b, S[b + 1].cstk)
  BY <1>1, Zenon DEF Cases
<1>3. LabelsAt(T, b + 1, S[b + 1].cstk)
  BY <1>1, <1>2, LabelsKept, LabelsMore
<1>4. ASSUME NEW n \in 1..Len(T), T[n].t = "swstmt" PROVE LabelsAt(T, n - 1, T[n].cstk)
  <2>1. n \in 1..b
    BY <1>1, <1>4
  <2>2. QED
    BY <1>1, <1>4, <2>1, SavedKept, Zenon
<1>5. QED
  BY <1>1, <1>3, <1>4 DEF Cases
-----------------------------------------------------------------------------
(* The rest of the program.                                                *)

Names  == Tokens \cup Nonterminals \cup {"newline", "kluge", "expr", "dowhile"}
Symbol == [t : Names, d : Int, k : Int, closed : BOOLEAN]

\* What a switch and a while need: a statement, which begins with one of Begins.
Heads  == {"swstmt", "whilestmt", "dowhile"}
Begins == {"Body", "semicolon", "expr", "ifstmt", "forstmt", "whilestmt", "swstmt", "dolit", "lbrace"}

\* v may stand after u, and nothing need stand after u.
Link(u, v) == (u.t \in Heads => v.t \in {"Body", "semicolon"}) /\ (u.t = "expr" => v.t = "semicolon")
Ends(u)    == u.t \notin Heads \cup {"expr"}
WellFormed(x) ==
  /\ x \in Seq(Symbol)
  /\ \A i \in 1..Len(x) : IF i = Len(x) THEN Ends(x[i]) ELSE Link(x[i], x[i + 1])

\* The symbols of the productions.
LEMMA SymType ==
  ASSUME NEW t \in Names, NEW d \in Int
  PROVE  Sym(t, d) \in Symbol /\ Sym(t, d).t = t
BY DEF Sym, Symbol

\* The same, for bodies.
LEMMA BodyType ==
  ASSUME NEW d \in Int, NEW k \in Int, NEW c \in BOOLEAN
  PROVE  /\ Body(d, k, c) \in Symbol /\ Body(d, k, c).t = "Body"
         /\ ElseBody(d, c) \in Symbol /\ ElseBody(d, c).t = "ElseBody"
BY DEF Body, ElseBody, Symbol, Names, Nonterminals

\* Productions of one to five symbols are well-formed if each may follow the one
\* before it and the last needs none.
LEMMA OneFormed ==
  ASSUME NEW u \in Symbol, Ends(u)
  PROVE  WellFormed(<<u>>) /\ <<u>> # <<>> /\ <<u>>[1] = u
BY DEF WellFormed

LEMMA TwoFormed ==
  ASSUME NEW u \in Symbol, NEW v \in Symbol, Link(u, v), Ends(v)
  PROVE  WellFormed(<<u, v>>) /\ <<u, v>> # <<>> /\ <<u, v>>[1] = u
BY DEF WellFormed

LEMMA ThreeFormed ==
  ASSUME NEW u \in Symbol, NEW v \in Symbol, NEW w \in Symbol, Link(u, v), Link(v, w), Ends(w)
  PROVE  WellFormed(<<u, v, w>>) /\ <<u, v, w>> # <<>> /\ <<u, v, w>>[1] = u
BY DEF WellFormed

LEMMA FourFormed ==
  ASSUME NEW u \in Symbol, NEW v \in Symbol, NEW w \in Symbol, NEW y \in Symbol,
         Link(u, v), Link(v, w), Link(w, y), Ends(y)
  PROVE  WellFormed(<<u, v, w, y>>) /\ <<u, v, w, y>> # <<>> /\ <<u, v, w, y>>[1] = u
BY DEF WellFormed

LEMMA FiveFormed ==
  ASSUME NEW u \in Symbol, NEW v \in Symbol, NEW w \in Symbol, NEW y \in Symbol, NEW z \in Symbol,
         Link(u, v), Link(v, w), Link(w, y), Link(y, z), Ends(z)
  PROVE  WellFormed(<<u, v, w, y, z>>) /\ <<u, v, w, y, z>> # <<>> /\ <<u, v, w, y, z>>[1] = u
BY DEF WellFormed

\* So are two one after the other.
LEMMA JoinFormed ==
  ASSUME NEW x, NEW y, WellFormed(x), WellFormed(y)
  PROVE  WellFormed(x \o y) /\ (x # <<>> => x \o y # <<>> /\ (x \o y)[1] = x[1])
<1> DEFINE z == x \o y
<1>1. /\ x \in Seq(Symbol) /\ y \in Seq(Symbol) /\ Len(x) \in Nat /\ Len(y) \in Nat
      /\ z \in Seq(Symbol) /\ Len(z) = Len(x) + Len(y)
      /\ \A i \in 1..Len(x) : z[i] = x[i]
      /\ \A i \in 1..Len(y) : z[i + Len(x)] = y[i]
  BY DEF WellFormed
<1> HIDE DEF z
<1>2. ASSUME NEW i \in 1..Len(z) PROVE IF i = Len(z) THEN Ends(z[i]) ELSE Link(z[i], z[i + 1])
  <2>1. CASE i < Len(x)
    <3>1. i \in 1..Len(x) /\ i + 1 \in 1..Len(x) /\ i # Len(x) /\ i # Len(z)
      BY <1>1, <2>1
    <3>2. QED
      BY <1>1, <3>1 DEF WellFormed
  <2>2. CASE i = Len(x)
    <3>1. i \in 1..Len(x) /\ z[i] = x[i] /\ Ends(x[i])
      BY <1>1, <2>2 DEF WellFormed
    <3>2. QED
      BY <3>1 DEF Ends, Link
  <2>3. CASE i > Len(x)
    <3> DEFINE k == i - Len(x)
    <3>1. k \in 1..Len(y) /\ i = k + Len(x) /\ (i # Len(z) => k + 1 \in 1..Len(y) /\ i + 1 = (k + 1) + Len(x))
          /\ (i = Len(z) <=> k = Len(y))
      BY <1>1, <2>3
    <3> HIDE DEF k
    <3>2. z[i] = y[k] /\ (i # Len(z) => z[i + 1] = y[k + 1])
      BY <1>1, <3>1, Zenon
    <3>3. QED
      BY <3>1, <3>2, Zenon DEF WellFormed
  <2>4. QED
    BY <1>1, <2>1, <2>2, <2>3
<1>3. WellFormed(z)
  BY <1>1, <1>2 DEF WellFormed
<1>4. x # <<>> => z # <<>> /\ z[1] = x[1]
  BY <1>1
<1>5. QED
  BY <1>3, <1>4 DEF z

\* The first symbol is read.
LEMMA TailFormed ==
  ASSUME NEW x, WellFormed(x), x # <<>>
  PROVE  /\ WellFormed(Tail(x)) /\ Head(x) = x[1] /\ x[1] \in Symbol
         /\ x[1].t \in Heads => Tail(x) # <<>> /\ Tail(x)[1].t \in {"Body", "semicolon"}
         /\ x[1].t = "expr" => Tail(x) # <<>> /\ Tail(x)[1].t = "semicolon"
<1> DEFINE y == Tail(x)
<1>1. /\ x \in Seq(Symbol) /\ Len(x) \in Nat /\ Len(x) > 0 /\ y \in Seq(Symbol) /\ Len(y) = Len(x) - 1
      /\ \A i \in 1..Len(y) : y[i] = x[i + 1]
      /\ Head(x) = x[1] /\ x[1] \in Symbol
  BY DEF WellFormed
<1> HIDE DEF y
<1>2. ASSUME NEW i \in 1..Len(y) PROVE IF i = Len(y) THEN Ends(y[i]) ELSE Link(y[i], y[i + 1])
  <2>1. i + 1 \in 1..Len(x) /\ (i = Len(y) <=> i + 1 = Len(x)) /\ y[i] = x[i + 1]
    BY <1>1
  <2>2. i # Len(y) => y[i + 1] = x[(i + 1) + 1]
    BY <1>1
  <2>3. QED
    BY <2>1, <2>2 DEF WellFormed
<1>3. WellFormed(y)
  BY <1>1, <1>2 DEF WellFormed
<1>4. IF 1 = Len(x) THEN Ends(x[1]) ELSE Link(x[1], x[2]) /\ y # <<>> /\ y[1] = x[2]
  BY <1>1 DEF WellFormed
<1>5. QED
  BY <1>1, <1>3, <1>4 DEF y, Ends, Link

\* The productions.
LEMMA BlockFormed ==
  ASSUME NEW d \in Int, NEW k \in Int
  PROVE  WellFormed(Block(d, k)) /\ Block(d, k) # <<>> /\ Block(d, k)[1].t = "lbrace"
<1>1. /\ Sym("lbrace", d) \in Symbol /\ Sym("lbrace", d).t = "lbrace"
      /\ Sym("List", d + k) \in Symbol /\ Sym("List", d + k).t = "List"
      /\ Sym("rbrace", d) \in Symbol /\ Sym("rbrace", d).t = "rbrace"
  BY SymType DEF Names, Tokens, Nonterminals
<1>2. QED
  BY <1>1, ThreeFormed DEF Block, Link, Ends, Heads

LEMMA DeclarationsFormed ==
  ASSUME NEW d \in Int, NEW x \in Declarations(d)
  PROVE  WellFormed(x)
<1>1. /\ Sym("decl", d) \in Symbol /\ Sym("decl", d).t = "decl"
      /\ Sym("semicolon", d) \in Symbol /\ Sym("semicolon", d).t = "semicolon"
      /\ Sym("lbrace", d) \in Symbol /\ Sym("lbrace", d).t = "lbrace"
      /\ Sym("Members", d + 1) \in Symbol /\ Sym("Members", d + 1).t = "Members"
      /\ Sym("rbrace", d) \in Symbol /\ Sym("rbrace", d).t = "rbrace"
  BY SymType DEF Names, Tokens, Nonterminals
<1>2. CASE x = <<Sym("decl", d), Sym("semicolon", d)>>
  BY <1>1, <1>2, TwoFormed DEF Link, Ends, Heads
<1>3. CASE x = <<Sym("decl", d), Sym("lbrace", d), Sym("Members", d + 1), Sym("rbrace", d), Sym("semicolon", d)>>
  BY <1>1, <1>3, FiveFormed DEF Link, Ends, Heads
<1>4. QED
  BY <1>2, <1>3 DEF Declarations

LEMMA IfsFormed ==
  ASSUME NEW d \in Int, NEW c \in BOOLEAN, NEW x \in Ifs(d, c)
  PROVE  WellFormed(x) /\ x # <<>> /\ x[1].t = "ifstmt"
<1>1. /\ Sym("ifstmt", d) \in Symbol /\ Sym("ifstmt", d).t = "ifstmt"
      /\ Sym("elselit", d) \in Symbol /\ Sym("elselit", d).t = "elselit"
  BY SymType DEF Names, Tokens
<1>2. \A b \in BOOLEAN : /\ Body(d, 1, b) \in Symbol /\ Body(d, 1, b).t = "Body"
                         /\ ElseBody(d, b) \in Symbol /\ ElseBody(d, b).t = "ElseBody"
  BY BodyType
<1>3. CASE x = <<Sym("ifstmt", d), Body(d, 1, TRUE), Sym("elselit", d), ElseBody(d, c)>>
  <2>1. /\ Link(Sym("ifstmt", d), Body(d, 1, TRUE)) /\ Link(Body(d, 1, TRUE), Sym("elselit", d))
        /\ Link(Sym("elselit", d), ElseBody(d, c)) /\ Ends(ElseBody(d, c))
    BY <1>1, <1>2, Zenon DEF Link, Ends, Heads
  <2>2. Body(d, 1, TRUE) \in Symbol /\ ElseBody(d, c) \in Symbol
    BY <1>2, Zenon
  <2>3. QED
    BY <1>1, <1>3, <2>1, <2>2, FourFormed, Zenon
<1>4. CASE x = <<Sym("ifstmt", d), Body(d, 1, FALSE)>>
  <2>1. Link(Sym("ifstmt", d), Body(d, 1, FALSE)) /\ Ends(Body(d, 1, FALSE)) /\ Body(d, 1, FALSE) \in Symbol
    BY <1>1, <1>2, Zenon DEF Link, Ends, Heads
  <2>2. QED
    BY <1>1, <1>4, <2>1, TwoFormed, Zenon
<1>5. QED
  BY <1>3, <1>4, Zenon DEF Ifs

LEMMA OthersFormed ==
  ASSUME NEW d \in Int, NEW c \in BOOLEAN, NEW x \in Others(d, c)
  PROVE  WellFormed(x) /\ x # <<>> /\ x[1].t \in Begins
<1>1. /\ Sym("semicolon", d) \in Symbol /\ Sym("semicolon", d).t = "semicolon"
      /\ Sym("expr", d) \in Symbol /\ Sym("expr", d).t = "expr"
      /\ Sym("dolit", d) \in Symbol /\ Sym("dolit", d).t = "dolit"
      /\ Sym("dowhile", d) \in Symbol /\ Sym("dowhile", d).t = "dowhile"
  BY SymType DEF Names, Tokens
<1>2. \A t \in {"forstmt", "whilestmt", "swstmt"} : Sym(t, d) \in Symbol /\ Sym(t, d).t = t
  BY SymType DEF Names, Tokens
<1>3. \A k \in Int : \A b \in BOOLEAN : Body(d, k, b) \in Symbol /\ Body(d, k, b).t = "Body"
  BY BodyType
<1>4. CASE x = <<Sym("semicolon", d)>>
  BY <1>1, <1>4, OneFormed DEF Ends, Heads, Begins
<1>5. CASE x = <<Sym("expr", d), Sym("semicolon", d)>>
  BY <1>1, <1>5, TwoFormed DEF Link, Ends, Heads, Begins
<1>6. ASSUME NEW t \in {"forstmt", "whilestmt", "swstmt"}, NEW k \in Int, x = <<Sym(t, d), Body(d, k, c)>>
      PROVE  WellFormed(x) /\ x # <<>> /\ x[1].t \in Begins
  <2>1. Sym(t, d) \in Symbol /\ Sym(t, d).t = t /\ Body(d, k, c) \in Symbol /\ Body(d, k, c).t = "Body"
    BY <1>2, <1>3, <1>6
  <2>2. Link(Sym(t, d), Body(d, k, c)) /\ Ends(Body(d, k, c))
    BY <2>1 DEF Link, Ends, Heads
  <2>3. QED
    BY <1>6, <2>1, <2>2, TwoFormed DEF Begins
<1>7. CASE x = <<Sym("dolit", d), Body(d, 1, FALSE), Sym("dowhile", d), Sym("semicolon", d)>>
  <2>0. \A b \in BOOLEAN : Body(d, 1, b) \in Symbol /\ Body(d, 1, b).t = "Body"
    BY <1>3
  <2>1. Body(d, 1, FALSE) \in Symbol /\ Body(d, 1, FALSE).t = "Body"
    BY <2>0, Zenon
  <2>2. /\ Link(Sym("dolit", d), Body(d, 1, FALSE)) /\ Link(Body(d, 1, FALSE), Sym("dowhile", d))
        /\ Link(Sym("dowhile", d), Sym("semicolon", d)) /\ Ends(Sym("semicolon", d))
    BY <1>1, <2>1, Zenon DEF Link, Ends, Heads
  <2>3. WellFormed(x) /\ x # <<>> /\ x[1] = Sym("dolit", d)
    BY <1>1, <1>7, <2>1, <2>2, FourFormed, Zenon
  <2>4. QED
    BY <1>1, <2>3 DEF Begins
<1>8. x = <<Sym("forstmt", d), Body(d, 1, c)>> \/ x = <<Sym("whilestmt", d), Body(d, 1, c)>> =>
        WellFormed(x) /\ x # <<>> /\ x[1].t \in Begins
  BY <1>6
<1>9. x = <<Sym("swstmt", d), Body(d, 1 + CaseIndent, c)>> => WellFormed(x) /\ x # <<>> /\ x[1].t \in Begins
  <2>1. 1 + CaseIndent \in Int
    BY ParserAssumption
  <2>2. QED
    BY <1>6, <2>1
<1>10. QED
  BY <1>4, <1>5, <1>7, <1>8, <1>9, Zenon DEF Others

\* Every production of a nonterminal; that of a body begins a statement.
LEMMA ExpansionsFormed ==
  ASSUME NEW s \in Symbol, s.t \in Nonterminals, NEW x \in Expansions(s)
  PROVE  WellFormed(x) /\ (s.t = "Body" => x # <<>> /\ x[1].t \in Begins)
<1>1. s.d \in Int /\ s.k \in Int /\ s.closed \in BOOLEAN
  BY DEF Symbol
<1>2. /\ Sym("newline", s.d) \in Symbol /\ Sym("newline", s.d).t = "newline"
      /\ Sym("Stmt", s.d) \in Symbol /\ Sym("Stmt", s.d).t = "Stmt"
      /\ Sym("decl", s.d) \in Symbol /\ Sym("decl", s.d).t = "decl"
      /\ Sym("semicolon", s.d) \in Symbol /\ Sym("semicolon", s.d).t = "semicolon"
      /\ Sym("kluge", s.d) \in Symbol /\ Sym("kluge", s.d).t = "kluge"
  BY <1>1, SymType DEF Names, Tokens, Nonterminals
<1>3. Ends(s)
  BY DEF Ends, Heads, Nonterminals
<1>4. WellFormed(<<>>)
  BY DEF WellFormed
<1>5. CASE s.t = "Stmt"
  <2>1. x \in Declarations(s.d) \/ x \in Ifs(s.d, FALSE) \/ x \in Others(s.d, FALSE) \/ x = Block(s.d, 1)
    BY <1>5, Zenon DEF Expansions
  <2>2. QED
    <3>1. CASE x \in Declarations(s.d)
      BY <1>1, <1>5, <3>1, DeclarationsFormed
    <3>2. CASE x \in Ifs(s.d, FALSE)
      BY <1>1, <1>5, <3>2, IfsFormed, Zenon
    <3>3. CASE x \in Others(s.d, FALSE)
      BY <1>1, <1>5, <3>3, OthersFormed, Zenon
    <3>4. CASE x = Block(s.d, 1)
      BY <1>1, <1>5, <3>4, BlockFormed
    <3>5. QED
      BY <2>1, <3>1, <3>2, <3>3, <3>4, Zenon
<1>6. CASE s.t = "Body"
  <2>1. x \in Ifs(s.d + s.k, s.closed) \/ x \in Others(s.d + s.k, s.closed) \/ x = Block(s.d, s.k)
    BY <1>6 DEF Expansions
  <2>2. s.d + s.k \in Int
    BY <1>1
  <2>3. QED
    BY <1>1, <2>1, <2>2, IfsFormed, OthersFormed, BlockFormed DEF Begins
<1>7. CASE s.t = "ElseBody"
  <2>1. \E d \in Int : x \in Ifs(d, s.closed) \/ x \in Others(d, s.closed) \/ x = Block(d, 1)
    BY <1>1, <1>7 DEF Expansions
  <2>2. QED
    BY <1>1, <1>7, <2>1, IfsFormed, OthersFormed, BlockFormed
<1>8. CASE s.t = "List"
  <2>1. x = <<>> \/ x = <<Sym("newline", s.d), Sym("Stmt", s.d), s>>
    BY <1>8 DEF Expansions
  <2>2. QED
    BY <1>2, <1>3, <1>4, <1>8, <2>1, ThreeFormed DEF Link, Heads
<1>9. CASE s.t = "Members"
  <2>1. x = <<>> \/ x = <<Sym("decl", s.d), Sym("semicolon", s.d), s>>
    BY <1>9 DEF Expansions
  <2>2. QED
    BY <1>2, <1>3, <1>4, <1>9, <2>1, ThreeFormed DEF Link, Heads
<1>10. CASE s.t = "Program"
  <2> DEFINE Rest2 == <<Sym("newline", s.d), s>>
             Begin == <<Sym("decl", s.d), Sym("kluge", s.d)>>
  <2>1. x = <<>> \/ (\E y \in Declarations(s.d) : x = y \o Rest2) \/ x = (Begin \o Block(s.d, 1)) \o Rest2
    BY <1>10, Zenon DEF Expansions
  <2>2. WellFormed(Rest2) /\ WellFormed(Begin)
    BY <1>2, <1>3, TwoFormed DEF Link, Ends, Heads
  <2>3. WellFormed(Block(s.d, 1))
    BY <1>1, BlockFormed
  <2> HIDE DEF Rest2, Begin
  <2>4. WellFormed(Begin \o Block(s.d, 1))
    BY <2>2, <2>3, JoinFormed, Zenon
  <2>5. QED
    BY <1>1, <1>4, <1>10, <2>1, <2>2, <2>4, DeclarationsFormed, JoinFormed, Zenon
<1>11. QED
  BY <1>5, <1>6, <1>7, <1>8, <1>9, <1>10 DEF Nonterminals
-----------------------------------------------------------------------------
(* The types, in a run over a program.                                     *)

\* A token leaves the parser's invariant as it is.
LEMMA TokenInv ==
  ASSUME IInv, WellFormed(goal), Token
  PROVE  IInv'
<1>1. /\ pc = "ready" /\ pc' \in {"ready", "flush"} /\ tk' \in Tokens /\ empty' \in BOOLEAN
      /\ UNCHANGED <<case_ind, state_stack, back, found_err, highest>>
  <2>1. pc = "ready" /\ pc' \in {"ready", "flush"} /\ empty' \in BOOLEAN
        /\ UNCHANGED <<case_ind, state_stack, back, found_err, highest>>
    BY DEF Token, Breaks
  <2>2. tk' \in Tokens
    <3>1. Head(goal).t \in Names /\ Head(goal).t \notin Nonterminals \cup {"newline"}
      BY TailFormed DEF Token, Symbol
    <3>2. tk' = (CASE Head(goal).t = "kluge"   -> "semicolon"
                   [] Head(goal).t = "dowhile" -> "whilestmt"
                   [] Head(goal).t = "expr"    -> tk
                   [] OTHER                    -> Head(goal).t)
      BY DEF Token
    <3>3. tk \in Tokens
      BY DEF IInv, Rest
    <3>4. QED
      BY <3>1, <3>2, <3>3 DEF Names, Tokens
  <2>3. QED
    BY <2>1, <2>2
<1>2. ps' = ps \/ ps' = [ps EXCEPT !.ind_level = ps.i_l_follow]
  BY DEF Token
<1>3. Good(ps)
  BY <1>1 DEF IInv, Core, Booting
<1>4. Good(ps')
  BY <1>2, <1>3 DEF Good, Listed, StateType
<1>5. Core'
  BY <1>1, <1>4 DEF Core
<1>6. Saved' /\ Rest' /\ Highest'
  BY <1>1 DEF IInv, Saved, Rest, Highest
<1>7. QED
  BY <1>5, <1>6 DEF IInv
-----------------------------------------------------------------------------
(* What the steps of parse do with the stack.                              *)

\* The types of the stack and of its top.
LEMMA StackNow ==
  ASSUME IInv
  PROVE  /\ ps \in StateType /\ ps.stack \in Seq(EntryType) /\ Len(ps.stack) \in Nat /\ Len(ps.stack) >= 1
         /\ ps.i_l_follow \in Int /\ ps.ind_level \in Int /\ Top \in EntryType
         /\ Top.t \in Symbols /\ Top.il \in Int /\ Top.cstk \in Int
<1>1. ps \in StateType /\ Len(ps.stack) >= 1
  BY DEF IInv, Core, Booting, Good, Listed
<1>2. ps.stack \in Seq(EntryType) /\ Len(ps.stack) \in Nat /\ ps.i_l_follow \in Int /\ ps.ind_level \in Int
  BY <1>1, Levels
<1>3. QED
  BY <1>1, <1>2, EntryLemma DEF Top

\* What is left, and what is on top, after a push, after SetTop, and after a pop
\* and SetTop.
LEMMA PushStands ==
  ASSUME NEW S \in Seq(EntryType), NEW e \in EntryType
  PROVE  Stands(S, Append(S, e), Len(S), e) /\ Append(S, e) \in Seq(EntryType)
BY DEF Stands, Kept

LEMMA SetStands ==
  ASSUME NEW S \in Seq(EntryType), Len(S) >= 1, NEW t \in Symbols, NEW f, f = S[Len(S)]
  PROVE  Stands(S, SetTop(S, t), Len(S) - 1, Entry(t, f.il, f.cstk))
<1>0. f \in EntryType
  OBVIOUS
<1>1. f.il \in Int /\ f.cstk \in Int /\ f = [t |-> f.t, il |-> f.il, cstk |-> f.cstk]
  BY <1>0 DEF EntryType
<1>2. [f EXCEPT !.t = t] = Entry(t, f.il, f.cstk)
  BY <1>0, <1>1 DEF Entry, EntryType
<1>3. /\ SetTop(S, t) \in Seq(EntryType) /\ Len(SetTop(S, t)) = Len(S)
      /\ \A i \in 1..(Len(S) - 1) : SetTop(S, t)[i] = S[i]
  BY SetTopLemma
<1>4. SetTop(S, t)[Len(S)] = [f EXCEPT !.t = t]
  BY DEF SetTop
<1>5. Len(S) \in Nat /\ Len(S) - 1 \in Nat /\ (Len(S) - 1) + 1 = Len(S)
  OBVIOUS
<1>6. QED
  BY <1>2, <1>3, <1>4, <1>5 DEF Stands, Kept

LEMMA PopSetStands ==
  ASSUME NEW S \in Seq(EntryType), Len(S) >= 2, NEW t \in Symbols, NEW f, f = S[Len(S) - 1]
  PROVE  Stands(S, SetTop(Pop(S, 1), t), Len(S) - 2, Entry(t, f.il, f.cstk))
<1> DEFINE P == Pop(S, 1)
<1>1. P \in Seq(EntryType) /\ Len(P) = Len(S) - 1 /\ \A i \in 1..(Len(S) - 1) : P[i] = S[i]
  BY PopLemma
<1>2. Len(S) \in Nat /\ Len(P) >= 1 /\ P[Len(P)] = f
  BY <1>1
<1> HIDE DEF P
<1>3. Stands(P, SetTop(P, t), Len(P) - 1, Entry(t, f.il, f.cstk))
  BY <1>1, <1>2, SetStands
<1>4. Stands(S, SetTop(P, t), Len(S) - 2, Entry(t, f.il, f.cstk))
  BY <1>1, <1>2, <1>3 DEF Stands, Kept
<1>5. QED
  BY <1>4 DEF P
-----------------------------------------------------------------------------
(* The case labels, through the steps of parse.                            *)

\* A while has been handed to parse, or a switch: its statement is to come.
Followed ==
  pc # "ready" /\ tk \in {"swstmt", "whilestmt"} => goal # <<>> /\ goal[1].t \in {"Body", "semicolon"}

\* When a switch or a while is on top, its statement is to come.
SwitchOpen ==
  Top.t \in {"swstmt", "whilestmt"} =>
    /\ pc = "ready" => goal # <<>> /\ goal[1].t \in Begins
    /\ pc \in {"flush", "shift"} => tk \in Begins
    /\ pc = "reduce" => back = "ready" /\ tk \in {"swstmt", "whilestmt"}

\* The inductive invariant.
CInv == IInv /\ WellFormed(goal) /\ Followed /\ SwitchOpen /\ Cases(ps.stack, case_ind)

\* A push of an entry that is no switch.
LEMMA PushCases ==
  ASSUME NEW S \in Seq(EntryType), NEW c, Cases(S, c), NEW e \in EntryType, e.t # "swstmt"
  PROVE  Cases(Append(S, e), c)
<1>1. Stands(S, Append(S, e), Len(S), e)
  BY PushStands
<1>2. \A i \in (Len(S) + 1)..Len(S) : S[i].t # "swstmt"
  OBVIOUS
<1>3. QED
  BY <1>1, <1>2, CasesPlain

\* Another entry on top.
LEMMA SetCases ==
  ASSUME NEW S \in Seq(EntryType), NEW c, Cases(S, c), Len(S) >= 1, S[Len(S)].t # "swstmt",
         NEW t \in Symbols, t # "swstmt"
  PROVE  Cases(SetTop(S, t), c)
<1> DEFINE f == S[Len(S)]
<1>1. Stands(S, SetTop(S, t), Len(S) - 1, Entry(t, f.il, f.cstk)) /\ Entry(t, f.il, f.cstk).t = t
  BY SetStands DEF Entry
<1>2. \A i \in ((Len(S) - 1) + 1)..Len(S) : S[i].t # "swstmt"
  OBVIOUS
<1>3. QED
  BY <1>1, <1>2, CasesPlain

\* Another entry in the place of two; a switch among them ends.
LEMMA PopSetCases ==
  ASSUME NEW S \in Seq(EntryType), NEW c, Cases(S, c), Len(S) >= 2, S[Len(S)].t # "swstmt", NEW t \in Symbols, t # "swstmt"
  PROVE  Cases(SetTop(Pop(S, 1), t), IF S[Len(S) - 1].t = "swstmt" THEN S[Len(S) - 1].cstk ELSE c)
<1> DEFINE f == S[Len(S) - 1]
<1>1. Stands(S, SetTop(Pop(S, 1), t), Len(S) - 2, Entry(t, f.il, f.cstk)) /\ Entry(t, f.il, f.cstk).t = t
  BY PopSetStands DEF Entry
<1>2. (Len(S) - 2) + 1 = Len(S) - 1 /\ Len(S) - 1 <= Len(S)
  OBVIOUS
<1>3. CASE f.t = "swstmt"
  BY <1>1, <1>2, <1>3, CasesLeave
<1>4. CASE f.t # "swstmt"
  <2>1. \A i \in ((Len(S) - 2) + 1)..Len(S) : S[i].t # "swstmt"
    BY <1>4
  <2>2. QED
    BY <1>1, <1>4, <2>1, CasesPlain
<1>5. QED
  BY <1>3, <1>4

\* Entries go.
LEMMA PopCases ==
  ASSUME NEW S \in Seq(EntryType), NEW c, Cases(S, c), NEW n \in Nat, n < Len(S),
         \A i \in ((Len(S) - n) + 1)..Len(S) : S[i].t # "swstmt"
  PROVE  Cases(Pop(S, n), c) /\ Pop(S, n) \in Seq(EntryType)
<1>1. Kept(S, Pop(S, n), Len(S) - n) /\ Len(Pop(S, n)) = Len(S) - n /\ Pop(S, n) \in Seq(EntryType)
  BY PopLemma DEF Kept
<1>2. QED
  BY <1>1, CasesCut, Zenon

\* Shifts, rules and the flush of an if keep the labels right.
LEMMA ShiftCases ==
  ASSUME IInv, SwitchOpen, Cases(ps.stack, case_ind), Shift
  PROVE  Cases(ps'.stack, case_ind')
<1> DEFINE S == ps.stack
           c == case_ind
<1>1. /\ S \in Seq(EntryType) /\ Len(S) \in Nat /\ Len(S) >= 1 /\ ps \in StateType
      /\ ps.i_l_follow \in Int /\ ps.ind_level \in Int /\ Top.il \in Int /\ Top = S[Len(S)]
  BY StackNow DEF Top
<1>2. \A t \in Symbols : \A il \in Int : Entry(t, il, 0) \in EntryType /\ Entry(t, il, 0).t = t
  BY MakeEntry
<1>3. \A t \in Symbols \ {"swstmt"} : \A il \in Int : Cases(Append(S, Entry(t, il, 0)), c)
  BY <1>1, <1>2, PushCases
<1>4. CASE Decl
  <2>1. ps'.stack = S \/ ps'.stack = Append(S, Entry("decl", ps.i_l_follow, 0))
    BY <1>1, <1>4 DEF Decl, Shifted, StateType
  <2>2. case_ind' = c /\ "decl" \in Symbols \ {"swstmt"}
    BY <1>4 DEF Decl, Symbols
  <2>3. QED
    BY <1>1, <1>3, <2>1, <2>2, Zenon
<1>5. CASE Header
  <2>1. tk \in Symbols \ {"swstmt"} /\ case_ind' = c
    BY <1>5 DEF Header, Symbols
  <2>2. CASE tk = "ifstmt" /\ Top.t = "elsehead" /\ ElseIf
    <3>1. ps'.stack = Append(Pop(S, 1), Entry(tk, Top.il, 0))
      BY <1>1, <1>5, <2>2 DEF Header, Headed, Shifted, StateType
    <3>2. CASE Len(S) >= 2
      <4>1. Cases(Pop(S, 1), c) /\ Pop(S, 1) \in Seq(EntryType)
        BY <1>1, <2>2, <3>2, PopCases
      <4>2. QED
        BY <1>1, <1>2, <2>1, <3>1, <4>1, PushCases
    <3>3. CASE Len(S) = 1
      <4>1. S[1].t \in {"stmt", "stmtl"}
        BY <3>3 DEF IInv, Core, Booting, Good, Listed
      <4>2. QED
        BY <1>1, <2>2, <3>3, <4>1
    <3>4. Len(S) >= 2 \/ Len(S) = 1
      <4>1. \A n \in Nat : n >= 1 => n >= 2 \/ n = 1
        OBVIOUS
      <4>2. QED
        BY <1>1, <4>1, Zenon
    <3>5. QED
      BY <3>2, <3>3, <3>4, Zenon
  <2>3. CASE ~(tk = "ifstmt" /\ Top.t = "elsehead" /\ ElseIf)
    <3>1. ps'.stack = Append(S, Entry(tk, ps.i_l_follow, 0))
      BY <1>1, <1>5, <2>3 DEF Header, Headed, Shifted, StateType
    <3>2. QED
      BY <1>1, <1>3, <2>1, <3>1
  <2>4. QED
    BY <2>2, <2>3
<1>6. CASE Lbrace
  <2> DEFINE group == Top.t \in {"stmt", "decl", "stmtl"}
             f == IF group THEN ps.i_l_follow + 1 ELSE ps.i_l_follow
             l == ps.ind_level - (IF group \/ ~empty THEN 0
                                  ELSE IF Top.t = "swstmt" /\ CaseIndent >= 1 THEN 2 ELSE 1)
  <2>1. l \in Int /\ f \in Int
    BY <1>1
  <2>2. ps'.stack = Append(Append(S, Entry("lbrace", l, 0)), Entry("stmt", f, 0))
    BY <1>6 DEF Lbrace, Shifted
  <2> HIDE DEF l, f
  <2>3. /\ Entry("lbrace", l, 0) \in EntryType /\ Entry("stmt", f, 0) \in EntryType
        /\ Entry("lbrace", l, 0).t = "lbrace" /\ Entry("stmt", f, 0).t = "stmt"
    BY <1>2, <2>1 DEF Symbols
  <2>4. Cases(Append(S, Entry("lbrace", l, 0)), c) /\ Append(S, Entry("lbrace", l, 0)) \in Seq(EntryType)
    BY <1>1, <2>3, PushCases
  <2>5. case_ind' = c
    BY <1>6 DEF Lbrace
  <2>6. QED
    BY <2>2, <2>3, <2>4, <2>5, PushCases, Zenon
<1>7. CASE While
  <2>1. \E l \in Int : ps'.stack = Append(S, Entry("whilestmt", l, 0))
    BY <1>1, <1>7 DEF While, Shifted, StateType
  <2>2. case_ind' = c /\ "whilestmt" \in Symbols \ {"swstmt"}
    BY <1>7 DEF While, Symbols
  <2>3. QED
    BY <1>3, <2>1, <2>2
<1>8. CASE Elselit
  <2>1. ps'.stack = S \/ (Top.t = "ifhead" /\ ps'.stack = SetTop(S, "elsehead"))
    BY <1>8 DEF Elselit, Shifted
  <2>2. case_ind' = c /\ "elsehead" \in Symbols
    BY <1>8 DEF Elselit, Symbols
  <2>3. QED
    BY <1>1, <2>1, <2>2, SetCases
<1>9. CASE Rbrace
  <2>1. ps'.stack = S \/ (Closes /\ ps'.stack = SetTop(Pop(S, 1), "stmt"))
    BY <1>9 DEF Rbrace, Shifted
  <2>2. case_ind' = c /\ "stmt" \in Symbols /\ Top.t # "swstmt"
    BY <1>9 DEF Rbrace, Symbols, SwitchOpen, Shifted, Begins
  <2>3. Closes => Len(S) >= 2 /\ S[Len(S) - 1].t = "lbrace"
    BY <1>1 DEF Closes, tos, Under
  <2>4. QED
    BY <1>1, <2>1, <2>2, <2>3, PopSetCases
<1>10. CASE Switch
  <2> DEFINE e == Entry("swstmt", ps.i_l_follow, c)
  <2>1. ps'.stack = Append(S, e) /\ case_ind' = ps.i_l_follow + CaseIndent
    BY <1>1, <1>10 DEF Switch, Shifted, StateType
  <2>2. e \in EntryType /\ e.t = "swstmt" /\ e.il = ps.i_l_follow /\ e.cstk = c
    <3>1. c \in Int /\ "swstmt" \in Symbols
      BY DEF IInv, Rest, Symbols
    <3>2. QED
      BY <1>1, <3>1, MakeEntry
  <2> HIDE DEF e
  <2>3. Stands(S, Append(S, e), Len(S), e)
    BY <1>1, <2>2, PushStands
  <2>4. QED
    BY <2>1, <2>2, <2>3, CasesEnter
<1>11. CASE Semicolon
  <2>1. ps'.stack = Append(S, Entry("stmt", ps.ind_level, 0))
    BY <1>1, <1>11 DEF Semicolon, Shifted, StateType
  <2>2. case_ind' = c /\ "stmt" \in Symbols \ {"swstmt"}
    BY <1>11 DEF Semicolon, Symbols
  <2>3. QED
    BY <1>1, <1>3, <2>1, <2>2
<1>12. QED
  BY <1>4, <1>5, <1>6, <1>7, <1>8, <1>9, <1>10, <1>11 DEF Shift

LEMMA ReduceCases ==
  ASSUME IInv, SwitchOpen, Cases(ps.stack, case_ind), Reduce
  PROVE  Cases(ps'.stack, case_ind')
<1> DEFINE S == ps.stack
           c == case_ind
<1>1. /\ S \in Seq(EntryType) /\ Len(S) \in Nat /\ Len(S) >= 1 /\ ps \in StateType
      /\ Top = S[Len(S)] /\ Under = S[Len(S) - 1] /\ (tos > 0 => Len(S) >= 2)
  BY StackNow DEF Top, Under, tos
<1>2. {"stmtl", "dohead", "ifhead", "stmt"} \subseteq Symbols \ {"swstmt"}
  BY DEF Symbols
<1>3. ASSUME NEW t \in {"stmtl", "dohead", "ifhead", "stmt"}, tos > 0, Top.t = "stmt",
             ps'.stack = SetTop(Pop(S, 1), t), case_ind' = (IF Under.t = "swstmt" THEN Under.cstk ELSE c)
      PROVE  Cases(ps'.stack, case_ind')
  BY <1>1, <1>2, <1>3, PopSetCases
<1>4. CASE ReduceList
  <2>1. tos > 0 /\ Top.t = "stmt" /\ Under.t # "swstmt" /\ ps'.stack = SetTop(Pop(S, 1), "stmtl") /\ case_ind' = c
    BY <1>1, <1>4 DEF ReduceList, Reduces, StateType
  <2>2. QED
    BY <1>3, <2>1
<1>5. CASE ReduceDo
  <2>1. tos > 0 /\ Top.t = "stmt" /\ Under.t # "swstmt" /\ ps'.stack = SetTop(Pop(S, 1), "dohead") /\ case_ind' = c
    BY <1>1, <1>5 DEF ReduceDo, Reduces, StateType
  <2>2. QED
    BY <1>3, <2>1
<1>6. CASE ReduceIf
  <2>1. tos > 0 /\ Top.t = "stmt" /\ Under.t # "swstmt" /\ ps'.stack = SetTop(Pop(S, 1), "ifhead") /\ case_ind' = c
    BY <1>1, <1>6 DEF ReduceIf, Reduces, StateType
  <2>2. QED
    BY <1>3, <2>1
<1>7. CASE ReduceStmt
  <2>1. /\ tos > 0 /\ Top.t = "stmt" /\ ps'.stack = SetTop(Pop(S, 1), "stmt")
        /\ case_ind' = (IF Under.t = "swstmt" THEN Under.cstk ELSE c)
    BY <1>1, <1>7 DEF ReduceStmt, Reduces, StateType
  <2>2. QED
    BY <1>3, <2>1
<1>8. CASE ReduceDoWhile
  <2>1. tos > 0 /\ Top.t = "whilestmt" /\ Under.t = "dohead" /\ ps'.stack = Pop(S, 2) /\ case_ind' = c
    BY <1>1, <1>8 DEF ReduceDoWhile, Reduces, StateType
  <2>2. Len(S) > 2
    <3>1. S[1].t \in {"stmt", "stmtl"}
      BY DEF IInv, Core, Booting, Good, Listed
    <3>2. QED
      BY <1>1, <2>1, <3>1
  <2>3. \A i \in ((Len(S) - 2) + 1)..Len(S) : S[i].t # "swstmt"
    BY <1>1, <2>1, <2>2
  <2>4. QED
    BY <1>1, <2>1, <2>2, <2>3, PopCases
<1>9. CASE ReduceDone
  BY <1>9 DEF ReduceDone
<1>10. QED
  BY <1>4, <1>5, <1>6, <1>7, <1>8, <1>9 DEF Reduce

LEMMA FlushCases ==
  ASSUME IInv, Cases(ps.stack, case_ind), Flush
  PROVE  Cases(ps'.stack, case_ind')
<1>1. /\ ps.stack \in Seq(EntryType) /\ Len(ps.stack) >= 1 /\ ps \in StateType /\ Top = ps.stack[Len(ps.stack)]
  BY StackNow DEF Top
<1>2. ps' = ps \/ (Top.t = "ifhead" /\ ps'.stack = SetTop(ps.stack, "stmt"))
  BY <1>1 DEF Flush, StateType
<1>3. case_ind' = case_ind /\ "stmt" \in Symbols
  BY DEF Flush, Symbols
<1>4. QED
  BY <1>1, <1>2, <1>3, SetCases
-----------------------------------------------------------------------------
(* The invariant.                                                          *)

\* One lemma for each kind of step.
LEMMA ExpandCInv ==
  ASSUME CInv, Expand
  PROVE  CInv'
<1>1. /\ pc = "ready" /\ goal # <<>> /\ Head(goal).t \in Nonterminals /\ UNCHANGED vars
      /\ WellFormed(goal)
  BY DEF Expand, CInv
<1>2. PICK x \in Expansions(Head(goal)) : goal' = x \o Tail(goal)
  <2>1. Shortest(Head(goal)) \subseteq Expansions(Head(goal))
    <3>1. Head(goal).t \in {"List", "Members", "Program"} => <<>> \in Expansions(Head(goal))
      BY Zenon DEF Expansions
    <3>2. QED
      BY <3>1 DEF Shortest
  <2>2. QED
    BY <2>1, Zenon DEF Expand
<1>3. WellFormed(Tail(goal)) /\ Head(goal) = goal[1] /\ goal[1] \in Symbol
  BY <1>1, TailFormed
<1>4. WellFormed(x) /\ (goal[1].t = "Body" => x # <<>> /\ x[1].t \in Begins)
  BY <1>1, <1>3, ExpansionsFormed
<1>5. WellFormed(goal') /\ (x # <<>> => goal' # <<>> /\ goal'[1] = x[1])
  BY <1>2, <1>3, <1>4, JoinFormed
<1>6. IInv' /\ Followed' /\ Cases(ps.stack, case_ind)'
  <2>1. IInv'
    BY <1>1, NextInv DEF CInv
  <2>2. Followed'
    BY <1>1 DEF Followed, vars
  <2>3. QED
    BY <1>1, <2>1, <2>2 DEF CInv, vars
<1>7. SwitchOpen'
  <2>1. goal[1].t \in Begins => goal[1].t = "Body"
    BY <1>1, <1>3 DEF Begins, Nonterminals
  <2>2. pc' = "ready" /\ Top' = Top
    BY <1>1 DEF vars, Top
  <2>3. Top.t \in {"swstmt", "whilestmt"} => goal[1].t = "Body"
    BY <1>1, <2>1 DEF CInv, SwitchOpen
  <2>4. Top'.t \in {"swstmt", "whilestmt"} => goal' # <<>> /\ goal'[1].t \in Begins
    BY <1>4, <1>5, <2>2, <2>3
  <2>5. QED
    BY <2>2, <2>4 DEF SwitchOpen
<1>8. QED
  BY <1>5, <1>6, <1>7 DEF CInv

LEMMA NewlineCInv ==
  ASSUME CInv, Newline
  PROVE  CInv'
<1>1. IInv /\ IInv' /\ pc = "ready" /\ pc' = "ready" /\ ps'.stack = ps.stack /\ UNCHANGED <<case_ind, tk>>
  <2>1. IInv' /\ IInv
    BY LineInv DEF CInv, Newline
  <2>2. QED
    BY <2>1, StackNow DEF Newline, dump_line, Dumped, StateType
<1>2. \/ goal' = goal
      \/ goal # <<>> /\ goal[1].t = "newline" /\ WellFormed(Tail(goal)) /\ goal' = Tail(goal)
  BY TailFormed DEF Newline, CInv
<1>3. WellFormed(goal')
  BY <1>2, Zenon DEF CInv
<1>4. Top' = Top
  BY <1>1 DEF Top
<1>5. Top.t \in {"swstmt", "whilestmt"} => goal' = goal
  BY <1>1, <1>2 DEF CInv, SwitchOpen, Begins
<1>6. SwitchOpen'
  BY <1>1, <1>4, <1>5 DEF CInv, SwitchOpen
<1>7. QED
  BY <1>1, <1>3, <1>6 DEF CInv, Followed

LEMMA TokenCInv ==
  ASSUME CInv, Token
  PROVE  CInv'
<1> DEFINE t == Head(goal).t
<1>1. /\ pc = "ready" /\ goal # <<>> /\ t \notin Nonterminals \cup {"newline"}
      /\ goal' = Tail(goal) /\ case_ind' = case_ind
      /\ pc' = (IF t = "expr" THEN "ready" ELSE "flush")
  BY DEF Token
<1>2. tk' = (CASE t = "kluge" -> "semicolon" [] t = "dowhile" -> "whilestmt" [] t = "expr" -> tk [] OTHER -> t)
  BY DEF Token
<1>3. IInv /\ IInv' /\ ps'.stack = ps.stack
  <2>1. IInv' /\ IInv
    BY TokenInv, Zenon DEF CInv
  <2>2. QED
    BY <2>1, StackNow DEF Token, StateType
<1>4. /\ WellFormed(goal') /\ t = goal[1].t
      /\ t \in Heads => goal' # <<>> /\ goal'[1].t \in {"Body", "semicolon"}
      /\ t = "expr" => goal' # <<>> /\ goal'[1].t = "semicolon"
  BY <1>1, TailFormed DEF CInv
<1>5. Top' = Top
  BY <1>3 DEF Top
<1> HIDE DEF t
<1>6. Followed'
  BY <1>1, <1>2, <1>4 DEF Followed, Heads
<1>7. SwitchOpen'
  <2>1. CASE t = "expr"
    BY <1>1, <1>4, <2>1 DEF SwitchOpen, Begins
  <2>2. CASE t # "expr"
    <3>1. pc' = "flush" /\ (t \in Begins => tk' \in Begins)
      BY <1>1, <1>2, <2>2 DEF Begins
    <3>2. Top.t \in {"swstmt", "whilestmt"} => t \in Begins
      BY <1>1, <1>4 DEF CInv, SwitchOpen
    <3>3. QED
      BY <1>5, <3>1, <3>2 DEF SwitchOpen
  <2>3. QED
    BY <2>1, <2>2
<1>8. QED
  BY <1>1, <1>3, <1>4, <1>6, <1>7 DEF CInv

LEMMA InternalCInv ==
  ASSUME CInv, Internal, UNCHANGED mvars
  PROVE  CInv'
<1>1. IInv /\ IInv' /\ goal' = goal /\ WellFormed(goal)
  BY NextInv DEF CInv, Next, mvars
<1>2. Cases(ps'.stack, case_ind')
  BY ShiftCases, ReduceCases, FlushCases DEF CInv, Internal
<1>3. tk' = tk /\ pc # "ready"
  <2>1. CASE Flush
    BY <2>1, Zenon DEF Flush
  <2>2. CASE Shift
    BY <2>2, Zenon DEF Shift, Decl, Header, Lbrace, While, Elselit, Rbrace, Switch, Semicolon, Shifted
  <2>3. CASE Reduce
    BY <2>3, Zenon DEF Reduce, ReduceList, ReduceDo, ReduceIf, ReduceStmt, ReduceDoWhile, ReduceDone, Reduces, Looks
  <2>4. QED
    BY <2>1, <2>2, <2>3, Zenon DEF Internal
<1>4. Followed'
  BY <1>1, <1>3 DEF CInv, Followed
<1>5. /\ ps.stack \in Seq(EntryType) /\ Len(ps.stack) \in Nat /\ Len(ps.stack) >= 1 /\ ps \in StateType
      /\ Top = ps.stack[Len(ps.stack)] /\ Top' = ps'.stack[Len(ps'.stack)]
  BY <1>1, StackNow DEF Top
<1>6. \A e : Append(ps.stack, e)[Len(Append(ps.stack, e))] = e
  BY <1>5
<1>7. \A t \in {"stmt", "elsehead"} : SetTop(ps.stack, t)[Len(SetTop(ps.stack, t))].t = t
  <2>1. \A t \in Symbols : Len(SetTop(ps.stack, t)) = Len(ps.stack) /\ SetTop(ps.stack, t)[Len(ps.stack)].t = t
    BY <1>5, SetTopLemma
  <2>2. QED
    BY <2>1, Zenon DEF Symbols
<1>8. Len(ps.stack) >= 2 =>
        \A t \in {"stmtl", "dohead", "ifhead", "stmt"} :
          SetTop(Pop(ps.stack, 1), t)[Len(SetTop(Pop(ps.stack, 1), t))].t = t
  <2>1. ASSUME Len(ps.stack) >= 2, NEW t \in Symbols
        PROVE  /\ Len(SetTop(Pop(ps.stack, 1), t)) = Len(ps.stack) - 1
               /\ SetTop(Pop(ps.stack, 1), t)[Len(ps.stack) - 1].t = t
    BY <1>5, <2>1, PopSetLemma
  <2>2. QED
    BY <2>1, Zenon DEF Symbols
<1>9. SwitchOpen'
  <2>1. CASE Flush
    <3>1. CASE Top.t = "ifhead" /\ tk # "elselit"
      <4>1. ps'.stack = SetTop(ps.stack, "stmt")
        BY <1>5, <2>1, <3>1 DEF Flush, StateType
      <4>2. Top'.t = "stmt"
        BY <1>5, <1>7, <4>1, Zenon
      <4>3. QED
        BY <4>2 DEF SwitchOpen
    <3>2. CASE ~(Top.t = "ifhead" /\ tk # "elselit")
      BY <1>3, <2>1, <3>2 DEF Flush, CInv, SwitchOpen, Top
    <3>3. QED
      BY <3>1, <3>2
  <2>2. CASE Shift
    <3>1. pc' \in {"reduce", "overflow"} /\ back' = "ready"
      BY <2>2, Zenon DEF Shift, Decl, Header, Lbrace, While, Elselit, Rbrace, Switch, Semicolon, Shifted
    <3>2. Top'.t \in {"swstmt", "whilestmt"} => tk \in {"swstmt", "whilestmt"}
      <4>1. CASE Decl
        BY <1>5, <1>6, <4>1 DEF Decl, Shifted, StateType, Entry
      <4>2. CASE Header
        <5>1. PICK q \in {ps, [ps EXCEPT !.stack = Pop(@, 1), !.i_l_follow = Top.il]} : ps' = Headed(q)
          BY <4>2, Zenon DEF Header, Shifted
        <5>2. DOMAIN q = DOMAIN ps /\ "stack" \in DOMAIN ps /\ (q.stack = ps.stack \/ q.stack = Pop(ps.stack, 1))
          BY <1>5, Zenon DEF StateType
        <5>3. Pop(ps.stack, 1) \in Seq(EntryType)
          BY <1>5 DEF Pop
        <5>4. ps'.stack = Append(q.stack, Entry(tk, q.i_l_follow, 0))
          BY <5>1, <5>2 DEF Headed
        <5>5. \A s \in Seq(EntryType) : \A e : Append(s, e)[Len(Append(s, e))] = e
          OBVIOUS
        <5>6. Top' = Entry(tk, q.i_l_follow, 0)
          BY <1>5, <5>2, <5>3, <5>4, <5>5, Zenon
        <5>7. Top'.t = tk
          BY <5>6 DEF Entry
        <5>8. QED
          BY <5>7
      <4>3. CASE Lbrace
        BY <1>5, <1>6, <4>3 DEF Lbrace, Shifted, Entry
      <4>4. CASE Elselit
        <5>1. Top.t \notin {"swstmt", "whilestmt"}
          BY <4>4 DEF Elselit, Shifted, CInv, SwitchOpen, Begins
        <5>2. ps' = ps \/ ps'.stack = SetTop(ps.stack, "elsehead")
          BY <4>4 DEF Elselit, Shifted
        <5>3. QED
          BY <1>5, <1>7, <5>1, <5>2
      <4>5. CASE Rbrace
        <5>1. Top.t \notin {"swstmt", "whilestmt"}
          BY <4>5 DEF Rbrace, Shifted, CInv, SwitchOpen, Begins
        <5>2. ps' = ps \/ (Len(ps.stack) >= 2 /\ ps'.stack = SetTop(Pop(ps.stack, 1), "stmt"))
          BY <1>5, <4>5 DEF Rbrace, Shifted, Closes, tos
        <5>3. QED
          BY <1>5, <1>8, <5>1, <5>2
      <4>6. CASE While \/ Switch
        BY <4>6, Zenon DEF While, Switch
      <4>7. CASE Semicolon
        BY <1>5, <1>6, <4>7 DEF Semicolon, Shifted, StateType, Entry
      <4>8. QED
        BY <2>2, <4>1, <4>2, <4>3, <4>4, <4>5, <4>6, <4>7 DEF Shift
    <3>3. QED
      BY <1>3, <3>1, <3>2 DEF SwitchOpen
  <2>3. CASE ReduceDone
    BY <1>1, <1>3, <2>3 DEF ReduceDone, CInv, SwitchOpen, Followed, Begins, Top
  <2>4. CASE ReduceDoWhile
    BY <1>3, <2>4 DEF ReduceDoWhile, Looks, Reduces, CInv, SwitchOpen
  <2>5. CASE ReduceList \/ ReduceDo \/ ReduceIf \/ ReduceStmt
    <3>1. /\ tos > 0 /\ \E t \in {"stmtl", "dohead", "ifhead", "stmt"} : ps'.stack = SetTop(Pop(ps.stack, 1), t)
      BY <1>5, <2>5, Zenon DEF ReduceList, ReduceDo, ReduceIf, ReduceStmt, Reduces, StateType
    <3>2. Len(ps.stack) >= 2
      BY <1>5, <3>1 DEF tos
    <3>3. Top'.t \in {"stmtl", "dohead", "ifhead", "stmt"}
      BY <1>5, <1>8, <3>1, <3>2
    <3>4. QED
      BY <3>3 DEF SwitchOpen
  <2>6. QED
    BY <2>1, <2>2, <2>3, <2>4, <2>5 DEF Internal, Reduce
<1>10. QED
  BY <1>1, <1>2, <1>4, <1>9 DEF CInv

LEMMA InitCInv ==
  ASSUME PInit
  PROVE  CInv
<1>1. IInv
  BY InitInv DEF PInit
<1>2. WellFormed(goal)
  <2>1. Sym("Program", 0) \in Symbol /\ Sym("Program", 0).t = "Program"
    BY SymType DEF Names, Nonterminals
  <2>2. QED
    BY <2>1, OneFormed DEF PInit, Ends, Heads
<1>3. tk = "semicolon" /\ ps.stack = <<Entry("stmt", 0, 0)>>
  BY DEF PInit, Init
<1>4. Len(ps.stack) = 1 /\ ps.stack[1].t = "stmt" /\ Top.t = "stmt"
  BY <1>3 DEF Top, Entry
<1>5. Cases(ps.stack, case_ind)
  BY <1>4 DEF Cases, LabelsAt
<1>6. Followed /\ SwitchOpen
  BY <1>3, <1>4 DEF Followed, SwitchOpen
<1>7. QED
  BY <1>1, <1>2, <1>5, <1>6 DEF CInv

LEMMA NextCInv ==
  ASSUME CInv, [PNext]_pvars
  PROVE  CInv'
<1>1. CASE Expand
  BY <1>1, ExpandCInv
<1>2. CASE Newline
  BY <1>2, NewlineCInv
<1>3. CASE Token
  BY <1>3, TokenCInv
<1>4. CASE Internal /\ UNCHANGED mvars
  BY <1>4, InternalCInv
<1>5. CASE UNCHANGED pvars
  <2>1. IInv'
    BY <1>5, NextInv DEF CInv, pvars
  <2>2. QED
    BY <1>5, <2>1 DEF CInv, pvars, vars, mvars, Followed, SwitchOpen, Top
<1>6. QED
  BY <1>1, <1>2, <1>3, <1>4, <1>5 DEF PNext

LEMMA CInvariance == PSpec => []CInv
<1>1. PInit => CInv
  BY InitCInv
<1>2. CInv /\ [PNext]_pvars => CInv'
  BY NextCInv
<1>3. QED
  BY <1>1, <1>2, PTL DEF PSpec

\* Case labels are put CaseIndent levels in from the innermost open switch, also
\* after the switches inside it have ended, whatever well-formed program is read.
THEOREM CaseLabelsHold == PSpec => []CaseLabels
<1>1. CInv => CaseLabels
  <2> SUFFICES ASSUME CInv, Switches # {} PROVE case_ind = ps.stack[Innermost(Switches)].il + CaseIndent
    BY DEF CaseLabels
  <2> DEFINE n == Len(ps.stack)
             i == Innermost(Switches)
  <2>1. ps.stack \in Seq(EntryType) /\ n \in Nat /\ n \in Int
    BY StackNow DEF CInv
  <2>2. Switches \in SUBSET (1..n)
    BY <2>1 DEF Switches
  <2>3. i \in Switches /\ \A j \in Switches : j <= i
    BY <2>1, <2>2, InnermostLemma, Zenon
  <2>4. i \in 1..n /\ ps.stack[i].t = "swstmt"
    BY <2>1, <2>3 DEF Switches
  <2>5. ASSUME NEW j \in (i + 1)..n PROVE ps.stack[j].t # "swstmt"
    <3>1. j \in 1..n /\ ~(j <= i) /\ 1..n = DOMAIN ps.stack
      BY <2>1, <2>4
    <3>2. QED
      BY <2>3, <3>1 DEF Switches
  <2> HIDE DEF i
  <2>6. QED
    BY <2>4, <2>5 DEF CInv, Cases, LabelsAt, i
<1>2. QED
  BY <1>1, CInvariance, PTL
=============================================================================
