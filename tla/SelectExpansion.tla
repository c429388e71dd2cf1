-------------------------- MODULE SelectExpansion --------------------------
(***************************************************************************)
(* The expansion of the Select_GPR_Using_CC_GPR pseudo instruction into a  *)
(* triangle of blocks: emitSelectPseudo of TOYRISCVISelLowering.cpp,       *)
(* driven by LLVM's FinalizeISel pass, which walks the function and hands  *)
(* every instruction with a custom inserter to the target.                 *)
(*                                                                         *)
(*     Head ---+        Head     ends in a branch to Tail when CC holds    *)
(*      |      |        IfFalse  is empty and falls through                *)
(*   IfFalse   |        Tail     merges with one phi per select, then the  *)
(*      |      |                 rest of Head's old code                   *)
(*     Tail <--+                                                           *)
(*                                                                         *)
(* A sequence of selects on the same condition shares one triangle.        *)
(***************************************************************************)
EXTENDS MachineFunction

CONSTANT Functions   \* the functions the pass may be given

\* The machine verifier has nothing against them.
ASSUME FunctionsAssumption ==
  \A f \in Functions :
    /\ WellFormed(f) /\ SuccessorsMatch(f) /\ PhisMatch(f)
    /\ DefinedOnce(f) /\ UsesDominated(f)

VARIABLES
  original,  \* the function before the pass (history)
  fn,        \* the function, as a record [order, body, succs]
  mbb,       \* FinalizeISel: the block being walked, 0 when the pass is over
  pos        \* FinalizeISel: the next instruction of it

vars == <<original, fn, mbb, pos>>

----------------------------------------------------------------------------
(* The sequence of selects that starts at instruction i of `code`.         *)

\* SelectDests when the scan arrives at instruction q.
SelectDests(code, i, q) ==
  {code[k].def : k \in {i} \cup {j \in i .. q - 1 : IsSelect(code[j])}}

\* Mutant of Stops: only selects are asked whether they read an earlier result.
StopsOnSelectsOnly(code, i, q) ==
  LET m == code[q]
      dests == SelectDests(code, i, q)
  IN  \/ /\ IsSelect(m)
         /\ \/ m.args[1] # code[i].args[1]
            \/ m.args[2] # code[i].args[2]
            \/ m.attr # code[i].attr
            \/ {m.args[3], m.args[4]} \cap dests # {}
      \/ m.kind \in {"effect", "mem"}

\* Mutant of Stops: debug values end the sequence.
StopsOnDebugValues(code, i, q) ==
  LET m == code[q]
      dests == SelectDests(code, i, q)
  IN  \/ /\ IsSelect(m)
         /\ \/ m.args[1] # code[i].args[1]
            \/ m.args[2] # code[i].args[2]
            \/ m.attr # code[i].attr
            \/ {m.args[3], m.args[4]} \cap dests # {}
      \/ /\ ~IsSelect(m)
         /\ \/ m.kind \in {"effect", "mem", "debug"}
            \/ Range(m.args) \cap dests # {}

\* The scan stops at instruction q.
Stops(code, i, q) ==
  LET m == code[q]
      dests == SelectDests(code, i, q)
  IN  \/ /\ IsSelect(m)
         /\ \/ m.args[1] # code[i].args[1]
            \/ m.args[2] # code[i].args[2]
            \/ m.attr # code[i].attr
            \/ {m.args[3], m.args[4]} \cap dests # {}
      \/ /\ ~IsSelect(m) /\ ~IsDebug(m)
         /\ \/ m.kind \in {"effect", "mem"}
            \/ Range(m.args) \cap dests # {}

\* LastSelectPseudo.
LastSelect(code, i) ==
  CHOOSE p \in i .. Len(code) :
    /\ IsSelect(code[p]) /\ \A q \in i .. p : ~Stops(code, i, q)
    /\ \A p2 \in p + 1 .. Len(code) :
         IsSelect(code[p2]) => \E q \in i .. p2 : Stops(code, i, q)

\* MachineInstr::collectDebugValues of the select at k: in the run of debug
\* values right behind it, the ones that mention its destination.
CollectDebugValues(code, k) ==
  {d \in k + 1 .. Len(code) : /\ \A j \in k + 1 .. d : IsDebug(code[j])
                              /\ code[k].def \in Range(code[d].args)}

\* Mutant of SelectDebugValues: they are collected when the scan is over.
SelectDebugValuesOfLast(code, i, last) == CollectDebugValues(code, last)

\* SelectDebugValues, as positions.
SelectDebugValues(code, i, last) ==
  UNION {CollectDebugValues(code, k) : k \in {j \in i .. last : IsSelect(code[j])}}

\* The instructions of `code` at the given positions, in order.
Pick(code, positions) ==
  [k \in 1 .. Cardinality(positions) |->
     code[CHOOSE p \in positions : Cardinality({q \in positions : q <= p}) = k]]

\* TII.getBrCond.
GetBrCond ==
  [COND_EQ |-> "BEQ", COND_NE |-> "BNE", COND_LT |-> "BLT", COND_GE |-> "BGE",
   COND_LTU |-> "BLTU", COND_GEU |-> "BGEU"]

\* Mutant of ReplacePhiUse: the phis of Head's successors are left alone.
ReplaceNoPhiUse(m, old, new) == m

\* MachineBasicBlock::replacePhiUsesWith on one instruction.
ReplacePhiUse(m, old, new) ==
  IF m.kind # "phi" THEN m
  ELSE [m EXCEPT !.blocks = [k \in DOMAIN @ |-> IF @[k] = old THEN new ELSE @[k]]]

----------------------------------------------------------------------------
\* What stays in Head: the code up to the last select, without the selects of
\* the sequence and their debug values; then the branch around IfFalse.
HeadCode(code, i, last, tail) ==
  LET gone == {k \in i .. last : IsSelect(code[k])} \cup SelectDebugValues(code, i, last)
      m == code[i]
  IN  Append(Pick(code, (1 .. last) \ gone),
             Branch(GetBrCond[m.attr], m.args[1], m.args[2], tail))

\* Mutant of TailCode: the phis take the values from the wrong sides.
TailCodeCrossed(code, i, last, head, ifFalse) ==
  LET selects == Pick(code, {k \in i .. last : IsSelect(code[k])})
      debugs  == SelectDebugValues(code, i, last)
      phi(s)  == Phi(s.def, <<s.args[3], s.args[4]>>, <<ifFalse, head>>)
  IN  [k \in DOMAIN selects |-> phi(selects[k])]
        \o Pick(code, debugs) \o Pick(code, (last + 1 .. Len(code)) \ debugs)

\* What Tail gets: the phis, all debug values collected, then the code behind.
TailCode(code, i, last, head, ifFalse) ==
  LET selects == Pick(code, {k \in i .. last : IsSelect(code[k])})
      debugs  == SelectDebugValues(code, i, last)
      phi(s)  == Phi(s.def, <<s.args[3], s.args[4]>>, <<head, ifFalse>>)
  IN  [k \in DOMAIN selects |-> phi(selects[k])]
        \o Pick(code, debugs) \o Pick(code, (last + 1 .. Len(code)) \ debugs)

\* Mutant of InsertBlocks: IfFalse is created but never inserted.
InsertTailOnly(order, head, ifFalse, tail) ==
  LET k == SelectInSeq(order, LAMBDA b : b = head)
  IN  SubSeq(order, 1, k) \o <<tail>> \o SubSeq(order, k + 1, Len(order))

\* Mutant of InsertBlocks: Tail in front of IfFalse.
InsertTailFirst(order, head, ifFalse, tail) ==
  LET k == SelectInSeq(order, LAMBDA b : b = head)
  IN  SubSeq(order, 1, k) \o <<tail, ifFalse>> \o SubSeq(order, k + 1, Len(order))

\* The layout with IfFalse and Tail inserted right behind Head.
InsertBlocks(order, head, ifFalse, tail) ==
  LET k == SelectInSeq(order, LAMBDA b : b = head)
  IN  SubSeq(order, 1, k) \o <<ifFalse, tail>> \o SubSeq(order, k + 1, Len(order))

\* The function after the select at instruction i of block head is expanded.
EmitSelectPseudo(f, head, i, tail, ifFalse) ==
  LET code == f.body[head]
      last == LastSelect(code, i)
      rephi(b, instrs) ==
        IF b \notin f.succs[head] THEN instrs
        ELSE [k \in DOMAIN instrs |-> ReplacePhiUse(instrs[k], head, tail)]
  IN  [order |-> InsertBlocks(f.order, head, ifFalse, tail),
       body  |-> [b \in DOMAIN f.body \cup {ifFalse, tail} |->
                    CASE b = head -> rephi(b, HeadCode(code, i, last, tail))
                      [] b = tail -> TailCode(code, i, last, head, ifFalse)
                      [] b = ifFalse -> <<>>
                      [] OTHER -> rephi(b, f.body[b])],
       succs |-> [b \in DOMAIN f.succs \cup {ifFalse, tail} |->
                    CASE b = head -> {ifFalse, tail}
                      [] b = tail -> f.succs[head]
                      [] b = ifFalse -> {tail}
                      [] OTHER -> f.succs[b]]]

----------------------------------------------------------------------------
Init ==
  /\ original \in Functions
  /\ fn = original
  /\ mbb = original.order[1]
  /\ pos = 1

Code == fn.body[mbb]

\* Mutant of ExpandSelect: the walk resumes behind Tail's code.
ExpandAndSkipTail ==
  /\ mbb # 0 /\ pos <= Len(Code) /\ IsSelect(Code[pos])
  /\ LET tail    == Len(fn.order) + 1
         ifFalse == Len(fn.order) + 2
     IN  /\ fn' = EmitSelectPseudo(fn, mbb, pos, tail, ifFalse)
         /\ mbb' = tail
         /\ pos' = Len(fn'.body[tail]) + 1
  /\ UNCHANGED original

\* FinalizeISel meets a select: EmitInstrWithCustomInserter replaces it, and the
\* walk goes on at the start of the returned block, Tail.
ExpandSelect ==
  /\ mbb # 0 /\ pos <= Len(Code) /\ IsSelect(Code[pos])
  /\ LET tail    == Len(fn.order) + 1
         ifFalse == Len(fn.order) + 2
     IN  /\ fn' = EmitSelectPseudo(fn, mbb, pos, tail, ifFalse)
         /\ mbb' = tail
  /\ pos' = 1
  /\ UNCHANGED original

\* Mutant of StepOver: the walk starts the block again.
StepBack ==
  /\ mbb # 0 /\ pos <= Len(Code) /\ ~IsSelect(Code[pos])
  /\ pos' = 1
  /\ UNCHANGED <<original, fn, mbb>>

\* FinalizeISel steps over an instruction without a custom inserter.
StepOver ==
  /\ mbb # 0 /\ pos <= Len(Code) /\ ~IsSelect(Code[pos])
  /\ pos' = pos + 1
  /\ UNCHANGED <<original, fn, mbb>>

\* The end of a block: the next one of the layout, or the end of the pass.
NextBlock ==
  /\ mbb # 0 /\ pos > Len(Code)
  /\ mbb' = IF NextInLayout(fn, mbb) = {} THEN 0
            ELSE CHOOSE b \in NextInLayout(fn, mbb) : TRUE
  /\ pos' = 1
  /\ UNCHANGED <<original, fn>>

\* The pass has returned.
Terminated == mbb = 0 /\ UNCHANGED vars

Next == ExpandSelect \/ StepOver \/ NextBlock \/ Terminated

\* The pass is a loop of one thread: it takes its next step.
Spec == Init /\ [][Next]_vars /\ WF_vars(ExpandSelect \/ StepOver \/ NextBlock)

----------------------------------------------------------------------------
(* Properties.                                                             *)

Done == mbb = 0

\* The blocks are exactly the ones created, every one is in the layout once,
\* instructions are well formed and name blocks that exist, and the walk is at one.
TypeOK ==
  /\ WellFormed(fn) /\ mbb \in Blocks(fn) \cup {0}
  /\ pos \in 1 .. (IF mbb = 0 THEN 1 ELSE Len(Code) + 1)

\* Every register has one definition, on every path to each instruction that reads it
\* and, when a phi does, on every path to the end of its incoming block: moving the
\* code between the selects ahead of the branch, and the code behind them below
\* the phis, never separates a use from its definition.
DefsDominateUses == DefinedOnce(fn) /\ UsesDominated(fn)

\* The phis of a block stand at its start and name each predecessor exactly
\* once, also in a block that was its own predecessor when it was split.
PhisMatchPreds == PhisMatch(fn)

\* The successors the CFG records are the blocks the terminators and the layout
\* lead to: the triangle's fall-through edges are really laid out so, and no
\* instruction is left behind a terminator.
SuccessorsAreControlTargets == SuccessorsMatch(fn)

\* At every point of the pass the function computes what the original computes:
\* whatever the compared registers hold, control leaves to the same block, every
\* register of the original gets the same value and memory is accessed in the
\* same order with the same operands.
MeaningPreserved ==
  \A holds \in SUBSET Tests(original) :
    LET was == Outcome(original, holds)
        is  == Outcome(fn, holds)
    IN  /\ is.at = was.at /\ is.mem = was.mem
        /\ \A r \in DOMAIN was.env : Value(is.env, r) = was.env[r]

\* Instruction q may stand between selects that share a triangle: it is a debug value,
\* or a select on the same condition or pure code, and reads no result of the selects
\* from i on.
MayInterleave(code, i, q) ==
  \/ IsDebug(code[q])
  \/ /\ \/ code[q].kind = "pure"
        \/ /\ IsSelect(code[q]) /\ code[q].attr = code[i].attr
           /\ SubSeq(code[q].args, 1, 2) = SubSeq(code[i].args, 1, 2)
     /\ \A k \in i .. q - 1 : IsSelect(code[k]) => code[k].def \notin Range(code[q].args)

\* "The selects may be interleaved with other instructions if the other instructions
\* meet some requirements": selects with no others between share a triangle, in that
\* all become phis of the same Tail.
SharesTriangle ==
  [][fn' # fn => \A p \in pos .. Len(Code) :
       IsSelect(Code[p]) /\ (\A q \in pos + 1 .. p : MayInterleave(Code, pos, q))
       => Code[p].def \in {m.def : m \in {n \in Range(fn'.body[mbb']) : n.kind = "phi"}}]_vars

\* The walk restarts in the block each expansion returns; it still ends, and leaves
\* no select behind.
AllExpanded ==
  <>(Done /\ \A b \in Blocks(fn) : \A m \in Range(fn.body[b]) : ~IsSelect(m))

\* The debug values of variable x at and behind instruction i.
DebugValuesOf(code, i, x) == {d \in i .. Len(code) : IsDebug(code[d]) /\ code[d].attr = x}

\* Debug value d shows the result of the select at k, with only debug values between.
FollowsSelect(code, k, d) ==
  /\ IsSelect(code[k]) /\ k < d /\ code[d].args[1] = code[k].def
  /\ \A j \in k + 1 .. d : IsDebug(code[j])

\* The sequence from select i on keeps the debug values of x in order: those that follow
\* a select of it, and move, stand in one piece around its last select, and those ahead
\* of them, which stay in Head, show none of its results.
InOrder(code, i, x) ==
  LET last == LastSelect(code, i)
  IN  \E a \in i .. last, b \in last .. Len(code) :
        \A d \in DebugValuesOf(code, i, x) :
          /\ (a < d /\ d <= b) <=> (\E k \in i .. last : FollowsSelect(code, k, d))
          /\ d <= a => code[d].args[1] \notin SelectDests(code, i, d)

\* The variables of the original whose debug values are in order in this sense.
VariablesInOrder ==
  {x \in {m.attr : m \in {n \in UNION {Range(original.body[b]) : b \in Blocks(original)} :
                           IsDebug(n)}} :
     \A b \in Blocks(original) : \A i \in DOMAIN original.body[b] :
       IsSelect(original.body[b][i]) => InOrder(original.body[b], i, x)}

\* A debugger is shown the values of the original, in the same order, of each
\* variable with debug values in order, however many it has and however many
\* expansions move them.
DebugValuesFollow ==
  VariablesInOrder # {} =>
    \A holds \in SUBSET Tests(original) :
      LET was == Outcome(original, holds)
          is  == Outcome(fn, holds)
      IN  \A x \in VariablesInOrder : ShownOf(is, x) = ShownOf(was, x)
============================================================================
