------------------------- MODULE CondLowering_proof -------------------------
(***************************************************************************)
(* For every word width: the lowering of conditional nodes never gets      *)
(* stuck on a branch or a select, and keeps what the node computes.        *)
(***************************************************************************)
EXTENDS CondLowering, TLAPS

\* Words wrap to themselves, and a step of one up and down cancels out, also
\* across the end of the range.
LEMMA WrapWord ==
  ASSUME NEW x \in Word
  PROVE  /\ Wrap(x) = x
         /\ Wrap(1 + Wrap(x - 1)) = x
         /\ Wrap(Wrap(x + 1) - 1) = x
<1>1. Wrap(x) = x /\ Wrap(2 * Half) = 0 /\ Wrap(0 - 1) = 2 * Half - 1
  BY HalfAssumption, SMTT(20) DEF Word, Wrap
<1>2. Wrap(1 + Wrap(x - 1)) = x
  <2>1. CASE x = 0
    <3>1. Wrap(x - 1) = 2 * Half - 1  BY <1>1, <2>1 DEF Word
    <3>2. 1 + (2 * Half - 1) = 2 * Half  BY HalfAssumption
    <3> QED BY <1>1, <2>1, <3>1, <3>2
  <2>2. CASE x # 0
    <3>1. x - 1 \in Word /\ 1 + (x - 1) = x  BY <2>2, HalfAssumption DEF Word
    <3>2. Wrap(x - 1) = x - 1  BY <3>1, HalfAssumption, SMTT(20) DEF Word, Wrap
    <3> QED BY <1>1, <3>1, <3>2
  <2> QED BY <2>1, <2>2
<1>3. Wrap(Wrap(x + 1) - 1) = x
  <2>1. CASE x = 2 * Half - 1
    <3>1. x + 1 = 2 * Half  BY <2>1, HalfAssumption
    <3> QED BY <1>1, <2>1, <3>1
  <2>2. CASE x # 2 * Half - 1
    <3>1. x + 1 \in Word /\ (x + 1) - 1 = x  BY <2>2, HalfAssumption DEF Word
    <3>2. Wrap(x + 1) = x + 1  BY <3>1, HalfAssumption, SMTT(20) DEF Word, Wrap
    <3> QED BY <1>1, <3>1, <3>2
  <2> QED BY <2>1, <2>2
<1> QED BY <1>1, <1>2, <1>3

\* The comparison a lowered node makes is one the branches support, it has the
\* outcome of the condition it stands for, and the payload is left alone.
LEMMA LowerConditionCorrect ==
  ASSUME NEW n \in Node, n.cc \in SetCC \cup {"NONZERO"}, NEW op \in DagOp
  PROVE  LET m == LowerCondition(n, op)
         IN  /\ m \in Node /\ m.op = op /\ m.t = n.t /\ m.f = n.f
             /\ m.cc \in BranchableCC
             /\ Test(m.cc, m.lhs.val, m.rhs.val) <=> Test(n.cc, n.lhs.val, n.rhs.val)
<1> DEFINE m == LowerCondition(n, op)
<1> USE HalfAssumption
<1>1. /\ n.lhs \in Operand /\ n.rhs \in Operand /\ n.t \in Operand /\ n.f \in Operand
      /\ n.lhs.val \in Word /\ n.rhs.val \in Word
      /\ Const(0) \in Operand /\ Const(0).val = 0 /\ 0 \in Word
      /\ \A x \in Word : x \in Int /\ Signed(x) \in Int
  BY DEF Node, Operand, Const, Word, Signed
<1>2. ASSUME NEW x \in Operand, NEW y \in Operand, NEW cc \in BranchableCC,
             Test(cc, x.val, y.val) <=> Test(n.cc, n.lhs.val, n.rhs.val),
             m = Compare(n, op, x, cc, y)
      PROVE  /\ m \in Node /\ m.op = op /\ m.t = n.t /\ m.f = n.f
             /\ m.cc \in BranchableCC
             /\ Test(m.cc, m.lhs.val, m.rhs.val) <=> Test(n.cc, n.lhs.val, n.rhs.val)
  <2>1. /\ m.op = op /\ m.lhs = x /\ m.rhs = y /\ m.cc = cc /\ m.t = n.t /\ m.f = n.f
    BY <1>2 DEF Compare
  <2>2. m \in Node
    BY <1>1, <1>2 DEF Compare, Node, BranchableCC, SetCC
  <2> QED BY <1>2, <2>1, <2>2
<1>3. CASE n.cc = "NONZERO"
  <2>1. m = Compare(n, op, n.lhs, "SETNE", Const(0))
    BY <1>3 DEF LowerCondition, CondIsSetCC
  <2>2. Test("SETNE", n.lhs.val, Const(0).val) <=> Test(n.cc, n.lhs.val, n.rhs.val)
    BY <1>1, <1>3 DEF Test
  <2> QED BY <1>1, <1>2, <2>1, <2>2 DEF BranchableCC
<1>4. CASE n.cc = "SETGT" /\ IsConst(n.rhs, 2 * Half - 1)
  <2>1. m = Compare(n, op, n.lhs, "SETGE", Const(0))
    BY <1>4 DEF LowerCondition, CondIsSetCC, TranslateSetCCForBranch
  <2>2. (Signed(n.lhs.val) >= Signed(0)) <=> (Signed(n.lhs.val) > Signed(n.rhs.val))
    BY <1>1, <1>4 DEF Signed, IsConst, Word
  <2>3. Test("SETGE", n.lhs.val, Const(0).val) <=> Test(n.cc, n.lhs.val, n.rhs.val)
    BY <1>1, <1>4, <2>2 DEF Test
  <2> QED BY <1>1, <1>2, <2>1, <2>3 DEF BranchableCC
<1>5. CASE n.cc = "SETLT" /\ IsConst(n.rhs, 1)
  <2>1. m = Compare(n, op, Const(0), "SETGE", n.lhs)
    BY <1>5 DEF LowerCondition, CondIsSetCC, TranslateSetCCForBranch
  <2>2. (Signed(0) >= Signed(n.lhs.val)) <=> (Signed(n.lhs.val) < Signed(n.rhs.val))
    BY <1>1, <1>5 DEF Signed, IsConst, Word
  <2>3. Test("SETGE", Const(0).val, n.lhs.val) <=> Test(n.cc, n.lhs.val, n.rhs.val)
    BY <1>1, <1>5, <2>2 DEF Test
  <2> QED BY <1>1, <1>2, <2>1, <2>3 DEF BranchableCC
<1>6. CASE /\ n.cc \in DOMAIN SwappedOperands
           /\ ~(n.cc = "SETGT" /\ IsConst(n.rhs, 2 * Half - 1))
  <2>1. n.cc \in {"SETGT", "SETLE", "SETUGT", "SETULE"}
    BY <1>6 DEF SwappedOperands
  <2>2. m = Compare(n, op, n.rhs, SwappedOperands[n.cc], n.lhs)
    BY <1>6, <2>1 DEF LowerCondition, CondIsSetCC, TranslateSetCCForBranch
  <2>3. /\ SwappedOperands[n.cc] \in BranchableCC
        /\ Test(SwappedOperands[n.cc], n.rhs.val, n.lhs.val)
             <=> Test(n.cc, n.lhs.val, n.rhs.val)
    <3>1. CASE n.cc = "SETGT"
      BY <1>1, <3>1 DEF Test, SwappedOperands, BranchableCC
    <3>2. CASE n.cc = "SETLE"
      BY <1>1, <3>2 DEF Test, SwappedOperands, BranchableCC
    <3>3. CASE n.cc = "SETUGT"
      BY <1>1, <3>3 DEF Test, SwappedOperands, BranchableCC
    <3>4. CASE n.cc = "SETULE"
      BY <1>1, <3>4 DEF Test, SwappedOperands, BranchableCC
    <3> QED BY <2>1, <3>1, <3>2, <3>3, <3>4
  <2> QED BY <1>1, <1>2, <2>2, <2>3
<1>7. CASE /\ n.cc \in SetCC /\ n.cc \notin DOMAIN SwappedOperands
           /\ ~(n.cc = "SETLT" /\ IsConst(n.rhs, 1))
  <2>1. n.cc \in BranchableCC
    BY <1>7 DEF SwappedOperands, SetCC, BranchableCC
  <2>2. m = Compare(n, op, n.lhs, n.cc, n.rhs)
    BY <1>7, <2>1 DEF LowerCondition, CondIsSetCC, TranslateSetCCForBranch, As, BranchableCC,
                      SwappedOperands
  <2> QED BY <1>1, <1>2, <2>1, <2>2
<1> QED BY <1>3, <1>4, <1>5, <1>6, <1>7 DEF SetCC, SwappedOperands

----------------------------------------------------------------------------
(* The inductive invariant.  A node that has not been lowered is still the *)
(* source node: without that, a failed selection says nothing of src.      *)

NotLoweredYet == node.op \in SourceOp => node = src

IInv == TypeOK /\ NotLoweredYet /\ BranchesAndSelectsSelectable /\ ResultPreserved

LEMMA InitIInv == Init => IInv
<1> SUFFICES ASSUME Init PROVE IInv  OBVIOUS
<1>1. src \in Source /\ node = src  BY DEF Init
<1>2. node \in Node /\ node.op \in SourceOp /\ node.cc \in SetCC \cup {"NONZERO"}
      /\ (node.cc = "NONZERO" => node.op # "SETCC")
  BY <1>1 DEF Source, CondIsSetCC
<1>3. TypeOK
  BY <1>1, <1>2 DEF TypeOK, SourceOp, SetCC, RiscvCC, BranchOpcode
<1>4. BranchesAndSelectsSelectable
  BY <1>2 DEF BranchesAndSelectsSelectable, SourceOp
<1> QED BY <1>1, <1>3, <1>4 DEF IInv, NotLoweredYet, ResultPreserved

\* A step that renames the operation and the condition code, keeps the outcome
\* of the test and the way the result depends on it, keeps the result.
LEMMA ResultOfAs ==
  ASSUME NEW n \in Node, NEW op, NEW cc,
         \/ n.op = "BR_CC" /\ op = "branch"
         \/ n.op = "SETCC" /\ op = "slt"
         \/ n.op = "SELECT_CC" /\ op = "Select_GPR"
         \/ n.op = "Select_GPR" /\ op = "triangle"
         \/ n.op = "ADD" /\ op = "slt_add"
         \/ n.op = "SUB" /\ op = "slt_sub",
         Test(cc, n.lhs.val, n.rhs.val) <=> Test(n.cc, n.lhs.val, n.rhs.val)
  PROVE  Result(As(n, op, cc)) = Result(n)
<1> DEFINE m == As(n, op, cc)
<1>1. /\ m.op = op /\ m.t = n.t /\ m.f = n.f
      /\ Test(m.cc, m.lhs.val, m.rhs.val) <=> Test(n.cc, n.lhs.val, n.rhs.val)
  BY DEF As, Compare
<1>2. Bit(Test(m.cc, m.lhs.val, m.rhs.val)) = Bit(Test(n.cc, n.lhs.val, n.rhs.val))
  BY <1>1 DEF Bit
<1> SUFFICES Result(m) = Result(n)  OBVIOUS
<1> HIDE DEF m
<1>3. CASE op \in {"branch", "slt"}
  BY <1>1, <1>2, <1>3 DEF Result
<1>4. CASE op \in {"Select_GPR", "triangle"}
  BY <1>1, <1>4 DEF Result
<1>5. CASE op = "slt_add"
  BY <1>1, <1>2, <1>5 DEF Result
<1>6. CASE op = "slt_sub"
  BY <1>1, <1>2, <1>6 DEF Result
<1> QED BY <1>3, <1>4, <1>5, <1>6

----------------------------------------------------------------------------
(* One lemma per action.                                                   *)

LEMMA LowerBRCONDStep == IInv /\ LowerBRCOND => IInv'
<1> SUFFICES ASSUME IInv, LowerBRCOND PROVE IInv'  OBVIOUS
<1>1. /\ node \in Node /\ node.op = "BRCOND" /\ node = src /\ src \in Source
      /\ node.cc \in SetCC \cup {"NONZERO"} /\ src' = src
      /\ node' = LowerCondition(node, "BR_CC")
  BY DEF IInv, TypeOK, NotLoweredYet, LowerBRCOND, SourceOp, Source
<1>2. /\ node' \in Node /\ node'.op = "BR_CC" /\ node'.cc \in BranchableCC
      /\ Test(node'.cc, node'.lhs.val, node'.rhs.val)
           <=> Test(node.cc, node.lhs.val, node.rhs.val)
  BY <1>1, LowerConditionCorrect DEF DagOp
<1>3. Result(node') = Result(node)
  BY <1>1, <1>2 DEF Result, Bit
<1>4. TypeOK'
  BY <1>1, <1>2 DEF TypeOK, BranchableCC, RiscvCC, BranchOpcode
<1>5. NotLoweredYet' /\ BranchesAndSelectsSelectable' /\ ResultPreserved'
  BY <1>1, <1>2, <1>3
     DEF NotLoweredYet, BranchesAndSelectsSelectable, ResultPreserved, SourceOp
<1> QED BY <1>4, <1>5 DEF IInv

LEMMA LowerSELECTStep == IInv /\ LowerSELECT => IInv'
<1> SUFFICES ASSUME IInv, LowerSELECT PROVE IInv'  OBVIOUS
<1>1. /\ node \in Node /\ node.op = "SELECT" /\ node = src /\ src \in Source
      /\ node.cc \in SetCC \cup {"NONZERO"} /\ src' = src
      /\ node' = LowerCondition(node, "SELECT_CC")
  BY DEF IInv, TypeOK, NotLoweredYet, LowerSELECT, SourceOp, Source
<1>2. /\ node' \in Node /\ node'.op = "SELECT_CC" /\ node'.cc \in BranchableCC
      /\ node'.t = node.t /\ node'.f = node.f
      /\ Test(node'.cc, node'.lhs.val, node'.rhs.val)
           <=> Test(node.cc, node.lhs.val, node.rhs.val)
  BY <1>1, LowerConditionCorrect DEF DagOp
<1>3. Result(node') = Result(node)
  BY <1>1, <1>2 DEF Result
<1>4. TypeOK'
  BY <1>1, <1>2 DEF TypeOK, BranchableCC, RiscvCC, BranchOpcode
<1>5. NotLoweredYet' /\ BranchesAndSelectsSelectable' /\ ResultPreserved'
  BY <1>1, <1>2, <1>3
     DEF NotLoweredYet, BranchesAndSelectsSelectable, ResultPreserved, SourceOp
<1> QED BY <1>4, <1>5 DEF IInv

\* The arithmetic form: adding the Boolean to, or taking it from, the false
\* constant meets the true constant, modulo the word.
LEMMA LowerSELECTOfConstantsStep == IInv /\ LowerSELECTOfConstants => IInv'
<1> SUFFICES ASSUME IInv, LowerSELECTOfConstants PROVE IInv'  OBVIOUS
<1> DEFINE op == IF Wrap(node.t.val - 1) = node.f.val THEN "ADD" ELSE "SUB"
           c == Test(node.cc, node.lhs.val, node.rhs.val)
<1>1. /\ node \in Node /\ node.op = "SELECT" /\ node = src /\ src \in Source
      /\ node.cc = "SETLT" /\ node.f.val \in {Wrap(node.t.val - 1), Wrap(node.t.val + 1)}
      /\ src' = src /\ node' = As(node, op, node.cc)
  BY DEF IInv, TypeOK, NotLoweredYet, LowerSELECTOfConstants, ConstantsDifferByOne, SourceOp
<1>2. /\ node' \in Node /\ node'.op = op /\ node'.cc = "SETLT"
      /\ node'.t = node.t /\ node'.f = node.f
      /\ Test(node'.cc, node'.lhs.val, node'.rhs.val) <=> c
  BY <1>1 DEF As, Compare, Node, DagOp
<1>3. node.t.val \in Word /\ node.f.val \in Word
  BY <1>1 DEF Node, Operand
<1>4. Result(node') = Result(node)
  <2>1. Result(node) = IF c THEN node.t.val ELSE node.f.val
    BY <1>1 DEF Result
  <2>2. Wrap(node.f.val) = node.f.val /\ 0 + node.f.val = node.f.val /\ node.f.val - 0 = node.f.val
    BY <1>3, WrapWord DEF Word
  <2>3. CASE op = "ADD"
    <3>1. Result(node') = Wrap(Bit(c) + node.f.val)
      BY <1>2, <2>3 DEF Result, Bit
    <3>2. node.f.val = Wrap(node.t.val - 1)  BY <2>3
    <3>3. Wrap(1 + node.f.val) = node.t.val  BY <1>3, <3>2, WrapWord
    <3> QED BY <2>1, <2>2, <3>1, <3>3 DEF Bit
  <2>4. CASE op = "SUB"
    <3>1. Result(node') = Wrap(node.f.val - Bit(c))
      BY <1>2, <2>4 DEF Result, Bit
    <3>2. node.f.val = Wrap(node.t.val + 1)  BY <1>1, <2>4
    <3>3. Wrap(node.f.val - 1) = node.t.val  BY <1>3, <3>2, WrapWord
    <3> QED BY <2>1, <2>2, <3>1, <3>3 DEF Bit
  <2> QED BY <2>3, <2>4
<1>5. TypeOK'
  BY <1>1, <1>2 DEF TypeOK, RiscvCC, BranchOpcode
<1>6. NotLoweredYet' /\ BranchesAndSelectsSelectable' /\ ResultPreserved'
  BY <1>1, <1>2, <1>4
     DEF NotLoweredYet, BranchesAndSelectsSelectable, ResultPreserved, SourceOp
<1> QED BY <1>5, <1>6 DEF IInv

LEMMA SelectBrCCStep == IInv /\ SelectBrCC => IInv'
<1> SUFFICES ASSUME IInv, SelectBrCC PROVE IInv'  OBVIOUS
<1>1. /\ node \in Node /\ node.op = "BR_CC" /\ src \in Source /\ src' = src
      /\ node.cc \in BranchableCC /\ node' = As(node, "branch", PatBrcc[node.cc])
  BY DEF IInv, TypeOK, BranchesAndSelectsSelectable, SelectBrCC, BranchableCC, PatBrcc
<1>2. /\ PatBrcc[node.cc] \in BranchOpcode
      /\ Test(PatBrcc[node.cc], node.lhs.val, node.rhs.val)
           <=> Test(node.cc, node.lhs.val, node.rhs.val)
  BY <1>1 DEF PatBrcc, BranchableCC, BranchOpcode, Test
<1>3. node' \in Node /\ node'.op = "branch" /\ node'.cc \in BranchOpcode
  BY <1>1, <1>2 DEF As, Compare, Node, MachineOp
<1>4. Result(node') = Result(node)
  BY <1>1, <1>2, ResultOfAs
<1>5. TypeOK'
  BY <1>1, <1>3 DEF TypeOK, RiscvCC, BranchOpcode
<1>6. NotLoweredYet' /\ BranchesAndSelectsSelectable' /\ ResultPreserved'
  BY <1>1, <1>3, <1>4
     DEF IInv, NotLoweredYet, BranchesAndSelectsSelectable, ResultPreserved, SourceOp
<1> QED BY <1>5, <1>6 DEF IInv

LEMMA SelectSelectCCStep == IInv /\ SelectSelectCC => IInv'
<1> SUFFICES ASSUME IInv, SelectSelectCC PROVE IInv'  OBVIOUS
<1>1. /\ node \in Node /\ node.op = "SELECT_CC" /\ src \in Source /\ src' = src
      /\ node.cc \in BranchableCC /\ node' = As(node, "Select_GPR", RiscvCCForIntCC[node.cc])
  BY DEF IInv, TypeOK, BranchesAndSelectsSelectable, SelectSelectCC, BranchableCC, RiscvCCForIntCC
<1>2. /\ RiscvCCForIntCC[node.cc] \in RiscvCC
      /\ Test(RiscvCCForIntCC[node.cc], node.lhs.val, node.rhs.val)
           <=> Test(node.cc, node.lhs.val, node.rhs.val)
  BY <1>1 DEF RiscvCCForIntCC, BranchableCC, RiscvCC, Test
<1>3. node' \in Node /\ node'.op = "Select_GPR" /\ node'.cc \in RiscvCC
  BY <1>1, <1>2 DEF As, Compare, Node, MachineOp
<1>4. Result(node') = Result(node)
  BY <1>1, <1>2, ResultOfAs
<1>5. TypeOK'
  BY <1>1, <1>3 DEF TypeOK, RiscvCC, BranchOpcode
<1>6. NotLoweredYet' /\ BranchesAndSelectsSelectable' /\ ResultPreserved'
  BY <1>1, <1>3, <1>4
     DEF IInv, NotLoweredYet, BranchesAndSelectsSelectable, ResultPreserved, SourceOp
<1> QED BY <1>5, <1>6 DEF IInv

LEMMA InsertTriangleStep == IInv /\ InsertTriangle => IInv'
<1> SUFFICES ASSUME IInv, InsertTriangle PROVE IInv'  OBVIOUS
<1>1. /\ node \in Node /\ node.op = "Select_GPR" /\ src \in Source /\ src' = src
      /\ node.cc \in RiscvCC /\ node' = As(node, "triangle", GetBrCond[node.cc])
  BY DEF IInv, TypeOK, InsertTriangle
<1>2. /\ GetBrCond[node.cc] \in BranchOpcode
      /\ Test(GetBrCond[node.cc], node.lhs.val, node.rhs.val)
           <=> Test(node.cc, node.lhs.val, node.rhs.val)
  BY <1>1 DEF GetBrCond, BranchOpcode, RiscvCC, Test
<1>3. node' \in Node /\ node'.op = "triangle" /\ node'.cc \in BranchOpcode
  BY <1>1, <1>2 DEF As, Compare, Node, MachineOp
<1>4. Result(node') = Result(node)
  BY <1>1, <1>2, ResultOfAs
<1>5. TypeOK'
  BY <1>1, <1>3 DEF TypeOK, RiscvCC, BranchOpcode
<1>6. NotLoweredYet' /\ BranchesAndSelectsSelectable' /\ ResultPreserved'
  BY <1>1, <1>3, <1>4
     DEF IInv, NotLoweredYet, BranchesAndSelectsSelectable, ResultPreserved, SourceOp
<1> QED BY <1>5, <1>6 DEF IInv

LEMMA SelectSetCCStep == IInv /\ SelectSetCC => IInv'
<1> SUFFICES ASSUME IInv, SelectSetCC PROVE IInv'  OBVIOUS
<1> DEFINE op == IF node.cc \notin {"SETLT", "SETULT"} THEN "fatal"
                 ELSE IF node.op = "SETCC" THEN "slt"
                 ELSE IF node.op = "ADD" THEN "slt_add" ELSE "slt_sub"
<1>1. /\ node \in Node /\ node.op \in {"SETCC", "ADD", "SUB"} /\ src \in Source /\ src' = src
      /\ node' = As(node, op, node.cc)
      /\ node.op \in {"ADD", "SUB"} => node.cc = "SETLT"
      /\ node.op = "SETCC" => node = src
      /\ node.cc \notin RiscvCC /\ node.cc \notin BranchOpcode /\ node.cc # "NONZERO"
  BY DEF IInv, TypeOK, NotLoweredYet, BranchesAndSelectsSelectable, SelectSetCC, SourceOp
<1>2. node' \in Node /\ node'.op = op /\ node'.cc = node.cc
  BY <1>1 DEF As, Compare, Node, MachineOp
<1>3. op # "fatal" => Result(node') = Result(node)
  BY <1>1, ResultOfAs
<1>4. TypeOK'
  BY <1>1, <1>2 DEF TypeOK
<1>5. NotLoweredYet' /\ BranchesAndSelectsSelectable' /\ ResultPreserved'
  BY <1>1, <1>2, <1>3
     DEF IInv, NotLoweredYet, BranchesAndSelectsSelectable, ResultPreserved, SourceOp
<1> QED BY <1>4, <1>5 DEF IInv

LEMMA NextIInv == IInv /\ [Next]_vars => IInv'
<1> SUFFICES ASSUME IInv, [Next]_vars PROVE IInv'  OBVIOUS
<1>1. CASE LowerBRCOND             BY <1>1, LowerBRCONDStep
<1>2. CASE LowerSELECT             BY <1>2, LowerSELECTStep
<1>3. CASE LowerSELECTOfConstants  BY <1>3, LowerSELECTOfConstantsStep
<1>4. CASE SelectBrCC              BY <1>4, SelectBrCCStep
<1>5. CASE SelectSelectCC          BY <1>5, SelectSelectCCStep
<1>6. CASE SelectSetCC             BY <1>6, SelectSetCCStep
<1>7. CASE InsertTriangle          BY <1>7, InsertTriangleStep
<1>8. CASE UNCHANGED vars
  BY <1>8 DEF vars, IInv, TypeOK, NotLoweredYet, BranchesAndSelectsSelectable, ResultPreserved
<1> QED BY <1>1, <1>2, <1>3, <1>4, <1>5, <1>6, <1>7, <1>8 DEF Next, Finished

LEMMA Invariance == Spec => []IInv
<1> QED BY InitIInv, NextIInv, PTL DEF Spec

----------------------------------------------------------------------------
\* Every node the lowering of BRCOND, SELECT and SETCC goes through is well
\* formed, whatever the word width.
THEOREM TypeCorrect == Spec => []TypeOK
<1>1. IInv => TypeOK  BY DEF IInv
<1> QED BY <1>1, Invariance, PTL

\* No branch and no select meets llvm_unreachable or "Cannot select": the codes
\* translateSetCCForBranch leaves are the ones getRISCVCCForIntCC and PatBrcc have.
THEOREM Selectable == Spec => []BranchesAndSelectsSelectable
<1>1. IInv => BranchesAndSelectsSelectable  BY DEF IInv
<1> QED BY <1>1, Invariance, PTL

\* Lowering, selection and insertion keep the result of the node, for every pair
\* of compared words of every width of at least two bits.
THEOREM LoweringCorrect == Spec => []ResultPreserved
<1>1. IInv => ResultPreserved  BY DEF IInv
<1> QED BY <1>1, Invariance, PTL
============================================================================
