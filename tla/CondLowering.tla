---------------------------- MODULE CondLowering ----------------------------
(***************************************************************************)
(* The way of one conditional node through the backend: a BRCOND, a SELECT *)
(* or a SETCC whose operands have the register type XLenVT.                *)
(*                                                                         *)
(*   legalisation  lowerBRCOND, lowerSELECT, translateSetCCForBranch       *)
(*   selection     PatBrcc, IntCCtoRISCVCC, the SLT/SLTU/ADD/SUB patterns  *)
(*   insertion     getBrCond, on behalf of emitSelectPseudo                *)
(*                                                                         *)
(* Operands carry the value they have in one execution, so that the result *)
(* of the node can be compared before and after every step.  A word is a   *)
(* natural below 2 * Half; Half is 2^(XLEN - 1) in the program.            *)
(***************************************************************************)
EXTENDS Integers

CONSTANT Half

ASSUME HalfAssumption == Half \in Nat /\ Half >= 2

Word == 0 .. 2 * Half - 1

\* The integer a word stands for in a signed comparison.
Signed(x) == IF x < Half THEN x ELSE x - 2 * Half

Wrap(n) == n % (2 * Half)

Bit(b) == IF b THEN 1 ELSE 0

\* A DAG operand: a ConstantSDNode or something computed at run time.
Operand  == [const : BOOLEAN, val : Word]
Const(n) == [const |-> TRUE, val |-> n]

IsConst(x, n) == x.const /\ x.val = n

----------------------------------------------------------------------------
(* Condition codes.                                                        *)

\* The integer comparisons of ISD::CondCode.
SetCC == {"SETEQ", "SETNE", "SETLT", "SETGE", "SETULT", "SETUGE",
          "SETGT", "SETLE", "SETUGT", "SETULE"}

\* The ones PatBrcc and getRISCVCCForIntCC accept.
BranchableCC == {"SETEQ", "SETNE", "SETLT", "SETGE", "SETULT", "SETUGE"}

\* TOYRISCVCC::CondCode.
RiscvCC == {"COND_EQ", "COND_NE", "COND_LT", "COND_GE", "COND_LTU", "COND_GEU"}

BranchOpcode == {"BEQ", "BNE", "BLT", "BGE", "BLTU", "BGEU"}

\* What a condition code, of the DAG or of the backend, or a branch opcode
\* tests; "NONZERO" is a condition that is not a SETCC.
Test(cc, x, y) ==
  \/ cc \in {"SETEQ", "COND_EQ", "BEQ"}    /\ x = y
  \/ cc \in {"SETNE", "COND_NE", "BNE"}    /\ x # y
  \/ cc \in {"SETLT", "COND_LT", "BLT"}    /\ Signed(x) < Signed(y)
  \/ cc \in {"SETGE", "COND_GE", "BGE"}    /\ Signed(x) >= Signed(y)
  \/ cc \in {"SETULT", "COND_LTU", "BLTU"} /\ x < y
  \/ cc \in {"SETUGE", "COND_GEU", "BGEU"} /\ x >= y
  \/ cc = "SETGT"                          /\ Signed(x) > Signed(y)
  \/ cc = "SETLE"                          /\ Signed(x) <= Signed(y)
  \/ cc = "SETUGT"                         /\ x > y
  \/ cc = "SETULE"                         /\ x <= y
  \/ cc = "NONZERO"                        /\ x # 0

\* Mutant of SwappedOperands: one code is forgotten.
SwappedOperandsWithoutULE == [SETGT |-> "SETLT", SETLE |-> "SETGE", SETUGT |-> "SETULT"]

\* ISD::getSetCCSwappedOperands, on the codes it is called with.
SwappedOperands ==
  [SETGT |-> "SETLT", SETLE |-> "SETGE", SETUGT |-> "SETULT", SETULE |-> "SETUGE"]

\* getRISCVCCForIntCC.
RiscvCCForIntCC ==
  [SETEQ |-> "COND_EQ", SETNE |-> "COND_NE", SETLT |-> "COND_LT",
   SETGE |-> "COND_GE", SETULT |-> "COND_LTU", SETUGE |-> "COND_GEU"]

\* The instruction each PatBrcc pattern selects.
PatBrcc ==
  [SETEQ |-> "BEQ", SETNE |-> "BNE", SETLT |-> "BLT",
   SETGE |-> "BGE", SETULT |-> "BLTU", SETUGE |-> "BGEU"]

\* TOYRISCVInstrInfo::getBrCond.
GetBrCond ==
  [COND_EQ |-> "BEQ", COND_NE |-> "BNE", COND_LT |-> "BLT",
   COND_GE |-> "BGE", COND_LTU |-> "BLTU", COND_GEU |-> "BGEU"]

----------------------------------------------------------------------------
(* Nodes.                                                                  *)

SourceOp == {"BRCOND", "SELECT", "SETCC"}
DagOp    == {"BR_CC", "SELECT_CC", "ADD", "SUB"}
\* Machine code: a conditional branch, the select pseudo, the triangle that
\* replaces it, and SLT/SLTU alone, added to or subtracted from f.
MachineOp == {"branch", "Select_GPR", "triangle", "slt", "slt_add", "slt_sub"}

Node == [op : SourceOp \cup DagOp \cup MachineOp \cup {"fatal"},
         lhs : Operand, rhs : Operand,
         cc : SetCC \cup RiscvCC \cup BranchOpcode \cup {"NONZERO"},
         t : Operand, f : Operand]

\* A node like n that compares x with y, or that another operation stands for.
Compare(n, op, x, cc, y) ==
  [op |-> op, lhs |-> x, rhs |-> y, cc |-> cc, t |-> n.t, f |-> n.f]
As(n, op, cc) == Compare(n, op, n.lhs, cc, n.rhs)

\* The condition is a SETCC node on XLenVT operands.
CondIsSetCC(n) == n.cc # "NONZERO"

\* What a node computes: a branch is taken or not, a SETCC yields a Boolean
\* (ZeroOrOneBooleanContent), the others a word.
Result(n) ==
  LET c == Test(n.cc, n.lhs.val, n.rhs.val)
  IN  CASE n.op \in {"BRCOND", "BR_CC", "branch", "SETCC", "slt"} -> Bit(c)
        [] n.op \in {"SELECT", "SELECT_CC", "Select_GPR", "triangle"} ->
             IF c THEN n.t.val ELSE n.f.val
        [] n.op \in {"ADD", "slt_add"} -> Wrap(Bit(c) + n.f.val)
        [] n.op \in {"SUB", "slt_sub"} -> Wrap(n.f.val - Bit(c))
        [] n.op = "fatal" -> 0

\* Mutant of TranslateSetCCForBranch: the code is swapped, the operands are not.
TranslateWithoutSwap(n, op) ==
  IF n.cc = "SETGT" /\ IsConst(n.rhs, 2 * Half - 1)
  THEN Compare(n, op, n.lhs, "SETGE", Const(0))
  ELSE IF n.cc = "SETLT" /\ IsConst(n.rhs, 1)
  THEN Compare(n, op, Const(0), "SETGE", n.lhs)
  ELSE IF n.cc \in DOMAIN SwappedOperands
  THEN Compare(n, op, n.lhs, SwappedOperands[n.cc], n.rhs)
  ELSE As(n, op, n.cc)

\* translateSetCCForBranch, on the LHS, RHS and CCVal of a node.
TranslateSetCCForBranch(n, op) ==
  IF n.cc = "SETGT" /\ IsConst(n.rhs, 2 * Half - 1)
  THEN Compare(n, op, n.lhs, "SETGE", Const(0))
  ELSE IF n.cc = "SETLT" /\ IsConst(n.rhs, 1)
  THEN Compare(n, op, Const(0), "SETGE", n.lhs)
  ELSE IF n.cc \in DOMAIN SwappedOperands
  THEN Compare(n, op, n.rhs, SwappedOperands[n.cc], n.lhs)
  ELSE As(n, op, n.cc)

\* BR_CC or SELECT_CC on the condition of n; one that is no SETCC is compared
\* with zero.
LowerCondition(n, op) ==
  IF CondIsSetCC(n) THEN TranslateSetCCForBranch(n, op)
  ELSE Compare(n, op, n.lhs, "SETNE", Const(0))

----------------------------------------------------------------------------
VARIABLES
  src,   \* the node as the source program has it (history)
  node   \* the node now

vars == <<src, node>>

Source ==
  {n \in Node : /\ n.op \in SourceOp
                /\ n.cc \in SetCC \cup {"NONZERO"}
                /\ ~CondIsSetCC(n) => /\ n.op # "SETCC"
                                      /\ n.lhs.val \in {0, 1}}

Init == src \in Source /\ node = src

\* lowerBRCOND.
LowerBRCOND ==
  /\ node.op = "BRCOND"
  /\ node' = LowerCondition(node, "BR_CC")
  /\ UNCHANGED src

\* A select between two constants that differ by one, on SETLT.
ConstantsDifferByOne(n) ==
  n.t.const /\ n.f.const /\ n.cc = "SETLT" /\ n.f.val \in {Wrap(n.t.val - 1), Wrap(n.t.val + 1)}

\* lowerSELECT of a scalar, general case.
LowerSELECT ==
  /\ node.op = "SELECT" /\ ~ConstantsDifferByOne(node)
  /\ node' = LowerCondition(node, "SELECT_CC")
  /\ UNCHANGED src

\* lowerSELECT of two constants that differ by one: arithmetic on the SETCC.
LowerSELECTOfConstants ==
  /\ node.op = "SELECT" /\ ConstantsDifferByOne(node)
  /\ node' = As(node, IF Wrap(node.t.val - 1) = node.f.val THEN "ADD" ELSE "SUB", node.cc)
  /\ UNCHANGED src

\* Selection of BR_CC: no pattern means "Cannot select".
SelectBrCC ==
  /\ node.op = "BR_CC"
  /\ node' = IF node.cc \in DOMAIN PatBrcc
             THEN As(node, "branch", PatBrcc[node.cc])
             ELSE As(node, "fatal", node.cc)
  /\ UNCHANGED src

\* Mutant of SelectSelectCC: the code of the DAG stays in the pseudo.
SelectSelectCCUnconverted ==
  /\ node.op = "SELECT_CC"
  /\ node' = As(node, IF node.cc \in DOMAIN RiscvCCForIntCC THEN "Select_GPR" ELSE "fatal",
                node.cc)
  /\ UNCHANGED src

\* Selection of SELECT_CC: IntCCtoRISCVCC, unreachable on other codes.
SelectSelectCC ==
  /\ node.op = "SELECT_CC"
  /\ node' = IF node.cc \in DOMAIN RiscvCCForIntCC
             THEN As(node, "Select_GPR", RiscvCCForIntCC[node.cc])
             ELSE As(node, "fatal", node.cc)
  /\ UNCHANGED src

\* Selection of a SETCC used as a value: only setlt and setult have patterns.
SelectSetCC ==
  /\ node.op \in {"SETCC", "ADD", "SUB"}
  /\ node' = As(node, IF node.cc \notin {"SETLT", "SETULT"} THEN "fatal"
                      ELSE IF node.op = "SETCC" THEN "slt"
                      ELSE IF node.op = "ADD" THEN "slt_add" ELSE "slt_sub", node.cc)
  /\ UNCHANGED src

\* The custom inserter: the branch to Tail, where the phi takes t; falling
\* through IfFalse it takes f.
InsertTriangle ==
  /\ node.op = "Select_GPR"
  /\ node' = As(node, "triangle", GetBrCond[node.cc])
  /\ UNCHANGED src

\* The node is machine code, or selection has failed.
Emitted == node.op \in {"branch", "triangle", "slt", "slt_add", "slt_sub", "fatal"}
Finished == Emitted /\ UNCHANGED vars

Next ==
  \/ LowerBRCOND \/ LowerSELECT \/ LowerSELECTOfConstants
  \/ SelectBrCC \/ SelectSelectCC \/ SelectSetCC
  \/ InsertTriangle \/ Finished

Spec == Init /\ [][Next]_vars

----------------------------------------------------------------------------
(* Properties.                                                             *)

\* Nodes have the fields and operands of their kind, and machine nodes the
\* codes of their kind.
TypeOK ==
  /\ src \in Source
  /\ node \in Node
  /\ node.op = "Select_GPR" <=> node.cc \in RiscvCC
  /\ node.op \in {"branch", "triangle"} <=> node.cc \in BranchOpcode
  /\ node.cc = "NONZERO" => node.op \in {"BRCOND", "SELECT"}

\* Through operand swaps, constant adjustments, arithmetic on Booleans and
\* three tables of condition codes, the node keeps computing what the source
\* node computes: for every pair of words, at the edges of the signed and the
\* unsigned range too.
ResultPreserved == node.op # "fatal" => Result(node) = Result(src)

\* getRISCVCCForIntCC and PatBrcc only meet codes they have a case for: no
\* branch and no select ends in llvm_unreachable or "Cannot select".
BranchesAndSelectsSelectable ==
  /\ node.op \in {"BR_CC", "SELECT_CC"} => node.cc \in BranchableCC
  /\ node.op \in {"ADD", "SUB"} => node.cc = "SETLT"
  /\ node.op = "fatal" => src.op = "SETCC" /\ src.cc \notin {"SETLT", "SETULT"}
============================================================================
