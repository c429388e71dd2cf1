----------------------------- MODULE Materialize -----------------------------
(***************************************************************************)
(* How a constant, or the address of a symbol, gets into a register: the   *)
(* immediate patterns of TOYRISCVInstrInfo.td, the LUI/ADDI pair of        *)
(* getAddr's small code model, and the execution of the code.              *)
(***************************************************************************)
EXTENDS Immediates

VARIABLES
  goal,   \* what to load: [kind |-> "constant" or "symbol", value |-> ...]
  insts,  \* the instructions still to execute
  rd      \* the register they build the value in

lvars == <<goal, insts, rd>>

\* A constant of type XLenVT is known sign-extended, an address is a word.
Constants == -(Half32 * Ext) .. Half32 * Ext - 1
Goals     == [kind : {"constant"}, value : Constants] \cup [kind : {"symbol"}, value : Word]

NotSelected == <<[op |-> "none", imm |-> 0]>>

\* rd is 0: the ADDI of the simm12 pattern reads ZERO.
LInit == goal \in Goals /\ insts = NotSelected /\ rd = 0

LUI(imm)  == [op |-> "LUI", imm |-> imm]
ADDI(imm) == [op |-> "ADDI", imm |-> imm]

\* (simm12:$imm) -> (ADDI ZERO, imm).
SelectSimm12 ==
  /\ insts = NotSelected /\ goal.kind = "constant" /\ IsInt12(goal.value)
  /\ insts' = <<ADDI(goal.value)>>
  /\ UNCHANGED <<goal, rd>>

\* (simm32:$imm) -> (ADDI (LUI (HI20 imm)), (LO12Sext imm)).
SelectSimm32 ==
  /\ insts = NotSelected /\ goal.kind = "constant"
  /\ IsInt32(goal.value) /\ ~IsInt12(goal.value)
  /\ insts' = <<LUI(HI20(goal.value)), ADDI(LO12Sext(goal.value))>>
  /\ UNCHANGED <<goal, rd>>

\* No pattern covers a constant of more than 32 bits: "Cannot select".
CannotLoad ==
  /\ insts = NotSelected /\ goal.kind = "constant" /\ ~IsInt32(goal.value)
  /\ insts' = <<[op |-> "fatal", imm |-> 0]>>
  /\ UNCHANGED <<goal, rd>>

\* getAddr, CodeModel::Small: (ADDI (LUI %hi(sym)), %lo(sym)).
SelectSymbol ==
  /\ insts = NotSelected /\ goal.kind = "symbol"
  /\ insts' = <<LUI(EvaluateHi(goal.value)), ADDI(EvaluateLo(goal.value))>>
  /\ UNCHANGED <<goal, rd>>

\* LUI: the immediate at bit 12, sign-extended from bit 31.
ExecuteLUI ==
  /\ insts # <<>> /\ insts[1].op = "LUI"
  /\ rd' = LuiValue(insts[1].imm)
  /\ insts' = <<insts[2]>>
  /\ UNCHANGED goal

\* ADDI to what rd holds.
ExecuteADDI ==
  /\ insts # <<>> /\ insts[1].op = "ADDI"
  /\ rd' = (rd + insts[1].imm) % XlenMod
  /\ insts' = <<>>
  /\ UNCHANGED goal

NotLoaded == insts # <<>> /\ insts[1].op = "fatal"
Loaded    == insts = <<>>
LFinished == (NotLoaded \/ Loaded) /\ UNCHANGED lvars

LNext ==
  \/ SelectSimm12 \/ SelectSimm32 \/ CannotLoad \/ SelectSymbol
  \/ ExecuteLUI \/ ExecuteADDI \/ LFinished

LSpec == LInit /\ [][LNext]_lvars

----------------------------------------------------------------------------
(* Properties.                                                             *)

LoadInstruction ==
  [op : {"LUI"}, imm : 0 .. Hi - 1] \cup [op : {"ADDI"}, imm : -LoHalf .. LoHalf - 1]
    \cup [op : {"none", "fatal"}, imm : {0}]

\* Every instruction fits its encoding: 20 unsigned bits for LUI, 12 signed ones
\* for ADDI, and there are at most two.
TypeOK ==
  /\ goal \in Goals
  /\ rd \in Word
  /\ insts \in {<<>>} \cup {<<i>> : i \in LoadInstruction}
              \cup {<<i, j>> : i \in LoadInstruction, j \in LoadInstruction}

\* Once the code has run, the low 32 bits of rd are those of the constant or the
\* address: the +0x800 of HI20 makes up for the negative low part, also where it
\* carries into bit 31.  On RV32 this is all of rd.  The high bits of RV64 are
\* right as well, but for what LuiNegative exempts.
Materialized ==
  Loaded => /\ rd % Pow32 = goal.value % Pow32
            /\ ~LuiNegative(goal.value) => rd = goal.value % XlenMod

\* getAddr: "Generate a sequence for accessing addresses within the first 2 GiB
\* of address space."
FirstTwoGiBReached ==
  Loaded /\ goal.kind = "symbol" /\ goal.value < Half32 => rd = goal.value
============================================================================
