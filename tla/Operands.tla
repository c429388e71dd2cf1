------------------------------ MODULE Operands ------------------------------
(***************************************************************************)
(* Operands of machine instructions and what they become in an MCInst      *)
(* (TOYRISCVMCInstLower.cpp).  There are two ways: the operands of an      *)
(* instruction that is emitted as it is, and those of one that a           *)
(* PseudoInstExpansion emits as another.                                   *)
(***************************************************************************)
EXTENDS Sequences

\* The target flags of machine operands (TOYRISCVII).  Nothing under src/ sets MO_PLT.
OperandFlag ==
  {"MO_None", "MO_CALL", "MO_PLT", "MO_LO", "MO_HI", "MO_PCREL_LO", "MO_PCREL_HI"}

\* Mutant of VariantOf: %hi and %lo are exchanged.
VariantOfCrossed ==
  [MO_None |-> "VK_RISCV_None", MO_CALL |-> "VK_RISCV_CALL", MO_LO |-> "VK_RISCV_HI",
   MO_HI |-> "VK_RISCV_LO", MO_PCREL_LO |-> "VK_RISCV_PCREL_LO",
   MO_PCREL_HI |-> "VK_RISCV_PCREL_HI"]

\* The switch of lowerSymbolOperand, which has no case for MO_PLT.
VariantOf ==
  [MO_None |-> "VK_RISCV_None", MO_CALL |-> "VK_RISCV_CALL", MO_LO |-> "VK_RISCV_LO",
   MO_HI |-> "VK_RISCV_HI", MO_PCREL_LO |-> "VK_RISCV_PCREL_LO",
   MO_PCREL_HI |-> "VK_RISCV_PCREL_HI"]

\* Operands.  A machine operand that stands for a symbol has a flag and an offset,
\* a machine basic block and an entry of a jump table no offset.  An expression is
\* the symbol plus an offset, as a TOYRISCVMCExpr unless its variant is None.
Operand(kind, what, val) == [kind |-> kind, what |-> what, val |-> val]

Imm(n)             == Operand("imm", "", n)
Global(flag, off)  == Operand("global", flag, off)
Expr(variant, off) == Operand("expr", variant, off)

NoOffset    == {"mbb", "jumptable"}
SymbolKinds == {"global", "blockaddress", "external", "constpool"} \cup NoOffset
OtherKinds  == {"reg", "implicit", "regmask", "imm"}

\* What becomes of an operand: the operands of the MCInst for it, none if it is
\* dropped, or a fatal error, or llvm_unreachable.
Lowered(seq) == [end |-> "lowered", operands |-> seq]
Fatal        == [end |-> "fatal", operands |-> <<>>]
Unreachable  == [end |-> "unreachable", operands |-> <<>>]

\* Mutant of LowerSymbolOperand: relocations relative to the pc are unknown, too.
LowerSymbolOperandAbsolute(arg) ==
  IF arg.what \notin DOMAIN VariantOf \ {"MO_PCREL_LO", "MO_PCREL_HI"} THEN Unreachable
  ELSE Lowered(<<Expr(VariantOf[arg.what], IF arg.kind \in NoOffset THEN 0 ELSE arg.val)>>)

\* lowerSymbolOperand: the offset of the operand, if it has one, and its variant;
\* "Unknown target flag on GV operand".
LowerSymbolOperand(arg) ==
  IF arg.what \notin DOMAIN VariantOf THEN Unreachable
  ELSE Lowered(<<Expr(VariantOf[arg.what], IF arg.kind \in NoOffset THEN 0 ELSE arg.val)>>)

\* The switch of LowerTOYRISCVMachineInstrToMCInst: the symbol of a basic block is
\* taken whatever its flags.
LowerInstrOperand(arg) ==
  CASE arg.kind = "implicit"       -> Lowered(<<>>)
    [] arg.kind \in {"reg", "imm"} -> Lowered(<<arg>>)
    [] arg.kind = "mbb"            -> Lowered(<<Expr("VK_RISCV_None", 0)>>)
    [] arg.kind = "global"         -> LowerSymbolOperand(arg)
    [] OTHER                       -> Fatal

\* Mutant of LowerPseudoOperand: implicit registers are not dropped.
LowerPseudoOperandImplicit(arg) ==
  CASE arg.kind = "regmask"                 -> Lowered(<<>>)
    [] arg.kind \in {"reg", "imm", "implicit"} -> Lowered(<<arg>>)
    [] arg.kind \in SymbolKinds             -> LowerSymbolOperand(arg)
    [] OTHER                                -> Fatal

\* LowerTOYRISCVMachineOperandToMCOperand, for pseudo instructions.
LowerPseudoOperand(arg) ==
  CASE arg.kind \in {"implicit", "regmask"} -> Lowered(<<>>)
    [] arg.kind \in {"reg", "imm"}          -> Lowered(<<arg>>)
    [] arg.kind \in SymbolKinds             -> LowerSymbolOperand(arg)
    [] OTHER                                -> Fatal
=============================================================================
