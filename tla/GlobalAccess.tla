---------------------------- MODULE GlobalAccess ----------------------------
(***************************************************************************)
(* The way of an access to `symbol + offset`, from the GlobalAddress node  *)
(* to the running program:                                                 *)
(*                                                                         *)
(*   legalisation  lowerGlobalAddress and getAddr                          *)
(*   selection     the ADD of the offset, folded into a load or not        *)
(*   emission      LowerTOYRISCVMachineInstrToMCInst, lowerSymbolOperand   *)
(*   execution     after the linker has resolved the operands              *)
(*                                                                         *)
(* The code builds the address in one register, rd; a large offset is      *)
(* loaded into a second one, rc.                                           *)
(***************************************************************************)
EXTENDS Immediates, Operands

CONSTANTS
  Symbols,   \* the addresses a symbol may have
  Offsets    \* the offsets from a symbol

ASSUME AccessAssumption == Symbols \subseteq Word /\ Offsets \subseteq Int

\* LUI and ADDI write `reg`; ADD adds rc to rd; MEM accesses rd plus its operand.
Inst(op, reg, arg) == [op |-> op, reg |-> reg, arg |-> arg]

----------------------------------------------------------------------------
(* Lowering and selection.                                                 *)

\* getTargetNode: the offset of the node is left out.
TargetNode(flag) == Global(flag, 0)

\* getAddr; <<>> is "Unsupported code model for lowering".
GetAddr(pic, local, model) ==
  IF pic
  THEN <<Inst(IF local THEN "LLA" ELSE "LA", "rd", TargetNode("MO_None"))>>
  ELSE CASE model = "small"  -> <<Inst("LUI", "rd", TargetNode("MO_HI")),
                                  Inst("ADDI", "rd", TargetNode("MO_LO"))>>
         [] model = "medium" -> <<Inst("LLA", "rd", TargetNode("MO_None"))>>
         [] OTHER            -> <<>>

\* The ADD of an offset: nothing, ADDI, or ADD of a constant that the simm32
\* pattern loads.
AddOffset(n) ==
  IF n = 0 THEN <<>>
  ELSE IF IsInt12(n) THEN <<Inst("ADDI", "rd", Imm(n))>>
  ELSE <<Inst("LUI", "rc", Imm(HI20(n))), Inst("ADDI", "rc", Imm(LO12Sext(n))),
         Inst("ADD", "rd", Imm(0))>>

\* LdPat and StPat: an offset that fits goes into the load or store.
AccessMemory(n) ==
  IF IsInt12(n) THEN <<Inst("MEM", "rd", Imm(n))>>
  ELSE Append(AddOffset(n), Inst("MEM", "rd", Imm(0)))

----------------------------------------------------------------------------
VARIABLES
  access,  \* what is accessed, and the options (history)
  stage,   \* "node", "address", "selected", "linked", "done" or "fatal"
  code,    \* machine instructions
  asm,     \* the MC instructions emitted so far, then the ones to execute
  regs     \* rd, rc and the accessed address, ea

vars == <<access, stage, code, asm, regs>>

Access == [symbol : Symbols, offset : Offsets, memory : BOOLEAN,
           pic : BOOLEAN, local : BOOLEAN, model : {"small", "medium", "large"}]

Init ==
  /\ access \in Access
  /\ stage = "node" /\ code = <<>> /\ asm = <<>>
  /\ regs = [rd |-> 0, rc |-> 0, ea |-> 0]

\* lowerGlobalAddress: the address of the symbol; the offset is left to an ADD.
LowerGlobalAddress ==
  /\ stage = "node"
  /\ code' = GetAddr(access.pic, access.local, access.model)
  /\ stage' = IF code' = <<>> THEN "fatal" ELSE "address"
  /\ UNCHANGED <<access, asm, regs>>

\* Selection of the ADD and, if memory is accessed, of the load or store.
SelectUse ==
  /\ stage = "address" /\ IsInt32(access.offset)
  /\ code' = code \o IF access.memory THEN AccessMemory(access.offset)
                     ELSE AddOffset(access.offset)
  /\ stage' = "selected"
  /\ UNCHANGED <<access, asm, regs>>

\* No pattern covers a constant of more than 32 bits: "Cannot select".
CannotSelect ==
  /\ stage = "address" /\ ~IsInt32(access.offset)
  /\ stage' = "fatal"
  /\ UNCHANGED <<access, code, asm, regs>>

\* TOYRISCVAsmPrinter::emitInstruction, with LowerTOYRISCVMachineInstrToMCInst on the
\* operand that is no register.
EmitInstruction ==
  /\ stage = "selected" /\ code # <<>>
  /\ LET i == Head(code)
     IN  asm' = Append(asm, Inst(i.op, i.reg, LowerInstrOperand(i.arg).operands[1]))
  /\ code' = Tail(code)
  /\ UNCHANGED <<access, stage, regs>>

\* Assembler and linker resolve the symbols.
Link ==
  /\ stage = "selected" /\ code = <<>>
  /\ stage' = "linked"
  /\ UNCHANGED <<access, code, asm, regs>>

\* The number an operand stands for once `symbol` has an address.
Resolve(arg) ==
  LET address == (access.symbol + arg.val) % XlenMod
  IN  CASE arg.kind = "imm" -> arg.val
        [] arg.kind = "expr" /\ arg.what = "VK_RISCV_HI" -> EvaluateHi(address)
        [] arg.kind = "expr" /\ arg.what = "VK_RISCV_LO" -> EvaluateLo(address)
        [] arg.kind = "expr" /\ arg.what = "VK_RISCV_None" -> address

\* What one instruction makes of the registers; LLA and LA stand for the sequences
\* the assembler expands them to.
Executed(i, r) ==
  LET n == Resolve(i.arg)
  IN  CASE i.op = "LUI"  -> [r EXCEPT ![i.reg] = LuiValue(n)]
        [] i.op = "ADDI" -> [r EXCEPT ![i.reg] = (@ + n) % XlenMod]
        [] i.op = "ADD"  -> [r EXCEPT !.rd = (@ + r.rc) % XlenMod]
        [] i.op \in {"LLA", "LA"} -> [r EXCEPT !.rd = n]
        [] i.op = "MEM"  -> [r EXCEPT !.ea = (r.rd + n) % XlenMod]

Run ==
  /\ stage = "linked" /\ asm # <<>>
  /\ regs' = Executed(Head(asm), regs)
  /\ asm' = Tail(asm)
  /\ UNCHANGED <<access, stage, code>>

\* The last instruction has run; an address that is not accessed is used itself.
Complete ==
  /\ stage = "linked" /\ asm = <<>>
  /\ stage' = "done"
  /\ regs' = IF access.memory THEN regs ELSE [regs EXCEPT !.ea = regs.rd]
  /\ UNCHANGED <<access, code, asm>>

Finished == stage \in {"done", "fatal"} /\ UNCHANGED vars

Next ==
  \/ LowerGlobalAddress \/ SelectUse \/ CannotSelect \/ EmitInstruction
  \/ Link \/ Run \/ Complete \/ Finished

Spec == Init /\ [][Next]_vars

----------------------------------------------------------------------------
(* Properties.                                                             *)

\* A constant operand is one the assembler takes.
FitsField(i) ==
  i.arg.kind = "imm" =>
    IF i.op = "LUI" THEN i.arg.val \in 0 .. Hi - 1 ELSE IsInt12(i.arg.val)

\* What the pairs of LUI and ADDI on the way cannot load.
Exempt == \/ LuiNegative(access.symbol) /\ ~access.pic /\ access.model = "small"
          \/ LuiNegative(access.offset) /\ ~IsInt12(access.offset)

\* Whatever the code model, the relocation model and the split of the offset
\* between constant and load, the program accesses symbol + offset: the low 32
\* bits of the address are right in every case, the others but for Exempt.  Each
\* immediate on the way fits the field of its instruction.
AddressReached ==
  LET wanted == access.symbol + access.offset
  IN  /\ \A k \in DOMAIN asm : FitsField(asm[k])
      /\ stage = "done" => /\ regs.ea % Pow32 = wanted % Pow32
                           /\ ~Exempt => regs.ea = wanted % XlenMod
=============================================================================
