----------------------------- MODULE FunctionCall -----------------------------
(***************************************************************************)
(* One function, from its signature to a call by foreign code that follows *)
(* the RISC-V calling convention.  The target's part of it:                *)
(*                                                                         *)
(*   LowerFormalArguments, LowerReturn      the registers of the convention*)
(*   getReservedRegs, getCalleeSavedRegs    what LLVM may allocate and what*)
(*                                          it has to save                 *)
(*   Select, eliminateFrameIndex, hasFP     addresses of stack objects     *)
(*   copyPhysReg, PseudoRET                 the code that runs             *)
(*                                                                         *)
(* In between LLVM allocates registers and lays out the frame.             *)
(***************************************************************************)
EXTENDS Integers, Sequences, FiniteSets

CONSTANTS
  ArgCounts,   \* how many arguments the function may have, of XLEN bits each
  Pool,        \* the registers LLVM considers in allocation
  ObjectLists, \* the sizes of its stack objects, with their padding
  ImmHalf      \* an offset has to lie in -ImmHalf .. ImmHalf - 1: 2^11

----------------------------------------------------------------------------
(* Registers.                                                              *)

\* Mutant of ArgRegs: the registers of a result come last.
ArgRegsShifted == <<"A2", "A3", "A4", "A5", "A6", "A7", "A0", "A1">>

\* CC_RISCV32 and RetCC_RISCV32.
ArgRegs == <<"A0", "A1", "A2", "A3", "A4", "A5", "A6", "A7">>
RetRegs == <<"A0", "A1">>

\* The members of the register class GPR.
GPR ==
  {"ZERO", "RA", "SP", "GP", "TP", "T0", "T1", "T2", "T3", "T4", "T5", "T6", "FP",
   "S1", "S2", "S3", "S4", "S5", "S6", "S7", "S8", "S9", "S10", "S11"}
  \cup {"A0", "A1", "A2", "A3", "A4", "A5", "A6", "A7"}

ASSUME FunctionAssumption ==
  /\ ArgCounts \subseteq Nat \ {0} /\ ImmHalf \in Nat
  /\ \A o \in ObjectLists : o \in Seq(Nat \ {0})
  /\ Pool \subseteq GPR

\* getCalleeSavedRegs: CSR_LP32.
CalleeSaved ==
  {"RA", "SP", "FP", "S1", "S2", "S3", "S4", "S5", "S6", "S7", "S8", "S9", "S10", "S11"}

\* Mutant of Reserved: the thread pointer is free.
ReservedNoTP == {"ZERO", "RA", "FP", "SP", "GP"}

\* getReservedRegs.
Reserved == {"ZERO", "RA", "FP", "SP", "GP", "TP"}

\* The caller's view, of the RISC-V calling convention: where it puts arguments
\* and finds results, and what the call must leave as it is.
ABIArgs == <<"A0", "A1", "A2", "A3", "A4", "A5", "A6", "A7">>
ABIKept ==
  {"ZERO", "RA", "SP", "GP", "TP", "FP", "S1", "S2", "S3", "S4", "S5", "S6", "S7", "S8",
   "S9", "S10", "S11"}

----------------------------------------------------------------------------
VARIABLES
  stage,  \* the next step, "returned" or "fatal"
  fn,     \* the function; its results are arguments, by number
  livein, \* the registers of the arguments
  loc,    \* where LLVM keeps each result until it is copied
  written,\* the registers the body writes
  copies, \* the copies to RetRegs that are still to run
  fis,    \* frame indices still to eliminate
  slots,  \* the others: frame register and offset
  regs    \* the registers at run time, at first the caller's

vars == <<stage, fn, livein, loc, written, copies, fis, slots, regs>>

Functions ==
  UNION {[cc : {"C", "Fast"}, vararg : BOOLEAN, args : {n}, objects : ObjectLists,
          fp : BOOLEAN, dynamic : BOOLEAN,
          results : UNION {[1 .. m -> {1, n}] : m \in 0 .. 3}] : n \in ArgCounts}

\* The caller has put the arguments it has registers for where they belong, and
\* has its own values in the others.
Init ==
  /\ fn \in Functions /\ stage = "arguments"
  /\ livein = <<>> /\ loc = <<>> /\ written = {} /\ copies = <<>> /\ fis = {} /\ slots = <<>>
  /\ regs = [r \in GPR |->
               IF \E k \in 1 .. fn.args : k <= Len(ABIArgs) /\ ABIArgs[k] = r
               THEN [is |-> "argument", of |-> r] ELSE [is |-> "caller", of |-> r]]

----------------------------------------------------------------------------
(* Compilation.                                                            *)

\* What LowerFormalArguments reports as fatal errors.
Unsupported == fn.cc # "C" \/ fn.vararg \/ fn.args > Len(ArgRegs)

LowerFormalArguments ==
  /\ stage = "arguments"
  /\ stage' = IF Unsupported THEN "fatal" ELSE "return"
  /\ livein' = IF Unsupported THEN <<>> ELSE SubSeq(ArgRegs, 1, fn.args)
  /\ UNCHANGED <<fn, loc, written, copies, fis, slots, regs>>

\* A result for which RetCC_RISCV32 has no register stops LLVM's AnalyzeReturn.
LowerReturn ==
  /\ stage = "return"
  /\ IF Len(fn.results) <= Len(RetRegs)
     THEN stage' = "select" /\ copies' = SubSeq(RetRegs, 1, Len(fn.results))
     ELSE stage' = "fatal" /\ UNCHANGED copies
  /\ UNCHANGED <<fn, livein, loc, written, fis, slots, regs>>

\* Select of the FrameIndex nodes: (ADDI <fi>, 0).
SelectFrameIndices ==
  /\ stage = "select"
  /\ fis' = DOMAIN fn.objects /\ stage' = "allocate"
  /\ UNCHANGED <<fn, livein, loc, written, copies, slots, regs>>

\* LLVM's register allocation: any registers that are not reserved, different ones
\* for results that live together, and A0 for none that is copied after it was
\* written.  The body writes one register more, and moves SP for an object of
\* dynamic size.
AllocateRegisters ==
  /\ stage = "allocate"
  /\ \E l \in [DOMAIN fn.results -> Pool \ Reserved], extra \in Pool \ Reserved :
       /\ \A i, j \in DOMAIN l : i < j => l[i] # l[j] /\ l[j] # RetRegs[i]
       /\ loc' = l
       /\ written' = {l[i] : i \in DOMAIN l} \cup {copies[i] : i \in DOMAIN copies}
                       \cup {extra} \cup IF fn.dynamic THEN {"SP"} ELSE {}
  /\ stage' = "save"
  /\ UNCHANGED <<fn, livein, copies, fis, slots, regs>>

\* A callee-saved register that is written has to be spilled, and the target does
\* not implement storeRegToStackSlot.
SpillCalleeSaved ==
  /\ stage = "save"
  /\ stage' = IF written \cap CalleeSaved = {} THEN "frame" ELSE "fatal"
  /\ UNCHANGED <<fn, livein, loc, written, copies, fis, slots, regs>>

\* getFrameRegister, by hasFP.
HasFP       == fn.fp \/ fn.dynamic
FrameReg    == IF HasFP THEN "FP" ELSE "SP"

\* LLVM's layout: objects one below the other, and the frame rounded up to 16.
Below ==
  LET sum[i \in 0 .. Len(fn.objects)] == IF i = 0 THEN 0 ELSE sum[i - 1] + fn.objects[i]
  IN  sum
StackSize == ((Below[Len(fn.objects)] + 15) \div 16) * 16

\* getFrameIndexReference, as TargetFrameLowering has it: from the frame register,
\* as if the prologue had moved it down.
FrameOffset(i) == StackSize - Below[i]

EncodableOffset(n) == -ImmHalf <= n /\ n < ImmHalf

\* Mutant of EliminateFrameIndex: an offset that does not fit is used all the same.
EliminateFrameIndexUnchecked ==
  /\ stage = "frame"
  /\ \E i \in fis :
       /\ fis' = fis \ {i}
       /\ slots' = Append(slots, [fi |-> i, reg |-> FrameReg, off |-> FrameOffset(i)])
  /\ UNCHANGED <<stage, fn, livein, loc, written, copies, regs>>

\* eliminateFrameIndex, without its assertions.
EliminateFrameIndex ==
  /\ stage = "frame"
  /\ \E i \in fis :
       /\ fis' = fis \ {i}
       /\ IF EncodableOffset(FrameOffset(i))
          THEN /\ slots' = Append(slots, [fi |-> i, reg |-> FrameReg, off |-> FrameOffset(i)])
               /\ UNCHANGED stage
          ELSE stage' = "fatal" /\ UNCHANGED slots
  /\ UNCHANGED <<fn, livein, loc, written, copies, regs>>

\* Everything is known: the function is called.
Call ==
  /\ stage = "frame" /\ fis = {}
  /\ stage' = "body"
  /\ UNCHANGED <<fn, livein, loc, written, copies, fis, slots, regs>>

----------------------------------------------------------------------------
(* The call.                                                               *)

\* The body computes the results, here copies of arguments, and writes whatever it
\* writes.
Body ==
  /\ stage = "body"
  /\ regs' = [r \in GPR |->
                IF \E i \in DOMAIN loc : loc[i] = r
                THEN regs[livein[fn.results[CHOOSE i \in DOMAIN loc : loc[i] = r]]]
                ELSE IF r \in written THEN [is |-> "junk", of |-> r] ELSE regs[r]]
  /\ stage' = "copies"
  /\ UNCHANGED <<fn, livein, loc, written, copies, fis, slots>>

\* copyPhysReg: (ADDI dst, src, 0).
CopyPhysReg ==
  /\ stage = "copies" /\ copies # <<>>
  /\ regs' = [regs EXCEPT ![Head(copies)] = regs[loc[Len(loc) - Len(copies) + 1]]]
  /\ copies' = Tail(copies)
  /\ UNCHANGED <<stage, fn, livein, loc, written, fis, slots>>

\* PseudoRET: (JALR ZERO, RA, 0).
Return ==
  /\ stage = "copies" /\ copies = <<>>
  /\ stage' = "returned"
  /\ UNCHANGED <<fn, livein, loc, written, copies, fis, slots, regs>>

Finished == stage \in {"returned", "fatal"} /\ UNCHANGED vars

Next ==
  \/ LowerFormalArguments \/ LowerReturn \/ SelectFrameIndices
  \/ AllocateRegisters \/ SpillCalleeSaved \/ EliminateFrameIndex
  \/ Call \/ Body \/ CopyPhysReg \/ Return \/ Finished

Spec == Init /\ [][Next]_vars

----------------------------------------------------------------------------
(* Properties.                                                             *)

\* The caller finds its results where the convention has them, whatever registers
\* LLVM has chosen in between.
ResultsArrive ==
  stage = "returned" =>
    \A i \in DOMAIN fn.results :
      regs[ABIArgs[i]] = [is |-> "argument", of |-> ABIArgs[fn.results[i]]]

\* The caller finds every register the convention protects as it left it, RA for
\* the return and SP included: what is reserved is not written, and a function that
\* would have to save something is not compiled.
CallerRegistersKept ==
  stage = "returned" => \A r \in ABIKept : regs[r] = [is |-> "caller", of |-> r]

\* Stack objects do not overlap, lie in the StackSize bytes from the frame
\* register on, and their offsets can be encoded.
ObjectsApart ==
  \A k \in DOMAIN slots :
    LET s == slots[k]
        size == fn.objects[s.fi]
    IN  /\ EncodableOffset(s.off) /\ s.off \in 0 .. StackSize - size
        /\ \A l \in DOMAIN slots :
             l # k => \/ s.off + size <= slots[l].off
                      \/ slots[l].off + fn.objects[slots[l].fi] <= s.off

\* "eliminateFrameIndex currently requires hasFP": no function gets there without a
\* frame pointer.
FrameIndexHasFP == stage = "frame" /\ fis # {} => HasFP
=============================================================================
