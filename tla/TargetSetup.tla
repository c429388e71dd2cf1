----------------------------- MODULE TargetSetup -----------------------------
(***************************************************************************)
(* How a TOYRISCVTargetMachine comes to life: C++ constructs the members   *)
(* of the machine and of its DefaultSubtarget in the order their classes   *)
(* declare them, and the constructors of some read what others have set.   *)
(* Three places decide on their own whether the target has 64 bits: the    *)
(* data layout from the triple, the subtarget and the assembler from the   *)
(* triple, the CPU and the feature string.                                 *)
(***************************************************************************)
EXTENDS Integers

\* What the command line asks for.  "" is an option that is not given.
Arch       == {"toyriscv32", "toyriscv64"}
CPU        == {"", "generic", "cpu-rv32", "cpu-rv64", "unknown"}
FS         == {"", "+64bit", "-64bit"}
ABIName    == {"", "lp", "stack", "unknown"}
RelocModel == {"", "static", "pic"}

Options == [arch : Arch, cpu : CPU, fs : FS, abi : ABIName, reloc : RelocModel, jit : BOOLEAN]

----------------------------------------------------------------------------
(* The functions the constructors call.                                    *)

\* Triple::isArch64Bit, by getArchPointerBitWidth.
IsArch64Bit(arch) == arch = "toyriscv64"

\* MCSubtargetInfo's feature bits, here only FeatureRV64: those of the CPU, if
\* the target knows it, changed by the feature string.
Features(cpu, fs) == IF fs = "" THEN cpu = "cpu-rv64" ELSE fs = "+64bit"

\* computeDataLayout: the width of a pointer, p, and of an integer register, n.
ComputeDataLayout(arch) ==
  IF IsArch64Bit(arch) THEN [p |-> 64, n |-> 64] ELSE [p |-> 32, n |-> 32]

\* getEffectiveRelocModel.
EffectiveRelocModel(jit, reloc) == IF reloc = "" \/ jit THEN "static" ELSE reloc

\* Mutant of ComputeTargetABI: ABI::Unknown instead of the abort.
ComputeUnknownABI(name) ==
  IF name \in {"", "lp"} THEN "LP" ELSE IF name = "stack" THEN "STACK" ELSE "Unknown"

\* TOYRISCVABIInfo::computeTargetABI; "Unknown ABI" aborts.
ComputeTargetABI(name) ==
  IF name \in {"", "lp"} THEN "LP" ELSE IF name = "stack" THEN "STACK" ELSE "abort"

\* Mutant of CodegenCPU: "generic" is left to LLVM.
CodegenCPUUnlessGeneric(arch, cpu) ==
  IF cpu # "" THEN cpu ELSE IF arch = "toyriscv32" THEN "cpu-rv32" ELSE "cpu-rv64"

\* initializeSubtargetDependencies: the CPU when none is chosen.
CodegenCPU(arch, cpu) ==
  IF cpu \notin {"", "generic"} THEN cpu
  ELSE IF arch = "toyriscv32" THEN "cpu-rv32" ELSE "cpu-rv64"

\* Mutant of AssemblerCPU: no default.
AssemblerCPUAsGiven(arch, cpu) == cpu

\* createTOYRISCVMCSubtargetInfo: the CPU when none is given.
AssemblerCPU(arch, cpu) ==
  IF cpu # "" THEN cpu ELSE IF IsArch64Bit(arch) THEN "cpu-rv64" ELSE "cpu-rv32"

\* Mutants of Order: the features are parsed too late for the register info, or
\* for the lowering; the ABI comes after the subtarget.
OrderRegInfoFirst ==
  <<"TargetMachine", "TLOF", "ABI", "SubtargetInfo", "Fields", "RegInfo",
    "FrameLowering", "TargetLowering", "AsmInfo">>
OrderLoweringFirst ==
  <<"TargetMachine", "TLOF", "ABI", "SubtargetInfo", "Fields", "TargetLowering",
    "FrameLowering", "RegInfo", "AsmInfo">>
OrderABILast ==
  <<"TargetMachine", "TLOF", "SubtargetInfo", "Fields", "FrameLowering",
    "TargetLowering", "RegInfo", "ABI", "AsmInfo">>

\* The order of construction: the base class and the members of the machine, the
\* base class and the members of DefaultSubtarget, the call of initAsmInfo.
Order ==
  <<"TargetMachine", "TLOF", "ABI", "SubtargetInfo", "Fields", "FrameLowering",
    "TargetLowering", "RegInfo", "AsmInfo">>

Steps == 9
Index(member) == CHOOSE k \in 1 .. Steps : Order[k] = member

----------------------------------------------------------------------------
VARIABLES
  opt,    \* the options
  done,   \* how many steps of Order are done
  status, \* "constructing", "ready" or "aborted"
  tm,     \* the machine: data layout, relocation model, ABI
  sub,    \* the subtarget: feature bits, XLenVT, what the others made of it
  mc,     \* the assembler's feature bits
  early   \* the members that were read before they were constructed (history)

vars == <<opt, done, status, tm, sub, mc, early>>

\* A width, or a name, that no constructor has written yet.
Unset  == 0
NoName == "unset"

Init ==
  /\ opt \in Options
  /\ done = 0 /\ status = "constructing" /\ early = {}
  /\ tm = [p |-> Unset, n |-> Unset, reloc |-> NoName, abi |-> NoName]
  /\ sub = [features |-> Unset, xlen |-> Unset, lowering |-> Unset, hwMode |-> Unset]
  /\ mc = Unset

\* The next step of Order constructs `member` and reads the members `reads`.
Construct(member, reads) ==
  /\ status = "constructing" /\ done < Steps /\ Order[done + 1] = member
  /\ done' = done + 1
  /\ early' = early \cup {r \in reads : Index(r) > done}
  /\ UNCHANGED opt

\* FeatureRV64, XLenVT and the mode are kept as a width in bits.
Bits(rv64) == IF rv64 THEN 64 ELSE 32

\* LLVMTargetMachine's constructor, with its computed arguments.
ConstructTargetMachine ==
  /\ Construct("TargetMachine", {})
  /\ tm' = [p |-> ComputeDataLayout(opt.arch).p, n |-> ComputeDataLayout(opt.arch).n,
            reloc |-> EffectiveRelocModel(opt.jit, opt.reloc), abi |-> tm.abi]
  /\ UNCHANGED <<status, sub, mc>>

ConstructTLOF ==
  /\ Construct("TLOF", {})
  /\ UNCHANGED <<status, tm, sub, mc>>

ConstructABI ==
  /\ Construct("ABI", {})
  /\ status' = IF ComputeTargetABI(opt.abi) = "abort" THEN "aborted" ELSE status
  /\ tm' = [tm EXCEPT !.abi = ComputeTargetABI(opt.abi)]
  /\ UNCHANGED <<sub, mc>>

\* TOYRISCVGenSubtargetInfo: the feature bits of the CPU as it was given.
ConstructSubtargetInfo ==
  /\ Construct("SubtargetInfo", {})
  /\ sub' = [sub EXCEPT !.features = Bits(Features(opt.cpu, opt.fs))]
  /\ UNCHANGED <<status, tm, mc>>

\* The members with default initialisers, TargetTriple, TM and InstrInfo.
ConstructFields ==
  /\ Construct("Fields", {"TargetMachine"})
  /\ sub' = [sub EXCEPT !.xlen = 32]
  /\ UNCHANGED <<status, tm, mc>>

\* FrameLowering's argument is initializeSubtargetDependencies: the feature bits
\* of the CPU it settles on, and XLenVT.
ConstructFrameLowering ==
  /\ Construct("FrameLowering", {"SubtargetInfo", "Fields"})
  /\ LET features == Bits(Features(CodegenCPU(opt.arch, opt.cpu), opt.fs))
     IN  sub' = [features |-> features, xlen |-> features,
                 lowering |-> sub.lowering, hwMode |-> sub.hwMode]
  /\ UNCHANGED <<status, tm, mc>>

\* TOYRISCVTargetLowering copies the ABI, registers GPR for XLenVT and passes
\* the address of RegInfo to computeRegisterProperties.  RegInfo is not
\* constructed then; as GPR has no super-register class, whatever is there leaves
\* GPR its own representative.
ConstructTargetLowering ==
  /\ Construct("TargetLowering", {"TargetMachine", "ABI", "FrameLowering", "RegInfo"})
  /\ sub' = [sub EXCEPT !.lowering = sub.xlen]
  /\ UNCHANGED <<status, tm, mc>>

\* RegInfo takes the mode of the feature bits: the size of a GPR.
ConstructRegInfo ==
  /\ Construct("RegInfo", {"SubtargetInfo", "FrameLowering"})
  /\ sub' = [sub EXCEPT !.hwMode = sub.features]
  /\ UNCHANGED <<status, tm, mc>>

\* initAsmInfo creates the MC objects.
InitAsmInfo ==
  /\ Construct("AsmInfo", {"TargetMachine"})
  /\ mc' = Bits(Features(AssemblerCPU(opt.arch, opt.cpu), opt.fs))
  /\ status' = "ready"
  /\ UNCHANGED <<tm, sub>>

\* The machine is ready, or the process is gone.
Finished == status # "constructing" /\ UNCHANGED vars

Next ==
  \/ ConstructTargetMachine \/ ConstructTLOF \/ ConstructABI
  \/ ConstructSubtargetInfo \/ ConstructFields \/ ConstructFrameLowering
  \/ ConstructTargetLowering \/ ConstructRegInfo \/ InitAsmInfo
  \/ Finished

Spec == Init /\ [][Next]_vars

----------------------------------------------------------------------------
(* Properties.                                                             *)

\* Widths and modes have their type; what the steps up to `done` construct is
\* set, the rest is not.
TypeOK ==
  /\ opt \in Options /\ done \in 0 .. Steps
  /\ status \in {"constructing", "ready", "aborted"}
  /\ early \subseteq {Order[k] : k \in 1 .. Steps}
  /\ IF done >= Index("TargetMachine")
     THEN tm.p \in {32, 64} /\ tm.n = tm.p /\ tm.reloc \in {"static", "pic"}
     ELSE tm.p = Unset /\ tm.n = Unset /\ tm.reloc = NoName
  /\ tm.abi \in IF done >= Index("ABI") THEN {"LP", "STACK", "abort"} ELSE {NoName}
  /\ tm.abi = "abort" <=> status = "aborted"
  /\ sub.features \in IF done >= Index("SubtargetInfo") THEN {32, 64} ELSE {Unset}
  /\ sub.xlen \in IF done >= Index("Fields") THEN {32, 64} ELSE {Unset}
  /\ sub.lowering \in IF done >= Index("TargetLowering") THEN {32, 64} ELSE {Unset}
  /\ sub.hwMode \in IF done >= Index("RegInfo") THEN {32, 64} ELSE {Unset}
  /\ mc \in IF status = "ready" THEN {32, 64} ELSE {Unset}

\* No constructor reads a member that is constructed later, but for the RegInfo
\* whose address the lowering's constructor hands on.
OnlyRegInfoReadEarly == early \subseteq {"RegInfo"}

\* The lowering and the register info are built for the final XLenVT: types are
\* legal in registers of their own width.
ModesAgree ==
  status = "ready" => sub.lowering = sub.xlen /\ sub.hwMode = sub.xlen

\* Once the lowering has been constructed the feature bits and XLenVT, which the
\* selector reads again for every function, do not change.
SettledBeforeUse ==
  [][sub.lowering # Unset => sub'.features = sub.features /\ sub'.xlen = sub.xlen]_vars

\* The CPU or the feature string names a width that the triple does not have.
Contradictory(o) ==
  \/ o.fs = (IF IsArch64Bit(o.arch) THEN "-64bit" ELSE "+64bit")
  \/ o.fs = "" /\ o.cpu \in (IF IsArch64Bit(o.arch) THEN {"cpu-rv32", "unknown"}
                             ELSE {"cpu-rv64"})

\* The machine is ready with one width of registers; unless it is asked to contradict
\* the triple it is that of the data layout's pointers and integers.
LayoutFitsRegisters ==
  /\ ModesAgree
  /\ status = "ready" /\ ~Contradictory(opt) => tm.p = sub.xlen /\ tm.n = sub.xlen

\* The machine implements TargetConfig: the widths are decided by the options
\* alone and seen all at once when the constructor returns.
Config ==
  INSTANCE TargetConfig WITH
    config <- IF status = "aborted" THEN [state |-> "failed"]
              ELSE IF status = "constructing" THEN [state |-> "none"]
              ELSE [state |-> "ready", pointer |-> tm.p, register |-> sub.lowering,
                    assembler |-> mc]

ConfigImplemented == Config!CSpec
=============================================================================
