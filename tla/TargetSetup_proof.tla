-------------------------- MODULE TargetSetup_proof --------------------------
(***************************************************************************)
(* Proofs about TargetSetup.  The whole state is a function of the options *)
(* and of the number of constructors that have run: that function is the   *)
(* inductive invariant, and every property is read off it.                 *)
(***************************************************************************)
EXTENDS TargetSetup, TLAPS

Aborts == opt.abi = "unknown"

\* The width the code generator settles on, and the one of the assembler.
CodegenBits   == Bits(Features(CodegenCPU(opt.arch, opt.cpu), opt.fs))
AssemblerBits == Bits(Features(AssemblerCPU(opt.arch, opt.cpu), opt.fs))

\* The value of a width that the step k sets, and that no later one changes.
SetAt(k, width) == IF done >= k THEN width ELSE Unset

Progress ==
  /\ opt \in Options /\ done \in 0 .. Steps
  /\ Aborts => done <= 3
  /\ status = IF Aborts /\ done = 3 THEN "aborted"
              ELSE IF done = Steps THEN "ready" ELSE "constructing"
  /\ early = IF done >= 7 THEN {"RegInfo"} ELSE {}

MachineState ==
  tm = [p     |-> SetAt(1, Bits(IsArch64Bit(opt.arch))),
        n     |-> SetAt(1, Bits(IsArch64Bit(opt.arch))),
        reloc |-> IF done >= 1 THEN EffectiveRelocModel(opt.jit, opt.reloc) ELSE NoName,
        abi   |-> IF done >= 3 THEN ComputeTargetABI(opt.abi) ELSE NoName]

\* Between the steps 4 and 6 the subtarget holds values that are not final.
SubtargetState ==
  sub = [features |-> IF done < 4 THEN Unset
                      ELSE IF done < 6 THEN Bits(Features(opt.cpu, opt.fs)) ELSE CodegenBits,
         xlen     |-> IF done < 5 THEN Unset ELSE IF done < 6 THEN 32 ELSE CodegenBits,
         lowering |-> SetAt(7, CodegenBits),
         hwMode   |-> SetAt(8, CodegenBits)]

AssemblerState == mc = SetAt(9, AssemblerBits)

IInv == Progress /\ MachineState /\ SubtargetState /\ AssemblerState

----------------------------------------------------------------------------
(* Positions in Order.                                                     *)

LEMMA Positions ==
  /\ Index("TargetMachine") = 1 /\ Index("TLOF") = 2 /\ Index("ABI") = 3
  /\ Index("SubtargetInfo") = 4 /\ Index("Fields") = 5 /\ Index("FrameLowering") = 6
  /\ Index("TargetLowering") = 7 /\ Index("RegInfo") = 8 /\ Index("AsmInfo") = 9
<1>1. \A k \in 1 .. 9 :
        k = 1 \/ k = 2 \/ k = 3 \/ k = 4 \/ k = 5 \/ k = 6 \/ k = 7 \/ k = 8 \/ k = 9
  OBVIOUS
<1>2. Index("TargetMachine") = 1  BY <1>1 DEF Index, Order, Steps
<1>3. Index("TLOF") = 2           BY <1>1 DEF Index, Order, Steps
<1>4. Index("ABI") = 3            BY <1>1 DEF Index, Order, Steps
<1>5. Index("SubtargetInfo") = 4  BY <1>1 DEF Index, Order, Steps
<1>6. Index("Fields") = 5         BY <1>1 DEF Index, Order, Steps
<1>7. Index("FrameLowering") = 6  BY <1>1 DEF Index, Order, Steps
<1>8. Index("TargetLowering") = 7 BY <1>1 DEF Index, Order, Steps
<1>9. Index("RegInfo") = 8        BY <1>1 DEF Index, Order, Steps
<1>10. Index("AsmInfo") = 9       BY <1>1 DEF Index, Order, Steps
<1> QED BY <1>2, <1>3, <1>4, <1>5, <1>6, <1>7, <1>8, <1>9, <1>10

\* Which step of Order constructs a member.
LEMMA StepOf ==
  ASSUME NEW d \in 0 .. 8
  PROVE  /\ Order[d + 1] = "TargetMachine"  => d = 0
         /\ Order[d + 1] = "TLOF"           => d = 1
         /\ Order[d + 1] = "ABI"            => d = 2
         /\ Order[d + 1] = "SubtargetInfo"  => d = 3
         /\ Order[d + 1] = "Fields"         => d = 4
         /\ Order[d + 1] = "FrameLowering"  => d = 5
         /\ Order[d + 1] = "TargetLowering" => d = 6
         /\ Order[d + 1] = "RegInfo"        => d = 7
         /\ Order[d + 1] = "AsmInfo"        => d = 8
<1>1. d = 0 \/ d = 1 \/ d = 2 \/ d = 3 \/ d = 4 \/ d = 5 \/ d = 6 \/ d = 7 \/ d = 8
  OBVIOUS
<1> QED BY <1>1 DEF Order

\* What every construction step does to Progress, for a step that reads nothing
\* that comes later.
LEMMA Constructed ==
  ASSUME IInv, NEW member, NEW reads, Construct(member, reads)
  PROVE  /\ opt' = opt /\ opt \in Options /\ done \in 0 .. 8 /\ done' = done + 1
         /\ Order[done + 1] = member /\ status = "constructing"
         /\ ~(Aborts /\ done = 3) /\ (Aborts => done <= 2) /\ Aborts' = Aborts
  BY DEF IInv, Progress, Construct, Steps, Aborts

----------------------------------------------------------------------------
(* The invariant is inductive.                                             *)

LEMMA Initially == Init => IInv
  BY DEF Init, IInv, Progress, MachineState, SubtargetState, AssemblerState, SetAt,
         Steps, Aborts

LEMMA TargetMachineStep == IInv /\ ConstructTargetMachine => IInv'
<1> SUFFICES ASSUME IInv, ConstructTargetMachine PROVE IInv'  OBVIOUS
<1>1. Construct("TargetMachine", {})  BY DEF ConstructTargetMachine
<1>2. done = 0 /\ done' = 1 /\ opt' = opt  BY <1>1, Constructed, StepOf
<1>3. Progress'
  BY <1>1, <1>2, Constructed DEF IInv, Progress, ConstructTargetMachine, Construct, Steps, Aborts
<1>4. MachineState'
  BY <1>2 DEF IInv, MachineState, ConstructTargetMachine, ComputeDataLayout, SetAt, Bits
<1>5. SubtargetState' /\ AssemblerState'
  BY <1>2 DEF IInv, SubtargetState, AssemblerState, ConstructTargetMachine, SetAt
<1> QED BY <1>3, <1>4, <1>5 DEF IInv

LEMMA TLOFStep == IInv /\ ConstructTLOF => IInv'
<1> SUFFICES ASSUME IInv, ConstructTLOF PROVE IInv'  OBVIOUS
<1>1. Construct("TLOF", {})  BY DEF ConstructTLOF
<1>2. done = 1 /\ done' = 2 /\ opt' = opt  BY <1>1, Constructed, StepOf
<1>3. Progress'
  BY <1>1, <1>2, Constructed DEF IInv, Progress, ConstructTLOF, Construct, Steps, Aborts
<1>4. MachineState' /\ SubtargetState' /\ AssemblerState'
  BY <1>2 DEF IInv, MachineState, SubtargetState, AssemblerState, ConstructTLOF, SetAt
<1> QED BY <1>3, <1>4 DEF IInv

\* "abort" is the result for "unknown" only.
LEMMA ABIStep == IInv /\ ConstructABI => IInv'
<1> SUFFICES ASSUME IInv, ConstructABI PROVE IInv'  OBVIOUS
<1>1. Construct("ABI", {})  BY DEF ConstructABI
<1>2. done = 2 /\ done' = 3 /\ opt' = opt /\ opt \in Options
  BY <1>1, Constructed, StepOf
<1>3. ComputeTargetABI(opt.abi) = "abort" <=> Aborts
  BY <1>2 DEF ComputeTargetABI, Options, ABIName, Aborts
<1>4. Progress'
  BY <1>1, <1>2, <1>3, Constructed DEF IInv, Progress, ConstructABI, Construct, Steps, Aborts
<1>5. MachineState'
  BY <1>2 DEF IInv, MachineState, ConstructABI, SetAt
<1>6. SubtargetState' /\ AssemblerState'
  BY <1>2 DEF IInv, SubtargetState, AssemblerState, ConstructABI, SetAt
<1> QED BY <1>4, <1>5, <1>6 DEF IInv

LEMMA SubtargetInfoStep == IInv /\ ConstructSubtargetInfo => IInv'
<1> SUFFICES ASSUME IInv, ConstructSubtargetInfo PROVE IInv'  OBVIOUS
<1>1. Construct("SubtargetInfo", {})  BY DEF ConstructSubtargetInfo
<1>2. done = 3 /\ done' = 4 /\ opt' = opt  BY <1>1, Constructed, StepOf
<1>3. Progress'
  BY <1>1, <1>2, Constructed DEF IInv, Progress, ConstructSubtargetInfo, Construct, Steps, Aborts
<1>4. SubtargetState'
  BY <1>2 DEF IInv, SubtargetState, ConstructSubtargetInfo, SetAt
<1>5. MachineState' /\ AssemblerState'
  BY <1>2 DEF IInv, MachineState, AssemblerState, ConstructSubtargetInfo, SetAt
<1> QED BY <1>3, <1>4, <1>5 DEF IInv

LEMMA FieldsStep == IInv /\ ConstructFields => IInv'
<1> SUFFICES ASSUME IInv, ConstructFields PROVE IInv'  OBVIOUS
<1>1. Construct("Fields", {"TargetMachine"})  BY DEF ConstructFields
<1>2. done = 4 /\ done' = 5 /\ opt' = opt  BY <1>1, Constructed, StepOf
<1>3. early' = early  BY <1>1, <1>2, Positions DEF Construct
<1>4. Progress'
  BY <1>1, <1>2, <1>3, Constructed DEF IInv, Progress, ConstructFields, Construct, Steps, Aborts
<1>5. SubtargetState'
  BY <1>2 DEF IInv, SubtargetState, ConstructFields, SetAt
<1>6. MachineState' /\ AssemblerState'
  BY <1>2 DEF IInv, MachineState, AssemblerState, ConstructFields, SetAt
<1> QED BY <1>4, <1>5, <1>6 DEF IInv

LEMMA FrameLoweringStep == IInv /\ ConstructFrameLowering => IInv'
<1> SUFFICES ASSUME IInv, ConstructFrameLowering PROVE IInv'  OBVIOUS
<1>1. Construct("FrameLowering", {"SubtargetInfo", "Fields"})  BY DEF ConstructFrameLowering
<1>2. done = 5 /\ done' = 6 /\ opt' = opt  BY <1>1, Constructed, StepOf
<1>3. early' = early  BY <1>1, <1>2, Positions DEF Construct
<1>4. Progress'
  BY <1>1, <1>2, <1>3, Constructed
  DEF IInv, Progress, ConstructFrameLowering, Construct, Steps, Aborts
<1>5. SubtargetState'
  BY <1>2 DEF IInv, SubtargetState, ConstructFrameLowering, CodegenBits, SetAt
<1>6. MachineState' /\ AssemblerState'
  BY <1>2 DEF IInv, MachineState, AssemblerState, ConstructFrameLowering, SetAt
<1> QED BY <1>4, <1>5, <1>6 DEF IInv

\* The one step that reads something that comes later.
LEMMA TargetLoweringStep == IInv /\ ConstructTargetLowering => IInv'
<1> SUFFICES ASSUME IInv, ConstructTargetLowering PROVE IInv'  OBVIOUS
<1>1. Construct("TargetLowering", {"TargetMachine", "ABI", "FrameLowering", "RegInfo"})
  BY DEF ConstructTargetLowering
<1>2. done = 6 /\ done' = 7 /\ opt' = opt  BY <1>1, Constructed, StepOf
<1>3. early' = {"RegInfo"}
  <2>1. early = {}  BY <1>2 DEF IInv, Progress
  <2>2. {r \in {"TargetMachine", "ABI", "FrameLowering", "RegInfo"} : Index(r) > 6} = {"RegInfo"}
    BY Positions
  <2> QED BY <1>1, <1>2, <2>1, <2>2 DEF Construct
<1>4. Progress'
  BY <1>1, <1>2, <1>3, Constructed
  DEF IInv, Progress, ConstructTargetLowering, Construct, Steps, Aborts
<1>5. SubtargetState'
  BY <1>2 DEF IInv, SubtargetState, ConstructTargetLowering, CodegenBits, SetAt
<1>6. MachineState' /\ AssemblerState'
  BY <1>2 DEF IInv, MachineState, AssemblerState, ConstructTargetLowering, SetAt
<1> QED BY <1>4, <1>5, <1>6 DEF IInv

LEMMA RegInfoStep == IInv /\ ConstructRegInfo => IInv'
<1> SUFFICES ASSUME IInv, ConstructRegInfo PROVE IInv'  OBVIOUS
<1>1. Construct("RegInfo", {"SubtargetInfo", "FrameLowering"})  BY DEF ConstructRegInfo
<1>2. done = 7 /\ done' = 8 /\ opt' = opt  BY <1>1, Constructed, StepOf
<1>3. early' = early  BY <1>1, <1>2, Positions DEF Construct
<1>4. Progress'
  BY <1>1, <1>2, <1>3, Constructed DEF IInv, Progress, ConstructRegInfo, Construct, Steps, Aborts
<1>5. SubtargetState'
  BY <1>2 DEF IInv, SubtargetState, ConstructRegInfo, CodegenBits, SetAt
<1>6. MachineState' /\ AssemblerState'
  BY <1>2 DEF IInv, MachineState, AssemblerState, ConstructRegInfo, SetAt
<1> QED BY <1>4, <1>5, <1>6 DEF IInv

LEMMA AsmInfoStep == IInv /\ InitAsmInfo => IInv'
<1> SUFFICES ASSUME IInv, InitAsmInfo PROVE IInv'  OBVIOUS
<1>1. Construct("AsmInfo", {"TargetMachine"})  BY DEF InitAsmInfo
<1>2. done = 8 /\ done' = 9 /\ opt' = opt  BY <1>1, Constructed, StepOf
<1>3. early' = early  BY <1>1, <1>2, Positions DEF Construct
<1>4. Progress'
  BY <1>1, <1>2, <1>3, Constructed DEF IInv, Progress, InitAsmInfo, Construct, Steps, Aborts
<1>5. MachineState' /\ SubtargetState' /\ AssemblerState'
  BY <1>2
  DEF IInv, MachineState, SubtargetState, AssemblerState, InitAsmInfo, AssemblerBits,
      CodegenBits, SetAt
<1> QED BY <1>4, <1>5 DEF IInv

LEMMA StutterStep == IInv /\ UNCHANGED vars => IInv'
  BY DEF IInv, Progress, MachineState, SubtargetState, AssemblerState, SetAt, CodegenBits,
         AssemblerBits, Aborts, vars

LEMMA StepPreserves == IInv /\ [Next]_vars => IInv'
<1> SUFFICES ASSUME IInv, [Next]_vars PROVE IInv'  OBVIOUS
<1>1. CASE ConstructTargetMachine   BY <1>1, TargetMachineStep
<1>2. CASE ConstructTLOF            BY <1>2, TLOFStep
<1>3. CASE ConstructABI             BY <1>3, ABIStep
<1>4. CASE ConstructSubtargetInfo   BY <1>4, SubtargetInfoStep
<1>5. CASE ConstructFields          BY <1>5, FieldsStep
<1>6. CASE ConstructFrameLowering   BY <1>6, FrameLoweringStep
<1>7. CASE ConstructTargetLowering  BY <1>7, TargetLoweringStep
<1>8. CASE ConstructRegInfo         BY <1>8, RegInfoStep
<1>9. CASE InitAsmInfo              BY <1>9, AsmInfoStep
<1>10. CASE Finished                BY <1>10, StutterStep DEF Finished
<1>11. CASE UNCHANGED vars          BY <1>11, StutterStep
<1> QED
  BY <1>1, <1>2, <1>3, <1>4, <1>5, <1>6, <1>7, <1>8, <1>9, <1>10, <1>11 DEF Next

LEMMA Inductive == Spec => []IInv
<1>1. Init => IInv  BY Initially
<1>2. IInv /\ [Next]_vars => IInv'  BY StepPreserves
<1> QED BY <1>1, <1>2, PTL DEF Spec

----------------------------------------------------------------------------
(* The properties.                                                         *)

LEMMA WidthsOfOptions ==
  ASSUME opt \in Options
  PROVE  CodegenBits \in {32, 64} /\ AssemblerBits \in {32, 64}
         /\ Bits(IsArch64Bit(opt.arch)) \in {32, 64}
         /\ Bits(Features(opt.cpu, opt.fs)) \in {32, 64}
  BY DEF CodegenBits, AssemblerBits, Bits

\* The machine's members are set by the steps that construct them, and only by
\* those: type correctness (TOYRISCVTargetMachine and TOYRISCVSubtarget).
THEOREM SetupTypeCorrect == Spec => []TypeOK
<1>1. IInv => TypeOK
  <2> SUFFICES ASSUME IInv PROVE TypeOK  OBVIOUS
  <2>1. opt \in Options /\ done \in 0 .. 9  BY DEF IInv, Progress, Steps
  <2>2. ComputeTargetABI(opt.abi) \in {"LP", "STACK", "abort"}
        /\ (ComputeTargetABI(opt.abi) = "abort" <=> Aborts)
    BY <2>1 DEF ComputeTargetABI, Options, ABIName, Aborts
  <2>3. EffectiveRelocModel(opt.jit, opt.reloc) \in {"static", "pic"}
    BY <2>1 DEF EffectiveRelocModel, Options, RelocModel
  <2>4. status \in {"constructing", "ready", "aborted"}
        /\ early \subseteq {Order[k] : k \in 1 .. Steps}
    <3>1. "RegInfo" = Order[8]  BY DEF Order
    <3> QED BY <3>1 DEF IInv, Progress, Steps
  <2>5. IF done >= Index("TargetMachine")
        THEN tm.p \in {32, 64} /\ tm.n = tm.p /\ tm.reloc \in {"static", "pic"}
        ELSE tm.p = Unset /\ tm.n = Unset /\ tm.reloc = NoName
    BY <2>1, <2>3, Positions, WidthsOfOptions DEF IInv, MachineState, SetAt
  <2>6. tm.abi = IF done >= 3 THEN ComputeTargetABI(opt.abi) ELSE NoName
    BY DEF IInv, MachineState
  <2>7. tm.abi \in IF done >= Index("ABI") THEN {"LP", "STACK", "abort"} ELSE {NoName}
    BY <2>2, <2>6, Positions
  <2>8. tm.abi = "abort" <=> status = "aborted"
    BY <2>1, <2>2, <2>6 DEF IInv, Progress, NoName, Steps
  <2>9. /\ sub.features \in IF done >= Index("SubtargetInfo") THEN {32, 64} ELSE {Unset}
        /\ sub.xlen \in IF done >= Index("Fields") THEN {32, 64} ELSE {Unset}
        /\ sub.lowering \in IF done >= Index("TargetLowering") THEN {32, 64} ELSE {Unset}
        /\ sub.hwMode \in IF done >= Index("RegInfo") THEN {32, 64} ELSE {Unset}
    BY <2>1, Positions, WidthsOfOptions DEF IInv, SubtargetState, SetAt
  <2>10. mc \in IF status = "ready" THEN {32, 64} ELSE {Unset}
    BY <2>1, WidthsOfOptions DEF IInv, Progress, AssemblerState, SetAt, Steps
  <2> QED BY <2>1, <2>4, <2>5, <2>7, <2>8, <2>9, <2>10 DEF TypeOK, Steps
<1> QED BY <1>1, Inductive, PTL

\* For every set of options, no constructor uses a member before it exists, but
\* for the RegInfo whose address TOYRISCVTargetLowering hands on.
THEOREM ReadOrder == Spec => []OnlyRegInfoReadEarly
<1>1. IInv => OnlyRegInfoReadEarly  BY DEF IInv, Progress, OnlyRegInfoReadEarly
<1> QED BY <1>1, Inductive, PTL

\* The lowering and the register info of a finished machine are built for its
\* XLenVT, although XLenVT changes while the subtarget is constructed.  Unless the
\* options contradict the triple, registers are as wide as the pointers and integers
\* of the data layout.
THEOREM SetupLayout == Spec => []LayoutFitsRegisters
<1>1. IInv => ModesAgree
  BY DEF IInv, Progress, SubtargetState, SetAt, ModesAgree, Steps
<1>2. IInv => LayoutFitsRegisters
  <2> SUFFICES ASSUME IInv, status = "ready", ~Contradictory(opt)
               PROVE  tm.p = sub.xlen /\ tm.n = sub.xlen
    BY <1>1 DEF LayoutFitsRegisters
  <2>1. done = 9 /\ opt \in Options  BY DEF IInv, Progress, Steps
  <2>2. tm.p = Bits(IsArch64Bit(opt.arch)) /\ tm.n = tm.p /\ sub.xlen = CodegenBits
    BY <2>1 DEF IInv, MachineState, SubtargetState, SetAt
  <2>3. Features(CodegenCPU(opt.arch, opt.cpu), opt.fs) <=> IsArch64Bit(opt.arch)
    BY <2>1 DEF Contradictory, Features, CodegenCPU, IsArch64Bit, Options, Arch, CPU, FS
  <2> QED BY <2>2, <2>3 DEF CodegenBits, Bits
<1> QED BY <1>2, Inductive, PTL

\* The feature bits and XLenVT are final before the lowering copies them.
THEOREM SetupSettled == Spec => SettledBeforeUse
<1>1. IInv /\ IInv' /\ [Next]_vars
        => [sub.lowering # Unset => sub'.features = sub.features /\ sub'.xlen = sub.xlen]_vars
  <2> SUFFICES ASSUME IInv, IInv', [Next]_vars, sub.lowering # Unset
               PROVE  sub'.features = sub.features /\ sub'.xlen = sub.xlen
    OBVIOUS
  <2>1. done \in 0 .. 9 /\ done >= 7  BY DEF IInv, Progress, SubtargetState, SetAt, Steps
  <2>2. done' >= done /\ done' \in 0 .. 9 /\ opt' = opt
    BY <2>1 DEF IInv, Progress, Next, ConstructTargetMachine, ConstructTLOF, ConstructABI,
       ConstructSubtargetInfo, ConstructFields, ConstructFrameLowering,
       ConstructTargetLowering, ConstructRegInfo, InitAsmInfo, Construct, Finished, vars, Steps
  <2>3. CodegenBits' = CodegenBits  BY <2>2 DEF CodegenBits
  <2> QED BY <2>1, <2>2, <2>3 DEF IInv, SubtargetState
<1>2. IInv /\ [Next]_vars => IInv'  BY StepPreserves
<1> QED BY <1>1, <1>2, Initially, PTL DEF Spec, SettledBeforeUse

----------------------------------------------------------------------------
(* TargetConfig is implemented.                                            *)

\* The value of Config's variable: the expression of INSTANCE.
Abstract ==
  IF status = "aborted" THEN [state |-> "failed"]
  ELSE IF status = "constructing" THEN [state |-> "none"]
  ELSE [state |-> "ready", pointer |-> tm.p, register |-> sub.lowering, assembler |-> mc]

\* When construction ends, the machine has the widths that Ready gives the options.
LEMMA FinalWidths ==
  IInv /\ done = 9
    => [state |-> "ready", pointer |-> tm.p, register |-> sub.lowering, assembler |-> mc]
         = Config!Ready(opt)
<1> SUFFICES ASSUME IInv, done = 9
             PROVE  [state |-> "ready", pointer |-> tm.p, register |-> sub.lowering,
                     assembler |-> mc] = Config!Ready(opt)
  OBVIOUS
<1>1. opt \in Options  BY DEF IInv, Progress
<1>2. tm.p = Bits(IsArch64Bit(opt.arch)) /\ sub.lowering = CodegenBits /\ mc = AssemblerBits
  BY DEF IInv, MachineState, SubtargetState, AssemblerState, SetAt
<1>3. tm.p = Config!Width(Config!Is64(opt))
  BY <1>2 DEF Bits, IsArch64Bit, Config!Width, Config!Is64
<1>4. Features(CodegenCPU(opt.arch, opt.cpu), opt.fs) <=> Config!Codegen64(opt)
  BY <1>1 DEF Features, CodegenCPU, Config!Codegen64, Config!Is64, Options, Arch, CPU, FS
<1>5. Features(AssemblerCPU(opt.arch, opt.cpu), opt.fs) <=> Config!Assembler64(opt)
  BY <1>1 DEF Features, AssemblerCPU, IsArch64Bit, Config!Assembler64, Config!Codegen64,
     Config!Is64, Options, Arch, CPU, FS
<1>6. sub.lowering = Config!Width(Config!Codegen64(opt))
  BY <1>2, <1>4 DEF CodegenBits, Bits, Config!Width
<1>7. mc = Config!Width(Config!Assembler64(opt))
  BY <1>2, <1>5 DEF AssemblerBits, Bits, Config!Width
<1> QED BY <1>3, <1>6, <1>7 DEF Config!Ready

\* Constructing the machine member by member implements deciding the widths in
\* one step from the options alone.
THEOREM SetupImplementsConfig == Spec => ConfigImplemented
<1>1. Init => Config!CInit
  BY DEF Init, Config!CInit, Config!None, Options, Arch, CPU, FS, ABIName, RelocModel,
     Config!Options, Config!Arch, Config!CPU, Config!FS, Config!ABIName, Config!RelocModel
<1>2. (IInv /\ done = 9
         => [state |-> "ready", pointer |-> tm.p, register |-> sub.lowering, assembler |-> mc]
              = Config!Ready(opt))'
  BY FinalWidths, PTL
<1>3. IInv /\ IInv' /\ [Next]_vars => [Config!CNext]_(Config!cvars)
  <2> SUFFICES ASSUME IInv, IInv', [Next]_vars
               PROVE  Config!CNext \/ (opt' = opt /\ Abstract' = Abstract)
    BY DEF Config!cvars, Abstract
  <2>1. opt' = opt
    BY DEF Next, ConstructTargetMachine, ConstructTLOF, ConstructABI,
       ConstructSubtargetInfo, ConstructFields, ConstructFrameLowering,
       ConstructTargetLowering, ConstructRegInfo, InitAsmInfo, Construct, Finished, vars
  <2>2. CASE ConstructABI /\ Aborts
    <3>1. Construct("ABI", {})  BY <2>2 DEF ConstructABI
    <3>2. done = 2 /\ done' = 3 /\ status = "constructing"
      BY <3>1, Constructed, StepOf
    <3>3. status' = "aborted"  BY <2>1, <2>2, <3>2 DEF IInv, Progress, Aborts
    <3> QED BY <2>1, <2>2, <3>2, <3>3 DEF Config!CNext, Config!Fail, Config!None,
               Config!Failed, Aborts
  <2>3. CASE InitAsmInfo
    <3>1. Construct("AsmInfo", {"TargetMachine"})  BY <2>3 DEF InitAsmInfo
    <3>2. done = 8 /\ done' = 9 /\ status = "constructing" /\ ~Aborts
      BY <3>1, Constructed, StepOf
    <3>3. status' = "ready"  BY <2>3 DEF InitAsmInfo
    <3>4. [state |-> "ready", pointer |-> tm'.p, register |-> sub'.lowering, assembler |-> mc']
            = Config!Ready(opt)
      BY <1>2, <2>1, <3>2 DEF Config!Ready, Config!Width, Config!Is64, Config!Codegen64,
         Config!Assembler64
    <3> QED BY <2>1, <3>2, <3>3, <3>4 DEF Config!CNext, Config!Configure, Config!None, Aborts
  <2>4. CASE status' = "constructing" /\ status = "constructing"
    BY <2>1, <2>4 DEF Abstract
  <2>5. CASE UNCHANGED vars
    BY <2>5 DEF Abstract, vars
  <2> QED
    <3>1. ConstructABI /\ ~Aborts => status' = "constructing" /\ status = "constructing"
      BY DEF ConstructABI, Construct, ComputeTargetABI, IInv, Progress, Options, ABIName, Aborts
    <3> QED BY <2>2, <2>3, <2>4, <2>5, <3>1
            DEF Next, ConstructTargetMachine, ConstructTLOF, ConstructSubtargetInfo,
                ConstructFields, ConstructFrameLowering, ConstructTargetLowering,
                ConstructRegInfo, Construct, Finished
<1>4. IInv /\ [Next]_vars => IInv'  BY StepPreserves
<1> QED BY <1>1, <1>3, <1>4, Initially, PTL DEF Spec, ConfigImplemented, Config!CSpec
=============================================================================
