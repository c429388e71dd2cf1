----------------------------- MODULE TargetConfig -----------------------------
(***************************************************************************)
(* What setting up the TOYRISCV target promises: from the options of the   *)
(* command line it decides, once and in one step, how wide a pointer of    *)
(* the data layout, a register of the code generator and a register of the *)
(* assembler are, or it fails.                                             *)
(***************************************************************************)

\* What the command line asks for.  "" is an option that is not given.
Arch       == {"toyriscv32", "toyriscv64"}
CPU        == {"", "generic", "cpu-rv32", "cpu-rv64", "unknown"}
FS         == {"", "+64bit", "-64bit"}
ABIName    == {"", "lp", "stack", "unknown"}
RelocModel == {"", "static", "pic"}

Options == [arch : Arch, cpu : CPU, fs : FS, abi : ABIName, reloc : RelocModel, jit : BOOLEAN]

VARIABLES opt, config

cvars == <<opt, config>>

\* The triple names 64 bits.
Is64(o) == o.arch = "toyriscv64"

\* The code generator has 64 bits: the feature string decides, else the CPU, else
\* the triple.
Codegen64(o) ==
  \/ o.fs = "+64bit"
  \/ o.fs = "" /\ o.cpu = "cpu-rv64"
  \/ o.fs = "" /\ o.cpu \in {"", "generic"} /\ Is64(o)

\* The assembler decides the same way, but does not know the CPU "generic".
Assembler64(o) == Codegen64(o) /\ ~(o.fs = "" /\ o.cpu = "generic")

Width(is64) == IF is64 THEN 64 ELSE 32

None   == [state |-> "none"]
Failed == [state |-> "failed"]
Ready(o) == [state |-> "ready", pointer |-> Width(Is64(o)),
             register |-> Width(Codegen64(o)), assembler |-> Width(Assembler64(o))]

CInit == opt \in Options /\ config = None

Configure == /\ config = None /\ opt.abi # "unknown"
             /\ config' = Ready(opt)
             /\ UNCHANGED opt

Fail == /\ config = None /\ opt.abi = "unknown"
        /\ config' = Failed
        /\ UNCHANGED opt

CNext == Configure \/ Fail

CSpec == CInit /\ [][CNext]_cvars
===============================================================================
