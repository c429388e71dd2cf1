----------------------------- MODULE TripleUse -----------------------------
(***************************************************************************)
(* A triple from the command line or the header of a module to the end of  *)
(* its use.  The string is normalised or taken as it is, and the triple    *)
(* made from it is changed and asked for variants, linked with others, or  *)
(* it chooses the target: llc takes the one named by -march and sets the   *)
(* architecture to it, or else the one registered for the architecture.    *)
(***************************************************************************)
EXTENDS TripleNormalize, TripleVariants, TripleLink

CONSTANT MArch  \* the options -march, "" if it is not given

VARIABLE target  \* the name of the target chosen

uvars == <<data, status, input, components, found, pos, comp, idx, kinds, stage, first,
           asked, from, linked, warned, target>>

UInit == NInit /\ VInit /\ linked = {} /\ warned = FALSE /\ target = "none"

\* LLVMInitializeTOYRISCVTargetInfo: the architecture each target is registered for.
Targets == [toyriscv32 |-> "toyriscv32", toyriscv64 |-> "toyriscv64"]

----------------------------------------------------------------------------

\* normalize, as far as its caller sees it not done.
Normalize ==
  /\ status = "raw" /\ NNext
  /\ UNCHANGED <<data, status, asked, from, linked, warned, target>>

\* The string as it is, and as it was normalised; normalize leaves nothing behind.
Given      == stage = "find" /\ pos = 1 /\ first = <<>>
Normalized == stage = "done" /\ first # <<>>

ConstructTriple ==
  /\ Given \/ Normalized
  /\ \/ components \in Initial /\ Construct(components, "ok")
     \/ components \in Modules /\ Construct(components, "module")
  /\ input' = <<>> /\ components' = <<>> /\ first' = <<>> /\ kinds' = KindsInPlace(<<>>)
  /\ found' = {} /\ pos' = 1 /\ comp' = "" /\ idx' = 0 /\ stage' = "returned"
  /\ asked' = asked /\ from' = triple'
  /\ UNCHANGED <<linked, warned, target>>

\* The target for the architecture `arch`.
Registered(arch) == {name \in DOMAIN Targets : Targets[name] = arch}

\* TargetRegistry::lookupTarget as llc calls it.
LookupTarget(march) ==
  /\ status = "ok"
  /\ \/ /\ march \in DOMAIN Targets /\ target' = march /\ status' = "chosen"
        /\ IF ArchTypeForLLVMName(march) = "UnknownArch" THEN UNCHANGED data
           ELSE SetArch(ArchTypeForLLVMName(march))
     \/ /\ march = "" /\ target' \in Registered(triple.arch) /\ status' = "chosen"
        /\ UNCHANGED data
     \/ /\ march = "" /\ Registered(triple.arch) = {} /\ status' = "refused"
        /\ UNCHANGED <<data, target>>
     \/ /\ march \notin DOMAIN Targets \cup {""} /\ status' = "refused"
        /\ UNCHANGED <<data, target>>

\* What happens to a triple that was constructed.
Constructed(step) == step /\ UNCHANGED <<input, components, found, pos, comp, idx, kinds, stage, first>>

ChangeTriple == Constructed(Otherwise(Mutate)) /\ UNCHANGED <<linked, warned, target>>

AskForVariant ==
  /\ \/ Constructed(Get64BitArchVariant) \/ Constructed(Get32BitArchVariant)
     \/ Constructed(GetBigEndianArchVariant) \/ Constructed(GetLittleEndianArchVariant)
  /\ UNCHANGED <<linked, warned, target>>

LinkModule == \E words \in Modules : Constructed(Otherwise(Link(words))) /\ UNCHANGED target

ChooseTarget ==
  /\ asked = "nothing" /\ \E march \in MArch : Constructed(Otherwise(LookupTarget(march)))
  /\ UNCHANGED <<linked, warned>>

\* No more is done with the triple.
Ended ==
  /\ \/ status \in {"unreachable", "chosen", "refused"}
     \/ status = "linked" /\ Cardinality(linked) = MaxModules
  /\ UNCHANGED uvars

UNext ==
  \/ Normalize \/ ConstructTriple
  \/ ChangeTriple \/ AskForVariant \/ LinkModule \/ ChooseTarget
  \/ Ended

USpec == UInit /\ [][UNext]_uvars

----------------------------------------------------------------------------
(* Properties.                                                             *)

\* The target that is chosen is the one of the architecture the triple then has, by
\* which the target machine takes its data layout and its registers: none of both
\* is of the other width, whatever the module was compiled for.
TargetFits ==
  status = "chosen" =>
    target = ArchTypeName(triple.arch) /\ Width(triple.arch) = (IF target = "toyriscv64" THEN 64 ELSE 32)
=============================================================================
