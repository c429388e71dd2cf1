--------------------------- MODULE TripleVariants ---------------------------
(***************************************************************************)
(* The variants of a triple, with another width or byte order, asked for   *)
(* one after the other and in between its mutators: each variant is made   *)
(* by setArch, from the string as it is.                                   *)
(***************************************************************************)
EXTENDS TripleFields, FiniteSets

VARIABLES
  asked,  \* the variant asked for last, "nothing" after a mutator
  from    \* the triple it was made from (history)

vvars == <<data, status, asked, from>>

VInit == Init /\ asked = "nothing" /\ from = triple

----------------------------------------------------------------------------
(* Tables.  A function is given where it is neither the identity nor       *)
(* without a result.                                                       *)

\* get64BitArchVariant.
No64 ==
  {"UnknownArch", "arc", "avr", "csky", "hexagon", "kalimba", "lanai", "m68k", "msp430", "r600",
   "shave", "sparcel", "tce", "tcele", "xcore"}
To64 ==
  [aarch64_32 |-> "aarch64", amdil |-> "amdil64", arm |-> "aarch64", armeb |-> "aarch64_be",
   hsail |-> "hsail64", le32 |-> "le64", mips |-> "mips64", mipsel |-> "mips64el",
   nvptx |-> "nvptx64", ppc |-> "ppc64", ppcle |-> "ppc64le",
   renderscript32 |-> "renderscript64", riscv32 |-> "riscv64", toyriscv32 |-> "toyriscv64",
   sparc |-> "sparcv9", spir |-> "spir64", spirv32 |-> "spirv64", thumb |-> "aarch64",
   thumbeb |-> "aarch64_be", wasm32 |-> "wasm64", x86 |-> "x86_64"]

\* get32BitArchVariant.
No32 ==
  {"UnknownArch", "amdgcn", "avr", "bpfeb", "bpfel", "msp430", "systemz", "ve"}
To32 ==
  [aarch64 |-> "arm", aarch64_be |-> "armeb", amdil64 |-> "amdil", hsail64 |-> "hsail",
   le64 |-> "le32", mips64 |-> "mips", mips64el |-> "mipsel", nvptx64 |-> "nvptx",
   ppc64 |-> "ppc", ppc64le |-> "ppcle", renderscript64 |-> "renderscript32",
   riscv64 |-> "riscv32", toyriscv64 |-> "toyriscv32", sparcv9 |-> "sparc", spir64 |-> "spir",
   spirv64 |-> "spirv32", wasm64 |-> "wasm32", x86_64 |-> "x86"]

\* Mutant of BigEndian: sparc is listed as little endian.
BigEndianNoSparc ==
  {"UnknownArch", "aarch64_be", "arc", "armeb", "bpfeb", "lanai", "m68k", "mips", "mips64", "ppc",
   "ppc64", "sparcv9", "systemz", "tce", "thumbeb"}

\* isLittleEndian: the others are big endian.
BigEndian ==
  {"UnknownArch", "aarch64_be", "arc", "armeb", "bpfeb", "lanai", "m68k", "mips", "mips64", "ppc",
   "ppc64", "sparc", "sparcv9", "systemz", "tce", "thumbeb"}

\* getBigEndianArchVariant, for little endian architectures.
ToBig ==
  [aarch64 |-> "aarch64_be", bpfel |-> "bpfeb", mips64el |-> "mips64", mipsel |-> "mips",
   ppcle |-> "ppc", ppc64le |-> "ppc64", sparcel |-> "sparc", tcele |-> "tce"]
BigUnreachable == {"aarch64_32"}

\* getLittleEndianArchVariant, for the others.
ToLittle ==
  [aarch64_be |-> "aarch64", bpfeb |-> "bpfel", mips64 |-> "mips64el", mips |-> "mipsel",
   ppc |-> "ppcle", ppc64 |-> "ppc64le", sparc |-> "sparcel", tce |-> "tcele"]
LittleUnreachable == {"arc"}

----------------------------------------------------------------------------
(* Steps.                                                                  *)

\* setArch of a variant; for MIPS with the sub-architecture.
ToVariant(arch) ==
  /\ data' = WithArch(arch, IF triple.arch \in MIPS THEN triple.sub ELSE "NoSubArch")
  /\ status' = "ok"

Unreachable == status' = "unreachable" /\ UNCHANGED data

Same == UNCHANGED <<data, status>>

Ask(variant) == status = "ok" /\ asked' = variant /\ from' = triple

Get64BitArchVariant ==
  /\ Ask("64")
  /\ \/ triple.arch \in No64 /\ ToVariant("UnknownArch")
     \/ triple.arch \in DOMAIN To64 /\ ToVariant(To64[triple.arch])
     \/ triple.arch \notin No64 \cup DOMAIN To64 /\ Same

\* Mutant of Get32BitArchVariant: what has no variant is kept.
Get32BitArchVariantKeeping ==
  /\ Ask("32")
  /\ \/ triple.arch \in DOMAIN To32 /\ ToVariant(To32[triple.arch])
     \/ triple.arch \notin DOMAIN To32 /\ Same

Get32BitArchVariant ==
  /\ Ask("32")
  /\ \/ triple.arch \in No32 /\ ToVariant("UnknownArch")
     \/ triple.arch \in DOMAIN To32 /\ ToVariant(To32[triple.arch])
     \/ triple.arch \notin No32 \cup DOMAIN To32 /\ Same

GetBigEndianArchVariant ==
  /\ Ask("big")
  /\ \/ triple.arch \in BigEndian /\ Same
     \/ triple.arch \in DOMAIN ToBig /\ ToVariant(ToBig[triple.arch])
     \/ triple.arch \in BigUnreachable /\ Unreachable
     \/ /\ triple.arch \notin BigEndian \cup DOMAIN ToBig \cup BigUnreachable
        /\ ToVariant("UnknownArch")

GetLittleEndianArchVariant ==
  /\ Ask("little")
  /\ \/ triple.arch \notin BigEndian /\ Same
     \/ triple.arch \in DOMAIN ToLittle /\ ToVariant(ToLittle[triple.arch])
     \/ triple.arch \in LittleUnreachable /\ Unreachable
     \/ /\ triple.arch \in BigEndian \ (DOMAIN ToLittle \cup LittleUnreachable)
        /\ ToVariant("UnknownArch")

\* Any other step of a triple: no variant was asked for last.
Otherwise(step) == step /\ asked' = "nothing" /\ from' = triple'

----------------------------------------------------------------------------
(* Properties.                                                             *)

Width(arch) ==
  CASE arch \in Arch16 -> 16 [] arch \in Arch32 -> 32 [] arch \in Arch64 -> 64 [] OTHER -> 0

Big(arch) == arch \in BigEndian

\* Variants share the prefix of their builtins, but for AArch64 with its 32-bit
\* variant ARM, and le32 and le64, which have their own.
SameFamily ==
  LET prefixes == {ArchTypePrefix(from.arch), ArchTypePrefix(triple.arch)}
  IN  \/ Cardinality(prefixes) = 1
      \/ prefixes \in {{"aarch64", "arm"}, {"le32", "le64"}}

\* A variant is of the width or byte order it was asked for, is big endian or as
\* wide as what it was made from otherwise, and stays in its family; release 6 of
\* MIPS stays what it is, as do vendor and system.
VariantsFit ==
  status = "ok" /\ asked # "nothing" /\ triple.arch # "UnknownArch" =>
    /\ SameFamily
    /\ Width(triple.arch) = CASE asked = "64" -> 64 [] asked = "32" -> 32 [] OTHER -> Width(from.arch)
    /\ Big(triple.arch)   = CASE asked = "big" -> TRUE [] asked = "little" -> FALSE
                               [] OTHER -> Big(from.arch)
    /\ triple.sub = "MipsSubArch_r6" <=> from.sub = "MipsSubArch_r6"
    /\ triple.vendor = from.vendor /\ triple.os = from.os

Opposite(variant) ==
  CASE variant = "32" -> "64" [] variant = "64" -> "32"
    [] variant = "big" -> "little" [] variant = "little" -> "big"

\* A variant of the other width or byte order leads back to what it was made from,
\* but for Thumb and AArch64 with 32 bits, which lead to ARM.
ThereAndBack ==
  [][/\ asked # "nothing" /\ asked' = Opposite(asked) /\ status' = "ok"
     /\ from.arch \notin {"thumb", "thumbeb", "aarch64_32"}
     /\ triple.arch \notin {"UnknownArch", from.arch}
     => triple'.arch = from.arch]_vvars
=============================================================================
