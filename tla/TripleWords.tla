----------------------------- MODULE TripleWords -----------------------------
(***************************************************************************)
(* The kinds a target triple can name and the words it names them by.  A   *)
(* kind has its identifier in Triple.h as its name; of the vendors,        *)
(* systems, environments and formats there is one of each sort the code    *)
(* treats differently.                                                     *)
(***************************************************************************)
EXTENDS Integers, Sequences

----------------------------------------------------------------------------
(* Architectures.                                                          *)

\* getArchPointerBitWidth.
Arch16 == {"avr", "msp430"}
Arch32 ==
  {"aarch64_32", "amdil", "arc", "arm", "armeb", "csky", "hexagon", "hsail", "kalimba",
   "lanai", "le32", "m68k", "mips", "mipsel", "nvptx", "ppc", "ppcle", "r600",
   "renderscript32", "riscv32", "toyriscv32", "shave", "sparc", "sparcel", "spir", "spirv32",
   "tce", "tcele", "thumb", "thumbeb", "wasm32", "x86", "xcore"}
Arch64 ==
  {"aarch64", "aarch64_be", "amdgcn", "amdil64", "bpfeb", "bpfel", "hsail64", "le64", "mips64",
   "mips64el", "nvptx64", "ppc64", "ppc64le", "renderscript64", "riscv64", "toyriscv64",
   "sparcv9", "spir64", "spirv64", "systemz", "ve", "wasm64", "x86_64"}
Arch == {"UnknownArch"} \cup Arch16 \cup Arch32 \cup Arch64

\* The names of the architectures whose name is not their identifier.
OwnName ==
  [UnknownArch |-> "unknown", ppc |-> "powerpc", ppcle |-> "powerpcle", ppc64 |-> "powerpc64",
   ppc64le |-> "powerpc64le", systemz |-> "s390x", x86 |-> "i386"]

\* getArchTypeName.
ArchTypeName(arch) == IF arch \in DOMAIN OwnName THEN OwnName[arch] ELSE arch

\* getArchTypePrefix: the prefix of the builtins, for most the identifier.
ArchTypePrefix(arch) ==
  CASE arch \in {"aarch64", "aarch64_be", "aarch64_32"}     -> "aarch64"
    [] arch \in {"arm", "armeb", "thumb", "thumbeb"}         -> "arm"
    [] arch \in {"ppc64", "ppc64le", "ppc", "ppcle"}         -> "ppc"
    [] arch \in {"mips", "mipsel", "mips64", "mips64el"}     -> "mips"
    [] arch \in {"bpfel", "bpfeb"}                           -> "bpf"
    [] arch \in {"sparcv9", "sparcel", "sparc"}              -> "sparc"
    [] arch \in {"x86", "x86_64"}                            -> "x86"
    [] arch \in {"nvptx", "nvptx64"}                         -> "nvvm"
    [] arch \in {"amdil", "amdil64"}                         -> "amdil"
    [] arch \in {"hsail", "hsail64"}                         -> "hsail"
    [] arch \in {"spir", "spir64"}                           -> "spir"
    [] arch \in {"spirv32", "spirv64"}                       -> "spirv"
    [] arch \in {"wasm32", "wasm64"}                         -> "wasm"
    [] arch \in {"riscv32", "riscv64"}                       -> "riscv"
    [] arch \in {"toyriscv32", "toyriscv64"}                 -> "toyriscv"
    [] arch = "systemz"                                      -> "s390"
    [] arch \in {"UnknownArch", "msp430", "tce", "tcele", "renderscript32", "renderscript64"}
                                                             -> "none"
    [] OTHER                                                 -> arch

\* Words with a sub-architecture or other spelling, the bpf words of a little
\* endian host included.
Alias ==
  [i386 |-> "x86", i686 |-> "x86", amd64 |-> "x86_64", powerpc |-> "ppc",
   powerpcspe |-> "ppc", ppc32 |-> "ppc", powerpcle |-> "ppcle", ppc32le |-> "ppcle",
   powerpc64 |-> "ppc64", ppu |-> "ppc64", powerpc64le |-> "ppc64le", xscale |-> "arm",
   xscaleeb |-> "armeb", arm64 |-> "aarch64", arm64e |-> "aarch64", arm64_32 |-> "aarch64_32",
   mipseb |-> "mips", mipsisa32r6 |-> "mips", mipsr6 |-> "mips", mipsisa32r6el |-> "mipsel",
   mipsr6el |-> "mipsel", mipsn32 |-> "mips64", mipsisa64r6 |-> "mips64",
   mips64r6 |-> "mips64", mipsn32r6 |-> "mips64", mipsn32el |-> "mips64el",
   mipsisa64r6el |-> "mips64el", mips64r6el |-> "mips64el", s390x |-> "systemz",
   sparc64 |-> "sparcv9", kalimba3 |-> "kalimba", bpf |-> "bpfel", bpf_be |-> "bpfeb",
   bpf_le |-> "bpfel"]

\* The names of targets that are not the identifier of their architecture.
LLVMAlias ==
  [arm64 |-> "aarch64", arm64_32 |-> "aarch64_32", ppc32 |-> "ppc", ppc32le |-> "ppcle",
   bpf |-> "bpfel", bpf_be |-> "bpfeb", bpf_le |-> "bpfel"]

\* What LLVM's ARM tables say of the words without a case of their own.
ARMWords ==
  [armv7 |-> [isa |-> "arm", big |-> FALSE, version |-> "v7"],
   armebv7 |-> [isa |-> "arm", big |-> TRUE, version |-> "v7"],
   armv6m |-> [isa |-> "arm", big |-> FALSE, version |-> "v6m"],
   thumbv7 |-> [isa |-> "thumb", big |-> FALSE, version |-> "v7"],
   thumbebv6m |-> [isa |-> "thumb", big |-> TRUE, version |-> "v6m"],
   thumbv3 |-> [isa |-> "thumb", big |-> FALSE, version |-> "v3"]]

\* parseARMArch: Thumb exists in v4 and later, and is all there is in v6m.
ParseARMArch(word) ==
  LET w == ARMWords[word]
  IN  CASE w.isa = "thumb" /\ w.version = "v3"     -> "UnknownArch"
        [] w.isa = "arm" /\ w.version # "v6m"      -> IF w.big THEN "armeb" ELSE "arm"
        [] OTHER                                   -> IF w.big THEN "thumbeb" ELSE "thumb"

\* parseArch.
ParseArch(word) ==
  CASE word \in DOMAIN Alias                     -> Alias[word]
    [] word \in DOMAIN ARMWords                  -> ParseARMArch(word)
    [] word \in Arch \ {"UnknownArch", "x86"}    -> word
    [] OTHER                                     -> "UnknownArch"

\* Mutant of ArchTypeForLLVMName: one of the two architectures is missing.
ArchTypeForLLVMNameNo64(name) ==
  CASE name = "toyriscv64"                  -> "UnknownArch"
    [] name = "x86-64"                      -> "x86_64"
    [] name \in DOMAIN LLVMAlias            -> LLVMAlias[name]
    [] name \in Arch \ {"x86_64"}           -> name
    [] OTHER                                -> "UnknownArch"

\* getArchTypeForLLVMName, by the name of a target.
ArchTypeForLLVMName(name) ==
  CASE name = "x86-64"                      -> "x86_64"
    [] name \in DOMAIN LLVMAlias            -> LLVMAlias[name]
    [] name \in Arch \ {"x86_64"}           -> name
    [] OTHER                                -> "UnknownArch"

R6Words ==
  {"mipsisa32r6", "mipsr6", "mipsisa32r6el", "mipsr6el", "mipsisa64r6", "mips64r6", "mipsn32r6",
   "mipsisa64r6el", "mips64r6el"}

\* parseSubArch.
ParseSubArch(word) ==
  CASE word \in R6Words          -> "MipsSubArch_r6"
    [] word = "powerpcspe"       -> "PPCSubArch_spe"
    [] word = "arm64e"           -> "AArch64SubArch_arm64e"
    [] word = "kalimba3"         -> "KalimbaSubArch_v3"
    [] word \in DOMAIN ARMWords /\ ARMWords[word].version # "v3" -> ARMWords[word].version
    [] word \in {"xscale", "xscaleeb"} -> "ARMSubArch_v5te"
    [] OTHER                     -> "NoSubArch"

ArchWords ==
  DOMAIN Alias \cup DOMAIN ARMWords \cup (Arch \ {"UnknownArch", "x86"}) \cup {"unknown"}

----------------------------------------------------------------------------
(* The other components.                                                   *)

Vendors ==
  [apple |-> "Apple", pc |-> "PC", suse |-> "SUSE", sie |-> "SCEI", scei |-> "SCEI"]

AppleWords ==
  {"darwin", "darwin3", "darwin8", "darwin19", "darwin19.6", "darwin20", "darwin20.1", "macosx",
   "macosx9", "macosx10.4", "macos10.15", "macosx10.16", "macos11", "macosx11.1", "macosx12",
   "ios", "ios12", "ios14", "tvos", "tvos14", "watchos", "watchos7"}

\* Words of Apple's systems with their versions, major and minor.
Versions ==
  [word \in AppleWords |->
     CASE word = "darwin3"     -> <<3, 0>>   [] word = "darwin8"                 -> <<8, 0>>
       [] word = "darwin19"    -> <<19, 0>>  [] word = "darwin19.6"              -> <<19, 6>>
       [] word = "darwin20"    -> <<20, 0>>  [] word = "darwin20.1"              -> <<20, 1>>
       [] word = "macosx9"     -> <<9, 0>>   [] word = "macosx10.4"              -> <<10, 4>>
       [] word = "macos10.15"  -> <<10, 15>> [] word = "macosx10.16"             -> <<10, 16>>
       [] word = "macos11"     -> <<11, 0>>  [] word = "macosx11.1"              -> <<11, 1>>
       [] word = "macosx12"    -> <<12, 0>>  [] word = "ios12"                   -> <<12, 0>>
       [] word = "watchos7"    -> <<7, 0>>   [] word \in {"ios14", "tvos14"}     -> <<14, 0>>
       [] OTHER                -> <<0, 0>>]

AppleSystem(word) ==
  CASE word \in {"ios", "ios12", "ios14"} -> "IOS"
    [] word \in {"tvos", "tvos14"}        -> "TvOS"
    [] word \in {"watchos", "watchos7"}   -> "WatchOS"
    [] word \in {"darwin", "darwin3", "darwin8", "darwin19", "darwin20", "darwin19.6", "darwin20.1"}
                                          -> "Darwin"
    [] OTHER                              -> "MacOSX"

Systems ==
  [word \in {"linux", "windows", "win32", "aix", "zos"} \cup AppleWords |->
     CASE word = "linux" -> "Linux" [] word \in {"windows", "win32"} -> "Win32"
       [] word = "aix"   -> "AIX"   [] word = "zos"                  -> "ZOS"
       [] OTHER          -> AppleSystem(word)]
Environments ==
  [gnu |-> "GNU", gnueabi |-> "GNUEABI", gnueabihf |-> "GNUEABIHF", android |-> "Android",
   androideabi |-> "Android", androideabi21 |-> "Android", android21 |-> "Android",
   msvc |-> "MSVC", cygnus |-> "Cygnus", gnuabi64 |-> "GNUABI64", gnuabin32 |-> "GNUABIN32",
   gnuelf |-> "GNU"]
Formats ==
  [coff |-> "COFF", elf |-> "ELF", macho |-> "MachO", wasm |-> "Wasm", xcoff |-> "XCOFF",
   goff |-> "GOFF", gnuelf |-> "ELF"]

Lookup(table, word, unknown) == IF word \in DOMAIN table THEN table[word] ELSE unknown

\* parseVendor, parseOS, parseEnvironment, parseFormat.
ParseVendor(word)      == Lookup(Vendors, word, "UnknownVendor")
ParseOS(word)          == Lookup(Systems, word, "UnknownOS")
ParseEnvironment(word) == Lookup(Environments, word, "UnknownEnvironment")
ParseFormat(word)      == Lookup(Formats, word, "UnknownObjectFormat")

\* getOSVersion: 0 if the word has none.
OSVersion(word) == Lookup(Versions, word, <<0, 0>>)

\* isMacOSX, isOSDarwin.
IsMacOSX(os)   == os \in {"Darwin", "MacOSX"}
IsOSDarwin(os) == IsMacOSX(os) \/ os \in {"IOS", "TvOS", "WatchOS"}

\* isWindowsMSVCEnvironment, isWindowsGNUEnvironment, isWindowsCygwinEnvironment.
IsWindowsMSVCEnvironment(t)   == t.os = "Win32" /\ t.env \in {"MSVC", "UnknownEnvironment"}
IsWindowsGNUEnvironment(t)    == t.os = "Win32" /\ t.env = "GNU"
IsWindowsCygwinEnvironment(t) == t.os = "Win32" /\ t.env = "Cygnus"

\* getVendorTypeName, getOSTypeName, getEnvironmentTypeName, getObjectFormatTypeName.
VendorTypeName ==
  [Apple |-> "apple", PC |-> "pc", SUSE |-> "suse", SCEI |-> "scei", UnknownVendor |-> "unknown"]
OSTypeName ==
  [Darwin |-> "darwin", IOS |-> "ios", Linux |-> "linux", MacOSX |-> "macosx", TvOS |-> "tvos",
   WatchOS |-> "watchos", Win32 |-> "windows", AIX |-> "aix", ZOS |-> "zos",
   UnknownOS |-> "unknown"]
EnvironmentTypeName ==
  [GNU |-> "gnu", GNUEABI |-> "gnueabi", GNUEABIHF |-> "gnueabihf", Android |-> "android",
   MSVC |-> "msvc", Cygnus |-> "cygnus", GNUABI64 |-> "gnuabi64", GNUABIN32 |-> "gnuabin32",
   UnknownEnvironment |-> "unknown"]
ObjectFormatTypeName ==
  [COFF |-> "coff", ELF |-> "elf", MachO |-> "macho", Wasm |-> "wasm", XCOFF |-> "xcoff",
   GOFF |-> "goff", UnknownObjectFormat |-> ""]

----------------------------------------------------------------------------
(* The constructor of a string, given as the words between its dashes.     *)

\* getDefaultFormat.
DefaultFormat(arch, os) ==
  CASE arch \in {"UnknownArch", "aarch64", "aarch64_32", "arm", "thumb", "x86", "x86_64"}
         -> CASE IsOSDarwin(os) -> "MachO" [] os = "Win32" -> "COFF" [] OTHER -> "ELF"
    [] arch \in {"ppc64", "ppc"} /\ os = "AIX" -> "XCOFF"
    [] arch = "systemz" /\ os = "ZOS"          -> "GOFF"
    [] arch \in {"wasm32", "wasm64"}           -> "Wasm"
    [] arch \in {"spirv32", "spirv64"}         -> "UnknownObjectFormat"
    [] OTHER                                   -> "ELF"

\* The environment of a triple of one word: MIPS has it in its architecture.
BareEnvironment(word) ==
  CASE word \in {"mipsn32", "mipsn32r6", "mipsn32el"}     -> "GNUABIN32"
    [] word \in {"mips64", "mips64el", "mips64r6", "mips64r6el", "mipsisa64r6", "mipsisa64r6el"}
                                                          -> "GNUABI64"
    [] word \in {"mipsisa32r6", "mipsisa32r6el", "mips", "mipsel", "mipsr6", "mipsr6el"}
                                                          -> "GNU"
    [] OTHER                                              -> "UnknownEnvironment"

\* Triple(Twine): what follows the third dash is one component, whose first word
\* is read as the environment and whose last as the object format.
Parse(words) ==
  LET n      == Len(words)
      arch   == ParseArch(words[1])
      os     == IF n > 2 THEN ParseOS(words[3]) ELSE "UnknownOS"
      format == IF n > 3 THEN ParseFormat(words[n]) ELSE "UnknownObjectFormat"
  IN  [arch |-> arch, sub |-> ParseSubArch(words[1]),
       vendor |-> IF n > 1 THEN ParseVendor(words[2]) ELSE "UnknownVendor",
       os |-> os, version |-> IF n > 2 THEN OSVersion(words[3]) ELSE <<0, 0>>,
       env |-> IF n > 3 THEN ParseEnvironment(words[4])
               ELSE IF n = 1 THEN BareEnvironment(words[1]) ELSE "UnknownEnvironment",
       format |-> IF format = "UnknownObjectFormat" THEN DefaultFormat(arch, os) ELSE format]
=============================================================================
