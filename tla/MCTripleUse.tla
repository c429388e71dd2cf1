----------------------------- MODULE MCTripleUse -----------------------------
(***************************************************************************)
(* TripleUse.  Normalised is every string of up to five words, of one of   *)
(* each sort, an unknown and the empty one, and those with a special case; *)
(* mutators and variants start from every word for an architecture and     *)
(* from triples with an environment and an object format; linked are       *)
(* modules for Apple's systems in several versions, and others.            *)
(***************************************************************************)
EXTENDS TripleUse

Strings(words, n) == UNION {[1 .. m -> words] : m \in 1 .. n}

MCInitial ==
  {<<w>> : w \in ArchWords} \cup
  {<<w, "pc", "aix", "gnu", "macho">> : w \in {"toyriscv32", "mipsr6", "powerpcspe", "armv7"}}

MCModules ==
  {<<"x86_64", "apple", word>> : word \in AppleWords}
  \cup {<<w, "apple", "ios14">> : w \in {"armv7", "thumbv7", "armv6m"}}
  \cup {<<w, "pc", "linux", env>> : w \in {"armv7", "thumbv7", "toyriscv64"}, env \in {"gnu", "android"}}

MCInputs ==
  MCInitial \cup MCModules
  \cup Strings({"toyriscv32", "pc", "linux", "gnu", "elf", "foo", ""}, 5)
  \cup Strings({"i386", "suse", "win32", "mingw32", "cygwin", "gnueabi", "androideabi21", "macho",
                ""}, 4)
  \cup Strings({"powerpcspe", "apple", "macosx10.4", "android", ""}, 4)
  \cup {<<"toyriscv32", "pc", w, f>> : w \in {"win32", "mingw32"}, f \in {"coff", "macho", "gnuelf"}}
  \cup {Append(s, f) : s \in Strings({"i386", "pc", "win32", "mingw32", "gnueabi", "macho", "coff"}, 4),
                       f \in {"macho", "coff", "gnuelf"}}
  \cup {<<"i386", "pc", w, "gnuelf", f>> \o rest :
          w \in {"win32", "mingw32"}, f \in {"foo", "elf", "macho"}, rest \in {<<>>, <<"elf">>, <<"bar">>}}

MCArchs ==
  {"UnknownArch", "toyriscv32", "toyriscv64", "aarch64", "arm", "mips64el", "ppc", "ppc64", "sparc",
   "systemz", "wasm32", "x86_64"}
MCVendors == {"PC"}
MCOS      == {"MacOSX"}
MCEnvs    == {"GNU", "UnknownEnvironment"}
MCFormats == {"ELF", "MachO"}
MCBounds  == {<<10, 4>>, <<10, 9>>, <<10, 15>>, <<10, 16>>, <<11, 0>>, <<11, 1>>, <<12, 0>>}
=============================================================================
