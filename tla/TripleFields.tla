---------------------------- MODULE TripleFields ----------------------------
(***************************************************************************)
(* A target triple under its mutators.  The string is the state: every     *)
(* mutator puts a new one together from names and parses it again, so that *)
(* what was set has to be read back from it, and what was not set has to   *)
(* be found where it was.                                                  *)
(***************************************************************************)
EXTENDS TripleWords

CONSTANTS
  Initial,                                               \* the triples to start from
  SomeArchs, SomeVendors, SomeOS, SomeEnvs, SomeFormats  \* the kinds they are set to

ASSUME FieldsAssumption ==
  /\ \A words \in Initial : words # <<>> /\ words \in Seq(STRING)
  /\ SomeArchs \subseteq Arch /\ SomeVendors \subseteq DOMAIN VendorTypeName
  /\ SomeOS \subseteq DOMAIN OSTypeName
  /\ SomeEnvs \subseteq DOMAIN EnvironmentTypeName
  /\ SomeFormats \subseteq DOMAIN ObjectFormatTypeName \ {"UnknownObjectFormat"}

VARIABLES
  data,   \* the words between the dashes of the string
  status  \* "raw" before it is constructed, then "ok" until its use ends

triple == Parse(data)

\* Triple(): "the same as an empty string".
Init == data = <<"">> /\ status = "raw"

\* Triple(Twine), for one use or another.
Construct(words, use) ==
  status = "raw" /\ status' = use /\ data' = words

----------------------------------------------------------------------------
(* Mutators.                                                               *)

\* getVendorName, getOSName, getEnvironmentName.
Word(k) == IF Len(data) >= k THEN data[k] ELSE ""
Rest    == SubSeq(data, 4, Len(data))

MIPS == {"mips", "mipsel", "mips64", "mips64el"}

\* setArchName, with the name for a kind and sub-architecture.
ArchName(arch, sub) ==
  LET r6 == [mips |-> "mipsisa32r6", mipsel |-> "mipsisa32r6el", mips64 |-> "mipsisa64r6",
             mips64el |-> "mipsisa64r6el"]
  IN  IF sub = "MipsSubArch_r6" /\ arch \in DOMAIN r6 THEN r6[arch] ELSE ArchTypeName(arch)

WithArch(arch, sub) == <<ArchName(arch, sub), Word(2), Word(3)>> \o Rest

SetArch(arch) == data' = WithArch(arch, "NoSubArch")

SetVendor(vendor) == data' = <<Word(1), VendorTypeName[vendor], Word(3)>> \o Rest

\* setOSName appends the environment again if there is one.
SetOS(os) ==
  data' = <<Word(1), Word(2), OSTypeName[os]>> \o (IF Rest = <<"">> THEN <<>> ELSE Rest)

\* Mutant of WithEnvironment: what was the environment follows the new one.
WithEnvironmentBefore(words) == <<Word(1), Word(2), Word(3)>> \o words \o Rest

WithEnvironment(words) == <<Word(1), Word(2), Word(3)>> \o words

\* Mutant of SetEnvironment: the object format is never named.
SetEnvironmentOnly(env) ==
  data' = WithEnvironment(<<EnvironmentTypeName[env]>>)

\* An object format other than the default one is named again.
SetEnvironment(env) ==
  data' = WithEnvironment(
       <<EnvironmentTypeName[env]>>
       \o IF triple.format = DefaultFormat(triple.arch, triple.os) THEN <<>>
          ELSE <<ObjectFormatTypeName[triple.format]>>)

SetObjectFormat(format) ==
  data' = WithEnvironment(
       (IF triple.env = "UnknownEnvironment" THEN <<>> ELSE <<EnvironmentTypeName[triple.env]>>)
       \o <<ObjectFormatTypeName[format]>>)

Mutate ==
  /\ status = "ok" /\ UNCHANGED status
  /\ \/ \E arch \in SomeArchs : SetArch(arch)
     \/ \E vendor \in SomeVendors : SetVendor(vendor)
     \/ \E os \in SomeOS : SetOS(os)
     \/ \E env \in SomeEnvs : SetEnvironment(env)
     \/ \E format \in SomeFormats : SetObjectFormat(format)

----------------------------------------------------------------------------
(* Properties.                                                             *)

\* What a mutator sets is what the new string is parsed as.
SetIsRead ==
  [][status = "ok" /\ status' = "ok" =>
     /\ \A a \in SomeArchs : Word(1)' = ArchTypeName(a) /\ SetArch(a) => triple'.arch = a
     /\ \A v \in SomeVendors : SetVendor(v) => triple'.vendor = v
     /\ \A o \in SomeOS : SetOS(o) => triple'.os = o
     /\ \A e \in SomeEnvs : SetEnvironment(e) => triple'.env = e
     /\ \A f \in SomeFormats : SetObjectFormat(f) => triple'.format = f]_<<data, status>>

\* What a mutator or the choice of a target does not set stays, up to the environment
\* of a MIPS triple of one word; the object format may follow the architecture and
\* the system, but not the environment.
OthersKept ==
  [][status = "ok" /\ status' \in {"ok", "chosen"} =>
     /\ data[1] # data'[1] =>
          /\ triple'.vendor = triple.vendor
          /\ triple'.os = triple.os /\ triple'.version = triple.version
          /\ Len(data) > 1 => triple'.env = triple.env
     /\ \A o \in SomeOS : SetOS(o) =>
          /\ triple'.arch = triple.arch /\ triple'.vendor = triple.vendor
          /\ Len(data) > 1 => triple'.env = triple.env
     /\ \A e \in SomeEnvs : SetEnvironment(e) =>
          triple' = [triple EXCEPT !.env = e]
     /\ \A f \in SomeFormats : SetObjectFormat(f) =>
          triple' = [triple EXCEPT !.format = f]]_<<data, status>>
=============================================================================
