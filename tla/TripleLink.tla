----------------------------- MODULE TripleLink -----------------------------
(***************************************************************************)
(* What triples are compared for: modules that are linked one after the    *)
(* other, whose triples must be compatible and are merged, and the version *)
(* of an Apple system, which Darwin numbers in a way of its own.           *)
(***************************************************************************)
EXTENDS TripleFields, FiniteSets

CONSTANTS
  Modules,     \* the triples of modules to link
  MaxModules,  \* how many different ones are linked
  Bounds       \* versions of macOS that a triple is compared with

\* Bounds start at macOS 10.0, since isMacOSXVersionLT asserts it of Darwin, and minor
\* versions of 10 end at 16, the last one there is: beyond, the numbers that stand for
\* Darwin's run into those of macOS 11 and later.
ASSUME LinkAssumption ==
  /\ \A words \in Modules : words # <<>> /\ words \in Seq(STRING)
  /\ MaxModules \in Nat
  /\ Bounds \subseteq {b \in Nat \X Nat : b[1] >= 10 /\ (b[1] = 10 => b[2] <= 16)}

VARIABLES
  linked,  \* the triples of the modules linked so far (history)
  warned   \* two modules of different targets were linked

----------------------------------------------------------------------------
(* Linking.                                                                *)

ARMPairs == {{"arm", "thumb"}, {"armeb", "thumbeb"}}

\* The components that have to be the same, the architecture apart: all that ==
\* compares, but of Apple's triples neither environment nor object format.
Compared(t) ==
  {"sub", "vendor", "os"} \cup IF t.vendor = "Apple" THEN {} ELSE {"env", "format"}

\* isCompatibleWith: ARM and Thumb can be mixed, and versions never matter.
IsCompatibleWith(t, other) ==
  /\ t.arch = other.arch \/ {t.arch, other.arch} \in ARMPairs
  /\ \A component \in Compared(t) : t[component] = other[component]

\* Versions, as pairs of major and minor.
Older(v, w) == v[1] < w[1] \/ (v[1] = w[1] /\ v[2] < w[2])

\* isOSVersionLT of another triple.
IsOSVersionLT(t, other) == Older(t.version, other.version)

\* Mutant of Merge: the versions are not compared.
MergeOwn(words, other) ==
  IF Parse(words).vendor = "Apple" THEN words ELSE other

\* merge: "If vendor is apple, pick the triple with the larger version number."
Merge(words, other) ==
  IF Parse(words).vendor = "Apple" /\ IsOSVersionLT(Parse(other), Parse(words))
  THEN words ELSE other

\* The linker moves a module with the triple `words` into the one that has `data`,
\* with a warning if they do not fit.
Link(words) ==
  /\ status \in {"module", "linked"} /\ Cardinality(linked) < MaxModules
  /\ status' = "linked"
  /\ warned' = (warned \/ ~IsCompatibleWith(Parse(words), triple))
  /\ linked' = linked \cup {Parse(words), triple}
  /\ data' = Merge(words, data)

----------------------------------------------------------------------------
(* Versions of macOS.                                                      *)

Known(v) == [known |-> TRUE, version |-> v]
Absurd   == [known |-> FALSE, version |-> <<0, 0>>]

\* getMacOSXVersion, for one of Apple's systems; Darwin 20 and later keep no minor
\* version, and those of the other systems are not looked at.
GetMacOSXVersion(t) ==
  LET major == t.version[1]
      darwin == IF major = 0 THEN 8 ELSE major
  IN  CASE t.os = "Darwin" -> IF darwin < 4 THEN Absurd
                              ELSE IF darwin <= 19 THEN Known(<<10, darwin - 4>>)
                              ELSE Known(<<11 + darwin - 20, 0>>)
        [] t.os = "MacOSX" -> IF major = 0 THEN Known(<<10, 4>>)
                              ELSE IF major < 10 THEN Absurd ELSE Known(t.version)
        [] OTHER           -> Known(<<10, 4>>)

\* Mutant of IsMacOSXVersionLT: macOS 11 is taken for Darwin 19.
IsMacOSXVersionLTEarly(t, bound) ==
  IF t.os = "MacOSX" THEN Older(t.version, bound)
  ELSE Older(t.version, IF bound[1] = 10 THEN <<bound[2] + 4, 0>> ELSE <<bound[1] - 11 + 19, bound[2]>>)

\* isMacOSXVersionLT, for macOS and Darwin.
IsMacOSXVersionLT(t, bound) ==
  IF t.os = "MacOSX" THEN Older(t.version, bound)
  ELSE Older(t.version, IF bound[1] = 10 THEN <<bound[2] + 4, 0>> ELSE <<bound[1] - 11 + 20, bound[2]>>)

\* getCanonicalVersionForOS: "macOS 10.16 is canonicalized to macOS 11."
GetCanonicalVersionForOS(os, v) == IF os = "MacOSX" /\ v = <<10, 16>> THEN <<11, 0>> ELSE v

----------------------------------------------------------------------------
(* Properties.                                                             *)

\* Modules that were linked without a warning are all of the same target, in
\* whatever order they came, though each was compared with the merged triple only;
\* of an Apple system the result is for the newest version of all.
LinkedAgree ==
  ~warned =>
    /\ \A a, b \in linked : IsCompatibleWith(a, b) /\ a.vendor = triple.vendor /\ a.os = triple.os
    /\ triple.vendor = "Apple" => \A t \in linked : ~Older(triple.version, t.version)

\* The two places that know how Darwin counts agree, up to the name of macOS 11: a
\* triple with a version is older than a bound if its macOS version is.  Bounds
\* with a minor version from macOS 11 on are none of Darwin's, and macOS 10.16 by
\* that name counts as older than 11.
VersionsAgree ==
  IsMacOSX(triple.os) /\ triple.version[1] # 0 /\ GetMacOSXVersion(triple).known =>
    \A bound \in Bounds :
      \/ triple.os = "Darwin" /\ bound[1] >= 11 /\ bound[2] # 0
      \/ triple.version = <<10, 16>> /\ bound = <<11, 0>>
      \/ IsMacOSXVersionLT(triple, bound)
           <=> Older(GetCanonicalVersionForOS("MacOSX", GetMacOSXVersion(triple).version),
                     GetCanonicalVersionForOS("MacOSX", bound))
=============================================================================
