--------------------------- MODULE TripleNormalize ---------------------------
(***************************************************************************)
(* Triple::normalize: the components of a string are brought into the      *)
(* order architecture, vendor, system, environment.  Those that are where  *)
(* they belong are fixed; the others are moved one at a time, and push     *)
(* what is in their way to the right, around the fixed ones.  What comes   *)
(* out is normalised once more.                                            *)
(***************************************************************************)
EXTENDS TripleWords, FiniteSetsExt

CONSTANT Inputs  \* the strings, as the words between their dashes

ASSUME InputsAssumption == \A words \in Inputs : words # <<>> /\ words \in Seq(STRING)

VARIABLES
  input,      \* the string that is normalised
  components, \* its words in their present order
  found,      \* positions whose component is final
  pos,        \* the position for which a component is sought
  comp,       \* the component that is moved there
  idx,        \* where it is now
  kinds,      \* Arch, Vendor, OS, ..., IsMinGW32 and IsCygwin
  stage,      \* "find", "move", "settle" or "done"
  first       \* the result of the first time, at first <<>>

nvars == <<input, components, found, pos, comp, idx, kinds, stage, first>>

----------------------------------------------------------------------------
(* Kinds of components.                                                    *)

IsCygwin(word) == word = "cygwin"
IsMinGW(word)  == word = "mingw32"

\* Does the word parse as valid for the position?
Valid(p, word) ==
  \/ p = 1 /\ ParseArch(word) # "UnknownArch"
  \/ p = 2 /\ ParseVendor(word) # "UnknownVendor"
  \/ p = 3 /\ (ParseOS(word) # "UnknownOS" \/ IsCygwin(word) \/ IsMinGW(word))
  \/ p = 4 /\ \/ ParseEnvironment(word) # "UnknownEnvironment"
              \/ ParseFormat(word) # "UnknownObjectFormat"

\* Mutant of FoundInPlace: nothing is final before it was sought.
FoundNothing(k) == {}

\* The kinds by what is in the positions, and the positions that are final by them.
KindsInPlace(words) ==
  LET At(k) == IF k <= Len(words) THEN words[k] ELSE ""
  IN  [arch |-> ParseArch(At(1)), vendor |-> ParseVendor(At(2)), os |-> ParseOS(At(3)),
       env |-> ParseEnvironment(At(4)), format |-> ParseFormat(At(5)),
       cygwin |-> IsCygwin(At(3)), mingw |-> IsMinGW(At(3))]

FoundInPlace(k) ==
  {p \in 1 .. 4 : \/ p = 1 /\ k.arch # "UnknownArch"
                  \/ p = 2 /\ k.vendor # "UnknownVendor"
                  \/ p = 3 /\ k.os # "UnknownOS"
                  \/ p = 4 /\ k.env # "UnknownEnvironment"}

NInit ==
  /\ input \in Inputs /\ components = input /\ first = <<>>
  /\ kinds = KindsInPlace(input) /\ found = FoundInPlace(kinds)
  /\ pos = 1 /\ comp = "" /\ idx = 0 /\ stage = "find"

----------------------------------------------------------------------------
(* The search.                                                             *)

Free(words, at) == {k \in at .. Len(words) : k \notin found}

Candidates == {k \in Free(components, 1) : Valid(pos, components[k])}

\* Mutant of KindsAfter: the object format is not read again.
KindsAfterKeeping(last, others) ==
  LET word == components[last]
      env  == ParseEnvironment(word)
  IN  CASE pos = 1 -> [kinds EXCEPT !.arch = ParseArch(word)]
        [] pos = 2 -> [kinds EXCEPT !.vendor = ParseVendor(word)]
        [] pos = 3 -> [kinds EXCEPT !.os = ParseOS(word), !.cygwin = IsCygwin(word),
                                    !.mingw = IsMinGW(word)]
        [] pos = 4 -> [kinds EXCEPT !.env = env]

\* The kinds after components were tried for pos, the last one at `last`; `others`
\* were tried in vain before it.
KindsAfter(last, others) ==
  LET word == components[last]
      env  == ParseEnvironment(word)
  IN  CASE pos = 1 -> [kinds EXCEPT !.arch = ParseArch(word)]
        [] pos = 2 -> [kinds EXCEPT !.vendor = ParseVendor(word)]
        [] pos = 3 -> [kinds EXCEPT !.os = ParseOS(word), !.cygwin = IsCygwin(word),
                                    !.mingw = IsMinGW(word)]
        [] pos = 4 -> [kinds EXCEPT !.env = env,
                         !.format = IF env = "UnknownEnvironment" THEN ParseFormat(word)
                                    ELSE IF others = {} THEN @ ELSE "UnknownObjectFormat"]

Advance == pos' = pos + 1 /\ stage' = IF pos = 4 THEN "settle" ELSE "find"

AlreadyFound ==
  /\ stage = "find" /\ pos \in found
  /\ Advance /\ UNCHANGED <<input, components, found, comp, idx, kinds, first>>

NoComponent ==
  /\ stage = "find" /\ pos \notin found /\ Candidates = {}
  /\ LET free == Free(components, 1)
     IN  kinds' = IF free = {} THEN kinds ELSE KindsAfter(Max(free), free \ {Max(free)})
  /\ Advance /\ UNCHANGED <<input, components, found, comp, idx, first>>

\* Mutant of FindComponent: the kinds are not read again.
FindComponentUnread ==
  /\ stage = "find" /\ pos \notin found /\ Candidates # {}
  /\ idx' = Min(Candidates) /\ comp' = components[idx'] /\ stage' = "move"
  /\ UNCHANGED <<input, components, found, pos, kinds, first>>

FindComponent ==
  /\ stage = "find" /\ pos \notin found /\ Candidates # {}
  /\ idx' = Min(Candidates) /\ comp' = components[idx']
  /\ kinds' = KindsAfter(idx', {k \in Free(components, 1) : k < idx'})
  /\ stage' = "move"
  /\ UNCHANGED <<input, components, found, pos, first>>

----------------------------------------------------------------------------
(* The moves.                                                              *)

\* Mutant of Insert: what is pushed off the end is lost.
InsertWithin(words, at, word) ==
  LET free == Free(words, at)
      hole == Min({k \in free : k = Max(free) \/ words[k] = ""})
  IN  [k \in DOMAIN words |->
         IF k = at THEN word
         ELSE IF k \in free /\ k <= hole THEN words[Max({j \in free : j < k})] ELSE words[k]]

\* `words` with `word` inserted at `at`; what is there and right of it moves right,
\* around the fixed positions, until an empty component gives way or the end.
Insert(words, at, word) ==
  LET free == Free(words, at) \cup {Len(words) + 1}
      hole == Min({k \in free : k = Len(words) + 1 \/ words[k] = ""})
  IN  [k \in 1 .. Max({Len(words), hole}) |->
         IF k = at THEN word
         ELSE IF k \in free /\ k <= hole THEN words[Max({j \in free : j < k})] ELSE words[k]]

\* From the right: an empty component is left where it was.
MoveLeft ==
  /\ stage = "move" /\ pos < idx
  /\ components' = Insert([components EXCEPT ![idx] = ""], pos, comp) /\ idx' = pos
  /\ UNCHANGED <<input, found, pos, comp, kinds, stage, first>>

\* From the left: an empty component is inserted before it.
PushRight ==
  /\ stage = "move" /\ idx < pos
  /\ components' = Insert(components, idx, "")
  /\ idx' = Min({k \in idx + 1 .. Len(components) + 5 : k \notin found})
  /\ UNCHANGED <<input, found, pos, comp, kinds, stage, first>>

\* The component has reached its position.
Fix ==
  /\ stage = "move" /\ idx = pos
  /\ found' = found \cup {pos}
  /\ Advance /\ UNCHANGED <<input, components, comp, idx, kinds, first>>

----------------------------------------------------------------------------
(* Special cases.                                                          *)

Resize(words, n) == [k \in 1 .. n |-> IF k <= Len(words) THEN words[k] ELSE ""]

OldAndroid == [androideabi |-> "android", androideabi21 |-> "android21"]

Renamed(words) ==
  [k \in DOMAIN words |->
     CASE k = 4 /\ words[k] \in DOMAIN OldAndroid /\ kinds.env = "Android" -> OldAndroid[words[k]]
       [] k = 4 /\ kinds.vendor = "SUSE" /\ kinds.env = "GNUEABI"          -> "gnueabihf"
       [] words[k] = ""                                                    -> "unknown"
       [] OTHER                                                            -> words[k]]

\* Systems of the Windows family: the environment tells them apart.
Windows == kinds.os = "Win32" \/ kinds.mingw \/ kinds.cygwin
WindowsEnvironment(word) ==
  IF kinds.os = "Win32"
  THEN IF kinds.env # "UnknownEnvironment" THEN word
       ELSE IF kinds.format \in {"UnknownObjectFormat", "COFF"} THEN "msvc"
       ELSE ObjectFormatTypeName[kinds.format]
  ELSE IF kinds.mingw THEN "gnu" ELSE "cygnus"
NamesFormat ==
  /\ kinds.mingw \/ kinds.cygwin \/ kinds.env # "UnknownEnvironment"
  /\ kinds.format \notin {"UnknownObjectFormat", "COFF"}

Settle ==
  /\ stage = "settle"
  /\ LET words == Renamed(components)
         four  == [Resize(words, 4) EXCEPT ![3] = "windows", ![4] = WindowsEnvironment(@)]
     IN  components' =
           IF ~Windows THEN words
           ELSE IF NamesFormat THEN Append(four, ObjectFormatTypeName[kinds.format]) ELSE four
  /\ stage' = "done"
  /\ UNCHANGED <<input, found, pos, comp, idx, kinds, first>>

\* The result is normalised again.
Again ==
  /\ stage = "done" /\ first = <<>>
  /\ first' = components /\ input' = components
  /\ kinds' = KindsInPlace(input') /\ found' = FoundInPlace(kinds')
  /\ pos' = 1 /\ comp' = "" /\ idx' = 0 /\ stage' = "find"
  /\ UNCHANGED components

Finished == stage = "done" /\ first # <<>> /\ UNCHANGED nvars

NNext ==
  \/ AlreadyFound \/ NoComponent \/ FindComponent
  \/ MoveLeft \/ PushRight \/ Fix \/ Settle \/ Again \/ Finished

----------------------------------------------------------------------------
(* Properties.                                                             *)

\* Moving permutes: the components that are not empty are those of the input, as
\* often as they were there, until the special cases.
NothingLost ==
  stage # "done" =>
    \A word \in {input[k] : k \in DOMAIN input} \cup {components[k] : k \in DOMAIN components} :
      word # "" => Cardinality({k \in DOMAIN input : input[k] = word})
                     = Cardinality({k \in DOMAIN components : components[k] = word})

\* "At this point Arch, Vendor and OS have the correct values for the computed
\* components", and so has Environment.
KindsCorrect ==
  stage = "settle" =>
    LET k == KindsInPlace(components)
    IN  kinds.arch = k.arch /\ kinds.vendor = k.vendor /\ kinds.os = k.os /\ kinds.env = k.env

\* Object formats that a Windows triple does not keep: COFF is never named, though
\* not every architecture has it as default; of what follows the environment one word
\* is read, and if it names no format one in the word of the environment comes to
\* light; and to MinGW and Cygwin, which have the default of Windows in the result
\* only, a format in the word of the environment is lost.
FormatUnnamed ==
  LET last == ParseFormat(input[Len(input)])
  IN  \/ Windows /\ kinds.format = "COFF"
      \/ Windows /\ Len(input) > 4 /\ last # kinds.format
      \/ Windows /\ Len(input) > 4 /\ kinds.format = "UnknownObjectFormat" /\ input[4] = "gnuelf"
      \/ (kinds.mingw \/ kinds.cygwin) /\ last = "UnknownObjectFormat"
      \/ (kinds.mingw \/ kinds.cygwin) /\ Len(input) = 4 /\ input[4] = "gnuelf"

\* What the constructor reads in its place in the input, it reads in the result;
\* MinGW and Cygwin are systems of their own in the input only, and environments of
\* Windows in the result.
ReadingKept ==
  stage = "done" =>
    LET before == Parse(input)
        after  == Parse(components)
    IN  /\ before.arch # "UnknownArch" => after.arch = before.arch /\ after.sub = before.sub
        /\ before.vendor # "UnknownVendor" => after.vendor = before.vendor
        /\ before.os # "UnknownOS" => after.os = before.os /\ after.version = before.version
        /\ Len(input) > 3 /\ before.env # "UnknownEnvironment" /\ ~kinds.mingw /\ ~kinds.cygwin
             => after.env \in {before.env, "GNUEABIHF"}
        /\ kinds.mingw => IsWindowsGNUEnvironment(after)
        /\ kinds.cygwin => IsWindowsCygwinEnvironment(after)
        /\ kinds.os = "Win32" /\ kinds.env = "UnknownEnvironment" => IsWindowsMSVCEnvironment(after)
        /\ Len(input) > 3 /\ (\A p \in 1 .. 4 : Valid(p, input[p])) /\ ~FormatUnnamed
             => after.format = before.format

\* The canonical form is canonical: it is its own normal form.
Idempotent == stage = "done" /\ first # <<>> => components = first
=============================================================================
