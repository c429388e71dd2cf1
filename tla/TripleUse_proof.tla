-------------------------- MODULE TripleUse_proof --------------------------
(***************************************************************************)
(* The use of a triple, for every string and every table of the modules,   *)
(* bounds and options.                                                     *)
(*                                                                         *)
(* The first part is about the triple made from a string: what the         *)
(* constructor reads from each word (IsRead), what the setters and the     *)
(* variants make of it, and UseInv, which says of every module linked and  *)
(* every variant how it stands to the one it came from.                    *)
(*                                                                         *)
(* The second part is about normalize: an insertion moves words only to    *)
(* where a blank was given up (IsInserted), so that the words before and   *)
(* after are the same up to a bijection of their positions (SameWords);    *)
(* NormInv says so, and that nothing still to be placed can be read as a   *)
(* position that was given up.                                             *)
(*                                                                         *)
(* The third part is about what normalize keeps: words that can be read in *)
(* their places are not moved out of them (OrderedIs), and the special     *)
(* cases rename only what they are read as again (SettledWords). ReadInv   *)
(* joins the two.                                                          *)
(*                                                                         *)
(* The last part is about the normal form: what the search leaves where it *)
(* is (LeftIs) makes the result a normal form (IsNormal), and a normal     *)
(* form is left as it is (AgainIs). NormalInv joins them.                  *)
(***************************************************************************)
EXTENDS TripleUse, FiniteSetTheorems, SequenceTheorems, NaturalsInduction,
        WellFoundedInduction, TLAPS

----------------------------------------------------------------------------
(* Words: every kind is read back from its name.                           *)

LEMMA ArchsRead == \A a \in Arch : ParseArch(ArchTypeName(a)) = a
BY DEF Arch, Arch16, Arch32, Arch64, ParseArch, ArchTypeName, OwnName, Alias, ARMWords

LEMMA ArchsAre == \A w : ParseArch(w) \in Arch
BY DEF Arch, Arch16, Arch32, Arch64, ParseArch, Alias, ARMWords, ParseARMArch

LEMMA VendorsRead ==
  /\ \A v \in DOMAIN VendorTypeName : ParseVendor(VendorTypeName[v]) = v
  /\ ParseVendor("") = "UnknownVendor"
BY DEF VendorTypeName, ParseVendor, Lookup, Vendors

LEMMA SystemsRead ==
  /\ \A o \in DOMAIN OSTypeName : ParseOS(OSTypeName[o]) = o
  /\ ParseOS("") = "UnknownOS" /\ OSVersion("") = <<0, 0>>
<1>1. \A o \in {"Linux", "Win32", "AIX", "ZOS", "UnknownOS"} : ParseOS(OSTypeName[o]) = o
  BY DEF ParseOS, Lookup, Systems, AppleWords, OSTypeName
<1>2. \A o \in {"Darwin", "IOS", "MacOSX", "TvOS", "WatchOS"} : ParseOS(OSTypeName[o]) = o
  <2>1. \A w \in {"darwin", "ios", "macosx", "tvos", "watchos"} \cap AppleWords :
          ParseOS(w) = AppleSystem(w)
    BY DEF ParseOS, Lookup, Systems, AppleWords
  <2> QED BY <2>1 DEF AppleSystem, AppleWords, OSTypeName
<1>3. DOMAIN OSTypeName = {"Linux", "Win32", "AIX", "ZOS", "UnknownOS"}
                            \cup {"Darwin", "IOS", "MacOSX", "TvOS", "WatchOS"}
  BY DEF OSTypeName
<1>4. ParseOS("") = "UnknownOS" /\ OSVersion("") = <<0, 0>>
  BY DEF ParseOS, OSVersion, Lookup, Systems, Versions, AppleWords
<1> QED BY <1>1, <1>2, <1>3, <1>4

LEMMA EnvironmentsRead ==
  /\ \A e \in DOMAIN EnvironmentTypeName :
       /\ ParseEnvironment(EnvironmentTypeName[e]) = e
       /\ ParseFormat(EnvironmentTypeName[e]) = "UnknownObjectFormat"
  /\ ParseEnvironment("") = "UnknownEnvironment" /\ ParseFormat("") = "UnknownObjectFormat"
  /\ \A w : ParseEnvironment(w) \in DOMAIN EnvironmentTypeName
  /\ \A w : BareEnvironment(w) \in DOMAIN EnvironmentTypeName
  /\ "UnknownEnvironment" \in DOMAIN EnvironmentTypeName
BY DEF EnvironmentTypeName, ParseEnvironment, Lookup, Environments, ParseFormat, Formats,
       BareEnvironment

LEMMA FormatsRead ==
  /\ \A f \in DOMAIN ObjectFormatTypeName \ {"UnknownObjectFormat"} :
       /\ ParseFormat(ObjectFormatTypeName[f]) = f
       /\ ParseEnvironment(ObjectFormatTypeName[f]) = "UnknownEnvironment"
  /\ \A w : ParseFormat(w) \in DOMAIN ObjectFormatTypeName
  /\ \A a, o : DefaultFormat(a, o) \in DOMAIN ObjectFormatTypeName
<1> DEFINE named == {"COFF", "ELF", "MachO", "Wasm", "XCOFF", "GOFF"}
<1>0. DOMAIN ObjectFormatTypeName = named \cup {"UnknownObjectFormat"}
  BY DEF ObjectFormatTypeName
<1>5. /\ ObjectFormatTypeName["COFF"] = "coff" /\ ObjectFormatTypeName["ELF"] = "elf"
      /\ ObjectFormatTypeName["MachO"] = "macho" /\ ObjectFormatTypeName["Wasm"] = "wasm"
      /\ ObjectFormatTypeName["XCOFF"] = "xcoff" /\ ObjectFormatTypeName["GOFF"] = "goff"
  BY DEF ObjectFormatTypeName
<1>1. \A f \in named : ParseFormat(ObjectFormatTypeName[f]) = f
  BY <1>5 DEF Lookup, ParseFormat, Formats
<1>2. \A f \in named : ParseEnvironment(ObjectFormatTypeName[f]) = "UnknownEnvironment"
  BY <1>5 DEF Lookup, ParseEnvironment, Environments
<1>3. \A w : ParseFormat(w) \in DOMAIN ObjectFormatTypeName
  BY <1>0 DEF Lookup, ParseFormat, Formats
<1>4. \A a, o : DefaultFormat(a, o) \in DOMAIN ObjectFormatTypeName
  BY <1>0 DEF DefaultFormat
<1> QED BY <1>0, <1>1, <1>2, <1>3, <1>4

\* Versions are pairs, and the minor ones of macOS 10 end at 16.
IsVersion(v) == v[1] \in Nat /\ v[2] \in Nat /\ v = <<v[1], v[2]>> /\ (v[1] = 10 => v[2] <= 16)

LEMMA VersionsAre == \A w : IsVersion(OSVersion(w))
BY DEF OSVersion, Lookup, Versions, AppleWords, IsVersion

----------------------------------------------------------------------------
(* Strings as sequences of words.                                          *)

IsWords(d) == Len(d) \in Nat /\ d \in Seq({d[k] : k \in 1 .. Len(d)})

LEMMA WordsFrom ==
  ASSUME NEW S, NEW d \in Seq(S)
  PROVE  IsWords(d)
<1>1. Len(d) \in Nat /\ d \in [1 .. Len(d) -> S]  BY LenProperties
<1>2. d \in [1 .. Len(d) -> {d[k] : k \in 1 .. Len(d)}]  BY <1>1
<1> QED BY <1>1, <1>2 DEF IsWords

IsJoined(e, s, t) == e = s \o t

LEMMA Joined ==
  ASSUME NEW s, NEW t, IsWords(s), IsWords(t), NEW e, IsJoined(e, s, t)
  PROVE  /\ IsWords(e) /\ Len(e) = Len(s) + Len(t)
         /\ \A k \in 1 .. Len(s) : e[k] = s[k]
         /\ \A k \in 1 .. Len(t) : e[Len(s) + k] = t[k]
<1> DEFINE A == {s[k] : k \in 1 .. Len(s)}
           B == {t[k] : k \in 1 .. Len(t)}
           S == A \cup B
           m == Len(s)
           n == Len(t)
<1>1. m \in Nat /\ n \in Nat  BY DEF IsWords
<1>2. s \in Seq(S) /\ t \in Seq(S)
  <2>1. s \in Seq(A) /\ t \in Seq(B) /\ A \subseteq S /\ B \subseteq S  BY DEF IsWords
  <2> HIDE DEF A, B, S
  <2> QED BY <2>1, SeqMonotonic
<1> HIDE DEF A, B, S
<1>3. /\ e \in Seq(S) /\ Len(e) = m + n
      /\ \A k \in 1 .. m + n : e[k] = IF k <= m THEN s[k] ELSE t[k - m]
  BY <1>1, <1>2, ConcatProperties DEF IsJoined
<1> HIDE DEF m, n
<1>4. \A k \in 1 .. m : e[k] = s[k]  BY <1>1, <1>3
<1>5. ASSUME NEW k \in 1 .. n  PROVE e[m + k] = t[k]
  <2>1. m + k \in 1 .. m + n /\ ~(m + k <= m) /\ (m + k) - m = k  BY <1>1
  <2> QED BY <1>3, <2>1
<1> QED BY <1>3, <1>4, <1>5, WordsFrom DEF m, n

IsRest(r, d) == r = SubSeq(d, 4, Len(d))

LEMMA RestIs ==
  ASSUME NEW d, IsWords(d), NEW r, IsRest(r, d)
  PROVE  /\ IsWords(r) /\ Len(r) = (IF Len(d) > 3 THEN Len(d) - 3 ELSE 0)
         /\ \A k \in 1 .. Len(r) : r[k] = d[3 + k]
<1> DEFINE S == {d[k] : k \in 1 .. Len(d)}
           n == Len(d)
<1>1. n \in Nat /\ d \in Seq(S)  BY DEF IsWords
<1>2. \A k \in 4 .. n : d[k] \in S  BY <1>1
<1> HIDE DEF S
<1>3. /\ r \in Seq(S) /\ Len(r) = IF 4 <= n THEN n - 4 + 1 ELSE 0
      /\ \A k \in 1 .. n - 4 + 1 : r[k] = d[4 + k - 1]
  BY <1>1, <1>2, SubSeqProperties DEF IsRest
<1>4. IsWords(r)  BY <1>3, WordsFrom
<1> HIDE DEF n
<1>5. Len(r) = IF n > 3 THEN n - 3 ELSE 0  BY <1>1, <1>3
<1>6. ASSUME NEW k \in 1 .. Len(r)  PROVE r[k] = d[3 + k]
  <2>1. k \in 1 .. n - 4 + 1 /\ 4 + k - 1 = 3 + k  BY <1>1, <1>5
  <2> QED BY <1>3, <2>1
<1> QED BY <1>4, <1>5, <1>6 DEF n

----------------------------------------------------------------------------
(* What the constructor reads, and where.                                  *)

WordOf(d, k)   == IF Len(d) >= k THEN d[k] ELSE ""
NamedFormat(d) == IF Len(d) > 3 THEN ParseFormat(d[Len(d)]) ELSE "UnknownObjectFormat"
IsString(d)    == IsWords(d) /\ Len(d) >= 1

\* t is the triple that is read from d.
IsRead(t, d) ==
  /\ t.arch = ParseArch(WordOf(d, 1)) /\ t.sub = ParseSubArch(WordOf(d, 1))
  /\ t.vendor = ParseVendor(WordOf(d, 2))
  /\ t.os = ParseOS(WordOf(d, 3)) /\ t.version = OSVersion(WordOf(d, 3))
  /\ t.env = IF Len(d) = 1 THEN BareEnvironment(d[1]) ELSE ParseEnvironment(WordOf(d, 4))
  /\ t.format = IF NamedFormat(d) = "UnknownObjectFormat" THEN DefaultFormat(t.arch, t.os)
                ELSE NamedFormat(d)
  /\ t = [arch |-> t.arch, sub |-> t.sub, vendor |-> t.vendor, os |-> t.os,
          version |-> t.version, env |-> t.env, format |-> t.format]

LEMMA ReadIs ==
  ASSUME NEW d, IsString(d), NEW t, t = Parse(d)
  PROVE  IsRead(t, d)
<1> DEFINE n == Len(d)
<1>1. n \in Nat /\ n >= 1  BY DEF IsString, IsWords
<1>2. /\ t.arch = ParseArch(d[1]) /\ t.sub = ParseSubArch(d[1])
      /\ t.vendor = IF n > 1 THEN ParseVendor(d[2]) ELSE "UnknownVendor"
      /\ t.os = IF n > 2 THEN ParseOS(d[3]) ELSE "UnknownOS"
      /\ t.version = IF n > 2 THEN OSVersion(d[3]) ELSE <<0, 0>>
      /\ t.env = IF n > 3 THEN ParseEnvironment(d[4])
                 ELSE IF n = 1 THEN BareEnvironment(d[1]) ELSE "UnknownEnvironment"
      /\ t.format = IF NamedFormat(d) = "UnknownObjectFormat" THEN DefaultFormat(t.arch, t.os)
                    ELSE NamedFormat(d)
      /\ t = [arch |-> t.arch, sub |-> t.sub, vendor |-> t.vendor, os |-> t.os,
              version |-> t.version, env |-> t.env, format |-> t.format]
  BY DEF Parse, NamedFormat
<1>3. \A k \in 1 .. 4 : WordOf(d, k) = IF n >= k THEN d[k] ELSE ""
  BY Zenon DEF WordOf
<1> HIDE DEF n
<1>4. (1 \in 1 .. 4) /\ (2 \in 1 .. 4) /\ (3 \in 1 .. 4) /\ (4 \in 1 .. 4)
      /\ (n >= 1) /\ ((n > 1) <=> n >= 2) /\ ((n > 2) <=> n >= 3) /\ ((n > 3) <=> n >= 4)
      /\ (n = 1 => ~(n > 3))
  BY <1>1
<1>5. t.arch = ParseArch(WordOf(d, 1)) /\ t.sub = ParseSubArch(WordOf(d, 1))
  BY Zenon, <1>2, <1>3, <1>4
<1>6. t.vendor = ParseVendor(WordOf(d, 2))  BY Zenon, <1>2, <1>3, <1>4, VendorsRead
<1>7. t.os = ParseOS(WordOf(d, 3)) /\ t.version = OSVersion(WordOf(d, 3))
  BY Zenon, <1>2, <1>3, <1>4, SystemsRead
<1>8. t.env = IF n = 1 THEN BareEnvironment(d[1]) ELSE ParseEnvironment(WordOf(d, 4))
  BY Zenon, <1>2, <1>3, <1>4, EnvironmentsRead
<1> QED BY <1>2, <1>5, <1>6, <1>7, <1>8 DEF IsRead, n

LEMMA WordsAre ==
  \A k : Word(k) = WordOf(data, k)
BY Zenon DEF Word, WordOf

\* Three words and the rest, which is that of d.
LEMMA Replaced ==
  ASSUME NEW d, IsString(d), NEW a, NEW b, NEW c, NEW r, IsRest(r, d),
         NEW e, IsJoined(e, <<a, b, c>>, r)
  PROVE  /\ IsString(e) /\ Len(e) >= 3
         /\ WordOf(e, 1) = a /\ WordOf(e, 2) = b /\ WordOf(e, 3) = c
         /\ WordOf(e, 4) = WordOf(d, 4) /\ NamedFormat(e) = NamedFormat(d)
<1> DEFINE s == <<a, b, c>>
           n == Len(d)
           m == Len(e)
<1>1. IsWords(s) /\ Len(s) = 3 /\ s[1] = a /\ s[2] = b /\ s[3] = c
  <2>1. s \in Seq({a, b, c}) /\ Len(s) = 3 /\ s[1] = a /\ s[2] = b /\ s[3] = c  OBVIOUS
  <2> HIDE DEF s
  <2> QED BY <2>1, WordsFrom
<1> HIDE DEF s
<1>2. IsWords(d) /\ n \in Nat /\ n >= 1  BY DEF IsString, IsWords
<1>3. /\ IsWords(r) /\ Len(r) = (IF n > 3 THEN n - 3 ELSE 0)
      /\ \A k \in 1 .. Len(r) : r[k] = d[3 + k]
  BY <1>2, RestIs
<1>4. /\ IsWords(e) /\ m = 3 + Len(r)
      /\ \A k \in 1 .. 3 : e[k] = s[k]
      /\ \A k \in 1 .. Len(r) : e[3 + k] = r[k]
  <2>1. IsJoined(e, s, r)  BY DEF s
  <2>2. /\ IsWords(e) /\ Len(e) = Len(s) + Len(r)
        /\ \A k \in 1 .. Len(s) : e[k] = s[k]
        /\ \A k \in 1 .. Len(r) : e[Len(s) + k] = r[k]
    <3>1. IsWords(s) /\ IsWords(r)  BY <1>1, <1>3
    <3> HIDE DEF n, m
    <3>2. IsWords(e)  BY <2>1, <3>1, Joined
    <3>3. Len(e) = Len(s) + Len(r)  BY <2>1, <3>1, Joined
    <3>4. \A k \in 1 .. Len(s) : e[k] = s[k]  BY <2>1, <3>1, Joined
    <3>5. \A k \in 1 .. Len(r) : e[Len(s) + k] = r[k]  BY <2>1, <3>1, Joined
    <3> QED BY <3>2, <3>3, <3>4, <3>5
  <2> QED BY <1>1, <2>2
<1> HIDE DEF n, m
<1>5. m = (IF n > 3 THEN n ELSE 3) /\ m \in Nat  BY <1>2, <1>3, <1>4
<1>6. e[1] = a /\ e[2] = b /\ e[3] = c
  <2>1. (1 \in 1 .. 3) /\ (2 \in 1 .. 3) /\ (3 \in 1 .. 3)  OBVIOUS
  <2> QED BY <1>1, <1>4, <2>1
<1>7. n > 3 => e[4] = d[4] /\ e[m] = d[n]
  <2> HAVE n > 3
  <2>1. (1 \in 1 .. Len(r)) /\ (n - 3 \in 1 .. Len(r)) /\ (3 + 1 = 4) /\ (3 + (n - 3) = n) /\ (m = n)
    BY <1>2, <1>3, <1>5
  <2> QED BY <1>3, <1>4, <2>1
<1>8. (m >= 1) /\ (m >= 2) /\ (m >= 3) /\ ((m >= 4) <=> n > 3) /\ ((n >= 4) <=> n > 3)
      /\ ((m > 3) <=> n > 3)
  BY <1>2, <1>5
<1>9. WordOf(e, 1) = a /\ WordOf(e, 2) = b /\ WordOf(e, 3) = c
  BY Zenon, <1>6, <1>8 DEF WordOf, m
<1>10. WordOf(e, 4) = WordOf(d, 4)  BY Zenon, <1>7, <1>8 DEF WordOf, m, n
<1>11. NamedFormat(e) = NamedFormat(d)  BY Zenon, <1>7, <1>8 DEF NamedFormat, m, n
<1> QED BY <1>4, <1>8, <1>9, <1>10, <1>11 DEF IsString, m

\* Three words of d and other ones behind them.
LEMMA Continued ==
  ASSUME NEW d, IsString(d), NEW a, NEW b, NEW c, NEW r, IsWords(r),
         NEW e, IsJoined(e, <<a, b, c>>, r)
  PROVE  /\ IsString(e) /\ Len(e) = 3 + Len(r) /\ Len(r) \in Nat
         /\ WordOf(e, 1) = a /\ WordOf(e, 2) = b /\ WordOf(e, 3) = c
         /\ WordOf(e, 4) = WordOf(r, 1)
         /\ Len(r) >= 1 => NamedFormat(e) = ParseFormat(r[Len(r)])
         /\ Len(r) = 0 => NamedFormat(e) = "UnknownObjectFormat"
<1> DEFINE s == <<a, b, c>>
           n == Len(r)
           m == Len(e)
<1>1. IsWords(s) /\ Len(s) = 3 /\ s[1] = a /\ s[2] = b /\ s[3] = c
  <2>1. s \in Seq({a, b, c}) /\ Len(s) = 3 /\ s[1] = a /\ s[2] = b /\ s[3] = c  OBVIOUS
  <2> HIDE DEF s
  <2> QED BY <2>1, WordsFrom
<1> HIDE DEF s
<1>2. n \in Nat  BY DEF IsWords
<1>4. /\ IsWords(e) /\ m = 3 + n
      /\ \A k \in 1 .. 3 : e[k] = s[k]
      /\ \A k \in 1 .. n : e[3 + k] = r[k]
  <2>1. IsJoined(e, s, r)  BY DEF s
  <2>2. /\ IsWords(e) /\ Len(e) = Len(s) + Len(r)
        /\ \A k \in 1 .. Len(s) : e[k] = s[k]
        /\ \A k \in 1 .. Len(r) : e[Len(s) + k] = r[k]
    <3>1. IsWords(s) /\ IsWords(r)  BY <1>1
    <3> HIDE DEF n, m
    <3>2. IsWords(e)  BY <2>1, <3>1, Joined
    <3>3. Len(e) = Len(s) + Len(r)  BY <2>1, <3>1, Joined
    <3>4. \A k \in 1 .. Len(s) : e[k] = s[k]  BY <2>1, <3>1, Joined
    <3>5. \A k \in 1 .. Len(r) : e[Len(s) + k] = r[k]  BY <2>1, <3>1, Joined
    <3> QED BY <3>2, <3>3, <3>4, <3>5
  <2> QED BY <1>1, <2>2
<1> HIDE DEF n, m
<1>6. e[1] = a /\ e[2] = b /\ e[3] = c
  <2>1. (1 \in 1 .. 3) /\ (2 \in 1 .. 3) /\ (3 \in 1 .. 3)  OBVIOUS
  <2> QED BY <1>1, <1>4, <2>1
<1>7. n >= 1 => e[4] = r[1] /\ e[m] = r[n]
  <2> HAVE n >= 1
  <2>1. (1 \in 1 .. n) /\ (n \in 1 .. n) /\ (3 + 1 = 4)  BY <1>2
  <2> QED BY <1>4, <2>1
<1>8. (m >= 1) /\ (m >= 2) /\ (m >= 3) /\ ((m >= 4) <=> n >= 1) /\ ((m > 3) <=> n >= 1)
      /\ (n = 0 <=> ~(n >= 1))
  BY <1>2, <1>4
<1>9. WordOf(e, 1) = a /\ WordOf(e, 2) = b /\ WordOf(e, 3) = c
  BY Zenon, <1>6, <1>8 DEF WordOf, m
<1>10. WordOf(e, 4) = WordOf(r, 1)  BY Zenon, <1>7, <1>8 DEF WordOf, m, n
<1>11. IF n >= 1 THEN NamedFormat(e) = ParseFormat(r[n]) ELSE NamedFormat(e) = "UnknownObjectFormat"
  BY Zenon, <1>7, <1>8 DEF NamedFormat, m
<1> QED BY <1>2, <1>4, <1>8, <1>9, <1>10, <1>11 DEF IsString, m, n

----------------------------------------------------------------------------
(* Tables.                                                                 *)

Asked == {"64", "32", "big", "little"}

\* The architecture of a variant.
Variant(v, a) ==
  CASE v = "64"     -> IF a \in No64 THEN "UnknownArch"
                       ELSE IF a \in DOMAIN To64 THEN To64[a] ELSE a
    [] v = "32"     -> IF a \in No32 THEN "UnknownArch"
                       ELSE IF a \in DOMAIN To32 THEN To32[a] ELSE a
    [] v = "big"    -> IF a \in BigEndian THEN a
                       ELSE IF a \in DOMAIN ToBig THEN ToBig[a] ELSE "UnknownArch"
    [] v = "little" -> IF a \notin BigEndian THEN a
                       ELSE IF a \in DOMAIN ToLittle THEN ToLittle[a] ELSE "UnknownArch"

Family(a, b) ==
  LET p == ArchTypePrefix(a)
      q == ArchTypePrefix(b)
  IN  \/ p = q
      \/ p = "aarch64" /\ q = "arm"
      \/ p = "arm" /\ q = "aarch64"
      \/ p = "le32" /\ q = "le64"
      \/ p = "le64" /\ q = "le32"

AskedWidth(v, a) == CASE v = "64" -> 64 [] v = "32" -> 32 [] OTHER -> Width(a)
AskedOrder(v, a) == CASE v = "big" -> TRUE [] v = "little" -> FALSE [] OTHER -> Big(a)

LEMMA Tables ==
  /\ No64 \cap DOMAIN To64 = {} /\ No32 \cap DOMAIN To32 = {}
  /\ BigEndian \cap DOMAIN ToBig = {} /\ DOMAIN ToLittle \subseteq BigEndian
<1>1. No64 \cap DOMAIN To64 = {}  BY DEF No64, To64
<1>2. No32 \cap DOMAIN To32 = {}  BY DEF No32, To32
<1>3. BigEndian \cap DOMAIN ToBig = {}  BY DEF BigEndian, ToBig
<1>4. DOMAIN ToLittle \subseteq BigEndian  BY DEF BigEndian, ToLittle
<1> QED BY <1>1, <1>2, <1>3, <1>4

LEMMA Families ==
  /\ \A a \in DOMAIN To64 : Family(a, To64[a])
  /\ \A a \in DOMAIN To32 : Family(a, To32[a])
  /\ \A a \in DOMAIN ToBig : Family(a, ToBig[a])
  /\ \A a \in DOMAIN ToLittle : Family(a, ToLittle[a])
<1> DEFINE arms == {"arm", "thumb", "armeb", "thumbeb"}
<1>1. /\ \A a \in {"aarch64", "aarch64_be", "aarch64_32"} : ArchTypePrefix(a) = "aarch64"
      /\ \A a \in arms : ArchTypePrefix(a) = "arm"
      /\ \A a \in {"le32", "le64"} : ArchTypePrefix(a) = a
  BY DEF ArchTypePrefix
<1>2. ASSUME NEW a \in DOMAIN To64  PROVE Family(a, To64[a])
  <2>1. a \in arms \cup {"le32"} \/ ArchTypePrefix(a) = ArchTypePrefix(To64[a])
    BY DEF ArchTypePrefix, To64
  <2>2. (\A x \in arms : To64[x] \in {"aarch64", "aarch64_be"}) /\ To64["le32"] = "le64"
    BY DEF To64
  <2>3. CASE a \in arms
    <3>1. ArchTypePrefix(a) = "arm" /\ ArchTypePrefix(To64[a]) = "aarch64"  BY <1>1, <2>2, <2>3
    <3> QED BY <3>1 DEF Family
  <2>4. CASE a = "le32"
    <3>1. ArchTypePrefix(a) = "le32" /\ ArchTypePrefix(To64[a]) = "le64"  BY <1>1, <2>2, <2>4
    <3> QED BY <3>1 DEF Family
  <2> QED BY <2>1, <2>3, <2>4 DEF Family
<1>3. ASSUME NEW a \in DOMAIN To32  PROVE Family(a, To32[a])
  <2>1. a \in {"aarch64", "aarch64_be", "le64"} \/ ArchTypePrefix(a) = ArchTypePrefix(To32[a])
    BY DEF ArchTypePrefix, To32
  <2>2. To32["aarch64"] = "arm" /\ To32["aarch64_be"] = "armeb" /\ To32["le64"] = "le32"
    BY DEF To32
  <2>3. CASE a \in {"aarch64", "aarch64_be"}
    <3>1. ArchTypePrefix(a) = "aarch64" /\ ArchTypePrefix(To32[a]) = "arm"  BY <1>1, <2>2, <2>3
    <3> QED BY <3>1 DEF Family
  <2>4. CASE a = "le64"
    <3>1. ArchTypePrefix(a) = "le64" /\ ArchTypePrefix(To32[a]) = "le32"  BY <1>1, <2>2, <2>4
    <3> QED BY <3>1 DEF Family
  <2> QED BY <2>1, <2>3, <2>4 DEF Family
<1>4. ASSUME NEW a \in DOMAIN ToBig  PROVE Family(a, ToBig[a])
  <2>1. a \in {"tcele"} \/ ArchTypePrefix(a) = ArchTypePrefix(ToBig[a])
    BY DEF ArchTypePrefix, ToBig
  <2>2. ToBig["tcele"] = "tce"  BY DEF ToBig
  <2>3. ArchTypePrefix("tcele") = ArchTypePrefix("tce")  BY DEF ArchTypePrefix
  <2> QED BY <2>1, <2>2, <2>3 DEF Family
<1>5. ASSUME NEW a \in DOMAIN ToLittle  PROVE Family(a, ToLittle[a])
  <2>1. ArchTypePrefix(a) = ArchTypePrefix(ToLittle[a])
    BY DEF ArchTypePrefix, ToLittle
  <2> QED BY <2>1 DEF Family
<1> QED BY <1>2, <1>3, <1>4, <1>5

\* A variant is an architecture of the family, and of the width and byte order asked for.
LEMMA VariantFits ==
  ASSUME NEW v \in Asked, NEW a \in Arch, NEW b, b = Variant(v, a)
  PROVE  /\ b \in Arch
         /\ b # "UnknownArch" =>
              /\ Family(a, b)
              /\ Width(b) = AskedWidth(v, a)
              /\ Big(b) = AskedOrder(v, a)
<1>1. b # "UnknownArch" => Family(a, b)
  <2>1. b \in {a, "UnknownArch"}
          \/ (a \in DOMAIN To64 /\ b = To64[a]) \/ (a \in DOMAIN To32 /\ b = To32[a])
          \/ (a \in DOMAIN ToBig /\ b = ToBig[a]) \/ (a \in DOMAIN ToLittle /\ b = ToLittle[a])
    BY DEF Variant, Asked
  <2>2. Family(a, a)  BY DEF Family
  <2> QED BY <2>1, <2>2, Families
<1>2. CASE v = "64"
  <2>1. b \in Arch  BY <1>2 DEF Arch, Arch16, Arch32, Arch64, Variant, No64, To64
  <2>2. b # "UnknownArch" => Width(b) = 64
    BY <1>2 DEF Arch, Arch16, Arch32, Arch64, Variant, No64, To64, Width
  <2>3. b # "UnknownArch" => Big(b) = Big(a)
    BY <1>2 DEF Arch, Arch16, Arch32, Arch64, Variant, No64, To64, Big, BigEndian
  <2> QED BY <1>1, <1>2, <2>1, <2>2, <2>3 DEF AskedWidth, AskedOrder
<1>3. CASE v = "32"
  <2>1. b \in Arch  BY <1>3 DEF Arch, Arch16, Arch32, Arch64, Variant, No32, To32
  <2>2. b # "UnknownArch" => Width(b) = 32
    BY <1>3 DEF Arch, Arch16, Arch32, Arch64, Variant, No32, To32, Width
  <2>3. b # "UnknownArch" => Big(b) = Big(a)
    BY <1>3 DEF Arch, Arch16, Arch32, Arch64, Variant, No32, To32, Big, BigEndian
  <2> QED BY <1>1, <1>3, <2>1, <2>2, <2>3 DEF AskedWidth, AskedOrder
<1>4. CASE v = "big"
  <2>1. b \in Arch  BY <1>4 DEF Arch, Arch16, Arch32, Arch64, Variant, BigEndian, ToBig
  <2>2. b # "UnknownArch" => Width(b) = Width(a)
    <3>1. \A x \in DOMAIN ToBig : Width(ToBig[x]) = Width(x)
      BY DEF Arch16, Arch32, Arch64, ToBig, Width
    <3> QED BY <1>4, <3>1 DEF Variant
  <2>3. b # "UnknownArch" => Big(b) = TRUE
    <3>1. \A x \in DOMAIN ToBig : Big(ToBig[x]) = TRUE
      BY DEF ToBig, Big, BigEndian
    <3> QED BY <1>4, <3>1 DEF Variant, Big
  <2> QED BY <1>1, <1>4, <2>1, <2>2, <2>3 DEF AskedWidth, AskedOrder
<1>5. CASE v = "little"
  <2>1. b \in Arch  BY <1>5 DEF Arch, Arch16, Arch32, Arch64, Variant, ToLittle
  <2>2. b # "UnknownArch" => Width(b) = Width(a)
    <3>1. \A x \in DOMAIN ToLittle : Width(ToLittle[x]) = Width(x)
      BY DEF Arch16, Arch32, Arch64, ToLittle, Width
    <3> QED BY <1>5, <3>1 DEF Variant
  <2>3. b # "UnknownArch" => Big(b) = FALSE
    <3>1. \A x \in DOMAIN ToLittle : Big(ToLittle[x]) = FALSE
      BY DEF ToLittle, Big, BigEndian
    <3> QED BY <1>5, <3>1 DEF Variant, Big
  <2> QED BY <1>1, <1>5, <2>1, <2>2, <2>3 DEF AskedWidth, AskedOrder
<1> QED BY <1>2, <1>3, <1>4, <1>5 DEF Asked

\* And leads back, but for Thumb and AArch64 with 32 bits.
LEMMA VariantBack ==
  ASSUME NEW v \in Asked, NEW a \in Arch, NEW b, b = Variant(v, a), b \notin {a, "UnknownArch"},
         a \notin {"thumb", "thumbeb", "aarch64_32"}
  PROVE  Variant(Opposite(v), b) = a
<1>1. CASE v = "64"
  BY <1>1 DEF Opposite, Arch, Arch16, Arch32, Arch64, Variant, No64, To64, No32, To32
<1>2. CASE v = "32"
  BY <1>2 DEF Opposite, Arch, Arch16, Arch32, Arch64, Variant, No64, To64, No32, To32
<1>3. CASE v = "big"
  BY <1>3 DEF Opposite, Variant, BigEndian, ToBig, ToLittle
<1>4. CASE v = "little"
  BY <1>4 DEF Opposite, Variant, BigEndian, ToBig, ToLittle
<1> QED BY <1>1, <1>2, <1>3, <1>4 DEF Asked

LEMMA SubIs ==
  /\ \A w : ParseSubArch(w) = "MipsSubArch_r6" => ParseArch(w) \in MIPS
  /\ \A a \in Arch : ParseSubArch(ArchTypeName(a)) # "MipsSubArch_r6"
  /\ \A a \in MIPS : ParseSubArch(ArchName(a, "MipsSubArch_r6")) = "MipsSubArch_r6"
                     /\ ParseArch(ArchName(a, "MipsSubArch_r6")) = a
  /\ \A a \in Arch : \A s : s # "MipsSubArch_r6" => ArchName(a, s) = ArchTypeName(a)
  /\ \A a \in Arch \ MIPS : \A s : ArchName(a, s) = ArchTypeName(a)
<1>1. \A w : ParseSubArch(w) = "MipsSubArch_r6" => ParseArch(w) \in MIPS
  <2>1. \A w : ParseSubArch(w) = "MipsSubArch_r6" => w \in R6Words
    BY DEF ParseSubArch, ARMWords
  <2>2. \A w \in R6Words : ParseArch(w) \in MIPS
    BY DEF R6Words, ParseArch, Alias, MIPS, ARMWords, Arch, Arch16, Arch32, Arch64
  <2> QED BY <2>1, <2>2
<1>2. \A a \in Arch : ParseSubArch(ArchTypeName(a)) # "MipsSubArch_r6"
  BY DEF Arch, Arch16, Arch32, Arch64, ArchTypeName, OwnName, ParseSubArch, R6Words, ARMWords
<1>3. \A a \in MIPS : ParseSubArch(ArchName(a, "MipsSubArch_r6")) = "MipsSubArch_r6"
                     /\ ParseArch(ArchName(a, "MipsSubArch_r6")) = a
  <2>1. /\ ArchName("mips", "MipsSubArch_r6") = "mipsisa32r6"
        /\ ArchName("mipsel", "MipsSubArch_r6") = "mipsisa32r6el"
        /\ ArchName("mips64", "MipsSubArch_r6") = "mipsisa64r6"
        /\ ArchName("mips64el", "MipsSubArch_r6") = "mipsisa64r6el"
    BY DEF ArchName
  <2>2. \A a \in MIPS : ParseSubArch(ArchName(a, "MipsSubArch_r6")) = "MipsSubArch_r6"
    BY <2>1 DEF MIPS, ParseSubArch, R6Words, ARMWords
  <2>3. \A a \in MIPS : ParseArch(ArchName(a, "MipsSubArch_r6")) = a
    BY <2>1 DEF MIPS, ParseArch, Alias, ARMWords, Arch, Arch16, Arch32, Arch64
  <2> QED BY <2>2, <2>3
<1>4. \A a, s : s # "MipsSubArch_r6" => ArchName(a, s) = ArchTypeName(a)
  BY DEF ArchName
<1>5. \A a \in Arch \ MIPS : \A s : ArchName(a, s) = ArchTypeName(a)
  BY DEF ArchName, MIPS
<1> QED BY <1>1, <1>2, <1>3, <1>4, <1>5

----------------------------------------------------------------------------
(* The mutators: what is read from the new string.                         *)

\* e is d with other words in the first three places.
IsChanged(e, d, a, b, c) ==
  /\ IsString(e) /\ Len(e) >= 3
  /\ WordOf(e, 1) = a /\ WordOf(e, 2) = b /\ WordOf(e, 3) = c
  /\ WordOf(e, 4) = WordOf(d, 4) /\ NamedFormat(e) = NamedFormat(d)

LEMMA Changed ==
  ASSUME IsString(data), NEW a, NEW b, NEW c, NEW e, e = <<a, b, c>> \o Rest
  PROVE  IsChanged(e, data, a, b, c)
<1>1. IsRest(Rest, data)  BY DEF IsRest, Rest
<1>2. IsJoined(e, <<a, b, c>>, Rest)  BY DEF IsJoined
<1>3. IsString(e) /\ Len(e) >= 3  BY <1>1, <1>2, Replaced
<1>4. WordOf(e, 1) = a  BY <1>1, <1>2, Replaced
<1>5. WordOf(e, 2) = b  BY <1>1, <1>2, Replaced
<1>6. WordOf(e, 3) = c  BY <1>1, <1>2, Replaced
<1>7. WordOf(e, 4) = WordOf(data, 4)  BY <1>1, <1>2, Replaced
<1>8. NamedFormat(e) = NamedFormat(data)  BY <1>1, <1>2, Replaced
<1> QED BY <1>3, <1>4, <1>5, <1>6, <1>7, <1>8 DEF IsChanged

LEMMA ArchSet ==
  ASSUME IsString(data), NEW arch, NEW sub, NEW e, e = WithArch(arch, sub)
  PROVE  IsChanged(e, data, ArchName(arch, sub), WordOf(data, 2), WordOf(data, 3))
<1>1. Word(2) = WordOf(data, 2) /\ Word(3) = WordOf(data, 3)  BY WordsAre
<1> QED BY <1>1, Changed DEF WithArch

LEMMA VendorSet ==
  ASSUME IsString(data), NEW vendor, SetVendor(vendor)
  PROVE  IsChanged(data', data, WordOf(data, 1), VendorTypeName[vendor], WordOf(data, 3))
<1>1. Word(1) = WordOf(data, 1) /\ Word(3) = WordOf(data, 3)  BY WordsAre
<1> QED BY <1>1, Changed DEF SetVendor

LEMMA OSSet ==
  ASSUME IsString(data), NEW os, SetOS(os)
  PROVE  IsChanged(data', data, WordOf(data, 1), WordOf(data, 2), OSTypeName[os])
<1> DEFINE a == WordOf(data, 1)
           b == WordOf(data, 2)
           c == OSTypeName[os]
<1>1. Word(1) = a /\ Word(2) = b  BY WordsAre
<1> HIDE DEF a, b, c
<1>2. CASE Rest # <<"">>
  <2>1. data' = <<a, b, c>> \o Rest  BY Zenon, <1>1, <1>2 DEF SetOS, c
  <2> QED BY <2>1, Changed DEF a, b, c
<1>3. CASE Rest = <<"">>
  <2> DEFINE e == data'
             r == <<>>
  <2>1. IsJoined(e, <<a, b, c>>, r)  BY Zenon, <1>1, <1>3 DEF SetOS, c, IsJoined
  <2>2. IsWords(r) /\ Len(r) = 0
    <3>1. r \in Seq({a}) /\ Len(r) = 0  OBVIOUS
    <3> HIDE DEF r
    <3> QED BY <3>1, WordsFrom
  <2> HIDE DEF r, e
  <2>3. /\ IsString(e) /\ Len(e) = 3 + Len(r)
        /\ WordOf(e, 1) = a /\ WordOf(e, 2) = b /\ WordOf(e, 3) = c
        /\ NamedFormat(e) = "UnknownObjectFormat"
    <3>1. IsString(e) /\ Len(e) = 3 + Len(r)  BY <2>1, <2>2, Continued
    <3>2. WordOf(e, 1) = a  BY <2>1, <2>2, Continued
    <3>3. WordOf(e, 2) = b  BY <2>1, <2>2, Continued
    <3>4. WordOf(e, 3) = c  BY <2>1, <2>2, Continued
    <3>5. NamedFormat(e) = "UnknownObjectFormat"  BY <2>1, <2>2, Continued
    <3> QED BY <3>1, <3>2, <3>3, <3>4, <3>5
  <2>4. Len(e) = 3 /\ Len(e) >= 3 /\ ~(Len(e) >= 4)  BY <2>2, <2>3
  <2>5. Len(data) \in Nat /\ Len(data) >= 1 /\ IsWords(data)  BY DEF IsString, IsWords
  <2>6. Len(data) = 4 /\ data[4] = Rest[1]
    <3>1. IsRest(Rest, data)  BY DEF IsRest, Rest
    <3>2. Len(Rest) = 1
      <4> DEFINE one == ""
      <4>1. Rest = <<one>>  BY <1>3
      <4> HIDE DEF one
      <4> QED BY <4>1
    <3>3. /\ Len(Rest) = (IF Len(data) > 3 THEN Len(data) - 3 ELSE 0)
          /\ \A k \in 1 .. Len(Rest) : Rest[k] = data[3 + k]
      BY <2>5, <3>1, RestIs
    <3>4. Len(data) = 4
      <4> DEFINE n == Len(data)
      <4>1. n \in Nat /\ 1 = IF n > 3 THEN n - 3 ELSE 0  BY <2>5, <3>2, <3>3
      <4> HIDE DEF n
      <4>2. n = 4  BY <4>1
      <4> QED BY <4>2 DEF n
    <3>5. 1 \in 1 .. Len(Rest)  BY <3>2
    <3>6. Rest[1] = data[3 + 1]  BY <3>3, <3>5
    <3> QED BY <3>4, <3>6
  <2>7. Len(data) > 3 /\ Len(data) >= 4  BY <2>6
  <2>8. WordOf(data, 4) = ""
    <3> DEFINE one == ""
    <3>1. Rest = <<one>>  BY <1>3
    <3> HIDE DEF one
    <3>2. Rest[1] = one  BY <3>1
    <3>3. WordOf(data, 4) = one  BY Zenon, <2>6, <2>7, <3>2 DEF WordOf
    <3> QED BY <3>3 DEF one
  <2>9. NamedFormat(data) = "UnknownObjectFormat"
    <3>1. WordOf(data, 4) = data[4]  BY <2>7 DEF WordOf
    <3> QED BY Zenon, <2>6, <2>7, <2>8, <3>1, EnvironmentsRead DEF NamedFormat
  <2>10. WordOf(e, 4) = ""  BY Zenon, <2>4 DEF WordOf
  <2> QED BY <2>3, <2>4, <2>8, <2>9, <2>10 DEF IsChanged, a, b, c, e
<1> QED BY <1>2, <1>3

\* What is read from d at present.
LEMMA TripleIs ==
  ASSUME IsString(data)
  PROVE  /\ IsRead(triple, data)
         /\ triple.arch \in Arch
         /\ triple.env \in DOMAIN EnvironmentTypeName
         /\ triple.format \in DOMAIN ObjectFormatTypeName
         /\ IsVersion(triple.version)
<1>1. IsRead(triple, data)  BY ReadIs DEF triple
<1>2. triple.arch \in Arch  BY <1>1, ArchsAre DEF IsRead
<1>3. triple.env \in DOMAIN EnvironmentTypeName  BY <1>1, EnvironmentsRead DEF IsRead
<1>4. triple.format \in DOMAIN ObjectFormatTypeName
  <2>1. triple.format = DefaultFormat(triple.arch, triple.os) \/ triple.format = NamedFormat(data)
    BY <1>1 DEF IsRead
  <2>2. NamedFormat(data) \in DOMAIN ObjectFormatTypeName
    <3>1. NamedFormat(data) = ParseFormat(data[Len(data)]) \/ NamedFormat(data) = "UnknownObjectFormat"
      BY DEF NamedFormat
    <3>2. "UnknownObjectFormat" \in DOMAIN ObjectFormatTypeName  BY Zenon DEF ObjectFormatTypeName
    <3> QED BY <3>1, <3>2, FormatsRead
  <2> QED BY <2>1, <2>2, FormatsRead
<1>5. IsVersion(triple.version)  BY <1>1, VersionsAre DEF IsRead
<1> QED BY <1>1, <1>2, <1>3, <1>4, <1>5

LEMMA One ==
  ASSUME NEW w, NEW r, r = <<w>>
  PROVE  IsWords(r) /\ Len(r) = 1 /\ r[1] = w
<1>1. r \in Seq({w}) /\ Len(r) = 1 /\ r[1] = w  OBVIOUS
<1> QED BY <1>1, WordsFrom

LEMMA Two ==
  ASSUME NEW v, NEW w, NEW r, r = <<v, w>>
  PROVE  IsWords(r) /\ Len(r) = 2 /\ r[1] = v /\ r[2] = w
<1>1. r \in Seq({v, w}) /\ Len(r) = 2 /\ r[1] = v /\ r[2] = w  OBVIOUS
<1> QED BY <1>1, WordsFrom

LEMMA One2 ==
  ASSUME NEW w, NEW r, r = <<w>> \o <<>>
  PROVE  r = <<w>>
OBVIOUS

LEMMA Two2 ==
  ASSUME NEW v, NEW w, NEW r, r = <<v>> \o <<w>>
  PROVE  r = <<v, w>>
<1> DEFINE S == {v, w}
           s == <<v>>
           t == <<w>>
           q == <<v, w>>
<1>1. /\ s \in Seq(S) /\ Len(s) = 1 /\ s[1] = v
      /\ t \in Seq(S) /\ Len(t) = 1 /\ t[1] = w
      /\ q \in Seq(S) /\ Len(q) = 2 /\ q[1] = v /\ q[2] = w
  OBVIOUS
<1>2. r = s \o t  OBVIOUS
<1> HIDE DEF S, s, t, q
<1>3. /\ r \in Seq(S) /\ Len(r) = 2
      /\ \A k \in 1 .. 2 : r[k] = IF k <= 1 THEN s[k] ELSE t[k - 1]
  BY <1>1, <1>2, ConcatProperties
<1>4. r[1] = q[1] /\ r[2] = q[2]
  <2>1. (1 \in 1 .. 2) /\ (2 \in 1 .. 2) /\ 2 - 1 = 1 /\ ~(2 <= 1) /\ (1 <= 1)  OBVIOUS
  <2> QED BY <1>1, <1>3, <2>1
<1>5. \A k \in 1 .. 2 : k = 1 \/ k = 2  OBVIOUS
<1>6. r = q  BY <1>1, <1>3, <1>4, <1>5, SeqEqual
<1> QED BY <1>6 DEF q

\* e is d with other words behind the first three.
IsContinued(e, d, r) ==
  /\ IsString(e) /\ Len(e) = 3 + Len(r) /\ Len(r) \in Nat
  /\ WordOf(e, 1) = WordOf(d, 1) /\ WordOf(e, 2) = WordOf(d, 2) /\ WordOf(e, 3) = WordOf(d, 3)
  /\ Len(r) >= 1 => WordOf(e, 4) = r[1] /\ NamedFormat(e) = ParseFormat(r[Len(r)])

LEMMA EnvironmentWith ==
  ASSUME IsString(data), NEW r, IsWords(r), NEW e, e = WithEnvironment(r)
  PROVE  IsContinued(e, data, r)
<1> DEFINE a == WordOf(data, 1)
           b == WordOf(data, 2)
           c == WordOf(data, 3)
<1>1. Word(1) = a /\ Word(2) = b /\ Word(3) = c  BY WordsAre
<1> HIDE DEF a, b, c
<1>2. IsJoined(e, <<a, b, c>>, r)  BY <1>1 DEF WithEnvironment, IsJoined
<1>3. IsString(e) /\ Len(e) = 3 + Len(r) /\ Len(r) \in Nat  BY <1>2, Continued
<1>4. WordOf(e, 1) = a  BY <1>2, Continued
<1>5. WordOf(e, 2) = b  BY <1>2, Continued
<1>6. WordOf(e, 3) = c  BY <1>2, Continued
<1>7. WordOf(e, 4) = WordOf(r, 1)  BY <1>2, Continued
<1>8. Len(r) >= 1 => NamedFormat(e) = ParseFormat(r[Len(r)])  BY <1>2, Continued
<1>9. Len(r) >= 1 => WordOf(r, 1) = r[1]  BY DEF WordOf
<1> QED BY <1>3, <1>4, <1>5, <1>6, <1>7, <1>8, <1>9 DEF IsContinued, a, b, c

LEMMA EnvSet ==
  ASSUME IsString(data), NEW env \in DOMAIN EnvironmentTypeName, SetEnvironment(env)
  PROVE  IsString(data') /\ triple' = [triple EXCEPT !.env = env]
<1> DEFINE e == data'
           w == EnvironmentTypeName[env]
           f == ObjectFormatTypeName[triple.format]
           default == triple.format = DefaultFormat(triple.arch, triple.os)
           r == IF default THEN <<w>> ELSE <<w, f>>
<1>1. e = WithEnvironment(r)
  <2> DEFINE s == <<w>> \o IF default THEN <<>> ELSE <<f>>
  <2>1. s = r
    <3>1. CASE default
      <4>1. s = <<w>> \o <<>> /\ r = <<w>>  BY Zenon, <3>1
      <4> HIDE DEF s, r, w, default
      <4> QED BY <4>1, One2
    <3>2. CASE ~default
      <4>1. s = <<w>> \o <<f>> /\ r = <<w, f>>  BY Zenon, <3>2
      <4> HIDE DEF s, r, w, f, default
      <4> QED BY <4>1, Two2
    <3> QED BY <3>1, <3>2
  <2>2. e = WithEnvironment(s)  BY Zenon DEF SetEnvironment
  <2> HIDE DEF s, r
  <2> QED BY <2>1, <2>2
<1>2. IsRead(triple, data) /\ triple.format \in DOMAIN ObjectFormatTypeName  BY TripleIs
<1>3. /\ IsWords(r) /\ Len(r) >= 1 /\ r[1] = w
      /\ r[Len(r)] = IF default THEN w ELSE f
  <2>1. CASE default
    <3>1. r = <<w>>  BY Zenon, <2>1
    <3> HIDE DEF r, w, default, f
    <3>2. IsWords(r) /\ Len(r) = 1 /\ r[1] = w  BY <3>1, One
    <3> QED BY <2>1, <3>2
  <2>2. CASE ~default
    <3>1. r = <<w, f>>  BY Zenon, <2>2
    <3> HIDE DEF r, w, default, f
    <3>2. IsWords(r) /\ Len(r) = 2 /\ r[1] = w /\ r[2] = f  BY <3>1, Two
    <3> QED BY <2>2, <3>2
  <2> QED BY <2>1, <2>2
<1> HIDE DEF r, e
<1>4. IsContinued(e, data, r)  BY <1>1, <1>3, EnvironmentWith
<1>5. IsString(e) /\ Len(e) \in Nat /\ Len(e) # 1
  <2>1. IsString(e) /\ Len(e) = 3 + Len(r) /\ Len(r) \in Nat  BY <1>4 DEF IsContinued
  <2> QED BY <2>1
<1> DEFINE t == triple'
<1>6. IsRead(t, e)  BY <1>5, ReadIs DEF e, triple
<1> HIDE DEF t
<1>7. WordOf(e, 4) = w /\ NamedFormat(e) = ParseFormat(IF default THEN w ELSE f)
  BY <1>3, <1>4 DEF IsContinued
<1>8. t.arch = triple.arch /\ t.sub = triple.sub /\ t.vendor = triple.vendor /\ t.os = triple.os
      /\ t.version = triple.version
  BY <1>2, <1>4, <1>6 DEF IsContinued, IsRead
<1>9. t.env = env  BY <1>5, <1>6, <1>7, EnvironmentsRead DEF IsRead
<1>10. t.format = triple.format
  <2>1. CASE default
    <3>1. NamedFormat(e) = "UnknownObjectFormat"  BY <1>7, <2>1, EnvironmentsRead
    <3> QED BY <1>6, <1>8, <2>1, <3>1 DEF IsRead
  <2>2. CASE ~default
    <3>1. triple.format # "UnknownObjectFormat"  BY <1>2, <2>2 DEF IsRead
    <3>2. ParseFormat(f) = triple.format  BY <1>2, <3>1, FormatsRead
    <3>3. NamedFormat(e) = triple.format  BY <1>7, <2>2, <3>2
    <3> QED BY <1>6, <3>1, <3>3 DEF IsRead
  <2> QED BY <2>1, <2>2
<1>11. t = [triple EXCEPT !.env = env]
  BY <1>2, <1>6, <1>8, <1>9, <1>10 DEF IsRead
<1> QED BY <1>5, <1>11 DEF e, t

LEMMA FormatSet ==
  ASSUME IsString(data), NEW format \in DOMAIN ObjectFormatTypeName \ {"UnknownObjectFormat"},
         SetObjectFormat(format)
  PROVE  IsString(data') /\ triple' = [triple EXCEPT !.format = format]
<1> DEFINE e == data'
           w == EnvironmentTypeName[triple.env]
           f == ObjectFormatTypeName[format]
           unknown == triple.env = "UnknownEnvironment"
           r == IF unknown THEN <<f>> ELSE <<w, f>>
<1>1. e = WithEnvironment(r)
  <2> DEFINE s == (IF unknown THEN <<>> ELSE <<w>>) \o <<f>>
  <2>1. s = r
    <3>1. CASE unknown
      <4>1. s = <<>> \o <<f>> /\ r = <<f>>  BY Zenon, <3>1
      <4> HIDE DEF s, r, f, unknown
      <4> QED BY <4>1
    <3>2. CASE ~unknown
      <4>1. s = <<w>> \o <<f>> /\ r = <<w, f>>  BY Zenon, <3>2
      <4> HIDE DEF s, r, w, f, unknown
      <4> QED BY <4>1, Two2
    <3> QED BY <3>1, <3>2
  <2>2. e = WithEnvironment(s)  BY Zenon DEF SetObjectFormat
  <2> HIDE DEF s, r
  <2> QED BY <2>1, <2>2
<1>2. IsRead(triple, data) /\ triple.env \in DOMAIN EnvironmentTypeName  BY TripleIs
<1>3. /\ IsWords(r) /\ Len(r) >= 1 /\ r[1] = (IF unknown THEN f ELSE w)
      /\ r[Len(r)] = f
  <2>1. CASE unknown
    <3>1. r = <<f>>  BY Zenon, <2>1
    <3> HIDE DEF r, w, unknown, f
    <3>2. IsWords(r) /\ Len(r) = 1 /\ r[1] = f  BY <3>1, One
    <3> QED BY <2>1, <3>2
  <2>2. CASE ~unknown
    <3>1. r = <<w, f>>  BY Zenon, <2>2
    <3> HIDE DEF r, w, unknown, f
    <3>2. IsWords(r) /\ Len(r) = 2 /\ r[1] = w /\ r[2] = f  BY <3>1, Two
    <3> QED BY <2>2, <3>2
  <2> QED BY <2>1, <2>2
<1> HIDE DEF r, e
<1>4. IsContinued(e, data, r)  BY <1>1, <1>3, EnvironmentWith
<1>5. IsString(e) /\ Len(e) \in Nat /\ Len(e) # 1
  <2>1. IsString(e) /\ Len(e) = 3 + Len(r) /\ Len(r) \in Nat  BY <1>4 DEF IsContinued
  <2> QED BY <2>1
<1> DEFINE t == triple'
<1>6. IsRead(t, e)  BY <1>5, ReadIs DEF e, triple
<1> HIDE DEF t
<1>7. WordOf(e, 4) = (IF unknown THEN f ELSE w) /\ NamedFormat(e) = ParseFormat(f)
  BY <1>3, <1>4 DEF IsContinued
<1>8. t.arch = triple.arch /\ t.sub = triple.sub /\ t.vendor = triple.vendor /\ t.os = triple.os
      /\ t.version = triple.version
  BY <1>2, <1>4, <1>6 DEF IsContinued, IsRead
<1>9. t.env = triple.env
  <2>1. t.env = ParseEnvironment(WordOf(e, 4))  BY <1>5, <1>6 DEF IsRead
  <2>2. CASE unknown
    BY <1>7, <2>1, <2>2, FormatsRead
  <2>3. CASE ~unknown
    BY <1>2, <1>7, <2>1, <2>3, EnvironmentsRead
  <2> QED BY <2>2, <2>3
<1>10. t.format = format
  <2>1. NamedFormat(e) = format  BY <1>7, FormatsRead
  <2> QED BY <1>6, <2>1 DEF IsRead
<1>11. t = [triple EXCEPT !.format = format]
  BY <1>2, <1>6, <1>8, <1>9, <1>10 DEF IsRead
<1> QED BY <1>5, <1>11 DEF e, t

----------------------------------------------------------------------------
(* Variants.                                                               *)

R6(t) == t.sub = "MipsSubArch_r6"

LEMMA VariantsOfMIPS ==
  \A v \in Asked : \A a \in MIPS : Variant(v, a) \in MIPS
BY DEF Asked, MIPS, Variant, No64, To64, No32, To32, BigEndian, ToBig, ToLittle

LEMMA ArchRead ==
  ASSUME NEW a \in Arch, NEW s, NEW w, w = ArchName(a, s)
  PROVE  /\ ParseArch(w) = a
         /\ ParseSubArch(w) = "MipsSubArch_r6" <=> (s = "MipsSubArch_r6" /\ a \in MIPS)
<1>1. CASE s = "MipsSubArch_r6" /\ a \in MIPS  BY <1>1, SubIs
<1>2. CASE ~(s = "MipsSubArch_r6" /\ a \in MIPS)
  <2>1. w = ArchTypeName(a)  BY <1>2, SubIs
  <2> QED BY <1>2, <2>1, SubIs, ArchsRead
<1> QED BY <1>1, <1>2

LEMMA ArchChanged ==
  ASSUME IsString(data), NEW a \in Arch, NEW s, data' = WithArch(a, s)
  PROVE  /\ IsString(data')
         /\ triple'.arch = a
         /\ R6(triple') <=> (s = "MipsSubArch_r6" /\ a \in MIPS)
         /\ triple'.vendor = triple.vendor /\ triple'.os = triple.os
         /\ triple'.version = triple.version
         /\ Len(data) > 1 => triple'.env = triple.env
<1> DEFINE e == data'
           t == triple'
           w == ArchName(a, s)
<1>1. IsChanged(e, data, w, WordOf(data, 2), WordOf(data, 3))  BY ArchSet
<1>2. IsString(e)  BY <1>1 DEF IsChanged
<1>3. IsRead(t, e)  BY <1>2, ReadIs DEF triple
<1>4. IsRead(triple, data)  BY TripleIs
<1>5. ParseArch(w) = a /\ (ParseSubArch(w) = "MipsSubArch_r6" <=> (s = "MipsSubArch_r6" /\ a \in MIPS))
  BY ArchRead
<1> HIDE DEF t, e, w
<1>6. t.arch = a /\ (R6(t) <=> (s = "MipsSubArch_r6" /\ a \in MIPS))
  BY <1>1, <1>3, <1>5 DEF IsChanged, IsRead, R6
<1>7. t.vendor = triple.vendor /\ t.os = triple.os /\ t.version = triple.version
  BY <1>1, <1>3, <1>4 DEF IsChanged, IsRead
<1>8. ASSUME Len(data) > 1  PROVE t.env = triple.env
  <2> DEFINE m == Len(data)
             n == Len(e)
  <2>1. m > 1 /\ m \in Nat /\ n \in Nat /\ n >= 3
    BY <1>1, <1>8 DEF IsChanged, IsString, IsWords
  <2> HIDE DEF m, n
  <2>2. m # 1 /\ n # 1  BY <2>1
  <2> USE DEF m, n
  <2> QED BY <1>1, <1>3, <1>4, <2>2 DEF IsChanged, IsRead
<1> QED BY <1>2, <1>6, <1>7, <1>8 DEF e, t

Gives(v) ==
  /\ Ask(v)
  /\ \/ Same /\ Variant(v, triple.arch) = triple.arch
     \/ ToVariant(Variant(v, triple.arch))
     \/ Unreachable

LEMMA Given64 == Get64BitArchVariant => Gives("64")
BY Tables DEF Get64BitArchVariant, Gives, Variant
LEMMA Given32 == Get32BitArchVariant => Gives("32")
BY Tables DEF Get32BitArchVariant, Gives, Variant
LEMMA GivenBig == GetBigEndianArchVariant => Gives("big")
BY Tables DEF GetBigEndianArchVariant, Gives, Variant
LEMMA GivenLittle == GetLittleEndianArchVariant => Gives("little")
BY Tables DEF GetLittleEndianArchVariant, Gives, Variant

VariantIs ==
  status = "ok" /\ asked # "nothing" =>
    /\ from.arch \in Arch /\ triple.arch = Variant(asked, from.arch)
    /\ triple.arch # "UnknownArch" => (R6(triple) <=> R6(from))
    /\ triple.vendor = from.vendor /\ triple.os = from.os

LEMMA VariantGiven ==
  ASSUME IsString(data), NEW v \in Asked, Gives(v)
  PROVE  IsString(data') /\ asked' = v /\ VariantIs'
<1> DEFINE a == triple.arch
           b == Variant(v, a)
<1>1. asked' = v /\ from' = triple /\ status = "ok"  BY DEF Gives, Ask
<1>2. IsRead(triple, data) /\ a \in Arch  BY TripleIs
<1>3. b \in Arch  BY <1>2, VariantFits
<1>4. R6(triple) => a \in MIPS
  BY <1>2, SubIs DEF IsRead, R6
<1>5. CASE Same /\ b = a
  <2>1. data' = data /\ triple' = triple  BY <1>5 DEF Same, triple
  <2> QED BY <1>1, <1>2, <1>5, <2>1 DEF VariantIs
<1>6. CASE ToVariant(b)
  <2> DEFINE s == IF a \in MIPS THEN triple.sub ELSE "NoSubArch"
  <2>1. data' = WithArch(b, s)  BY <1>6 DEF ToVariant
  <2>2. (s = "MipsSubArch_r6" /\ a \in MIPS) <=> R6(triple)
    BY <1>4 DEF R6
  <2>3. a \in MIPS => b \in MIPS  BY VariantsOfMIPS
  <2> HIDE DEF s, b
  <2>4. /\ IsString(data') /\ triple'.arch = b
        /\ R6(triple') <=> (s = "MipsSubArch_r6" /\ b \in MIPS)
        /\ triple'.vendor = triple.vendor /\ triple'.os = triple.os
    BY <1>3, <2>1, ArchChanged
  <2>5. R6(triple') <=> R6(triple)
    <3>1. CASE a \in MIPS  BY <2>2, <2>3, <2>4, <3>1
    <3>2. CASE a \notin MIPS
      <4>1. s = "NoSubArch"  BY <3>2 DEF s
      <4> QED BY <1>4, <2>4, <3>2, <4>1
    <3> QED BY <3>1, <3>2
  <2> QED BY <1>1, <1>2, <2>4, <2>5 DEF VariantIs, b
<1>7. CASE Unreachable
  BY <1>1, <1>7 DEF Unreachable, VariantIs
<1> QED BY <1>5, <1>6, <1>7 DEF Gives

----------------------------------------------------------------------------
(* Linking and versions.                                                   *)

LEMMA ARMPairIs ==
  ASSUME NEW a, NEW b
  PROVE  {a, b} \in ARMPairs <=>
           \/ a = "arm" /\ b = "thumb"
           \/ a = "thumb" /\ b = "arm"
           \/ a = "armeb" /\ b = "thumbeb"
           \/ a = "thumbeb" /\ b = "armeb"
BY DEF ARMPairs

Alike(a, b) ==
  \/ a = b
  \/ a = "arm" /\ b = "thumb"
  \/ a = "thumb" /\ b = "arm"
  \/ a = "armeb" /\ b = "thumbeb"
  \/ a = "thumbeb" /\ b = "armeb"

LEMMA CompatibleIs ==
  ASSUME NEW t, NEW o
  PROVE  IsCompatibleWith(t, o) <=>
           /\ Alike(t.arch, o.arch) /\ t.sub = o.sub /\ t.vendor = o.vendor /\ t.os = o.os
           /\ t.vendor = "Apple" \/ (t.env = o.env /\ t.format = o.format)
<1>1. (t.arch = o.arch \/ {t.arch, o.arch} \in ARMPairs) <=> Alike(t.arch, o.arch)
  BY ARMPairIs DEF Alike
<1>2. (\A component \in Compared(t) : t[component] = o[component]) <=>
           /\ t.sub = o.sub /\ t.vendor = o.vendor /\ t.os = o.os
           /\ t.vendor = "Apple" \/ (t.env = o.env /\ t.format = o.format)
  BY DEF Compared
<1> QED BY <1>1, <1>2 DEF IsCompatibleWith

LEMMA CompatibleWithSame ==
  /\ \A t : IsCompatibleWith(t, t)
  /\ \A t, o : IsCompatibleWith(t, o) => IsCompatibleWith(o, t)
  /\ \A t, o, u : IsCompatibleWith(t, o) /\ IsCompatibleWith(o, u) => IsCompatibleWith(t, u)
<1>1. \A t : IsCompatibleWith(t, t)  BY CompatibleIs DEF Alike
<1>2. \A t, o : IsCompatibleWith(t, o) => IsCompatibleWith(o, t)  BY CompatibleIs DEF Alike
<1>3. \A t, o, u : IsCompatibleWith(t, o) /\ IsCompatibleWith(o, u) => IsCompatibleWith(t, u)
  BY CompatibleIs DEF Alike
<1> QED BY <1>1, <1>2, <1>3

LEMMA OlderIs ==
  ASSUME NEW u, NEW v, NEW w, IsVersion(u), IsVersion(v), IsVersion(w)
  PROVE  /\ ~Older(v, v)
         /\ Older(v, w) => ~Older(w, v)
         /\ ~Older(w, v) /\ ~Older(v, u) => ~Older(w, u)
BY DEF Older, IsVersion

LinkedIs ==
  /\ linked # {} => status = "linked"
  /\ \A t \in linked : IsVersion(t.version)
  /\ ~warned => \A t \in linked :
       /\ IsCompatibleWith(t, triple)
       /\ triple.vendor = "Apple" => ~Older(triple.version, t.version)

LEMMA Merged ==
  ASSUME IsString(data), LinkedIs, NEW words \in Modules, Link(words)
  PROVE  IsString(data') /\ LinkedIs'
<1> DEFINE m == Parse(words)
           t == triple
           u == triple'
<1>1. IsString(words)
  <2>1. words \in Seq(STRING) /\ words # <<>>  BY LinkAssumption
  <2> DEFINE S == STRING
  <2>2. words \in Seq(S)  BY <2>1
  <2> HIDE DEF S
  <2>3. Len(words) \in Nat \ {0}  BY <2>1, <2>2, EmptySeq
  <2> QED BY <2>2, <2>3, WordsFrom DEF IsString
<1>2. IsVersion(m.version)  BY <1>1, ReadIs, VersionsAre DEF IsRead
<1>3. IsVersion(t.version)  BY TripleIs
<1>4. linked' = linked \cup {m, t} /\ status' = "linked"
      /\ warned' = (warned \/ ~IsCompatibleWith(m, t)) /\ data' = Merge(words, data)
  BY DEF Link
<1>5. \/ data' = words /\ u = m /\ m.vendor = "Apple" /\ Older(t.version, m.version)
      \/ data' = data /\ u = t /\ ~(m.vendor = "Apple" /\ Older(t.version, m.version))
  BY <1>4 DEF Merge, triple, IsOSVersionLT
<1>6. IsString(data')  BY <1>1, <1>5
<1>7. (linked # {} => status = "linked")' /\ (\A x \in linked : IsVersion(x.version))'
  BY <1>2, <1>3, <1>4 DEF LinkedIs
<1>8. ASSUME ~warned', NEW x \in linked'
      PROVE  IsCompatibleWith(x, u) /\ (u.vendor = "Apple" => ~Older(u.version, x.version))
  <2>1. IsCompatibleWith(m, t) /\ ~warned  BY <1>4, <1>8
  <2>2. m.vendor = t.vendor  BY <2>1, CompatibleIs
  <2>3. IsCompatibleWith(x, t)
    <3>1. x \in linked \/ x = m \/ x = t  BY <1>4
    <3> HIDE DEF m, t
    <3> QED BY <2>1, <3>1, CompatibleWithSame DEF LinkedIs, t
  <2>4. IsCompatibleWith(t, u)
    <3> HIDE DEF m, t, u
    <3> QED BY <1>5, <2>1, CompatibleWithSame
  <2>5. IsCompatibleWith(x, u)
    <3> HIDE DEF m, t, u
    <3> QED BY <2>3, <2>4, CompatibleWithSame
  <2>6. ASSUME u.vendor = "Apple"  PROVE ~Older(u.version, x.version)
    <3>1. t.vendor = "Apple"  BY <1>5, <2>2, <2>6
    <3>2. IsVersion(x.version)  BY <1>7
    <3>3. x \in linked => ~Older(t.version, x.version)  BY <2>1, <3>1 DEF LinkedIs
    <3>4. x \in linked \/ x = m \/ x = t  BY <1>4
    <3> HIDE DEF m, t, u
    <3>5. ~Older(u.version, t.version) /\ ~Older(u.version, m.version)
      BY <1>2, <1>3, <1>5, <2>2, <3>1, OlderIs
    <3>6. IsVersion(u.version)  BY <1>2, <1>3, <1>5
    <3> QED BY <1>2, <1>3, <3>2, <3>3, <3>4, <3>5, <3>6, OlderIs
  <2> QED BY <2>5, <2>6
<1> QED BY <1>6, <1>7, <1>8 DEF LinkedIs

----------------------------------------------------------------------------
(* The use of a triple.                                                    *)

UseInv ==
  /\ IsString(data)
  /\ asked \in Asked \cup {"nothing"} /\ (status = "raw" => asked = "nothing")
  /\ VariantIs
  /\ LinkedIs
  /\ TargetFits

LEMMA UseInit == UInit => UseInv
<1> SUFFICES ASSUME UInit  PROVE UseInv  OBVIOUS
<1>1. IsString(data)
  <2> DEFINE w == ""
  <2>1. data = <<w>>  BY Zenon DEF UInit, VInit, Init
  <2> HIDE DEF w
  <2>2. IsWords(data) /\ Len(data) = 1  BY <2>1, One
  <2> QED BY <2>2 DEF IsString
<1>2. status = "raw" /\ asked = "nothing" /\ linked = {}  BY DEF UInit, VInit, Init
<1> QED BY <1>1, <1>2 DEF UseInv, VariantIs, LinkedIs, TargetFits

LEMMA StringsAre ==
  \A words \in Initial \cup Modules : IsString(words)
<1> SUFFICES ASSUME NEW words \in Initial \cup Modules  PROVE IsString(words)  OBVIOUS
<1>1. words \in Seq(STRING) /\ words # <<>>  BY FieldsAssumption, LinkAssumption
<1> DEFINE S == STRING
<1>2. words \in Seq(S)  BY <1>1
<1> HIDE DEF S
<1>3. Len(words) \in Nat \ {0}  BY <1>1, <1>2, EmptySeq
<1> QED BY <1>2, <1>3, WordsFrom DEF IsString

LEMMA Mutated ==
  ASSUME IsString(data), Mutate
  PROVE  IsString(data')
<1>1. CASE \E arch \in SomeArchs : SetArch(arch)
  <2> PICK arch \in SomeArchs : SetArch(arch)  BY <1>1
  <2>1. IsChanged(data', data, ArchName(arch, "NoSubArch"), WordOf(data, 2), WordOf(data, 3))
    BY ArchSet DEF SetArch
  <2> QED BY <2>1 DEF IsChanged
<1>2. CASE \E vendor \in SomeVendors : SetVendor(vendor)
  <2> PICK vendor \in SomeVendors : SetVendor(vendor)  BY <1>2
  <2>1. IsChanged(data', data, WordOf(data, 1), VendorTypeName[vendor], WordOf(data, 3))
    BY VendorSet
  <2> QED BY <2>1 DEF IsChanged
<1>3. CASE \E os \in SomeOS : SetOS(os)
  <2> PICK os \in SomeOS : SetOS(os)  BY <1>3
  <2>1. IsChanged(data', data, WordOf(data, 1), WordOf(data, 2), OSTypeName[os])
    BY OSSet
  <2> QED BY <2>1 DEF IsChanged
<1>4. CASE \E env \in SomeEnvs : SetEnvironment(env)
  <2> PICK env \in SomeEnvs : SetEnvironment(env)  BY <1>4
  <2>1. env \in DOMAIN EnvironmentTypeName  BY FieldsAssumption
  <2> QED BY <2>1, EnvSet
<1>5. CASE \E format \in SomeFormats : SetObjectFormat(format)
  <2> PICK format \in SomeFormats : SetObjectFormat(format)  BY <1>5
  <2>1. format \in DOMAIN ObjectFormatTypeName \ {"UnknownObjectFormat"}  BY FieldsAssumption
  <2> QED BY <2>1, FormatSet
<1> QED BY <1>1, <1>2, <1>3, <1>4, <1>5 DEF Mutate

\* The architectures of the targets are those of their names, and of their widths.
LEMMA TargetsAre ==
  /\ \A name \in DOMAIN Targets :
       /\ ArchTypeForLLVMName(name) = name /\ name \in Arch /\ name # "UnknownArch"
       /\ ArchTypeName(name) = name
       /\ Width(name) = (IF name = "toyriscv64" THEN 64 ELSE 32)
  /\ \A a : Registered(a) \subseteq {a}
<1>1. \A name \in DOMAIN Targets :
        ArchTypeForLLVMName(name) = name /\ name \in Arch /\ name # "UnknownArch"
  BY DEF Targets, ArchTypeForLLVMName, LLVMAlias, Arch, Arch32, Arch64
<1>2. \A name \in DOMAIN Targets : ArchTypeName(name) = name
  BY DEF Targets, ArchTypeName, OwnName
<1>3. \A name \in DOMAIN Targets : Width(name) = (IF name = "toyriscv64" THEN 64 ELSE 32)
  BY DEF Targets, Width, Arch16, Arch32, Arch64
<1>4. \A a : Registered(a) \subseteq {a}  BY DEF Registered, Targets
<1> QED BY <1>1, <1>2, <1>3, <1>4

LEMMA Chosen ==
  ASSUME IsString(data), NEW march, LookupTarget(march)
  PROVE  IsString(data') /\ TargetFits' /\ status' \in {"chosen", "refused"}
<1>1. \/ /\ march \in DOMAIN Targets /\ target' = march /\ status' = "chosen"
         /\ data' = WithArch(march, "NoSubArch")
      \/ /\ target' \in Registered(triple.arch) /\ status' = "chosen" /\ data' = data
      \/ /\ status' = "refused" /\ data' = data
  <2> DEFINE A == ArchTypeForLLVMName(march)
  <2>1. march \in DOMAIN Targets => A # "UnknownArch" /\ A = march  BY TargetsAre
  <2>2. \/ /\ march \in DOMAIN Targets /\ target' = march /\ status' = "chosen"
           /\ IF A = "UnknownArch" THEN data' = data ELSE data' = WithArch(A, "NoSubArch")
        \/ /\ target' \in Registered(triple.arch) /\ status' = "chosen" /\ data' = data
        \/ /\ status' = "refused" /\ data' = data
    BY Zenon DEF LookupTarget, SetArch
  <2> HIDE DEF A
  <2> QED BY <2>1, <2>2
<1>2. CASE march \in DOMAIN Targets /\ target' = march /\ data' = WithArch(march, "NoSubArch")
  <2>1. march \in Arch  BY <1>2, TargetsAre
  <2>2. IsString(data') /\ triple'.arch = march  BY <1>2, <2>1, ArchChanged
  <2> QED BY <1>1, <1>2, <2>2, TargetsAre DEF TargetFits
<1>3. CASE target' \in Registered(triple.arch) /\ data' = data
  <2>1. target' = triple.arch /\ target' \in DOMAIN Targets  BY <1>3, TargetsAre DEF Registered
  <2>2. triple' = triple  BY <1>3 DEF triple
  <2> QED BY <1>1, <1>3, <2>1, <2>2, TargetsAre DEF TargetFits
<1>4. CASE status' = "refused" /\ data' = data
  BY <1>4 DEF TargetFits
<1> QED BY <1>1, <1>2, <1>3, <1>4

LEMMA UseStep ==
  ASSUME UseInv, [UNext]_uvars
  PROVE  UseInv'
<1> USE DEF UseInv
<1>1. CASE Normalize
  BY <1>1 DEF Normalize, VariantIs, LinkedIs, TargetFits, triple
<1>2. CASE ConstructTriple
  <2>1. /\ status = "raw" /\ status' \in {"ok", "module"} /\ asked' = asked
        /\ data' \in Initial \cup Modules /\ linked' = linked /\ warned' = warned
    BY <1>2 DEF ConstructTriple, Construct
  <2>2. asked' = "nothing" /\ linked' = {} /\ IsString(data')
    BY <2>1, StringsAre DEF LinkedIs
  <2> QED BY <2>1, <2>2 DEF VariantIs, LinkedIs, TargetFits
<1>3. CASE ChangeTriple
  <2>1. /\ status = "ok" /\ status' = "ok" /\ Mutate /\ asked' = "nothing"
        /\ linked' = linked /\ warned' = warned
    BY <1>3 DEF ChangeTriple, Constructed, Otherwise, Mutate
  <2>2. IsString(data')  BY <2>1, Mutated
  <2>3. linked' = {}  BY <2>1 DEF LinkedIs
  <2> QED BY <2>1, <2>2, <2>3 DEF VariantIs, LinkedIs, TargetFits
<1>4. CASE AskForVariant
  <2>1. linked' = linked /\ warned' = warned  BY <1>4 DEF AskForVariant
  <2>2. PICK v \in Asked : Gives(v)
    BY <1>4, Given64, Given32, GivenBig, GivenLittle DEF AskForVariant, Constructed, Asked
  <2>3. IsString(data') /\ asked' = v /\ VariantIs'  BY <2>2, VariantGiven
  <2>4. status = "ok" /\ status' \in {"ok", "unreachable"}
    BY <2>2 DEF Gives, Ask, Same, ToVariant, Unreachable
  <2>5. linked' = {}  BY <2>1, <2>4 DEF LinkedIs
  <2> QED BY <2>3, <2>4, <2>5 DEF LinkedIs, TargetFits
<1>5. CASE LinkModule
  <2>1. PICK words \in Modules : Link(words)
    BY <1>5 DEF LinkModule, Constructed, Otherwise
  <2>2. asked' = "nothing" /\ status' = "linked"
    BY <1>5, <2>1 DEF LinkModule, Constructed, Otherwise, Link
  <2>3. IsString(data') /\ LinkedIs'  BY <2>1, Merged
  <2> QED BY <2>2, <2>3 DEF VariantIs, TargetFits
<1>6. CASE ChooseTarget
  <2>1. PICK march \in MArch : LookupTarget(march)
    BY <1>6 DEF ChooseTarget, Constructed, Otherwise
  <2>2. asked' = "nothing" /\ linked' = linked /\ warned' = warned
    BY <1>6 DEF ChooseTarget, Constructed, Otherwise
  <2>3. IsString(data') /\ TargetFits' /\ status' \in {"chosen", "refused"}
    BY <2>1, Chosen
  <2>4. linked' = {}
    <3>1. status = "ok"  BY <2>1 DEF LookupTarget
    <3> QED BY <2>2, <3>1 DEF LinkedIs
  <2> QED BY <2>2, <2>3, <2>4 DEF VariantIs, LinkedIs
<1>7. CASE Ended \/ UNCHANGED uvars
  BY <1>7 DEF Ended, uvars, VariantIs, LinkedIs, TargetFits, triple
<1> QED BY <1>1, <1>2, <1>3, <1>4, <1>5, <1>6, <1>7 DEF UNext

LEMMA UseInvariant == USpec => []UseInv
<1>1. UInit => UseInv  BY UseInit
<1>2. UseInv /\ [UNext]_uvars => UseInv'  BY UseStep
<1> QED BY <1>1, <1>2, PTL DEF USpec

\* The triple asked for a variant has the family, the endianness, the vendor and the
\* system of the one it was asked of, and the width asked for, whatever the string was.
THEOREM VariantsFitUses == USpec => []VariantsFit
<1>1. ASSUME UseInv  PROVE VariantsFit
  <2> SUFFICES ASSUME status = "ok", asked # "nothing", triple.arch # "UnknownArch"
               PROVE  /\ SameFamily
                      /\ Width(triple.arch) = CASE asked = "64" -> 64 [] asked = "32" -> 32
                                                [] OTHER -> Width(from.arch)
                      /\ Big(triple.arch) = CASE asked = "big" -> TRUE [] asked = "little" -> FALSE
                                              [] OTHER -> Big(from.arch)
                      /\ triple.sub = "MipsSubArch_r6" <=> from.sub = "MipsSubArch_r6"
                      /\ triple.vendor = from.vendor /\ triple.os = from.os
    BY DEF VariantsFit
  <2>1. asked \in Asked /\ from.arch \in Arch /\ triple.arch = Variant(asked, from.arch)
    BY <1>1 DEF UseInv, VariantIs
  <2>2. /\ Family(from.arch, triple.arch)
        /\ Width(triple.arch) = CASE asked = "64" -> 64 [] asked = "32" -> 32
                                  [] OTHER -> Width(from.arch)
        /\ Big(triple.arch) = CASE asked = "big" -> TRUE [] asked = "little" -> FALSE
                                [] OTHER -> Big(from.arch)
    <3> DEFINE v == asked
               a == from.arch
               b == triple.arch
    <3>1. v \in Asked /\ a \in Arch /\ b = Variant(v, a) /\ b # "UnknownArch"  BY <2>1
    <3> HIDE DEF v, a, b
    <3>2. Family(a, b)  BY <3>1, VariantFits
    <3>3. Width(b) = AskedWidth(v, a)
      BY <3>1, VariantFits
    <3>4. Big(b) = AskedOrder(v, a)
      BY <3>1, VariantFits
    <3> QED BY <3>2, <3>3, <3>4 DEF v, a, b, AskedWidth, AskedOrder
  <2>5. SameFamily
    <3> DEFINE p == ArchTypePrefix(from.arch)
               q == ArchTypePrefix(triple.arch)
    <3>1. \/ p = q
          \/ {p, q} \in {{"aarch64", "arm"}, {"le32", "le64"}}
      BY <2>2 DEF Family
    <3>2. CASE p = q
      <4>1. {p, q} = {p}  BY <3>2
      <4>2. Cardinality({p}) = 1  BY FS_Singleton
      <4> QED BY <4>1, <4>2 DEF SameFamily
    <3> QED BY <3>1, <3>2 DEF SameFamily
  <2> QED BY <1>1, <2>2, <2>5 DEF UseInv, VariantIs, R6
<1> QED BY <1>1, UseInvariant, PTL

\* Without a warning of the linker all the modules linked are compatible with each
\* other, and no module is for a newer version than the module they became.
THEOREM LinkedAgreeUses == USpec => []LinkedAgree
<1>1. ASSUME UseInv  PROVE LinkedAgree
  <2> SUFFICES ASSUME ~warned
               PROVE  /\ \A a, b \in linked :
                           IsCompatibleWith(a, b) /\ a.vendor = triple.vendor /\ a.os = triple.os
                      /\ triple.vendor = "Apple" => \A t \in linked : ~Older(triple.version, t.version)
    BY DEF LinkedAgree
  <2>1. \A t \in linked : IsCompatibleWith(t, triple)  BY <1>1 DEF UseInv, LinkedIs
  <2>2. \A a, b \in linked : IsCompatibleWith(a, b)  BY <2>1, CompatibleWithSame
  <2>3. \A a \in linked : a.vendor = triple.vendor /\ a.os = triple.os  BY <2>1, CompatibleIs
  <2> QED BY <1>1, <2>2, <2>3 DEF UseInv, LinkedIs
<1> QED BY <1>1, UseInvariant, PTL

\* The target that llc chooses is the one of the architecture the triple then has.
THEOREM TargetFitsUses == USpec => []TargetFits
<1>1. UseInv => TargetFits  BY DEF UseInv
<1> QED BY <1>1, UseInvariant, PTL

\* isMacOSXVersionLT orders every Darwin or macOS triple the way the macOS versions
\* are ordered that it and the bound stand for, but for the two cases exempted.
THEOREM VersionsAgreeUses == USpec => []VersionsAgree
<1>1. ASSUME UseInv  PROVE VersionsAgree
  <2>1. IsVersion(triple.version)  BY <1>1, TripleIs DEF UseInv
  <2> SUFFICES ASSUME IsMacOSX(triple.os), triple.version[1] # 0, GetMacOSXVersion(triple).known,
                      NEW bound \in Bounds
               PROVE  \/ triple.os = "Darwin" /\ bound[1] >= 11 /\ bound[2] # 0
                      \/ triple.version = <<10, 16>> /\ bound = <<11, 0>>
                      \/ IsMacOSXVersionLT(triple, bound)
                          <=> Older(GetCanonicalVersionForOS("MacOSX", GetMacOSXVersion(triple).version),
                                    GetCanonicalVersionForOS("MacOSX", bound))
    BY DEF VersionsAgree
  <2> DEFINE x == triple.version[1]
             y == triple.version[2]
             m == bound[1]
             n == bound[2]
  <2>2. /\ x \in Nat /\ y \in Nat /\ x # 0 /\ triple.version = <<x, y>> /\ (x = 10 => y <= 16)
    BY <2>1 DEF IsVersion
  <2>3. m \in Nat /\ n \in Nat /\ m >= 10 /\ (m = 10 => n <= 16) /\ bound = <<m, n>>
    BY LinkAssumption
  <2>4. CASE triple.os = "MacOSX"
    BY <2>2, <2>3, <2>4 DEF GetMacOSXVersion, IsMacOSXVersionLT, GetCanonicalVersionForOS, Older, Known, Absurd
  <2>5. CASE triple.os = "Darwin"
    BY <2>2, <2>3, <2>5 DEF GetMacOSXVersion, IsMacOSXVersionLT, GetCanonicalVersionForOS, Older, Known, Absurd
  <2> QED BY <2>4, <2>5 DEF IsMacOSX
<1> QED BY <1>1, UseInvariant, PTL

\* What a setter sets is what the triple made from the new string has.
THEOREM SetIsReadUses == USpec => SetIsRead
<1> DEFINE Sets ==
      status = "ok" /\ status' = "ok" =>
        /\ \A a \in SomeArchs : Word(1)' = ArchTypeName(a) /\ SetArch(a) => triple'.arch = a
        /\ \A v \in SomeVendors : SetVendor(v) => triple'.vendor = v
        /\ \A o \in SomeOS : SetOS(o) => triple'.os = o
        /\ \A e \in SomeEnvs : SetEnvironment(e) => triple'.env = e
        /\ \A f \in SomeFormats : SetObjectFormat(f) => triple'.format = f
<1>1. ASSUME UseInv  PROVE Sets
  <2>0. IsString(data)  BY <1>1 DEF UseInv
  <2>1. ASSUME NEW a \in SomeArchs, SetArch(a)  PROVE triple'.arch = a
    <3>1. a \in Arch  BY FieldsAssumption
    <3>2. data' = WithArch(a, "NoSubArch")  BY <2>1 DEF SetArch
    <3> QED BY <2>0, <3>1, <3>2, ArchChanged
  <2>2. ASSUME NEW v \in SomeVendors, SetVendor(v)  PROVE triple'.vendor = v
    <3>1. IsChanged(data', data, WordOf(data, 1), VendorTypeName[v], WordOf(data, 3))
      BY <2>0, <2>2, VendorSet
    <3>2. IsRead(triple', data')  BY <3>1, ReadIs DEF IsChanged, triple
    <3>3. v \in DOMAIN VendorTypeName  BY FieldsAssumption
    <3> QED BY <3>1, <3>2, <3>3, VendorsRead DEF IsChanged, IsRead
  <2>3. ASSUME NEW o \in SomeOS, SetOS(o)  PROVE triple'.os = o
    <3>1. IsChanged(data', data, WordOf(data, 1), WordOf(data, 2), OSTypeName[o])
      BY <2>0, <2>3, OSSet
    <3>2. IsRead(triple', data')  BY <3>1, ReadIs DEF IsChanged, triple
    <3>3. o \in DOMAIN OSTypeName  BY FieldsAssumption
    <3> QED BY <3>1, <3>2, <3>3, SystemsRead DEF IsChanged, IsRead
  <2>4. ASSUME NEW e \in SomeEnvs, SetEnvironment(e)  PROVE triple'.env = e
    <3>1. e \in DOMAIN EnvironmentTypeName  BY FieldsAssumption
    <3>2. triple' = [triple EXCEPT !.env = e]  BY <2>0, <2>4, <3>1, EnvSet
    <3>3. IsRead(triple, data)  BY <2>0, TripleIs
    <3> DEFINE t == triple
    <3> HIDE DEF t
    <3>4. t = [arch |-> t.arch, sub |-> t.sub, vendor |-> t.vendor, os |-> t.os,
               version |-> t.version, env |-> t.env, format |-> t.format]
      BY <3>3 DEF IsRead, t
    <3>5. [t EXCEPT !.env = e].env = e  BY <3>4
    <3> QED BY <3>2, <3>5 DEF t
  <2>5. ASSUME NEW f \in SomeFormats, SetObjectFormat(f)  PROVE triple'.format = f
    <3>1. f \in DOMAIN ObjectFormatTypeName \ {"UnknownObjectFormat"}  BY FieldsAssumption
    <3>2. triple' = [triple EXCEPT !.format = f]  BY <2>0, <2>5, <3>1, FormatSet
    <3>3. IsRead(triple, data)  BY <2>0, TripleIs
    <3> DEFINE t == triple
    <3> HIDE DEF t
    <3>4. t = [arch |-> t.arch, sub |-> t.sub, vendor |-> t.vendor, os |-> t.os,
               version |-> t.version, env |-> t.env, format |-> t.format]
      BY <3>3 DEF IsRead, t
    <3>5. [t EXCEPT !.format = f].format = f  BY <3>4
    <3> QED BY <3>2, <3>5 DEF t
  <2> QED BY <2>1, <2>2, <2>3, <2>4, <2>5
<1>2. UseInv => [Sets]_<<data, status>>  BY <1>1
<1> HIDE DEF Sets
<1>3. USpec => [][Sets]_<<data, status>>  BY <1>2, UseInvariant, PTL
<1> QED BY <1>3 DEF Sets, SetIsRead

\* A step that changes the first word is one that sets the architecture.
LEMMA FirstWordSet ==
  ASSUME UseInv, UNext, status = "ok", status' \in {"ok", "chosen"}, data[1] # data'[1]
  PROVE  \E a \in Arch, s \in {"NoSubArch", triple.sub} : data' = WithArch(a, s)
<1>0. IsString(data) /\ triple.arch \in Arch  BY TripleIs DEF UseInv
<1>1. WordOf(data, 1) = data[1]
  <2>1. Len(data) >= 1  BY <1>0 DEF IsString
  <2> QED BY <2>1 DEF WordOf
<1>2. ASSUME NEW e, IsString(e)  PROVE WordOf(e, 1) = e[1]
  <2>1. Len(e) >= 1  BY <1>2 DEF IsString
  <2> QED BY <2>1 DEF WordOf
<1>3. CASE ChangeTriple
  <2>1. Mutate  BY <1>3 DEF ChangeTriple, Constructed, Otherwise
  <2>2. \A v : ~SetVendor(v)
    <3> SUFFICES ASSUME NEW v, SetVendor(v)  PROVE FALSE  OBVIOUS
    <3>1. IsChanged(data', data, WordOf(data, 1), VendorTypeName[v], WordOf(data, 3))
      BY <1>0, VendorSet
    <3> QED BY <1>1, <1>2, <3>1 DEF IsChanged
  <2>3. \A o : ~SetOS(o)
    <3> SUFFICES ASSUME NEW o, SetOS(o)  PROVE FALSE  OBVIOUS
    <3>1. IsChanged(data', data, WordOf(data, 1), WordOf(data, 2), OSTypeName[o])
      BY <1>0, OSSet
    <3> QED BY <1>1, <1>2, <3>1 DEF IsChanged
  <2>4. \A r : data' # WithEnvironment(r)
    <3> SUFFICES ASSUME NEW r, data' = WithEnvironment(r)  PROVE FALSE  OBVIOUS
    <3>1. data'[1] = Word(1)  BY DEF WithEnvironment
    <3> QED BY <1>1, <3>1, WordsAre
  <2>5. (\A e : ~SetEnvironment(e)) /\ (\A f : ~SetObjectFormat(f))
    BY <2>4 DEF SetEnvironment, SetObjectFormat
  <2>6. PICK a \in SomeArchs : SetArch(a)  BY <2>1, <2>2, <2>3, <2>5 DEF Mutate
  <2> QED BY <2>6, FieldsAssumption DEF SetArch
<1>4. CASE AskForVariant
  <2>1. PICK v \in Asked : Gives(v)
    BY <1>4, Given64, Given32, GivenBig, GivenLittle DEF AskForVariant, Constructed, Asked
  <2>2. ToVariant(Variant(v, triple.arch))  BY <2>1 DEF Gives, Same, Unreachable
  <2>3. Variant(v, triple.arch) \in Arch  BY <1>0, VariantFits
  <2> QED BY <2>2, <2>3 DEF ToVariant
<1>5. CASE ChooseTarget
  <2>1. PICK march \in MArch : LookupTarget(march)
    BY <1>5 DEF ChooseTarget, Constructed, Otherwise
  <2>2. march \in DOMAIN Targets /\ data' = WithArch(ArchTypeForLLVMName(march), "NoSubArch")
    BY Zenon, <2>1 DEF LookupTarget, SetArch
  <2> QED BY <2>2, TargetsAre
<1>6. ~Normalize /\ ~ConstructTriple /\ ~LinkModule /\ ~Ended
  BY DEF Normalize, ConstructTriple, Construct, LinkModule, Constructed, Otherwise, Link, Ended, uvars
<1> QED BY <1>3, <1>4, <1>5, <1>6 DEF UNext

\* A setter leaves the components alone that it does not set.
THEOREM OthersKeptUses == USpec => OthersKept
<1> DEFINE Keeps ==
      status = "ok" /\ status' \in {"ok", "chosen"} =>
        /\ data[1] # data'[1] =>
             /\ triple'.vendor = triple.vendor
             /\ triple'.os = triple.os /\ triple'.version = triple.version
             /\ Len(data) > 1 => triple'.env = triple.env
        /\ \A o \in SomeOS : SetOS(o) =>
             /\ triple'.arch = triple.arch /\ triple'.vendor = triple.vendor
             /\ Len(data) > 1 => triple'.env = triple.env
        /\ \A e \in SomeEnvs : SetEnvironment(e) =>
             triple' = [triple EXCEPT !.env = e]
        /\ \A f \in SomeFormats : SetObjectFormat(f) =>
             triple' = [triple EXCEPT !.format = f]
<1>1. ASSUME UseInv, [UNext]_uvars  PROVE [Keeps]_<<data, status>>
  <2>0. IsString(data)  BY <1>1 DEF UseInv
  <2> SUFFICES ASSUME UNext, status = "ok", status' \in {"ok", "chosen"}
               PROVE  /\ data[1] # data'[1] =>
                           /\ triple'.vendor = triple.vendor
                           /\ triple'.os = triple.os /\ triple'.version = triple.version
                           /\ Len(data) > 1 => triple'.env = triple.env
                      /\ \A o \in SomeOS : SetOS(o) =>
                           /\ triple'.arch = triple.arch /\ triple'.vendor = triple.vendor
                           /\ Len(data) > 1 => triple'.env = triple.env
                      /\ \A e \in SomeEnvs : SetEnvironment(e) =>
                           triple' = [triple EXCEPT !.env = e]
                      /\ \A f \in SomeFormats : SetObjectFormat(f) =>
                           triple' = [triple EXCEPT !.format = f]
    BY <1>1 DEF uvars
  <2>1. ASSUME data[1] # data'[1]
        PROVE  /\ triple'.vendor = triple.vendor
               /\ triple'.os = triple.os /\ triple'.version = triple.version
               /\ Len(data) > 1 => triple'.env = triple.env
    <3>1. PICK a \in Arch, s \in {"NoSubArch", triple.sub} : data' = WithArch(a, s)
      BY <1>1, <2>1, FirstWordSet
    <3> QED BY <2>0, <3>1, ArchChanged
  <2>2. ASSUME NEW o \in SomeOS, SetOS(o)
        PROVE  /\ triple'.arch = triple.arch /\ triple'.vendor = triple.vendor
               /\ Len(data) > 1 => triple'.env = triple.env
    <3> DEFINE e == data'
               t == triple'
    <3>1. IsChanged(e, data, WordOf(data, 1), WordOf(data, 2), OSTypeName[o])
      BY <2>0, <2>2, OSSet
    <3>2. IsRead(t, e)  BY <3>1, ReadIs DEF IsChanged, triple
    <3>3. IsRead(triple, data)  BY <2>0, TripleIs
    <3> HIDE DEF e, t
    <3>4. t.arch = triple.arch /\ t.vendor = triple.vendor
      BY <3>1, <3>2, <3>3 DEF IsChanged, IsRead
    <3>5. ASSUME Len(data) > 1  PROVE t.env = triple.env
      <4> DEFINE m == Len(data)
                 n == Len(e)
      <4>1. m > 1 /\ m \in Nat /\ n \in Nat /\ n >= 3
        BY <2>0, <3>1, <3>5 DEF IsChanged, IsString, IsWords
      <4> HIDE DEF m, n
      <4>2. m # 1 /\ n # 1  BY <4>1
      <4> USE DEF m, n
      <4> QED BY <3>1, <3>2, <3>3, <4>2 DEF IsChanged, IsRead
    <3> QED BY <3>4, <3>5 DEF t
  <2>3. ASSUME NEW e \in SomeEnvs, SetEnvironment(e)
        PROVE  triple' = [triple EXCEPT !.env = e]
    <3>1. e \in DOMAIN EnvironmentTypeName  BY FieldsAssumption
    <3> QED BY <2>0, <2>3, <3>1, EnvSet
  <2>4. ASSUME NEW f \in SomeFormats, SetObjectFormat(f)
        PROVE  triple' = [triple EXCEPT !.format = f]
    <3>1. f \in DOMAIN ObjectFormatTypeName \ {"UnknownObjectFormat"}  BY FieldsAssumption
    <3> QED BY <2>0, <2>4, <3>1, FormatSet
  <2> QED BY <2>1, <2>2, <2>3, <2>4
<1> HIDE DEF Keeps
<1>2. USpec => [][Keeps]_<<data, status>>  BY <1>1, UseInvariant, PTL DEF USpec
<1> QED BY <1>2 DEF Keeps, OthersKept

\* The variant of the variant is the architecture one began with.
THEOREM ThereAndBackUses == USpec => ThereAndBack
<1> DEFINE Back ==
      /\ asked # "nothing" /\ asked' = Opposite(asked) /\ status' = "ok"
      /\ from.arch \notin {"thumb", "thumbeb", "aarch64_32"}
      /\ triple.arch \notin {"UnknownArch", from.arch}
      => triple'.arch = from.arch
<1>1. ASSUME UseInv, UseInv', [UNext]_uvars  PROVE Back
  <2> SUFFICES ASSUME asked # "nothing", asked' = Opposite(asked), status' = "ok",
                      from.arch \notin {"thumb", "thumbeb", "aarch64_32"},
                      triple.arch \notin {"UnknownArch", from.arch}
               PROVE  triple'.arch = from.arch
    OBVIOUS
  <2>1. asked \in Asked  BY <1>1 DEF UseInv
  <2>2. asked' \in Asked /\ asked' # asked  BY <2>1 DEF Asked, Opposite
  <2>3. AskForVariant
    <3>1. asked' # "nothing"  BY <2>2 DEF Asked
    <3>2. ~ChangeTriple /\ ~LinkModule /\ ~ChooseTarget
      BY <3>1 DEF ChangeTriple, LinkModule, ChooseTarget, Constructed, Otherwise
    <3>3. ~Normalize /\ ~ConstructTriple /\ ~Ended /\ ~UNCHANGED uvars
      BY <2>2 DEF Normalize, ConstructTriple, Ended, uvars
    <3> QED BY <1>1, <3>2, <3>3 DEF UNext
  <2>4. PICK v \in Asked : Gives(v)
    BY <2>3, Given64, Given32, GivenBig, GivenLittle DEF AskForVariant, Constructed, Asked
  <2>5. asked' = v /\ from' = triple /\ status = "ok"  BY <2>4 DEF Gives, Ask
  <2>6. from.arch \in Arch /\ triple.arch = Variant(asked, from.arch)
    BY <1>1, <2>1, <2>5 DEF UseInv, VariantIs, Asked
  <2>7. triple'.arch = Variant(v, triple.arch)
    <3>1. VariantIs'  BY <1>1 DEF UseInv
    <3>2. (asked # "nothing")'  BY <2>2 DEF Asked
    <3> QED BY <2>5, <3>1, <3>2 DEF VariantIs
  <2> DEFINE a == from.arch
             b == triple.arch
  <2>8. b = Variant(asked, a) /\ b \notin {a, "UnknownArch"}  BY <2>6
  <2> HIDE DEF a, b
  <2>9. Variant(Opposite(asked), b) = a
    BY <2>1, <2>6, <2>8, VariantBack DEF a
  <2> QED BY <2>5, <2>7, <2>9 DEF a, b
<1> HIDE DEF Back
<1>2. USpec => [][Back]_vvars  BY <1>1, UseInvariant, PTL DEF USpec
<1> QED BY <1>2 DEF Back, ThereAndBack

----------------------------------------------------------------------------
(* The least and the greatest of a set of positions.                       *)

LessThan == {p \in Nat \X Nat : p[1] < p[2]}

LEMMA Least ==
  ASSUME NEW T, T \subseteq Nat, T # {}
  PROVE  Min(T) \in T /\ \A m \in T : Min(T) <= m
<1>1. IsWellFoundedOn(OpToRel(<, Nat), Nat)  BY NatLessThanWellFounded
<1>2. IsWellFoundedOn(LessThan, Nat)  BY <1>1 DEF OpToRel, LessThan
<1>3. PICK n \in T : \A m \in T : ~ (<<m, n>> \in LessThan)  BY <1>2, WFMin
<1>4. \A m \in T : ~(m < n)  BY <1>3 DEF LessThan
<1>5. n \in T /\ \A m \in T : n <= m  BY <1>4
<1>6. Min(T) \in T /\ \A m \in T : Min(T) <= m
  <2> DEFINE P(x) == x \in T /\ \A y \in T : x <= y
  <2>1. \E x : P(x)  BY <1>5
  <2>2. Min(T) = CHOOSE x : P(x)  BY DEF Min
  <2> QED BY <2>1, <2>2
<1> QED BY <1>6

LEMMA Greatest ==
  ASSUME NEW T, T \subseteq Nat, T # {}, NEW b \in Nat, \A m \in T : m <= b
  PROVE  Max(T) \in T /\ \A m \in T : m <= Max(T)
<1> DEFINE U == {k \in 0 .. b : b - k \in T}
<1>1. U \subseteq Nat  OBVIOUS
<1>2. U # {}
  <2>1. PICK m \in T : TRUE  OBVIOUS
  <2>2. b - m \in 0 .. b /\ b - (b - m) = m  BY <2>1
  <2> QED BY <2>2
<1>3. PICK k \in U : \A l \in U : k <= l
  <2> HIDE DEF U
  <2> QED BY <1>1, <1>2, Least
<1>4. b - k \in T  OBVIOUS
<1>5. ASSUME NEW m \in T  PROVE m <= b - k
  <2>1. b - m \in 0 .. b /\ b - (b - m) = m  OBVIOUS
  <2>2. k <= b - m  BY <1>3, <2>1
  <2>3. k \in Nat /\ m \in Nat  OBVIOUS
  <2> HIDE DEF U
  <2> QED BY <2>2, <2>3
<1> HIDE DEF U
<1>6. \E x \in T : \A y \in T : x >= y  BY <1>4, <1>5
<1>7. Max(T) \in T /\ \A y \in T : Max(T) >= y
  <2> DEFINE P(x) == x \in T /\ \A y \in T : x >= y
  <2>1. \E x : P(x)  BY <1>6
  <2>2. Max(T) = CHOOSE x : P(x)  BY DEF Max
  <2> QED BY <2>1, <2>2
<1> QED BY <1>7

----------------------------------------------------------------------------
(* The moves.                                                              *)

Blank == ""

LEMMA FunctionWords ==
  ASSUME NEW n \in Nat, NEW f, DOMAIN f = 1 .. n, f = [k \in 1 .. n |-> f[k]]
  PROVE  IsWords(f) /\ Len(f) = n
<1> DEFINE S == {f[k] : k \in 1 .. n}
<1>1. f \in [1 .. n -> S]  OBVIOUS
<1> HIDE DEF S
<1>2. f \in Seq(S)  BY <1>1, SeqDef
<1>3. Len(f) \in Nat /\ 1 .. Len(f) = 1 .. n  BY <1>2, LenProperties
<1>4. Len(f) = n
  <2> DEFINE m == Len(f)
  <2>1. m \in Nat /\ 1 .. m = 1 .. n  BY <1>3
  <2> HIDE DEF m
  <2>2. m = n
    <3>1. m >= 1 => m \in 1 .. n  BY <2>1
    <3>2. n >= 1 => n \in 1 .. m  BY <2>1
    <3> QED BY <2>1, <3>1, <3>2
  <2> QED BY <2>2 DEF m
<1> QED BY <1>2, <1>4, WordsFrom

\* The positions that give way, and the one where that ends.
Yielding(n, at) == {k \in at .. n : k \notin found} \cup {n + 1}
Hole(words, n, at) == Min({k \in Yielding(n, at) : k = n + 1 \/ words[k] = Blank})
Previous(F, k) == Max({j \in F : j < k})
Next1(F, k) == Min({j \in F : j > k})
End(n, h) == Max({n, h})

IsSpread(e, words, at, word, n, F, h) ==
  e = [k \in 1 .. End(n, h) |-> IF k = at THEN word
                                ELSE IF k \in F /\ k <= h THEN words[Previous(F, k)] ELSE words[k]]

LEMMA InsertWith ==
  ASSUME NEW words, NEW at, NEW word, NEW e, e = Insert(words, at, word)
  PROVE  IsSpread(e, words, at, word, Len(words), Yielding(Len(words), at),
                  Hole(words, Len(words), at))
BY Zenon DEF Insert, IsSpread, Yielding, Hole, Previous, End, Blank, Free

LEMMA YieldingIs ==
  ASSUME NEW n \in Nat, NEW at \in 1 .. n, at \notin found, n + 1 \notin found,
         NEW F, F = Yielding(n, at), NEW words, NEW h, h = Hole(words, n, at)
  PROVE  /\ F \subseteq Nat /\ at \in F /\ n + 1 \in F /\ \A k \in F : at <= k /\ k <= n + 1
         /\ h \in F /\ (h = n + 1 \/ words[h] = Blank)
         /\ \A k \in F : k \in at .. n /\ words[k] = Blank => h <= k
         /\ End(n, h) = IF h = n + 1 THEN n + 1 ELSE n
         /\ \A k \in F : k \notin found
         /\ \A k \in at .. n : k \notin found => k \in F
<1>1. F \subseteq Nat /\ at \in F /\ n + 1 \in F /\ (\A k \in F : at <= k /\ k <= n + 1)
  BY DEF Yielding
<1>2. (\A k \in F : k \notin found) /\ (\A k \in at .. n : k \notin found => k \in F)
  BY DEF Yielding
<1> DEFINE T == {k \in F : k = n + 1 \/ words[k] = Blank}
<1>3. h = Min(T)  BY DEF Hole
<1>4. T \subseteq Nat /\ n + 1 \in T  BY <1>1
<1>5. h \in T /\ \A k \in T : h <= k
  <2> HIDE DEF T
  <2> QED BY <1>3, <1>4, Least
<1>6. h \in F /\ (h = n + 1 \/ words[h] = Blank)
      /\ \A k \in F : k \in at .. n /\ words[k] = Blank => h <= k
  BY <1>5
<1>7. End(n, h) = IF h = n + 1 THEN n + 1 ELSE n
  <2> DEFINE U == {n, h}
  <2>1. h \in Nat /\ h <= n + 1  BY <1>1, <1>6
  <2>2. U \subseteq Nat /\ U # {} /\ \A m \in U : m <= n + 1  BY <2>1
  <2>3. Max(U) \in U /\ \A m \in U : m <= Max(U)
    <3>1. n + 1 \in Nat  OBVIOUS
    <3> HIDE DEF U
    <3> QED BY <2>2, <3>1, Greatest
  <2> DEFINE e == End(n, h)
  <2>4. (e = n \/ e = h) /\ n <= e /\ h <= e  BY <2>3 DEF End
  <2> HIDE DEF e
  <2>5. e = IF h = n + 1 THEN n + 1 ELSE n  BY <2>1, <2>4
  <2> QED BY <2>5 DEF e
<1> QED BY <1>1, <1>2, <1>6, <1>7

\* Each but the first has a previous one, and each but the last a next one.
LEMMA Neighbours ==
  ASSUME NEW F, F \subseteq Nat, NEW b \in Nat, \A j \in F : j <= b
  PROVE  /\ \A k, i \in F : i < k =>
              /\ Previous(F, k) \in F /\ Previous(F, k) < k /\ i <= Previous(F, k)
              /\ Next1(F, i) \in F /\ i < Next1(F, i) /\ Next1(F, i) <= k
              /\ Next1(F, Previous(F, k)) = k /\ Previous(F, Next1(F, i)) = i
<1>1. ASSUME NEW k \in F, NEW i \in F, i < k
      PROVE  Previous(F, k) \in F /\ Previous(F, k) < k /\ (\A j \in F : j < k => j <= Previous(F, k))
  <2> DEFINE T == {j \in F : j < k}
  <2>1. T \subseteq Nat /\ T # {} /\ \A j \in T : j <= b  BY <1>1
  <2>2. Max(T) \in T /\ \A j \in T : j <= Max(T)
    <3> HIDE DEF T
    <3> QED BY <2>1, Greatest
  <2>3. Previous(F, k) = Max(T)  BY DEF Previous
  <2> QED BY <2>2, <2>3
<1>2. ASSUME NEW k \in F, NEW i \in F, i < k
      PROVE  Next1(F, i) \in F /\ i < Next1(F, i) /\ (\A j \in F : i < j => Next1(F, i) <= j)
  <2> DEFINE T == {j \in F : j > i}
  <2>1. T \subseteq Nat /\ T # {}  BY <1>2
  <2>2. Min(T) \in T /\ \A j \in T : Min(T) <= j
    <3> HIDE DEF T
    <3> QED BY <2>1, Least
  <2>3. Next1(F, i) = Min(T)  BY DEF Next1
  <2> QED BY <2>2, <2>3
<1>3. ASSUME NEW k \in F, NEW i \in F, i < k
      PROVE  Next1(F, Previous(F, k)) = k
  <2> DEFINE p == Previous(F, k)
             q == Next1(F, p)
  <2>1. p \in F /\ p < k /\ (\A j \in F : j < k => j <= p)  BY <1>1, <1>3
  <2> HIDE DEF p
  <2>2. q \in F /\ p < q /\ q <= k  BY <1>2, <2>1
  <2> HIDE DEF q
  <2>3. q = k
    <3>1. q \in Nat /\ p \in Nat /\ k \in Nat  BY <2>1, <2>2
    <3>2. q < k => q <= p  BY <2>1, <2>2
    <3> QED BY <2>2, <3>1, <3>2
  <2> QED BY <2>3 DEF p, q
<1>4. ASSUME NEW k \in F, NEW i \in F, i < k
      PROVE  Previous(F, Next1(F, i)) = i
  <2> DEFINE q == Next1(F, i)
             p == Previous(F, q)
  <2>1. q \in F /\ i < q /\ (\A j \in F : i < j => q <= j)  BY <1>2, <1>4
  <2> HIDE DEF q
  <2>2. p \in F /\ p < q /\ i <= p  BY <1>1, <2>1
  <2> HIDE DEF p
  <2>3. p = i
    <3>1. q \in Nat /\ p \in Nat /\ i \in Nat  BY <2>1, <2>2
    <3>2. i < p => q <= p  BY <2>1, <2>2
    <3> QED BY <2>2, <3>1, <3>2
  <2> QED BY <2>3 DEF p, q
<1> QED BY <1>1, <1>2, <1>3, <1>4

\* f takes the positions of the words of s to where they are in e; `at` is given up.
IsShift(f, s, e, at) ==
  /\ \A k \in 1 .. Len(s) : s[k] # Blank =>
       f[k] \in 1 .. Len(e) /\ f[k] # at /\ e[f[k]] = s[k]
  /\ \A k, m \in 1 .. Len(s) : s[k] # Blank /\ s[m] # Blank /\ f[k] = f[m] => k = m
  /\ \A m \in 1 .. Len(e) : m # at /\ e[m] # Blank =>
       \E k \in 1 .. Len(s) : s[k] # Blank /\ f[k] = m

\* e has at the positions that are final what s has there, and elsewhere the other
\* words of s, and `word`.
IsInserted(s, e, at, word) ==
  /\ IsWords(e) /\ Len(e) \in Nat /\ Len(e) >= Len(s) /\ e[at] = word
  /\ \A k \in 1 .. Len(s) : k \in found => e[k] = s[k]
  /\ \A m \in 1 .. Len(e) : m \notin found /\ m # at =>
       \E k \in 1 .. Len(s) : k \notin found /\ e[m] = s[k]

NextFree(n, at) == Min({k \in at + 1 .. n + 5 : k \notin found})

LEMMA Inserted ==
  ASSUME NEW s, NEW n, n = Len(s), n \in Nat, NEW at \in 1 .. n, at \notin found,
         \A k \in found : k <= n,
         NEW word, NEW e, e = Insert(s, at, word)
  PROVE  /\ IsInserted(s, e, at, word)
         /\ \E f : IsShift(f, s, e, at) /\ (s[at] # Blank => f[at] = NextFree(n, at) /\ f[at] \notin found)
<1> DEFINE F == Yielding(n, at)
           h == Hole(s, n, at)
           L == End(n, h)
<1>0. n + 1 \notin found
  <2>1. ~(n + 1 <= n)  OBVIOUS
  <2> QED BY <2>1
<1>1. /\ F \subseteq Nat /\ at \in F /\ n + 1 \in F /\ \A k \in F : at <= k /\ k <= n + 1
      /\ h \in F /\ (h = n + 1 \/ s[h] = Blank)
      /\ L = IF h = n + 1 THEN n + 1 ELSE n
      /\ \A k \in F : k \notin found
      /\ \A k \in at .. n : k \notin found => k \in F
  <2>1. /\ F \subseteq Nat /\ at \in F /\ n + 1 \in F /\ \A k \in F : at <= k /\ k <= n + 1
    BY <1>0, YieldingIs
  <2>2. h \in F /\ (h = n + 1 \/ s[h] = Blank)  BY <1>0, YieldingIs
  <2>3. L = IF h = n + 1 THEN n + 1 ELSE n  BY <1>0, YieldingIs
  <2>4. (\A k \in F : k \notin found) /\ (\A k \in at .. n : k \notin found => k \in F)
    BY <1>0, YieldingIs
  <2> QED BY <2>1, <2>2, <2>3, <2>4
<1>2. e = [k \in 1 .. L |-> IF k = at THEN word
                            ELSE IF k \in F /\ k <= h THEN s[Previous(F, k)] ELSE s[k]]
  <2>1. IsSpread(e, s, at, word, n, F, h)  BY InsertWith
  <2> QED BY <2>1 DEF IsSpread
<1> HIDE DEF F, h, L
<1>3. L \in Nat /\ L >= n /\ h \in Nat /\ h <= n + 1 /\ at <= h  BY <1>1
<1>4. IsWords(e) /\ Len(e) = L
  <2>1. DOMAIN e = 1 .. L /\ e = [k \in 1 .. L |-> e[k]]  BY <1>2
  <2> QED BY <1>3, <2>1, FunctionWords
<1>5. /\ e[at] = word
      /\ \A k \in 1 .. L : k # at /\ k \in F /\ k <= h => e[k] = s[Previous(F, k)]
      /\ \A k \in 1 .. L : k # at /\ ~(k \in F /\ k <= h) => e[k] = s[k]
  <2>1. at \in 1 .. L  BY <1>3
  <2> QED BY <1>2, <2>1
<1>6. \A k \in 1 .. L : ~(k \in F /\ k <= h) => k \in 1 .. n
  <2> SUFFICES ASSUME NEW k \in 1 .. L, ~(k \in F /\ k <= h)  PROVE k <= n
    BY <1>3
  <2>1. CASE h = n + 1
    <3>1. k <= n + 1 /\ k # n + 1  BY <1>1, <2>1
    <3> QED BY <3>1
  <2>2. CASE h # n + 1
    BY <1>1, <2>2
  <2> QED BY <2>1, <2>2
<1>7. \A k, i \in F : i < k =>
              /\ Previous(F, k) \in F /\ Previous(F, k) < k /\ i <= Previous(F, k)
              /\ Next1(F, i) \in F /\ i < Next1(F, i) /\ Next1(F, i) <= k
              /\ Next1(F, Previous(F, k)) = k /\ Previous(F, Next1(F, i)) = i
  <2>1. F \subseteq Nat /\ n + 1 \in Nat /\ \A j \in F : j <= n + 1  BY <1>1
  <2> QED BY <2>1, Neighbours
\* What has moved comes from the left.
<1>8. ASSUME NEW k \in 1 .. L, k # at, k \in F, k <= h
      PROVE  /\ Previous(F, k) \in F /\ Previous(F, k) < k /\ Previous(F, k) \in 1 .. n
             /\ Previous(F, k) < h /\ Next1(F, Previous(F, k)) = k
  <2>1. at < k /\ k <= n + 1  BY <1>1, <1>8
  <2>2. /\ Previous(F, k) \in F /\ Previous(F, k) < k /\ at <= Previous(F, k)
        /\ Next1(F, Previous(F, k)) = k
    BY <1>1, <1>7, <1>8, <2>1
  <2> DEFINE p == Previous(F, k)
  <2>3. p \in Nat /\ p < k /\ at <= p  BY <1>1, <2>2
  <2> HIDE DEF p
  <2>4. p \in 1 .. n /\ p < h  BY <1>3, <1>8, <2>1, <2>3
  <2> QED BY <2>2, <2>4 DEF p
<1>9. IsInserted(s, e, at, word)
  <2>1. \A k \in 1 .. n : k \in found => e[k] = s[k]
    <3> SUFFICES ASSUME NEW k \in 1 .. n, k \in found  PROVE e[k] = s[k]  OBVIOUS
    <3>1. k \notin F /\ k # at /\ k \in 1 .. L  BY <1>1, <1>3
    <3> QED BY <1>5, <3>1
  <2>2. ASSUME NEW m \in 1 .. L, m \notin found, m # at
        PROVE  \E k \in 1 .. n : k \notin found /\ e[m] = s[k]
    <3>1. CASE m \in F /\ m <= h
      <4>1. Previous(F, m) \in F /\ Previous(F, m) \in 1 .. n  BY <1>8, <2>2, <3>1
      <4>2. e[m] = s[Previous(F, m)]  BY <1>5, <2>2, <3>1
      <4> QED BY <1>1, <4>1, <4>2
    <3>2. CASE ~(m \in F /\ m <= h)
      <4>1. e[m] = s[m] /\ m \in 1 .. n  BY <1>5, <1>6, <2>2, <3>2
      <4> QED BY <2>2, <4>1
    <3> QED BY <3>1, <3>2
  <2> QED BY <1>3, <1>4, <1>5, <2>1, <2>2 DEF IsInserted
<1>10. \E f : IsShift(f, s, e, at)
               /\ (s[at] # Blank => f[at] = NextFree(n, at) /\ f[at] \notin found)
  <2> DEFINE f == [k \in 1 .. n |-> IF k \in F /\ k < h THEN Next1(F, k) ELSE k]
  <2>1. \A k \in 1 .. n : f[k] = IF k \in F /\ k < h THEN Next1(F, k) ELSE k  OBVIOUS
  <2> HIDE DEF f
  <2>2. \A k \in 1 .. n : s[k] # Blank => k # h
    BY <1>1, <1>3
  <2>3. ASSUME NEW k \in F, k < h
        PROVE  Next1(F, k) \in F /\ k < Next1(F, k) /\ Next1(F, k) <= h /\ Previous(F, Next1(F, k)) = k
               /\ Next1(F, k) \in 1 .. L /\ Next1(F, k) # at
    <3>1. Next1(F, k) \in F /\ k < Next1(F, k) /\ Next1(F, k) <= h /\ Previous(F, Next1(F, k)) = k
      BY <1>1, <1>7, <2>3
    <3> DEFINE q == Next1(F, k)
    <3>2. q \in Nat /\ k \in Nat /\ k < q /\ q <= h /\ at <= k  BY <1>1, <3>1
    <3> HIDE DEF q
    <3>3. h <= L  BY <1>1, <1>3
    <3>4. q \in 1 .. L /\ q # at  BY <1>3, <3>2, <3>3
    <3> QED BY <3>1, <3>4 DEF q
  <2>4. ASSUME NEW k \in 1 .. n, s[k] # Blank, ~(k \in F /\ k < h)
        PROVE  k # at /\ k \in 1 .. L /\ ~(k \in F /\ k <= h)
    <3>1. k # h  BY <2>2, <2>4
    <3>2. at # h => at < h  BY <1>3
    <3>3. k # at  BY <1>1, <2>4, <3>1, <3>2
    <3>4. ~(k <= h /\ k # h /\ ~(k < h))  BY <1>3
    <3>5. k \in 1 .. L  BY <1>3
    <3> QED BY <2>4, <3>1, <3>3, <3>4, <3>5
  <2>5. ASSUME NEW k \in 1 .. n, s[k] # Blank
        PROVE  f[k] \in 1 .. L /\ f[k] # at /\ e[f[k]] = s[k]
    <3>1. CASE k \in F /\ k < h
      <4> DEFINE q == Next1(F, k)
      <4>1. f[k] = q  BY <2>1, <3>1
      <4>2. q \in F /\ q <= h /\ Previous(F, q) = k /\ q \in 1 .. L /\ q # at  BY <2>3, <3>1
      <4> HIDE DEF q
      <4>3. e[q] = s[k]  BY <1>5, <4>2
      <4> QED BY <4>1, <4>2, <4>3
    <3>2. CASE ~(k \in F /\ k < h)
      <4>1. f[k] = k  BY <2>1, <3>2
      <4>2. k # at /\ k \in 1 .. L /\ ~(k \in F /\ k <= h)  BY <2>4, <2>5, <3>2
      <4> QED BY <1>5, <4>1, <4>2
    <3> QED BY <3>1, <3>2
  <2>6. ASSUME NEW k \in 1 .. n, NEW m \in 1 .. n, s[k] # Blank, s[m] # Blank, f[k] = f[m]
        PROVE  k = m
    <3>1. CASE (k \in F /\ k < h) /\ (m \in F /\ m < h)
      <4>1. f[k] = Next1(F, k) /\ f[m] = Next1(F, m)  BY <2>1, <3>1
      <4>2. Previous(F, Next1(F, k)) = k /\ Previous(F, Next1(F, m)) = m  BY <2>3, <3>1
      <4> QED BY <2>6, <4>1, <4>2
    <3>2. CASE ~(k \in F /\ k < h) /\ ~(m \in F /\ m < h)
      BY <2>1, <2>6, <3>2
    <3>3. CASE (k \in F /\ k < h) /\ ~(m \in F /\ m < h)
      <4>1. f[k] = Next1(F, k) /\ f[m] = m  BY <2>1, <3>3
      <4>2. Next1(F, k) \in F /\ Next1(F, k) <= h  BY <2>3, <3>3
      <4>3. ~(m \in F /\ m <= h)  BY <2>4, <2>6, <3>3
      <4> QED BY <2>6, <4>1, <4>2, <4>3
    <3>4. CASE ~(k \in F /\ k < h) /\ (m \in F /\ m < h)
      <4>1. f[m] = Next1(F, m) /\ f[k] = k  BY <2>1, <3>4
      <4>2. Next1(F, m) \in F /\ Next1(F, m) <= h  BY <2>3, <3>4
      <4>3. ~(k \in F /\ k <= h)  BY <2>4, <2>6, <3>4
      <4> QED BY <2>6, <4>1, <4>2, <4>3
    <3> QED BY <3>1, <3>2, <3>3, <3>4
  <2>7. ASSUME NEW m \in 1 .. L, m # at, e[m] # Blank
        PROVE  \E k \in 1 .. n : s[k] # Blank /\ f[k] = m
    <3>1. CASE m \in F /\ m <= h
      <4> DEFINE p == Previous(F, m)
      <4>1. p \in F /\ p \in 1 .. n /\ p < h /\ Next1(F, p) = m  BY <1>8, <2>7, <3>1
      <4>2. e[m] = s[p]  BY <1>5, <2>7, <3>1
      <4> HIDE DEF p
      <4>3. f[p] = m  BY <2>1, <4>1
      <4> QED BY <2>7, <4>1, <4>2, <4>3
    <3>2. CASE ~(m \in F /\ m <= h)
      <4>1. e[m] = s[m] /\ m \in 1 .. n  BY <1>5, <1>6, <2>7, <3>2
      <4>2. ~(m \in F /\ m < h)
        <5>1. h \in Nat /\ (m < h => m <= h)  BY <1>3
        <5> QED BY <3>2, <5>1
      <4>3. f[m] = m  BY <2>1, <4>1, <4>2
      <4> QED BY <2>7, <4>1, <4>3
    <3> QED BY <3>1, <3>2
  <2>8. IsShift(f, s, e, at)  BY <1>4, <2>5, <2>6, <2>7 DEF IsShift
  <2>9. ASSUME s[at] # Blank  PROVE f[at] = NextFree(n, at) /\ f[at] \notin found
    <3>1. at < h  BY <1>1, <1>3, <2>2, <2>9
    <3> DEFINE q == Next1(F, at)
               T == {k \in at + 1 .. n + 5 : k \notin found}
               r == Min(T)
    <3>2. f[at] = q  BY <1>1, <2>1, <3>1
    <3>3. q \in F /\ at < q  BY <1>1, <2>3, <3>1
    <3>4. q \in T
      <4>1. q \in Nat /\ q <= n + 1 /\ q \notin found  BY <1>1, <3>3
      <4> HIDE DEF q
      <4> QED BY <3>3, <4>1
    <3>5. T \subseteq Nat  OBVIOUS
    <3>6. r \in T /\ \A k \in T : r <= k
      <4> HIDE DEF T
      <4> QED BY <3>4, <3>5, Least
    <3>7. r <= q  BY <3>4, <3>6
    <3>8. r \in F /\ at < r
      <4>1. r \in Nat /\ r \notin found /\ at < r  BY <3>6
      <4>2. q <= n + 1 /\ q \in Nat  BY <1>1, <3>3
      <4> HIDE DEF q, r
      <4>3. r \in at .. n \/ r = n + 1  BY <3>7, <4>1, <4>2
      <4> QED BY <1>1, <4>1, <4>3
    <3>9. q <= r  BY <1>1, <1>7, <3>8
    <3> HIDE DEF q, r
    <3>10. q = r
      <4>1. q \in Nat /\ r \in Nat  BY <1>1, <3>3, <3>8
      <4> QED BY <3>7, <3>9, <4>1
    <3>11. q \notin found  BY <1>1, <3>3
    <3> QED BY <3>2, <3>10, <3>11 DEF r, NextFree
  <2> QED BY <2>8, <2>9
<1> QED BY <1>9, <1>10

----------------------------------------------------------------------------
(* Nothing is lost.                                                        *)

Occurrences(s) == {k \in 1 .. Len(s) : s[k] # Blank}

IsPlacing(g, s, e) ==
  /\ g \in Bijection(Occurrences(s), Occurrences(e))
  /\ \A k \in Occurrences(s) : e[g[k]] = s[k]

SameWords(s, e) == \E g : IsPlacing(g, s, e)

LEMMA PlacingIs ==
  ASSUME NEW s, NEW e, NEW g, g \in [Occurrences(s) -> Occurrences(e)],
         \A k, m \in Occurrences(s) : g[k] = g[m] => k = m,
         \A m \in Occurrences(e) : \E k \in Occurrences(s) : g[k] = m,
         \A k \in Occurrences(s) : e[g[k]] = s[k]
  PROVE  SameWords(s, e)
<1> DEFINE S == Occurrences(s)
           T == Occurrences(e)
<1>1. /\ g \in [S -> T]
      /\ \A k, m \in S : g[k] = g[m] => k = m
      /\ \A m \in T : \E k \in S : g[k] = m
  OBVIOUS
<1> HIDE DEF S, T
<1>2. g \in Bijection(S, T)  BY <1>1 DEF Bijection, Injection, Surjection, IsInjective
<1> QED BY <1>2 DEF SameWords, IsPlacing, S, T

LEMMA SameAsItself == \A s : SameWords(s, s)
<1> SUFFICES ASSUME NEW s  PROVE SameWords(s, s)  OBVIOUS
<1> DEFINE g == [k \in Occurrences(s) |-> k]
<1>1. g \in [Occurrences(s) -> Occurrences(s)] /\ \A k \in Occurrences(s) : g[k] = k  OBVIOUS
<1> HIDE DEF g
<1> QED BY <1>1, PlacingIs

LEMMA PlacingGives ==
  ASSUME NEW s, NEW e, NEW g, IsPlacing(g, s, e)
  PROVE  /\ g \in [Occurrences(s) -> Occurrences(e)]
         /\ \A k, m \in Occurrences(s) : g[k] = g[m] => k = m
         /\ \A m \in Occurrences(e) : \E k \in Occurrences(s) : g[k] = m
         /\ \A k \in Occurrences(s) : e[g[k]] = s[k]
<1> DEFINE S == Occurrences(s)
           T == Occurrences(e)
<1>1. g \in Bijection(S, T) /\ \A k \in S : e[g[k]] = s[k]  BY DEF IsPlacing
<1> HIDE DEF S, T
<1>2. /\ g \in [S -> T]
      /\ \A k, m \in S : g[k] = g[m] => k = m
      /\ \A m \in T : \E k \in S : g[k] = m
  BY <1>1 DEF Bijection, Injection, Surjection, IsInjective
<1> QED BY <1>1, <1>2 DEF S, T

LEMMA SameAsThird ==
  ASSUME NEW s, NEW e, NEW d, SameWords(s, e), SameWords(e, d)
  PROVE  SameWords(s, d)
<1> DEFINE S == Occurrences(s)
           T == Occurrences(e)
           U == Occurrences(d)
<1>1. PICK g : IsPlacing(g, s, e)  BY DEF SameWords
<1>2. PICK f : IsPlacing(f, e, d)  BY DEF SameWords
<1>3. /\ g \in [S -> T] /\ \A k \in S : e[g[k]] = s[k]
      /\ \A k, m \in S : g[k] = g[m] => k = m
      /\ \A m \in T : \E k \in S : g[k] = m
  <2>1. g \in [S -> T]  BY <1>1, PlacingGives
  <2>2. \A k \in S : e[g[k]] = s[k]  BY <1>1, PlacingGives
  <2>3. \A k, m \in S : g[k] = g[m] => k = m  BY <1>1, PlacingGives
  <2>4. \A m \in T : \E k \in S : g[k] = m  BY <1>1, PlacingGives
  <2> QED BY <2>1, <2>2, <2>3, <2>4
<1>4. /\ f \in [T -> U] /\ \A k \in T : d[f[k]] = e[k]
      /\ \A k, m \in T : f[k] = f[m] => k = m
      /\ \A m \in U : \E k \in T : f[k] = m
  <2>1. f \in [T -> U]  BY <1>2, PlacingGives
  <2>2. \A k \in T : d[f[k]] = e[k]  BY <1>2, PlacingGives
  <2>3. \A k, m \in T : f[k] = f[m] => k = m  BY <1>2, PlacingGives
  <2>4. \A m \in U : \E k \in T : f[k] = m  BY <1>2, PlacingGives
  <2> QED BY <2>1, <2>2, <2>3, <2>4
<1> DEFINE h == [k \in S |-> f[g[k]]]
<1> HIDE DEF S, T, U
<1>5. h \in [S -> U] /\ \A k \in S : h[k] = f[g[k]]  BY <1>3, <1>4
<1> HIDE DEF h
<1>6. \A k \in S : d[h[k]] = s[k]  BY <1>3, <1>4, <1>5
<1>7. \A k, m \in S : h[k] = h[m] => k = m  BY <1>3, <1>4, <1>5
<1>8. \A m \in U : \E k \in S : h[k] = m
  <2> SUFFICES ASSUME NEW m \in U  PROVE \E k \in S : h[k] = m  OBVIOUS
  <2>1. PICK j \in T : f[j] = m  BY <1>4
  <2>2. PICK k \in S : g[k] = j  BY <1>3
  <2> QED BY <1>5, <2>1, <2>2
<1> QED BY <1>5, <1>6, <1>7, <1>8, PlacingIs DEF S, U

\* A component is moved from i to `at`, in s without it.
LEMMA MovedLeft ==
  ASSUME NEW s, NEW i \in 1 .. Len(s), s[i] # Blank,
         NEW c, Len(c) = Len(s), \A k \in 1 .. Len(s) : c[k] = (IF k = i THEN Blank ELSE s[k]),
         NEW e, NEW at \in 1 .. Len(e), e[at] = s[i],
         NEW f, IsShift(f, c, e, at)
  PROVE  SameWords(s, e)
<1> DEFINE S == Occurrences(s)
           T == Occurrences(e)
           g == [k \in S |-> IF k = i THEN at ELSE f[k]]
           n == Len(s)
           l == Len(e)
<1>1. /\ \A k \in S : k \in 1 .. n /\ s[k] # Blank
      /\ \A k \in 1 .. n : s[k] # Blank => k \in S
      /\ \A k \in T : k \in 1 .. l /\ e[k] # Blank
      /\ \A k \in 1 .. l : e[k] # Blank => k \in T
  BY DEF Occurrences
<1>2. /\ \A k \in 1 .. n : c[k] # Blank => f[k] \in 1 .. l /\ f[k] # at /\ e[f[k]] = c[k]
      /\ \A k, m \in 1 .. n : c[k] # Blank /\ c[m] # Blank /\ f[k] = f[m] => k = m
      /\ \A m \in 1 .. l : m # at /\ e[m] # Blank => \E k \in 1 .. n : c[k] # Blank /\ f[k] = m
  BY DEF IsShift
<1> HIDE DEF S, T
<1>3. \A k \in S : g[k] = IF k = i THEN at ELSE f[k]  OBVIOUS
<1>4. \A k \in S : k # i => c[k] = s[k] /\ c[k] # Blank  BY <1>1
<1>5. \A k \in S : (IF k = i THEN at ELSE f[k]) \in T  BY <1>1, <1>2, <1>4
<1>6. g \in [S -> T]  BY <1>5
<1> HIDE DEF g
<1>7. \A k \in S : e[g[k]] = s[k]  BY <1>1, <1>2, <1>3, <1>4
<1>8. \A k, m \in S : g[k] = g[m] => k = m  BY <1>1, <1>2, <1>3, <1>4
<1>9. \A m \in T : \E k \in S : g[k] = m
  <2> SUFFICES ASSUME NEW m \in T  PROVE \E k \in S : g[k] = m  OBVIOUS
  <2>1. CASE m = at
    <3>1. i \in S  BY <1>1
    <3> QED BY <1>3, <2>1, <3>1
  <2>2. CASE m # at
    <3>1. PICK k \in 1 .. n : c[k] # Blank /\ f[k] = m  BY <1>1, <1>2, <2>2
    <3>2. k # i /\ k \in S  BY <1>1, <3>1
    <3> QED BY <1>3, <3>1, <3>2
  <2> QED BY <2>1, <2>2
<1> QED BY <1>6, <1>7, <1>8, <1>9, PlacingIs DEF S, T

LEMMA PushedRight ==
  ASSUME NEW s, NEW e, NEW at, e[at] = Blank, NEW f, IsShift(f, s, e, at)
  PROVE  SameWords(s, e)
<1> DEFINE S == Occurrences(s)
           T == Occurrences(e)
           g == [k \in S |-> f[k]]
           n == Len(s)
           l == Len(e)
<1>1. /\ \A k \in S : k \in 1 .. n /\ s[k] # Blank
      /\ \A k \in 1 .. n : s[k] # Blank => k \in S
      /\ \A k \in T : k \in 1 .. l /\ e[k] # Blank
      /\ \A k \in 1 .. l : e[k] # Blank => k \in T
  BY DEF Occurrences
<1>2. /\ \A k \in 1 .. n : s[k] # Blank => f[k] \in 1 .. l /\ f[k] # at /\ e[f[k]] = s[k]
      /\ \A k, m \in 1 .. n : s[k] # Blank /\ s[m] # Blank /\ f[k] = f[m] => k = m
      /\ \A m \in 1 .. l : m # at /\ e[m] # Blank => \E k \in 1 .. n : s[k] # Blank /\ f[k] = m
  BY DEF IsShift
<1> HIDE DEF S, T
<1>3. \A k \in S : g[k] = f[k]  OBVIOUS
<1>5. \A k \in S : f[k] \in T  BY <1>1, <1>2
<1>6. g \in [S -> T]  BY <1>5
<1> HIDE DEF g
<1>7. \A k \in S : e[g[k]] = s[k]  BY <1>1, <1>2, <1>3
<1>8. \A k, m \in S : g[k] = g[m] => k = m  BY <1>1, <1>2, <1>3
<1>9. \A m \in T : \E k \in S : g[k] = m
  <2> SUFFICES ASSUME NEW m \in T  PROVE \E k \in S : g[k] = m  OBVIOUS
  <2>1. m # at  BY <1>1
  <2>2. PICK k \in 1 .. n : s[k] # Blank /\ f[k] = m  BY <1>1, <1>2, <2>1
  <2> QED BY <1>1, <1>3, <2>2
<1> QED BY <1>6, <1>7, <1>8, <1>9, PlacingIs DEF S, T

\* The same words, each as often.
LEMMA Counted ==
  ASSUME NEW s, NEW e, IsWords(s), IsWords(e), SameWords(s, e), NEW word, word # Blank
  PROVE  Cardinality({k \in DOMAIN s : s[k] = word}) = Cardinality({k \in DOMAIN e : e[k] = word})
<1> DEFINE S == {k \in DOMAIN s : s[k] = word}
           T == {k \in DOMAIN e : e[k] = word}
           n == Len(s)
<1>1. n \in Nat /\ DOMAIN s = 1 .. n  BY LenProperties DEF IsWords
<1>2. DOMAIN e = 1 .. Len(e)  BY LenProperties DEF IsWords
<1>3. IsFiniteSet(S)
  <2>1. IsFiniteSet(1 .. n)
    <3> HIDE DEF n
    <3> QED BY <1>1, FS_Interval
  <2>2. S \in SUBSET (1 .. n)  BY <1>1
  <2> HIDE DEF S, n
  <2> QED BY <2>1, <2>2, FS_Subset
<1>4. PICK g : IsPlacing(g, s, e)  BY DEF SameWords
<1>5. /\ g \in [Occurrences(s) -> Occurrences(e)] /\ \A k \in Occurrences(s) : e[g[k]] = s[k]
      /\ \A k, m \in Occurrences(s) : g[k] = g[m] => k = m
      /\ \A m \in Occurrences(e) : \E k \in Occurrences(s) : g[k] = m
  <2>1. g \in [Occurrences(s) -> Occurrences(e)]  BY <1>4, PlacingGives
  <2>2. \A k \in Occurrences(s) : e[g[k]] = s[k]  BY <1>4, PlacingGives
  <2>3. \A k, m \in Occurrences(s) : g[k] = g[m] => k = m  BY <1>4, PlacingGives
  <2>4. \A m \in Occurrences(e) : \E k \in Occurrences(s) : g[k] = m  BY <1>4, PlacingGives
  <2> QED BY <2>1, <2>2, <2>3, <2>4
<1>6. S = {k \in Occurrences(s) : s[k] = word} /\ T = {k \in Occurrences(e) : e[k] = word}
  BY <1>1, <1>2 DEF Occurrences
<1> DEFINE f == [k \in S |-> g[k]]
<1> HIDE DEF S, T
<1>7. f \in [S -> T] /\ \A k \in S : f[k] = g[k]
  <2>1. \A k \in S : g[k] \in T  BY <1>5, <1>6
  <2> QED BY <2>1
<1> HIDE DEF f
<1>8. \A k, m \in S : f[k] = f[m] => k = m  BY <1>5, <1>6, <1>7
<1>9. \A m \in T : \E k \in S : f[k] = m
  <2> SUFFICES ASSUME NEW m \in T  PROVE \E k \in S : f[k] = m  OBVIOUS
  <2>1. m \in Occurrences(e) /\ e[m] = word  BY <1>6
  <2>2. PICK k \in Occurrences(s) : g[k] = m  BY <1>5, <2>1
  <2>3. k \in S  BY <1>5, <1>6, <2>1, <2>2
  <2> QED BY <1>7, <2>2, <2>3
<1>10. f \in Bijection(S, T)  BY <1>7, <1>8, <1>9 DEF Bijection, Injection, Surjection, IsInjective
<1>11. Cardinality(T) = Cardinality(S)  BY <1>3, <1>10, FS_Bijection DEF ExistsBijection
<1> QED BY <1>11 DEF S, T

----------------------------------------------------------------------------
(* Kinds by position.                                                      *)

Places == 1 .. 4

Reads(p, w) ==
  CASE p = 1 -> ParseArch(w) [] p = 2 -> ParseVendor(w)
    [] p = 3 -> ParseOS(w)   [] p = 4 -> ParseEnvironment(w)
Unknown(p) ==
  CASE p = 1 -> "UnknownArch" [] p = 2 -> "UnknownVendor"
    [] p = 3 -> "UnknownOS"   [] p = 4 -> "UnknownEnvironment"
Kind(k, p) ==
  CASE p = 1 -> k.arch [] p = 2 -> k.vendor [] p = 3 -> k.os [] p = 4 -> k.env

IsKinds(k) ==
  k = [arch |-> k.arch, vendor |-> k.vendor, os |-> k.os, env |-> k.env, format |-> k.format,
       cygwin |-> k.cygwin, mingw |-> k.mingw]

LEMMA BlankRead ==
  \A p \in Places : Reads(p, Blank) = Unknown(p) /\ ~Valid(p, Blank)
<1>1. ParseArch(Blank) = "UnknownArch"
  BY DEF Blank, ParseArch, Alias, ARMWords, Arch, Arch16, Arch32, Arch64
<1>2. ParseVendor(Blank) = "UnknownVendor" /\ ParseOS(Blank) = "UnknownOS"
      /\ ParseEnvironment(Blank) = "UnknownEnvironment" /\ ParseFormat(Blank) = "UnknownObjectFormat"
  BY VendorsRead, SystemsRead, EnvironmentsRead DEF Blank
<1>3. ~IsCygwin(Blank) /\ ~IsMinGW(Blank)  BY DEF Blank, IsCygwin, IsMinGW
<1> QED BY <1>1, <1>2, <1>3 DEF Places, Reads, Unknown, Valid

LEMMA InvalidRead ==
  \A p \in Places : \A w : ~Valid(p, w) => Reads(p, w) = Unknown(p)
BY DEF Places, Reads, Unknown, Valid

LEMMA KindsFound ==
  ASSUME NEW words, NEW k, k = KindsInPlace(words)
  PROVE  /\ IsKinds(k)
         /\ \A p \in Places : Kind(k, p) = Reads(p, WordOf(words, p))
         /\ FoundInPlace(k) = {p \in Places : Kind(k, p) # Unknown(p)}
<1> DEFINE At(i) == IF i <= Len(words) THEN words[i] ELSE ""
<1>1. k = [arch |-> ParseArch(At(1)), vendor |-> ParseVendor(At(2)), os |-> ParseOS(At(3)),
           env |-> ParseEnvironment(At(4)), format |-> ParseFormat(At(5)),
           cygwin |-> IsCygwin(At(3)), mingw |-> IsMinGW(At(3))]
  BY Zenon DEF KindsInPlace
<1>2. \A i : At(i) = WordOf(words, i)
  <2> SUFFICES ASSUME NEW i  PROVE At(i) = WordOf(words, i)  OBVIOUS
  <2>1. i <= Len(words) <=> Len(words) >= i  OBVIOUS
  <2> QED BY Zenon, <2>1 DEF WordOf
<1> HIDE DEF At
<1>3. IsKinds(k)  BY <1>1 DEF IsKinds
<1>4. /\ k.arch = ParseArch(WordOf(words, 1)) /\ k.vendor = ParseVendor(WordOf(words, 2))
      /\ k.os = ParseOS(WordOf(words, 3)) /\ k.env = ParseEnvironment(WordOf(words, 4))
  BY <1>1, <1>2
<1>5. \A p \in Places : Kind(k, p) = Reads(p, WordOf(words, p))
  BY <1>4 DEF Places, Kind, Reads
<1>6. FoundInPlace(k) = {p \in Places : Kind(k, p) # Unknown(p)}
  BY DEF FoundInPlace, Places, Kind, Unknown
<1> QED BY <1>3, <1>5, <1>6

LEMMA KindsTried ==
  ASSUME IsKinds(kinds), pos \in Places, NEW last, NEW others, NEW k, k = KindsAfter(last, others)
  PROVE  /\ IsKinds(k)
         /\ Kind(k, pos) = Reads(pos, components[last])
         /\ \A p \in Places : p # pos => Kind(k, p) = Kind(kinds, p)
<1>1. CASE pos = 1
  <2> DEFINE x == ParseArch(components[last])
  <2>1. k = [kinds EXCEPT !.arch = x]  BY <1>1 DEF KindsAfter
  <2>2. Reads(pos, components[last]) = x  BY <1>1 DEF Reads
  <2> HIDE DEF x
  <2> QED BY <1>1, <2>1, <2>2 DEF IsKinds, Kind, Places
<1>2. CASE pos = 2
  <2> DEFINE x == ParseVendor(components[last])
  <2>1. k = [kinds EXCEPT !.vendor = x]  BY <1>2 DEF KindsAfter
  <2>2. Reads(pos, components[last]) = x  BY <1>2 DEF Reads
  <2> HIDE DEF x
  <2> QED BY <1>2, <2>1, <2>2 DEF IsKinds, Kind, Places
<1>3. CASE pos = 3
  <2> DEFINE x == ParseOS(components[last])
             y == IsCygwin(components[last])
             z == IsMinGW(components[last])
  <2>1. k = [kinds EXCEPT !.os = x, !.cygwin = y, !.mingw = z]  BY <1>3 DEF KindsAfter
  <2>2. Reads(pos, components[last]) = x  BY <1>3 DEF Reads
  <2> HIDE DEF x, y, z
  <2>3. k = [arch |-> kinds.arch, vendor |-> kinds.vendor, os |-> x, env |-> kinds.env,
             format |-> kinds.format, cygwin |-> y, mingw |-> z]
    BY <2>1 DEF IsKinds
  <2>4. IsKinds(k) /\ k.os = x /\ k.arch = kinds.arch /\ k.vendor = kinds.vendor /\ k.env = kinds.env
    BY <2>3 DEF IsKinds
  <2> QED BY <1>3, <2>2, <2>4 DEF Kind, Places
<1>4. CASE pos = 4
  <2> DEFINE x == ParseEnvironment(components[last])
             y == IF x = "UnknownEnvironment" THEN ParseFormat(components[last])
                  ELSE IF others = {} THEN kinds.format ELSE "UnknownObjectFormat"
  <2>1. k = [kinds EXCEPT !.env = x, !.format = y]  BY <1>4 DEF KindsAfter
  <2>2. Reads(pos, components[last]) = x  BY <1>4 DEF Reads
  <2> HIDE DEF x, y
  <2>3. k = [arch |-> kinds.arch, vendor |-> kinds.vendor, os |-> kinds.os, env |-> x,
             format |-> y, cygwin |-> kinds.cygwin, mingw |-> kinds.mingw]
    BY <2>1 DEF IsKinds
  <2>4. IsKinds(k) /\ k.env = x /\ k.arch = kinds.arch /\ k.vendor = kinds.vendor /\ k.os = kinds.os
    BY <2>3 DEF IsKinds
  <2> QED BY <1>4, <2>2, <2>4 DEF Kind, Places
<1> QED BY <1>1, <1>2, <1>3, <1>4 DEF Places

----------------------------------------------------------------------------
(* The invariant of the search.                                            *)

FreePlaces == {k \in 1 .. Len(components) : k \notin found}

\* Final components have the kinds that were found, and those there from the start
\* are those of the input; for the others nothing was found, and of those that were
\* sought no component is left.
SearchIs ==
  /\ IsKinds(kinds) /\ found \subseteq Places /\ SameWords(input, components)
  /\ \A p \in found : p \in 1 .. Len(components) /\ Kind(kinds, p) = Reads(p, components[p])
  /\ \A p \in Places \ found : (stage = "move" /\ p = pos) \/ Kind(kinds, p) = Unknown(p)
  /\ \A p \in Places \ found : p < pos => \A k \in FreePlaces : ~Valid(p, components[k])
  /\ \A p \in Places : Reads(p, WordOf(input, p)) # Unknown(p) =>
       p \in found /\ components[p] = input[p]

MoveIs ==
  /\ pos \notin found /\ idx \in FreePlaces /\ components[idx] = comp /\ comp # Blank
  /\ Kind(kinds, pos) = Reads(pos, comp)

NormInv ==
  /\ IsWords(input) /\ IsWords(components)
  /\ stage \in {"find", "move", "settle", "done", "returned"}
  /\ stage # "returned" => Len(input) >= 1 /\ Len(components) >= 1
  /\ stage \in {"find", "move"} => pos \in Places
  /\ stage = "settle" => pos = 5
  /\ stage \in {"find", "move", "settle"} => SearchIs
  /\ stage = "move" => MoveIs
  /\ stage = "returned" => input = components

Start ==
  /\ IsWords(components) /\ Len(components) >= 1 /\ input = components
  /\ kinds = KindsInPlace(input) /\ found = FoundInPlace(kinds)
  /\ pos = 1 /\ stage = "find"

LEMMA Started == Start => NormInv
<1> SUFFICES ASSUME Start  PROVE NormInv  OBVIOUS
<1> USE DEF Start
<1>1. /\ IsKinds(kinds)
      /\ \A p \in Places : Kind(kinds, p) = Reads(p, WordOf(input, p))
      /\ found = {p \in Places : Kind(kinds, p) # Unknown(p)}
  BY KindsFound
<1>2. \A p \in found : p \in 1 .. Len(components) /\ WordOf(input, p) = components[p]
  <2> SUFFICES ASSUME NEW p \in found  PROVE p \in 1 .. Len(components) /\ WordOf(input, p) = components[p]
    OBVIOUS
  <2> DEFINE n == Len(components)
  <2>1. Reads(p, WordOf(input, p)) # Unknown(p) /\ p \in Places  BY <1>1
  <2>2. WordOf(input, p) # Blank  BY <2>1, BlankRead
  <2>3. n >= p
    <3>1. ~(n >= p) => WordOf(input, p) = ""  BY Zenon DEF WordOf
    <3> QED BY <2>2, <3>1 DEF Blank
  <2>4. WordOf(input, p) = components[p]  BY <2>3 DEF WordOf
  <2>5. n \in Nat /\ p \in 1 .. 4  BY <2>1 DEF IsWords, Places
  <2> HIDE DEF n
  <2>6. p \in 1 .. n  BY <2>3, <2>5
  <2> QED BY <2>4, <2>6 DEF n
<1>3. SearchIs
  <2>1. SameWords(input, components)  BY SameAsItself
  <2>2. \A p \in Places : ~(p < pos)  BY DEF Places
  <2>3. found \subseteq Places  BY <1>1
  <2>4. \A p \in found : p \in 1 .. Len(components) /\ Kind(kinds, p) = Reads(p, components[p])
    BY <1>1, <1>2
  <2>5. \A p \in Places \ found : Kind(kinds, p) = Unknown(p)  BY <1>1
  <2>6. \A p \in Places : Reads(p, WordOf(input, p)) # Unknown(p) => p \in found  BY <1>1
  <2> HIDE DEF Start
  <2>7. input = components  BY DEF Start
  <2> QED BY <1>1, <2>1, <2>2, <2>3, <2>4, <2>5, <2>6, <2>7 DEF SearchIs
<1> QED BY <1>3 DEF NormInv, Places

LEMMA SoughtInVain ==
  ASSUME NormInv, NoComponent
  PROVE  NormInv'
<1>1. /\ stage = "find" /\ pos \notin found /\ Candidates = {}
      /\ pos' = pos + 1 /\ stage' = IF pos = 4 THEN "settle" ELSE "find"
      /\ UNCHANGED <<input, components, found>>
  BY DEF NoComponent, Advance
<1>2. SearchIs /\ pos \in Places  BY <1>1 DEF NormInv
<1>3. \A k \in FreePlaces : ~Valid(pos, components[k])
  BY <1>1 DEF Candidates, Free, FreePlaces
<1>4. /\ IsKinds(kinds') /\ Kind(kinds', pos) = Unknown(pos)
      /\ \A p \in Places : p # pos => Kind(kinds', p) = Kind(kinds, p)
  <2> DEFINE free == Free(components, 1)
             last == Max(free)
  <2>1. free = FreePlaces  BY DEF Free, FreePlaces
  <2>2. kinds' = IF free = {} THEN kinds ELSE KindsAfter(last, free \ {last})
    BY DEF NoComponent
  <2>3. CASE free = {}
    BY <1>1, <1>2, <2>2, <2>3 DEF SearchIs
  <2>4. CASE free # {}
    <3>1. last \in FreePlaces
      <4> DEFINE n == Len(components)
      <4>1. n \in Nat /\ free \subseteq Nat /\ \A m \in free : m <= n
        BY <2>1 DEF FreePlaces, NormInv, IsWords
      <4> HIDE DEF free, n
      <4>2. Max(free) \in free  BY <2>4, <4>1, Greatest
      <4> QED BY <2>1, <4>2
    <3>2. kinds' = KindsAfter(last, free \ {last})  BY <2>2, <2>4
    <3> HIDE DEF free, last
    <3>3. /\ IsKinds(kinds') /\ Kind(kinds', pos) = Reads(pos, components[last])
          /\ \A p \in Places : p # pos => Kind(kinds', p) = Kind(kinds, p)
      BY <1>2, <3>2, KindsTried DEF SearchIs
    <3> QED BY <1>2, <1>3, <3>1, <3>3, InvalidRead
  <2> QED BY <2>3, <2>4
<1>5. SearchIs'
  <2>1. FreePlaces' = FreePlaces  BY <1>1 DEF FreePlaces
  <2>2. \A p \in found : p # pos /\ p \in Places  BY <1>1, <1>2 DEF SearchIs
  <2>3. (\A p \in found : p \in 1 .. Len(components) /\ Kind(kinds, p) = Reads(p, components[p]))'
    BY <1>1, <1>2, <1>4, <2>2 DEF SearchIs
  <2>4. (\A p \in Places \ found : Kind(kinds, p) = Unknown(p))'
    BY <1>1, <1>2, <1>4 DEF SearchIs
  <2>5. \A p \in Places : p < pos' => p < pos \/ p = pos
    BY <1>1, <1>2 DEF Places
  <2>6. (\A p \in Places \ found : p < pos => \A k \in FreePlaces : ~Valid(p, components[k]))'
    <3> SUFFICES ASSUME NEW p \in Places \ found, p < pos', NEW k \in FreePlaces
                 PROVE  ~Valid(p, components[k])
      BY <1>1, <2>1 DEF Valid, IsCygwin, IsMinGW
    <3> QED BY <1>2, <1>3, <2>5 DEF SearchIs
  <2> QED BY <1>1, <1>2, <1>4, <2>3, <2>4, <2>6 DEF SearchIs
<1>6. (pos' \in Places /\ stage' = "find") \/ (pos' = 5 /\ stage' = "settle")
  BY <1>1, <1>2 DEF Places
<1> QED BY <1>1, <1>5, <1>6 DEF NormInv

LEMMA WasFound ==
  ASSUME NormInv, AlreadyFound
  PROVE  NormInv'
<1>1. /\ stage = "find" /\ pos \in found
      /\ pos' = pos + 1 /\ stage' = IF pos = 4 THEN "settle" ELSE "find"
      /\ UNCHANGED <<input, components, found, kinds>>
  BY DEF AlreadyFound, Advance
<1>2. SearchIs /\ pos \in Places  BY <1>1 DEF NormInv
<1>3. SearchIs'
  <2>1. FreePlaces' = FreePlaces  BY <1>1 DEF FreePlaces
  <2>5. \A p \in Places : p < pos' => p < pos \/ p = pos
    BY <1>1, <1>2 DEF Places
  <2>6. (\A p \in Places \ found : p < pos => \A k \in FreePlaces : ~Valid(p, components[k]))'
    <3> SUFFICES ASSUME NEW p \in Places \ found, p < pos', NEW k \in FreePlaces
                 PROVE  ~Valid(p, components[k])
      BY <1>1, <2>1 DEF Valid, IsCygwin, IsMinGW
    <3> QED BY <1>1, <1>2, <2>5 DEF SearchIs
  <2> QED BY <1>1, <1>2, <2>6 DEF SearchIs
<1>6. (pos' \in Places /\ stage' = "find") \/ (pos' = 5 /\ stage' = "settle")
  BY <1>1, <1>2 DEF Places
<1> QED BY <1>1, <1>3, <1>6 DEF NormInv

LEMMA WasCandidate ==
  ASSUME NormInv, FindComponent
  PROVE  NormInv'
<1>1. /\ stage = "find" /\ pos \notin found /\ Candidates # {}
      /\ idx' = Min(Candidates) /\ comp' = components[idx'] /\ stage' = "move"
      /\ UNCHANGED <<input, components, found, pos>>
  BY DEF FindComponent
<1>2. SearchIs /\ pos \in Places  BY <1>1 DEF NormInv
<1>3. idx' \in FreePlaces /\ Valid(pos, comp')
  <2> DEFINE T == Candidates
  <2>1. T \subseteq Nat  BY DEF Candidates, Free
  <2> HIDE DEF T
  <2>2. Min(T) \in T  BY <1>1, <2>1, Least DEF T
  <2> QED BY <1>1, <2>2 DEF T, Candidates, Free, FreePlaces
<1>4. comp' # Blank  BY <1>2, <1>3, BlankRead
<1>5. /\ IsKinds(kinds') /\ Kind(kinds', pos) = Reads(pos, comp')
      /\ \A p \in Places : p # pos => Kind(kinds', p) = Kind(kinds, p)
  <2>1. PICK others : kinds' = KindsAfter(idx', others)  BY DEF FindComponent
  <2> DEFINE last == idx'
  <2> HIDE DEF last
  <2>2. kinds' = KindsAfter(last, others)  BY <2>1 DEF last
  <2>3. /\ IsKinds(kinds') /\ Kind(kinds', pos) = Reads(pos, components[last])
        /\ \A p \in Places : p # pos => Kind(kinds', p) = Kind(kinds, p)
    BY <1>2, <2>2, KindsTried DEF SearchIs
  <2> QED BY <1>1, <2>3 DEF last
<1>6. SearchIs'
  <2>1. FreePlaces' = FreePlaces  BY <1>1 DEF FreePlaces
  <2>2. \A p \in found : p # pos /\ p \in Places  BY <1>1, <1>2 DEF SearchIs
  <2>3. (\A p \in found : p \in 1 .. Len(components) /\ Kind(kinds, p) = Reads(p, components[p]))'
    BY <1>1, <1>2, <1>5, <2>2 DEF SearchIs
  <2>4. (\A p \in Places \ found : (stage = "move" /\ p = pos) \/ Kind(kinds, p) = Unknown(p))'
    BY <1>1, <1>2, <1>5 DEF SearchIs
  <2>6. (\A p \in Places \ found : p < pos => \A k \in FreePlaces : ~Valid(p, components[k]))'
    <3> SUFFICES ASSUME NEW p \in Places \ found, p < pos, NEW k \in FreePlaces
                 PROVE  ~Valid(p, components[k])
      BY <1>1, <2>1 DEF Valid, IsCygwin, IsMinGW
    <3> QED BY <1>2 DEF SearchIs
  <2> QED BY <1>1, <1>2, <1>5, <2>3, <2>4, <2>6 DEF SearchIs
<1>7. MoveIs'
  <2>1. FreePlaces' = FreePlaces  BY <1>1 DEF FreePlaces
  <2> QED BY <1>1, <1>3, <1>4, <1>5, <2>1 DEF MoveIs
<1> QED BY <1>1, <1>2, <1>6, <1>7 DEF NormInv

\* What a move leaves of the invariant.
LEMMA MoveKeeps ==
  ASSUME NormInv, stage = "move", UNCHANGED <<input, found, pos, comp, kinds, stage>>,
         IsWords(components'), Len(components') >= Len(components),
         \A k \in 1 .. Len(components) : k \in found => components'[k] = components[k],
         \A m \in 1 .. Len(components') : m \notin found =>
           components'[m] = Blank \/ \E k \in FreePlaces : components'[m] = components[k],
         SameWords(components, components'),
         idx' \in 1 .. Len(components'), idx' \notin found, components'[idx'] = comp
  PROVE  NormInv'
<1>1. SearchIs /\ MoveIs /\ pos \in Places  BY DEF NormInv
<1>2. Len(components) \in Nat /\ Len(components') \in Nat  BY DEF NormInv, IsWords
<1>3. SearchIs'
  <2>1. \A p \in found : p \in Places /\ p \in 1 .. Len(components) /\ p \in 1 .. Len(components')
                         /\ components'[p] = components[p]
    <3> DEFINE m == Len(components)
               n == Len(components')
    <3>1. m \in Nat /\ n \in Nat /\ n >= m  BY <1>2
    <3>2. \A p \in found : p \in Places /\ p \in 1 .. m /\ components'[p] = components[p]
      BY <1>1 DEF SearchIs
    <3> HIDE DEF m, n
    <3>3. \A p \in 1 .. m : p \in 1 .. n  BY <3>1
    <3>4. \A p \in found : p \in Places /\ p \in 1 .. m /\ p \in 1 .. n /\ components'[p] = components[p]
      BY <3>2, <3>3
    <3> QED BY <3>4 DEF m, n
  <2>2. \A p \in found' : p \in 1 .. Len(components') /\ Kind(kinds', p) = Reads(p, components'[p])
    BY <1>1, <2>1 DEF SearchIs
  <2>3. \A p \in Places \ found' : (stage' = "move" /\ p = pos') \/ Kind(kinds', p) = Unknown(p)
    BY <1>1 DEF SearchIs
  <2>4. ASSUME NEW p \in Places \ found, p < pos, NEW m \in FreePlaces'
        PROVE  ~Valid(p, components'[m])
    <3>1. m \in 1 .. Len(components') /\ m \notin found  BY <2>4 DEF FreePlaces
    <3>2. components'[m] = Blank \/ \E k \in FreePlaces : components'[m] = components[k]  BY <3>1
    <3>3. \A k \in FreePlaces : ~Valid(p, components[k])  BY <1>1, <2>4 DEF SearchIs
    <3> QED BY <3>2, <3>3, BlankRead
  <2>5. (\A p \in Places \ found : p < pos => \A k \in FreePlaces : ~Valid(p, components[k]))'
    BY <2>4 DEF Valid, IsCygwin, IsMinGW
  <2>6. SameWords(input', components')  BY <1>1, SameAsThird DEF SearchIs
  <2>7. (\A p \in Places : Reads(p, WordOf(input, p)) # Unknown(p) => p \in found /\ components[p] = input[p])'
    BY <1>1, <2>1 DEF SearchIs
  <2> QED BY <1>1, <2>2, <2>3, <2>5, <2>6, <2>7 DEF SearchIs
<1>4. MoveIs'
  <2>1. idx' \in FreePlaces'  BY DEF FreePlaces
  <2> QED BY <1>1, <2>1 DEF MoveIs
<1>5. Len(components') >= 1
  <2> DEFINE m == Len(components)
             n == Len(components')
  <2>1. m \in Nat /\ n \in Nat /\ n >= m /\ m >= 1  BY <1>2 DEF NormInv
  <2> HIDE DEF m, n
  <2>2. n >= 1  BY <2>1
  <2> QED BY <2>2 DEF n
<1> QED BY <1>1, <1>3, <1>4, <1>5 DEF NormInv

LEMMA MoveLeftStep ==
  ASSUME NormInv, MoveLeft
  PROVE  NormInv'
<1> DEFINE n == Len(components)
           e == components'
           c == [components EXCEPT ![idx] = Blank]
<1>1. /\ stage = "move" /\ pos < idx
      /\ UNCHANGED <<input, found, pos, comp, kinds, stage>> /\ idx' = pos
      /\ e = Insert([components EXCEPT ![idx] = Blank], pos, comp)
  BY Zenon DEF MoveLeft, Blank
<1>2. SearchIs /\ MoveIs /\ pos \in 1 .. 4  BY <1>1 DEF NormInv, Places
<1>3. n \in Nat /\ DOMAIN components = 1 .. n /\ idx \in 1 .. n /\ idx \notin found
  BY <1>2, LenProperties DEF NormInv, IsWords, MoveIs, FreePlaces
<1>4. IsWords(c) /\ Len(c) = n /\ \A k \in 1 .. n : c[k] = IF k = idx THEN Blank ELSE components[k]
  <2>1. DOMAIN c = 1 .. n /\ c = [k \in 1 .. n |-> c[k]]  BY <1>3
  <2>2. \A k \in 1 .. n : c[k] = IF k = idx THEN Blank ELSE components[k]  BY <1>3
  <2> HIDE DEF c, n
  <2> QED BY <1>3, <2>1, <2>2, FunctionWords
<1>5. e = Insert(c, pos, comp)  BY <1>1
<1> HIDE DEF n, e, c
<1>6. pos \in 1 .. n /\ pos \notin found /\ \A k \in found : k <= n
  <2>1. pos \in 1 .. n  BY <1>1, <1>2, <1>3
  <2>2. \A k \in found : k \in 1 .. n  BY <1>2 DEF SearchIs, n
  <2> QED BY <1>2, <1>3, <2>1, <2>2 DEF MoveIs
<1>7. IsInserted(c, e, pos, comp)  BY <1>3, <1>4, <1>5, <1>6, Inserted
<1>8. PICK f : IsShift(f, c, e, pos)
  <2>1. \E f : IsShift(f, c, e, pos)
               /\ (c[pos] # Blank => f[pos] = NextFree(n, pos) /\ f[pos] \notin found)
    BY <1>3, <1>4, <1>5, <1>6, Inserted
  <2> QED BY <2>1
<1>9. /\ IsWords(e) /\ Len(e) \in Nat /\ Len(e) >= n /\ e[pos] = comp
      /\ \A k \in 1 .. n : k \in found => e[k] = c[k]
      /\ \A m \in 1 .. Len(e) : m \notin found /\ m # pos =>
           \E k \in 1 .. n : k \notin found /\ e[m] = c[k]
  BY <1>4, <1>7 DEF IsInserted
<1>10. \A k \in 1 .. n : k \in found => e[k] = components[k]  BY <1>3, <1>4, <1>9
<1>11. pos \in 1 .. Len(e)
  <2> DEFINE l == Len(e)
  <2>1. l \in Nat /\ l >= n  BY <1>9
  <2> HIDE DEF l
  <2>2. pos \in 1 .. l  BY <1>3, <1>6, <2>1
  <2> QED BY <2>2 DEF l
<1>12. comp = components[idx] /\ comp # Blank /\ idx \in FreePlaces  BY <1>2 DEF MoveIs
<1>13. ASSUME NEW m \in 1 .. Len(e), m \notin found
       PROVE  e[m] = Blank \/ \E k \in FreePlaces : e[m] = components[k]
  <2>1. CASE m = pos  BY <1>9, <1>12, <2>1
  <2>2. CASE m # pos
    <3>1. PICK k \in 1 .. n : k \notin found /\ e[m] = c[k]  BY <1>9, <1>13, <2>2
    <3>2. k \in FreePlaces  BY <3>1 DEF FreePlaces, n
    <3> QED BY <1>4, <3>1, <3>2
  <2> QED BY <2>1, <2>2
<1>14. SameWords(components, e)
  <2>1. /\ idx \in 1 .. Len(components) /\ components[idx] # Blank /\ Len(c) = Len(components)
        /\ \A k \in 1 .. Len(components) : c[k] = (IF k = idx THEN Blank ELSE components[k])
        /\ e[pos] = components[idx]
    BY <1>3, <1>4, <1>9, <1>12 DEF n
  <2> QED BY <1>8, <1>11, <2>1, MovedLeft
<1> QED BY <1>1, <1>6, <1>9, <1>10, <1>11, <1>13, <1>14, MoveKeeps DEF n, e

LEMMA PushRightStep ==
  ASSUME NormInv, PushRight
  PROVE  NormInv'
<1> DEFINE n == Len(components)
           e == components'
<1>1. /\ stage = "move" /\ idx < pos
      /\ UNCHANGED <<input, found, pos, comp, kinds, stage>>
      /\ e = Insert(components, idx, Blank) /\ idx' = NextFree(n, idx)
  BY Zenon DEF PushRight, Blank, NextFree
<1>2. SearchIs /\ MoveIs /\ pos \in 1 .. 4  BY <1>1 DEF NormInv, Places
<1>3. n \in Nat /\ idx \in 1 .. n /\ idx \notin found
  BY <1>2 DEF NormInv, IsWords, MoveIs, FreePlaces
<1> HIDE DEF n, e
<1>6. \A k \in found : k <= n
  <2>2. \A k \in found : k \in 1 .. n  BY <1>2 DEF SearchIs, n
  <2> QED BY <2>2
<1>7. IsInserted(components, e, idx, Blank)  BY <1>1, <1>3, <1>6, Inserted DEF n
<1>8. PICK f : /\ IsShift(f, components, e, idx)
               /\ components[idx] # Blank => f[idx] = NextFree(n, idx) /\ f[idx] \notin found
  BY <1>1, <1>3, <1>6, Inserted DEF n
<1>9. /\ IsWords(e) /\ Len(e) \in Nat /\ Len(e) >= n /\ e[idx] = Blank
      /\ \A k \in 1 .. n : k \in found => e[k] = components[k]
      /\ \A m \in 1 .. Len(e) : m \notin found /\ m # idx =>
           \E k \in 1 .. n : k \notin found /\ e[m] = components[k]
  BY <1>7 DEF IsInserted, n
<1>12. comp = components[idx] /\ comp # Blank  BY <1>2 DEF MoveIs
<1>13. ASSUME NEW m \in 1 .. Len(e), m \notin found
       PROVE  e[m] = Blank \/ \E k \in FreePlaces : e[m] = components[k]
  <2>1. CASE m = idx  BY <1>9, <2>1
  <2>2. CASE m # idx
    <3>1. PICK k \in 1 .. n : k \notin found /\ e[m] = components[k]  BY <1>9, <1>13, <2>2
    <3>2. k \in FreePlaces  BY <3>1 DEF FreePlaces, n
    <3> QED BY <3>1, <3>2
  <2> QED BY <2>1, <2>2
<1>14. SameWords(components, e)  BY <1>8, <1>9, PushedRight
<1>15. idx' \in 1 .. Len(e) /\ idx' \notin found /\ e[idx'] = comp
  <2>1. f[idx] \in 1 .. Len(e) /\ e[f[idx]] = components[idx]
    BY <1>3, <1>8, <1>12 DEF IsShift, n
  <2>2. idx' = f[idx] /\ f[idx] \notin found  BY <1>1, <1>8, <1>12
  <2> QED BY <1>12, <2>1, <2>2
<1> QED BY <1>1, <1>9, <1>13, <1>14, <1>15, MoveKeeps DEF n, e

LEMMA FixStep ==
  ASSUME NormInv, Fix
  PROVE  NormInv'
<1>1. /\ stage = "move" /\ idx = pos /\ found' = found \cup {pos}
      /\ pos' = pos + 1 /\ stage' = IF pos = 4 THEN "settle" ELSE "find"
      /\ UNCHANGED <<input, components, kinds>>
  BY DEF Fix, Advance
<1>2. SearchIs /\ MoveIs /\ pos \in Places  BY <1>1 DEF NormInv
<1>3. FreePlaces' \subseteq FreePlaces  BY <1>1 DEF FreePlaces
<1>4. pos \in 1 .. Len(components) /\ Kind(kinds, pos) = Reads(pos, components[pos])
  BY <1>1, <1>2 DEF MoveIs, FreePlaces
<1>5. \A p \in Places : p < pos' => p < pos \/ p = pos
  BY <1>1, <1>2 DEF Places
<1>6. SearchIs'
  <2>1. \A p \in found' : p \in 1 .. Len(components') /\ Kind(kinds', p) = Reads(p, components'[p])
    BY <1>1, <1>2, <1>4 DEF SearchIs
  <2>2. \A p \in Places \ found' : Kind(kinds', p) = Unknown(p)
    BY <1>1, <1>2 DEF SearchIs
  <2>3. ASSUME NEW p \in Places \ found', p < pos', NEW k \in FreePlaces'
        PROVE  ~Valid(p, components'[k])
    BY <1>1, <1>2, <1>3, <1>5, <2>3 DEF SearchIs
  <2>4. (\A p \in Places \ found : p < pos => \A k \in FreePlaces : ~Valid(p, components[k]))'
    BY <2>3 DEF Valid, IsCygwin, IsMinGW
  <2> QED BY <1>1, <1>2, <2>1, <2>2, <2>4 DEF SearchIs
<1>7. (pos' \in Places /\ stage' = "find") \/ (pos' = 5 /\ stage' = "settle")
  BY <1>1, <1>2 DEF Places
<1> QED BY <1>1, <1>6, <1>7 DEF NormInv

LEMMA AppendWords ==
  ASSUME NEW s, IsWords(s), NEW w, NEW e, e = Append(s, w)
  PROVE  IsWords(e) /\ Len(e) = Len(s) + 1 /\ e[Len(s) + 1] = w
         /\ \A k \in 1 .. Len(s) : e[k] = s[k]
<1> DEFINE A == {s[k] : k \in 1 .. Len(s)}
           S == A \cup {w}
           n == Len(s)
<1>1. s \in Seq(A) /\ A \subseteq S /\ w \in S /\ n \in Nat  BY DEF IsWords
<1> HIDE DEF A, S
<1>2. s \in Seq(S)  BY <1>1, SeqMonotonic
<1>3. /\ e \in Seq(S) /\ Len(e) = n + 1
      /\ \A k \in 1 .. n : e[k] = s[k] /\ e[n + 1] = w
      /\ e[n + 1] = w
  BY <1>1, <1>2, AppendProperties
<1> QED BY <1>3, WordsFrom

\* The special cases: the words that are renamed, or the four of Windows and a format.
IsSettled(words, four) ==
  /\ IsWords(words) /\ Len(words) = Len(components)
  /\ IsWords(four) /\ Len(four) = 4
  /\ \/ ~Windows /\ components' = words
     \/ Windows /\ ~NamesFormat /\ components' = four
     \/ Windows /\ NamesFormat /\ components' = Append(four, ObjectFormatTypeName[kinds.format])

Four == [Resize(Renamed(components), 4) EXCEPT ![3] = "windows", ![4] = WindowsEnvironment(@)]

LEMMA Settled ==
  ASSUME IsWords(components), Settle
  PROVE  IsSettled(Renamed(components), Four)
<1> DEFINE n == Len(components)
           words == Renamed(components)
           four == Four
<1>1. n \in Nat /\ DOMAIN components = 1 .. n  BY LenProperties DEF IsWords
<1>2. IsWords(words) /\ Len(words) = n
  <2>1. DOMAIN words = DOMAIN components /\ words = [k \in DOMAIN components |-> words[k]]
    <3> DEFINE word(k) ==
          CASE k = 4 /\ components[k] \in DOMAIN OldAndroid /\ kinds.env = "Android"
                 -> OldAndroid[components[k]]
            [] k = 4 /\ kinds.vendor = "SUSE" /\ kinds.env = "GNUEABI" -> "gnueabihf"
            [] components[k] = "" -> "unknown"
            [] OTHER -> components[k]
    <3>1. words = [k \in DOMAIN components |-> word(k)]  BY Zenon DEF Renamed
    <3> HIDE DEF word, words
    <3> QED BY <3>1
  <2> HIDE DEF words, n
  <2> QED BY <1>1, <2>1, FunctionWords
<1>3. IsWords(four) /\ Len(four) = 4
  <2> DEFINE r == Resize(words, 4)
  <2>1. DOMAIN r = 1 .. 4  BY Zenon DEF Resize
  <2> DEFINE x == "windows"
             y == WindowsEnvironment(r[4])
  <2>2. four = [r EXCEPT ![3] = x, ![4] = y]
    <3>1. four = [r EXCEPT ![3] = x, ![4] = WindowsEnvironment(@)]  BY Zenon DEF Four
    <3> DEFINE W(z) == WindowsEnvironment(z)
    <3>2. four = [r EXCEPT ![3] = x, ![4] = W(@)]  BY Zenon, <3>1
    <3> HIDE DEF four, r, x, W
    <3>3. 4 \in DOMAIN r /\ 3 # 4  BY <2>1
    <3>4. four = [r EXCEPT ![3] = x, ![4] = W(r[4])]  BY <3>2, <3>3
    <3> QED BY <3>4 DEF W
  <2> HIDE DEF four, r, x, y
  <2>3. DOMAIN four = 1 .. 4 /\ four = [k \in 1 .. 4 |-> four[k]]  BY <2>1, <2>2
  <2> QED BY <2>3, FunctionWords
<1>4. components' = IF ~Windows THEN words
                    ELSE IF NamesFormat THEN Append(four, ObjectFormatTypeName[kinds.format])
                    ELSE four
  BY Zenon DEF Settle, Four
<1> HIDE DEF words, four
<1>5. \/ ~Windows /\ components' = words
      \/ Windows /\ ~NamesFormat /\ components' = four
      \/ Windows /\ NamesFormat /\ components' = Append(four, ObjectFormatTypeName[kinds.format])
  BY <1>4
<1> QED BY <1>2, <1>3, <1>5 DEF IsSettled, words, four

LEMMA SettleStep ==
  ASSUME NormInv, Settle
  PROVE  NormInv'
<1>1. stage' = "done" /\ input' = input  BY DEF Settle
<1>2. IsSettled(Renamed(components), Four)  BY Settled DEF NormInv
<1>3. IsWords(components')  BY <1>2, AppendWords DEF IsSettled
<1>4. Len(components') >= 1
  <2>1. stage = "settle" /\ Len(components) >= 1  BY DEF NormInv, Settle
  <2> QED BY <1>2, <2>1, AppendWords DEF IsSettled
<1>5. stage # "returned" /\ Len(input) >= 1  BY DEF NormInv, Settle
<1> QED BY <1>1, <1>3, <1>4, <1>5 DEF NormInv

LEMMA NormStep ==
  ASSUME NormInv, NNext
  PROVE  NormInv'
<1>1. CASE Again
  <2>1. Start'
    BY <1>1 DEF Again, Start, NormInv
  <2>2. (Start => NormInv)'  BY Started, PTL
  <2> QED BY <2>1, <2>2
<1>2. CASE Finished
  BY <1>2 DEF Finished, nvars, NormInv, SearchIs, MoveIs, FreePlaces, Valid, IsCygwin, IsMinGW
<1> QED BY <1>1, <1>2, WasFound, SoughtInVain, WasCandidate, MoveLeftStep, PushRightStep, FixStep,
           SettleStep DEF NNext

LEMMA NormInvariant == USpec => []NormInv
<1>1. ASSUME UInit  PROVE NormInv
  <2>1. input \in Inputs /\ components = input  BY <1>1 DEF UInit, NInit
  <2>2. IsWords(input) /\ Len(input) >= 1
    <3> DEFINE S == STRING
    <3>1. input \in Seq(S) /\ input # <<>>  BY <2>1, InputsAssumption
    <3> HIDE DEF S
    <3>2. IsWords(input)  BY <3>1, WordsFrom
    <3>3. Len(input) \in Nat /\ Len(input) # 0  BY <3>1, EmptySeq, LenProperties
    <3> QED BY <3>2, <3>3
  <2>3. Start  BY <1>1, <2>1, <2>2 DEF UInit, NInit, Start
  <2> QED BY <2>3, Started
<1>2. ASSUME NormInv, [UNext]_uvars  PROVE NormInv'
  <2>1. CASE Normalize  BY <1>2, <2>1, NormStep DEF Normalize
  <2>2. CASE ConstructTriple
    <3>1. input' = <<>> /\ components' = <<>> /\ stage' = "returned"
      BY <2>2 DEF ConstructTriple
    <3>2. IsWords(<<>>)
      <4> DEFINE r == <<>>
      <4>1. r \in Seq({1})  OBVIOUS
      <4> HIDE DEF r
      <4>2. IsWords(r)  BY <4>1, WordsFrom
      <4> QED BY <4>2 DEF r
    <3> QED BY <3>1, <3>2 DEF NormInv
  <2>3. CASE UNCHANGED <<input, components, found, pos, comp, idx, kinds, stage, first>>
    BY <1>2, <2>3 DEF NormInv, SearchIs, MoveIs, FreePlaces, Valid, IsCygwin, IsMinGW
  <2>4. Normalize \/ ConstructTriple
          \/ UNCHANGED <<input, components, found, pos, comp, idx, kinds, stage, first>>
    BY <1>2 DEF UNext, ChangeTriple, AskForVariant, LinkModule, ChooseTarget, Ended, Constructed, uvars
  <2> QED BY <2>1, <2>2, <2>3, <2>4
<1> QED BY <1>1, <1>2, PTL DEF USpec

\* No word of the string given to normalize is lost or made up while its components
\* are moved, however many there are and wherever they stand.
THEOREM NothingLostUses == USpec => []NothingLost
<1>1. ASSUME NormInv  PROVE NothingLost
  <2> DEFINE w0 == ""
  <2>1. ASSUME stage # "done", NEW word, word # Blank
        PROVE  Cardinality({k \in DOMAIN input : input[k] = word})
                 = Cardinality({k \in DOMAIN components : components[k] = word})
    <3>1. IsWords(input) /\ IsWords(components)  BY <1>1 DEF NormInv
    <3>2. SameWords(input, components)
      <4>1. stage \in {"find", "move", "settle"} \/ input = components  BY <1>1, <2>1 DEF NormInv
      <4> QED BY <1>1, <4>1, SameAsItself DEF NormInv, SearchIs
    <3> QED BY <2>1, <3>1, <3>2, Counted
  <2> QED BY Zenon, <2>1 DEF NothingLost, Blank
<1> QED BY <1>1, NormInvariant, PTL

LEMMA KindsSettled ==
  ASSUME NormInv, stage = "settle"
  PROVE  \A p \in Places : Kind(kinds, p) = Reads(p, WordOf(components, p))
<1>1. SearchIs /\ pos = 5 /\ IsWords(components)  BY DEF NormInv
<1> SUFFICES ASSUME NEW p \in Places
             PROVE  Kind(kinds, p) = Reads(p, WordOf(components, p))
  OBVIOUS
<1> DEFINE n == Len(components)
<1>2. n \in Nat /\ p \in 1 .. 4  BY <1>1 DEF IsWords, Places
<1>3. n >= p => WordOf(components, p) = components[p]  BY DEF WordOf
<1>4. ~(n >= p) => WordOf(components, p) = Blank  BY Zenon DEF WordOf, Blank
<1>5. p \in found => n >= p /\ Kind(kinds, p) = Reads(p, components[p])
  <2> HAVE p \in found
  <2>1. p \in 1 .. n /\ Kind(kinds, p) = Reads(p, components[p])  BY <1>1 DEF SearchIs
  <2> HIDE DEF n
  <2> QED BY <1>2, <2>1
<1>6. p \notin found => Kind(kinds, p) = Unknown(p)  BY <1>1 DEF SearchIs
<1>7. p \notin found /\ n >= p => Reads(p, components[p]) = Unknown(p)
  <2> HAVE p \notin found /\ n >= p
  <2>1. p \in 1 .. n
    <3> HIDE DEF n
    <3> QED BY <1>2
  <2>2. p \in FreePlaces /\ p < pos  BY <1>1, <1>2, <2>1 DEF FreePlaces
  <2>3. ~Valid(p, components[p])  BY <1>1, <2>2 DEF SearchIs
  <2> QED BY <2>3, InvalidRead
<1> HIDE DEF n
<1> QED BY <1>3, <1>4, <1>5, <1>6, <1>7, BlankRead

\* When all positions have been sought, the kinds normalize goes by are those of the
\* components as they stand now.
THEOREM KindsCorrectUses == USpec => []KindsCorrect
<1>1. ASSUME NormInv  PROVE KindsCorrect
  <2> SUFFICES ASSUME stage = "settle"
               PROVE  LET k == KindsInPlace(components)
                      IN  kinds.arch = k.arch /\ kinds.vendor = k.vendor /\ kinds.os = k.os
                          /\ kinds.env = k.env
    BY DEF KindsCorrect
  <2> DEFINE k == KindsInPlace(components)
  <2>1. \A p \in Places : Kind(k, p) = Reads(p, WordOf(components, p))  BY KindsFound
  <2>2. \A p \in Places : Kind(kinds, p) = Kind(k, p)  BY <1>1, <2>1, KindsSettled
  <2> HIDE DEF k
  <2>3. Kind(kinds, 1) = Kind(k, 1) /\ Kind(kinds, 2) = Kind(k, 2)
        /\ Kind(kinds, 3) = Kind(k, 3) /\ Kind(kinds, 4) = Kind(k, 4)
    BY <2>2 DEF Places
  <2>4. kinds.arch = k.arch /\ kinds.vendor = k.vendor /\ kinds.os = k.os /\ kinds.env = k.env
    BY <2>3 DEF Kind
  <2> QED BY <2>4 DEF k
<1> QED BY <1>1, NormInvariant, PTL

----------------------------------------------------------------------------
(* The reading is kept.                                                    *)

\* Only the system's word is read for MinGW and Cygwin, which are no systems; the
\* format is one there is.
KindsFit(k) ==
  /\ k.mingw => k.os = "UnknownOS" /\ ~k.cygwin
  /\ k.cygwin => k.os = "UnknownOS"
  /\ k.format \in DOMAIN ObjectFormatTypeName

SystemRead(k, w) == k.os = ParseOS(w) /\ k.mingw = IsMinGW(w) /\ k.cygwin = IsCygwin(w)
SystemSame(k, l) == k.os = l.os /\ k.mingw = l.mingw /\ k.cygwin = l.cygwin

LEMMA SystemFits ==
  ASSUME NEW k, NEW w, SystemRead(k, w), k.format \in DOMAIN ObjectFormatTypeName
  PROVE  KindsFit(k)
<1>1. ~("mingw32" \in DOMAIN Systems) /\ ~("cygwin" \in DOMAIN Systems) /\ "mingw32" # "cygwin"
  BY DEF Systems, AppleWords
<1> QED BY <1>1 DEF SystemRead, KindsFit, ParseOS, Lookup, IsMinGW, IsCygwin

LEMMA KindsStart ==
  ASSUME NEW words, NEW k, k = KindsInPlace(words)
  PROVE  SystemRead(k, WordOf(words, 3)) /\ k.format = ParseFormat(WordOf(words, 5)) /\ KindsFit(k)
<1> DEFINE At(i) == IF i <= Len(words) THEN words[i] ELSE ""
<1>1. k = [arch |-> ParseArch(At(1)), vendor |-> ParseVendor(At(2)), os |-> ParseOS(At(3)),
           env |-> ParseEnvironment(At(4)), format |-> ParseFormat(At(5)),
           cygwin |-> IsCygwin(At(3)), mingw |-> IsMinGW(At(3))]
  BY Zenon DEF KindsInPlace
<1>2. \A i : At(i) = WordOf(words, i)
  <2> SUFFICES ASSUME NEW i  PROVE At(i) = WordOf(words, i)  OBVIOUS
  <2>1. i <= Len(words) <=> Len(words) >= i  OBVIOUS
  <2> QED BY Zenon, <2>1 DEF WordOf
<1> DEFINE y == IsCygwin(At(3))
           z == IsMinGW(At(3))
<1>3. k = [arch |-> ParseArch(At(1)), vendor |-> ParseVendor(At(2)), os |-> ParseOS(At(3)),
           env |-> ParseEnvironment(At(4)), format |-> ParseFormat(At(5)), cygwin |-> y, mingw |-> z]
  BY <1>1
<1> HIDE DEF At, y, z
<1>4. k.os = ParseOS(At(3)) /\ k.format = ParseFormat(At(5)) /\ k.mingw = z /\ k.cygwin = y  BY <1>3
<1>5. SystemRead(k, WordOf(words, 3)) /\ k.format = ParseFormat(WordOf(words, 5))
  BY <1>2, <1>4 DEF SystemRead, y, z
<1> QED BY <1>5, SystemFits, FormatsRead

\* What a search leaves of the system and the format.
LEMMA SystemTried ==
  ASSUME IsKinds(kinds), pos \in Places, NEW last, NEW others, NEW k, k = KindsAfter(last, others)
  PROVE  /\ pos = 3 => SystemRead(k, components[last])
         /\ pos # 3 => SystemSame(k, kinds)
         /\ pos # 4 => k.format = kinds.format
         /\ pos = 4 => k.format = IF ParseEnvironment(components[last]) = "UnknownEnvironment"
                                  THEN ParseFormat(components[last])
                                  ELSE IF others = {} THEN kinds.format ELSE "UnknownObjectFormat"
<1>1. CASE pos = 1
  <2> DEFINE x == ParseArch(components[last])
  <2>1. k = [kinds EXCEPT !.arch = x]  BY <1>1 DEF KindsAfter
  <2> HIDE DEF x
  <2>2. k = [arch |-> x, vendor |-> kinds.vendor, os |-> kinds.os, env |-> kinds.env,
             format |-> kinds.format, cygwin |-> kinds.cygwin, mingw |-> kinds.mingw]
    BY <2>1 DEF IsKinds
  <2> QED BY <1>1, <2>2 DEF SystemSame
<1>2. CASE pos = 2
  <2> DEFINE x == ParseVendor(components[last])
  <2>1. k = [kinds EXCEPT !.vendor = x]  BY <1>2 DEF KindsAfter
  <2> HIDE DEF x
  <2>2. k = [arch |-> kinds.arch, vendor |-> x, os |-> kinds.os, env |-> kinds.env,
             format |-> kinds.format, cygwin |-> kinds.cygwin, mingw |-> kinds.mingw]
    BY <2>1 DEF IsKinds
  <2> QED BY <1>2, <2>2 DEF SystemSame
<1>3. CASE pos = 3
  <2> DEFINE x == ParseOS(components[last])
             y == IsCygwin(components[last])
             z == IsMinGW(components[last])
  <2>1. k = [kinds EXCEPT !.os = x, !.cygwin = y, !.mingw = z]  BY <1>3 DEF KindsAfter
  <2> HIDE DEF x, y, z
  <2>2. k = [arch |-> kinds.arch, vendor |-> kinds.vendor, os |-> x, env |-> kinds.env,
             format |-> kinds.format, cygwin |-> y, mingw |-> z]
    BY <2>1 DEF IsKinds
  <2>3. k.os = x /\ k.format = kinds.format  BY <2>2
  <2>4. k.mingw = z /\ k.cygwin = y  BY <2>2
  <2> QED BY <1>3, <2>3, <2>4 DEF SystemRead, x, y, z
<1>4. CASE pos = 4
  <2> DEFINE x == ParseEnvironment(components[last])
             y == IF x = "UnknownEnvironment" THEN ParseFormat(components[last])
                  ELSE IF others = {} THEN kinds.format ELSE "UnknownObjectFormat"
  <2>1. k = [kinds EXCEPT !.env = x, !.format = y]  BY <1>4 DEF KindsAfter
  <2> HIDE DEF x, y
  <2>2. k = [arch |-> kinds.arch, vendor |-> kinds.vendor, os |-> kinds.os, env |-> x,
             format |-> y, cygwin |-> kinds.cygwin, mingw |-> kinds.mingw]
    BY <2>1 DEF IsKinds
  <2>3. k.format = y /\ SystemSame(k, kinds)  BY <2>2 DEF SystemSame
  <2> QED BY <1>4, <2>3 DEF x, y
<1> QED BY <1>1, <1>2, <1>3, <1>4 DEF Places

LEMMA TriedFits ==
  ASSUME IsKinds(kinds), KindsFit(kinds), pos \in Places, NEW last, NEW others,
         NEW k, k = KindsAfter(last, others)
  PROVE  KindsFit(k)
<1>1. k.format \in DOMAIN ObjectFormatTypeName
  <2>1. "UnknownObjectFormat" \in DOMAIN ObjectFormatTypeName  BY DEF ObjectFormatTypeName
  <2>2. kinds.format \in DOMAIN ObjectFormatTypeName  BY DEF KindsFit
  <2>3. k.format \in {kinds.format, ParseFormat(components[last]), "UnknownObjectFormat"}
    BY SystemTried
  <2> QED BY <2>1, <2>2, <2>3, FormatsRead
<1>2. CASE pos = 3  BY <1>1, <1>2, SystemTried, SystemFits
<1>3. CASE pos # 3
  <2>1. SystemSame(k, kinds)  BY <1>3, SystemTried
  <2> QED BY <1>1, <2>1 DEF KindsFit, SystemSame
<1> QED BY <1>2, <1>3

\* A string whose first four words are valid where they are.
Ordered == Len(input) > 3 /\ \A p \in Places : Valid(p, input[p])

\* It is not moved; kinds are read from it in place, but that the word of the
\* environment is read as a format if it is no environment.
OrderedIs ==
  /\ components = input
  /\ \A p \in Places : p < pos => p \in found
  /\ \A p \in found : p < pos \/ Reads(p, input[p]) # Unknown(p)
  /\ stage = "move" => idx = pos
  /\ SystemRead(kinds, input[3])
  /\ kinds.format = IF /\ ParseEnvironment(input[4]) = "UnknownEnvironment"
                       /\ pos > 4 \/ (stage = "move" /\ pos = 4)
                    THEN ParseFormat(input[4]) ELSE ParseFormat(WordOf(input, 5))

KeptIs == KindsFit(kinds) /\ (Ordered => OrderedIs)

LEMMA OrderedWords ==
  ASSUME Ordered, IsWords(input)
  PROVE  /\ \A p \in Places : p \in 1 .. Len(input) /\ WordOf(input, p) = input[p]
         /\ WordOf(input, 3) = input[3] /\ WordOf(input, 4) = input[4]
<1> DEFINE n == Len(input)
<1>1. n \in Nat /\ n > 3  BY DEF Ordered, IsWords
<1>2. \A p \in Places : n >= p => WordOf(input, p) = input[p]  BY DEF WordOf
<1> HIDE DEF n
<1>3. \A p \in Places : p \in 1 .. n /\ n >= p  BY <1>1 DEF Places
<1> QED BY <1>2, <1>3 DEF n, Places

LEMMA KeptStart == Start => KeptIs
<1> SUFFICES ASSUME Start  PROVE KeptIs  OBVIOUS
<1>1. SystemRead(kinds, WordOf(input, 3)) /\ kinds.format = ParseFormat(WordOf(input, 5)) /\ KindsFit(kinds)
  BY KindsStart DEF Start
<1>2. /\ \A p \in Places : Kind(kinds, p) = Reads(p, WordOf(input, p))
      /\ found = {p \in Places : Kind(kinds, p) # Unknown(p)}
  BY KindsFound DEF Start
<1>3. ASSUME Ordered  PROVE OrderedIs
  <2>1. /\ \A p \in Places : WordOf(input, p) = input[p]
        /\ WordOf(input, 3) = input[3] /\ WordOf(input, 4) = input[4]
    BY <1>3, OrderedWords DEF Start
  <2>2. \A p \in found : Reads(p, input[p]) # Unknown(p)  BY <1>2, <2>1
  <2>3. \A p \in Places : ~(p < 1)  BY DEF Places
  <2> QED BY <1>1, <2>1, <2>2, <2>3 DEF OrderedIs, Start
<1> QED BY <1>1, <1>3 DEF KeptIs

LEMMA KeptVain ==
  ASSUME NormInv, KeptIs, NoComponent
  PROVE  KeptIs'
<1>1. /\ stage = "find" /\ pos \notin found /\ Candidates = {}
      /\ UNCHANGED <<input, components, found>>
  BY DEF NoComponent
<1>2. SearchIs /\ pos \in Places /\ IsWords(input)  BY <1>1 DEF NormInv
<1>3. KindsFit(kinds')
  <2> DEFINE free == Free(components, 1)
  <2>1. kinds' = IF free = {} THEN kinds ELSE KindsAfter(Max(free), free \ {Max(free)})
    BY DEF NoComponent
  <2> HIDE DEF free
  <2>2. CASE free = {}  BY <2>1, <2>2 DEF KeptIs
  <2>3. CASE free # {}
    <3>1. kinds' = KindsAfter(Max(free), free \ {Max(free)})  BY <2>1, <2>3
    <3> QED BY <1>2, <3>1, TriedFits DEF SearchIs, KeptIs
  <2> QED BY <2>2, <2>3
<1>4. ~Ordered
  <2> SUFFICES ASSUME Ordered  PROVE FALSE  OBVIOUS
  <2>1. components = input  BY DEF KeptIs, OrderedIs
  <2>2. pos \in 1 .. Len(components) /\ Valid(pos, components[pos])
    BY <1>2, <2>1, OrderedWords DEF Ordered
  <2>3. pos \in Candidates  BY <1>1, <2>2 DEF Candidates, Free
  <2> QED BY <1>1, <2>3
<1>5. ~Ordered'  BY <1>1, <1>4 DEF Ordered, Valid, IsCygwin, IsMinGW
<1> QED BY <1>3, <1>5 DEF KeptIs

LEMMA KeptFound ==
  ASSUME NormInv, KeptIs, AlreadyFound
  PROVE  KeptIs'
<1>1. /\ stage = "find" /\ pos \in found
      /\ pos' = pos + 1 /\ stage' = IF pos = 4 THEN "settle" ELSE "find"
      /\ UNCHANGED <<input, components, found, kinds>>
  BY DEF AlreadyFound, Advance
<1>2. pos \in 1 .. 4  BY <1>1 DEF NormInv, Places
<1>3. ASSUME Ordered  PROVE OrderedIs'
  <2>1. OrderedIs  BY <1>3 DEF KeptIs
  <2>2. \A p \in Places : p < pos' => p \in found'
    BY <1>1, <1>2, <2>1 DEF OrderedIs, Places
  <2>3. \A p \in found' : p < pos' \/ Reads(p, input'[p]) # Unknown(p)
    <3>0. SearchIs  BY <1>1 DEF NormInv
    <3> SUFFICES ASSUME NEW p \in found  PROVE p < pos' \/ Reads(p, input[p]) # Unknown(p)
      BY <1>1
    <3>1. p \in 1 .. 4  BY <3>0 DEF SearchIs, Places
    <3>2. p < pos => p < pos'  BY <1>1, <1>2, <3>1
    <3> QED BY <2>1, <3>2 DEF OrderedIs
  <2>4. pos = 4 => ParseEnvironment(input[4]) # "UnknownEnvironment"
    <3> HAVE pos = 4
    <3>1. Reads(4, input[4]) # Unknown(4)  BY <1>1, <2>1 DEF OrderedIs
    <3> QED BY <3>1 DEF Reads, Unknown
  <2>5. stage' # "move" /\ (pos' > 4 <=> pos = 4) /\ ~(pos > 4) /\ stage # "move"  BY <1>1, <1>2
  <2>6. kinds.format = ParseFormat(WordOf(input, 5))  BY <2>1, <2>5 DEF OrderedIs
  <2>7. kinds'.format = IF /\ ParseEnvironment(input'[4]) = "UnknownEnvironment"
                           /\ pos' > 4 \/ (stage' = "move" /\ pos' = 4)
                        THEN ParseFormat(input'[4]) ELSE ParseFormat(WordOf(input', 5))
    BY <1>1, <2>4, <2>5, <2>6
  <2>8. components' = input' /\ SystemRead(kinds', input'[3])  BY <1>1, <2>1 DEF OrderedIs
  <2> QED BY <2>2, <2>3, <2>5, <2>7, <2>8 DEF OrderedIs
<1>4. Ordered' => Ordered  BY <1>1 DEF Ordered, Valid, IsCygwin, IsMinGW
<1> QED BY <1>1, <1>3, <1>4 DEF KeptIs

LEMMA KeptCandidate ==
  ASSUME NormInv, KeptIs, FindComponent
  PROVE  KeptIs'
<1>1. /\ stage = "find" /\ pos \notin found
      /\ idx' = Min(Candidates) /\ comp' = components[idx'] /\ stage' = "move"
      /\ UNCHANGED <<input, components, found, pos>>
  BY DEF FindComponent
<1>2. SearchIs /\ pos \in Places /\ IsWords(input)  BY <1>1 DEF NormInv
<1>3. PICK others : kinds' = KindsAfter(idx', others)  BY DEF FindComponent
<1>4. KindsFit(kinds')
  <2> DEFINE last == idx'
  <2> HIDE DEF last
  <2>1. kinds' = KindsAfter(last, others)  BY <1>3 DEF last
  <2> QED BY <1>2, <2>1, TriedFits DEF SearchIs, KeptIs
<1>5. ASSUME Ordered  PROVE OrderedIs'
  <2>1. OrderedIs  BY <1>5 DEF KeptIs
  <2>2. idx' = pos
    <3> DEFINE T == Candidates
    <3>1. pos \in T
      <4>1. pos \in 1 .. Len(components) /\ Valid(pos, components[pos])
        BY <1>2, <1>5, <2>1, OrderedWords DEF Ordered, OrderedIs
      <4> QED BY <1>1, <4>1 DEF Candidates, Free
    <3>2. T \subseteq Nat  BY DEF Candidates, Free
    <3>3. \A k \in T : ~(k < pos)
      <4> SUFFICES ASSUME NEW k \in T, k < pos  PROVE FALSE  OBVIOUS
      <4>1. k \in Nat /\ k >= 1 /\ k \notin found  BY DEF Candidates, Free
      <4>2. k \in Places  BY <1>2, <4>1 DEF Places
      <4> QED BY <2>1, <4>1, <4>2 DEF OrderedIs
    <3> HIDE DEF T
    <3>4. Min(T) \in T /\ \A m \in T : Min(T) <= m  BY <3>1, <3>2, Least
    <3>5. pos \in Nat /\ Min(T) \in Nat /\ Min(T) <= pos /\ ~(Min(T) < pos)
      BY <3>1, <3>2, <3>3, <3>4
    <3>6. Min(T) = pos  BY <3>5
    <3> QED BY <1>1, <3>6 DEF T
  <2>3. kinds' = KindsAfter(pos, others) /\ components[pos] = input[pos]
    BY <1>3, <2>1, <2>2 DEF OrderedIs
  <2>4. /\ pos = 3 => SystemRead(kinds', input[3])
        /\ pos # 3 => SystemSame(kinds', kinds)
        /\ pos # 4 => kinds'.format = kinds.format
        /\ pos = 4 => kinds'.format = IF ParseEnvironment(input[4]) = "UnknownEnvironment"
                                      THEN ParseFormat(input[4])
                                      ELSE IF others = {} THEN kinds.format ELSE "UnknownObjectFormat"
    BY <1>2, <2>3, SystemTried DEF SearchIs
  <2>5. SystemRead(kinds', input[3])
    BY <2>1, <2>4 DEF OrderedIs, SystemRead, SystemSame
  <2>6. ~(pos > 4) /\ stage # "move"  BY <1>1, <1>2 DEF Places
  <2>7. kinds.format = ParseFormat(WordOf(input, 5))  BY <2>1, <2>6 DEF OrderedIs
  <2>8. pos = 4 => ParseEnvironment(input[4]) = "UnknownEnvironment"
    <3> HAVE pos = 4
    <3>1. Reads(4, WordOf(input, 4)) = Unknown(4)  BY <1>1, <1>2 DEF SearchIs
    <3> QED BY <1>2, <1>5, <3>1, OrderedWords DEF Reads, Unknown
  <2>9. kinds'.format = IF /\ ParseEnvironment(input'[4]) = "UnknownEnvironment"
                           /\ pos' > 4 \/ (stage' = "move" /\ pos' = 4)
                        THEN ParseFormat(input'[4]) ELSE ParseFormat(WordOf(input', 5))
    BY <1>1, <2>4, <2>6, <2>7, <2>8
  <2> QED BY <1>1, <2>1, <2>2, <2>5, <2>9 DEF OrderedIs
<1>6. Ordered' => Ordered  BY <1>1 DEF Ordered, Valid, IsCygwin, IsMinGW
<1> QED BY <1>4, <1>5, <1>6 DEF KeptIs

LEMMA KeptMove ==
  ASSUME NormInv, KeptIs, MoveLeft \/ PushRight
  PROVE  KeptIs'
<1>1. stage = "move" /\ idx # pos /\ UNCHANGED <<input, kinds>>
  <2>1. stage = "move" /\ (pos < idx \/ idx < pos) /\ UNCHANGED <<input, kinds>>
    BY DEF MoveLeft, PushRight
  <2>2. pos \in Nat /\ idx \in Nat
    BY <2>1 DEF NormInv, MoveIs, FreePlaces, Places
  <2> QED BY <2>1, <2>2
<1>2. ~Ordered  BY <1>1 DEF KeptIs, OrderedIs
<1>3. ~Ordered'  BY <1>1, <1>2 DEF Ordered, Valid, IsCygwin, IsMinGW
<1> QED BY <1>1, <1>3 DEF KeptIs

LEMMA KeptFix ==
  ASSUME NormInv, KeptIs, Fix
  PROVE  KeptIs'
<1>1. /\ stage = "move" /\ idx = pos /\ found' = found \cup {pos}
      /\ pos' = pos + 1 /\ stage' = IF pos = 4 THEN "settle" ELSE "find"
      /\ UNCHANGED <<input, components, kinds>>
  BY DEF Fix, Advance
<1>2. pos \in 1 .. 4 /\ SearchIs  BY <1>1 DEF NormInv, Places
<1>3. ASSUME Ordered  PROVE OrderedIs'
  <2>1. OrderedIs  BY <1>3 DEF KeptIs
  <2>2. \A p \in Places : p < pos' => p \in found'
    BY <1>1, <1>2, <2>1 DEF OrderedIs, Places
  <2>3. \A p \in found' : p < pos' \/ Reads(p, input'[p]) # Unknown(p)
    <3> SUFFICES ASSUME NEW p \in found \cup {pos}  PROVE p < pos' \/ Reads(p, input[p]) # Unknown(p)
      BY <1>1
    <3>1. p \in 1 .. 4  BY <1>2 DEF SearchIs, Places
    <3>2. (p < pos => p < pos') /\ (p = pos => p < pos')  BY <1>1, <1>2, <3>1
    <3> QED BY <2>1, <3>2 DEF OrderedIs
  <2>5. /\ stage' # "move"
        /\ (pos' > 4 \/ (stage' = "move" /\ pos' = 4)) <=> (pos > 4 \/ (stage = "move" /\ pos = 4))
    BY <1>1, <1>2
  <2>7. kinds'.format = IF /\ ParseEnvironment(input'[4]) = "UnknownEnvironment"
                           /\ pos' > 4 \/ (stage' = "move" /\ pos' = 4)
                        THEN ParseFormat(input'[4]) ELSE ParseFormat(WordOf(input', 5))
    BY <1>1, <2>1, <2>5 DEF OrderedIs
  <2>8. components' = input' /\ SystemRead(kinds', input'[3])  BY <1>1, <2>1 DEF OrderedIs
  <2> QED BY <2>2, <2>3, <2>5, <2>7, <2>8 DEF OrderedIs
<1>4. Ordered' => Ordered  BY <1>1 DEF Ordered, Valid, IsCygwin, IsMinGW
<1> QED BY <1>1, <1>3, <1>4 DEF KeptIs

----------------------------------------------------------------------------
(* The special cases.                                                      *)

LEMMA RenamedIs ==
  ASSUME IsWords(components), NEW words, words = Renamed(components), NEW k \in 1 .. Len(components),
         k # 4
  PROVE  words[k] = IF components[k] = Blank THEN "unknown" ELSE components[k]
<1> DEFINE n == Len(components)
<1>1. DOMAIN components = 1 .. n /\ k \in 1 .. n  BY LenProperties DEF IsWords
<1> DEFINE Word4(i) ==
      CASE i = 4 /\ components[i] \in DOMAIN OldAndroid /\ kinds.env = "Android"
             -> OldAndroid[components[i]]
        [] i = 4 /\ kinds.vendor = "SUSE" /\ kinds.env = "GNUEABI" -> "gnueabihf"
        [] components[i] = "" -> "unknown"
        [] OTHER -> components[i]
<1>2. words = [i \in DOMAIN components |-> Word4(i)]  BY Zenon DEF Renamed
<1>3. Word4(k) = IF components[k] = Blank THEN "unknown" ELSE components[k]
  BY DEF Blank
<1> HIDE DEF Word4
<1> QED BY <1>1, <1>2, <1>3

\* An environment keeps its kind under another name, but SUSE's.
LEMMA EnvironmentRenamed ==
  ASSUME IsWords(components), NEW words, words = Renamed(components), 4 \in 1 .. Len(components),
         kinds.env = ParseEnvironment(components[4])
  PROVE  /\ ParseEnvironment(words[4]) \in {kinds.env, "GNUEABIHF"}
         /\ ParseFormat(words[4]) = ParseFormat(components[4])
<1> DEFINE n == Len(components)
           w == components[4]
           v == words[4]
           e == kinds.env
<1>1. DOMAIN components = 1 .. n  BY LenProperties DEF IsWords
<1> DEFINE Word4(i) ==
      CASE i = 4 /\ components[i] \in DOMAIN OldAndroid /\ kinds.env = "Android"
             -> OldAndroid[components[i]]
        [] i = 4 /\ kinds.vendor = "SUSE" /\ kinds.env = "GNUEABI" -> "gnueabihf"
        [] components[i] = "" -> "unknown"
        [] OTHER -> components[i]
<1>2. words = [i \in DOMAIN components |-> Word4(i)]  BY Zenon DEF Renamed
<1>3. v = Word4(4)
  <2> HIDE DEF Word4
  <2> QED BY <1>1, <1>2
<1> DEFINE suse == kinds.vendor = "SUSE"
<1>4. v = CASE w \in DOMAIN OldAndroid /\ e = "Android" -> OldAndroid[w]
            [] suse /\ e = "GNUEABI" -> "gnueabihf"
            [] w = "" -> "unknown"
            [] OTHER -> w
  BY <1>3
<1>5. e = ParseEnvironment(w)  OBVIOUS
<1> HIDE DEF w, v, e, suse, Word4
<1>6. (w = "" => e = "UnknownEnvironment") /\ (e = "GNUEABI" => w = "gnueabi")
  <2>1. \A u : ParseEnvironment(u) = "GNUEABI" => u = "gnueabi"
    BY DEF ParseEnvironment, Lookup, Environments
  <2>2. ParseEnvironment("") = "UnknownEnvironment"  BY EnvironmentsRead
  <2>3. e = "GNUEABI" => w = "gnueabi"  BY <1>5, <2>1
  <2>4. w = "" => e = "UnknownEnvironment"  BY Zenon, <1>5, <2>2
  <2> QED BY <2>3, <2>4
<1>7. CASE w \in DOMAIN OldAndroid /\ e = "Android"
  <2>1. w # ""  BY <1>7 DEF OldAndroid
  <2>2. v = OldAndroid[w]  BY <1>4, <1>7, <2>1
  <2>3. ParseEnvironment(OldAndroid[w]) = "Android"
        /\ ParseFormat(OldAndroid[w]) = "UnknownObjectFormat" /\ ParseFormat(w) = "UnknownObjectFormat"
    BY <1>7 DEF OldAndroid, ParseEnvironment, ParseFormat, Lookup, Environments, Formats
  <2> QED BY <1>7, <2>2, <2>3 DEF v, w, e
<1>8. CASE suse /\ e = "GNUEABI"
  <2>1. w = "gnueabi" /\ w # ""  BY <1>6, <1>8
  <2>2. v = "gnueabihf"  BY <1>4, <1>8, <2>1
  <2>3. ParseEnvironment("gnueabihf") = "GNUEABIHF"
        /\ ParseFormat("gnueabihf") = "UnknownObjectFormat" /\ ParseFormat("gnueabi") = "UnknownObjectFormat"
    BY DEF ParseEnvironment, ParseFormat, Lookup, Environments, Formats
  <2> QED BY <2>1, <2>2, <2>3 DEF v, w, e
<1>9. CASE w = ""
  <2>1. v = "unknown" /\ e = "UnknownEnvironment"  BY <1>4, <1>6, <1>9
  <2>2. ParseEnvironment("unknown") = "UnknownEnvironment"
        /\ ParseFormat("unknown") = "UnknownObjectFormat" /\ ParseFormat("") = "UnknownObjectFormat"
    BY DEF ParseEnvironment, ParseFormat, Lookup, Environments, Formats
  <2> QED BY <1>9, <2>1, <2>2 DEF v, w, e
<1>10. CASE ~(w \in DOMAIN OldAndroid /\ e = "Android") /\ ~(suse /\ e = "GNUEABI") /\ w # ""
  <2>1. v = w  BY <1>4, <1>10
  <2> QED BY <1>5, <2>1 DEF v, w, e
<1> QED BY <1>7, <1>8, <1>9, <1>10

LEMMA FourIs ==
  ASSUME NEW words, words = Renamed(components), IsWords(words), NEW four, four = Four
  PROVE  /\ \A k \in {1, 2} : Len(words) >= k => four[k] = words[k]
         /\ four[3] = "windows"
         /\ four[4] = WindowsEnvironment(WordOf(words, 4))
<1> DEFINE r == Resize(words, 4)
           R(k) == IF k <= Len(words) THEN words[k] ELSE ""
           x == "windows"
           W(z) == WindowsEnvironment(z)
<1>1. r = [k \in 1 .. 4 |-> R(k)]  BY Zenon DEF Resize
<1>2. four = [r EXCEPT ![3] = x, ![4] = W(@)]  BY Zenon DEF Four
<1>3. \A k \in {1, 2} : Len(words) >= k => R(k) = words[k]
  <2> SUFFICES ASSUME NEW k \in {1, 2}, Len(words) >= k  PROVE R(k) = words[k]  OBVIOUS
  <2>1. k <= Len(words)  OBVIOUS
  <2> QED BY Zenon, <2>1
<1>4. R(4) = WordOf(words, 4)
  <2>1. 4 <= Len(words) <=> Len(words) >= 4  OBVIOUS
  <2> QED BY Zenon, <2>1 DEF WordOf
<1> HIDE DEF R, x, W
<1>5. r[1] = R(1) /\ r[2] = R(2) /\ r[4] = R(4) /\ DOMAIN r = 1 .. 4  BY <1>1
<1> HIDE DEF r
<1>6. four[1] = r[1] /\ four[2] = r[2] /\ four[3] = x /\ four[4] = W(r[4])  BY <1>2, <1>5
<1>7. \A k \in {1, 2} : Len(words) >= k => four[k] = words[k]  BY <1>3, <1>5, <1>6
<1>8. four[4] = W(WordOf(words, 4))  BY <1>4, <1>5, <1>6
<1> QED BY <1>6, <1>7, <1>8 DEF x, W

LEMMA KindsRead ==
  ASSUME NormInv, stage = "settle"
  PROVE  /\ kinds.os = ParseOS(WordOf(components, 3))
         /\ kinds.env = ParseEnvironment(WordOf(components, 4))
<1>1. Kind(kinds, 3) = Reads(3, WordOf(components, 3)) /\ Kind(kinds, 4) = Reads(4, WordOf(components, 4))
  BY KindsSettled DEF Places
<1> QED BY <1>1 DEF Kind, Reads

LEMMA WordKept ==
  ASSUME NormInv, stage = "settle", NEW p \in Places, Reads(p, WordOf(input, p)) # Unknown(p)
  PROVE  /\ p \in 1 .. Len(components) /\ components[p] # Blank
         /\ components[p] = WordOf(input, p) /\ WordOf(components, p) = WordOf(input, p)
<1>1. SearchIs /\ IsWords(input) /\ IsWords(components)  BY DEF NormInv
<1>2. p \in found /\ components[p] = input[p] /\ p \in 1 .. Len(components)  BY <1>1 DEF SearchIs
<1>3. WordOf(input, p) # Blank  BY BlankRead
<1>4. WordOf(input, p) = input[p]
  <2>1. Len(input) >= p => WordOf(input, p) = input[p]  BY DEF WordOf
  <2>2. ~(Len(input) >= p) => WordOf(input, p) = Blank  BY Zenon DEF WordOf, Blank
  <2> QED BY <1>3, <2>1, <2>2
<1>5. WordOf(components, p) = components[p]
  <2>1. Len(components) >= p  BY <1>2
  <2> QED BY <2>1 DEF WordOf
<1> QED BY <1>2, <1>3, <1>4, <1>5

\* What the constructor finds where in the result.
LEMMA SettledWords ==
  ASSUME NormInv, KindsFit(kinds), Settle, NEW e, e = components',
         NEW words, words = Renamed(components)
  PROVE  /\ IsString(e) /\ IsWords(words) /\ Len(words) = Len(components)
         /\ \A p \in {1, 2} : p \in 1 .. Len(components) /\ components[p] # Blank =>
              WordOf(e, p) = components[p]
         /\ ~Windows => e = words
         /\ Windows => WordOf(e, 3) = "windows" /\ WordOf(e, 4) = WindowsEnvironment(WordOf(words, 4))
         /\ Windows => Len(e) \in {4, 5}
         /\ Windows /\ NamesFormat => NamedFormat(e) = kinds.format
         /\ Windows /\ ~NamesFormat => NamedFormat(e) = ParseFormat(WordOf(e, 4))
<1> DEFINE n == Len(components)
           four == Four
           name == ObjectFormatTypeName[kinds.format]
<1>1. IsWords(components) /\ Len(components) >= 1 /\ stage = "settle"  BY DEF NormInv, Settle
<1>2. IsSettled(words, four)  BY <1>1, Settled
<1>3. /\ IsWords(words) /\ Len(words) = n /\ IsWords(four) /\ Len(four) = 4
      /\ \/ ~Windows /\ e = words
         \/ Windows /\ ~NamesFormat /\ e = four
         \/ Windows /\ NamesFormat /\ e = Append(four, name)
  BY <1>2 DEF IsSettled
<1>4. IsString(e)
  <2>1. stage' # "returned"  BY DEF Settle
  <2> QED BY <2>1, SettleStep DEF NormInv, IsString
<1>5. /\ \A k \in {1, 2} : Len(words) >= k => four[k] = words[k]
      /\ four[3] = "windows" /\ four[4] = WindowsEnvironment(WordOf(words, 4))
  BY <1>3, FourIs
<1> HIDE DEF four, name
<1>6. Windows =>
        /\ Len(e) \in {4, 5} /\ (NamesFormat => Len(e) = 5 /\ e[5] = name) /\ (~NamesFormat => Len(e) = 4)
        /\ \A k \in 1 .. 4 : e[k] = four[k]
  <2> HAVE Windows
  <2>1. CASE ~NamesFormat  BY <1>3, <2>1
  <2>2. CASE NamesFormat
    <3>1. e = Append(four, name)  BY <1>3, <2>2
    <3>0. IsWords(four)  BY <1>3
    <3>2. Len(e) = Len(four) + 1 /\ e[Len(four) + 1] = name  BY <3>0, <3>1, AppendWords
    <3>5. \A k \in 1 .. Len(four) : e[k] = four[k]  BY <3>0, <3>1, AppendWords
    <3>3. Len(four) = 4 /\ Len(four) + 1 = 5  BY <1>3
    <3>4. Len(e) = 5 /\ e[5] = name /\ \A k \in 1 .. 4 : e[k] = four[k]  BY <3>2, <3>3, <3>5
    <3> QED BY <2>2, <3>4
  <2> QED BY <2>1, <2>2
<1>7. Windows => \A k \in 1 .. 4 : WordOf(e, k) = four[k]
  <2> HAVE Windows
  <2>1. \A k \in 1 .. 4 : Len(e) >= k  BY <1>6
  <2> QED BY <1>6, <2>1 DEF WordOf
<1>8. ASSUME NEW p \in {1, 2}, p \in 1 .. n, components[p] # Blank
      PROVE  WordOf(e, p) = components[p]
  <2>1. words[p] = components[p]
    <3>1. p # 4  OBVIOUS
    <3> QED BY <1>1, <1>8, <3>1, RenamedIs
  <2>2. Len(words) >= p  BY <1>3, <1>8
  <2>3. CASE ~Windows
    <3>1. e = words  BY <1>3, <2>3
    <3> QED BY <2>1, <2>2, <3>1 DEF WordOf
  <2>4. CASE Windows
    <3>1. WordOf(e, p) = four[p]  BY <1>7, <2>4
    <3> QED BY <1>5, <2>1, <2>2, <3>1
  <2> QED BY <2>3, <2>4
<1>9. Windows => WordOf(e, 3) = "windows" /\ WordOf(e, 4) = WindowsEnvironment(WordOf(words, 4))
  BY <1>5, <1>7
<1>10. Windows /\ NamesFormat => NamedFormat(e) = kinds.format
  <2> HAVE Windows /\ NamesFormat
  <2>1. Len(e) = 5 /\ e[5] = name  BY <1>6
  <2>2. NamedFormat(e) = ParseFormat(e[5])
    <3>1. NamedFormat(e) = IF Len(e) > 3 THEN ParseFormat(e[Len(e)]) ELSE "UnknownObjectFormat"
      BY DEF NamedFormat
    <3>2. Len(e) > 3  BY <2>1
    <3>3. NamedFormat(e) = ParseFormat(e[Len(e)])  BY <3>1, <3>2
    <3> QED BY <2>1, <3>3
  <2>3. ParseFormat(name) = kinds.format  BY FormatsRead DEF KindsFit, NamesFormat, name
  <2> QED BY <2>1, <2>2, <2>3
<1>11. Windows /\ ~NamesFormat => NamedFormat(e) = ParseFormat(WordOf(e, 4))
  <2> HAVE Windows /\ ~NamesFormat
  <2>1. Len(e) = 4  BY <1>6
  <2>2. NamedFormat(e) = ParseFormat(e[4])
    <3>1. NamedFormat(e) = IF Len(e) > 3 THEN ParseFormat(e[Len(e)]) ELSE "UnknownObjectFormat"
      BY DEF NamedFormat
    <3>2. Len(e) > 3  BY <2>1
    <3>3. NamedFormat(e) = ParseFormat(e[Len(e)])  BY <3>1, <3>2
    <3> QED BY <2>1, <3>3
  <2>3. WordOf(e, 4) = e[4]
    <3>1. Len(e) >= 4  BY <2>1
    <3> QED BY <3>1 DEF WordOf
  <2> QED BY <2>2, <2>3
<1>12. ~Windows => e = words  BY <1>3
<1>13. Windows => Len(e) \in {4, 5}  BY <1>6
<1> QED BY <1>3, <1>4, <1>8, <1>9, <1>10, <1>11, <1>12, <1>13 DEF n

LEMMA WindowsSystem ==
  /\ \A w : ParseOS(w) = "Win32" => OSVersion(w) = <<0, 0>>
  /\ ParseOS("windows") = "Win32"
<1>1. \A w : ParseOS(w) = "Win32" => w \in {"windows", "win32"}
  <2>1. \A w : AppleSystem(w) # "Win32"  BY DEF AppleSystem
  <2>2. \A w \in DOMAIN Systems : w \notin AppleWords => w \in {"linux", "windows", "win32", "aix", "zos"}
    BY DEF Systems
  <2>3. \A w \in AppleWords : ParseOS(w) = AppleSystem(w)
    BY DEF ParseOS, Lookup, Systems, AppleWords
  <2>4. \A w \in {"linux", "aix", "zos"} : ParseOS(w) # "Win32"
    BY DEF ParseOS, Lookup, Systems, AppleWords
  <2>5. \A w : ParseOS(w) = "Win32" => w \in DOMAIN Systems  BY DEF ParseOS, Lookup
  <2> QED BY <2>1, <2>2, <2>3, <2>4, <2>5
<1>2. OSVersion("windows") = <<0, 0>> /\ OSVersion("win32") = <<0, 0>>
  BY DEF OSVersion, Lookup, Versions, AppleWords
<1>3. ParseOS("windows") = "Win32"  BY DEF ParseOS, Lookup, Systems, AppleWords
<1> QED BY <1>1, <1>2, <1>3

\* Architecture, vendor and system.
LEMMA PlacesKept ==
  ASSUME NormInv, KindsFit(kinds), Settle, NEW before, before = Parse(input),
         NEW after, after = Parse(components')
  PROVE  /\ before.arch # "UnknownArch" => after.arch = before.arch /\ after.sub = before.sub
         /\ before.vendor # "UnknownVendor" => after.vendor = before.vendor
         /\ before.os # "UnknownOS" => after.os = before.os /\ after.version = before.version
         /\ IsRead(before, input) /\ IsRead(after, components')
<1> DEFINE e == components'
           words == Renamed(components)
<1>1. stage = "settle" /\ IsString(input)  BY DEF NormInv, Settle, IsString
<1>2. /\ IsString(e) /\ IsWords(words) /\ Len(words) = Len(components)
      /\ \A p \in {1, 2} : p \in 1 .. Len(components) /\ components[p] # Blank =>
           WordOf(e, p) = components[p]
      /\ ~Windows => e = words
      /\ Windows => WordOf(e, 3) = "windows"
  BY SettledWords
<1> HIDE DEF words
<1>3. IsRead(before, input)  BY <1>1, ReadIs
<1>4. IsRead(after, e)  BY <1>2, ReadIs
<1>5. before.arch # "UnknownArch" => WordOf(e, 1) = WordOf(input, 1)
  <2> HAVE before.arch # "UnknownArch"
  <2>1. Reads(1, WordOf(input, 1)) # Unknown(1)  BY <1>3 DEF IsRead, Reads, Unknown
  <2>2. 1 \in 1 .. Len(components) /\ components[1] # Blank /\ components[1] = WordOf(input, 1)
    BY <1>1, <2>1, WordKept DEF Places
  <2> QED BY <1>2, <2>2
<1>6. before.vendor # "UnknownVendor" => WordOf(e, 2) = WordOf(input, 2)
  <2> HAVE before.vendor # "UnknownVendor"
  <2>1. Reads(2, WordOf(input, 2)) # Unknown(2)  BY <1>3 DEF IsRead, Reads, Unknown
  <2>2. 2 \in 1 .. Len(components) /\ components[2] # Blank /\ components[2] = WordOf(input, 2)
    BY <1>1, <2>1, WordKept DEF Places
  <2> QED BY <1>2, <2>2
<1>7. ASSUME before.os # "UnknownOS"  PROVE after.os = before.os /\ after.version = before.version
  <2>1. Reads(3, WordOf(input, 3)) # Unknown(3)  BY <1>3, <1>7 DEF IsRead, Reads, Unknown
  <2>2. /\ 3 \in 1 .. Len(components) /\ components[3] # Blank /\ components[3] = WordOf(input, 3)
        /\ WordOf(components, 3) = WordOf(input, 3)
    BY <1>1, <2>1, WordKept DEF Places
  <2>3. CASE Windows
    <3>1. kinds.os = before.os  BY <1>1, <1>3, <2>2, KindsRead DEF IsRead
    <3>2. kinds.os = "Win32"  BY <1>7, <2>3, <3>1 DEF Windows, KindsFit
    <3>3. ParseOS(WordOf(input, 3)) = "Win32"  BY <1>3, <3>1, <3>2 DEF IsRead
    <3> QED BY <1>2, <1>3, <1>4, <2>3, <3>1, <3>2, <3>3, WindowsSystem DEF IsRead
  <2>4. CASE ~Windows
    <3>1. words[3] = components[3]
      <4>1. 3 # 4 /\ IsWords(components)  BY DEF NormInv
      <4> QED BY <2>2, <4>1, RenamedIs DEF words
    <3>2. Len(words) >= 3  BY <1>2, <2>2
    <3>3. WordOf(e, 3) = WordOf(input, 3)  BY <1>2, <2>2, <2>4, <3>1, <3>2 DEF WordOf
    <3> QED BY <1>3, <1>4, <3>3 DEF IsRead
  <2> QED BY <2>3, <2>4
<1>8. before.arch # "UnknownArch" => after.arch = before.arch /\ after.sub = before.sub
  BY <1>3, <1>4, <1>5 DEF IsRead
<1>9. before.vendor # "UnknownVendor" => after.vendor = before.vendor
  BY <1>3, <1>4, <1>6 DEF IsRead
<1> QED BY <1>3, <1>4, <1>7, <1>8, <1>9

\* The environment a Windows triple has.
LEMMA WindowsEnvironments ==
  ASSUME KindsFit(kinds), NEW word, NEW env, env = ParseEnvironment(WindowsEnvironment(word))
  PROVE  /\ kinds.mingw => env = "GNU"
         /\ kinds.cygwin => env = "Cygnus"
         /\ kinds.os = "Win32" /\ kinds.env # "UnknownEnvironment" => WindowsEnvironment(word) = word
         /\ kinds.os = "Win32" /\ kinds.env = "UnknownEnvironment" => env \in {"MSVC", "UnknownEnvironment"}
<1>1. /\ ParseEnvironment("gnu") = "GNU" /\ ParseEnvironment("cygnus") = "Cygnus"
      /\ ParseEnvironment("msvc") = "MSVC"
  BY DEF ParseEnvironment, Lookup, Environments
<1>2. kinds.mingw => WindowsEnvironment(word) = "gnu"  BY DEF KindsFit, WindowsEnvironment
<1>3. kinds.cygwin => WindowsEnvironment(word) = "cygnus"  BY DEF KindsFit, WindowsEnvironment
<1>4. kinds.os = "Win32" /\ kinds.env = "UnknownEnvironment" => env \in {"MSVC", "UnknownEnvironment"}
  <2> HAVE kinds.os = "Win32" /\ kinds.env = "UnknownEnvironment"
  <2>1. CASE kinds.format \in {"UnknownObjectFormat", "COFF"}
    <3>1. WindowsEnvironment(word) = "msvc"  BY <2>1 DEF WindowsEnvironment
    <3> QED BY <1>1, <3>1
  <2>2. CASE kinds.format \notin {"UnknownObjectFormat", "COFF"}
    <3>1. WindowsEnvironment(word) = ObjectFormatTypeName[kinds.format]
      BY <2>2 DEF WindowsEnvironment
    <3> QED BY <2>2, <3>1, FormatsRead DEF KindsFit
  <2> QED BY <2>1, <2>2
<1>5. kinds.os = "Win32" /\ kinds.env # "UnknownEnvironment" => WindowsEnvironment(word) = word
  BY DEF WindowsEnvironment
<1> QED BY <1>1, <1>2, <1>3, <1>4, <1>5

\* The environment.
LEMMA EnvironmentKept ==
  ASSUME NormInv, KindsFit(kinds), Settle, NEW before, before = Parse(input),
         NEW after, after = Parse(components')
  PROVE  /\ Len(input) > 3 /\ before.env # "UnknownEnvironment" /\ ~kinds.mingw /\ ~kinds.cygwin
              => after.env \in {before.env, "GNUEABIHF"}
         /\ kinds.mingw => IsWindowsGNUEnvironment(after)
         /\ kinds.cygwin => IsWindowsCygwinEnvironment(after)
         /\ kinds.os = "Win32" /\ kinds.env = "UnknownEnvironment" => IsWindowsMSVCEnvironment(after)
<1> DEFINE e == components'
           words == Renamed(components)
<1>1. stage = "settle" /\ IsString(input) /\ IsWords(components)  BY DEF NormInv, Settle, IsString
<1>2. /\ IsString(e) /\ IsWords(words) /\ Len(words) = Len(components)
      /\ ~Windows => e = words
      /\ Windows => WordOf(e, 3) = "windows" /\ WordOf(e, 4) = WindowsEnvironment(WordOf(words, 4))
      /\ Windows => Len(e) \in {4, 5}
  BY SettledWords
<1>3. IsRead(before, input) /\ IsRead(after, e)  BY PlacesKept
<1>4. words = Renamed(components)  OBVIOUS
<1> HIDE DEF words, e
<1>5. Windows => after.os = "Win32" /\ after.env = ParseEnvironment(WindowsEnvironment(WordOf(words, 4)))
  <2> HAVE Windows
  <2>1. after.os = "Win32"  BY <1>2, <1>3, WindowsSystem DEF IsRead
  <2>2. Len(e) # 1  BY <1>2
  <2>3. after.env = ParseEnvironment(WordOf(e, 4))  BY <1>3, <2>2 DEF IsRead
  <2> QED BY <1>2, <2>1, <2>3
<1>6. kinds.mingw \/ kinds.cygwin \/ kinds.os = "Win32" => Windows  BY DEF Windows
<1>7. ASSUME Len(input) > 3, before.env # "UnknownEnvironment", ~kinds.mingw, ~kinds.cygwin
      PROVE  after.env \in {before.env, "GNUEABIHF"}
  <2>1. before.env = ParseEnvironment(WordOf(input, 4))
    <3>1. Len(input) # 1
      <4> DEFINE n == Len(input)
      <4>1. n \in Nat /\ n > 3  BY <1>1, <1>7 DEF IsString, IsWords
      <4> HIDE DEF n
      <4>2. n # 1  BY <4>1
      <4> QED BY <4>2 DEF n
    <3> QED BY <1>3, <3>1 DEF IsRead
  <2>2. Reads(4, WordOf(input, 4)) # Unknown(4)  BY <1>7, <2>1 DEF Reads, Unknown
  <2>3. 4 \in 1 .. Len(components) /\ components[4] = WordOf(input, 4) /\ WordOf(components, 4) = WordOf(input, 4)
    BY <1>1, <2>2, WordKept DEF Places
  <2>4. kinds.env = before.env  BY <1>1, <2>1, <2>3, KindsRead
  <2>5. ParseEnvironment(words[4]) \in {kinds.env, "GNUEABIHF"}
    BY <1>1, <1>4, <2>1, <2>3, <2>4, EnvironmentRenamed
  <2>6. Len(words) >= 4  BY <1>2, <2>3
  <2>7. WordOf(words, 4) = words[4]  BY <2>6 DEF WordOf
  <2>8. CASE Windows
    <3>1. kinds.os = "Win32"  BY <1>7, <2>8 DEF Windows
    <3>2. WindowsEnvironment(WordOf(words, 4)) = WordOf(words, 4)
      BY <1>7, <2>4, <3>1, WindowsEnvironments
    <3> QED BY <1>5, <2>4, <2>5, <2>7, <2>8, <3>2
  <2>9. CASE ~Windows
    <3>1. WordOf(e, 4) = words[4] /\ Len(e) # 1  BY <1>2, <2>6, <2>7, <2>9
    <3>2. after.env = ParseEnvironment(words[4])  BY <1>3, <3>1 DEF IsRead
    <3> QED BY <2>4, <2>5, <3>2
  <2> QED BY <2>8, <2>9
<1>8. kinds.mingw => IsWindowsGNUEnvironment(after)
  BY <1>5, <1>6, WindowsEnvironments DEF IsWindowsGNUEnvironment
<1>9. kinds.cygwin => IsWindowsCygwinEnvironment(after)
  BY <1>5, <1>6, WindowsEnvironments DEF IsWindowsCygwinEnvironment
<1>10. kinds.os = "Win32" /\ kinds.env = "UnknownEnvironment" => IsWindowsMSVCEnvironment(after)
  BY <1>5, <1>6, WindowsEnvironments DEF IsWindowsMSVCEnvironment
<1> QED BY <1>7, <1>8, <1>9, <1>10

\* The object format of a string that is in order.
LEMMA NamedKept ==
  ASSUME NormInv, KindsFit(kinds), Settle, Ordered, OrderedIs, ~FormatUnnamed
  PROVE  /\ NamedFormat(components') = NamedFormat(input)
         /\ NamedFormat(input) # "UnknownObjectFormat" \/ ParseOS(WordOf(input, 3)) # "UnknownOS"
<1> DEFINE e == components'
           words == Renamed(components)
           n == Len(input)
           last == ParseFormat(input[n])
           w == input[4]
           f == kinds.format
           U == "UnknownObjectFormat"
<1>1. /\ stage = "settle" /\ IsWords(input) /\ IsWords(components) /\ components = input /\ pos = 5
      /\ n \in Nat /\ n > 3
  BY DEF NormInv, Settle, OrderedIs, Ordered, IsWords
<1>2. /\ IsString(e) /\ IsWords(words) /\ Len(words) = n
      /\ ~Windows => e = words
      /\ Windows => WordOf(e, 4) = WindowsEnvironment(WordOf(words, 4))
      /\ Windows /\ NamesFormat => NamedFormat(e) = f
      /\ Windows /\ ~NamesFormat => NamedFormat(e) = ParseFormat(WordOf(e, 4))
  BY <1>1, SettledWords
<1>3. /\ 4 \in 1 .. n /\ n \in 1 .. n /\ (n > 4 \/ n = 4) /\ (n > 4 => n # 4)
      /\ WordOf(input, 3) = input[3] /\ WordOf(input, 4) = w
  <2>1. WordOf(input, 3) = input[3] /\ WordOf(input, 4) = w  BY <1>1, OrderedWords
  <2> HIDE DEF n
  <2> QED BY <1>1, <2>1
<1>4. kinds.env = ParseEnvironment(w)  BY <1>1, <1>3, KindsRead
<1>5. f = IF kinds.env = "UnknownEnvironment" THEN ParseFormat(w) ELSE ParseFormat(WordOf(input, 5))
  <2>1. pos > 4  BY <1>1
  <2> QED BY <1>4, <2>1 DEF OrderedIs
<1>6. n = 4 => ParseFormat(WordOf(input, 5)) = U
  <2> HAVE n = 4
  <2>1. ~(Len(input) >= 5)  OBVIOUS
  <2>2. WordOf(input, 5) = ""  BY Zenon, <2>1 DEF WordOf
  <2> QED BY Zenon, <2>2, EnvironmentsRead
<1>7. NamedFormat(input) = last
  <2>1. n > 3  BY <1>1
  <2> QED BY <2>1 DEF NamedFormat
<1>8. kinds.os = ParseOS(input[3]) /\ kinds.mingw = IsMinGW(input[3]) /\ kinds.cygwin = IsCygwin(input[3])
  BY DEF OrderedIs, SystemRead
<1>9. kinds.os # "UnknownOS" \/ kinds.mingw \/ kinds.cygwin
  <2>1. Valid(3, input[3])  BY DEF Ordered, Places
  <2> QED BY <1>8, <2>1 DEF Valid
<1>10. kinds.env # "UnknownEnvironment" \/ ParseFormat(w) # U
  <2>1. Valid(4, w)  BY DEF Ordered, Places
  <2> QED BY <1>4, <2>1 DEF Valid
<1>11. ParseEnvironment(w) # "UnknownEnvironment" /\ ParseFormat(w) # U => w = "gnuelf"
  BY DEF ParseEnvironment, ParseFormat, Lookup, Environments, Formats
<1>12. ParseFormat(words[4]) = ParseFormat(w)
  <2>1. 4 \in 1 .. Len(components) /\ kinds.env = ParseEnvironment(components[4])  BY <1>1, <1>3, <1>4
  <2> QED BY <1>1, <2>1, EnvironmentRenamed
<1>13. WordOf(words, 4) = words[4]
  <2>1. Len(words) >= 4  BY <1>2, <1>3
  <2> QED BY <2>1 DEF WordOf
<1>14. /\ ~(Windows /\ f = "COFF")
       /\ Windows /\ n > 4 => last = f
       /\ Windows /\ n > 4 /\ f = U => w # "gnuelf"
       /\ kinds.mingw \/ kinds.cygwin => last # U
       /\ (kinds.mingw \/ kinds.cygwin) /\ n = 4 => w # "gnuelf"
  BY DEF FormatUnnamed
<1>15. f \in DOMAIN ObjectFormatTypeName  BY DEF KindsFit
<1> HIDE DEF words, e, n, last, w, f
<1>16. CASE ~Windows
  <2>1. ParseFormat(words[n]) = last
    <3>1. CASE n = 4  BY <1>12, <3>1 DEF last, w
    <3>2. CASE n > 4
      <4>1. n \in 1 .. Len(components) /\ n # 4  BY <1>1, <1>3, <3>2 DEF n
      <4>2. words[n] = IF components[n] = Blank THEN "unknown" ELSE components[n]
        BY <1>1, <4>1, RenamedIs DEF words
      <4>3. ParseFormat(Blank) = U /\ ParseFormat("unknown") = U
        <5>1. ParseFormat("unknown") = U  BY DEF ParseFormat, Lookup, Formats
        <5>2. ParseFormat(Blank) = U  BY EnvironmentsRead DEF Blank
        <5> QED BY <5>1, <5>2
      <4>4. CASE components[n] = Blank  BY <1>1, <4>2, <4>3, <4>4 DEF last
      <4>5. CASE components[n] # Blank  BY <1>1, <4>2, <4>5 DEF last
      <4> QED BY <4>4, <4>5
    <3> QED BY <1>3, <3>1, <3>2
  <2>2. NamedFormat(e) = ParseFormat(words[n])
    <3>1. e = words /\ Len(words) > 3  BY <1>1, <1>2, <1>16
    <3> QED BY <1>2, <3>1 DEF NamedFormat
  <2>3. kinds.os # "UnknownOS"  BY <1>9, <1>16 DEF Windows
  <2> QED BY <1>3, <1>7, <1>8, <2>1, <2>2, <2>3 DEF e
<1>17. CASE Windows /\ kinds.os = "Win32"
  <2>0. ~kinds.mingw /\ ~kinds.cygwin  BY <1>17 DEF KindsFit
  <2>1. CASE kinds.env # "UnknownEnvironment"
    <3>1. NamesFormat <=> f # U  BY <1>14, <1>17, <2>1 DEF NamesFormat, f
    <3>2. WordOf(e, 4) = words[4]
      <4>1. WindowsEnvironment(words[4]) = words[4]  BY <1>17, <2>1, WindowsEnvironments
      <4> QED BY <1>2, <1>13, <1>17, <4>1
    <3>3. CASE f # U
      <4>1. n > 4  BY <1>3, <1>5, <1>6, <2>1, <3>3
      <4> QED BY <1>2, <1>3, <1>7, <1>8, <1>14, <1>17, <3>1, <3>3, <4>1 DEF e
    <3>4. CASE f = U
      <4>1. NamedFormat(e) = ParseFormat(w)  BY <1>2, <1>12, <1>17, <3>1, <3>2, <3>4
      <4>2. n > 4 => last = U /\ ParseFormat(w) = U  BY <1>4, <1>11, <1>14, <1>17, <2>1, <3>4
      <4>3. n = 4 => last = ParseFormat(w)  BY DEF last, w
      <4> QED BY <1>3, <1>7, <1>8, <1>17, <4>1, <4>2, <4>3 DEF e
    <3> QED BY <3>3, <3>4
  <2>2. CASE kinds.env = "UnknownEnvironment"
    <3>1. f = ParseFormat(w) /\ f # U /\ f # "COFF"  BY <1>5, <1>10, <1>14, <1>17, <2>2
    <3>2. ~NamesFormat  BY <2>0, <2>2 DEF NamesFormat
    <3>3. WordOf(e, 4) = ObjectFormatTypeName[f]
      <4>1. WindowsEnvironment(words[4]) = ObjectFormatTypeName[f]
        BY <1>17, <2>2, <3>1 DEF WindowsEnvironment, f
      <4> QED BY <1>2, <1>13, <1>17, <4>1
    <3>4. NamedFormat(e) = f  BY <1>2, <1>15, <1>17, <3>1, <3>2, <3>3, FormatsRead
    <3>5. last = f
      <4>1. n = 4 => last = ParseFormat(w)  BY DEF last, w
      <4> QED BY <1>3, <1>14, <1>17, <3>1, <4>1
    <3> QED BY <1>7, <3>1, <3>4, <3>5 DEF e
  <2> QED BY <2>1, <2>2
<1>18. CASE Windows /\ kinds.os # "Win32"
  <2>0. kinds.mingw \/ kinds.cygwin  BY <1>18 DEF Windows
  <2>1. last # U  BY <1>14, <2>0
  <2>2. last = f
    <3>1. CASE n > 4  BY <1>14, <1>18, <3>1
    <3>2. CASE n = 4
      <4>1. last = ParseFormat(w)  BY <3>2 DEF last, w
      <4>2. kinds.env = "UnknownEnvironment"  BY <1>4, <1>11, <1>14, <2>0, <2>1, <3>2, <4>1
      <4> QED BY <1>5, <4>1, <4>2
    <3> QED BY <1>3, <3>1, <3>2
  <2>3. NamesFormat  BY <1>14, <1>18, <2>0, <2>1, <2>2 DEF NamesFormat, f
  <2>4. NamedFormat(e) = f  BY <1>2, <1>18, <2>3
  <2> QED BY <1>7, <2>1, <2>2, <2>4 DEF e
<1> QED BY <1>16, <1>17, <1>18

LEMMA ReadingSettled ==
  ASSUME NormInv, KeptIs, Settle
  PROVE  ReadingKept'
<1> DEFINE before == Parse(input)
           after == Parse(components')
<1>0. KindsFit(kinds)  BY DEF KeptIs
<1>1. /\ before.arch # "UnknownArch" => after.arch = before.arch /\ after.sub = before.sub
      /\ before.vendor # "UnknownVendor" => after.vendor = before.vendor
      /\ before.os # "UnknownOS" => after.os = before.os /\ after.version = before.version
      /\ IsRead(before, input) /\ IsRead(after, components')
  BY <1>0, PlacesKept
<1>2. /\ Len(input) > 3 /\ before.env # "UnknownEnvironment" /\ ~kinds.mingw /\ ~kinds.cygwin
              => after.env \in {before.env, "GNUEABIHF"}
      /\ kinds.mingw => IsWindowsGNUEnvironment(after)
      /\ kinds.cygwin => IsWindowsCygwinEnvironment(after)
      /\ kinds.os = "Win32" /\ kinds.env = "UnknownEnvironment" => IsWindowsMSVCEnvironment(after)
  BY <1>0, EnvironmentKept
<1>3. ASSUME Len(input) > 3, \A p \in 1 .. 4 : Valid(p, input[p]), ~FormatUnnamed
      PROVE  after.format = before.format
  <2>1. Ordered /\ OrderedIs  BY <1>3 DEF Ordered, Places, KeptIs
  <2>2. /\ NamedFormat(components') = NamedFormat(input)
        /\ NamedFormat(input) # "UnknownObjectFormat" \/ ParseOS(WordOf(input, 3)) # "UnknownOS"
    BY <1>0, <1>3, <2>1, NamedKept
  <2>3. before.arch # "UnknownArch"
    <3>1. IsWords(input) /\ Valid(1, input[1])  BY <2>1 DEF NormInv, Settle, Ordered, Places
    <3>2. WordOf(input, 1) = input[1]  BY <2>1, <3>1, OrderedWords DEF Places
    <3> QED BY <1>1, <3>1, <3>2 DEF IsRead, Valid
  <2>4. ParseOS(WordOf(input, 3)) # "UnknownOS" => after.os = before.os  BY <1>1 DEF IsRead
  <2> HIDE DEF before, after
  <2> QED BY <1>1, <2>2, <2>3, <2>4 DEF IsRead
<1>4. input' = input /\ kinds' = kinds  BY DEF Settle
<1>5. FormatUnnamed' <=> FormatUnnamed  BY <1>4 DEF FormatUnnamed, Windows
<1>6. before = Parse(input') /\ after = Parse(components')  BY <1>4
<1> HIDE DEF before, after
<1>7. \A p : Valid(p, input'[p]) <=> Valid(p, input[p])  BY <1>4 DEF Valid, IsCygwin, IsMinGW
<1> QED BY <1>1, <1>2, <1>3, <1>4, <1>5, <1>6, <1>7 DEF ReadingKept

ReadInv == (stage \in {"find", "move", "settle"} => KeptIs) /\ ReadingKept

LEMMA ReadStart == Start => ReadInv
BY KeptStart DEF Start, ReadInv, ReadingKept

LEMMA ReadStep ==
  ASSUME NormInv, ReadInv, NNext
  PROVE  ReadInv'
<1>1. CASE AlreadyFound \/ NoComponent \/ FindComponent
  <2>1. stage = "find" /\ stage' # "done"
    BY <1>1 DEF AlreadyFound, NoComponent, FindComponent, Advance
  <2>2. KeptIs'  BY <1>1, <2>1, KeptFound, KeptVain, KeptCandidate DEF ReadInv
  <2> QED BY <2>1, <2>2 DEF ReadInv, ReadingKept
<1>2. CASE MoveLeft \/ PushRight \/ Fix
  <2>1. stage = "move" /\ stage' # "done"
    BY <1>2 DEF MoveLeft, PushRight, Fix, Advance
  <2>2. KeptIs'  BY <1>2, <2>1, KeptMove, KeptFix DEF ReadInv
  <2> QED BY <2>1, <2>2 DEF ReadInv, ReadingKept
<1>3. CASE Settle
  <2>1. stage = "settle" /\ stage' = "done"  BY <1>3 DEF Settle
  <2>2. ReadingKept'  BY <1>3, <2>1, ReadingSettled DEF ReadInv
  <2> QED BY <2>1, <2>2 DEF ReadInv
<1>4. CASE Again
  <2>1. Start'  BY <1>4 DEF Again, Start, NormInv
  <2>2. (Start => ReadInv)'  BY ReadStart, PTL
  <2> QED BY <2>1, <2>2
<1>5. CASE Finished
  <2>1. stage = "done" /\ UNCHANGED nvars  BY <1>5 DEF Finished
  <2>2. ReadingKept'
    BY <2>1 DEF ReadInv, ReadingKept, nvars, FormatUnnamed, Windows, Valid, IsCygwin, IsMinGW
  <2> QED BY <2>1, <2>2 DEF ReadInv, nvars
<1> QED BY <1>1, <1>2, <1>3, <1>4, <1>5 DEF NNext

LEMMA ReadInvariant == USpec => []ReadInv
<1>1. ASSUME UInit, NormInv  PROVE ReadInv
  <2>1. Start  BY <1>1 DEF UInit, NInit, Start, NormInv
  <2> QED BY <2>1, ReadStart
<1>2. ASSUME NormInv, ReadInv, [UNext]_uvars  PROVE ReadInv'
  <2>1. CASE Normalize  BY <1>2, <2>1, ReadStep DEF Normalize
  <2>2. CASE ConstructTriple
    <3>1. stage' = "returned"  BY <2>2 DEF ConstructTriple
    <3> QED BY <3>1 DEF ReadInv, ReadingKept
  <2>3. CASE UNCHANGED <<input, components, found, pos, comp, idx, kinds, stage, first>>
    <3>1. ReadingKept'
      BY <1>2, <2>3 DEF ReadInv, ReadingKept, FormatUnnamed, Windows, Valid, IsCygwin, IsMinGW
    <3>2. Ordered' <=> Ordered  BY <2>3 DEF Ordered, Valid, IsCygwin, IsMinGW
    <3>3. OrderedIs' <=> OrderedIs  BY <2>3 DEF OrderedIs, SystemRead, IsCygwin, IsMinGW
    <3>4. KindsFit(kinds)' <=> KindsFit(kinds)  BY <2>3 DEF KindsFit
    <3> QED BY <1>2, <2>3, <3>1, <3>2, <3>3, <3>4 DEF ReadInv, KeptIs
  <2>4. Normalize \/ ConstructTriple
          \/ UNCHANGED <<input, components, found, pos, comp, idx, kinds, stage, first>>
    BY <1>2 DEF UNext, ChangeTriple, AskForVariant, LinkModule, ChooseTarget, Ended, Constructed, uvars
  <2> QED BY <2>1, <2>2, <2>3, <2>4
<1> QED BY <1>1, <1>2, NormInvariant, PTL DEF USpec

\* What the constructor reads in its place in a string, it reads in its normal form,
\* but for what SUSE, MinGW and Cygwin stand for and the formats exempted.
THEOREM ReadingKeptUses == USpec => []ReadingKept
<1>1. ReadInv => ReadingKept  BY DEF ReadInv
<1> QED BY <1>1, ReadInvariant, PTL

----------------------------------------------------------------------------
(* What is left where it is by the search.                                 *)

\* Words that name a format, and the word "unknown", name nothing else.
LEMMA FormatsOnly ==
  /\ \A w : ParseFormat(w) # "UnknownObjectFormat" => \A p \in 1 .. 3 : ~Valid(p, w)
  /\ \A p \in Places : ~Valid(p, "unknown")
<1> DEFINE W == {"coff", "elf", "macho", "wasm", "xcoff", "goff", "gnuelf"}
<1>1. \A w : ParseFormat(w) # "UnknownObjectFormat" => w \in W
  BY DEF ParseFormat, Lookup, Formats
<1>2. \A w \in W \cup {"unknown"} : ParseArch(w) = "UnknownArch"
  BY DEF ParseArch, Alias, ARMWords, Arch, Arch16, Arch32, Arch64
<1>3. \A w \in W \cup {"unknown"} : ParseVendor(w) = "UnknownVendor"
  BY DEF ParseVendor, Lookup, Vendors
<1>4. \A w \in W \cup {"unknown"} : ParseOS(w) = "UnknownOS"
  BY DEF ParseOS, Lookup, Systems, AppleWords
<1>5. \A w \in W \cup {"unknown"} : ~IsMinGW(w) /\ ~IsCygwin(w)
  BY DEF IsMinGW, IsCygwin
<1>6. ParseEnvironment("unknown") = "UnknownEnvironment" /\ ParseFormat("unknown") = "UnknownObjectFormat"
  BY DEF ParseEnvironment, ParseFormat, Lookup, Environments, Formats
<1>7. \A w \in W \cup {"unknown"} : \A p \in 1 .. 3 : ~Valid(p, w)
  BY <1>2, <1>3, <1>4, <1>5 DEF Valid
<1>8. ~Valid(4, "unknown")  BY <1>6 DEF Valid
<1> HIDE DEF W
<1>9. \A p \in Places : p \in 1 .. 3 \/ p = 4  BY DEF Places
<1> QED BY <1>1, <1>7, <1>8, <1>9

LEMMA ReadValid ==
  \A p \in Places : \A w : Reads(p, w) # Unknown(p) => Valid(p, w)
BY DEF Places, Reads, Unknown, Valid

\* What is before `at` stays.
IsBefore(s, e, n, at) == \A k \in 1 .. n : k < at => e[k] = s[k]

LEMMA InsertedBefore ==
  ASSUME NEW s, NEW n, n = Len(s), n \in Nat, NEW at \in 1 .. n, at \notin found,
         \A k \in found : k <= n,
         NEW word, NEW e, e = Insert(s, at, word)
  PROVE  IsBefore(s, e, n, at)
<1> DEFINE F == Yielding(n, at)
           h == Hole(s, n, at)
           L == End(n, h)
<1>0. n + 1 \notin found
  <2>1. ~(n + 1 <= n)  OBVIOUS
  <2> QED BY <2>1
<1>1. F \subseteq Nat /\ \A k \in F : at <= k  BY <1>0, YieldingIs
<1>2. L = IF h = n + 1 THEN n + 1 ELSE n  BY <1>0, YieldingIs
<1>3. e = [k \in 1 .. L |-> IF k = at THEN word
                            ELSE IF k \in F /\ k <= h THEN s[Previous(F, k)] ELSE s[k]]
  <2>1. IsSpread(e, s, at, word, n, F, h)  BY InsertWith
  <2> QED BY <2>1 DEF IsSpread
<1> HIDE DEF F, h, L
<1> SUFFICES ASSUME NEW k \in 1 .. n, k < at  PROVE e[k] = s[k]
  BY DEF IsBefore
<1>4. k \in 1 .. L /\ k # at /\ k \notin F  BY <1>1, <1>2
<1> QED BY <1>3, <1>4

LEMMA NextFreeIs ==
  ASSUME NEW n \in Nat, NEW at \in 1 .. n, \A k \in found : k <= n,
         NEW next, next = NextFree(n, at)
  PROVE  next \in Nat /\ at < next /\ \A k \in Nat : at < k /\ k < next => k \in found
<1> DEFINE T == {k \in at + 1 .. n + 5 : k \notin found}
<1>1. n + 1 \in T
  <2>1. ~(n + 1 <= n) /\ n + 1 \in at + 1 .. n + 5  OBVIOUS
  <2> QED BY <2>1
<1>2. T \subseteq Nat  OBVIOUS
<1>3. next = Min(T)  BY DEF NextFree
<1>4. next \in T /\ \A m \in T : next <= m
  <2> HIDE DEF T
  <2> QED BY <1>1, <1>2, <1>3, Least
<1>5. next \in Nat /\ at < next /\ next <= n + 5  BY <1>4
<1> SUFFICES ASSUME NEW k \in Nat, at < k, k < next, k \notin found  PROVE FALSE
  BY <1>5
<1>6. k \in T  BY <1>5
<1>7. next <= k  BY <1>4, <1>6
<1> HIDE DEF T
<1> QED BY <1>5, <1>7

\* A final component is valid for its position, and the system is read from its own; what
\* is left of the component that is moved, or of an object format that stands for the
\* environment, is no candidate.
LeftIs ==
  /\ \A p \in found : Valid(p, components[p])
  /\ 3 \in found => SystemRead(kinds, components[3])
  /\ kinds.mingw \/ kinds.cygwin => 3 \in 1 .. Len(components) \/ (stage = "move" /\ pos = 3)
  /\ stage = "move" => /\ Valid(pos, comp)
                       /\ pos = 3 => SystemRead(kinds, comp)
                       /\ \A k \in FreePlaces : k < idx => ~Valid(pos, components[k])
  /\ 4 \in found => \/ ParseEnvironment(components[4]) # "UnknownEnvironment"
                    \/ stage = "settle" /\ \A k \in FreePlaces : k < 4 => ~Valid(4, components[k])

LEMMA LeftStart == Start => LeftIs
<1> SUFFICES ASSUME Start  PROVE LeftIs  OBVIOUS
<1>1. SearchIs /\ IsWords(components)  BY Started DEF Start, NormInv
<1>2. \A p \in found : Reads(p, components[p]) # Unknown(p) /\ p \in Places
  <2>1. found = {p \in Places : Kind(kinds, p) # Unknown(p)}  BY KindsFound DEF Start
  <2> QED BY <1>1, <2>1 DEF SearchIs
<1>3. SystemRead(kinds, WordOf(components, 3))  BY KindsStart DEF Start
<1>4. \A k \in 1 .. Len(components) : WordOf(components, k) = components[k]
  <2> SUFFICES ASSUME NEW k \in 1 .. Len(components)  PROVE WordOf(components, k) = components[k]
    OBVIOUS
  <2>1. Len(components) >= k  OBVIOUS
  <2> QED BY <2>1 DEF WordOf
<1>5. 3 \in found => SystemRead(kinds, components[3])  BY <1>1, <1>3, <1>4 DEF SearchIs
<1>6. kinds.mingw \/ kinds.cygwin => 3 \in 1 .. Len(components)
  <2> DEFINE n == Len(components)
  <2>1. ~(n >= 3) => WordOf(components, 3) = Blank  BY Zenon DEF WordOf, Blank
  <2>2. ~IsMinGW(Blank) /\ ~IsCygwin(Blank)  BY DEF Blank, IsMinGW, IsCygwin
  <2>3. n >= 3 \/ ~(kinds.mingw \/ kinds.cygwin)  BY <1>3, <2>1, <2>2 DEF SystemRead
  <2>4. n \in Nat  BY <1>1 DEF IsWords
  <2> HIDE DEF n
  <2>5. n >= 3 => 3 \in 1 .. n  BY <2>4
  <2> QED BY <2>3, <2>5 DEF n
<1>7. 4 \in found => ParseEnvironment(components[4]) # "UnknownEnvironment"
  <2> HAVE 4 \in found
  <2>1. Reads(4, components[4]) # Unknown(4)  BY <1>2
  <2> QED BY <2>1 DEF Reads, Unknown
<1>8. \A p \in found : Valid(p, components[p])  BY <1>2, ReadValid
<1>9. stage # "move"  BY DEF Start
<1> QED BY <1>5, <1>6, <1>7, <1>8, <1>9 DEF LeftIs

\* A search in vain leaves no system.
LEMMA SystemVain ==
  ASSUME NormInv, NoComponent
  PROVE  /\ kinds' = kinds \/ IF pos = 3 THEN ~kinds'.mingw /\ ~kinds'.cygwin
                              ELSE SystemSame(kinds', kinds)
         /\ pos # 4 => kinds'.format = kinds.format
<1>1. /\ stage = "find" /\ Candidates = {}  BY DEF NoComponent
<1>2. SearchIs /\ pos \in Places  BY <1>1 DEF NormInv
<1> DEFINE free == Free(components, 1)
           last == Max(free)
<1>3. kinds' = IF free = {} THEN kinds ELSE KindsAfter(last, free \ {last})
  BY DEF NoComponent
<1>4. CASE free = {}
  <2>1. kinds' = kinds  BY <1>3, <1>4
  <2> QED BY <2>1
<1>5. CASE free # {}
  <2>1. last \in free
    <3> DEFINE n == Len(components)
    <3>1. n \in Nat /\ free \subseteq Nat /\ \A m \in free : m <= n
      BY DEF Free, NormInv, IsWords
    <3> HIDE DEF free, n
    <3>2. Max(free) \in free  BY <1>5, <3>1, Greatest
    <3> QED BY <3>2
  <2>2. ~Valid(pos, components[last])  BY <1>1, <2>1 DEF Candidates
  <2>3. kinds' = KindsAfter(last, free \ {last})  BY <1>3, <1>5
  <2> HIDE DEF free, last
  <2>4. /\ pos = 3 => SystemRead(kinds', components[last])
        /\ pos # 3 => SystemSame(kinds', kinds)
        /\ pos # 4 => kinds'.format = kinds.format
    BY <1>2, <2>3, SystemTried DEF SearchIs
  <2>5. pos = 3 => ~IsMinGW(components[last]) /\ ~IsCygwin(components[last])
    BY <2>2 DEF Valid
  <2> QED BY <2>4, <2>5 DEF SystemRead
<1> QED BY <1>4, <1>5

LEMMA LeftVain ==
  ASSUME NormInv, LeftIs, NoComponent
  PROVE  LeftIs'
<1>1. /\ stage = "find" /\ pos \notin found
      /\ pos' = pos + 1 /\ stage' = IF pos = 4 THEN "settle" ELSE "find"
      /\ UNCHANGED <<components, found>>
  BY DEF NoComponent, Advance
<1>2. kinds' = kinds \/ IF pos = 3 THEN ~kinds'.mingw /\ ~kinds'.cygwin ELSE SystemSame(kinds', kinds)
  BY SystemVain
<1>3. stage' # "move" /\ stage # "move" /\ stage # "settle"  BY <1>1
<1>4. (\A p \in found : Valid(p, components[p]))'
  BY <1>1 DEF LeftIs, Valid, IsMinGW, IsCygwin
<1>5. (3 \in found => SystemRead(kinds, components[3]))'
  <2> SUFFICES ASSUME 3 \in found  PROVE SystemRead(kinds', components[3])
    BY <1>1 DEF SystemRead, IsMinGW, IsCygwin
  <2>1. pos # 3 /\ SystemRead(kinds, components[3])  BY <1>1 DEF LeftIs
  <2> QED BY <1>2, <2>1 DEF SystemRead, SystemSame
<1>6. kinds'.mingw \/ kinds'.cygwin => 3 \in 1 .. Len(components)
  BY <1>2, <1>3 DEF LeftIs, SystemSame
<1>7. 4 \in found => ParseEnvironment(components[4]) # "UnknownEnvironment"
  BY <1>3 DEF LeftIs
<1> QED BY <1>1, <1>3, <1>4, <1>5, <1>6, <1>7 DEF LeftIs

LEMMA LeftFound ==
  ASSUME NormInv, LeftIs, AlreadyFound
  PROVE  LeftIs'
<1>1. /\ stage = "find" /\ pos \in found /\ stage' \in {"find", "settle"}
      /\ UNCHANGED <<components, found, kinds>>
  BY DEF AlreadyFound, Advance
<1>4. stage' # "move" /\ stage # "move" /\ stage # "settle"  BY <1>1
<1>5. (\A p \in found : Valid(p, components[p]))'
  BY <1>1 DEF LeftIs, Valid, IsMinGW, IsCygwin
<1>6. (3 \in found => SystemRead(kinds, components[3]))'
  BY <1>1 DEF LeftIs, SystemRead, IsMinGW, IsCygwin
<1>8. 4 \in found => ParseEnvironment(components[4]) # "UnknownEnvironment"
  BY <1>4 DEF LeftIs
<1>9. kinds.mingw \/ kinds.cygwin => 3 \in 1 .. Len(components)  BY <1>4 DEF LeftIs
<1> QED BY <1>1, <1>4, <1>5, <1>6, <1>8, <1>9 DEF LeftIs

LEMMA LeftCandidate ==
  ASSUME NormInv, LeftIs, FindComponent
  PROVE  LeftIs'
<1>1. /\ stage = "find" /\ pos \notin found /\ Candidates # {}
      /\ idx' = Min(Candidates) /\ comp' = components[idx'] /\ stage' = "move"
      /\ UNCHANGED <<components, found, pos>>
  BY DEF FindComponent
<1>2. SearchIs /\ pos \in Places  BY <1>1 DEF NormInv
<1>3. PICK others : kinds' = KindsAfter(idx', others)  BY DEF FindComponent
<1>4. /\ pos = 3 => SystemRead(kinds', comp')
      /\ pos # 3 => SystemSame(kinds', kinds)
  <2> DEFINE last == idx'
  <2> HIDE DEF last
  <2>1. kinds' = KindsAfter(last, others)  BY <1>3 DEF last
  <2>2. /\ pos = 3 => SystemRead(kinds', components[last])
        /\ pos # 3 => SystemSame(kinds', kinds)
    BY <1>2, <2>1, SystemTried DEF SearchIs
  <2> QED BY <1>1, <2>2 DEF last
<1>5. Valid(pos, comp') /\ \A k \in FreePlaces : k < idx' => ~Valid(pos, components[k])
  <2> DEFINE T == Candidates
  <2>1. T \subseteq Nat  BY DEF Candidates, Free
  <2>2. \A k \in FreePlaces : Valid(pos, components[k]) => k \in T
    BY DEF Candidates, Free, FreePlaces
  <2>3. \A k \in T : Valid(pos, components[k])  BY DEF Candidates
  <2> HIDE DEF T
  <2>4. idx' \in T /\ \A m \in T : idx' <= m  BY <1>1, <2>1, Least DEF T
  <2>5. \A m \in T : ~(m < idx')  BY <2>1, <2>4
  <2> QED BY <1>1, <2>2, <2>3, <2>4, <2>5
<1>6. (\A p \in found : Valid(p, components[p]))'
  BY <1>1 DEF LeftIs, Valid, IsMinGW, IsCygwin
<1>7. (3 \in found => SystemRead(kinds, components[3]))'
  <2> SUFFICES ASSUME 3 \in found  PROVE SystemRead(kinds', components[3])
    BY <1>1 DEF SystemRead, IsMinGW, IsCygwin
  <2>1. pos # 3 /\ SystemRead(kinds, components[3])  BY <1>1 DEF LeftIs
  <2> QED BY <1>4, <2>1 DEF SystemRead, SystemSame
<1>8. kinds'.mingw \/ kinds'.cygwin => 3 \in 1 .. Len(components) \/ pos = 3
  BY <1>1, <1>4 DEF LeftIs, SystemSame
<1>9. 4 \in found => ParseEnvironment(components[4]) # "UnknownEnvironment"
  BY <1>1 DEF LeftIs
<1>10. (stage = "move" => /\ Valid(pos, comp)
                          /\ pos = 3 => SystemRead(kinds, comp)
                          /\ \A k \in FreePlaces : k < idx => ~Valid(pos, components[k]))'
  <2>1. FreePlaces' = FreePlaces  BY <1>1 DEF FreePlaces
  <2>2. pos = 3 => SystemRead(kinds, comp)'  BY <1>4 DEF SystemRead, IsMinGW, IsCygwin
  <2>3. Valid(pos, comp)'  BY <1>1, <1>5 DEF Valid, IsMinGW, IsCygwin
  <2>4. (\A k \in FreePlaces : k < idx => ~Valid(pos, components[k]))'
    BY <1>1, <1>5, <2>1 DEF Valid, IsMinGW, IsCygwin
  <2> QED BY <1>1, <2>2, <2>3, <2>4
<1> QED BY <1>1, <1>6, <1>7, <1>8, <1>9, <1>10 DEF LeftIs

\* What a move leaves of it.
LEMMA LeftMoved ==
  ASSUME NormInv, LeftIs, stage = "move", UNCHANGED <<found, pos, comp, kinds, stage>>,
         Len(components') \in Nat, Len(components') >= Len(components),
         \A k \in 1 .. Len(components) : k \in found => components'[k] = components[k],
         \A k \in FreePlaces' : k < idx' =>
           components'[k] = Blank \/ (k \in FreePlaces /\ k < idx /\ components'[k] = components[k])
  PROVE  LeftIs'
<1>1. SearchIs /\ pos \in Places  BY DEF NormInv
<1>2. \A p \in found : components'[p] = components[p]  BY <1>1 DEF SearchIs
<1>3. (\A p \in found : Valid(p, components[p]))'
  BY <1>2 DEF LeftIs, Valid, IsMinGW, IsCygwin
<1>4. (3 \in found => SystemRead(kinds, components[3]))'
  BY <1>2 DEF LeftIs, SystemRead, IsMinGW, IsCygwin
<1>5. 3 \in 1 .. Len(components) => 3 \in 1 .. Len(components')
  <2> DEFINE n == Len(components)
             m == Len(components')
  <2>1. n \in Nat /\ m \in Nat /\ m >= n  BY DEF NormInv, IsWords
  <2> HIDE DEF n, m
  <2>2. 3 \in 1 .. n => 3 \in 1 .. m  BY <2>1
  <2> QED BY <2>2 DEF n, m
<1>6. \A k \in FreePlaces' : k < idx' => ~Valid(pos, components'[k])
  <2>1. \A k \in FreePlaces : k < idx => ~Valid(pos, components[k])  BY DEF LeftIs
  <2>2. ~Valid(pos, Blank)  BY <1>1, BlankRead
  <2> QED BY <2>1, <2>2
<1>7. (stage = "move" => /\ Valid(pos, comp)
                         /\ pos = 3 => SystemRead(kinds, comp)
                         /\ \A k \in FreePlaces : k < idx => ~Valid(pos, components[k]))'
  <2>1. Valid(pos, comp) /\ (pos = 3 => SystemRead(kinds, comp))  BY DEF LeftIs
  <2>2. Valid(pos, comp)'  BY <2>1 DEF Valid, IsMinGW, IsCygwin
  <2>3. (pos = 3 => SystemRead(kinds, comp))'  BY <2>1 DEF SystemRead, IsMinGW, IsCygwin
  <2>4. (\A k \in FreePlaces : k < idx => ~Valid(pos, components[k]))'
    BY <1>6 DEF Valid, IsMinGW, IsCygwin
  <2> QED BY <2>2, <2>3, <2>4
<1>8. 4 \in found => ParseEnvironment(components[4]) # "UnknownEnvironment"  BY DEF LeftIs
<1>9. (kinds.mingw \/ kinds.cygwin => 3 \in 1 .. Len(components) \/ (stage = "move" /\ pos = 3))'
  BY <1>5 DEF LeftIs
<1> QED BY <1>2, <1>3, <1>4, <1>7, <1>8, <1>9 DEF LeftIs

LEMMA LeftMoveLeft ==
  ASSUME NormInv, LeftIs, MoveLeft
  PROVE  LeftIs'
<1> DEFINE n == Len(components)
           e == components'
           c == [components EXCEPT ![idx] = Blank]
<1>1. /\ stage = "move" /\ pos < idx
      /\ UNCHANGED <<found, pos, comp, kinds, stage>>
      /\ e = Insert(c, pos, comp) /\ idx' = pos
  BY Zenon DEF MoveLeft, Blank
<1>2. SearchIs /\ MoveIs /\ pos \in 1 .. 4  BY <1>1 DEF NormInv, Places
<1>3. n \in Nat /\ DOMAIN components = 1 .. n /\ idx \in 1 .. n /\ idx \notin found
  BY <1>2, LenProperties DEF NormInv, IsWords, MoveIs, FreePlaces
<1>4. IsWords(c) /\ Len(c) = n /\ \A k \in 1 .. n : c[k] = IF k = idx THEN Blank ELSE components[k]
  <2>1. DOMAIN c = 1 .. n /\ c = [k \in 1 .. n |-> c[k]]  BY <1>3
  <2>2. \A k \in 1 .. n : c[k] = IF k = idx THEN Blank ELSE components[k]  BY <1>3
  <2> HIDE DEF c, n
  <2> QED BY <1>3, <2>1, <2>2, FunctionWords
<1>5. e = Insert(c, pos, comp)  BY <1>1
<1> HIDE DEF n, e, c
<1>6. pos \in 1 .. n /\ pos \notin found /\ \A k \in found : k <= n
  <2>1. pos \in 1 .. n  BY <1>1, <1>2, <1>3
  <2>2. \A k \in found : k \in 1 .. n  BY <1>2 DEF SearchIs, n
  <2> QED BY <1>2, <1>3, <2>1, <2>2 DEF MoveIs
<1>7. IsInserted(c, e, pos, comp)  BY <1>3, <1>4, <1>5, <1>6, Inserted
<1>8. \A k \in 1 .. n : k < pos => e[k] = c[k]
  <2>1. IsBefore(c, e, n, pos)  BY <1>3, <1>4, <1>5, <1>6, InsertedBefore
  <2> QED BY <2>1 DEF IsBefore
<1>9. Len(e) \in Nat /\ Len(e) >= n /\ \A k \in 1 .. n : k \in found => e[k] = c[k]
  BY <1>4, <1>7 DEF IsInserted
<1>10. \A k \in 1 .. n : k \in found => e[k] = components[k]  BY <1>3, <1>4, <1>9
<1>11. ASSUME NEW k \in FreePlaces', k < idx'
       PROVE  e[k] = Blank \/ (k \in FreePlaces /\ k < idx /\ e[k] = components[k])
  <2>1. k \in 1 .. Len(e) /\ k \notin found  BY <1>1 DEF FreePlaces, e
  <2> DEFINE l == Len(e)
  <2>2. l \in Nat /\ k \in 1 .. l  BY <1>9, <2>1
  <2> HIDE DEF l
  <2>3. k \in 1 .. n /\ k < pos /\ k < idx /\ k # idx  BY <1>1, <1>3, <1>6, <1>11, <2>2
  <2>4. e[k] = components[k]  BY <1>4, <1>8, <2>3
  <2>5. k \in FreePlaces  BY <2>1, <2>3 DEF FreePlaces, n
  <2> QED BY <2>3, <2>4, <2>5
<1> QED BY <1>1, <1>9, <1>10, <1>11, LeftMoved DEF n, e

LEMMA LeftPushRight ==
  ASSUME NormInv, LeftIs, PushRight
  PROVE  LeftIs'
<1> DEFINE n == Len(components)
           e == components'
<1>1. /\ stage = "move" /\ idx < pos
      /\ UNCHANGED <<found, pos, comp, kinds, stage>>
      /\ e = Insert(components, idx, Blank) /\ idx' = NextFree(n, idx)
  BY Zenon DEF PushRight, Blank, NextFree
<1>2. SearchIs /\ MoveIs /\ pos \in 1 .. 4  BY <1>1 DEF NormInv, Places
<1>3. n \in Nat /\ idx \in 1 .. n /\ idx \notin found
  BY <1>2 DEF NormInv, IsWords, MoveIs, FreePlaces
<1> HIDE DEF n, e
<1>6. \A k \in found : k <= n
  <2>2. \A k \in found : k \in 1 .. n  BY <1>2 DEF SearchIs, n
  <2> QED BY <2>2
<1>7. IsInserted(components, e, idx, Blank)  BY <1>1, <1>3, <1>6, Inserted DEF n
<1>8. \A k \in 1 .. n : k < idx => e[k] = components[k]
  <2>1. IsBefore(components, e, n, idx)  BY <1>1, <1>3, <1>6, InsertedBefore DEF n
  <2> QED BY <2>1 DEF IsBefore
<1>9. /\ Len(e) \in Nat /\ Len(e) >= n /\ e[idx] = Blank
      /\ \A k \in 1 .. n : k \in found => e[k] = components[k]
  BY <1>7 DEF IsInserted, n
<1>10. idx' \in Nat /\ idx < idx' /\ \A k \in Nat : idx < k /\ k < idx' => k \in found
  <2> DEFINE next == idx'
             at == idx
  <2>1. next = NextFree(n, at) /\ at \in 1 .. n  BY <1>1, <1>3
  <2> HIDE DEF next, at
  <2>2. next \in Nat /\ at < next /\ \A k \in Nat : at < k /\ k < next => k \in found
    BY <1>3, <1>6, <2>1, NextFreeIs
  <2> QED BY <2>2 DEF next, at
<1>11. ASSUME NEW k \in FreePlaces', k < idx'
       PROVE  e[k] = Blank \/ (k \in FreePlaces /\ k < idx /\ e[k] = components[k])
  <2>1. k \in 1 .. Len(e) /\ k \notin found  BY <1>1 DEF FreePlaces, e
  <2> DEFINE l == Len(e)
  <2>2. l \in Nat /\ k \in 1 .. l  BY <1>9, <2>1
  <2> HIDE DEF l
  <2>3. k \in Nat /\ k >= 1 /\ ~(idx < k)  BY <1>10, <1>11, <2>1, <2>2
  <2>4. CASE k = idx  BY <1>9, <2>4
  <2>5. CASE k # idx
    <3>1. k < idx /\ k \in 1 .. n  BY <1>3, <2>3, <2>5
    <3>2. k \in FreePlaces  BY <2>1, <3>1 DEF FreePlaces, n
    <3> QED BY <1>8, <3>1, <3>2
  <2> QED BY <2>4, <2>5
<1> QED BY <1>1, <1>9, <1>11, LeftMoved DEF n, e

LEMMA LeftFix ==
  ASSUME NormInv, LeftIs, Fix
  PROVE  LeftIs'
<1>1. /\ stage = "move" /\ idx = pos /\ found' = found \cup {pos}
      /\ stage' = (IF pos = 4 THEN "settle" ELSE "find")
      /\ UNCHANGED <<components, kinds>>
  BY DEF Fix, Advance
<1>2. SearchIs /\ MoveIs /\ pos \in 1 .. 4  BY <1>1 DEF NormInv, Places
<1>3. components[pos] = comp /\ pos \in 1 .. Len(components)
  BY <1>1, <1>2 DEF MoveIs, FreePlaces
<1>4. Valid(pos, comp) /\ (pos = 3 => SystemRead(kinds, comp))
      /\ \A k \in FreePlaces : k < idx => ~Valid(pos, components[k])
  BY <1>1 DEF LeftIs
<1>5. (\A p \in found : Valid(p, components[p]))'
  <2>1. \A p \in found' : Valid(p, components[p])  BY <1>1, <1>3, <1>4 DEF LeftIs
  <2> QED BY <1>1, <2>1 DEF Valid, IsMinGW, IsCygwin
<1>6. (3 \in found => SystemRead(kinds, components[3]))'
  <2>1. 3 \in found' => SystemRead(kinds, components[3])  BY <1>1, <1>3, <1>4 DEF LeftIs
  <2> QED BY <1>1, <2>1 DEF SystemRead, IsMinGW, IsCygwin
<1>7. kinds.mingw \/ kinds.cygwin => 3 \in 1 .. Len(components)  BY <1>1, <1>3 DEF LeftIs
<1>8. stage' # "move"  BY <1>1
<1>9. FreePlaces' \subseteq FreePlaces  BY <1>1 DEF FreePlaces
<1>10. (4 \in found => \/ ParseEnvironment(components[4]) # "UnknownEnvironment"
                       \/ stage = "settle" /\ \A k \in FreePlaces : k < 4 => ~Valid(4, components[k]))'
  <2>1. CASE pos = 4
    <3>1. \A k \in FreePlaces' : k < 4 => ~Valid(4, components[k])  BY <1>1, <1>4, <1>9, <2>1
    <3>2. (\A k \in FreePlaces : k < 4 => ~Valid(4, components[k]))'
      BY <1>1, <3>1 DEF Valid, IsMinGW, IsCygwin
    <3> QED BY <1>1, <2>1, <3>2
  <2>2. CASE pos # 4
    <3>1. 4 \in found' => 4 \in found  BY <1>1, <2>2
    <3>2. 4 \in found => ParseEnvironment(components[4]) # "UnknownEnvironment"  BY <1>1 DEF LeftIs
    <3> QED BY <1>1, <3>1, <3>2
  <2> QED BY <2>1, <2>2
<1> QED BY <1>1, <1>5, <1>6, <1>7, <1>8, <1>10 DEF LeftIs

----------------------------------------------------------------------------
(* The normal form.                                                        *)

\* The positions a string has its kinds in, and what is at the others.
Fixed(r)  == {p \in Places : Reads(p, WordOf(r, p)) # Unknown(p)}
Others(r) == {k \in 1 .. Len(r) : k \notin Fixed(r)}

\* No component is sought elsewhere: none is a candidate but an object format that is
\* where the environment belongs.
InPlace(r) ==
  /\ \A p \in 1 .. 3 : p \notin Fixed(r) => \A k \in Others(r) : ~Valid(p, r[k])
  /\ 4 \notin Fixed(r) => \A k \in Others(r) : Valid(4, r[k]) => k = 4 \/ (k > 4 /\ Valid(4, r[4]))

\* The word names a format that a Windows triple is given.
NamesOne(w) ==
  /\ ParseFormat(w) \notin {"UnknownObjectFormat", "COFF"}
  /\ w = ObjectFormatTypeName[ParseFormat(w)]

WindowsInPlace(r) ==
  /\ Len(r) \in {4, 5} /\ r[3] = "windows"
  /\ Len(r) = 5 => Reads(4, r[4]) # Unknown(4) /\ NamesOne(r[5])
  /\ Reads(4, r[4]) = Unknown(4) => Len(r) = 4 /\ NamesOne(r[4])

\* Nothing is left to the special cases either.
IsNormal(r) ==
  /\ \A k \in 1 .. Len(r) : r[k] # Blank
  /\ InPlace(r)
  /\ WordOf(r, 4) \notin DOMAIN OldAndroid
  /\ ~(ParseVendor(WordOf(r, 2)) = "SUSE" /\ ParseEnvironment(WordOf(r, 4)) = "GNUEABI")
  /\ ~IsMinGW(WordOf(r, 3)) /\ ~IsCygwin(WordOf(r, 3))
  /\ ParseOS(WordOf(r, 3)) = "Win32" => WindowsInPlace(r)

LEMMA WordIs ==
  ASSUME NEW d, Len(d) \in Nat, NEW k \in Nat, k >= 1
  PROVE  WordOf(d, k) = IF k \in 1 .. Len(d) THEN d[k] ELSE Blank
<1> DEFINE n == Len(d)
<1>1. n >= k => WordOf(d, k) = d[k]  BY DEF WordOf
<1>2. ~(n >= k) => WordOf(d, k) = Blank  BY Zenon DEF WordOf, Blank
<1> HIDE DEF n
<1>3. n \in Nat  BY DEF n
<1>4. n >= k <=> k \in 1 .. n  BY <1>3
<1> QED BY <1>1, <1>2, <1>4 DEF n

\* What the search has left when all positions have been sought.
LEMMA LeftSettled ==
  ASSUME NormInv, LeftIs, stage = "settle"
  PROVE  /\ \A p \in Places : Reads(p, WordOf(components, p)) # Unknown(p) => p \in found
         /\ \A p \in {1, 2} : p \in found => Reads(p, WordOf(components, p)) # Unknown(p)
         /\ 3 \in found /\ ~Windows => Reads(3, WordOf(components, 3)) # Unknown(3)
         /\ \A p \in Places : p \notin found => \A k \in FreePlaces : ~Valid(p, components[k])
         /\ 4 \in found /\ kinds.env = "UnknownEnvironment" =>
              /\ 4 \in 1 .. Len(components) /\ ParseFormat(components[4]) # "UnknownObjectFormat"
              /\ \A k \in FreePlaces : k < 4 => ~Valid(4, components[k])
         /\ Windows => 3 \in 1 .. Len(components)
         /\ ~Windows => ~IsMinGW(WordOf(components, 3)) /\ ~IsCygwin(WordOf(components, 3))
<1>1. SearchIs /\ pos = 5 /\ Len(components) \in Nat  BY DEF NormInv, IsWords
<1>2. \A p \in Places : Kind(kinds, p) = Reads(p, WordOf(components, p))  BY KindsSettled
<1>3. \A p \in Places : WordOf(components, p) = IF p \in 1 .. Len(components) THEN components[p] ELSE Blank
  <2>1. \A p \in Places : p \in Nat /\ p >= 1  BY DEF Places
  <2> QED BY <1>1, <2>1, WordIs
<1>4. \A p \in found : WordOf(components, p) = components[p] /\ p \in Places /\ p \in 1 .. Len(components)
  BY <1>1, <1>3 DEF SearchIs
<1>5. \A p \in Places : Reads(p, WordOf(components, p)) # Unknown(p) => p \in found
  BY <1>1, <1>2 DEF SearchIs
<1>6. \A p \in found : Valid(p, components[p])  BY DEF LeftIs
<1>7. \A p \in {1, 2} : p \in found => Reads(p, WordOf(components, p)) # Unknown(p)
  <2> SUFFICES ASSUME NEW p \in {1, 2}, p \in found  PROVE Reads(p, WordOf(components, p)) # Unknown(p)
    OBVIOUS
  <2>1. Valid(p, WordOf(components, p))  BY <1>4, <1>6
  <2> QED BY <2>1 DEF Valid, Reads, Unknown
<1>8. 3 \in found => SystemRead(kinds, WordOf(components, 3)) /\ Valid(3, WordOf(components, 3))
  BY <1>4, <1>6 DEF LeftIs
<1>9. 3 \in found /\ ~Windows => Reads(3, WordOf(components, 3)) # Unknown(3)
  <2> HAVE 3 \in found /\ ~Windows
  <2>1. ~kinds.mingw /\ ~kinds.cygwin  BY DEF Windows
  <2>2. ParseOS(WordOf(components, 3)) # "UnknownOS"  BY <1>8, <2>1 DEF SystemRead, Valid
  <2> QED BY <2>2 DEF Reads, Unknown
<1>10. \A p \in Places : p \notin found => \A k \in FreePlaces : ~Valid(p, components[k])
  <2>1. \A p \in Places : p < pos  BY <1>1 DEF Places
  <2> QED BY <1>1, <2>1 DEF SearchIs
<1>11. 4 \in found /\ kinds.env = "UnknownEnvironment" =>
         /\ 4 \in 1 .. Len(components) /\ ParseFormat(components[4]) # "UnknownObjectFormat"
         /\ \A k \in FreePlaces : k < 4 => ~Valid(4, components[k])
  <2> HAVE 4 \in found /\ kinds.env = "UnknownEnvironment"
  <2>1. kinds.env = ParseEnvironment(WordOf(components, 4))  BY KindsRead
  <2>2. WordOf(components, 4) = components[4] /\ 4 \in 1 .. Len(components)  BY <1>4
  <2>3. Valid(4, components[4])  BY <1>6
  <2>4. ParseFormat(components[4]) # "UnknownObjectFormat"  BY <2>1, <2>2, <2>3 DEF Valid
  <2>5. \A k \in FreePlaces : k < 4 => ~Valid(4, components[k])  BY <2>1, <2>2 DEF LeftIs
  <2> QED BY <2>2, <2>4, <2>5
<1>12. Windows => 3 \in 1 .. Len(components)
  <2>1. CASE kinds.mingw \/ kinds.cygwin  BY <2>1 DEF LeftIs
  <2>2. CASE kinds.os = "Win32"
    <3>1. Reads(3, WordOf(components, 3)) # Unknown(3)  BY <2>2, KindsRead DEF Reads, Unknown
    <3> QED BY <1>4, <1>5, <3>1 DEF Places
  <2> QED BY <2>1, <2>2 DEF Windows
<1>13. ~Windows => ~IsMinGW(WordOf(components, 3)) /\ ~IsCygwin(WordOf(components, 3))
  <2> HAVE ~Windows
  <2>1. CASE 3 \in found  BY <1>8, <2>1 DEF SystemRead, Windows
  <2>2. CASE 3 \notin found
    <3>1. 3 \in 1 .. Len(components) => ~Valid(3, components[3])
      BY <1>10, <2>2 DEF FreePlaces, Places
    <3>2. ~Valid(3, WordOf(components, 3))  BY <1>3, <3>1, BlankRead DEF Places
    <3> QED BY <3>2 DEF Valid
  <2> QED BY <2>1, <2>2
<1> QED BY <1>5, <1>7, <1>9, <1>10, <1>11, <1>12, <1>13

\* The word of the environment is renamed once.
LEMMA EnvironmentSettled ==
  ASSUME IsWords(components), NEW words, words = Renamed(components), 4 \in 1 .. Len(components),
         kinds.env = ParseEnvironment(components[4])
  PROVE  /\ words[4] \notin DOMAIN OldAndroid /\ words[4] # Blank
         /\ ~(kinds.vendor = "SUSE" /\ ParseEnvironment(words[4]) = "GNUEABI")
         /\ ParseEnvironment(words[4]) = "UnknownEnvironment" <=> kinds.env = "UnknownEnvironment"
         /\ kinds.env = "UnknownEnvironment" =>
              words[4] = IF components[4] = Blank THEN "unknown" ELSE components[4]
<1> DEFINE n == Len(components)
           w == components[4]
           v == words[4]
           e == kinds.env
<1>1. DOMAIN components = 1 .. n  BY LenProperties DEF IsWords
<1> DEFINE Word4(i) ==
      CASE i = 4 /\ components[i] \in DOMAIN OldAndroid /\ kinds.env = "Android"
             -> OldAndroid[components[i]]
        [] i = 4 /\ kinds.vendor = "SUSE" /\ kinds.env = "GNUEABI" -> "gnueabihf"
        [] components[i] = "" -> "unknown"
        [] OTHER -> components[i]
<1>2. words = [i \in DOMAIN components |-> Word4(i)]  BY Zenon DEF Renamed
<1>3. v = Word4(4)
  <2> HIDE DEF Word4
  <2> QED BY <1>1, <1>2
<1> DEFINE suse == kinds.vendor = "SUSE"
<1>4. v = CASE w \in DOMAIN OldAndroid /\ e = "Android" -> OldAndroid[w]
            [] suse /\ e = "GNUEABI" -> "gnueabihf"
            [] w = Blank -> "unknown"
            [] OTHER -> w
  BY <1>3 DEF Blank
<1>5. e = ParseEnvironment(w)  OBVIOUS
<1> HIDE DEF w, v, e, suse, Word4
<1>6. /\ e = "GNUEABI" => w = "gnueabi"
      /\ w = Blank => e = "UnknownEnvironment"
      /\ w \in DOMAIN OldAndroid => e = "Android" /\ w # Blank
  <2>1. \A u : ParseEnvironment(u) = "GNUEABI" => u = "gnueabi"
    BY DEF ParseEnvironment, Lookup, Environments
  <2>2. ParseEnvironment(Blank) = "UnknownEnvironment"  BY EnvironmentsRead DEF Blank
  <2>3. e = "GNUEABI" => w = "gnueabi"  BY <1>5, <2>1
  <2>4. w = Blank => e = "UnknownEnvironment"  BY <1>5, <2>2
  <2>5. \A u \in DOMAIN OldAndroid : ParseEnvironment(u) = "Android"
    BY DEF OldAndroid, ParseEnvironment, Lookup, Environments
  <2>6. w \in DOMAIN OldAndroid => e = "Android"  BY <1>5, <2>5
  <2> QED BY <2>3, <2>4, <2>6
<1>7. /\ v \notin DOMAIN OldAndroid /\ v # Blank
      /\ ~(suse /\ ParseEnvironment(v) = "GNUEABI")
      /\ ParseEnvironment(v) = "UnknownEnvironment" <=> e = "UnknownEnvironment"
      /\ e = "UnknownEnvironment" => v = IF w = Blank THEN "unknown" ELSE w
  <2>1. CASE w \in DOMAIN OldAndroid
    <3>1. v = OldAndroid[w]  BY <1>4, <1>6, <2>1
    <3>2. \A u \in DOMAIN OldAndroid :
            /\ ParseEnvironment(OldAndroid[u]) = "Android" /\ OldAndroid[u] \notin DOMAIN OldAndroid
            /\ OldAndroid[u] # Blank
      <4>1. \A u \in DOMAIN OldAndroid : OldAndroid[u] \in {"android", "android21"}
        BY DEF OldAndroid
      <4>2. \A u \in {"android", "android21"} : ParseEnvironment(u) = "Android"
        BY DEF ParseEnvironment, Lookup, Environments
      <4>3. \A u \in {"android", "android21"} : u \notin DOMAIN OldAndroid  BY DEF OldAndroid
      <4>4. \A u \in {"android", "android21"} : u # Blank  BY DEF Blank
      <4> QED BY <4>1, <4>2, <4>3, <4>4
    <3> QED BY <1>6, <2>1, <3>1, <3>2
  <2>2. CASE suse /\ e = "GNUEABI"
    <3>1. v = "gnueabihf"  BY <1>4, <1>6, <2>2
    <3>2. ParseEnvironment("gnueabihf") = "GNUEABIHF" /\ "gnueabihf" \notin DOMAIN OldAndroid
          /\ "gnueabihf" # Blank
      BY DEF OldAndroid, ParseEnvironment, Lookup, Environments, Blank
    <3> QED BY <2>2, <3>1, <3>2
  <2>3. CASE w \notin DOMAIN OldAndroid /\ ~(suse /\ e = "GNUEABI") /\ w = Blank
    <3>1. v = "unknown"  BY <1>4, <2>3
    <3>2. ParseEnvironment("unknown") = "UnknownEnvironment" /\ "unknown" \notin DOMAIN OldAndroid
          /\ "unknown" # Blank
      BY DEF OldAndroid, ParseEnvironment, Lookup, Environments, Blank
    <3> QED BY <1>6, <2>3, <3>1, <3>2
  <2>4. CASE w \notin DOMAIN OldAndroid /\ ~(suse /\ e = "GNUEABI") /\ w # Blank
    <3>1. v = w  BY <1>4, <2>4
    <3> QED BY <1>5, <2>4, <3>1
  <2> QED BY <2>1, <2>2, <2>3, <2>4
<1> QED BY <1>7 DEF w, v, e, suse

\* Without a system of the Windows family.
LEMMA NormalElse ==
  ASSUME NormInv, LeftIs, Settle, ~Windows
  PROVE  IsNormal(components')
<1> DEFINE r == components'
           n == Len(components)
<1>1. stage = "settle" /\ IsWords(components) /\ n \in Nat /\ SearchIs
  BY DEF NormInv, IsWords, Settle
<1>2. IsWords(r) /\ Len(r) = n /\ r = Renamed(components)
  <2>1. IsSettled(Renamed(components), Four)  BY <1>1, Settled
  <2> QED BY <2>1 DEF IsSettled
<1> HIDE DEF r, n
<1>3. \A k \in 1 .. n : k # 4 => r[k] = IF components[k] = Blank THEN "unknown" ELSE components[k]
  BY <1>1, <1>2, RenamedIs DEF n
<1>4. \A k \in Nat : k >= 1 =>
        /\ WordOf(r, k) = IF k \in 1 .. n THEN r[k] ELSE Blank
        /\ WordOf(components, k) = IF k \in 1 .. n THEN components[k] ELSE Blank
  BY <1>1, <1>2, WordIs DEF n
<1>5. kinds.env = ParseEnvironment(WordOf(components, 4)) /\ kinds.os = ParseOS(WordOf(components, 3))
  BY <1>1, KindsRead
<1>6. 4 \in 1 .. n => kinds.env = ParseEnvironment(components[4])  BY <1>4, <1>5
<1>7. 4 \in 1 .. n =>
         /\ r[4] \notin DOMAIN OldAndroid /\ r[4] # Blank
         /\ ~(kinds.vendor = "SUSE" /\ ParseEnvironment(r[4]) = "GNUEABI")
         /\ ParseEnvironment(r[4]) = "UnknownEnvironment" <=> kinds.env = "UnknownEnvironment"
         /\ kinds.env = "UnknownEnvironment" =>
              r[4] = IF components[4] = Blank THEN "unknown" ELSE components[4]
  BY <1>1, <1>2, <1>6, EnvironmentSettled DEF n
\* The kinds are where they were.
<1>8. \A p \in Places : \/ WordOf(r, p) = WordOf(components, p)
                        \/ p # 4 /\ WordOf(r, p) = "unknown" /\ WordOf(components, p) = Blank
                        \/ p = 4 /\ 4 \in 1 .. n
  <2> SUFFICES ASSUME NEW p \in Places
               PROVE  \/ WordOf(r, p) = WordOf(components, p)
                      \/ p # 4 /\ WordOf(r, p) = "unknown" /\ WordOf(components, p) = Blank
                      \/ p = 4 /\ 4 \in 1 .. n
    OBVIOUS
  <2>1. p \in Nat /\ p >= 1  BY DEF Places
  <2> QED BY <1>3, <1>4, <2>1
<1>9. \A p \in Places : Reads(p, WordOf(r, p)) = Unknown(p) <=> Reads(p, WordOf(components, p)) = Unknown(p)
  <2> SUFFICES ASSUME NEW p \in Places
               PROVE  Reads(p, WordOf(r, p)) = Unknown(p) <=> Reads(p, WordOf(components, p)) = Unknown(p)
    OBVIOUS
  <2>1. CASE p # 4 /\ WordOf(r, p) = "unknown" /\ WordOf(components, p) = Blank
    BY <2>1, BlankRead, InvalidRead, FormatsOnly
  <2>2. CASE p = 4 /\ 4 \in 1 .. n
    <3>1. WordOf(r, 4) = r[4]  BY <1>4, <2>2
    <3> QED BY <1>5, <1>7, <2>2, <3>1 DEF Reads, Unknown
  <2> QED BY <1>8, <2>1, <2>2
<1>10. /\ \A p \in Places : Reads(p, WordOf(components, p)) # Unknown(p) => p \in found
       /\ \A p \in {1, 2} : p \in found => Reads(p, WordOf(components, p)) # Unknown(p)
       /\ 3 \in found => Reads(3, WordOf(components, 3)) # Unknown(3)
       /\ \A p \in Places : p \notin found => \A k \in FreePlaces : ~Valid(p, components[k])
       /\ 4 \in found /\ kinds.env = "UnknownEnvironment" =>
            /\ 4 \in 1 .. Len(components) /\ ParseFormat(components[4]) # "UnknownObjectFormat"
            /\ \A k \in FreePlaces : k < 4 => ~Valid(4, components[k])
       /\ ~IsMinGW(WordOf(components, 3)) /\ ~IsCygwin(WordOf(components, 3))
  BY <1>1, LeftSettled
<1>11. \A p \in Places : p \in Fixed(r) => p \in found  BY <1>9, <1>10 DEF Fixed
<1>12. \A p \in 1 .. 3 : p \in found => p \in Fixed(r)
  <2>1. \A p \in 1 .. 3 : p \in Places /\ (p \in {1, 2} \/ p = 3)  BY DEF Places
  <2> QED BY <1>9, <1>10, <2>1 DEF Fixed
<1>13. 4 \notin Fixed(r) => kinds.env = "UnknownEnvironment"
  <2>1. 4 \in Places  BY DEF Places
  <2> QED BY <1>5, <1>9, <2>1 DEF Fixed, Reads, Unknown
\* What is at the other positions.
<1>14. ASSUME NEW k \in Others(r)
       PROVE  /\ k \in 1 .. n /\ r[k] = IF components[k] = Blank THEN "unknown" ELSE components[k]
              /\ k \in FreePlaces \/ (k = 4 /\ 4 \in found /\ kinds.env = "UnknownEnvironment")
  <2>1. k \in 1 .. n /\ k \notin Fixed(r)  BY <1>2 DEF Others
  <2>2. CASE k = 4
    <3>1. kinds.env = "UnknownEnvironment"  BY <1>13, <2>1, <2>2
    <3> QED BY <1>7, <2>1, <2>2, <3>1 DEF FreePlaces, n
  <2>3. CASE k # 4
    <3>1. k \notin found
      <4>1. k \in found => k \in Places  BY <1>1 DEF SearchIs
      <4>2. k \in Places => k \in 1 .. 3  BY <2>3 DEF Places
      <4> QED BY <1>12, <2>1, <4>1, <4>2
    <3> QED BY <1>3, <2>1, <2>3, <3>1 DEF FreePlaces, n
  <2> QED BY <2>2, <2>3
<1>15. \A k \in Others(r) : \A p \in Places : Valid(p, r[k]) => r[k] = components[k]
  BY <1>14, FormatsOnly
<1>16. InPlace(r)
  <2>1. ASSUME NEW p \in 1 .. 3, p \notin Fixed(r), NEW k \in Others(r), Valid(p, r[k])
        PROVE  FALSE
    <3>1. p \in Places  BY DEF Places
    <3>2. p \notin found  BY <1>12, <2>1
    <3>3. Valid(p, components[k])  BY <1>15, <2>1, <3>1
    <3>4. k \notin FreePlaces  BY <1>10, <3>1, <3>2, <3>3
    <3>5. ParseFormat(components[k]) # "UnknownObjectFormat"  BY <1>10, <1>14, <3>4
    <3> QED BY <3>3, <3>5, FormatsOnly
  <2>2. ASSUME 4 \notin Fixed(r), NEW k \in Others(r), Valid(4, r[k]), k # 4
        PROVE  k > 4 /\ Valid(4, r[4])
    <3>1. k \in FreePlaces /\ k \in 1 .. n  BY <1>14, <2>2
    <3>2. Valid(4, components[k]) /\ 4 \in Places  BY <1>15, <2>2 DEF Places
    <3>3. 4 \in found  BY <1>10, <3>1, <3>2
    <3>4. /\ 4 \in 1 .. n /\ ParseFormat(components[4]) # "UnknownObjectFormat" /\ ~(k < 4)
      BY <1>10, <1>13, <2>2, <3>1, <3>2, <3>3 DEF n
    <3>5. components[4] # Blank
      <4>1. ParseFormat(Blank) = "UnknownObjectFormat"  BY EnvironmentsRead DEF Blank
      <4> QED BY <3>4, <4>1
    <3>6. r[4] = components[4]  BY <1>7, <1>13, <2>2, <3>4, <3>5
    <3>7. Valid(4, r[4])  BY <3>4, <3>6 DEF Valid
    <3>8. k > 4  BY <1>1, <2>2, <3>1, <3>4
    <3> QED BY <3>7, <3>8
  <2>3. \A p \in 1 .. 3 : p \notin Fixed(r) => \A k \in Others(r) : ~Valid(p, r[k])  BY <2>1
  <2>4. 4 \notin Fixed(r) => \A k \in Others(r) : Valid(4, r[k]) => k = 4 \/ (k > 4 /\ Valid(4, r[4]))
    BY <2>2
  <2> QED BY <2>3, <2>4 DEF InPlace
<1>17. \A k \in 1 .. Len(r) : r[k] # Blank
  <2>1. "unknown" # Blank  BY DEF Blank
  <2>2. \A k \in 1 .. n : k # 4 => r[k] # Blank  BY <1>3, <2>1
  <2> QED BY <1>2, <1>7, <2>2
<1>18. WordOf(r, 4) \notin DOMAIN OldAndroid
  <2>1. Blank \notin DOMAIN OldAndroid  BY DEF Blank, OldAndroid
  <2> QED BY <1>4, <1>7, <2>1
<1>19. ~(ParseVendor(WordOf(r, 2)) = "SUSE" /\ ParseEnvironment(WordOf(r, 4)) = "GNUEABI")
  <2>1. ParseVendor(WordOf(r, 2)) = "SUSE" => kinds.vendor = "SUSE"
    <3>1. Kind(kinds, 2) = Reads(2, WordOf(components, 2))  BY <1>1, KindsSettled DEF Places
    <3>2. kinds.vendor = ParseVendor(WordOf(components, 2))  BY <3>1 DEF Kind, Reads
    <3>3. ParseVendor("unknown") = "UnknownVendor"  BY DEF ParseVendor, Lookup, Vendors
    <3>4. WordOf(r, 2) = WordOf(components, 2) \/ WordOf(r, 2) = "unknown"  BY <1>8 DEF Places
    <3> QED BY <3>2, <3>3, <3>4
  <2>2. ParseEnvironment(Blank) # "GNUEABI"
    <3>1. ParseEnvironment(Blank) = "UnknownEnvironment"  BY EnvironmentsRead DEF Blank
    <3> QED BY <3>1
  <2> QED BY <1>4, <1>7, <2>1, <2>2
<1>20. WordOf(r, 3) = WordOf(components, 3) \/ (WordOf(r, 3) = "unknown" /\ WordOf(components, 3) = Blank)
  BY <1>8 DEF Places
<1>21. ~IsMinGW(WordOf(r, 3)) /\ ~IsCygwin(WordOf(r, 3))
  BY <1>10, <1>20 DEF IsMinGW, IsCygwin
<1>22. ParseOS(WordOf(r, 3)) # "Win32"
  <2>1. ParseOS(WordOf(r, 3)) = "UnknownOS" <=> kinds.os = "UnknownOS"
    BY <1>5, <1>9 DEF Places, Reads, Unknown
  <2>2. kinds.os # "Win32"  BY DEF Windows
  <2>3. ParseOS("unknown") = "UnknownOS"  BY DEF ParseOS, Lookup, Systems, AppleWords
  <2> QED BY <1>5, <1>20, <2>2, <2>3
<1> QED BY <1>16, <1>17, <1>18, <1>19, <1>21, <1>22 DEF IsNormal, r

\* The fourth word of a Windows triple is an environment, or names the format.
LEMMA WindowsNamed ==
  ASSUME NormInv, KindsFit(kinds), stage = "settle", Windows,
         NEW v, v = WindowsEnvironment(WordOf(Renamed(components), 4)),
         IsWords(Renamed(components)), Len(Renamed(components)) = Len(components)
  PROVE  /\ v \notin DOMAIN OldAndroid /\ v # Blank
         /\ ~(kinds.vendor = "SUSE" /\ ParseEnvironment(v) = "GNUEABI")
         /\ ParseEnvironment(v) = "UnknownEnvironment" =>
              kinds.env = "UnknownEnvironment" /\ NamesOne(v) /\ ~NamesFormat
<1> DEFINE words == Renamed(components)
           word == WordOf(words, 4)
           n == Len(components)
           name == ObjectFormatTypeName[kinds.format]
<1>1. /\ IsWords(components) /\ n \in Nat /\ IsWords(words) /\ Len(words) = n
      /\ words = Renamed(components) /\ v = WindowsEnvironment(word)
  BY DEF NormInv, IsWords
<1> HIDE DEF words
<1>2. kinds.env = ParseEnvironment(WordOf(components, 4))  BY KindsRead
<1>3. \A w \in {"msvc", "gnu", "cygnus"} :
        /\ ParseEnvironment(w) \notin {"UnknownEnvironment", "GNUEABI"} /\ w \notin DOMAIN OldAndroid
        /\ w # Blank
  <2>1. \A w \in {"msvc", "gnu", "cygnus"} : ParseEnvironment(w) \notin {"UnknownEnvironment", "GNUEABI"}
    BY DEF ParseEnvironment, Lookup, Environments
  <2>2. \A w \in {"msvc", "gnu", "cygnus"} : w \notin DOMAIN OldAndroid  BY DEF OldAndroid
  <2>3. \A w \in {"msvc", "gnu", "cygnus"} : w # Blank  BY DEF Blank
  <2> QED BY <2>1, <2>2, <2>3
<1>4. CASE kinds.os # "Win32"
  <2>1. v \in {"gnu", "cygnus"}  BY <1>1, <1>4 DEF WindowsEnvironment
  <2> QED BY <1>3, <2>1
<1>5. CASE kinds.os = "Win32" /\ kinds.env # "UnknownEnvironment"
  <2>1. v = word  BY <1>1, <1>5 DEF WindowsEnvironment
  <2>2. 4 \in 1 .. n /\ kinds.env = ParseEnvironment(components[4])
    <3>1. WordOf(components, 4) = IF 4 \in 1 .. n THEN components[4] ELSE Blank  BY <1>1, WordIs
    <3>2. ParseEnvironment(Blank) = "UnknownEnvironment"  BY EnvironmentsRead DEF Blank
    <3> QED BY <1>2, <1>5, <3>1, <3>2
  <2>3. word = words[4]  BY <1>1, <2>2, WordIs
  <2>4. /\ words[4] \notin DOMAIN OldAndroid /\ words[4] # Blank
        /\ ~(kinds.vendor = "SUSE" /\ ParseEnvironment(words[4]) = "GNUEABI")
        /\ ParseEnvironment(words[4]) = "UnknownEnvironment" <=> kinds.env = "UnknownEnvironment"
    BY <1>1, <2>2, EnvironmentSettled
  <2> QED BY <1>5, <2>1, <2>3, <2>4
<1>6. CASE kinds.os = "Win32" /\ kinds.env = "UnknownEnvironment"
  <2>1. CASE kinds.format \in {"UnknownObjectFormat", "COFF"}
    <3>1. v = "msvc"  BY <1>1, <1>6, <2>1 DEF WindowsEnvironment
    <3> QED BY <1>3, <3>1
  <2>2. CASE kinds.format \notin {"UnknownObjectFormat", "COFF"}
    <3>1. v = name  BY <1>1, <1>6, <2>2 DEF WindowsEnvironment
    <3>2. ParseFormat(v) = kinds.format /\ ParseEnvironment(v) = "UnknownEnvironment"
      BY <2>2, <3>1, FormatsRead DEF KindsFit
    <3>3. NamesOne(v)  BY <2>2, <3>1, <3>2 DEF NamesOne
    <3>4. ~NamesFormat  BY <1>6 DEF NamesFormat, KindsFit
    <3>5. v \notin DOMAIN OldAndroid /\ v # Blank
      <4>1. \A u \in DOMAIN OldAndroid : ParseFormat(u) = "UnknownObjectFormat"
        BY DEF OldAndroid, ParseFormat, Lookup, Formats
      <4>2. ParseFormat(Blank) = "UnknownObjectFormat"  BY EnvironmentsRead DEF Blank
      <4> QED BY <2>2, <3>2, <4>1, <4>2
    <3> QED BY <1>6, <3>2, <3>3, <3>4, <3>5
  <2> QED BY <2>1, <2>2
<1> QED BY <1>4, <1>5, <1>6

\* With one.
LEMMA NormalWindows ==
  ASSUME NormInv, KindsFit(kinds), LeftIs, Settle, Windows
  PROVE  IsNormal(components')
<1> DEFINE r == components'
           n == Len(components)
           words == Renamed(components)
           four == Four
           name == ObjectFormatTypeName[kinds.format]
           v == WindowsEnvironment(WordOf(words, 4))
<1>1. stage = "settle" /\ IsWords(components) /\ n \in Nat /\ SearchIs
  BY DEF NormInv, IsWords, Settle
<1>2. /\ IsWords(words) /\ Len(words) = n /\ IsWords(four) /\ Len(four) = 4
      /\ \/ ~NamesFormat /\ r = four
         \/ NamesFormat /\ r = Append(four, name)
  <2>1. IsSettled(words, four)  BY <1>1, Settled
  <2> QED BY <2>1 DEF IsSettled
<1>3. /\ \A k \in {1, 2} : Len(words) >= k => four[k] = words[k]
      /\ four[3] = "windows" /\ four[4] = v
  BY <1>2, FourIs
<1>4. /\ v \notin DOMAIN OldAndroid /\ v # Blank
      /\ ~(kinds.vendor = "SUSE" /\ ParseEnvironment(v) = "GNUEABI")
      /\ ParseEnvironment(v) = "UnknownEnvironment" =>
           kinds.env = "UnknownEnvironment" /\ NamesOne(v) /\ ~NamesFormat
  <2> HIDE DEF v
  <2>1. v = WindowsEnvironment(WordOf(Renamed(components), 4))  BY DEF v
  <2> QED BY <1>1, <1>2, <2>1, WindowsNamed
<1>5. NamesFormat => NamesOne(name)
  BY FormatsRead DEF NamesFormat, NamesOne, KindsFit
<1>6. \A k \in {1, 2} : words[k] = (IF components[k] = Blank THEN "unknown" ELSE components[k])
                        /\ k \in 1 .. n /\ Len(words) >= k
  <2>1. 3 \in 1 .. n  BY <1>1, LeftSettled
  <2>2. \A k \in {1, 2} : k \in 1 .. n /\ n >= k /\ k # 4
    <3> HIDE DEF n
    <3> QED BY <1>1, <2>1
  <2>3. \A k \in {1, 2} : words[k] = (IF components[k] = Blank THEN "unknown" ELSE components[k])
    BY <1>1, <2>2, RenamedIs
  <2> HIDE DEF n, words
  <2> QED BY <1>2, <2>2, <2>3
<1> HIDE DEF n, words, four, name, v
<1>7. /\ Len(r) \in {4, 5} /\ (Len(r) = 5 => NamesFormat /\ r[5] = name)
      /\ \A k \in 1 .. 4 : r[k] = four[k]
  <2>1. CASE ~NamesFormat
    <3>1. r = four /\ Len(four) = 4  BY <1>2, <2>1
    <3> HIDE DEF r
    <3>2. Len(r) = 4  BY <3>1
    <3> QED BY <3>1, <3>2
  <2>2. CASE NamesFormat
    <3>1. r = Append(four, name) /\ IsWords(four)  BY <1>2, <2>2
    <3>2. Len(r) = Len(four) + 1 /\ r[Len(four) + 1] = name  BY <3>1, AppendWords
    <3>5. \A k \in 1 .. Len(four) : r[k] = four[k]  BY <3>1, AppendWords
    <3>3. Len(four) = 4 /\ Len(four) + 1 = 5  BY <1>2
    <3> HIDE DEF r
    <3>4. Len(r) = 5 /\ r[5] = name /\ \A k \in 1 .. 4 : r[k] = four[k]  BY <3>2, <3>3, <3>5
    <3> QED BY <2>2, <3>4
  <2> QED BY <2>1, <2>2
<1> HIDE DEF r
<1>8. /\ \A k \in {1, 2} : r[k] = IF components[k] = Blank THEN "unknown" ELSE components[k]
      /\ r[3] = "windows" /\ r[4] = v
  BY <1>3, <1>6, <1>7
<1>9. /\ \A p \in Places : WordOf(r, p) = r[p]
      /\ \A p \in {1, 2} : WordOf(components, p) = components[p]
  <2>1. Len(r) \in Nat /\ \A p \in Places : p \in Nat /\ p >= 1 /\ p \in 1 .. Len(r)
    <3> DEFINE m == Len(r)
    <3>1. m \in {4, 5}  BY <1>7
    <3> HIDE DEF m
    <3>2. m \in Nat /\ \A p \in Places : p \in Nat /\ p >= 1 /\ p \in 1 .. m  BY <3>1 DEF Places
    <3> QED BY <3>2 DEF m
  <2>2. \A p \in Places : WordOf(r, p) = r[p]  BY <2>1, WordIs
  <2>3. \A p \in {1, 2} : WordOf(components, p) = components[p]  BY <1>1, <1>6, WordIs DEF n
  <2> QED BY <2>2, <2>3
<1>10. /\ \A p \in Places : Reads(p, WordOf(components, p)) # Unknown(p) => p \in found
       /\ \A p \in {1, 2} : p \in found => Reads(p, WordOf(components, p)) # Unknown(p)
       /\ \A p \in Places : p \notin found => \A k \in FreePlaces : ~Valid(p, components[k])
       /\ 4 \in found /\ kinds.env = "UnknownEnvironment" =>
            \A k \in FreePlaces : k < 4 => ~Valid(4, components[k])
  BY <1>1, LeftSettled
<1>11. \A p \in {1, 2} : p \in Fixed(r) <=> p \in found
  <2> SUFFICES ASSUME NEW p \in {1, 2}  PROVE p \in Fixed(r) <=> p \in found
    OBVIOUS
  <2>1. p \in Places  BY DEF Places
  <2>2. p \in found <=> Reads(p, components[p]) # Unknown(p)  BY <1>9, <1>10, <2>1
  <2>3. p \in Fixed(r) <=> Reads(p, r[p]) # Unknown(p)  BY <1>9, <2>1 DEF Fixed
  <2>4. Reads(p, "unknown") = Unknown(p) /\ Reads(p, Blank) = Unknown(p)
    BY <2>1, BlankRead, InvalidRead, FormatsOnly
  <2> QED BY <1>8, <2>2, <2>3, <2>4
<1>12. 3 \in Fixed(r)
  <2>1. 3 \in Places /\ ParseOS("windows") # "UnknownOS"  BY WindowsSystem DEF Places
  <2> QED BY <1>8, <1>9, <2>1 DEF Fixed, Reads, Unknown
<1>13. 4 \in Fixed(r) <=> ParseEnvironment(v) # "UnknownEnvironment"
  <2>1. 4 \in Places  BY DEF Places
  <2> QED BY <1>8, <1>9, <2>1 DEF Fixed, Reads, Unknown
<1>14. ASSUME NEW k \in Others(r)
       PROVE  \/ k \in {1, 2} /\ k \in FreePlaces
              \/ k = 4 /\ NamesOne(r[4])
              \/ k = 5 /\ NamesOne(r[5])
  <2>1. k \in 1 .. Len(r) /\ k \notin Fixed(r)  BY DEF Others
  <2> DEFINE m == Len(r)
  <2>2. m \in {4, 5} /\ k \in 1 .. m /\ k # 3  BY <1>7, <1>12, <2>1
  <2> HIDE DEF m
  <2>3. k \in {1, 2} \/ k = 4 \/ (k = 5 /\ m = 5)  BY <2>2
  <2>4. k \in {1, 2} => k \in FreePlaces  BY <1>6, <1>11, <2>1 DEF FreePlaces, n
  <2>5. k = 4 => NamesOne(r[4])  BY <1>4, <1>8, <1>13, <2>1
  <2>6. k = 5 /\ m = 5 => NamesOne(r[5])  BY <1>5, <1>7 DEF m
  <2> QED BY <2>3, <2>4, <2>5, <2>6
<1>15. \A p \in Places : \A k \in {1, 2} : Valid(p, r[k]) => Valid(p, components[k])
  BY <1>8, FormatsOnly
<1>16. \A w : NamesOne(w) => Valid(4, w) /\ \A p \in 1 .. 3 : ~Valid(p, w)
  <2>1. \A w : NamesOne(w) => ParseFormat(w) # "UnknownObjectFormat"  BY DEF NamesOne
  <2> QED BY <2>1, FormatsOnly DEF Valid
<1>17. InPlace(r)
  <2>1. ASSUME NEW p \in 1 .. 3, p \notin Fixed(r), NEW k \in Others(r), Valid(p, r[k])
        PROVE  FALSE
    <3>1. p \in {1, 2} /\ p \in Places  BY <1>12, <2>1 DEF Places
    <3>2. p \notin found  BY <1>11, <2>1, <3>1
    <3>3. k \in {1, 2} /\ k \in FreePlaces  BY <1>14, <1>16, <2>1
    <3>4. Valid(p, components[k])  BY <1>15, <2>1, <3>1, <3>3
    <3> QED BY <1>10, <3>1, <3>2, <3>3, <3>4
  <2>2. ASSUME 4 \notin Fixed(r), NEW k \in Others(r), Valid(4, r[k]), k # 4
        PROVE  k > 4 /\ Valid(4, r[4])
    <3>1. Valid(4, r[4]) /\ kinds.env = "UnknownEnvironment"  BY <1>4, <1>8, <1>13, <1>16, <2>2
    <3>2. CASE k \in {1, 2} /\ k \in FreePlaces
      <4>1. Valid(4, components[k]) /\ 4 \in Places /\ k < 4  BY <1>15, <2>2, <3>2 DEF Places
      <4> QED BY <1>10, <3>1, <3>2, <4>1
    <3>3. CASE k = 5  BY <3>1, <3>3
    <3> QED BY <1>14, <2>2, <3>2, <3>3
  <2>3. \A p \in 1 .. 3 : p \notin Fixed(r) => \A k \in Others(r) : ~Valid(p, r[k])  BY <2>1
  <2>4. 4 \notin Fixed(r) => \A k \in Others(r) : Valid(4, r[k]) => k = 4 \/ (k > 4 /\ Valid(4, r[4]))
    BY <2>2
  <2> QED BY <2>3, <2>4 DEF InPlace
<1>18. \A k \in 1 .. Len(r) : r[k] # Blank
  <2>1. \A w : NamesOne(w) => w # Blank
    <3>1. ParseFormat(Blank) = "UnknownObjectFormat"  BY EnvironmentsRead DEF Blank
    <3> QED BY <3>1 DEF NamesOne
  <2>2. "unknown" # Blank /\ "windows" # Blank  BY DEF Blank
  <2>3. \A k \in {1, 2, 3, 4} : r[k] # Blank  BY <1>4, <1>8, <2>2
  <2>4. Len(r) = 5 => r[5] # Blank  BY <1>5, <1>7, <2>1
  <2> DEFINE m == Len(r)
  <2>5. m \in {4, 5} /\ (m = 5 => r[5] # Blank)  BY <1>7, <2>4
  <2> HIDE DEF m
  <2>6. \A k \in 1 .. m : k \in {1, 2, 3, 4} \/ (k = 5 /\ m = 5)  BY <2>5
  <2>7. \A k \in 1 .. m : r[k] # Blank  BY <2>3, <2>5, <2>6
  <2> QED BY <2>7 DEF m
<1>19. WordOf(r, 2) = r[2] /\ WordOf(r, 3) = "windows" /\ WordOf(r, 4) = v
  BY <1>8, <1>9 DEF Places
<1>20. ~(ParseVendor(WordOf(r, 2)) = "SUSE" /\ ParseEnvironment(WordOf(r, 4)) = "GNUEABI")
  <2>1. ParseVendor(r[2]) = "SUSE" => kinds.vendor = "SUSE"
    <3>1. Kind(kinds, 2) = Reads(2, WordOf(components, 2))  BY <1>1, KindsSettled DEF Places
    <3>2. kinds.vendor = ParseVendor(components[2])  BY <1>9, <3>1 DEF Kind, Reads
    <3>3. ParseVendor("unknown") = "UnknownVendor"  BY DEF ParseVendor, Lookup, Vendors
    <3>4. r[2] = components[2] \/ r[2] = "unknown"  BY <1>8
    <3> QED BY <3>2, <3>3, <3>4
  <2> QED BY <1>4, <1>19, <2>1
<1>21. ~IsMinGW("windows") /\ ~IsCygwin("windows")  BY DEF IsMinGW, IsCygwin
<1>22. WindowsInPlace(r)
  <2>1. Reads(4, r[4]) = Unknown(4) => NamesOne(r[4]) /\ ~NamesFormat
    BY <1>4, <1>8 DEF Reads, Unknown
  <2>2. Len(r) = 5 => NamesFormat /\ NamesOne(r[5])  BY <1>5, <1>7
  <2> QED BY <1>7, <1>8, <2>1, <2>2 DEF WindowsInPlace
<1> QED BY <1>4, <1>17, <1>18, <1>19, <1>20, <1>21, <1>22 DEF IsNormal, r

LEMMA NormalSettled ==
  ASSUME NormInv, KindsFit(kinds), LeftIs, Settle
  PROVE  IsNormal(components')
BY NormalElse, NormalWindows

----------------------------------------------------------------------------
(* The second time.                                                        *)

\* A normal form is not moved: at most an object format is found where it is, and read.
AgainIs ==
  /\ components = first /\ IsNormal(components)
  /\ Fixed(components) \subseteq found /\ found \subseteq Fixed(components) \cup {4}
  /\ ~kinds.mingw /\ ~kinds.cygwin
  /\ stage # "settle" => found = Fixed(components)
  /\ stage = "move" => pos = 4 /\ idx = 4
  /\ stage = "find" \/ (stage = "settle" /\ 4 \in Fixed(components)) =>
       kinds.format = ParseFormat(WordOf(components, 5))
  /\ stage = "move" \/ (stage = "settle" /\ 4 \in found \ Fixed(components)) =>
       kinds.format = ParseFormat(components[4])

LEMMA NormalNext ==
  /\ IsNormal(components') <=> IsNormal(components)'
  /\ Fixed(components') = Fixed(components)'
  /\ WordOf(components', 5) = WordOf(components, 5)'
BY DEF IsNormal, InPlace, Fixed, Others, WindowsInPlace, NamesOne, WordOf, Reads, Unknown, Places,
       Blank, Valid, IsMinGW, IsCygwin

LEMMA AgainStart ==
  ASSUME Again, IsNormal(components)
  PROVE  AgainIs'
<1> DEFINE c == components
           k == kinds'
           f == found'
<1>1. /\ UNCHANGED components /\ first' = c /\ stage' = "find"
      /\ k = KindsInPlace(c) /\ f = FoundInPlace(k)
  BY DEF Again
<1> HIDE DEF c, k, f
<1>2. SystemRead(k, WordOf(c, 3)) /\ k.format = ParseFormat(WordOf(c, 5))  BY <1>1, KindsStart
<1>3. /\ \A p \in Places : Kind(k, p) = Reads(p, WordOf(c, p))
      /\ f = {p \in Places : Kind(k, p) # Unknown(p)}
  BY <1>1, KindsFound
<1>4. f = Fixed(c)  BY <1>3 DEF Fixed
<1>5. ~k.mingw /\ ~k.cygwin  BY <1>2 DEF SystemRead, IsNormal, c
<1>6. /\ IsNormal(components)' /\ Fixed(components)' = Fixed(c) /\ WordOf(components, 5)' = WordOf(c, 5)
      /\ components' = first'
  BY <1>1, NormalNext DEF c
<1> QED BY <1>1, <1>2, <1>4, <1>5, <1>6 DEF AgainIs, k, f

LEMMA AgainFound ==
  ASSUME NormInv, AgainIs, AlreadyFound \/ NoComponent
  PROVE  AgainIs'
<1>1. /\ stage = "find" /\ (AlreadyFound => pos \in found) /\ (NoComponent => pos \notin found)
      /\ stage' = (IF pos = 4 THEN "settle" ELSE "find")
      /\ UNCHANGED <<components, found, first>>
      /\ AlreadyFound => UNCHANGED kinds
  BY DEF AlreadyFound, NoComponent, Advance
<1>2. \/ kinds' = kinds
      \/ IF pos = 3 THEN ~kinds'.mingw /\ ~kinds'.cygwin ELSE SystemSame(kinds', kinds)
  BY <1>1, SystemVain
<1>3. (pos = 4 /\ 4 \notin found) \/ kinds'.format = kinds.format
  BY <1>1, SystemVain
<1>4. found = Fixed(components) /\ kinds.format = ParseFormat(WordOf(components, 5))
      /\ ~kinds.mingw /\ ~kinds.cygwin /\ components = first /\ IsNormal(components)
  BY <1>1 DEF AgainIs
<1>5. ~kinds'.mingw /\ ~kinds'.cygwin  BY <1>2, <1>4 DEF SystemSame
<1>6. /\ IsNormal(components)' /\ Fixed(components)' = Fixed(components)
      /\ WordOf(components, 5)' = WordOf(components, 5)
  BY <1>1, <1>4, NormalNext
<1>7. stage' = "find" \/ (stage' = "settle" /\ 4 \in found) => kinds'.format = kinds.format
  BY <1>1, <1>3
<1> QED BY <1>1, <1>4, <1>5, <1>6, <1>7 DEF AgainIs

LEMMA AgainCandidate ==
  ASSUME NormInv, AgainIs, FindComponent
  PROVE  AgainIs'
<1> DEFINE c == components
           F == Fixed(components)
<1>1. /\ stage = "find" /\ pos \notin found /\ Candidates # {}
      /\ idx' = Min(Candidates) /\ stage' = "move"
      /\ UNCHANGED <<components, found, pos, first>>
  BY DEF FindComponent
<1>2. SearchIs /\ pos \in Places /\ Len(c) \in Nat  BY <1>1 DEF NormInv, IsWords
<1>3. found = F /\ ~kinds.mingw /\ ~kinds.cygwin /\ c = first /\ IsNormal(c)
  BY <1>1 DEF AgainIs
<1>4. \A k \in Candidates : k \in Others(c) /\ Valid(pos, c[k])
  BY <1>3 DEF Candidates, Free, Others
<1>5. InPlace(c)  BY <1>3 DEF IsNormal
<1>6. pos = 4
  <2>1. pos \in 1 .. 3 => Candidates = {}  BY <1>1, <1>3, <1>4, <1>5 DEF InPlace
  <2>2. pos \in 1 .. 3 \/ pos = 4  BY <1>2 DEF Places
  <2> QED BY <1>1, <2>1, <2>2
<1>7. \A k \in Candidates : k = 4 \/ (k > 4 /\ Valid(4, c[4]))
  BY <1>1, <1>3, <1>4, <1>5, <1>6 DEF InPlace
<1>8. 4 \in Candidates
  <2>1. PICK k \in Candidates : TRUE  BY <1>1
  <2>2. CASE k = 4  BY <2>1, <2>2
  <2>3. CASE k > 4 /\ Valid(4, c[4])
    <3> DEFINE n == Len(c)
    <3>1. n \in Nat /\ k \in 1 .. n  BY <1>2, <1>4, <2>1 DEF Others
    <3> HIDE DEF n
    <3>2. 4 \in 1 .. n  BY <2>3, <3>1
    <3> QED BY <1>1, <1>6, <2>3, <3>2 DEF n, Candidates, Free
  <2> QED BY <1>7, <2>1, <2>2, <2>3
<1>9. idx' = 4
  <2> DEFINE T == Candidates
  <2>1. T \subseteq Nat  BY DEF Candidates, Free
  <2>2. 4 \in T /\ \A k \in T : k = 4 \/ k > 4  BY <1>7, <1>8
  <2> HIDE DEF T
  <2>3. idx' \in T /\ \A m \in T : idx' <= m  BY <1>1, <2>1, <2>2, Least DEF T
  <2>4. idx' \in Nat /\ idx' <= 4 /\ (idx' = 4 \/ idx' > 4)  BY <2>1, <2>2, <2>3
  <2> QED BY <2>4
<1>10. PICK others : kinds' = KindsAfter(4, others)
  <2>1. PICK o : kinds' = KindsAfter(idx', o)  BY DEF FindComponent
  <2> QED BY <1>9, <2>1
<1>11. WordOf(c, 4) = c[4]
  <2>1. 4 \in 1 .. Len(c)  BY <1>8 DEF Candidates, Free
  <2> QED BY <1>2, <2>1, WordIs
<1>12. ParseEnvironment(c[4]) = "UnknownEnvironment"
  <2>1. 4 \notin F /\ 4 \in Places  BY <1>1, <1>3, <1>6 DEF Places
  <2> QED BY <1>11, <2>1 DEF Fixed, Reads, Unknown
<1>13. SystemSame(kinds', kinds) /\ kinds'.format = ParseFormat(c[4])
  <2>1. /\ pos # 3 => SystemSame(kinds', kinds)
        /\ pos = 4 => kinds'.format = IF ParseEnvironment(c[4]) = "UnknownEnvironment"
                                      THEN ParseFormat(c[4])
                                      ELSE IF others = {} THEN kinds.format ELSE "UnknownObjectFormat"
    BY <1>2, <1>10, SystemTried DEF SearchIs
  <2> QED BY <1>6, <1>12, <2>1
<1>14. ~kinds'.mingw /\ ~kinds'.cygwin  BY <1>3, <1>13 DEF SystemSame
<1>15. IsNormal(components)' /\ Fixed(components)' = F
  BY <1>1, <1>3, NormalNext
<1> HIDE DEF F
<1> QED BY <1>1, <1>3, <1>6, <1>9, <1>13, <1>14, <1>15 DEF AgainIs

LEMMA AgainFix ==
  ASSUME NormInv, AgainIs, Fix
  PROVE  AgainIs'
<1>1. /\ stage = "move" /\ found' = found \cup {pos}
      /\ stage' = (IF pos = 4 THEN "settle" ELSE "find")
      /\ UNCHANGED <<components, kinds, first>>
  BY DEF Fix, Advance
<1>2. /\ pos = 4 /\ pos \notin found /\ found = Fixed(components) /\ ~kinds.mingw /\ ~kinds.cygwin
      /\ components = first /\ IsNormal(components) /\ kinds.format = ParseFormat(components[4])
  BY <1>1 DEF AgainIs, NormInv, MoveIs
<1>3. IsNormal(components)' /\ Fixed(components)' = Fixed(components)
  BY <1>1, <1>2, NormalNext
<1> QED BY <1>1, <1>2, <1>3 DEF AgainIs

LEMMA SameWordsSame ==
  ASSUME NEW s, NEW t, IsWords(s), IsWords(t), Len(s) = Len(t), \A k \in 1 .. Len(s) : s[k] = t[k]
  PROVE  s = t
<1> DEFINE n == Len(s)
           S == {s[k] : k \in 1 .. n}
           T == {t[k] : k \in 1 .. n}
<1>1. n \in Nat /\ s \in Seq(S) /\ t \in Seq(T) /\ Len(t) = n  BY DEF IsWords
<1> HIDE DEF S, T
<1>2. DOMAIN s = 1 .. n /\ DOMAIN t = 1 .. n  BY <1>1, LenProperties
<1>3. s = [k \in 1 .. n |-> s[k]] /\ t = [k \in 1 .. n |-> t[k]]
  BY <1>1, <1>2, LenProperties
<1> QED BY <1>3

\* Nothing is renamed again.
LEMMA RenamedSame ==
  ASSUME NormInv, stage = "settle", IsNormal(components),
         NEW words, words = Renamed(components), IsWords(words), Len(words) = Len(components)
  PROVE  words = components
<1> DEFINE c == components
           n == Len(components)
<1>1. IsWords(c) /\ n \in Nat /\ DOMAIN c = 1 .. n  BY LenProperties DEF NormInv, IsWords
<1>2. \A k \in 1 .. n : c[k] # Blank  BY DEF IsNormal
<1>3. \A k \in 1 .. n : k # 4 => words[k] = c[k]  BY <1>1, <1>2, RenamedIs
<1>4. ASSUME 4 \in 1 .. n  PROVE words[4] = c[4]
  <2> DEFINE Word4(i) ==
        CASE i = 4 /\ components[i] \in DOMAIN OldAndroid /\ kinds.env = "Android"
               -> OldAndroid[components[i]]
          [] i = 4 /\ kinds.vendor = "SUSE" /\ kinds.env = "GNUEABI" -> "gnueabihf"
          [] components[i] = "" -> "unknown"
          [] OTHER -> components[i]
  <2>1. words = [i \in DOMAIN components |-> Word4(i)]  BY Zenon DEF Renamed
  <2>2. words[4] = Word4(4)
    <3> HIDE DEF Word4
    <3> QED BY <1>1, <1>4, <2>1
  <2>3. WordOf(c, 4) = c[4]  BY <1>1, <1>4, WordIs
  <2>4. c[4] \notin DOMAIN OldAndroid  BY <2>3 DEF IsNormal
  <2>5. kinds.vendor = ParseVendor(WordOf(c, 2)) /\ kinds.env = ParseEnvironment(WordOf(c, 4))
    <3>1. Kind(kinds, 2) = Reads(2, WordOf(c, 2))  BY KindsSettled DEF Places
    <3> QED BY <3>1, KindsRead DEF Kind, Reads
  <2>6. ~(kinds.vendor = "SUSE" /\ kinds.env = "GNUEABI")  BY <2>5 DEF IsNormal
  <2>7. c[4] # ""  BY <1>2, <1>4 DEF Blank
  <2> QED BY <2>2, <2>4, <2>6, <2>7
<1>5. \A k \in 1 .. Len(words) : words[k] = c[k]  BY <1>3, <1>4
<1> QED BY <1>1, <1>5, SameWordsSame

\* Nor is the environment of a Windows triple.
LEMMA WindowsSame ==
  ASSUME NormInv, LeftIs, AgainIs, stage = "settle", Windows
  PROVE  /\ WindowsInPlace(components)
         /\ WindowsEnvironment(components[4]) = components[4]
         /\ NamesFormat => Len(components) = 5 /\ ObjectFormatTypeName[kinds.format] = components[5]
         /\ ~NamesFormat => Len(components) = 4
<1> DEFINE c == components
           n == Len(components)
<1>1. n \in Nat /\ IsNormal(c) /\ ~kinds.mingw /\ ~kinds.cygwin  BY DEF NormInv, IsWords, AgainIs
<1>2. kinds.os = ParseOS(WordOf(c, 3)) /\ kinds.env = ParseEnvironment(WordOf(c, 4))
  BY KindsRead
<1>3. kinds.os = "Win32"  BY <1>1 DEF Windows
<1>4. WindowsInPlace(c)  BY <1>1, <1>2, <1>3 DEF IsNormal
<1>5. n \in {4, 5}  BY <1>4 DEF WindowsInPlace
<1>6. /\ 4 \in 1 .. n
      /\ n = 5 => WordOf(c, 5) = c[5]
      /\ n = 4 => WordOf(c, 5) = Blank
      /\ WordOf(c, 4) = c[4]
  <2>1. /\ WordOf(c, 5) = IF 5 \in 1 .. n THEN c[5] ELSE Blank
        /\ WordOf(c, 4) = IF 4 \in 1 .. n THEN c[4] ELSE Blank
    BY <1>1, WordIs
  <2> HIDE DEF n, c
  <2>2. 4 \in 1 .. n /\ (5 \in 1 .. n <=> n = 5)  BY <1>5
  <2> QED BY <2>1, <2>2
<1>7. kinds.env = ParseEnvironment(c[4]) /\ Reads(4, c[4]) = kinds.env
      /\ Unknown(4) = "UnknownEnvironment"
  BY <1>2, <1>6 DEF Reads, Unknown
<1>8. 4 \in Fixed(c) <=> kinds.env # "UnknownEnvironment"
  BY <1>6, <1>7 DEF Fixed, Places
<1>9. CASE kinds.env # "UnknownEnvironment"
  <2>1. WindowsEnvironment(c[4]) = c[4]  BY <1>3, <1>9 DEF WindowsEnvironment
  <2>2. kinds.format = ParseFormat(WordOf(c, 5))  BY <1>8, <1>9 DEF AgainIs
  <2>3. CASE n = 5
    <3>1. NamesOne(c[5]) /\ kinds.format = ParseFormat(c[5])  BY <1>4, <1>6, <2>2, <2>3 DEF WindowsInPlace
    <3>2. NamesFormat /\ ObjectFormatTypeName[kinds.format] = c[5]
      BY <1>9, <3>1 DEF NamesOne, NamesFormat
    <3> QED BY <1>4, <2>1, <2>3, <3>2
  <2>4. CASE n = 4
    <3>1. ParseFormat(Blank) = "UnknownObjectFormat"  BY EnvironmentsRead DEF Blank
    <3>2. ~NamesFormat  BY <1>6, <2>2, <2>4, <3>1 DEF NamesFormat
    <3> QED BY <1>4, <2>1, <2>4, <3>2
  <2> QED BY <1>5, <2>3, <2>4
<1>10. CASE kinds.env = "UnknownEnvironment"
  <2>1. n = 4 /\ NamesOne(c[4])  BY <1>4, <1>7, <1>10 DEF WindowsInPlace
  <2>2. 4 \in found
    <3>1. Valid(4, c[4])  BY <2>1 DEF NamesOne, Valid
    <3>2. 4 \notin found => 4 \in FreePlaces  BY <1>6 DEF FreePlaces
    <3>3. 4 \notin found => \A k \in FreePlaces : ~Valid(4, c[k])  BY LeftSettled DEF Places
    <3> QED BY <3>1, <3>2, <3>3
  <2>3. kinds.format = ParseFormat(c[4])  BY <1>8, <1>10, <2>2 DEF AgainIs
  <2>4. WindowsEnvironment(c[4]) = c[4]
    <3>1. kinds.format \notin {"UnknownObjectFormat", "COFF"} /\ c[4] = ObjectFormatTypeName[kinds.format]
      BY <2>1, <2>3 DEF NamesOne
    <3> QED BY <1>3, <1>10, <3>1 DEF WindowsEnvironment
  <2>5. ~NamesFormat  BY <1>1, <1>10 DEF NamesFormat
  <2> QED BY <1>4, <2>1, <2>4, <2>5
<1> QED BY <1>9, <1>10

LEMMA AppendedSame ==
  ASSUME NEW c, IsWords(c), NEW s, IsWords(s), Len(c) = Len(s) + 1,
         \A k \in 1 .. Len(s) : s[k] = c[k],
         NEW w, w = c[Len(s) + 1], NEW e, e = Append(s, w)
  PROVE  e = c
<1> DEFINE n == Len(s)
<1>1. IsWords(e)
  <2>1. IsWords(Append(s, w))  BY AppendWords
  <2> QED BY <2>1
<1>2. Len(e) = n + 1 /\ e[n + 1] = w  BY AppendWords
<1>3. \A k \in 1 .. n : e[k] = s[k]  BY AppendWords
<1>4. n \in Nat  BY DEF IsWords
<1>5. (\A k \in 1 .. n : e[k] = c[k]) /\ e[n + 1] = c[n + 1]  BY <1>2, <1>3
<1> HIDE DEF n
<1>6. \A k \in 1 .. n + 1 : k \in 1 .. n \/ k = n + 1  BY <1>4
<1>7. Len(e) = Len(c) /\ \A k \in 1 .. Len(e) : e[k] = c[k]  BY <1>2, <1>5, <1>6 DEF n
<1> QED BY <1>1, <1>7, SameWordsSame

LEMMA AgainSettled ==
  ASSUME NormInv, LeftIs, AgainIs, Settle
  PROVE  components' = components
<1> DEFINE c == components
           n == Len(components)
           words == Renamed(components)
           four == Four
           name == ObjectFormatTypeName[kinds.format]
<1>1. stage = "settle" /\ IsWords(c) /\ n \in Nat /\ IsNormal(c)
  BY DEF NormInv, IsWords, AgainIs, Settle
<1>2. IsSettled(words, four)  BY <1>1, Settled
<1>3. words = c  BY <1>1, <1>2, RenamedSame DEF IsSettled
<1>4. CASE ~Windows  BY <1>2, <1>3, <1>4 DEF IsSettled
<1>5. CASE Windows
  <2>1. /\ n \in {4, 5} /\ c[3] = "windows"
        /\ WindowsEnvironment(c[4]) = c[4]
        /\ NamesFormat => n = 5 /\ name = c[5]
        /\ ~NamesFormat => n = 4
    BY <1>1, <1>5, WindowsSame DEF WindowsInPlace
  <2>2. WordOf(c, 4) = c[4] /\ \A k \in {1, 2} : n >= k
    <3>1. WordOf(c, 4) = IF 4 \in 1 .. n THEN c[4] ELSE Blank  BY <1>1, WordIs
    <3> HIDE DEF n, c
    <3>2. 4 \in 1 .. n /\ \A k \in {1, 2} : n >= k  BY <2>1
    <3> QED BY <3>1, <3>2
  <2>3. IsWords(words) /\ IsWords(four) /\ Len(four) = 4  BY <1>2 DEF IsSettled
  <2>4. \A k \in 1 .. 4 : four[k] = c[k]
    <3>1. /\ \A k \in {1, 2} : Len(words) >= k => four[k] = words[k]
          /\ four[3] = "windows" /\ four[4] = WindowsEnvironment(WordOf(words, 4))
      BY <2>3, FourIs
    <3> HIDE DEF n, c, words, four
    <3>2. four[1] = c[1] /\ four[2] = c[2] /\ four[3] = c[3] /\ four[4] = c[4]
      BY <1>3, <2>1, <2>2, <3>1 DEF n, c
    <3> QED BY <3>2
  <2>5. CASE ~NamesFormat
    <3>1. components' = four /\ n = 4  BY <1>2, <1>5, <2>1, <2>5 DEF IsSettled
    <3> HIDE DEF four
    <3>2. four = c  BY <1>1, <2>3, <2>4, <3>1, SameWordsSame
    <3> QED BY <3>1, <3>2
  <2>6. CASE NamesFormat
    <3>1. components' = Append(four, name) /\ n = 5 /\ name = c[5]
      BY <1>2, <1>5, <2>1, <2>6 DEF IsSettled
    <3> HIDE DEF four, name, n
    <3> DEFINE e == components'
    <3>2. e = Append(four, name)  BY <3>1
    <3> HIDE DEF e
    <3>3. Len(four) + 1 = 5 /\ \A k \in 1 .. Len(four) : four[k] = c[k]  BY <2>3, <2>4
    <3>4. Len(c) = Len(four) + 1 /\ name = c[Len(four) + 1]  BY <3>1, <3>3 DEF n
    <3>5. IsWords(four)  BY <2>3
    <3>6. e = c  BY <1>1, <3>2, <3>3, <3>4, <3>5, AppendedSame
    <3> QED BY <3>6 DEF e
  <2> QED BY <2>5, <2>6
<1> QED BY <1>4, <1>5

\* What the search leaves behind, what comes out, and what a second search leaves alone.
NormalInv ==
  /\ stage \in {"find", "move", "settle"} => LeftIs
  /\ stage = "done" => IsNormal(components)
  /\ stage \in {"find", "move", "settle"} /\ first # <<>> => AgainIs
  /\ Idempotent

LEMMA NormalStart == Start /\ first = <<>> => NormalInv
BY LeftStart DEF Start, NormalInv, Idempotent

\* A second search moves nothing.
LEMMA AgainUnmoved ==
  ASSUME NormInv, AgainIs, MoveLeft \/ PushRight
  PROVE  FALSE
<1>1. stage = "move" /\ (pos < idx \/ idx < pos)  BY DEF MoveLeft, PushRight
<1>2. pos = 4 /\ idx = 4  BY <1>1 DEF AgainIs
<1> QED BY <1>1, <1>2

LEMMA NormalSame ==
  ASSUME NormalInv, UNCHANGED <<input, components, found, pos, comp, idx, kinds, stage, first>>
  PROVE  NormalInv'
<1>1. LeftIs' <=> LeftIs  BY DEF LeftIs, SystemRead, FreePlaces, Valid, IsMinGW, IsCygwin
<1>2. IsNormal(components)' <=> IsNormal(components)  BY NormalNext
<1>3. Fixed(components)' = Fixed(components) /\ WordOf(components, 5)' = WordOf(components, 5)
  BY NormalNext
<1>4. AgainIs' <=> AgainIs  BY <1>2, <1>3 DEF AgainIs
<1> QED BY <1>1, <1>2, <1>4 DEF NormalInv, Idempotent

LEMMA NormalStep ==
  ASSUME NormInv, ReadInv, NormalInv, NNext
  PROVE  NormalInv'
<1>1. CASE AlreadyFound \/ NoComponent \/ FindComponent
  <2>1. stage = "find" /\ stage' \in {"find", "move", "settle"} /\ UNCHANGED first
    BY <1>1 DEF AlreadyFound, NoComponent, FindComponent, Advance
  <2>2. LeftIs /\ (first # <<>> => AgainIs)  BY <2>1 DEF NormalInv
  <2>3. LeftIs'  BY <1>1, <2>2, LeftFound, LeftVain, LeftCandidate
  <2>4. first # <<>> => AgainIs'  BY <1>1, <2>2, AgainFound, AgainCandidate
  <2> QED BY <2>1, <2>3, <2>4 DEF NormalInv, Idempotent
<1>2. CASE MoveLeft \/ PushRight \/ Fix
  <2>1. stage = "move" /\ stage' \in {"find", "move", "settle"} /\ UNCHANGED first
    BY <1>2 DEF MoveLeft, PushRight, Fix, Advance
  <2>2. LeftIs /\ (first # <<>> => AgainIs)  BY <2>1 DEF NormalInv
  <2>3. LeftIs'  BY <1>2, <2>2, LeftMoveLeft, LeftPushRight, LeftFix
  <2>4. first # <<>> => AgainIs'  BY <1>2, <2>2, AgainUnmoved, AgainFix
  <2> QED BY <2>1, <2>3, <2>4 DEF NormalInv, Idempotent
<1>3. CASE Settle
  <2>1. stage = "settle" /\ stage' = "done" /\ UNCHANGED first  BY <1>3 DEF Settle
  <2>2. LeftIs /\ KindsFit(kinds) /\ (first # <<>> => AgainIs)
    BY <2>1 DEF NormalInv, ReadInv, KeptIs
  <2>3. IsNormal(components)'  BY <1>3, <2>2, NormalSettled, NormalNext
  <2>4. first # <<>> => components' = first
    <3> HAVE first # <<>>
    <3>1. components' = components  BY <1>3, <2>2, AgainSettled
    <3>2. components = first  BY <2>2 DEF AgainIs
    <3> QED BY <3>1, <3>2
  <2> QED BY <2>1, <2>3, <2>4 DEF NormalInv, Idempotent
<1>4. CASE Again
  <2>1. stage = "done" /\ stage' = "find" /\ Start'  BY <1>4 DEF Again, Start, NormInv
  <2>2. (Start => LeftIs)'  BY LeftStart, PTL
  <2>3. IsNormal(components)  BY <2>1 DEF NormalInv
  <2>4. AgainIs'  BY <1>4, <2>3, AgainStart
  <2> QED BY <2>1, <2>2, <2>4 DEF NormalInv, Idempotent
<1>5. CASE Finished  BY <1>5, NormalSame DEF Finished, nvars
<1> QED BY <1>1, <1>2, <1>3, <1>4, <1>5 DEF NNext

LEMMA NormalInvariant == USpec => []NormalInv
<1>1. ASSUME UInit, NormInv  PROVE NormalInv
  <2>1. Start /\ first = <<>>  BY <1>1 DEF UInit, NInit, Start, NormInv
  <2> QED BY <2>1, NormalStart
<1>2. ASSUME NormInv, ReadInv, NormalInv, [UNext]_uvars  PROVE NormalInv'
  <2>1. CASE Normalize  BY <1>2, <2>1, NormalStep DEF Normalize
  <2>2. CASE ConstructTriple
    <3>1. stage' = "returned"  BY <2>2 DEF ConstructTriple
    <3> QED BY <3>1 DEF NormalInv, Idempotent
  <2>3. CASE UNCHANGED <<input, components, found, pos, comp, idx, kinds, stage, first>>
    BY <1>2, <2>3, NormalSame
  <2>4. Normalize \/ ConstructTriple
          \/ UNCHANGED <<input, components, found, pos, comp, idx, kinds, stage, first>>
    BY <1>2 DEF UNext, ChangeTriple, AskForVariant, LinkModule, ChooseTarget, Ended, Constructed, uvars
  <2> QED BY <2>1, <2>2, <2>3, <2>4
<1> QED BY <1>1, <1>2, NormInvariant, ReadInvariant, PTL DEF USpec

\* What normalize returns is its own normal form: normalised once more, it comes out
\* as it went in.
THEOREM IdempotentUses == USpec => []Idempotent
<1>1. NormalInv => Idempotent  BY DEF NormalInv
<1> QED BY <1>1, NormalInvariant, PTL
=============================================================================
