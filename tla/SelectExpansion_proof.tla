----------------------- MODULE SelectExpansion_proof -----------------------
(***************************************************************************)
(* For all functions, the expansion of selects leaves machine code that    *)
(* the machine verifier accepts: its CFG, its phis and the dominance of    *)
(* uses by definitions; it means what the original means, also to a        *)
(* debugger; and selects on one condition share a triangle.                *)
(***************************************************************************)
EXTENDS SelectExpansion, FiniteSetTheorems, SequenceTheorems, TLAPS

----------------------------------------------------------------------------
(* Induction over a block.                                                 *)

LessThan == {pair \in Nat \X Nat : pair[1] < pair[2]}

\* Sets of natural numbers have least members.
LEMMA Least ==
  ASSUME NEW T, T \subseteq Nat, T # {}
  PROVE  \E n \in T : \A m \in T : n <= m
<1>1. IsWellFoundedOn(OpToRel(<, Nat), Nat)  BY NatLessThanWellFounded
<1>2. IsWellFoundedOn(LessThan, Nat)  BY <1>1 DEF OpToRel, LessThan
<1>3. PICK n \in T : \A m \in T : ~ (<<m, n>> \in LessThan)  BY <1>2, WFMin
<1>4. \A m \in T : ~(m < n)  BY <1>3 DEF LessThan
<1> QED BY <1>3, <1>4

\* The position of p among the positions in S.
Rank(S, p) == Cardinality({q \in S : q <= p})

LEMMA RankStep ==
  ASSUME NEW n \in Nat, NEW S \in SUBSET (1 .. n)
  PROVE  /\ Cardinality(S) \in Nat /\ Rank(S, 0) = 0 /\ Rank(S, n) = Cardinality(S)
         /\ \A p \in 0 .. n : Rank(S, p) \in Nat
         /\ \A p \in 1 .. n :
              Rank(S, p) = IF p \in S THEN Rank(S, p - 1) + 1 ELSE Rank(S, p - 1)
<1> DEFINE Upto(m) == {q \in S : q <= m}
<1>0. IsFiniteSet(1 .. n) /\ \A q \in S : q \in Nat /\ 1 <= q /\ q <= n
  BY FS_Interval
<1>1. IsFiniteSet(S) /\ \A p : IsFiniteSet(Upto(p))
  <2>1. \A p : Upto(p) \in SUBSET S  OBVIOUS
  <2>2. IsFiniteSet(S)  BY <1>0, FS_Subset
  <2> QED BY <2>1, <2>2, FS_Subset
<1>2. \A p : Rank(S, p) \in Nat  BY <1>1, FS_CardinalityType DEF Rank
<1>3. Rank(S, 0) = 0
  <2>0. \A q \in S : ~(q <= 0)  BY <1>0
  <2>1. Upto(0) = {}  BY <2>0
  <2> QED BY <2>1, FS_EmptySet DEF Rank
<1>4. Rank(S, n) = Cardinality(S)
  <2>1. Upto(n) = S  BY <1>0
  <2> QED BY <2>1 DEF Rank
<1>5. ASSUME NEW p \in 1 .. n
      PROVE  Rank(S, p) = IF p \in S THEN Rank(S, p - 1) + 1 ELSE Rank(S, p - 1)
  <2>1. CASE p \in S
    <3>0. (\A q \in S : q <= p <=> q <= p - 1 \/ q = p) /\ ~(p <= p - 1)  BY <1>0
    <3>1. Upto(p) = Upto(p - 1) \cup {p} /\ p \notin Upto(p - 1)  BY <2>1, <3>0
    <3>2. IsFiniteSet(Upto(p - 1))  BY <1>1
    <3> DEFINE U == Upto(p - 1)
    <3>3. Cardinality(U \cup {p}) = Cardinality(U) + 1
      <4> HIDE DEF U
      <4> QED BY <3>1, <3>2, FS_AddElement DEF U
    <3>4. Rank(S, p) = Cardinality(U \cup {p}) /\ Rank(S, p - 1) = Cardinality(U)
      BY <3>1 DEF Rank
    <3> QED BY <2>1, <3>3, <3>4
  <2>2. CASE p \notin S
    <3>1. \A q \in S : q <= p <=> q <= p - 1  BY <1>0, <2>2
    <3>2. Upto(p) = Upto(p - 1)  BY <3>1
    <3> QED BY <2>2, <3>2 DEF Rank
  <2> QED BY <2>1, <2>2
<1> QED BY <1>1, <1>2, <1>3, <1>4, <1>5, FS_CardinalityType

LEMMA RankGrows ==
  ASSUME NEW n \in Nat, NEW S \in SUBSET (1 .. n), NEW p \in 0 .. n, NEW q \in p .. n
  PROVE  Rank(S, p) <= Rank(S, q)
<1> DEFINE T == {m \in p .. n : ~(Rank(S, p) <= Rank(S, m))}
<1> SUFFICES ASSUME T # {}  PROVE FALSE
  OBVIOUS
<1>1. T \subseteq Nat  OBVIOUS
<1>2. PICK m \in T : \A k \in T : m <= k
  <2> HIDE DEF T
  <2> QED BY <1>1, Least
<1>3. Rank(S, p) \in Nat  BY RankStep
<1>4. m # p  BY <1>2, <1>3
<1>5. m - 1 \in p .. n /\ m - 1 \in 0 .. n /\ m \in 1 .. n /\ ~(m <= m - 1)
  BY <1>2, <1>4
<1>6. Rank(S, p) <= Rank(S, m - 1)  BY <1>2, <1>5
<1>7. Rank(S, m - 1) \in Nat
      /\ Rank(S, m) = IF m \in S THEN Rank(S, m - 1) + 1 ELSE Rank(S, m - 1)
  BY <1>5, RankStep
<1> QED BY <1>2, <1>3, <1>6, <1>7

LEMMA Ranks ==
  ASSUME NEW n \in Nat, NEW S \in SUBSET (1 .. n)
  PROVE  /\ Cardinality(S) \in Nat
         /\ \A p \in S : Rank(S, p) \in 1 .. Cardinality(S)
         /\ \A p, q \in S : p < q => Rank(S, p) < Rank(S, q)
         /\ \A k \in 1 .. Cardinality(S) : \E p \in S : Rank(S, p) = k
<1>1. /\ Cardinality(S) \in Nat /\ Rank(S, n) = Cardinality(S) /\ Rank(S, 0) = 0
      /\ \A p \in 0 .. n : Rank(S, p) \in Nat
      /\ \A p \in 1 .. n :
           Rank(S, p) = IF p \in S THEN Rank(S, p - 1) + 1 ELSE Rank(S, p - 1)
  BY RankStep
<1>2. ASSUME NEW p \in S
      PROVE  /\ p - 1 \in 0 .. n /\ p \in 0 .. n /\ p \in 1 .. n
             /\ Rank(S, p - 1) \in Nat /\ Rank(S, p) = Rank(S, p - 1) + 1
  <2>1. p - 1 \in 0 .. n /\ p \in 0 .. n /\ p \in 1 .. n  OBVIOUS
  <2> QED BY <1>1, <2>1
<1>3. ASSUME NEW p \in S  PROVE Rank(S, p) \in 1 .. Cardinality(S)
  <2>1. Rank(S, p) <= Rank(S, n)
    <3>1. p \in 0 .. n /\ n \in p .. n  BY <1>2
    <3> QED BY <3>1, RankGrows
  <2> QED BY <1>1, <1>2, <2>1
<1>4. ASSUME NEW p \in S, NEW q \in S, p < q  PROVE Rank(S, p) < Rank(S, q)
  <2>1. p \in 0 .. n /\ q - 1 \in p .. n  BY <1>2, <1>4
  <2>2. Rank(S, p) <= Rank(S, q - 1)  BY <2>1, RankGrows
  <2>3. Rank(S, p) \in Nat  BY <1>1, <2>1
  <2> QED BY <1>2, <2>2, <2>3
<1>5. ASSUME NEW k \in 1 .. Cardinality(S)  PROVE \E p \in S : Rank(S, p) = k
  <2> DEFINE T == {m \in 0 .. n : k <= Rank(S, m)}
  <2>1. T \subseteq Nat /\ n \in T  BY <1>1
  <2>2. PICK m \in T : \A l \in T : m <= l
    <3> HIDE DEF T
    <3> QED BY <2>1, Least
  <2>3. m # 0  BY <1>1, <2>2
  <2>4. m - 1 \in 0 .. n /\ m \in 1 .. n /\ ~(m <= m - 1)
    BY <2>2, <2>3
  <2>5. Rank(S, m - 1) \in Nat
        /\ Rank(S, m) = IF m \in S THEN Rank(S, m - 1) + 1 ELSE Rank(S, m - 1)
    BY <1>1, <2>4
  <2>6. ~(k <= Rank(S, m - 1)) /\ k <= Rank(S, m)  BY <2>2, <2>4
  <2> QED BY <2>5, <2>6
<1> QED BY <1>1, <1>3, <1>4, <1>5

LEMMA SequenceOf ==
  ASSUME NEW n \in Nat, NEW c, c = [k \in 1 .. n |-> c[k]]
  PROVE  c \in Seq(Range(c)) /\ Len(c) = n /\ DOMAIN c = 1 .. n
<1>1. DOMAIN c = 1 .. n /\ \A k \in 1 .. n : c[k] \in Range(c)  BY DEF Range
<1>2. c \in [1 .. n -> Range(c)]  BY <1>1
<1> QED BY <1>1, <1>2

Sequence(c) == c \in Seq(Range(c)) /\ Len(c) \in Nat /\ DOMAIN c = 1 .. Len(c)

IsJoined(c, s, t)   == c = s \o t
IsAppended(c, s, e) == c = Append(s, e)

LEMMA Joined ==
  ASSUME NEW s, NEW t, Sequence(s), Sequence(t), NEW c, IsJoined(c, s, t)
  PROVE  /\ Sequence(c) /\ Len(c) = Len(s) + Len(t)
         /\ \A k \in 1 .. Len(s) : c[k] = s[k]
         /\ \A k \in 1 .. Len(t) : c[Len(s) + k] = t[k]
<1> DEFINE S == Range(s) \cup Range(t)
           m == Len(s)
           n == Len(t)
<1>1. m \in Nat /\ n \in Nat  BY DEF Sequence
<1>2. s \in Seq(S) /\ t \in Seq(S)
  <2>1. s \in Seq(Range(s)) /\ t \in Seq(Range(t))  BY DEF Sequence
  <2>2. Range(s) \subseteq S /\ Range(t) \subseteq S  OBVIOUS
  <2> HIDE DEF S
  <2> QED BY <2>1, <2>2, SeqMonotonic
<1> HIDE DEF S
<1>3. /\ c \in Seq(S) /\ Len(c) = m + n
      /\ \A k \in 1 .. m + n : c[k] = IF k <= m THEN s[k] ELSE t[k - m]
  BY <1>1, <1>2, ConcatProperties DEF IsJoined
<1> HIDE DEF m, n
<1>4. c \in [1 .. Len(c) -> S] /\ Len(c) \in Nat  BY <1>3, LenProperties
<1>5. c = [k \in 1 .. Len(c) |-> c[k]]  BY <1>4
<1>6. Sequence(c)  BY <1>4, <1>5, SequenceOf DEF Sequence
<1>7. \A k \in 1 .. m : c[k] = s[k]  BY <1>1, <1>3
<1>8. ASSUME NEW k \in 1 .. n  PROVE c[m + k] = t[k]
  <2>1. m + k \in 1 .. m + n /\ ~(m + k <= m) /\ (m + k) - m = k  BY <1>1
  <2> QED BY <1>3, <2>1
<1> QED BY <1>3, <1>6, <1>7, <1>8 DEF m, n

LEMMA Appended ==
  ASSUME NEW s, NEW e, Sequence(s), NEW c, IsAppended(c, s, e)
  PROVE  /\ Sequence(c) /\ Len(c) = Len(s) + 1 /\ c[Len(s) + 1] = e
         /\ \A k \in 1 .. Len(s) : c[k] = s[k]
<1> DEFINE S == Range(s) \cup {e}
<1>1. s \in Seq(S) /\ e \in S
  <2>1. Range(s) \subseteq S /\ s \in Seq(Range(s))  BY DEF Sequence
  <2> HIDE DEF S
  <2> QED BY <2>1, SeqMonotonic DEF S
<1> HIDE DEF S
<1>2. /\ c \in Seq(S) /\ Len(c) = Len(s) + 1 /\ c[Len(s) + 1] = e
      /\ \A k \in 1 .. Len(s) : c[k] = s[k]
  BY <1>1, AppendProperties DEF IsAppended
<1>3. c \in [1 .. Len(c) -> S] /\ Len(c) \in Nat  BY <1>2, LenProperties
<1>4. c = [k \in 1 .. Len(c) |-> c[k]]  BY <1>3
<1>5. Sequence(c)  BY <1>3, <1>4, SequenceOf DEF Sequence
<1> QED BY <1>2, <1>5

\* c are the n instructions of `code` at S, each once and in their order; `at` says
\* where they come from.
Takes(c, n, at, code, S) ==
  /\ Sequence(c) /\ Len(c) = n /\ at \in [1 .. n -> S]
  /\ \A k \in 1 .. n : c[k] = code[at[k]]
  /\ \A k, l \in 1 .. n : k < l => at[k] < at[l]
  /\ \A p \in S : \E k \in 1 .. n : at[k] = p

LEMMA Picked ==
  ASSUME NEW n \in Nat, NEW S \in SUBSET (1 .. n), NEW code
  PROVE  \E at : Takes(Pick(code, S), Cardinality(S), at, code, S)
<1> DEFINE c == Cardinality(S)
           at == [k \in 1 .. c |-> CHOOSE p \in S : Rank(S, p) = k]
<1>1. c \in Nat  BY Ranks
<1>2. \A k \in 1 .. c : at[k] \in S /\ Rank(S, at[k]) = k  BY Ranks
<1>3. Pick(code, S) = [k \in 1 .. c |-> code[at[k]]]  BY DEF Pick, Rank
<1>0. at \in [1 .. c -> S]  BY <1>2
<1> HIDE DEF at, c
<1>4. ASSUME NEW k \in 1 .. c, NEW l \in 1 .. c, k < l  PROVE at[k] < at[l]
  <2>1. at[k] \in S /\ at[l] \in S /\ Rank(S, at[k]) = k /\ Rank(S, at[l]) = l  BY <1>2
  <2>2. at[k] \in Int /\ at[l] \in Int
    <3>1. \A p \in S : p \in Int  OBVIOUS
    <3> QED BY <2>1, <3>1
  <2>3. ~(Rank(S, at[l]) < Rank(S, at[k])) /\ at[k] # at[l]  BY <1>1, <1>4, <2>1
  <2>4. ~(at[l] < at[k])  BY <2>1, <2>3, Ranks
  <2> QED BY <2>2, <2>3, <2>4
<1>5. ASSUME NEW p \in S  PROVE \E k \in 1 .. c : at[k] = p
  <2>1. Rank(S, p) \in 1 .. c  BY Ranks DEF c
  <2>2. PICK q \in S : q = at[Rank(S, p)] /\ Rank(S, q) = Rank(S, p)  BY <1>2, <2>1
  <2>3. p \in Int /\ q \in Int /\ Rank(S, p) \in Nat  BY <1>1, <2>1
  <2>4. ~(p < q)
    <3>1. p < q => Rank(S, p) < Rank(S, q)  BY Ranks
    <3> QED BY <2>2, <2>3, <3>1
  <2>5. ~(q < p)
    <3>1. q < p => Rank(S, q) < Rank(S, p)  BY Ranks
    <3> QED BY <2>2, <2>3, <3>1
  <2>6. p = q  BY <2>3, <2>4, <2>5
  <2> QED BY <2>1, <2>2, <2>6
<1> DEFINE d == Pick(code, S)
<1>6. d = [k \in 1 .. c |-> d[k]] /\ \A k \in 1 .. c : d[k] = code[at[k]]  BY <1>3
<1> HIDE DEF d
<1>7. Sequence(d) /\ Len(d) = c  BY <1>1, <1>6, SequenceOf DEF Sequence
<1>8. Takes(d, c, at, code, S)  BY <1>0, <1>4, <1>5, <1>6, <1>7 DEF Takes
<1> QED BY <1>8 DEF d, c

----------------------------------------------------------------------------
(* The code that is moved.                                                 *)

\* The sequence of selects has a last one; the scan does not stop up to it, and does
\* before it gets to any select behind it.
LEMMA LastSelectIs ==
  ASSUME NEW code, Len(code) \in Nat, NEW i \in 1 .. Len(code), IsSelect(code[i]),
         code[i].def \notin {code[i].args[3], code[i].args[4]}
  PROVE  /\ LastSelect(code, i) \in i .. Len(code) /\ IsSelect(code[LastSelect(code, i)])
         /\ \A q \in i .. LastSelect(code, i) : ~Stops(code, i, q)
         /\ \A r \in LastSelect(code, i) + 1 .. Len(code) :
              IsSelect(code[r]) => \E q \in i .. r : Stops(code, i, q)
         /\ ~Stops(code, i, i)
<1> DEFINE n == Len(code)
           OK(p) == IsSelect(code[p]) /\ \A q \in i .. p : ~Stops(code, i, q)
           T == {d \in 0 .. n : \E p \in i .. n : OK(p) /\ d = n - p}
<1>1. ~Stops(code, i, i)
  <2>1. SelectDests(code, i, i) = {code[i].def}
    <3>1. {j \in i .. i - 1 : IsSelect(code[j])} = {}
      <4>1. \A j \in i .. i - 1 : FALSE  OBVIOUS
      <4> QED BY <4>1
    <3>2. {i} \cup {j \in i .. i - 1 : IsSelect(code[j])} = {i}  BY <3>1
    <3> QED BY <3>2 DEF SelectDests
  <2>2. code[i].kind = "select"  BY DEF IsSelect
  <2>3. {code[i].args[3], code[i].args[4]} \cap SelectDests(code, i, i) = {}  BY <2>1
  <2> QED BY <2>2, <2>3 DEF Stops, IsSelect
<1>2. OK(i)
  <2>1. \A q \in i .. i : q = i  OBVIOUS
  <2> QED BY <1>1, <2>1
<1> HIDE DEF OK
<1>3. T \subseteq Nat /\ n - i \in T  BY <1>2
<1>4. PICK d \in T : \A e \in T : d <= e
  <2> HIDE DEF T
  <2> QED BY <1>3, Least
<1>5. PICK p \in i .. n : OK(p) /\ d = n - p  BY <1>4
<1>6. ASSUME NEW r \in p + 1 .. n, OK(r)  PROVE FALSE
  <2>1. /\ r \in i .. n /\ n - r \in 0 .. n /\ n \in Nat /\ p \in Nat /\ r \in Nat
        /\ ~(n - p <= n - r)
    BY <1>5
  <2>2. n - r \in T  BY <1>6, <2>1
  <2>3. d <= n - r  BY <1>4, <2>2
  <2> QED BY <1>5, <2>1, <2>3
<1>7. \E x \in i .. n :
        /\ IsSelect(code[x]) /\ \A q \in i .. x : ~Stops(code, i, q)
        /\ \A r \in x + 1 .. n : IsSelect(code[r]) => \E q \in i .. r : Stops(code, i, q)
  BY <1>5, <1>6 DEF OK
<1>8. /\ LastSelect(code, i) \in i .. n /\ IsSelect(code[LastSelect(code, i)])
      /\ \A q \in i .. LastSelect(code, i) : ~Stops(code, i, q)
      /\ \A r \in LastSelect(code, i) + 1 .. n :
           IsSelect(code[r]) => \E q \in i .. r : Stops(code, i, q)
  <2> DEFINE Q(x) == /\ IsSelect(code[x]) /\ \A q \in i .. x : ~Stops(code, i, q)
                     /\ \A r \in x + 1 .. n :
                          IsSelect(code[r]) => \E q \in i .. r : Stops(code, i, q)
  <2>1. LastSelect(code, i) = CHOOSE x \in i .. n : Q(x)  BY DEF LastSelect
  <2>2. \E x \in i .. n : Q(x)  BY <1>7
  <2>3. LastSelect(code, i) \in i .. n /\ Q(LastSelect(code, i))
    <3> HIDE DEF Q
    <3> QED BY <2>1, <2>2
  <2> QED BY <2>3
<1> QED BY <1>1, <1>8

\* The code of a block that can be split at the select i.
Splits(code, i) ==
  /\ code \in Seq(Range(code)) /\ i \in 1 .. Len(code) /\ IsSelect(code[i])
  /\ code[i].def \notin {code[i].args[3], code[i].args[4]}

\* Head keeps n instructions from before the last select, in their order, and gets
\* the branch b: all that are before the first select, and behind it all but the
\* selects and their debug values.
HeadShape(c, code, i, last, b, n, at) ==
  /\ Sequence(c) /\ Len(c) = n + 1 /\ n \in Nat /\ at \in [1 .. n -> 1 .. last] /\ c[n + 1] = b
  /\ \A k \in 1 .. n : /\ c[k] = code[at[k]] /\ (i <= at[k] => ~IsSelect(code[at[k]]))
                       /\ at[k] \notin SelectDebugValues(code, i, last)
  /\ \A k, l \in 1 .. n : k < l => at[k] < at[l]
  /\ \A p \in 1 .. last :
       p < i \/ ~(IsSelect(code[p]) \/ IsDebug(code[p])) => \E k \in 1 .. n : at[k] = p
  /\ \A p \in 1 .. last : ~IsSelect(code[p]) /\ p \notin SelectDebugValues(code, i, last) =>
       \E k \in 1 .. n : at[k] = p

\* Debug values that move to Tail stand behind the first select.
LEMMA DebugValuesAre ==
  ASSUME NEW code, NEW i, Splits(code, i), NEW last \in i .. Len(code),
         NEW p \in SelectDebugValues(code, i, last)
  PROVE  p \in i + 1 .. Len(code) /\ IsDebug(code[p])
<1>1. Len(code) \in Nat /\ i \in 1 .. Len(code)  BY DEF Splits
<1>2. PICK k \in i .. last : p \in CollectDebugValues(code, k)  BY DEF SelectDebugValues
<1>3. p \in k + 1 .. Len(code) /\ \A j \in k + 1 .. p : IsDebug(code[j])
  BY <1>2 DEF CollectDebugValues
<1>4. p \in k + 1 .. p /\ p \in i + 1 .. Len(code)  BY <1>1, <1>3
<1> QED BY <1>3, <1>4

LEMMA HeadIs ==
  ASSUME NEW code, NEW i, Splits(code, i), NEW tail,
         NEW last \in i .. Len(code)
  PROVE  \E n, at :
           HeadShape(HeadCode(code, i, last, tail), code, i, last,
                     Branch(GetBrCond[code[i].attr], code[i].args[1], code[i].args[2], tail),
                     n, at)
<1> DEFINE gone == {k \in i .. last : IsSelect(code[k])} \cup SelectDebugValues(code, i, last)
           S == (1 .. last) \ gone
           n == Cardinality(S)
           b == Branch(GetBrCond[code[i].attr], code[i].args[1], code[i].args[2], tail)
           d == Pick(code, S)
<1>0. i \in 1 .. Len(code) /\ Len(code) \in Nat /\ last \in Nat /\ last \in 1 .. Len(code)
  BY DEF Splits
<1>1. /\ S \in SUBSET (1 .. last) /\ \A p \in S : i <= p => ~IsSelect(code[p])
      /\ \A p \in S : p \notin SelectDebugValues(code, i, last)
  <2>1. \A p \in 1 .. last : i <= p => p \in i .. last  BY <1>0
  <2> QED BY <2>1
<1>10. ASSUME NEW p \in 1 .. last, p < i \/ ~(IsSelect(code[p]) \/ IsDebug(code[p]))
       PROVE  p \in S
  <2>1. p \notin {k \in i .. last : IsSelect(code[k])}  BY <1>0, <1>10
  <2>2. p \notin SelectDebugValues(code, i, last)
    <3>1. p \in SelectDebugValues(code, i, last) => p \in i + 1 .. Len(code) /\ IsDebug(code[p])
      BY DebugValuesAre
    <3> QED BY <1>0, <1>10, <3>1
  <2> QED BY <2>1, <2>2
<1> DEFINE c == HeadCode(code, i, last, tail)
<1>2. IsAppended(c, d, b)  BY DEF HeadCode, IsAppended
<1> HIDE DEF S, b, c
<1>3. PICK at : Takes(d, n, at, code, S)  BY <1>0, <1>1, Picked
<1> HIDE DEF n, d
<1>11. Sequence(d) /\ Len(d) = n  BY <1>3 DEF Takes
<1>4. n \in Nat  BY <1>11 DEF Sequence
<1>5. /\ Sequence(c) /\ Len(c) = n + 1 /\ c[n + 1] = b
      /\ \A k \in 1 .. n : c[k] = d[k]
  <2>1. Sequence(d)  BY <1>11
  <2>2. /\ Sequence(c) /\ Len(c) = Len(d) + 1 /\ c[Len(d) + 1] = b
        /\ \A k \in 1 .. Len(d) : c[k] = d[k]
    BY <1>2, <2>1, Appended
  <2> QED BY <1>11, <2>2
<1>6. at \in [1 .. n -> S] /\ \A k \in 1 .. n : d[k] = code[at[k]]  BY <1>3 DEF Takes
<1>7. /\ at \in [1 .. n -> 1 .. last]
      /\ \A k \in 1 .. n : /\ i <= at[k] => ~IsSelect(code[at[k]])
                           /\ at[k] \notin SelectDebugValues(code, i, last)
  BY <1>1, <1>6
<1>8. /\ \A k, l \in 1 .. n : k < l => at[k] < at[l]
      /\ \A p \in S : \E k \in 1 .. n : at[k] = p
  BY <1>3 DEF Takes
<1>12. \A p \in 1 .. last : ~IsSelect(code[p]) /\ p \notin SelectDebugValues(code, i, last) =>
         p \in S
  BY DEF S
<1>9. HeadShape(c, code, i, last, b, n, at)
  BY <1>4, <1>5, <1>6, <1>7, <1>8, <1>10, <1>12 DEF HeadShape
<1> QED BY <1>9 DEF b, c

PhiOf(s, head, ifFalse) == Phi(s.def, <<s.args[3], s.args[4]>>, <<head, ifFalse>>)

\* Two of the first n instructions of c are phis for two selects.
TwoSelects(c, code, i, last, head, ifFalse, n) ==
  \A k, l \in 1 .. n : k < l =>
    \E p, p2 \in i .. last : /\ p < p2 /\ IsSelect(code[p]) /\ IsSelect(code[p2])
                            /\ c[k] = PhiOf(code[p], head, ifFalse)
                            /\ c[l] = PhiOf(code[p2], head, ifFalse)

\* The r instructions at `at` are the debug values of S in their order, then the
\* others in theirs.
InParts(r, at, S) ==
  \E m \in 0 .. r : /\ \A k \in 1 .. r : k <= m <=> at[k] \in S
                    /\ \A k, l \in 1 .. r : k < l /\ (l <= m \/ m < k) => at[k] < at[l]

\* Tail gets a phi for each of the n selects of the sequence and r instructions from
\* behind the first one, each once: the debug values of the selects first, then all
\* others that are behind the last select.
TailShape(c, code, i, last, head, ifFalse, n, r, at) ==
  /\ Sequence(c) /\ Len(c) = n + r /\ n \in Nat /\ r \in Nat
  /\ at \in [1 .. r -> i + 1 .. Len(code)]
  /\ \A k \in 1 .. n : \E p \in i .. last :
       IsSelect(code[p]) /\ c[k] = PhiOf(code[p], head, ifFalse)
  /\ \A p \in i .. last :
       IsSelect(code[p]) => \E k \in 1 .. n : c[k] = PhiOf(code[p], head, ifFalse)
  /\ \A k \in 1 .. r : c[n + k] = code[at[k]]
  /\ \A k, l \in 1 .. r : k # l => at[k] # at[l]
  /\ \A p \in last + 1 .. Len(code) : \E k \in 1 .. r : at[k] = p
  /\ \A k \in 1 .. r :
       at[k] <= last => IsDebug(code[at[k]]) /\ at[k] \in SelectDebugValues(code, i, last)
  /\ \A p \in SelectDebugValues(code, i, last) : \E k \in 1 .. r : at[k] = p
  /\ TwoSelects(c, code, i, last, head, ifFalse, n)
  /\ InParts(r, at, SelectDebugValues(code, i, last))

\* What is no debug value keeps its order in Tail.
LEMMA TailOrder ==
  ASSUME NEW c, NEW code, NEW i, NEW last, NEW head, NEW ifFalse, NEW n, NEW r, NEW at,
         TailShape(c, code, i, last, head, ifFalse, n, r, at),
         NEW k \in 1 .. r, NEW l \in 1 .. r, k < l, ~IsDebug(code[at[k]])
  PROVE  at[k] < at[l]
<1> DEFINE S == SelectDebugValues(code, i, last)
<1>1. r \in Nat /\ InParts(r, at, S)  BY DEF TailShape
<1>2. \A p \in S : IsDebug(code[p])
  <2> SUFFICES ASSUME NEW p \in S  PROVE IsDebug(code[p])
    OBVIOUS
  <2>1. PICK q \in i .. last : p \in CollectDebugValues(code, q)  BY DEF SelectDebugValues
  <2>2. p \in q + 1 .. Len(code) /\ \A j \in q + 1 .. p : IsDebug(code[j])
    BY <2>1 DEF CollectDebugValues
  <2>3. p \in q + 1 .. p  BY <2>2
  <2> QED BY <2>2, <2>3
<1>3. at[k] \notin S  BY <1>2
<1> HIDE DEF S
<1>4. PICK m \in 0 .. r : /\ \A j \in 1 .. r : j <= m <=> at[j] \in S
                         /\ \A j, q \in 1 .. r : j < q /\ (q <= m \/ m < j) => at[j] < at[q]
  BY <1>1 DEF InParts
<1>5. ~(k <= m)  BY <1>3, <1>4
<1>6. m < k  BY <1>5
<1> QED BY <1>4, <1>6

\* `at` lists the positions of S as `of` does, then those of T as `from` does.
JoinsParts(at, S, T, m, l, of, from) ==
  /\ at \in [1 .. m + l -> S \cup T]
  /\ \A k \in 1 .. m : at[k] = of[k]
  /\ \A k \in 1 .. l : at[m + k] = from[k]
  /\ \A k, j \in 1 .. m + l : k # j => at[k] # at[j]
  /\ \A p \in S \cup T : \E k \in 1 .. m + l : at[k] = p
  /\ InParts(m + l, at, S)

\* The positions of two disjoint sets, one set after the other.
LEMMA TwoParts ==
  ASSUME NEW N \in Nat, NEW S \in SUBSET (1 .. N), NEW T \in SUBSET (1 .. N), S \cap T = {},
         NEW m \in Nat, NEW l \in Nat, NEW code,
         NEW d, NEW e, NEW of, NEW from,
         Takes(d, m, of, code, S), Takes(e, l, from, code, T)
  PROVE  \E at : JoinsParts(at, S, T, m, l, of, from)
<1> DEFINE at == [k \in 1 .. m + l |-> IF k <= m THEN of[k] ELSE from[k - m]]
<1>1. /\ of \in [1 .. m -> S] /\ from \in [1 .. l -> T]
      /\ \A k, j \in 1 .. m : k < j => of[k] < of[j]
      /\ \A k, j \in 1 .. l : k < j => from[k] < from[j]
      /\ \A p \in S : \E k \in 1 .. m : of[k] = p
      /\ \A p \in T : \E k \in 1 .. l : from[k] = p
  BY DEF Takes
<1>2. \A p \in S \cup T : p \in Nat  OBVIOUS
<1>3. /\ \A k \in 1 .. m : k \in 1 .. m + l /\ at[k] = of[k]
      /\ \A k \in m + 1 .. m + l : k - m \in 1 .. l /\ at[k] = from[k - m]
      /\ \A k \in 1 .. l : m + k \in m + 1 .. m + l /\ (m + k) - m = k
      /\ \A k \in 1 .. m + l : k \in 1 .. m \/ k \in m + 1 .. m + l
      /\ m + 1 .. m + l \subseteq 1 .. m + l
  OBVIOUS
<1>4. at \in [1 .. m + l -> S \cup T]
  <2>1. \A k \in 1 .. m + l : at[k] \in S \cup T  BY <1>1, <1>3
  <2> QED BY <2>1
<1>5. \A k \in 1 .. l : at[m + k] = from[k]  BY <1>3
<1> HIDE DEF at
<1>6. /\ \A k \in 1 .. m : at[k] \in S
      /\ \A k \in m + 1 .. m + l : at[k] \in T
  BY <1>1, <1>3
<1>7. \A k, j \in 1 .. m : k < j => at[k] < at[j]  BY <1>1, <1>3
<1>8. ASSUME NEW k \in m + 1 .. m + l, NEW j \in m + 1 .. m + l, k < j
      PROVE  at[k] < at[j]
  <2>1. k - m \in 1 .. l /\ j - m \in 1 .. l /\ k - m < j - m  BY <1>8
  <2> QED BY <1>1, <1>3, <2>1
<1>9. ASSUME NEW k \in 1 .. m + l, NEW j \in 1 .. m + l, k < j  PROVE at[k] # at[j]
  <2>1. at[k] \in Nat /\ at[j] \in Nat  BY <1>2, <1>4
  <2>2. CASE j \in 1 .. m
    <3>1. k \in 1 .. m  BY <1>9, <2>2
    <3> QED BY <1>7, <1>9, <2>1, <2>2, <3>1
  <2>3. CASE k \in m + 1 .. m + l
    <3>1. j \in m + 1 .. m + l  BY <1>9, <2>3
    <3> QED BY <1>8, <1>9, <2>1, <2>3, <3>1
  <2>4. CASE k \in 1 .. m /\ j \in m + 1 .. m + l  BY <1>6, <2>4
  <2> QED BY <1>3, <2>2, <2>3, <2>4
<1>10. \A k, j \in 1 .. m + l : k # j => at[k] # at[j]
  <2>1. \A k, j \in 1 .. m + l : k # j => k < j \/ j < k  OBVIOUS
  <2> QED BY <1>9, <2>1
<1>11. ASSUME NEW p \in S \cup T  PROVE \E k \in 1 .. m + l : at[k] = p
  <2>1. CASE p \in S  BY <1>1, <1>3, <2>1
  <2>2. CASE p \in T
    <3>1. PICK k \in 1 .. l : from[k] = p  BY <1>1, <2>2
    <3>2. m + k \in 1 .. m + l /\ at[m + k] = p  BY <1>3, <1>5, <3>1
    <3> QED BY <3>2
  <2> QED BY <2>1, <2>2
<1>12. InParts(m + l, at, S)
  <2>1. m \in 0 .. m + l  OBVIOUS
  <2>2. \A k \in 1 .. m + l : k <= m <=> at[k] \in S
    <3>1. \A k \in 1 .. m + l : (k <= m <=> k \in 1 .. m) /\ (~(k <= m) <=> k \in m + 1 .. m + l)
      OBVIOUS
    <3> QED BY <1>6, <3>1
  <2>3. \A k, j \in 1 .. m + l : k < j /\ (j <= m \/ m < k) => at[k] < at[j]
    <3>1. \A k, j \in 1 .. m + l : k < j /\ (j <= m \/ m < k) =>
            \/ k \in 1 .. m /\ j \in 1 .. m
            \/ k \in m + 1 .. m + l /\ j \in m + 1 .. m + l
      OBVIOUS
    <3> QED BY <1>7, <1>8, <3>1
  <2> QED BY <2>1, <2>2, <2>3 DEF InParts
<1>13. JoinsParts(at, S, T, m, l, of, from)
  BY <1>3, <1>4, <1>5, <1>10, <1>11, <1>12 DEF JoinsParts
<1> QED BY <1>13

LEMMA TailIs ==
  ASSUME NEW code, NEW i, Splits(code, i), NEW head, NEW ifFalse,
         NEW last \in i .. Len(code)
  PROVE  \E n, r, at :
           TailShape(TailCode(code, i, last, head, ifFalse), code, i, last, head, ifFalse,
                     n, r, at)
<1> DEFINE s == {k \in i .. last : IsSelect(code[k])}
           S == SelectDebugValues(code, i, last)
           T == (last + 1 .. Len(code)) \ S
           B == S \cup T
           n == Cardinality(s)
           m == Cardinality(S)
           l == Cardinality(T)
           r == m + l
           phi(x) == PhiOf(x, head, ifFalse)
           d == Pick(code, s)
           e == Pick(code, S)
           g == Pick(code, T)
           f == [k \in DOMAIN d |-> phi(d[k])]
           h == f \o e
           c == h \o g
<1>1. Len(code) \in Nat /\ i \in 1 .. Len(code) /\ last \in 1 .. Len(code)
  BY DEF Splits
<1>2. s \in SUBSET (1 .. Len(code))  BY <1>1
<1>3. \A p \in SelectDebugValues(code, i, last) : p \in i + 1 .. Len(code) /\ IsDebug(code[p])
  BY DebugValuesAre
<1>4. \A p \in B : /\ p \in i + 1 .. Len(code)
                   /\ p <= last => IsDebug(code[p]) /\ p \in SelectDebugValues(code, i, last)
  BY <1>1, <1>3
<1>5. /\ \A p \in last + 1 .. Len(code) : p \in B
      /\ \A p \in SelectDebugValues(code, i, last) : p \in B
  OBVIOUS
<1>6. S \in SUBSET (1 .. Len(code)) /\ T \in SUBSET (1 .. Len(code)) /\ S \cap T = {}
  <2>1. T \in SUBSET (1 .. Len(code)) /\ S \cap T = {}  BY <1>1
  <2> HIDE DEF T
  <2>2. \A p \in S : p \in 1 .. Len(code)
    <3>1. \A p \in i + 1 .. Len(code) : p \in 1 .. Len(code)  BY <1>1
    <3> QED BY <1>3, <3>1
  <2> QED BY <2>1, <2>2
<1>7. TailCode(code, i, last, head, ifFalse) = c  BY DEF TailCode, PhiOf
<1>19. \A p : p \in s <=> p \in i .. last /\ IsSelect(code[p])  OBVIOUS
<1>23. S = SelectDebugValues(code, i, last)  OBVIOUS
<1> HIDE DEF s, S, T
<1>8. PICK of : Takes(d, n, of, code, s)  BY <1>1, <1>2, Picked
<1>9. PICK by : Takes(e, m, by, code, S)  BY <1>1, <1>6, Picked
<1>24. PICK from : Takes(g, l, from, code, T)  BY <1>1, <1>6, Picked
<1> HIDE DEF n, m, l, d, e, g
<1>10. /\ n \in Nat /\ DOMAIN d = 1 .. n /\ Sequence(e) /\ Len(e) = m /\ m \in Nat
       /\ Sequence(g) /\ Len(g) = l /\ l \in Nat /\ r \in Nat
  <2>1. n \in Nat /\ DOMAIN d = 1 .. n  BY <1>8 DEF Takes, Sequence
  <2>2. Sequence(e) /\ Len(e) = m /\ m \in Nat  BY <1>9 DEF Takes, Sequence
  <2>3. Sequence(g) /\ Len(g) = l /\ l \in Nat  BY <1>24 DEF Takes, Sequence
  <2> QED BY <2>1, <2>2, <2>3
<1>11. f = [k \in 1 .. n |-> f[k]] /\ \A k \in 1 .. n : f[k] = phi(d[k])
  BY <1>10
<1> HIDE DEF f
<1>12. Sequence(f) /\ Len(f) = n  BY <1>10, <1>11, SequenceOf DEF Sequence
<1>25. /\ Sequence(h) /\ Len(h) = n + m /\ \A k \in 1 .. n : h[k] = f[k]
       /\ \A k \in 1 .. m : h[n + k] = e[k]
  <2>1. IsJoined(h, f, e)  BY DEF IsJoined
  <2> HIDE DEF h
  <2>2. Sequence(f) /\ Sequence(e)  BY <1>10, <1>12
  <2>3. /\ Sequence(h) /\ Len(h) = Len(f) + Len(e)
        /\ \A k \in 1 .. Len(f) : h[k] = f[k]
        /\ \A k \in 1 .. Len(e) : h[Len(f) + k] = e[k]
    BY <2>1, <2>2, Joined
  <2> QED BY <1>10, <1>12, <2>3
<1> HIDE DEF h
<1>26. /\ Sequence(c) /\ Len(c) = (n + m) + l /\ \A k \in 1 .. n + m : c[k] = h[k]
       /\ \A k \in 1 .. l : c[(n + m) + k] = g[k]
  <2>1. IsJoined(c, h, g)  BY DEF IsJoined
  <2> HIDE DEF c
  <2>2. Sequence(h) /\ Sequence(g)  BY <1>10, <1>25
  <2>3. /\ Sequence(c) /\ Len(c) = Len(h) + Len(g)
        /\ \A k \in 1 .. Len(h) : c[k] = h[k]
        /\ \A k \in 1 .. Len(g) : c[Len(h) + k] = g[k]
    BY <2>1, <2>2, Joined
  <2> QED BY <1>10, <1>25, <2>3
<1> HIDE DEF c
<1>13. /\ Sequence(c) /\ Len(c) = n + r /\ \A k \in 1 .. n : c[k] = f[k]
       /\ \A k \in 1 .. m : c[n + k] = e[k]
       /\ \A k \in 1 .. l : c[n + (m + k)] = g[k]
  <2>1. /\ (n + m) + l = n + r
        /\ \A k \in 1 .. n : k \in 1 .. n + m
        /\ \A k \in 1 .. m : n + k \in 1 .. n + m
        /\ \A k \in 1 .. l : (n + m) + k = n + (m + k)
    BY <1>10
  <2> QED BY <1>25, <1>26, <2>1
<1>30. \E at : JoinsParts(at, S, T, m, l, by, from)
  <2> DEFINE L == Len(code)
  <2>1. L \in Nat /\ S \in SUBSET (1 .. L) /\ T \in SUBSET (1 .. L) /\ S \cap T = {}
    BY <1>1, <1>6
  <2>2. m \in Nat /\ l \in Nat  BY <1>10
  <2>3. Takes(e, m, by, code, S) /\ Takes(g, l, from, code, T)  BY <1>9, <1>24
  <2> HIDE DEF L
  <2> QED BY <2>1, <2>2, <2>3, TwoParts
<1>31. PICK at : JoinsParts(at, S, T, m, l, by, from)  BY <1>30
<1>27. /\ at \in [1 .. m + l -> S \cup T]
       /\ \A k \in 1 .. m : at[k] = by[k]
       /\ \A k \in 1 .. l : at[m + k] = from[k]
       /\ \A k, j \in 1 .. m + l : k # j => at[k] # at[j]
       /\ \A p \in S \cup T : \E k \in 1 .. m + l : at[k] = p
       /\ InParts(m + l, at, S)
  BY <1>31 DEF JoinsParts
<1>28. ASSUME NEW k \in 1 .. r  PROVE c[n + k] = code[at[k]]
  <2>1. CASE k <= m
    <3>1. k \in 1 .. m  BY <1>10, <2>1
    <3>2. e[k] = code[by[k]]  BY <1>9, <3>1 DEF Takes
    <3> QED BY <1>13, <1>27, <3>1, <3>2
  <2>2. CASE ~(k <= m)
    <3>1. k - m \in 1 .. l /\ m + (k - m) = k  BY <1>10, <2>2
    <3>2. g[k - m] = code[from[k - m]]  BY <1>24, <3>1 DEF Takes
    <3>3. c[n + k] = g[k - m] /\ at[k] = from[k - m]  BY <1>13, <1>27, <3>1
    <3> QED BY <3>2, <3>3
  <2> QED BY <2>1, <2>2
<1>14. /\ at \in [1 .. r -> B] /\ \A k \in 1 .. r : c[n + k] = code[at[k]]
       /\ \A k, j \in 1 .. r : k # j => at[k] # at[j]
       /\ \A p \in B : \E k \in 1 .. r : at[k] = p
       /\ InParts(r, at, SelectDebugValues(code, i, last))
  BY <1>23, <1>27, <1>28
<1> HIDE DEF B, r
<1>15. /\ at \in [1 .. r -> i + 1 .. Len(code)]
       /\ \A k \in 1 .. r : at[k] <= last => /\ IsDebug(code[at[k]])
                                             /\ at[k] \in SelectDebugValues(code, i, last)
  BY <1>4, <1>14
<1>16. /\ \A p \in last + 1 .. Len(code) : \E k \in 1 .. r : at[k] = p
       /\ \A p \in SelectDebugValues(code, i, last) : \E k \in 1 .. r : at[k] = p
  BY <1>5, <1>14
<1>17. ASSUME NEW k \in 1 .. n
       PROVE  \E p \in i .. last : IsSelect(code[p]) /\ c[k] = PhiOf(code[p], head, ifFalse)
  <2>1. of[k] \in s /\ d[k] = code[of[k]]  BY <1>8 DEF Takes
  <2> QED BY <1>11, <1>13, <1>19, <2>1
<1>20. ASSUME NEW p \in i .. last, IsSelect(code[p])
       PROVE  \E k \in 1 .. n : c[k] = PhiOf(code[p], head, ifFalse)
  <2>1. p \in s  BY <1>19, <1>20
  <2>2. PICK k \in 1 .. n : of[k] = p /\ d[k] = code[of[k]]  BY <1>8, <2>1 DEF Takes
  <2> QED BY <1>11, <1>13, <2>2
<1>21. ASSUME NEW k \in 1 .. n, NEW j \in 1 .. n, k < j
       PROVE  \E p, p2 \in i .. last : /\ p < p2 /\ IsSelect(code[p]) /\ IsSelect(code[p2])
                                       /\ c[k] = PhiOf(code[p], head, ifFalse)
                                       /\ c[j] = PhiOf(code[p2], head, ifFalse)
  <2>1. /\ of[k] \in s /\ d[k] = code[of[k]] /\ of[j] \in s /\ d[j] = code[of[j]]
        /\ of[k] < of[j]
    BY <1>8, <1>21 DEF Takes
  <2> QED BY <1>11, <1>13, <1>19, <2>1
<1>22. TwoSelects(c, code, i, last, head, ifFalse, n)  BY <1>21 DEF TwoSelects
<1>29. Sequence(c) /\ Len(c) = n + r /\ n \in Nat /\ r \in Nat
  BY <1>10, <1>13 DEF r
<1>18. TailShape(c, code, i, last, head, ifFalse, n, r, at)
  BY <1>14, <1>15, <1>16, <1>17, <1>20, <1>22, <1>29 DEF TailShape
<1> QED BY <1>7, <1>18

----------------------------------------------------------------------------
(* The layout.                                                             *)

\* A layout of n > 0 blocks, each once.
Ordered(order, n) ==
  n \in Nat \ {0} /\ order \in Seq(1 .. n) /\ Len(order) = n /\ IsInjective(order)

OrderIs(order, n) ==
  /\ n \in Nat /\ DOMAIN order = 1 .. n /\ Range(order) = {order[j] : j \in 1 .. n}
  /\ \A j \in 1 .. n : order[j] \in 1 .. n
  /\ \A j, l \in 1 .. n : order[j] = order[l] => j = l

LEMMA OrderedFacts ==
  ASSUME NEW order, NEW n, Ordered(order, n)
  PROVE  OrderIs(order, n)
<1>1. order \in [1 .. n -> 1 .. n] /\ DOMAIN order = 1 .. n
  BY LenProperties DEF Ordered
<1>2. \A j, l \in 1 .. n : order[j] = order[l] => j = l
  BY <1>1 DEF Ordered, IsInjective
<1>3. Range(order) = {order[j] : j \in 1 .. n}  BY <1>1 DEF Range
<1> QED BY <1>1, <1>2, <1>3 DEF Ordered, OrderIs

\* o is `order` with F and T behind position k.
IsInserted(o, order, k, F, T) ==
  o = SubSeq(order, 1, k) \o <<F, T>> \o SubSeq(order, k + 1, Len(order))

\* Every block of a layout has one position.
LEMMA PositionIs ==
  ASSUME NEW order, NEW n, Ordered(order, n), NEW k \in 1 .. n, NEW F, NEW T,
         NEW f, f.order = order
  PROVE  /\ Position(f, order[k]) = k
         /\ IsInserted(InsertBlocks(order, order[k], F, T), order, k, F, T)
<1> DEFINE I == {j \in 1 .. Len(order) : order[j] = order[k]}
           e == order[k]
<1>1. I = {k}
  <2>1. Len(order) = n  BY DEF Ordered
  <2> QED BY <2>1, OrderedFacts DEF OrderIs
<1>3. k \in Int  BY OrderedFacts DEF OrderIs
<1>4. Min({k}) = k
  <2>1. k \in {k} /\ \A y \in {k} : k <= y  BY <1>3
  <2>2. \A x \in {k} : x = k  OBVIOUS
  <2> QED BY <2>1, <2>2 DEF Min
<1>5. Position(f, e) = IF I # {} THEN Min(I) ELSE 0  BY DEF Position, SelectInSeq
<1>6. InsertBlocks(order, e, F, T) =
        LET x == IF I # {} THEN Min(I) ELSE 0
        IN  SubSeq(order, 1, x) \o <<F, T>> \o SubSeq(order, x + 1, Len(order))
  BY DEF InsertBlocks, SelectInSeq
<1>7. (IF I # {} THEN Min(I) ELSE 0) = k  BY <1>1, <1>4
<1> HIDE DEF I
<1> QED BY <1>5, <1>6, <1>7 DEF IsInserted

FollowedBy(f, k, n) ==
  NextInLayout(f, f.order[k]) = IF k < n THEN {f.order[k + 1]} ELSE {}

LEMMA NextIs ==
  ASSUME NEW f, NEW n, Ordered(f.order, n), NEW k \in 1 .. n
  PROVE  FollowedBy(f, k, n)
<1>1. Position(f, f.order[k]) = k  BY PositionIs
<1>2. Len(f.order) = n /\ n \in Nat  BY DEF Ordered
<1>3. NextInLayout(f, f.order[k]) = {f.order[x + 1] : x \in {k} \ {n}}
  BY <1>1, <1>2 DEF NextInLayout
<1>4. CASE k < n
  <2>1. {k} \ {n} = {k}  BY <1>2, <1>4
  <2> QED BY <1>3, <1>4, <2>1 DEF FollowedBy
<1>5. CASE ~(k < n)
  <2>1. {k} \ {n} = {}  BY <1>2, <1>5
  <2> QED BY <1>3, <1>5, <2>1 DEF FollowedBy
<1> QED BY <1>4, <1>5

IsSlice(c, s, a, b) == c = SubSeq(s, a, b)

LEMMA Sliced ==
  ASSUME NEW s, Sequence(s), NEW a \in Nat, NEW b \in Nat, 1 <= a, a <= b + 1,
         b <= Len(s), NEW c, IsSlice(c, s, a, b)
  PROVE  /\ Sequence(c) /\ Len(c) = b - a + 1
         /\ \A j \in 1 .. Len(c) : c[j] = s[a + j - 1]
<1> DEFINE S == Range(s)
<1>1. \A j \in a .. b : s[j] \in S
  <2>1. \A j \in a .. b : j \in 1 .. Len(s)  BY DEF Sequence
  <2>2. \A j \in 1 .. Len(s) : s[j] \in Range(s)  BY DEF Sequence, Range
  <2> QED BY <2>1, <2>2
<1> HIDE DEF S
<1>2. /\ c \in Seq(S) /\ Len(c) = (IF a <= b THEN b - a + 1 ELSE 0)
      /\ \A j \in 1 .. b - a + 1 : c[j] = s[a + j - 1]
  <2>1. a \in Int /\ b \in Int  OBVIOUS
  <2> QED BY <1>1, <2>1, SubSeqProperties DEF IsSlice
<1>3. (IF a <= b THEN b - a + 1 ELSE 0) = b - a + 1  OBVIOUS
<1>4. c \in [1 .. Len(c) -> S] /\ Len(c) \in Nat  BY <1>2, LenProperties
<1>5. c = [k \in 1 .. Len(c) |-> c[k]]  BY <1>4
<1>6. Sequence(c)  BY <1>4, <1>5, SequenceOf DEF Sequence
<1> QED BY <1>2, <1>3, <1>6

LEMMA SequenceIn ==
  ASSUME NEW c, Sequence(c), NEW S, \A j \in 1 .. Len(c) : c[j] \in S
  PROVE  c \in Seq(S)
<1>1. Range(c) \subseteq S  BY DEF Sequence, Range
<1> QED BY <1>1, SeqMonotonic DEF Sequence

\* What stands where: k blocks as before, F, T, the others two places on.
LEMMA InsertedAt ==
  ASSUME NEW order, NEW n, Ordered(order, n), NEW k \in 1 .. n, NEW F, NEW T,
         NEW o, IsInserted(o, order, k, F, T)
  PROVE  /\ Sequence(o) /\ Len(o) = n + 2
         /\ \A j \in 1 .. k : o[j] = order[j]
         /\ o[k + 1] = F /\ o[k + 2] = T
         /\ \A j \in k + 1 .. n : o[j + 2] = order[j]
<1> DEFINE u == SubSeq(order, 1, k)
           v == <<F, T>>
           w == SubSeq(order, k + 1, n)
           uv == u \o v
<1>1. n \in Nat /\ Len(order) = n /\ Sequence(order) /\ k \in Nat /\ k <= n /\ 1 <= k
  <2>1. n \in Nat /\ Len(order) = n /\ DOMAIN order = 1 .. n /\ order \in Seq(1 .. n)
    BY OrderedFacts DEF OrderIs, Ordered
  <2>2. order = [j \in 1 .. n |-> order[j]]  BY <2>1, LenProperties
  <2> QED BY <2>1, <2>2, SequenceOf DEF Sequence
<1>2. IsJoined(uv, u, v) /\ IsJoined(o, uv, w)  BY <1>1 DEF IsInserted, IsJoined
<1>3. IsSlice(u, order, 1, k) /\ IsSlice(w, order, k + 1, n)  BY DEF IsSlice
<1>4. Sequence(v) /\ Len(v) = 2 /\ v[1] = F /\ v[2] = T
  <2>1. v = [j \in 1 .. 2 |-> v[j]] /\ Len(v) = 2 /\ v[1] = F /\ v[2] = T  OBVIOUS
  <2> HIDE DEF v
  <2>2. 2 \in Nat  OBVIOUS
  <2> QED BY <2>1, <2>2, SequenceOf DEF Sequence
<1> HIDE DEF u, v, w, uv
<1>5. Sequence(u) /\ Len(u) = k /\ \A j \in 1 .. k : u[j] = order[j]
  <2>1. 1 \in Nat /\ 1 <= 1 /\ 1 <= k + 1 /\ k <= Len(order) /\ k = k - 1 + 1  BY <1>1
  <2>2. Sequence(u) /\ Len(u) = k - 1 + 1 /\ \A j \in 1 .. Len(u) : u[j] = order[1 + j - 1]
    BY <1>1, <1>3, <2>1, Sliced
  <2>3. \A j \in 1 .. k : 1 + j - 1 = j  OBVIOUS
  <2> QED BY <2>1, <2>2, <2>3
<1>6. Sequence(w) /\ Len(w) = n - k /\ \A j \in 1 .. n - k : w[j] = order[k + 1 + j - 1]
  <2>1. /\ k + 1 \in Nat /\ 1 <= k + 1 /\ k + 1 <= n + 1 /\ n <= Len(order)
        /\ n - k = n - (k + 1) + 1
    BY <1>1
  <2>2. /\ Sequence(w) /\ Len(w) = n - (k + 1) + 1
        /\ \A j \in 1 .. Len(w) : w[j] = order[k + 1 + j - 1]
    <3>1. IsSlice(w, order, k + 1, n) /\ Sequence(order) /\ n \in Nat  BY <1>1, <1>3
    <3> QED BY ONLY <2>1, <3>1, Sliced
  <2>3. n - k = n - (k + 1) + 1  BY <2>1
  <2> QED BY ONLY <2>2, <2>3
<1>7. /\ Sequence(uv) /\ Len(uv) = k + 2 /\ \A j \in 1 .. k : uv[j] = u[j]
      /\ \A j \in 1 .. 2 : uv[k + j] = v[j]
  <2>1. /\ Sequence(uv) /\ Len(uv) = Len(u) + Len(v) /\ \A j \in 1 .. Len(u) : uv[j] = u[j]
        /\ \A j \in 1 .. Len(v) : uv[Len(u) + j] = v[j]
    <3>1. Sequence(u) /\ Sequence(v)  BY <1>4, <1>5
    <3>2. IsJoined(uv, u, v)  BY <1>2
    <3> QED BY <3>1, <3>2, Joined
  <2> QED BY <1>4, <1>5, <2>1
<1>8. /\ Sequence(o) /\ Len(o) = (k + 2) + (n - k) /\ \A j \in 1 .. k + 2 : o[j] = uv[j]
      /\ \A j \in 1 .. n - k : o[(k + 2) + j] = w[j]
  <2>1. /\ Sequence(o) /\ Len(o) = Len(uv) + Len(w) /\ \A j \in 1 .. Len(uv) : o[j] = uv[j]
        /\ \A j \in 1 .. Len(w) : o[Len(uv) + j] = w[j]
    <3>1. Sequence(uv) /\ Sequence(w)  BY <1>6, <1>7
    <3>2. IsJoined(o, uv, w)  BY <1>2
    <3> QED BY <3>1, <3>2, Joined
  <2> QED BY <1>6, <1>7, <2>1
<1>9. ASSUME NEW j \in 1 .. k  PROVE o[j] = order[j]
  <2>1. j \in 1 .. k + 2  BY <1>1
  <2> QED BY <1>5, <1>7, <1>8, <2>1
<1>10. o[k + 1] = F /\ o[k + 2] = T
  <2>1. k + 1 \in 1 .. k + 2 /\ k + 2 \in 1 .. k + 2 /\ 1 \in 1 .. 2 /\ 2 \in 1 .. 2  BY <1>1
  <2> QED BY <1>4, <1>7, <1>8, <2>1
<1>11. ASSUME NEW j \in k + 1 .. n  PROVE o[j + 2] = order[j]
  <2>1. j - k \in 1 .. n - k /\ (k + 2) + (j - k) = j + 2 /\ k + 1 + (j - k) - 1 = j  BY <1>1
  <2>2. o[(k + 2) + (j - k)] = w[j - k] /\ w[j - k] = order[k + 1 + (j - k) - 1]
    BY <1>6, <1>8, <2>1
  <2> QED BY <2>1, <2>2
<1>12. (k + 2) + (n - k) = n + 2  BY <1>1
<1> QED BY <1>8, <1>9, <1>10, <1>11, <1>12

\* Where a place of the new layout comes from: 0 for F and T.
From(j, k) == IF j <= k THEN j ELSE IF j <= k + 2 THEN 0 ELSE j - 2

\* The new layout has each of its blocks once, and they are the old ones, F and T.
LEMMA InsertedIs ==
  ASSUME NEW order, NEW n, Ordered(order, n), NEW k \in 1 .. n,
         NEW T, T = n + 1, NEW F, F = n + 2, NEW m, m = n + 2,
         NEW o, IsInserted(o, order, k, F, T)
  PROVE  Ordered(o, m) /\ Range(o) = Range(order) \cup {F, T}
<1>1. /\ n \in Nat /\ k \in Nat /\ \A j \in 1 .. n : order[j] \in 1 .. n
      /\ \A j, l \in 1 .. n : order[j] = order[l] => j = l
      /\ Range(order) = {order[j] : j \in 1 .. n}
  <2>1. OrderIs(order, n)  BY OrderedFacts
  <2> QED BY <2>1 DEF OrderIs
<1>2. /\ Sequence(o) /\ Len(o) = m /\ \A j \in 1 .. k : o[j] = order[j]
      /\ o[k + 1] = F /\ o[k + 2] = T
      /\ \A j \in k + 1 .. n : o[j + 2] = order[j]
  <2>1. /\ Ordered(order, n) /\ k \in 1 .. n /\ T = n + 1 /\ F = n + 2 /\ m = n + 2
        /\ IsInserted(o, order, k, F, T)
    OBVIOUS
  <2> QED BY ONLY <2>1, InsertedAt
<1> DEFINE old(j) == From(j, k)
<1>3. ASSUME NEW j \in 1 .. m
      PROVE  \/ j = k + 1 /\ o[j] = F
             \/ j = k + 2 /\ o[j] = T
             \/ old(j) \in 1 .. n /\ o[j] = order[old(j)] /\ o[j] \in 1 .. n
  <2>1. CASE j <= k
    <3>1. old(j) = j /\ j \in 1 .. k /\ j \in 1 .. n  BY <1>1, <2>1 DEF From
    <3> QED BY <1>1, <1>2, <3>1
  <2>2. CASE j > k + 2
    <3>1. old(j) = j - 2 /\ j - 2 \in k + 1 .. n /\ (j - 2) + 2 = j /\ j - 2 \in 1 .. n
      BY <1>1, <2>2 DEF From
    <3> QED BY <1>1, <1>2, <3>1
  <2>3. CASE j > k /\ j <= k + 2
    <3>1. j = k + 1 \/ j = k + 2  BY <1>1, <2>3
    <3> QED BY <1>2, <3>1
  <2> QED BY <1>1, <2>1, <2>2, <2>3
<1>4. ASSUME NEW j \in 1 .. m, NEW l \in 1 .. m, old(j) = old(l), old(j) \in 1 .. n
      PROVE  j = l
  BY <1>1, <1>4 DEF From
<1>5. \A x \in 1 .. n : x # F /\ x # T  BY <1>1
<1>6. F # T  BY <1>1
<1> HIDE DEF old
<1>7. ASSUME NEW j \in 1 .. m, NEW l \in 1 .. m, o[j] = o[l]  PROVE j = l
  <2>1. CASE j = k + 1 /\ o[j] = F  BY <1>3, <1>5, <1>6, <1>7, <2>1
  <2>2. CASE j = k + 2 /\ o[j] = T  BY <1>3, <1>5, <1>6, <1>7, <2>2
  <2>3. CASE old(j) \in 1 .. n /\ o[j] = order[old(j)] /\ o[j] \in 1 .. n
    <3>1. old(l) \in 1 .. n /\ o[l] = order[old(l)]  BY <1>3, <1>5, <1>7, <2>3
    <3>2. old(j) = old(l)  BY <1>1, <1>7, <2>3, <3>1
    <3> QED BY <1>4, <2>3, <3>2
  <2> QED BY <1>3, <2>1, <2>2, <2>3
<1>8. DOMAIN o = 1 .. m  BY <1>2 DEF Sequence
<1>9. m \in Nat /\ k + 1 \in 1 .. m /\ k + 2 \in 1 .. m /\ F \in 1 .. m /\ T \in 1 .. m
      /\ \A x \in 1 .. n : x \in 1 .. m
  BY <1>1
<1>10. o \in Seq(1 .. m)
  <2>1. \A j \in 1 .. Len(o) : o[j] \in 1 .. m  BY <1>2, <1>3, <1>9
  <2> QED BY <1>2, <2>1, SequenceIn
<1>11. Ordered(o, m)
  <2>1. m \in Nat \ {0}  BY <1>1
  <2> QED BY <1>2, <1>7, <1>8, <1>10, <2>1 DEF Ordered, IsInjective
<1>12. Range(o) = {o[j] : j \in 1 .. m}  BY <1>8 DEF Range
<1>13. \A j \in 1 .. m : o[j] \in Range(order) \cup {F, T}  BY <1>1, <1>3
<1>14. ASSUME NEW j \in 1 .. n  PROVE \E l \in 1 .. m : o[l] = order[j]
  <2>1. CASE j <= k
    <3>1. j \in 1 .. k /\ j \in 1 .. m  BY <1>1, <2>1
    <3> QED BY <1>2, <3>1
  <2>2. CASE j > k
    <3>1. j \in k + 1 .. n /\ j + 2 \in 1 .. m  BY <1>1, <2>2
    <3> QED BY <1>2, <3>1
  <2> QED BY <1>1, <2>1, <2>2
<1>15. Range(o) \subseteq Range(order) \cup {F, T}  BY <1>12, <1>13
<1>16. Range(order) \subseteq Range(o)  BY <1>1, <1>12, <1>14
<1>17. F \in Range(o) /\ T \in Range(o)  BY <1>2, <1>9, <1>12
<1> QED BY <1>11, <1>15, <1>16, <1>17

----------------------------------------------------------------------------
(* What the verifier demands, block by block.                              *)

\* The blocks named by branches and jumps, and the next block when control falls
\* through to it.
Jumps(c)       == UNION {Range(m.blocks) : m \in {n \in Range(c) : n.kind \in {"branch", "jump"}}}
Falls(c, next) == IF c # <<>> /\ IsBarrier(Last(c)) THEN {} ELSE next

InstrsOK(g, b) ==
  Sequence(g.body[b]) /\ \A p \in 1 .. Len(g.body[b]) : InstrOK(g, g.body[b][p])

TargetsOK(g, b) ==
  /\ g.succs[b] \subseteq Blocks(g)
  /\ g.succs[b] = Jumps(g.body[b]) \cup Falls(g.body[b], NextInLayout(g, b))
  /\ \A p, q \in 1 .. Len(g.body[b]) :
       p < q /\ IsTerminator(g.body[b][p]) => IsTerminator(g.body[b][q])

PhisOK(g, b) ==
  \A p \in 1 .. Len(g.body[b]) :
    g.body[b][p].kind = "phi" =>
      /\ IsInjective(g.body[b][p].blocks) /\ Range(g.body[b][p].blocks) = Preds(g, b)
      /\ \A q \in 1 .. p : g.body[b][q].kind = "phi"

BlockOK(g, b) == InstrsOK(g, b) /\ TargetsOK(g, b) /\ PhisOK(g, b)

FunctionOK(g, n) ==
  /\ Ordered(g.order, n) /\ DOMAIN g.body = Blocks(g) /\ DOMAIN g.succs = Blocks(g)
  /\ \A b \in Blocks(g) : BlockOK(g, b)

Verified(g) == WellFormed(g) /\ SuccessorsMatch(g) /\ PhisMatch(g)

LEMMA TargetsAre ==
  ASSUME NEW g, NEW b
  PROVE  ControlTargets(g, b) = Jumps(g.body[b]) \cup Falls(g.body[b], NextInLayout(g, b))
BY Zenon DEF ControlTargets, Jumps, Falls

LEMMA SequenceHas ==
  ASSUME NEW c, Sequence(c)
  PROVE  /\ DOMAIN c = 1 .. Len(c) /\ Len(c) \in Nat
         /\ Range(c) = {c[k] : k \in 1 .. Len(c)}
         /\ (c # <<>>) = (Len(c) # 0) /\ Last(c) = c[Len(c)]
<1>1. DOMAIN c = 1 .. Len(c) /\ Len(c) \in Nat  BY DEF Sequence
<1>2. Range(c) = {c[k] : k \in 1 .. Len(c)}  BY <1>1 DEF Range
<1>3. c # <<>> <=> Len(c) # 0  BY EmptySeq DEF Sequence
<1> QED BY <1>1, <1>2, <1>3 DEF Last

LEMMA SequenceFrom ==
  ASSUME NEW c, c \in Seq(Range(c))
  PROVE  Sequence(c)
<1>1. Len(c) \in Nat /\ DOMAIN c = 1 .. Len(c)  BY LenProperties
<1> QED BY <1>1 DEF Sequence

LEMMA OrderedFrom ==
  ASSUME NEW g, WellFormed(g)
  PROVE  Ordered(g.order, Len(g.order))
<1>1. g.order \in Seq(1 .. Len(g.order)) /\ IsInjective(g.order) /\ g.order # <<>>
  BY DEF WellFormed
<1>2. Len(g.order) \in Nat \ {0}  BY <1>1, EmptySeq
<1> QED BY <1>1, <1>2 DEF Ordered

LEMMA BlocksOK ==
  ASSUME NEW g, Verified(g), NEW n, n = Len(g.order)
  PROVE  FunctionOK(g, n)
<1>1. /\ Ordered(g.order, n) /\ DOMAIN g.body = Blocks(g) /\ DOMAIN g.succs = Blocks(g)
  BY OrderedFrom DEF Verified, WellFormed
<1>2. ASSUME NEW b \in Blocks(g)  PROVE BlockOK(g, b)
  <2> DEFINE c == g.body[b]
  <2>1. Sequence(c)
    <3>1. c \in Seq(Range(c))  BY DEF Verified, WellFormed
    <3> QED BY <3>1, SequenceFrom
  <2>2. DOMAIN c = 1 .. Len(c) /\ Range(c) = {c[k] : k \in 1 .. Len(c)}
    BY <2>1, SequenceHas
  <2>3. InstrsOK(g, b)
    <3>1. \A m \in Range(c) : InstrOK(g, m)  BY DEF Verified, WellFormed
    <3> QED BY <2>1, <2>2, <3>1 DEF InstrsOK
  <2>4. TargetsOK(g, b)
    <3>1. g.succs[b] \subseteq Blocks(g)  BY DEF Verified, WellFormed
    <3>2. g.succs[b] = ControlTargets(g, b)
      BY DEF Verified, SuccessorsMatch
    <3>3. ControlTargets(g, b) = Jumps(c) \cup Falls(c, NextInLayout(g, b))
      BY TargetsAre
    <3>4. \A p, q \in DOMAIN c : p < q /\ IsTerminator(c[p]) => IsTerminator(c[q])
      BY DEF Verified, SuccessorsMatch
    <3> QED BY <2>2, <3>1, <3>2, <3>3, <3>4 DEF TargetsOK
  <2>5. PhisOK(g, b)
    <3>1. \A p \in DOMAIN c : c[p].kind = "phi" =>
            /\ IsInjective(c[p].blocks) /\ Range(c[p].blocks) = Preds(g, b)
            /\ \A q \in 1 .. p : c[q].kind = "phi"
      BY DEF Verified, PhisMatch
    <3> QED BY <2>2, <3>1 DEF PhisOK
  <2> QED BY <2>3, <2>4, <2>5 DEF BlockOK
<1> QED BY <1>1, <1>2 DEF FunctionOK

LEMMA BlocksMakeVerified ==
  ASSUME NEW g, NEW n, FunctionOK(g, n)
  PROVE  Verified(g) /\ Len(g.order) = n
<1>1. /\ g.order \in Seq(1 .. n) /\ Len(g.order) = n /\ IsInjective(g.order)
      /\ DOMAIN g.body = Blocks(g) /\ DOMAIN g.succs = Blocks(g) /\ g.order # <<>>
  <2>1. Len(<<>>) = 0  OBVIOUS
  <2> QED BY <2>1 DEF FunctionOK, Ordered
<1>2. ASSUME NEW b \in Blocks(g)
      PROVE  /\ g.succs[b] \subseteq Blocks(g) /\ g.body[b] \in Seq(Range(g.body[b]))
             /\ DOMAIN g.body[b] = 1 .. Len(g.body[b])
             /\ \A m \in Range(g.body[b]) : InstrOK(g, m)
             /\ TargetsOK(g, b) /\ PhisOK(g, b)
  <2>1. InstrsOK(g, b) /\ TargetsOK(g, b) /\ PhisOK(g, b)  BY DEF FunctionOK, BlockOK
  <2>2. Sequence(g.body[b])  BY <2>1 DEF InstrsOK
  <2>3. Range(g.body[b]) = {g.body[b][k] : k \in 1 .. Len(g.body[b])}  BY <2>2, SequenceHas
  <2>4. \A m \in Range(g.body[b]) : InstrOK(g, m)  BY <2>1, <2>3 DEF InstrsOK
  <2> QED BY <2>1, <2>2, <2>4 DEF TargetsOK, Sequence
<1>3. WellFormed(g)  BY <1>1, <1>2 DEF WellFormed
<1>4. SuccessorsMatch(g)
  <2> SUFFICES ASSUME NEW b \in Blocks(g)
               PROVE  /\ g.succs[b] = ControlTargets(g, b)
                      /\ \A p, q \in DOMAIN g.body[b] :
                           p < q /\ IsTerminator(g.body[b][p]) => IsTerminator(g.body[b][q])
    BY DEF SuccessorsMatch
  <2>1. ControlTargets(g, b) = Jumps(g.body[b]) \cup Falls(g.body[b], NextInLayout(g, b))
    BY TargetsAre
  <2> QED BY <1>2, <2>1 DEF TargetsOK
<1>5. PhisMatch(g)  BY <1>2 DEF PhisMatch, PhisOK
<1> QED BY <1>1, <1>3, <1>4, <1>5 DEF Verified

----------------------------------------------------------------------------
(* The triangle that an expansion puts behind block H.                     *)

\* g has the triangle H, F, T where f has H.
Triangle(f, g, H, F, T) ==
  /\ H \in Blocks(f) /\ F \notin Blocks(f) /\ T \notin Blocks(f) /\ F # T
  /\ Blocks(g) = Blocks(f) \cup {F, T}
  /\ DOMAIN g.body = Blocks(g) /\ DOMAIN g.succs = Blocks(g)
  /\ NextInLayout(g, H) = {F} /\ NextInLayout(g, F) = {T}
  /\ NextInLayout(g, T) = NextInLayout(f, H)
  /\ g.succs[H] = {F, T} /\ g.succs[F] = {T} /\ g.succs[T] = f.succs[H]
  /\ \A b \in Blocks(f) \ {H} :
       g.succs[b] = f.succs[b] /\ NextInLayout(g, b) = NextInLayout(f, b)

LEMMA NextAfter ==
  ASSUME NEW f, NEW n, Ordered(f.order, n), NEW k \in 1 .. n, NEW T, T = n + 1,
         NEW F, F = n + 2, NEW m, m = n + 2, NEW g, IsInserted(g.order, f.order, k, F, T)
  PROVE  /\ NextInLayout(g, f.order[k]) = {F} /\ NextInLayout(g, F) = {T}
         /\ NextInLayout(g, T) = NextInLayout(f, f.order[k])
         /\ \A j \in 1 .. n : j # k => NextInLayout(g, f.order[j]) = NextInLayout(f, f.order[j])
<1> DEFINE o == g.order
<1>1. n \in Nat /\ k \in Nat /\ 1 <= k /\ k <= n /\ m = n + 2
  <2>1. OrderIs(f.order, n)  BY OrderedFacts
  <2> QED BY <2>1 DEF OrderIs
<1>2. Ordered(o, m)  BY InsertedIs
<1>3. /\ \A j \in 1 .. k : o[j] = f.order[j]
      /\ o[k + 1] = F /\ o[k + 2] = T
      /\ \A j \in k + 1 .. n : o[j + 2] = f.order[j]
  <2>1. Ordered(f.order, n) /\ k \in 1 .. n /\ IsInserted(o, f.order, k, F, T)  OBVIOUS
  <2> HIDE DEF o
  <2> QED BY ONLY <2>1, InsertedAt
<1>4. \A j \in 1 .. m : NextInLayout(g, o[j]) = IF j < m THEN {o[j + 1]} ELSE {}
  <2>1. Ordered(g.order, m)  BY <1>2
  <2> SUFFICES ASSUME NEW j \in 1 .. m
               PROVE  NextInLayout(g, g.order[j]) = IF j < m THEN {g.order[j + 1]} ELSE {}
    OBVIOUS
  <2>2. FollowedBy(g, j, m)  BY <2>1, NextIs
  <2> QED BY <2>2 DEF FollowedBy
<1>5. \A j \in 1 .. n :
        NextInLayout(f, f.order[j]) = IF j < n THEN {f.order[j + 1]} ELSE {}
  BY NextIs DEF FollowedBy
<1> HIDE DEF o
<1>6. NextInLayout(g, f.order[k]) = {F}
  <2>1. k \in 1 .. m /\ k < m /\ k \in 1 .. k  BY <1>1
  <2>2. NextInLayout(g, o[k]) = {o[k + 1]} /\ o[k] = f.order[k]  BY <1>3, <1>4, <2>1
  <2> QED BY <1>3, <2>2
<1>7. NextInLayout(g, F) = {T}
  <2>1. k + 1 \in 1 .. m /\ k + 1 < m /\ (k + 1) + 1 = k + 2  BY <1>1
  <2>2. NextInLayout(g, o[k + 1]) = {o[(k + 1) + 1]}  BY <1>4, <2>1
  <2> QED BY <1>3, <2>1, <2>2
\* A block behind the triangle, or its tail, leads to what follows it in f.
<1>8. ASSUME NEW j \in k .. n
      PROVE  NextInLayout(g, o[j + 2]) = IF j < n THEN {f.order[j + 1]} ELSE {}
  <2>1. j + 2 \in 1 .. m /\ (j + 2 < m <=> j < n) /\ (j + 2) + 1 = (j + 1) + 2  BY <1>1
  <2>2. NextInLayout(g, o[j + 2]) = IF j + 2 < m THEN {o[(j + 2) + 1]} ELSE {}
    BY <1>4, <2>1
  <2>3. j < n => j + 1 \in k + 1 .. n  BY <1>1
  <2>4. j < n => o[(j + 1) + 2] = f.order[j + 1]  BY <1>3, <2>3
  <2> QED BY <2>1, <2>2, <2>4
<1>9. NextInLayout(g, T) = NextInLayout(f, f.order[k])
  <2>1. k \in k .. n /\ k \in 1 .. n  BY <1>1
  <2> QED BY <1>3, <1>5, <1>8, <2>1
<1>10. ASSUME NEW j \in 1 .. n, j # k
       PROVE  NextInLayout(g, f.order[j]) = NextInLayout(f, f.order[j])
  <2>1. CASE j < k
    <3>1. j \in 1 .. m /\ j < m /\ j < n /\ j \in 1 .. k /\ j + 1 \in 1 .. k  BY <1>1, <2>1
    <3>2. NextInLayout(g, o[j]) = {o[j + 1]}  BY <1>4, <3>1
    <3>3. o[j] = f.order[j] /\ o[j + 1] = f.order[j + 1]  BY <1>3, <3>1
    <3>4. NextInLayout(f, f.order[j]) = {f.order[j + 1]}  BY <1>5, <3>1
    <3> QED BY <3>2, <3>3, <3>4
  <2>2. CASE j > k
    <3>1. j \in k .. n /\ j \in k + 1 .. n  BY <1>1, <2>2
    <3>2. o[j + 2] = f.order[j]  BY <1>3, <3>1
    <3> QED BY <1>5, <1>8, <3>1, <3>2
  <2> QED BY <1>1, <1>10, <2>1, <2>2
<1> QED BY <1>6, <1>7, <1>9, <1>10

LEMMA TriangleIs ==
  ASSUME NEW f, NEW n, FunctionOK(f, n), NEW H \in Blocks(f), NEW T, T = n + 1,
         NEW F, F = n + 2, NEW m, m = n + 2, NEW i, NEW g, g = EmitSelectPseudo(f, H, i, T, F)
  PROVE  Triangle(f, g, H, F, T) /\ Ordered(g.order, m)
<1>1. Ordered(f.order, n)  BY DEF FunctionOK
<1>2. /\ n \in Nat /\ Blocks(f) = {f.order[j] : j \in 1 .. n}
      /\ \A j \in 1 .. n : f.order[j] \in 1 .. n
      /\ \A j, l \in 1 .. n : f.order[j] = f.order[l] => j = l
  BY <1>1, OrderedFacts DEF OrderIs, Blocks
<1>3. PICK k \in 1 .. n : H = f.order[k]  BY <1>2
<1>4. IsInserted(g.order, f.order, k, F, T)
  <2>1. g.order = InsertBlocks(f.order, f.order[k], F, T)  BY <1>3 DEF EmitSelectPseudo
  <2>2. IsInserted(InsertBlocks(f.order, f.order[k], F, T), f.order, k, F, T)
    BY <1>1, PositionIs
  <2> QED BY <2>1, <2>2
<1>5. Ordered(g.order, m) /\ Blocks(g) = Blocks(f) \cup {F, T}
  BY <1>1, <1>4, InsertedIs DEF Blocks
<1>6. F # T /\ F \notin Blocks(f) /\ T \notin Blocks(f)
  <2>1. F # T /\ \A x \in 1 .. n : x # F /\ x # T  BY <1>2
  <2> QED BY <1>2, <2>1
<1>7. DOMAIN g.body = Blocks(g) /\ DOMAIN g.succs = Blocks(g)
  <2>1. DOMAIN f.body = Blocks(f) /\ DOMAIN f.succs = Blocks(f)  BY DEF FunctionOK
  <2> QED BY <1>5, <2>1 DEF EmitSelectPseudo
<1>8. /\ g.succs[H] = {F, T} /\ g.succs[F] = {T} /\ g.succs[T] = f.succs[H]
      /\ \A b \in Blocks(f) \ {H} : g.succs[b] = f.succs[b]
  <2>1. DOMAIN f.succs = Blocks(f)  BY DEF FunctionOK
  <2>2. g.succs = [b \in DOMAIN f.succs \cup {F, T} |->
                    CASE b = H -> {F, T}
                      [] b = T -> f.succs[H]
                      [] b = F -> {T}
                      [] OTHER -> f.succs[b]]
    BY DEF EmitSelectPseudo
  <2>3. H # T /\ H # F /\ \A b \in Blocks(f) : b # T /\ b # F  BY <1>6
  <2> QED BY <1>6, <2>1, <2>2, <2>3
<1>9. /\ NextInLayout(g, H) = {F} /\ NextInLayout(g, F) = {T}
      /\ NextInLayout(g, T) = NextInLayout(f, H)
      /\ \A j \in 1 .. n : j # k => NextInLayout(g, f.order[j]) = NextInLayout(f, f.order[j])
  <2>1. /\ NextInLayout(g, f.order[k]) = {F} /\ NextInLayout(g, F) = {T}
        /\ NextInLayout(g, T) = NextInLayout(f, f.order[k])
        /\ \A j \in 1 .. n :
             j # k => NextInLayout(g, f.order[j]) = NextInLayout(f, f.order[j])
    BY <1>1, <1>4, NextAfter
  <2> QED BY <1>3, <2>1
<1>10. \A b \in Blocks(f) \ {H} : NextInLayout(g, b) = NextInLayout(f, b)
  BY <1>2, <1>3, <1>9
<1> QED BY <1>5, <1>6, <1>7, <1>8, <1>9, <1>10 DEF Triangle

\* The predecessors: where H led, T leads.
LEMMA PredsAre ==
  ASSUME NEW f, NEW g, NEW H, NEW F, NEW T, Triangle(f, g, H, F, T),
         \A b \in Blocks(f) : f.succs[b] \subseteq Blocks(f)
  PROVE  /\ Preds(g, F) = {H} /\ Preds(g, T) = {H, F}
         /\ \A b \in Blocks(f) :
              Preds(g, b) = IF b \in f.succs[H] THEN (Preds(f, b) \ {H}) \cup {T}
                            ELSE Preds(f, b)
<1>1. /\ H \in Blocks(f) /\ F \notin Blocks(f) /\ T \notin Blocks(f) /\ F # T
      /\ Blocks(g) = Blocks(f) \cup {F, T}
      /\ g.succs[H] = {F, T} /\ g.succs[F] = {T} /\ g.succs[T] = f.succs[H]
      /\ \A b \in Blocks(f) \ {H} : g.succs[b] = f.succs[b]
  BY DEF Triangle
<1>2. Preds(g, F) = {H}  BY <1>1 DEF Preds
<1>3. Preds(g, T) = {H, F}  BY <1>1 DEF Preds
<1>4. ASSUME NEW b \in Blocks(f)
      PROVE  Preds(g, b) = IF b \in f.succs[H] THEN (Preds(f, b) \ {H}) \cup {T}
                           ELSE Preds(f, b)
  BY <1>1 DEF Preds
<1> QED BY <1>2, <1>3, <1>4

----------------------------------------------------------------------------
(* The instructions of the triangle.                                       *)

Moved(m, on, H, T) == IF on THEN ReplacePhiUse(m, H, T) ELSE m

\* d is c, with the phis that named H naming T if `on`.
IsMoved(d, c, on, H, T) ==
  Sequence(d) /\ Len(d) = Len(c) /\ \A p \in 1 .. Len(c) : d[p] = Moved(c[p], on, H, T)

Renamed(blocks, H, T) ==
  [k \in DOMAIN blocks |-> IF blocks[k] = H THEN T ELSE blocks[k]]

LEMMA RenamedIs ==
  ASSUME NEW S, NEW c \in Seq(S), NEW H, NEW T, NEW R, S \subseteq R, T \in R
  PROVE  Renamed(c, H, T) \in Seq(R) /\ Len(Renamed(c, H, T)) = Len(c)
<1> DEFINE d == Renamed(c, H, T)
<1>1. Len(c) \in Nat /\ c \in [1 .. Len(c) -> S] /\ DOMAIN c = 1 .. Len(c)
  BY LenProperties
<1>2. d \in [1 .. Len(c) -> R]  BY <1>1 DEF Renamed
<1> HIDE DEF d
<1>3. d \in Seq(R) /\ Len(d) = Len(c)  BY <1>1, <1>2
<1> QED BY <1>3 DEF d

LEMMA RenamedNames ==
  ASSUME NEW c, NEW H, NEW T, NEW P, IsInjective(c), Range(c) = P, T \notin P
  PROVE  /\ IsInjective(Renamed(c, H, T))
         /\ H \in P => Range(Renamed(c, H, T)) = (P \ {H}) \cup {T}
<1> DEFINE d == Renamed(c, H, T)
<1>1. DOMAIN d = DOMAIN c /\ \A k \in DOMAIN c : d[k] = IF c[k] = H THEN T ELSE c[k]
  BY DEF Renamed
<1>2. Range(c) = {c[k] : k \in DOMAIN c} /\ Range(d) = {d[k] : k \in DOMAIN c}
  BY <1>1 DEF Range
<1>3. \A k, l \in DOMAIN c : c[k] = c[l] => k = l  BY DEF IsInjective
<1>4. \A k \in DOMAIN c : c[k] # T  BY <1>2
<1> HIDE DEF d
<1>5. \A k, l \in DOMAIN c : d[k] = d[l] => k = l  BY <1>1, <1>3, <1>4
<1>6. IsInjective(d)  BY <1>1, <1>5 DEF IsInjective
<1>7. ASSUME H \in P  PROVE Range(d) = (P \ {H}) \cup {T}
  <2>1. Range(d) \subseteq (P \ {H}) \cup {T}  BY <1>1, <1>2
  <2>2. T \in Range(d)  BY <1>1, <1>2, <1>7
  <2>3. P \ {H} \subseteq Range(d)  BY <1>1, <1>2
  <2> QED BY <2>1, <2>2, <2>3
<1> QED BY <1>6, <1>7 DEF d

LEMMA MovedIs ==
  ASSUME NEW f, NEW g, NEW m, InstrOK(f, m), Blocks(f) \subseteq Blocks(g),
         NEW on \in BOOLEAN, NEW H, NEW T \in Blocks(g), NEW c, c = Moved(m, on, H, T)
  PROVE  /\ InstrOK(g, c) /\ c.kind = m.kind /\ (m.kind # "phi" => c = m)
         /\ c.def = m.def /\ c.args = m.args /\ c.attr = m.attr
         /\ c.blocks = IF on /\ m.kind = "phi" THEN Renamed(m.blocks, H, T) ELSE m.blocks
<1>1. /\ m = Instr(m.kind, m.def, m.args, m.attr, m.blocks) /\ m.kind \in Kinds
      /\ m.args \in Seq(Registers) /\ m.blocks \in Seq(Blocks(f))
      /\ (Len(m.args) = 4 <=> m.kind = "select")
      /\ (m.kind = "phi" => Len(m.args) = Len(m.blocks))
      /\ (IsDebug(m) => m.def = NONE)
      /\ (IsSelect(m) => m.def \notin {m.args[3], m.args[4]})
  BY DEF InstrOK
<1>2. /\ m.blocks \in Seq(Blocks(g)) /\ Renamed(m.blocks, H, T) \in Seq(Blocks(g))
      /\ Len(Renamed(m.blocks, H, T)) = Len(m.blocks)
  <2> DEFINE c0 == m.blocks
  <2>1. c0 \in Seq(Blocks(f))  BY <1>1
  <2> HIDE DEF c0
  <2>2. c0 \in Seq(Blocks(g))  BY <2>1, SeqMonotonic
  <2>3. Renamed(c0, H, T) \in Seq(Blocks(g)) /\ Len(Renamed(c0, H, T)) = Len(c0)
    BY <2>1, RenamedIs
  <2> QED BY <2>2, <2>3 DEF c0
<1>3. CASE ~(on /\ m.kind = "phi")
  <2>1. c = m  BY <1>3 DEF Moved, ReplacePhiUse
  <2> QED BY <1>1, <1>2, <1>3, <2>1 DEF InstrOK
<1>4. CASE on /\ m.kind = "phi"
  <2>1. c = Instr(m.kind, m.def, m.args, m.attr, Renamed(m.blocks, H, T))
    <3>1. c = [m EXCEPT !.blocks = Renamed(m.blocks, H, T)]
      BY <1>4 DEF Moved, ReplacePhiUse, Renamed
    <3> HIDE DEF Renamed
    <3> QED BY <1>1, <3>1 DEF Instr
  <2>2. /\ c.kind = m.kind /\ c.def = m.def /\ c.args = m.args /\ c.attr = m.attr
        /\ c.blocks = Renamed(m.blocks, H, T)
    BY <2>1 DEF Instr
  <2>3. c = Instr(c.kind, c.def, c.args, c.attr, c.blocks)  BY <2>1, <2>2
  <2>4. IsSelect(c) = IsSelect(m) /\ IsDebug(c) = IsDebug(m)  BY <2>2 DEF IsSelect, IsDebug
  <2>5. InstrOK(g, c)  BY <1>1, <1>2, <2>2, <2>3, <2>4 DEF InstrOK
  <2> QED BY <1>4, <2>2, <2>5
<1> QED BY <1>3, <1>4

\* The code of the four kinds of blocks.
LEMMA BodiesAre ==
  ASSUME NEW f, NEW g, NEW H, NEW F, NEW T, NEW i, Triangle(f, g, H, F, T),
         g = EmitSelectPseudo(f, H, i, T, F), DOMAIN f.body = Blocks(f),
         NEW last, last = LastSelect(f.body[H], i)
  PROVE  /\ g.body[F] = <<>>
         /\ g.body[T] = TailCode(f.body[H], i, last, H, F)
         /\ Sequence(HeadCode(f.body[H], i, last, T)) =>
              IsMoved(g.body[H], HeadCode(f.body[H], i, last, T), H \in f.succs[H], H, T)
         /\ \A b \in Blocks(f) \ {H} : Sequence(f.body[b]) =>
              IsMoved(g.body[b], f.body[b], b \in f.succs[H], H, T)
<1> DEFINE R(b, c) == IF b \notin f.succs[H] THEN c
                      ELSE [k \in DOMAIN c |-> ReplacePhiUse(c[k], H, T)]
           hc == HeadCode(f.body[H], i, last, T)
           tc == TailCode(f.body[H], i, last, H, F)
<1>1. g.body = [b \in DOMAIN f.body \cup {F, T} |->
                  CASE b = H -> R(b, hc)
                    [] b = T -> tc
                    [] b = F -> <<>>
                    [] OTHER -> R(b, f.body[b])]
  BY DEF EmitSelectPseudo
<1>2. H \in Blocks(f) /\ F \notin Blocks(f) /\ T \notin Blocks(f) /\ F # T
  BY DEF Triangle
<1> HIDE DEF R, hc, tc
<1>3. /\ g.body[F] = <<>> /\ g.body[T] = tc /\ g.body[H] = R(H, hc)
      /\ \A b \in Blocks(f) \ {H} : g.body[b] = R(b, f.body[b])
  BY <1>1, <1>2
<1>4. ASSUME NEW b, NEW c, Sequence(c)  PROVE IsMoved(R(b, c), c, b \in f.succs[H], H, T)
  <2> DEFINE d == R(b, c)
  <2>1. CASE b \notin f.succs[H]
    <3>1. d = c  BY <2>1 DEF R
    <3> HIDE DEF d
    <3> QED BY <1>4, <2>1, <3>1 DEF IsMoved, Moved, d
  <2>2. CASE b \in f.succs[H]
    <3>1. DOMAIN c = 1 .. Len(c) /\ Len(c) \in Nat  BY <1>4, SequenceHas
    <3>2. d = [k \in 1 .. Len(c) |-> ReplacePhiUse(c[k], H, T)]  BY <2>2, <3>1 DEF R
    <3>3. d = [k \in 1 .. Len(c) |-> d[k]]
          /\ \A k \in 1 .. Len(c) : d[k] = ReplacePhiUse(c[k], H, T)
      BY <3>2
    <3> HIDE DEF d
    <3>4. Sequence(d) /\ Len(d) = Len(c)  BY <3>1, <3>3, SequenceOf DEF Sequence
    <3>5. IsMoved(d, c, b \in f.succs[H], H, T)  BY <2>2, <3>3, <3>4 DEF IsMoved, Moved
    <3> QED BY <3>5 DEF d
  <2> QED BY <2>1, <2>2
<1>5. /\ Sequence(hc) => IsMoved(g.body[H], hc, H \in f.succs[H], H, T)
      /\ \A b \in Blocks(f) \ {H} : Sequence(f.body[b]) =>
              IsMoved(g.body[b], f.body[b], b \in f.succs[H], H, T)
  BY <1>3, <1>4
<1> QED BY <1>3, <1>5 DEF hc, tc

----------------------------------------------------------------------------
(* Every block of the new function is in order.                            *)

IsJump(m) == m.kind \in {"branch", "jump"}

LEMMA JumpsFrom ==
  ASSUME NEW c, NEW d, Sequence(c), Sequence(d),
         \A p \in 1 .. Len(c) : IsJump(c[p]) => \E q \in 1 .. Len(d) : d[q] = c[p]
  PROVE  Jumps(c) \subseteq Jumps(d)
<1>1. /\ Range(c) = {c[k] : k \in 1 .. Len(c)} /\ Range(d) = {d[k] : k \in 1 .. Len(d)}
  BY SequenceHas
<1> SUFFICES ASSUME NEW m \in Range(c), IsJump(m), NEW x \in Range(m.blocks)
             PROVE  x \in Jumps(d)
  BY DEF Jumps, IsJump
<1>2. PICK p \in 1 .. Len(c) : m = c[p]  BY <1>1
<1>3. m \in Range(d)  BY <1>1, <1>2
<1> QED BY <1>3 DEF Jumps, IsJump

LEMMA FallsIs ==
  ASSUME NEW c, Sequence(c), NEW next
  PROVE  Falls(c, next) = IF Len(c) # 0 /\ IsBarrier(c[Len(c)]) THEN {} ELSE next
BY SequenceHas DEF Falls

\* Phis that keep their order and rename their blocks match the new predecessors.
LEMMA PhiMoved ==
  ASSUME NEW f, NEW n, FunctionOK(f, n), NEW g, NEW H, NEW F, NEW T, Triangle(f, g, H, F, T),
         NEW b \in Blocks(f), NEW p \in 1 .. Len(f.body[b]), f.body[b][p].kind = "phi",
         NEW c, c = Moved(f.body[b][p], b \in f.succs[H], H, T)
  PROVE  IsInjective(c.blocks) /\ Range(c.blocks) = Preds(g, b)
<1> DEFINE m == f.body[b][p]
           on == b \in f.succs[H]
<1>1. BlockOK(f, b) /\ \A x \in Blocks(f) : f.succs[x] \subseteq Blocks(f)
  BY DEF FunctionOK, BlockOK, TargetsOK
<1>2. IsInjective(m.blocks) /\ Range(m.blocks) = Preds(f, b)
  BY <1>1 DEF BlockOK, PhisOK
<1>3. InstrOK(f, m)  BY <1>1 DEF BlockOK, InstrsOK
<1>4. T \in Blocks(g) /\ Blocks(f) \subseteq Blocks(g) /\ T \notin Blocks(f) /\ H \in Blocks(f)
  BY DEF Triangle
<1>5. m.kind = "phi" /\ on \in BOOLEAN /\ c = Moved(m, on, H, T)  OBVIOUS
<1> HIDE DEF m, on
<1>6. c.blocks = IF on THEN Renamed(m.blocks, H, T) ELSE m.blocks
  BY <1>3, <1>4, <1>5, MovedIs
<1>7. Preds(g, b) = IF on THEN (Preds(f, b) \ {H}) \cup {T} ELSE Preds(f, b)
  BY <1>1, PredsAre DEF on
<1>8. T \notin Preds(f, b) /\ (on => H \in Preds(f, b))
  BY <1>4 DEF Preds, on
<1>9. /\ IsInjective(Renamed(m.blocks, H, T))
      /\ H \in Preds(f, b) =>
           Range(Renamed(m.blocks, H, T)) = (Preds(f, b) \ {H}) \cup {T}
  BY <1>2, <1>8, RenamedNames
<1> QED BY <1>2, <1>6, <1>7, <1>8, <1>9

LEMMA OtherOK ==
  ASSUME NEW f, NEW n, FunctionOK(f, n), NEW g, NEW H, NEW F, NEW T, Triangle(f, g, H, F, T),
         NEW b \in Blocks(f) \ {H},
         IsMoved(g.body[b], f.body[b], b \in f.succs[H], H, T)
  PROVE  BlockOK(g, b)
<1> DEFINE c == f.body[b]
           d == g.body[b]
           on == b \in f.succs[H]
<1>1. InstrsOK(f, b) /\ TargetsOK(f, b) /\ PhisOK(f, b)  BY DEF FunctionOK, BlockOK
<1>2. Sequence(c) /\ \A p \in 1 .. Len(c) : InstrOK(f, c[p])  BY <1>1 DEF InstrsOK
<1>3. Sequence(d) /\ Len(d) = Len(c) /\ \A p \in 1 .. Len(c) : d[p] = Moved(c[p], on, H, T)
  BY DEF IsMoved
<1>4. T \in Blocks(g) /\ Blocks(f) \subseteq Blocks(g) /\ on \in BOOLEAN  BY DEF Triangle
<1>5. /\ g.succs[b] = f.succs[b] /\ NextInLayout(g, b) = NextInLayout(f, b)
  BY DEF Triangle
<1>6. \A p \in 1 .. Len(c) : InstrOK(g, d[p]) /\ d[p].kind = c[p].kind
                             /\ (c[p].kind # "phi" => d[p] = c[p])
  <2> TAKE p \in 1 .. Len(c)
  <2> DEFINE m == c[p]
             e == d[p]
  <2>1. InstrOK(f, m) /\ e = Moved(m, on, H, T)  BY <1>2, <1>3
  <2> HIDE DEF m, e, on
  <2>2. InstrOK(g, e) /\ e.kind = m.kind /\ (m.kind # "phi" => e = m)
    BY <1>4, <2>1, MovedIs
  <2> QED BY <2>2 DEF m, e
<1>7. InstrsOK(g, b)  BY <1>3, <1>6 DEF InstrsOK
<1>8. TargetsOK(g, b)
  <2>1. Jumps(c) \subseteq Jumps(d)
    <3>1. \A p \in 1 .. Len(c) : IsJump(c[p]) => d[p] = c[p]  BY <1>6 DEF IsJump
    <3> HIDE DEF c, d
    <3> QED BY <1>2, <1>3, <3>1, JumpsFrom
  <2>2. Jumps(d) \subseteq Jumps(c)
    <3>1. \A p \in 1 .. Len(d) : IsJump(d[p]) => c[p] = d[p]  BY <1>3, <1>6 DEF IsJump
    <3> HIDE DEF c, d
    <3> QED BY <1>2, <1>3, <3>1, JumpsFrom
  <2>3. \A next : Falls(d, next) = Falls(c, next)
    <3>1. Len(c) \in Nat  BY <1>2, SequenceHas
    <3>2. Len(c) # 0 => Len(c) \in 1 .. Len(c)  BY <3>1
    <3>3. Len(c) # 0 => d[Len(c)].kind = c[Len(c)].kind  BY <1>6, <3>2
    <3> HIDE DEF c, d
    <3> QED BY <1>2, <1>3, <3>3, FallsIs DEF IsBarrier
  <2>4. \A p, q \in 1 .. Len(d) : p < q /\ IsTerminator(d[p]) => IsTerminator(d[q])
    <3>1. \A p, q \in 1 .. Len(c) : p < q /\ IsTerminator(c[p]) => IsTerminator(c[q])
      BY <1>1 DEF TargetsOK
    <3> QED BY <1>3, <1>6, <3>1 DEF IsTerminator
  <2>5. f.succs[b] = Jumps(c) \cup Falls(c, NextInLayout(f, b)) /\ f.succs[b] \subseteq Blocks(f)
    BY <1>1 DEF TargetsOK
  <2>6. Jumps(c) = Jumps(d)  BY <2>1, <2>2
  <2> QED BY <1>4, <1>5, <2>3, <2>4, <2>5, <2>6 DEF TargetsOK
<1>9. PhisOK(g, b)
  <2> SUFFICES ASSUME NEW p \in 1 .. Len(d), d[p].kind = "phi"
               PROVE  /\ IsInjective(d[p].blocks) /\ Range(d[p].blocks) = Preds(g, b)
                      /\ \A q \in 1 .. p : d[q].kind = "phi"
    BY DEF PhisOK
  <2>1. p \in 1 .. Len(c) /\ c[p].kind = "phi" /\ d[p] = Moved(c[p], on, H, T)
    BY <1>3, <1>6
  <2>2. IsInjective(d[p].blocks) /\ Range(d[p].blocks) = Preds(g, b)
    BY <2>1, PhiMoved
  <2>3. \A q \in 1 .. p : c[q].kind = "phi"  BY <1>1, <2>1 DEF PhisOK
  <2>4. \A q \in 1 .. p : q \in 1 .. Len(c)
    <3>1. Len(c) \in Nat  BY <1>2, SequenceHas
    <3> QED BY <2>1, <3>1
  <2> QED BY <1>6, <2>2, <2>3, <2>4
<1> QED BY <1>7, <1>8, <1>9 DEF BlockOK

LEMMA FalseOK ==
  ASSUME NEW f, NEW g, NEW H, NEW F, NEW T, Triangle(f, g, H, F, T), g.body[F] = <<>>
  PROVE  BlockOK(g, F)
<1>1. Len(g.body[F]) = 0 /\ Sequence(g.body[F])
  <2>1. <<>> \in Seq(Range(<<>>)) /\ Len(<<>>) = 0 /\ DOMAIN <<>> = 1 .. Len(<<>>)
    OBVIOUS
  <2> QED BY <2>1 DEF Sequence
<1>2. \A p \in 1 .. 0 : FALSE  OBVIOUS
<1>3. Range(g.body[F]) = {}  BY <1>1, <1>2, SequenceHas
<1>4. Jumps(g.body[F]) = {}  BY <1>3 DEF Jumps
<1>5. Falls(g.body[F], NextInLayout(g, F)) = {T}
  <2>1. NextInLayout(g, F) = {T}  BY DEF Triangle
  <2> QED BY <1>1, <2>1, FallsIs
<1>6. g.succs[F] = {T} /\ T \in Blocks(g)  BY DEF Triangle
<1>7. InstrsOK(g, F)  BY <1>1, <1>2 DEF InstrsOK
<1>8. TargetsOK(g, F)  BY <1>1, <1>2, <1>4, <1>5, <1>6 DEF TargetsOK
<1>9. PhisOK(g, F)  BY <1>1, <1>2 DEF PhisOK
<1> QED BY <1>7, <1>8, <1>9 DEF BlockOK

NoneOrRegister(def) == def \in Registers \cup {NONE}

IsMade(m, kind, args, blocks) ==
  \E def, attr : NoneOrRegister(def) /\ m = Instr(kind, def, args, attr, blocks)

LEMMA MadeOK ==
  ASSUME NEW g, NEW kind, kind \in {"phi", "branch"}, NEW args \in Seq(Registers),
         NEW blocks \in Seq(Blocks(g)), Len(args) = 2, kind = "phi" => Len(blocks) = 2,
         NEW m, IsMade(m, kind, args, blocks)
  PROVE  InstrOK(g, m) /\ m.kind = kind /\ m.blocks = blocks
<1>0. PICK def, attr : NoneOrRegister(def) /\ m = Instr(kind, def, args, attr, blocks)
  BY DEF IsMade
<1>1. /\ m.kind = kind /\ m.def = def /\ m.args = args /\ m.attr = attr
      /\ m.blocks = blocks
  BY <1>0 DEF Instr
<1>2. m = Instr(m.kind, m.def, m.args, m.attr, m.blocks)  BY <1>0, <1>1
<1>3. m.kind \in Kinds /\ m.kind # "select" /\ m.kind # "debug"  BY <1>1 DEF Kinds
<1>4. Len(m.args) # 4 /\ (m.kind = "phi" => Len(m.args) = Len(m.blocks))  BY <1>1
<1>5. m.args \in Seq(Registers) /\ m.blocks \in Seq(Blocks(g))  BY <1>1
<1>6. NoneOrRegister(m.def)  BY <1>0, <1>1
<1> QED BY <1>1, <1>2, <1>3, <1>4, <1>5, <1>6 DEF InstrOK, IsSelect, IsDebug, NoneOrRegister

\* The four registers of a select.
LEMMA SelectReads ==
  ASSUME NEW f, NEW m, InstrOK(f, m), IsSelect(m)
  PROVE  /\ m.args \in Seq(Registers) /\ Len(m.args) = 4
         /\ \A k \in 1 .. 4 : m.args[k] \in Registers /\ m.args[k] \in Range(m.args)
<1>1. m.args \in Seq(Registers) /\ Len(m.args) = 4  BY DEF InstrOK, IsSelect
<1>2. DOMAIN m.args = 1 .. 4 /\ \A k \in 1 .. 4 : m.args[k] \in Registers
  BY <1>1
<1> QED BY <1>1, <1>2 DEF Range

\* The block that is split: nothing that stays is a terminator, for a select is behind.
LEMMA HeadOK ==
  ASSUME NEW f, NEW n, FunctionOK(f, n), NEW g, NEW H, NEW F, NEW T, Triangle(f, g, H, F, T),
         NEW i, NEW last \in 1 .. Len(f.body[H]), IsSelect(f.body[H][last]),
         NEW r, NEW at, NEW op, NEW x \in Registers, NEW y \in Registers, NEW h,
         HeadShape(h, f.body[H], i, last, Branch(op, x, y, T), r, at),
         IsMoved(g.body[H], h, H \in f.succs[H], H, T)
  PROVE  BlockOK(g, H)
<1> DEFINE c == f.body[H]
           d == g.body[H]
           on == H \in f.succs[H]
           b == Branch(op, x, y, T)
<1>0. H \in Blocks(f)  BY DEF Triangle
<1>1. InstrsOK(f, H) /\ TargetsOK(f, H) /\ PhisOK(f, H)  BY <1>0 DEF FunctionOK, BlockOK
<1>2. Sequence(c) /\ \A p \in 1 .. Len(c) : InstrOK(f, c[p])  BY <1>1 DEF InstrsOK
<1>3. /\ Sequence(h) /\ Len(h) = r + 1 /\ r \in Nat /\ at \in [1 .. r -> 1 .. last]
      /\ h[r + 1] = b
      /\ \A k \in 1 .. r : h[k] = c[at[k]]
      /\ \A k, l \in 1 .. r : k < l => at[k] < at[l]
  BY DEF HeadShape
<1>4. Sequence(d) /\ Len(d) = r + 1 /\ \A p \in 1 .. r + 1 : d[p] = Moved(h[p], on, H, T)
  BY <1>3 DEF IsMoved
<1>5. Len(c) \in Nat /\ \A p \in 1 .. last : p \in 1 .. Len(c)
  <2>1. Len(c) \in Nat  BY <1>2, SequenceHas
  <2> QED BY <2>1
<1>6. \A k \in 1 .. r : at[k] \in 1 .. last /\ at[k] \in 1 .. Len(c)  BY <1>3, <1>5
<1>7. T \in Blocks(g) /\ F \in Blocks(g) /\ Blocks(f) \subseteq Blocks(g) /\ on \in BOOLEAN
  BY DEF Triangle
<1>8. ASSUME NEW k \in 1 .. r
      PROVE  /\ InstrOK(g, d[k]) /\ d[k].kind = c[at[k]].kind
             /\ d[k] = Moved(c[at[k]], on, H, T)
  <2> DEFINE m == c[at[k]]
             e == d[k]
  <2>0. k \in 1 .. r + 1  BY <1>3
  <2>1. InstrOK(f, m)  BY <1>2, <1>6
  <2>2. e = Moved(m, on, H, T)  BY <1>3, <1>4, <2>0
  <2> HIDE DEF m, e, on
  <2>3. InstrOK(g, e) /\ e.kind = m.kind  BY <1>7, <2>1, <2>2, MovedIs
  <2> QED BY <2>2, <2>3 DEF m, e
<1>9. d[r + 1] = b /\ b.kind = "branch" /\ b.blocks = <<T>>
  <2>1. b.kind = "branch" /\ b.blocks = <<T>>  BY DEF Branch, Instr
  <2>2. r + 1 \in 1 .. r + 1  BY <1>3
  <2>3. d[r + 1] = Moved(b, on, H, T)  BY <1>3, <1>4, <2>2
  <2> QED BY <2>1, <2>3 DEF Moved, ReplacePhiUse
<1>10. InstrOK(g, b)
  <2> DEFINE a == <<x, y>>
             z == <<T>>
  <2>1. z \in Seq(Blocks(g)) /\ a \in Seq(Registers) /\ Len(a) = 2  BY <1>7
  <2>2. IsMade(b, "branch", a, z)  BY DEF Branch, IsMade, NoneOrRegister
  <2>3. "branch" \in {"phi", "branch"} /\ "branch" # "phi"  OBVIOUS
  <2> HIDE DEF a, z, b
  <2> QED BY <2>1, <2>2, <2>3, MadeOK
<1>11. \A p \in 1 .. r + 1 : p \in 1 .. r \/ p = r + 1  BY <1>3
<1> HIDE DEF b
<1>12. InstrsOK(g, H)  BY <1>4, <1>8, <1>9, <1>10, <1>11 DEF InstrsOK
<1>13. \A k \in 1 .. r : ~IsTerminator(d[k])
  <2> TAKE k \in 1 .. r
  <2>1. ~IsTerminator(c[last])  BY DEF IsSelect, IsTerminator
  <2>2. \A p, q \in 1 .. Len(c) : p < q /\ IsTerminator(c[p]) => IsTerminator(c[q])
    BY <1>1 DEF TargetsOK
  <2>3. at[k] = last \/ at[k] < last  BY <1>5, <1>6
  <2>4. ~IsTerminator(c[at[k]])  BY <1>6, <2>1, <2>2, <2>3
  <2> QED BY <1>8, <2>4 DEF IsTerminator
<1>14. TargetsOK(g, H)
  <2>1. \A p \in 1 .. r + 1 : d[p].kind \in {"branch", "jump"} <=> p = r + 1
    BY <1>9, <1>11, <1>13 DEF IsTerminator
  <2>2. Range(d) = {d[k] : k \in 1 .. r + 1} /\ r + 1 \in 1 .. r + 1  BY <1>3, <1>4, SequenceHas
  <2>3. {m \in Range(d) : m.kind \in {"branch", "jump"}} = {b}  BY <1>9, <2>1, <2>2
  <2>4. Range(<<T>>) = {T}
    <3>1. DOMAIN <<T>> = {1}  OBVIOUS
    <3> QED BY <3>1 DEF Range
  <2>5. Jumps(d) = {T}
    <3> DEFINE J == {m \in Range(d) : m.kind \in {"branch", "jump"}}
    <3>1. Jumps(d) = UNION {Range(m.blocks) : m \in J}  BY DEF Jumps
    <3>2. J = {b}  BY <2>3
    <3> HIDE DEF J
    <3>3. {Range(m.blocks) : m \in J} = {{T}}  BY <1>9, <2>4, <3>2
    <3> QED BY <3>1, <3>3
  <2>6. Falls(d, NextInLayout(g, H)) = {F}
    <3>1. NextInLayout(g, H) = {F}  BY DEF Triangle
    <3>2. ~IsBarrier(d[Len(d)])  BY <1>4, <1>9 DEF IsBarrier
    <3> HIDE DEF d
    <3> QED BY <1>4, <3>1, <3>2, FallsIs
  <2>7. g.succs[H] = {F, T}  BY DEF Triangle
  <2>8. \A p, q \in 1 .. r + 1 : p < q /\ IsTerminator(d[p]) => IsTerminator(d[q])
    <3> SUFFICES ASSUME NEW p \in 1 .. r + 1, NEW q \in 1 .. r + 1, p < q  PROVE ~IsTerminator(d[p])
      OBVIOUS
    <3>1. p \in 1 .. r  BY <1>3
    <3> QED BY <1>13, <3>1
  <2> QED BY <1>4, <1>7, <2>5, <2>6, <2>7, <2>8 DEF TargetsOK
<1>15. PhisOK(g, H)
  <2> SUFFICES ASSUME NEW p \in 1 .. Len(d), d[p].kind = "phi"
               PROVE  /\ IsInjective(d[p].blocks) /\ Range(d[p].blocks) = Preds(g, H)
                      /\ \A q \in 1 .. p : d[q].kind = "phi"
    BY DEF PhisOK
  <2>1. p \in 1 .. r  BY <1>4, <1>9, <1>11
  <2>2. at[p] \in 1 .. Len(c) /\ c[at[p]].kind = "phi" /\ d[p] = Moved(c[at[p]], on, H, T)
    BY <1>6, <1>8, <2>1
  <2>3. IsInjective(d[p].blocks) /\ Range(d[p].blocks) = Preds(g, H)
    BY <1>0, <2>2, PhiMoved
  <2>4. \A q \in 1 .. at[p] : c[q].kind = "phi"  BY <1>1, <2>2 DEF PhisOK
  <2>5. ASSUME NEW q \in 1 .. p  PROVE d[q].kind = "phi"
    <3>1. q \in 1 .. r /\ (q = p \/ q < p)  BY <1>3, <2>1
    <3>2. at[q] \in 1 .. at[p]
      <4>1. at[q] = at[p] \/ at[q] < at[p]  BY <1>3, <2>1, <3>1
      <4>2. at[q] \in 1 .. last /\ at[p] \in 1 .. last  BY <1>6, <2>1, <3>1
      <4> QED BY <4>1, <4>2
    <3> QED BY <1>8, <2>4, <3>1, <3>2
  <2> QED BY <2>3, <2>5
<1> QED BY <1>12, <1>14, <1>15 DEF BlockOK

\* The block that gets the phis: it names head and ifFalse in each, and then has all
\* terminators of the block that was split.
LEMMA TailOK ==
  ASSUME NEW f, NEW n, FunctionOK(f, n), NEW g, NEW H, NEW F, NEW T, Triangle(f, g, H, F, T),
         NEW i, NEW last \in i .. Len(f.body[H]), i \in 1 .. Len(f.body[H]),
         IsSelect(f.body[H][i]), IsSelect(f.body[H][last]),
         NEW s, NEW r, NEW at,
         TailShape(g.body[T], f.body[H], i, last, H, F, s, r, at)
  PROVE  BlockOK(g, T)
<1> DEFINE c == f.body[H]
           d == g.body[T]
           N == Len(f.body[H])
<1>0. /\ H \in Blocks(f) /\ F \notin Blocks(f) /\ Blocks(f) \subseteq Blocks(g)
      /\ H \in Blocks(g) /\ F \in Blocks(g)
  BY DEF Triangle
<1>1. InstrsOK(f, H) /\ TargetsOK(f, H) /\ PhisOK(f, H)  BY <1>0 DEF FunctionOK, BlockOK
<1>2. Sequence(c) /\ \A p \in 1 .. Len(c) : InstrOK(f, c[p])  BY <1>1 DEF InstrsOK
<1>3. /\ Sequence(d) /\ Len(d) = s + r /\ s \in Nat /\ r \in Nat
      /\ at \in [1 .. r -> i + 1 .. N]
      /\ \A k \in 1 .. s : \E p \in i .. last : IsSelect(c[p]) /\ d[k] = PhiOf(c[p], H, F)
      /\ \A k \in 1 .. r : d[s + k] = c[at[k]]
      /\ \A p \in last + 1 .. N : \E k \in 1 .. r : at[k] = p
      /\ \A k \in 1 .. r : at[k] <= last => IsDebug(c[at[k]])
  BY DEF TailShape
<1>17. \A k, l \in 1 .. r : k < l /\ IsTerminator(c[at[k]]) => at[k] < at[l]
  <2>1. \A k \in 1 .. r : IsTerminator(c[at[k]]) => ~IsDebug(c[at[k]])
    BY DEF IsTerminator, IsDebug
  <2> QED BY <2>1, TailOrder
<1>4. N \in Nat /\ i \in Nat /\ last \in Nat /\ last \in 1 .. N /\ i <= last /\ 1 <= i
  <2>1. N \in Nat  BY <1>2, SequenceHas
  <2> QED BY <2>1
<1> HIDE DEF N
<1>5. \A k \in 1 .. r : at[k] \in i + 1 .. N /\ at[k] \in 1 .. N  BY <1>3, <1>4
<1>6. ASSUME NEW k \in 1 .. s
      PROVE  d[k].kind = "phi" /\ d[k].blocks = <<H, F>> /\ InstrOK(g, d[k])
  <2>1. PICK p \in i .. last : IsSelect(c[p]) /\ d[k] = PhiOf(c[p], H, F)  BY <1>3
  <2> DEFINE m == c[p]
             a == <<m.args[3], m.args[4]>>
             z == <<H, F>>
             e == d[k]
  <2>4. p \in 1 .. N  BY <1>4
  <2>5. m.args[3] \in Registers /\ m.args[4] \in Registers
    BY <1>2, <2>1, <2>4, SelectReads DEF N
  <2>2. z \in Seq(Blocks(g)) /\ Len(z) = 2 /\ a \in Seq(Registers) /\ Len(a) = 2
    <3> HIDE DEF m
    <3> QED BY <1>0, <2>5
  <2>6. NoneOrRegister(m.def)
    <3>1. InstrOK(f, m)  BY <1>2, <2>4 DEF N
    <3> QED BY <3>1 DEF InstrOK, NoneOrRegister
  <2>3. IsMade(e, "phi", a, z) /\ "phi" \in {"phi", "branch"}
    BY <2>1, <2>6 DEF Phi, PhiOf, IsMade
  <2> HIDE DEF a, z, e
  <2>7. InstrOK(g, e) /\ e.kind = "phi" /\ e.blocks = z  BY <2>2, <2>3, MadeOK
  <2> QED BY <2>7 DEF e, z
<1>7. ASSUME NEW k \in 1 .. r
      PROVE  /\ d[s + k] = c[at[k]] /\ InstrOK(g, d[s + k]) /\ d[s + k].kind # "phi"
  <2>1. InstrOK(f, c[at[k]])  BY <1>2, <1>5 DEF N
  <2>2. d[s + k] = c[at[k]]  BY <1>3
  <2>3. c[at[k]].kind # "phi"
    <3> SUFFICES ASSUME c[at[k]].kind = "phi"  PROVE FALSE
      OBVIOUS
    <3>1. \A q \in 1 .. at[k] : c[q].kind = "phi"  BY <1>1, <1>5 DEF PhisOK, N
    <3>2. i \in 1 .. at[k]  BY <1>4, <1>5
    <3> QED BY <3>1, <3>2 DEF IsSelect
  <2>4. InstrOK(g, c[at[k]])
    <3>1. c[at[k]].blocks \in Seq(Blocks(g))  BY <1>0, <2>1, SeqMonotonic DEF InstrOK
    <3> QED BY <2>1, <3>1 DEF InstrOK
  <2> QED BY <2>2, <2>3, <2>4
<1>8. \A p \in 1 .. s + r : p \in 1 .. s \/ (p - s \in 1 .. r /\ s + (p - s) = p)
  BY <1>3
<1>9. InstrsOK(g, T)
  <2>1. \A p \in 1 .. s + r : InstrOK(g, d[p])
    <3> TAKE p \in 1 .. s + r
    <3>1. CASE p \in 1 .. s  BY <1>6, <3>1
    <3>2. CASE p - s \in 1 .. r /\ s + (p - s) = p  BY <1>7, <3>2
    <3> QED BY <1>8, <3>1, <3>2
  <2> QED BY <1>3, <2>1 DEF InstrsOK
\* What is a terminator in one is one in the other.
<1>10. ASSUME NEW p \in 1 .. N, IsTerminator(c[p])
       PROVE  p \in last + 1 .. N /\ \E k \in 1 .. r : at[k] = p
  <2>1. ~IsTerminator(c[last])  BY DEF IsSelect, IsTerminator
  <2>2. \A q \in 1 .. N : p < q => IsTerminator(c[q])  BY <1>1, <1>10 DEF TargetsOK, N
  <2>3. ~(p < last) /\ p # last  BY <1>4, <1>10, <2>1, <2>2
  <2>4. p \in last + 1 .. N  BY <1>4, <2>3
  <2> QED BY <1>3, <2>4
<1>11. ASSUME NEW p \in 1 .. s + r, IsTerminator(d[p])
       PROVE  p - s \in 1 .. r /\ s + (p - s) = p /\ d[p] = c[at[p - s]]
  <2>1. p \notin 1 .. s  BY <1>6, <1>11 DEF IsTerminator
  <2> QED BY <1>7, <1>8, <2>1
<1>12. Jumps(c) \subseteq Jumps(d)
  <2>1. ASSUME NEW p \in 1 .. Len(c), IsJump(c[p])  PROVE \E q \in 1 .. Len(d) : d[q] = c[p]
    <3>1. IsTerminator(c[p]) /\ p \in 1 .. N  BY <2>1 DEF IsJump, IsTerminator, N
    <3>2. PICK k \in 1 .. r : at[k] = p  BY <1>10, <3>1
    <3>3. s + k \in 1 .. s + r  BY <1>3
    <3> QED BY <1>3, <1>7, <3>2, <3>3
  <2> HIDE DEF c, d
  <2> QED BY <1>2, <1>3, <2>1, JumpsFrom
<1>13. Jumps(d) \subseteq Jumps(c)
  <2>1. ASSUME NEW p \in 1 .. Len(d), IsJump(d[p])  PROVE \E q \in 1 .. Len(c) : c[q] = d[p]
    <3>1. IsTerminator(d[p]) /\ p \in 1 .. s + r  BY <1>3, <2>1 DEF IsJump, IsTerminator
    <3>2. d[p] = c[at[p - s]] /\ at[p - s] \in 1 .. N  BY <1>5, <1>11, <3>1
    <3> QED BY <3>2 DEF N
  <2> HIDE DEF c, d
  <2> QED BY <1>2, <1>3, <2>1, JumpsFrom
<1>14. \A next : Falls(d, next) = Falls(c, next)
  <2>1. CASE ~IsTerminator(c[N])
    <3>1. ~IsBarrier(c[N])  BY <2>1 DEF IsTerminator, IsBarrier
    <3>2. Len(d) # 0 => ~IsBarrier(d[Len(d)])
      <4> SUFFICES ASSUME s + r # 0, IsTerminator(d[s + r])  PROVE FALSE
        BY <1>3 DEF IsBarrier, IsTerminator
      <4>1. s + r \in 1 .. s + r  BY <1>3
      <4>2. (s + r) - s \in 1 .. r /\ d[s + r] = c[at[(s + r) - s]]  BY <1>11, <4>1
      <4>3. at[(s + r) - s] \in 1 .. N /\ IsTerminator(c[at[(s + r) - s]])  BY <1>5, <4>2
      <4>4. N \in 1 .. N /\ (at[(s + r) - s] = N \/ at[(s + r) - s] < N)  BY <1>4, <4>3
      <4> QED BY <1>1, <2>1, <4>3, <4>4 DEF TargetsOK, N
    <3>3. ~IsBarrier(c[Len(c)])  BY <3>1 DEF N
    <3> HIDE DEF c, d
    <3>4. Sequence(c) /\ Sequence(d)  BY <1>2, <1>3
    <3>5. /\ \A next : Falls(c, next) = IF Len(c) # 0 /\ IsBarrier(c[Len(c)]) THEN {} ELSE next
          /\ \A next : Falls(d, next) = IF Len(d) # 0 /\ IsBarrier(d[Len(d)]) THEN {} ELSE next
      BY ONLY <3>4, FallsIs
    <3> QED BY ONLY <3>2, <3>3, <3>5
  <2>2. CASE IsTerminator(c[N])
    <3>1. N \in 1 .. N  BY <1>4
    <3>2. PICK k \in 1 .. r : at[k] = N  BY <1>10, <2>2, <3>1
    <3>3. k = r
      <4>1. k \in Nat /\ r \in 1 .. r /\ (k = r \/ k < r)  BY <1>3
      <4>2. k < r => at[k] < at[r]  BY <1>17, <2>2, <3>2, <4>1
      <4>3. at[r] \in i + 1 .. N  BY <1>5, <4>1
      <4> QED BY <1>4, <3>2, <4>1, <4>2, <4>3
    <3>4. d[Len(d)] = c[N] /\ Len(d) # 0
      <4>1. Len(d) = s + k /\ s + k # 0  BY <1>3, <3>3
      <4>2. d[s + k] = c[N]  BY <1>7, <3>2
      <4> QED BY <4>1, <4>2
    <3>5. N # 0 /\ N = Len(c)  BY <1>4 DEF N
    <3> HIDE DEF c, d
    <3> QED BY <1>2, <1>3, <3>4, <3>5, FallsIs
  <2> QED BY <2>1, <2>2
<1>15. TargetsOK(g, T)
  <2>1. f.succs[H] = Jumps(c) \cup Falls(c, NextInLayout(f, H)) /\ f.succs[H] \subseteq Blocks(f)
    BY <1>1 DEF TargetsOK
  <2>2. NextInLayout(g, T) = NextInLayout(f, H) /\ g.succs[T] = f.succs[H]
    BY DEF Triangle
  <2>3. ASSUME NEW p \in 1 .. s + r, NEW q \in 1 .. s + r, p < q, IsTerminator(d[p])
        PROVE  IsTerminator(d[q])
    <3>1. p - s \in 1 .. r /\ s + (p - s) = p /\ d[p] = c[at[p - s]]  BY <1>11, <2>3
    <3>2. q - s \in 1 .. r /\ s + (q - s) = q /\ p - s < q - s
      <4>1. s \in Nat /\ r \in Nat  BY <1>3
      <4>2. p - s \in 1 .. r  BY <3>1
      <4> QED BY <2>3, <4>1, <4>2
    <3>3. at[p - s] < at[q - s] /\ at[p - s] \in 1 .. N /\ at[q - s] \in 1 .. N
      BY <1>5, <1>17, <2>3, <3>1, <3>2
    <3>4. IsTerminator(c[at[q - s]])  BY <1>1, <2>3, <3>1, <3>3 DEF TargetsOK, N
    <3> QED BY <1>7, <3>2, <3>4
  <2>4. Jumps(c) = Jumps(d)  BY <1>12, <1>13
  <2> QED BY <1>0, <1>3, <1>14, <2>1, <2>2, <2>3, <2>4 DEF TargetsOK
<1>16. PhisOK(g, T)
  <2>1. Preds(g, T) = {H, F}
    <3>1. \A b \in Blocks(f) : f.succs[b] \subseteq Blocks(f)
      BY DEF FunctionOK, BlockOK, TargetsOK
    <3> QED BY <3>1, PredsAre
  <2>2. IsInjective(<<H, F>>) /\ Range(<<H, F>>) = {H, F}
    <3>1. DOMAIN <<H, F>> = {1, 2} /\ H # F  BY <1>0
    <3> QED BY <3>1 DEF IsInjective, Range
  <2> SUFFICES ASSUME NEW p \in 1 .. s + r, d[p].kind = "phi"
               PROVE  /\ IsInjective(d[p].blocks) /\ Range(d[p].blocks) = Preds(g, T)
                      /\ \A q \in 1 .. p : d[q].kind = "phi"
    BY <1>3 DEF PhisOK
  <2>3. p \in 1 .. s  BY <1>7, <1>8
  <2>4. \A q \in 1 .. p : q \in 1 .. s  BY <1>3, <2>3
  <2> QED BY <1>6, <2>1, <2>2, <2>3, <2>4
<1> QED BY <1>9, <1>15, <1>16 DEF BlockOK

----------------------------------------------------------------------------
(* Reachability: what Reached computes is the least set of blocks that has *)
(* the entry and, with a block, its successors, all but the avoided ones.  *)

Entered(f, avoid)   == {f.order[1]} \ avoid
Onward(f, avoid, X) == (X \cup (UNION {f.succs[b] : b \in X})) \ avoid
Closed(f, avoid, X) == \A b \in X : f.succs[b] \ avoid \subseteq X

IsWalk(w, f, avoid, n) ==
  w = [k \in 0 .. n |-> IF k = 0 THEN Entered(f, avoid) ELSE Onward(f, avoid, w[k - 1])]

Walks(w, f, avoid, n) ==
  w[0] = Entered(f, avoid) /\ \A k \in 1 .. n : w[k] = Onward(f, avoid, w[k - 1])

LEMMA WalkExists ==
  ASSUME NEW f, NEW avoid, NEW n \in Nat
  PROVE  \E w : IsWalk(w, f, avoid, n)
<1> DEFINE T == {m \in 0 .. n : ~ \E w : IsWalk(w, f, avoid, m)}
<1> SUFFICES ASSUME T # {}  PROVE FALSE
  BY DEF IsWalk
<1>1. PICK m \in T : \A k \in T : m <= k
  <2>1. T \subseteq Nat  OBVIOUS
  <2> HIDE DEF T
  <2> QED BY <2>1, Least
<1>2. m \in 0 .. n /\ ~ \E w : IsWalk(w, f, avoid, m)  BY <1>1
<1>3. CASE m = 0
  <2> DEFINE w == [k \in 0 .. 0 |-> Entered(f, avoid)]
  <2>1. w = [k \in 0 .. 0 |-> IF k = 0 THEN Entered(f, avoid) ELSE Onward(f, avoid, w[k - 1])]
    OBVIOUS
  <2> HIDE DEF w
  <2>2. IsWalk(w, f, avoid, 0)  BY <2>1 DEF IsWalk
  <2> QED BY <1>2, <1>3, <2>2
<1>4. CASE m # 0
  <2>1. m - 1 \in 0 .. n /\ ~(m <= m - 1)  BY <1>2, <1>4
  <2>2. m - 1 \notin T  BY <1>1, <2>1
  <2>3. PICK u : IsWalk(u, f, avoid, m - 1)  BY <2>1, <2>2
  <2> DEFINE w == [k \in 0 .. m |-> IF k = m THEN Onward(f, avoid, u[m - 1]) ELSE u[k]]
  <2>4. u = [k \in 0 .. m - 1 |-> IF k = 0 THEN Entered(f, avoid) ELSE Onward(f, avoid, u[k - 1])]
    BY <2>3 DEF IsWalk
  <2>5. \A k \in 0 .. m - 1 : u[k] = IF k = 0 THEN Entered(f, avoid) ELSE Onward(f, avoid, u[k - 1])
    <3> DEFINE e(k) == IF k = 0 THEN Entered(f, avoid) ELSE Onward(f, avoid, u[k - 1])
    <3>1. u = [k \in 0 .. m - 1 |-> e(k)]  BY <2>4
    <3> HIDE DEF e
    <3>2. \A k \in 0 .. m - 1 : u[k] = e(k)  BY <3>1
    <3> QED BY <3>2 DEF e
  <2>6. \A k \in 0 .. m : w[k] = IF k = 0 THEN Entered(f, avoid) ELSE Onward(f, avoid, w[k - 1])
    <3> TAKE k \in 0 .. m
    <3>1. CASE k = m
      <4>1. k - 1 \in 0 .. m /\ k - 1 # m /\ k # 0  BY <1>2, <1>4, <3>1
      <4>2. w[k - 1] = u[m - 1]  BY <3>1, <4>1
      <4> QED BY <3>1, <4>1, <4>2
    <3>2. CASE k # m /\ k # 0
      <4>1. k \in 0 .. m - 1 /\ k - 1 \in 0 .. m /\ k - 1 # m  BY <1>2, <3>2
      <4>2. w[k] = u[k] /\ w[k - 1] = u[k - 1]  BY <3>2, <4>1
      <4> QED BY <2>5, <3>2, <4>1, <4>2
    <3>3. CASE k # m /\ k = 0
      <4>1. k \in 0 .. m - 1  BY <1>2, <3>3
      <4>2. w[k] = u[k]  BY <3>3
      <4> QED BY <2>5, <3>3, <4>1, <4>2
    <3> QED BY <3>1, <3>2, <3>3
  <2>7. IsWalk(w, f, avoid, m)
    <3> DEFINE e(k) == IF k = 0 THEN Entered(f, avoid) ELSE Onward(f, avoid, w[k - 1])
    <3>1. w = [k \in 0 .. m |-> w[k]]  OBVIOUS
    <3>2. \A k \in 0 .. m : w[k] = e(k)  BY <2>6
    <3> HIDE DEF w, e
    <3>3. w = [k \in 0 .. m |-> e(k)]  BY <3>1, <3>2
    <3> QED BY <3>3 DEF IsWalk, e
  <2> QED BY <1>2, <2>7
<1> QED BY <1>3, <1>4

LEMMA ReachedWalks ==
  ASSUME NEW f, NEW avoid, NEW n \in Nat, n = Len(f.order)
  PROVE  \E w : Walks(w, f, avoid, n) /\ Reached(f, avoid) = w[n]
<1> DEFINE v == CHOOSE w : IsWalk(w, f, avoid, n)
<1>1. Reached(f, avoid) = v[n]  BY Zenon DEF Reached, IsWalk, Entered, Onward
<1>2. IsWalk(v, f, avoid, n)  BY WalkExists
<1> HIDE DEF v
<1> DEFINE e(k) == IF k = 0 THEN Entered(f, avoid) ELSE Onward(f, avoid, v[k - 1])
<1>3. v = [k \in 0 .. n |-> e(k)]  BY <1>2 DEF IsWalk
<1> HIDE DEF e
<1>4. \A k \in 0 .. n : v[k] = e(k)  BY <1>3
<1>5. v[0] = Entered(f, avoid)
  <2>1. 0 \in 0 .. n  OBVIOUS
  <2>2. v[0] = e(0)  BY <1>4, <2>1
  <2> QED BY <2>2 DEF e
<1>6. ASSUME NEW k \in 1 .. n  PROVE v[k] = Onward(f, avoid, v[k - 1])
  <2>1. k \in 0 .. n /\ k # 0  OBVIOUS
  <2>2. v[k] = e(k)  BY <1>4, <2>1
  <2> QED BY <2>1, <2>2 DEF e
<1>7. Walks(v, f, avoid, n)  BY <1>5, <1>6 DEF Walks
<1> QED BY <1>1, <1>7

\* Nothing is reached but what has to be.
LEMMA WalkWithin ==
  ASSUME NEW f, NEW avoid, NEW n \in Nat, NEW w, Walks(w, f, avoid, n),
         NEW S, Entered(f, avoid) \subseteq S, Closed(f, avoid, S)
  PROVE  \A k \in 0 .. n : w[k] \subseteq S
<1> DEFINE T == {k \in 0 .. n : ~(w[k] \subseteq S)}
<1> SUFFICES ASSUME T # {}  PROVE FALSE
  OBVIOUS
<1>1. PICK m \in T : \A k \in T : m <= k
  <2>1. T \subseteq Nat  OBVIOUS
  <2> HIDE DEF T
  <2> QED BY <2>1, Least
<1>2. m # 0  BY <1>1 DEF Walks
<1>3. m - 1 \in 0 .. n /\ m \in 1 .. n /\ ~(m <= m - 1)  BY <1>1, <1>2
<1>4. w[m - 1] \subseteq S  BY <1>1, <1>3
<1>5. w[m] = Onward(f, avoid, w[m - 1])  BY <1>3 DEF Walks
<1>6. Onward(f, avoid, w[m - 1]) \subseteq S
  <2> DEFINE X == w[m - 1]
  <2>1. X \subseteq S  BY <1>4
  <2> HIDE DEF X
  <2>2. Onward(f, avoid, X) \subseteq S  BY <2>1 DEF Onward, Closed
  <2> QED BY <2>2 DEF X
<1> QED BY <1>1, <1>5, <1>6

\* As long as there is more to reach, every step reaches another block.
LEMMA WalkGrows ==
  ASSUME NEW f, NEW avoid, NEW n \in Nat, NEW w, Walks(w, f, avoid, n),
         NEW B, IsFiniteSet(B), \A k \in 0 .. n : w[k] \subseteq B
  PROVE  \A k \in 0 .. n : Closed(f, avoid, w[k]) \/ Cardinality(w[k]) > k
<1> DEFINE OK(k) == Closed(f, avoid, w[k]) \/ Cardinality(w[k]) > k
           T == {k \in 0 .. n : ~OK(k)}
<1> SUFFICES ASSUME T # {}  PROVE FALSE
  OBVIOUS
<1>1. PICK m \in T : \A k \in T : m <= k
  <2>1. T \subseteq Nat  OBVIOUS
  <2> HIDE DEF T
  <2> QED BY <2>1, Least
<1>2. m \in 0 .. n /\ ~OK(m)  BY <1>1
<1>3. CASE m = 0
  <2>1. CASE f.order[1] \in avoid
    <3>1. w[0] = {}  BY <2>1 DEF Walks, Entered
    <3> QED BY <1>2, <1>3, <3>1 DEF Closed
  <2>2. CASE f.order[1] \notin avoid
    <3>1. w[0] = {f.order[1]}  BY <2>2 DEF Walks, Entered
    <3>2. Cardinality({f.order[1]}) = 1  BY FS_Singleton
    <3> QED BY <1>2, <1>3, <3>1, <3>2
  <2> QED BY <2>1, <2>2
<1>4. CASE m # 0
  <2>1. m - 1 \in 0 .. n /\ m \in 1 .. n /\ ~(m <= m - 1) /\ m \in Nat  BY <1>2, <1>4
  <2>2. OK(m - 1)
    <3>1. m - 1 \notin T  BY <1>1, <2>1
    <3> QED BY <2>1, <3>1
  <2> DEFINE X == w[m - 1]
             Y == w[m]
  <2>3. Y = Onward(f, avoid, X)  BY <2>1 DEF Walks
  <2>4. \A x \in X : x \notin avoid
    <3>1. CASE m - 1 = 0
      <4>1. X = Entered(f, avoid)  BY <3>1 DEF Walks
      <4> QED BY <4>1 DEF Entered
    <3>2. CASE m - 1 # 0
      <4>1. m - 1 \in 1 .. n  BY <2>1, <3>2
      <4>2. X = Onward(f, avoid, w[m - 1 - 1])  BY <4>1 DEF Walks
      <4> QED BY <4>2 DEF Onward
    <3> QED BY <3>1, <3>2
  <2>5. Closed(f, avoid, X) \/ Cardinality(X) > m - 1  BY <2>2
  <2>6. ~Closed(f, avoid, Y) /\ ~(Cardinality(Y) > m)  BY <1>2
  <2>7. X \subseteq B /\ Y \subseteq B  BY <1>2, <2>1
  <2> HIDE DEF X, Y, OK, T
  <2>8. X \subseteq Y  BY <2>3, <2>4 DEF Onward
  <2>9. CASE Closed(f, avoid, X)
    <3>1. Y \subseteq X  BY <2>3, <2>9 DEF Onward, Closed
    <3>2. X = Y  BY <2>8, <3>1
    <3> QED BY <2>6, <2>9, <3>2
  <2>10. CASE ~Closed(f, avoid, X)
    <3>1. Cardinality(X) > m - 1  BY <2>5, <2>10
    <3>2. X # Y
      <4>1. PICK b \in X : ~(f.succs[b] \ avoid \subseteq X)  BY <2>10 DEF Closed
      <4>2. PICK c \in f.succs[b] \ avoid : c \notin X  BY <4>1
      <4>3. c \in Y  BY <2>3, <4>2 DEF Onward
      <4> QED BY <4>2, <4>3
    <3>3. IsFiniteSet(X) /\ IsFiniteSet(Y)  BY <2>7, FS_Subset
    <3>4. Cardinality(X) <= Cardinality(Y) /\ Cardinality(X) # Cardinality(Y)
      BY <2>8, <3>2, <3>3, FS_Subset
    <3>5. Cardinality(X) \in Nat /\ Cardinality(Y) \in Nat  BY <3>3, FS_CardinalityType
    <3> QED BY <2>1, <2>6, <3>1, <3>4, <3>5
  <2> QED BY <2>9, <2>10
<1> QED BY <1>3, <1>4

\* The layout of f has n blocks, and successors are blocks.
Graph(f, n) == Ordered(f.order, n) /\ \A b \in Blocks(f) : f.succs[b] \subseteq Blocks(f)

LEMMA ReachedIs ==
  ASSUME NEW f, NEW n, Graph(f, n), NEW avoid
  PROVE  /\ Entered(f, avoid) \subseteq Reached(f, avoid)
         /\ Closed(f, avoid, Reached(f, avoid))
         /\ Reached(f, avoid) \subseteq Blocks(f) \ avoid
         /\ \A S : Entered(f, avoid) \subseteq S /\ Closed(f, avoid, S)
                     => Reached(f, avoid) \subseteq S
<1>1. /\ n \in Nat /\ n # 0 /\ n = Len(f.order) /\ Blocks(f) \subseteq 1 .. n
      /\ f.order[1] \in Blocks(f)
  <2>1. /\ n \in Nat \ {0} /\ n = Len(f.order) /\ Blocks(f) = {f.order[j] : j \in 1 .. n}
        /\ \A j \in 1 .. n : f.order[j] \in 1 .. n
    BY OrderedFacts DEF OrderIs, Graph, Blocks, Ordered
  <2>2. 1 \in 1 .. n  BY <2>1
  <2> QED BY <2>1, <2>2
<1>2. PICK w : Walks(w, f, avoid, n) /\ Reached(f, avoid) = w[n]  BY <1>1, ReachedWalks
<1> DEFINE R == w[n]
<1>3. n \in 0 .. n /\ 0 \in 0 .. n  BY <1>1
<1>4. \A S : Entered(f, avoid) \subseteq S /\ Closed(f, avoid, S) => R \subseteq S
  BY <1>1, <1>2, <1>3, WalkWithin
<1>5. \A k \in 0 .. n : w[k] \subseteq Blocks(f) \ avoid
  <2> DEFINE B == Blocks(f) \ avoid
  <2>1. Entered(f, avoid) \subseteq B  BY <1>1 DEF Entered
  <2>2. Closed(f, avoid, B)  BY DEF Closed, Graph
  <2> HIDE DEF B
  <2>3. \A k \in 0 .. n : w[k] \subseteq B  BY <1>1, <1>2, <2>1, <2>2, WalkWithin
  <2> QED BY <2>3 DEF B
<1>6. IsFiniteSet(Blocks(f)) /\ Cardinality(Blocks(f)) <= n
  <2>1. IsFiniteSet(1 .. n) /\ Cardinality(1 .. n) = n
    <3>1. 1 \in Int /\ n \in Int  BY <1>1
    <3>2. IsFiniteSet(1 .. n) /\ Cardinality(1 .. n) = IF 1 > n THEN 0 ELSE n - 1 + 1
      BY <3>1, FS_Interval
    <3> QED BY <1>1, <3>2
  <2> QED BY <1>1, <2>1, FS_Subset
<1>7. Closed(f, avoid, R)
  <2>1. \A k \in 0 .. n : w[k] \subseteq Blocks(f)  BY <1>5
  <2>2. Closed(f, avoid, R) \/ Cardinality(R) > n  BY <1>1, <1>2, <1>3, <1>6, <2>1, WalkGrows
  <2>3. R \subseteq Blocks(f)  BY <1>3, <2>1
  <2> HIDE DEF R
  <2>4. IsFiniteSet(R) /\ Cardinality(R) <= Cardinality(Blocks(f))  BY <1>6, <2>3, FS_Subset
  <2>5. Cardinality(R) \in Nat /\ Cardinality(Blocks(f)) \in Nat
    BY <1>6, <2>4, FS_CardinalityType
  <2> QED BY <1>1, <1>6, <2>2, <2>4, <2>5
<1>8. Entered(f, avoid) \subseteq R
  <2>1. \A k \in 0 .. n : Entered(f, avoid) \subseteq w[k]
    <3> DEFINE T == {k \in 0 .. n : ~(Entered(f, avoid) \subseteq w[k])}
    <3> SUFFICES ASSUME T # {}  PROVE FALSE
      OBVIOUS
    <3>1. PICK m \in T : \A k \in T : m <= k
      <4>1. T \subseteq Nat  BY <1>1
      <4> HIDE DEF T
      <4> QED BY <4>1, Least
    <3>2. m # 0  BY <1>2, <3>1 DEF Walks
    <3>3. m - 1 \in 0 .. n /\ m \in 1 .. n /\ ~(m <= m - 1)  BY <1>1, <3>1, <3>2
    <3>4. Entered(f, avoid) \subseteq w[m - 1]  BY <3>1, <3>3
    <3>5. w[m] = Onward(f, avoid, w[m - 1])  BY <1>2, <3>3 DEF Walks
    <3>6. Entered(f, avoid) \subseteq Onward(f, avoid, w[m - 1])
      BY <3>4 DEF Onward, Entered
    <3> QED BY <3>1, <3>5, <3>6
  <2> QED BY <1>3, <2>1
<1>9. R \subseteq Blocks(f) \ avoid  BY <1>3, <1>5
<1> QED BY <1>2, <1>4, <1>7, <1>8, <1>9

----------------------------------------------------------------------------
(* Dominance in f and in g.                                                *)

\* g has a triangle where f has H, and the same entry.
Split(f, n, g, m, H, F, T) ==
  /\ Triangle(f, g, H, F, T) /\ Graph(f, n) /\ Graph(g, m) /\ g.order[1] = f.order[1]

LEMMA SplitFacts ==
  ASSUME NEW f, NEW n, NEW g, NEW m, NEW H, NEW F, NEW T, Split(f, n, g, m, H, F, T)
  PROVE  /\ H \in Blocks(f) /\ F \notin Blocks(f) /\ T \notin Blocks(f) /\ F # T
         /\ Blocks(g) = Blocks(f) \cup {F, T}
         /\ g.succs[H] = {F, T} /\ g.succs[F] = {T} /\ g.succs[T] = f.succs[H]
         /\ \A b \in Blocks(f) \ {H} : g.succs[b] = f.succs[b]
         /\ \A b \in Blocks(f) : f.succs[b] \subseteq Blocks(f)
         /\ f.order[1] \in Blocks(f)
<1>1. f.order[1] \in Blocks(f)
  <2>1. Ordered(f.order, n)  BY DEF Split, Graph
  <2>2. n \in Nat \ {0} /\ Range(f.order) = {f.order[j] : j \in 1 .. n}
    BY <2>1, OrderedFacts DEF OrderIs, Ordered
  <2>3. 1 \in 1 .. n  BY <2>2
  <2> QED BY <2>2, <2>3 DEF Blocks
<1> QED BY <1>1 DEF Split, Triangle, Graph

\* A block other than H dominates what it dominated, and F and T as it does H.
LEMMA DominatesStill ==
  ASSUME NEW f, NEW n, NEW g, NEW m, NEW H, NEW F, NEW T, Split(f, n, g, m, H, F, T),
         NEW d \in Blocks(f) \ {H}, NEW b \in Blocks(f), Dominates(f, d, b)
  PROVE  Dominates(g, d, b) /\ (b = H => Dominates(g, d, F) /\ Dominates(g, d, T))
<1>1. CASE d = b
  BY <1>1 DEF Dominates
<1>2. CASE d # b
  <2> DEFINE R == Reached(f, {d})
             S == {x \in Blocks(g) : (IF x = F \/ x = T THEN H ELSE x) \in R}
  <2>0. b \notin R  BY <1>2 DEF Dominates
  <2>1. Graph(f, n) /\ Graph(g, m) /\ g.order[1] = f.order[1]  BY DEF Split
  <2>2. /\ Entered(f, {d}) \subseteq R /\ Closed(f, {d}, R)
        /\ R \subseteq Blocks(f) \ {d}
    BY <2>1, ReachedIs
  <2>3. /\ H \in Blocks(f) /\ F \notin Blocks(f) /\ T \notin Blocks(f) /\ F # T
        /\ Blocks(g) = Blocks(f) \cup {F, T}
        /\ g.succs[H] = {F, T} /\ g.succs[F] = {T} /\ g.succs[T] = f.succs[H]
        /\ \A x \in Blocks(f) \ {H} : g.succs[x] = f.succs[x]
        /\ \A x \in Blocks(f) : f.succs[x] \subseteq Blocks(f)
        /\ f.order[1] \in Blocks(f)
    BY SplitFacts
  <2> HIDE DEF R
  <2>4. Entered(g, {d}) \subseteq S  BY <2>1, <2>2, <2>3 DEF Entered
  <2>5. \A x : x \in S <=> x \in R \/ (x \in {F, T} /\ H \in R)  BY <2>2, <2>3
  <2> HIDE DEF S
  <2>6. ASSUME NEW x \in S, NEW y \in g.succs[x] \ {d}  PROVE y \in S
    <3>1. CASE x \in {H, F}  BY <2>2, <2>3, <2>5, <2>6, <3>1
    <3>2. CASE x = T
      <4>1. H \in R /\ y \in f.succs[H] \ {d}  BY <2>2, <2>3, <2>5, <2>6, <3>2
      <4> QED BY <2>2, <2>5, <4>1 DEF Closed
    <3>3. CASE x \notin {H, F, T}
      <4>1. x \in R /\ y \in f.succs[x] \ {d}  BY <2>2, <2>3, <2>5, <2>6, <3>3
      <4> QED BY <2>2, <2>5, <4>1 DEF Closed
    <3> QED BY <3>1, <3>2, <3>3
  <2>7. Closed(g, {d}, S)  BY <2>6 DEF Closed
  <2>8. Reached(g, {d}) \subseteq S  BY <2>1, <2>4, <2>7, ReachedIs
  <2>9. b \notin S  BY <2>0, <2>3, <2>5
  <2>10. b = H => F \notin S /\ T \notin S  BY <2>0, <2>2, <2>3, <2>5
  <2> QED BY <2>8, <2>9, <2>10 DEF Dominates
<1> QED BY <1>1, <1>2

\* H dominates F and T, and both H and T dominate what H dominated.
LEMMA DominatesBelow ==
  ASSUME NEW f, NEW n, NEW g, NEW m, NEW H, NEW F, NEW T, Split(f, n, g, m, H, F, T)
  PROVE  /\ Dominates(g, H, F) /\ Dominates(g, H, T)
         /\ \A b \in Blocks(f) \ {H} :
              Dominates(f, H, b) => Dominates(g, H, b) /\ Dominates(g, T, b)
<1> DEFINE R == Reached(f, {H})
           S == R \cup {H, F}
<1>1. Graph(f, n) /\ Graph(g, m) /\ g.order[1] = f.order[1]  BY DEF Split
<1>2. /\ Entered(f, {H}) \subseteq R /\ Closed(f, {H}, R) /\ R \subseteq Blocks(f) \ {H}
  BY <1>1, ReachedIs
<1>3. /\ H \in Blocks(f) /\ F \notin Blocks(f) /\ T \notin Blocks(f) /\ F # T
      /\ Blocks(g) = Blocks(f) \cup {F, T}
      /\ g.succs[H] = {F, T} /\ g.succs[F] = {T} /\ g.succs[T] = f.succs[H]
      /\ \A x \in Blocks(f) \ {H} : g.succs[x] = f.succs[x]
      /\ \A x \in Blocks(f) : f.succs[x] \subseteq Blocks(f)
  BY SplitFacts
<1>4. \A b \in Blocks(f) \ {H} : Dominates(f, H, b) => b \notin R  BY DEF Dominates
<1> HIDE DEF R
<1>5. Reached(g, {H}) \subseteq R
  <2>1. Entered(g, {H}) \subseteq R  BY <1>1, <1>2 DEF Entered
  <2>2. ASSUME NEW x \in R  PROVE g.succs[x] \ {H} \subseteq R
    <3>1. g.succs[x] = f.succs[x]  BY <1>2, <1>3
    <3>2. f.succs[x] \ {H} \subseteq R  BY <1>2 DEF Closed
    <3> QED BY <3>1, <3>2
  <2>3. Closed(g, {H}, R)  BY <2>2 DEF Closed
  <2> QED BY <1>1, <2>1, <2>3, ReachedIs
<1>6. Reached(g, {T}) \subseteq S
  <2>1. Entered(g, {T}) \subseteq S  BY <1>1, <1>2 DEF Entered
  <2>2. ASSUME NEW x \in S  PROVE g.succs[x] \ {T} \subseteq S
    <3>1. CASE x \in {H, F}  BY <1>3, <3>1
    <3>2. CASE x \in R
      <4>1. g.succs[x] = f.succs[x]  BY <1>2, <1>3, <3>2
      <4>2. f.succs[x] \ {H} \subseteq R  BY <1>2, <3>2 DEF Closed
      <4> QED BY <4>1, <4>2
    <3> QED BY <3>1, <3>2
  <2> HIDE DEF S
  <2>3. Closed(g, {T}, S)  BY <2>2 DEF Closed
  <2> QED BY <1>1, <2>1, <2>3, ReachedIs
<1>7. F \notin R /\ T \notin R  BY <1>2, <1>3
<1>8. ASSUME NEW b \in Blocks(f) \ {H}, Dominates(f, H, b)
      PROVE  Dominates(g, H, b) /\ Dominates(g, T, b)
  <2>1. b \notin R /\ b \notin S  BY <1>3, <1>4, <1>8
  <2> QED BY <1>5, <1>6, <2>1 DEF Dominates
<1> HIDE DEF S
<1> QED BY <1>5, <1>7, <1>8 DEF Dominates

LEMMA SplitIs ==
  ASSUME NEW f, NEW n, FunctionOK(f, n), NEW H \in Blocks(f), NEW T, T = n + 1,
         NEW F, F = n + 2, NEW m, m = n + 2, NEW i, NEW g, g = EmitSelectPseudo(f, H, i, T, F),
         FunctionOK(g, m)
  PROVE  Split(f, n, g, m, H, F, T)
<1>1. Triangle(f, g, H, F, T)  BY TriangleIs
<1>2. Graph(f, n) /\ Graph(g, m)  BY DEF Graph, FunctionOK, BlockOK, TargetsOK
<1>3. g.order[1] = f.order[1]
  <2>1. Ordered(f.order, n)  BY DEF FunctionOK
  <2>2. n \in Nat /\ Blocks(f) = {f.order[j] : j \in 1 .. n}
    BY <2>1, OrderedFacts DEF OrderIs, Blocks
  <2>3. PICK k \in 1 .. n : H = f.order[k]  BY <2>2
  <2>4. IsInserted(g.order, f.order, k, F, T)
    <3>1. g.order = InsertBlocks(f.order, f.order[k], F, T)  BY <2>3 DEF EmitSelectPseudo
    <3>2. IsInserted(InsertBlocks(f.order, f.order[k], F, T), f.order, k, F, T)
      BY <2>1, PositionIs
    <3> QED BY <3>1, <3>2
  <2>5. \A j \in 1 .. k : g.order[j] = f.order[j]  BY <2>1, <2>4, InsertedAt
  <2>6. 1 \in 1 .. k  BY <2>2, <2>3
  <2> QED BY <2>5, <2>6
<1> QED BY <1>1, <1>2, <1>3 DEF Split

----------------------------------------------------------------------------
(* What has a value where.                                                 *)

\* x is y, in the block whose phis name T for H if `on`.
IsCopy(x, y, on, H, T) ==
  /\ x.kind = y.kind /\ x.def = y.def /\ x.args = y.args /\ x.attr = y.attr
  /\ x.blocks = IF on /\ y.kind = "phi" THEN Renamed(y.blocks, H, T) ELSE y.blocks

\* The instructions of Head are copies of those at `at`, and the branch b.
HeadCopies(d, c, on, i, last, H, T, b, r, at) ==
  /\ Sequence(d) /\ Len(d) = r + 1 /\ r \in Nat /\ at \in [1 .. r -> 1 .. last]
  /\ d[r + 1] = b
  /\ \A k \in 1 .. r : /\ IsCopy(d[k], c[at[k]], on, H, T)
                       /\ i <= at[k] => ~IsSelect(c[at[k]])
                       /\ at[k] \notin SelectDebugValues(c, i, last)
  /\ \A k, l \in 1 .. r : k < l => at[k] < at[l]
  /\ \A p \in 1 .. last :
       p < i \/ ~(IsSelect(c[p]) \/ IsDebug(c[p])) => \E k \in 1 .. r : at[k] = p
  /\ \A p \in 1 .. last : ~IsSelect(c[p]) /\ p \notin SelectDebugValues(c, i, last) =>
       \E k \in 1 .. r : at[k] = p

\* b is the branch to T on the condition of the select m.
BranchesAround(b, m, T) == b = Branch(GetBrCond[m.attr], m.args[1], m.args[2], T)

\* Everything an expansion does to the code of f.
Expanded(f, g, H, F, T, i, last, b, r, at, s, q, to) ==
  /\ g.body[F] = <<>>
  /\ HeadCopies(g.body[H], f.body[H], H \in f.succs[H], i, last, H, T, b, r, at)
  /\ TailShape(g.body[T], f.body[H], i, last, H, F, s, q, to)
  /\ \A x \in Blocks(f) \ {H} :
       /\ Sequence(g.body[x]) /\ Len(g.body[x]) = Len(f.body[x])
       /\ \A p \in 1 .. Len(f.body[x]) :
            IsCopy(g.body[x][p], f.body[x][p], x \in f.succs[H], H, T)

LEMMA CopyOf ==
  ASSUME NEW f, NEW g, NEW m, InstrOK(f, m), Blocks(f) \subseteq Blocks(g),
         NEW on \in BOOLEAN, NEW H, NEW T \in Blocks(g), NEW c, c = Moved(m, on, H, T)
  PROVE  IsCopy(c, m, on, H, T)
BY MovedIs DEF IsCopy

\* The sequence of selects at i of the code of H: the scan stops at none of it.
Scanned(f, H, i, last) ==
  /\ last = LastSelect(f.body[H], i)
  /\ i \in 1 .. Len(f.body[H]) /\ last \in i .. Len(f.body[H])
  /\ IsSelect(f.body[H][i]) /\ IsSelect(f.body[H][last])
  /\ \A x \in i .. last : ~Stops(f.body[H], i, x)

LEMMA ExpandedIs ==
  ASSUME NEW f, NEW n, FunctionOK(f, n), NEW H \in Blocks(f),
         NEW i \in 1 .. Len(f.body[H]), IsSelect(f.body[H][i]),
         NEW T, T = n + 1, NEW F, F = n + 2, NEW m, m = n + 2,
         NEW g, g = EmitSelectPseudo(f, H, i, T, F)
  PROVE  \E last, r, at, s, q, to, b :
           /\ Scanned(f, H, i, last)
           /\ BranchesAround(b, f.body[H][i], T)
           /\ Expanded(f, g, H, F, T, i, last, b, r, at, s, q, to)
<1> DEFINE c == f.body[H]
           last == LastSelect(c, i)
           h == HeadCode(c, i, last, T)
           t == TailCode(c, i, last, H, F)
           b == Branch(GetBrCond[c[i].attr], c[i].args[1], c[i].args[2], T)
           on == H \in f.succs[H]
           d == g.body[H]
<1>1. \A x \in Blocks(f) : InstrsOK(f, x)  BY DEF FunctionOK, BlockOK
<1>2. Sequence(c) /\ \A p \in 1 .. Len(c) : InstrOK(f, c[p])  BY <1>1 DEF InstrsOK
<1>3. Splits(c, i)
  <2>1. c[i].def \notin {c[i].args[3], c[i].args[4]}  BY <1>2 DEF InstrOK
  <2> QED BY <1>2, <2>1 DEF Splits, Sequence
<1>4. Len(c) \in Nat  BY <1>2, SequenceHas
<1>5. /\ last \in i .. Len(c) /\ IsSelect(c[last])
      /\ \A x \in i .. last : ~Stops(c, i, x)
  BY <1>3, <1>4, LastSelectIs DEF Splits
<1>6. Scanned(f, H, i, last)  BY <1>5 DEF Scanned
<1>7. Triangle(f, g, H, F, T)  BY TriangleIs
<1>8. DOMAIN f.body = Blocks(f)  BY DEF FunctionOK
<1>9. /\ g.body[F] = <<>> /\ g.body[T] = t
      /\ Sequence(h) => IsMoved(g.body[H], h, on, H, T)
      /\ \A x \in Blocks(f) \ {H} : Sequence(f.body[x]) =>
           IsMoved(g.body[x], f.body[x], x \in f.succs[H], H, T)
  BY <1>7, <1>8, BodiesAre
<1>10. T \in Blocks(g) /\ Blocks(f) \subseteq Blocks(g)  BY <1>7 DEF Triangle
<1>11. PICK r, at : HeadShape(h, c, i, last, b, r, at)  BY <1>3, <1>5, HeadIs
<1>12. PICK s, q, to : TailShape(t, c, i, last, H, F, s, q, to)  BY <1>3, <1>5, TailIs
<1>21. BranchesAround(b, c[i], T)  BY DEF BranchesAround
<1>20. last \in Nat /\ last <= Len(c)  BY <1>4, <1>5
<1> HIDE DEF h, t, last, b, on
<1>13. /\ Sequence(h) /\ Len(h) = r + 1 /\ r \in Nat /\ at \in [1 .. r -> 1 .. last]
       /\ h[r + 1] = b
       /\ \A k \in 1 .. r : /\ h[k] = c[at[k]] /\ (i <= at[k] => ~IsSelect(c[at[k]]))
                            /\ at[k] \notin SelectDebugValues(c, i, last)
       /\ \A k, l \in 1 .. r : k < l => at[k] < at[l]
       /\ \A p \in 1 .. last :
            p < i \/ ~(IsSelect(c[p]) \/ IsDebug(c[p])) => \E k \in 1 .. r : at[k] = p
       /\ \A p \in 1 .. last : ~IsSelect(c[p]) /\ p \notin SelectDebugValues(c, i, last) =>
            \E k \in 1 .. r : at[k] = p
  BY <1>11 DEF HeadShape
<1>14. Sequence(d) /\ Len(d) = r + 1 /\ \A p \in 1 .. r + 1 : d[p] = Moved(h[p], on, H, T)
  BY <1>9, <1>13 DEF IsMoved
<1>15. ASSUME NEW k \in 1 .. r  PROVE IsCopy(d[k], c[at[k]], on, H, T)
  <2> DEFINE x == c[at[k]]
             y == d[k]
  <2>1. at[k] \in 1 .. last /\ k \in 1 .. r + 1  BY <1>13
  <2>2. at[k] \in 1 .. Len(c)  BY <1>4, <1>20, <2>1
  <2>3. InstrOK(f, x)  BY <1>2, <2>2
  <2>4. y = Moved(x, on, H, T) /\ on \in BOOLEAN  BY <1>13, <1>14, <2>1 DEF on
  <2> HIDE DEF x, y
  <2>5. IsCopy(y, x, on, H, T)  BY <1>10, <2>3, <2>4, CopyOf
  <2> QED BY <2>5 DEF x, y
<1>16. d[r + 1] = b
  <2>1. b.kind = "branch"  BY DEF Branch, Instr, b
  <2>2. r + 1 \in 1 .. r + 1  BY <1>13
  <2>3. d[r + 1] = Moved(b, on, H, T)  BY <1>13, <1>14, <2>2
  <2> QED BY <2>1, <2>3 DEF Moved, ReplacePhiUse
<1>17. HeadCopies(d, c, on, i, last, H, T, b, r, at)
  BY <1>13, <1>14, <1>15, <1>16 DEF HeadCopies
<1>18. ASSUME NEW x \in Blocks(f) \ {H}
       PROVE  /\ Sequence(g.body[x]) /\ Len(g.body[x]) = Len(f.body[x])
              /\ \A p \in 1 .. Len(f.body[x]) :
                   IsCopy(g.body[x][p], f.body[x][p], x \in f.succs[H], H, T)
  <2> DEFINE y == f.body[x]
             z == g.body[x]
             ox == x \in f.succs[H]
  <2>1. Sequence(y) /\ \A p \in 1 .. Len(y) : InstrOK(f, y[p])  BY <1>1 DEF InstrsOK
  <2>2. Sequence(z) /\ Len(z) = Len(y) /\ \A p \in 1 .. Len(y) : z[p] = Moved(y[p], ox, H, T)
    BY <1>9, <2>1 DEF IsMoved
  <2>3. ASSUME NEW p \in 1 .. Len(y)  PROVE IsCopy(z[p], y[p], ox, H, T)
    <3> DEFINE u == y[p]
               v == z[p]
    <3>1. InstrOK(f, u) /\ v = Moved(u, ox, H, T) /\ ox \in BOOLEAN  BY <2>1, <2>2
    <3> HIDE DEF u, v, ox
    <3>2. IsCopy(v, u, ox, H, T)  BY <1>10, <3>1, CopyOf
    <3> QED BY <3>2 DEF u, v
  <2> QED BY <2>2, <2>3
<1>19. Expanded(f, g, H, F, T, i, last, b, r, at, s, q, to)
  BY <1>9, <1>12, <1>17, <1>18 DEF Expanded, on
<1> QED BY <1>6, <1>19, <1>21 DEF last

LEMMA NoRegister == NONE \notin Registers
BY DEF Registers

LEMMA PhiFields ==
  ASSUME NEW s, NEW H, NEW F, NEW m, m = PhiOf(s, H, F)
  PROVE  /\ m.kind = "phi" /\ m.def = s.def
         /\ m.args = <<s.args[3], s.args[4]>> /\ m.blocks = <<H, F>>
BY DEF PhiOf, Phi, Instr

\* What is defined in a block.
LEMMA DefinedHas ==
  ASSUME NEW f, NEW b, Sequence(f.body[b]), NEW r
  PROVE  DefinedIn(f, b, r) <=> \E k \in 1 .. Len(f.body[b]) : f.body[b][k].def = r
<1>1. Range(f.body[b]) = {f.body[b][k] : k \in 1 .. Len(f.body[b])}  BY SequenceHas
<1> QED BY <1>1 DEF DefinedIn

\* The blocks that f defines a register in, but H, define it in g; what H defines is
\* defined in H or T.
LEMMA DefinedStill ==
  ASSUME NEW f, NEW n, FunctionOK(f, n), NEW g, NEW m, NEW H, NEW F, NEW T,
         Split(f, n, g, m, H, F, T), NEW i, NEW last, Scanned(f, H, i, last),
         NEW b, NEW r, NEW at, NEW s, NEW q, NEW to,
         Expanded(f, g, H, F, T, i, last, b, r, at, s, q, to), NEW x \in Registers
  PROVE  /\ \A d \in Blocks(f) \ {H} : DefinedIn(f, d, x) => DefinedIn(g, d, x)
         /\ DefinedIn(f, H, x) => DefinedIn(g, H, x) \/ DefinedIn(g, T, x)
<1>1. \A d \in Blocks(f) : /\ Sequence(f.body[d])
                           /\ \A p \in 1 .. Len(f.body[d]) : InstrOK(f, f.body[d][p])
  BY DEF FunctionOK, BlockOK, InstrsOK
<1>2. ASSUME NEW d \in Blocks(f) \ {H}, DefinedIn(f, d, x)  PROVE DefinedIn(g, d, x)
  <2>1. PICK k \in 1 .. Len(f.body[d]) : f.body[d][k].def = x  BY <1>1, <1>2, DefinedHas
  <2>2. /\ Sequence(g.body[d]) /\ Len(g.body[d]) = Len(f.body[d])
        /\ IsCopy(g.body[d][k], f.body[d][k], d \in f.succs[H], H, T)
    BY DEF Expanded
  <2>3. g.body[d][k].def = x  BY <2>1, <2>2 DEF IsCopy
  <2> QED BY <2>2, <2>3, DefinedHas
<1>3. ASSUME DefinedIn(f, H, x)  PROVE DefinedIn(g, H, x) \/ DefinedIn(g, T, x)
  <2> DEFINE c == f.body[H]
             N == Len(c)
  <2>0. H \in Blocks(f)  BY SplitFacts
  <2>1. PICK k \in 1 .. N : c[k].def = x  BY <1>1, <1>3, <2>0, DefinedHas
  <2>2. N \in Nat /\ i \in 1 .. N /\ last \in i .. N
    <3>1. N \in Nat  BY <1>1, <2>0, SequenceHas
    <3> QED BY <3>1 DEF Scanned
  <2>3. HeadCopies(g.body[H], c, H \in f.succs[H], i, last, H, T, b, r, at)
    BY DEF Expanded
  <2>4. TailShape(g.body[T], c, i, last, H, F, s, q, to)  BY DEF Expanded
  <2>5. Sequence(g.body[H]) /\ Sequence(g.body[T])
    BY <2>3, <2>4 DEF HeadCopies, TailShape
  <2>6. ~IsDebug(c[k])
    <3>1. InstrOK(f, c[k])  BY <1>1, <2>0
    <3> QED BY <2>1, <3>1, NoRegister DEF InstrOK
  <2>7. CASE k <= last /\ (k < i \/ ~IsSelect(c[k]))
    <3>1. k \in 1 .. last  BY <2>2, <2>7
    <3>2. PICK j \in 1 .. r : at[j] = k  BY <2>3, <2>6, <2>7, <3>1 DEF HeadCopies
    <3>3. g.body[H][j].def = x  BY <2>1, <2>3, <3>2 DEF HeadCopies, IsCopy
    <3>4. j \in 1 .. Len(g.body[H])  BY <2>3 DEF HeadCopies
    <3> QED BY <2>5, <3>3, <3>4, DefinedHas
  <2>8. CASE k <= last /\ ~(k < i) /\ IsSelect(c[k])
    <3>1. k \in i .. last  BY <2>2, <2>8
    <3>2. PICK j \in 1 .. s : g.body[T][j] = PhiOf(c[k], H, F)
      BY <2>4, <2>8, <3>1 DEF TailShape
    <3>3. g.body[T][j].def = x  BY <2>1, <3>2, PhiFields
    <3>4. j \in 1 .. Len(g.body[T])  BY <2>4 DEF TailShape
    <3> QED BY <2>5, <3>3, <3>4, DefinedHas
  <2>9. CASE ~(k <= last)
    <3>1. k \in last + 1 .. N  BY <2>2, <2>9
    <3>2. PICK j \in 1 .. q : to[j] = k  BY <2>4, <3>1 DEF TailShape
    <3>3. g.body[T][s + j].def = x  BY <2>1, <2>4, <3>2 DEF TailShape
    <3>4. s + j \in 1 .. Len(g.body[T])  BY <2>4 DEF TailShape
    <3> QED BY <2>5, <3>3, <3>4, DefinedHas
  <2> QED BY <2>7, <2>8, <2>9
<1> QED BY <1>2, <1>3

\* What a block of f gets from others it still gets from others; F and T get what H got.
LEMMA Inherited ==
  ASSUME NEW f, NEW n, FunctionOK(f, n), NEW g, NEW m, NEW H, NEW F, NEW T,
         Split(f, n, g, m, H, F, T), NEW i, NEW last, Scanned(f, H, i, last),
         NEW b, NEW r, NEW at, NEW s, NEW q, NEW to,
         Expanded(f, g, H, F, T, i, last, b, r, at, s, q, to), NEW x \in Registers,
         NEW y \in Blocks(f), NEW d \in Blocks(f) \ {y}, DefinedIn(f, d, x), Dominates(f, d, y)
  PROVE  \A z \in IF y = H THEN {H, F, T} ELSE {y} :
           \E e \in Blocks(g) \ {z} : DefinedIn(g, e, x) /\ Dominates(g, e, z)
<1>1. /\ H \in Blocks(f) /\ F \notin Blocks(f) /\ T \notin Blocks(f) /\ F # T
      /\ Blocks(g) = Blocks(f) \cup {F, T}
  BY SplitFacts
<1>2. CASE d # H
  <2>1. d \in Blocks(f) \ {H}  BY <1>2
  <2>2. DefinedIn(g, d, x)  BY <2>1, DefinedStill
  <2>3. Dominates(g, d, y) /\ (y = H => Dominates(g, d, F) /\ Dominates(g, d, T))
    BY <2>1, DominatesStill
  <2> QED BY <1>1, <2>1, <2>2, <2>3
<1>3. CASE d = H
  <2>1. y \in Blocks(f) \ {H}  BY <1>3
  <2>2. DefinedIn(g, H, x) \/ DefinedIn(g, T, x)  BY <1>3, DefinedStill
  <2>3. Dominates(g, H, y) /\ Dominates(g, T, y)  BY <1>3, <2>1, DominatesBelow
  <2> QED BY <1>1, <2>1, <2>2, <2>3
<1> QED BY <1>2, <1>3

\* What an instruction of a block other than H can read it can read.
LEMMA OtherAvailable ==
  ASSUME NEW f, NEW n, FunctionOK(f, n), NEW g, NEW m, NEW H, NEW F, NEW T,
         Split(f, n, g, m, H, F, T), NEW i, NEW last, Scanned(f, H, i, last),
         NEW b, NEW r, NEW at, NEW s, NEW q, NEW to,
         Expanded(f, g, H, F, T, i, last, b, r, at, s, q, to), NEW x \in Registers,
         NEW y \in Blocks(f) \ {H}, NEW p \in 1 .. Len(f.body[y]) + 1, Available(f, y, p, x)
  PROVE  Available(g, y, p, x)
<1>1. CASE DefinedBefore(f, y, p, x)
  <2>1. PICK k \in 1 .. p - 1 : f.body[y][k].def = x  BY <1>1 DEF DefinedBefore
  <2>2. Len(f.body[y]) \in Nat
    <3>1. Sequence(f.body[y])  BY DEF FunctionOK, BlockOK, InstrsOK
    <3> QED BY <3>1, SequenceHas
  <2>3. k \in 1 .. Len(f.body[y])  BY <2>2
  <2>4. IsCopy(g.body[y][k], f.body[y][k], y \in f.succs[H], H, T)  BY <2>3 DEF Expanded
  <2>5. g.body[y][k].def = x  BY <2>1, <2>4 DEF IsCopy
  <2> QED BY <2>5 DEF Available, DefinedBefore
<1>2. CASE \E d \in Blocks(f) \ {y} : DefinedIn(f, d, x) /\ Dominates(f, d, y)
  <2>1. \E e \in Blocks(g) \ {y} : DefinedIn(g, e, x) /\ Dominates(g, e, y)
    BY <1>2, Inherited
  <2> QED BY <2>1 DEF Available
<1> QED BY <1>1, <1>2 DEF Available

\* Up to the last select, but for what the sequence defines: Head's code behind the
\* instructions that were in front can read it, and so can F and T.
LEMMA HeadAvailable ==
  ASSUME NEW f, NEW n, FunctionOK(f, n), NEW g, NEW m, NEW H, NEW F, NEW T,
         Split(f, n, g, m, H, F, T), NEW i, NEW last, Scanned(f, H, i, last),
         NEW b, NEW r, NEW at, NEW s, NEW q, NEW to,
         Expanded(f, g, H, F, T, i, last, b, r, at, s, q, to), NEW x \in Registers,
         NEW p \in 1 .. last, Available(f, H, p, x),
         p <= i \/ x \notin SelectDests(f.body[H], i, p),
         NEW P \in Nat, \A k \in 1 .. r : at[k] < p => k < P
  PROVE  Available(g, H, P, x) /\ \A l : Available(g, F, l, x) /\ Available(g, T, l, x)
<1>1. /\ H \in Blocks(f) /\ F \notin Blocks(f) /\ T \notin Blocks(f) /\ F # T
      /\ Blocks(g) = Blocks(f) \cup {F, T}
  BY SplitFacts
<1>2. CASE DefinedBefore(f, H, p, x)
  <2> DEFINE c == f.body[H]
             N == Len(c)
  <2>1. PICK k \in 1 .. p - 1 : c[k].def = x  BY <1>2 DEF DefinedBefore
  <2>2. N \in Nat /\ i \in 1 .. N /\ last \in i .. N
    <3>1. Sequence(c)  BY <1>1 DEF FunctionOK, BlockOK, InstrsOK
    <3>2. N \in Nat  BY <3>1, SequenceHas
    <3> QED BY <3>2 DEF Scanned
  <2>3. HeadCopies(g.body[H], c, H \in f.succs[H], i, last, H, T, b, r, at)
    BY DEF Expanded
  <2>4. k \in 1 .. N /\ k \in 1 .. last /\ k < p /\ k \in Nat /\ p \in Nat /\ i \in Nat
    BY <2>2
  <2>5. ~IsDebug(c[k])
    <3>1. InstrOK(f, c[k])  BY <1>1, <2>4 DEF FunctionOK, BlockOK, InstrsOK
    <3> QED BY <2>1, <3>1, NoRegister DEF InstrOK
  <2>6. k < i \/ ~IsSelect(c[k])
    <3> SUFFICES ASSUME ~(k < i), IsSelect(c[k])  PROVE FALSE
      OBVIOUS
    <3>1. k \in i .. p - 1 /\ ~(p <= i)  BY <2>4
    <3>2. x \in SelectDests(c, i, p)  BY <2>1, <3>1 DEF SelectDests
    <3> QED BY <3>1, <3>2
  <2>7. PICK j \in 1 .. r : at[j] = k  BY <2>3, <2>4, <2>5, <2>6 DEF HeadCopies
  <2>8. g.body[H][j].def = x  BY <2>1, <2>3, <2>7 DEF HeadCopies, IsCopy
  <2>9. j < P  BY <2>4, <2>7
  <2>10. j \in 1 .. P - 1
    <3>1. j \in Nat /\ 1 <= j
      <4>1. r \in Nat  BY <2>3 DEF HeadCopies
      <4> QED BY <4>1
    <3> QED BY <2>9, <3>1
  <2>11. Available(g, H, P, x)  BY <2>8, <2>10 DEF Available, DefinedBefore
  <2>12. DefinedIn(g, H, x)
    <3>1. Sequence(g.body[H]) /\ j \in 1 .. Len(g.body[H])  BY <2>3 DEF HeadCopies
    <3> QED BY <2>8, <3>1, DefinedHas
  <2>13. Dominates(g, H, F) /\ Dominates(g, H, T)  BY DominatesBelow
  <2>14. H \in Blocks(g) \ {F} /\ H \in Blocks(g) \ {T}  BY <1>1
  <2> QED BY <2>11, <2>12, <2>13, <2>14 DEF Available
<1>3. CASE \E d \in Blocks(f) \ {H} : DefinedIn(f, d, x) /\ Dominates(f, d, H)
  <2>1. PICK d \in Blocks(f) \ {H} : DefinedIn(f, d, x) /\ Dominates(f, d, H)  BY <1>3
  <2>2. \A z \in IF H = H THEN {H, F, T} ELSE {H} :
           \E e \in Blocks(g) \ {z} : DefinedIn(g, e, x) /\ Dominates(g, e, z)
    BY <1>1, <2>1, Inherited
  <2> QED BY <2>2 DEF Available
<1> QED BY <1>2, <1>3 DEF Available

\* Behind the last select: the code of Tail behind the phis and behind the instructions
\* that were in front can read it.
LEMMA TailAvailable ==
  ASSUME NEW f, NEW n, FunctionOK(f, n), NEW g, NEW m, NEW H, NEW F, NEW T,
         Split(f, n, g, m, H, F, T), NEW i, NEW last, Scanned(f, H, i, last),
         NEW b, NEW r, NEW at, NEW s, NEW q, NEW to,
         Expanded(f, g, H, F, T, i, last, b, r, at, s, q, to), NEW x \in Registers,
         NEW p \in last + 1 .. Len(f.body[H]) + 1, Available(f, H, p, x),
         NEW P \in Nat, s < P, \A k \in 1 .. q : to[k] < p => s + k < P
  PROVE  Available(g, T, P, x)
<1>1. /\ H \in Blocks(f) /\ F \notin Blocks(f) /\ T \notin Blocks(f) /\ F # T
      /\ Blocks(g) = Blocks(f) \cup {F, T}
  BY SplitFacts
<1>2. CASE DefinedBefore(f, H, p, x)
  <2> DEFINE c == f.body[H]
             N == Len(c)
             e == g.body[T]
  <2>1. PICK k \in 1 .. p - 1 : c[k].def = x  BY <1>2 DEF DefinedBefore
  <2>2. N \in Nat /\ i \in 1 .. N /\ last \in i .. N
    <3>1. Sequence(c)  BY <1>1 DEF FunctionOK, BlockOK, InstrsOK
    <3>2. N \in Nat  BY <3>1, SequenceHas
    <3> QED BY <3>2 DEF Scanned
  <2>3. HeadCopies(g.body[H], c, H \in f.succs[H], i, last, H, T, b, r, at)
    BY DEF Expanded
  <2>4. TailShape(e, c, i, last, H, F, s, q, to)  BY DEF Expanded
  <2>5. s \in Nat /\ q \in Nat  BY <2>4 DEF TailShape
  <2>6. k \in 1 .. N /\ k < p /\ k \in Nat /\ p \in Nat  BY <2>2
  <2>7. ~IsDebug(c[k])
    <3>1. InstrOK(f, c[k])  BY <1>1, <2>6 DEF FunctionOK, BlockOK, InstrsOK
    <3> QED BY <2>1, <3>1, NoRegister DEF InstrOK
  <2>8. CASE k <= last /\ (k < i \/ ~IsSelect(c[k]))
    <3>1. k \in 1 .. last  BY <2>2, <2>6, <2>8
    <3>2. PICK j \in 1 .. r : at[j] = k  BY <2>3, <2>7, <2>8, <3>1 DEF HeadCopies
    <3>3. g.body[H][j].def = x  BY <2>1, <2>3, <3>2 DEF HeadCopies, IsCopy
    <3>4. Sequence(g.body[H]) /\ j \in 1 .. Len(g.body[H])  BY <2>3 DEF HeadCopies
    <3>5. DefinedIn(g, H, x)  BY <3>3, <3>4, DefinedHas
    <3>6. Dominates(g, H, T) /\ H \in Blocks(g) \ {T}  BY <1>1, DominatesBelow
    <3> QED BY <3>5, <3>6 DEF Available
  <2>9. CASE k <= last /\ ~(k < i) /\ IsSelect(c[k])
    <3>1. k \in i .. last  BY <2>2, <2>6, <2>9
    <3>2. PICK j \in 1 .. s : e[j] = PhiOf(c[k], H, F)
      BY <2>4, <2>9, <3>1 DEF TailShape
    <3>3. e[j].def = x  BY <2>1, <3>2, PhiFields
    <3>4. j \in 1 .. P - 1  BY <2>5
    <3> QED BY <3>3, <3>4 DEF Available, DefinedBefore
  <2>10. CASE ~(k <= last)
    <3>1. k \in last + 1 .. N  BY <2>2, <2>6, <2>10
    <3>2. PICK j \in 1 .. q : to[j] = k  BY <2>4, <3>1 DEF TailShape
    <3>3. e[s + j].def = x  BY <2>1, <2>4, <3>2 DEF TailShape
    <3>4. s + j < P  BY <2>6, <3>2
    <3>5. s + j \in 1 .. P - 1  BY <2>5, <3>4
    <3> QED BY <3>3, <3>5 DEF Available, DefinedBefore
  <2> QED BY <2>8, <2>9, <2>10
<1>3. CASE \E d \in Blocks(f) \ {H} : DefinedIn(f, d, x) /\ Dominates(f, d, H)
  <2>1. PICK d \in Blocks(f) \ {H} : DefinedIn(f, d, x) /\ Dominates(f, d, H)  BY <1>3
  <2>2. \A z \in IF H = H THEN {H, F, T} ELSE {H} :
           \E e \in Blocks(g) \ {z} : DefinedIn(g, e, x) /\ Dominates(g, e, z)
    BY <1>1, <2>1, Inherited
  <2> QED BY <2>2 DEF Available
<1> QED BY <1>2, <1>3 DEF Available

UseOK(g, m, b, p) ==
  IF m.kind = "phi"
  THEN \A k \in DOMAIN m.args :
         Available(g, m.blocks[k], Len(g.body[m.blocks[k]]) + 1, m.args[k])
  ELSE \A x \in Uses(m) : Available(g, b, p, x)

LEMMA UsesAre ==
  ASSUME NEW g, \A b \in Blocks(g) : Sequence(g.body[b])
  PROVE  UsesDominated(g) <=> \A b \in Blocks(g) : \A p \in 1 .. Len(g.body[b]) :
                                UseOK(g, g.body[b][p], b, p)
<1>1. \A b \in Blocks(g) : DOMAIN g.body[b] = 1 .. Len(g.body[b])  BY DEF Sequence
<1> QED BY <1>1 DEF UsesDominated, UseOK

\* What an instruction reads.
LEMMA Reads ==
  ASSUME NEW f, NEW m, InstrOK(f, m)
  PROVE  /\ Range(m.args) \subseteq Registers /\ DOMAIN m.args = 1 .. Len(m.args)
         /\ \A k \in DOMAIN m.args : m.args[k] \in Registers /\ m.args[k] \in Range(m.args)
         /\ IsDebug(m) => Uses(m) = {}
         /\ ~IsDebug(m) => Uses(m) = Range(m.args)
<1>1. m.args \in Seq(Registers)  BY DEF InstrOK
<1>2. DOMAIN m.args = 1 .. Len(m.args) /\ \A k \in DOMAIN m.args : m.args[k] \in Registers
  BY <1>1
<1> QED BY <1>2 DEF Range, Uses, IsDebug

\* What has a value at the end of a block has one at the end of the block that took
\* its place as a predecessor.
LEMMA IncomingAvailable ==
  ASSUME NEW f, NEW n, FunctionOK(f, n), NEW g, NEW m, NEW H, NEW F, NEW T,
         Split(f, n, g, m, H, F, T), NEW i, NEW last, Scanned(f, H, i, last),
         NEW b, NEW r, NEW at, NEW s, NEW q, NEW to,
         Expanded(f, g, H, F, T, i, last, b, r, at, s, q, to), NEW x \in Registers,
         NEW y \in Blocks(f), Available(f, y, Len(f.body[y]) + 1, x),
         NEW z, z = IF y = H THEN T ELSE y
  PROVE  Available(g, z, Len(g.body[z]) + 1, x)
<1>1. Sequence(f.body[y]) /\ Len(f.body[y]) \in Nat
  <2>1. Sequence(f.body[y])  BY DEF FunctionOK, BlockOK, InstrsOK
  <2> QED BY <2>1, SequenceHas
<1>2. CASE y # H
  <2>1. y \in Blocks(f) \ {H} /\ z = y  BY <1>2
  <2>2. Len(g.body[y]) = Len(f.body[y])  BY <2>1 DEF Expanded
  <2> DEFINE p == Len(f.body[y]) + 1
  <2>3. p \in 1 .. Len(f.body[y]) + 1 /\ Available(f, y, p, x)  BY <1>1
  <2> HIDE DEF p
  <2>4. Available(g, y, p, x)  BY <2>1, <2>3, OtherAvailable
  <2> QED BY <2>1, <2>2, <2>4 DEF p
<1>3. CASE y = H
  <2> DEFINE N == Len(f.body[H])
             p == N + 1
             P == s + q + 1
  <2>1. TailShape(g.body[T], f.body[H], i, last, H, F, s, q, to)  BY DEF Expanded
  <2>2. /\ s \in Nat /\ q \in Nat /\ Len(g.body[T]) = s + q
        /\ to \in [1 .. q -> i + 1 .. N]
    BY <2>1 DEF TailShape
  <2>3. N \in Nat /\ last \in 1 .. N
    <3>1. N \in Nat  BY <1>1, <1>3
    <3> QED BY <3>1 DEF Scanned
  <2>4. p \in last + 1 .. N + 1 /\ Available(f, H, p, x)  BY <1>3, <2>3
  <2>5. P \in Nat /\ s < P /\ \A k \in 1 .. q : to[k] < p => s + k < P  BY <2>2
  <2>6. Len(g.body[T]) + 1 = P  BY <2>2
  <2> HIDE DEF p, P
  <2>7. Available(g, T, P, x)  BY <2>4, <2>5, TailAvailable DEF N
  <2> QED BY <1>3, <2>6, <2>7
<1> QED BY <1>2, <1>3

LEMMA PhiUses ==
  ASSUME NEW f, NEW n, FunctionOK(f, n), NEW g, NEW m, NEW H, NEW F, NEW T,
         Split(f, n, g, m, H, F, T), NEW i, NEW last, Scanned(f, H, i, last),
         NEW b, NEW r, NEW at, NEW s, NEW q, NEW to,
         Expanded(f, g, H, F, T, i, last, b, r, at, s, q, to),
         NEW y \in Blocks(f), NEW p \in 1 .. Len(f.body[y]), f.body[y][p].kind = "phi",
         UseOK(f, f.body[y][p], y, p),
         NEW c, IsCopy(c, f.body[y][p], y \in f.succs[H], H, T), NEW z, NEW P
  PROVE  UseOK(g, c, z, P)
<1> DEFINE e == f.body[y][p]
           on == y \in f.succs[H]
<1>1. InstrOK(f, e)  BY DEF FunctionOK, BlockOK, InstrsOK
<1>2. Range(e.blocks) = Preds(f, y)  BY DEF FunctionOK, BlockOK, PhisOK
<1>3. UseOK(f, e, y, p) /\ e.kind = "phi"  OBVIOUS
<1>4. /\ c.kind = "phi" /\ c.args = e.args
      /\ c.blocks = IF on THEN Renamed(e.blocks, H, T) ELSE e.blocks
  BY DEF IsCopy
<1>9. H \in Preds(f, y) => on  BY DEF Preds
<1> HIDE DEF e, on
<1>5. \A k \in DOMAIN e.args :
        Available(f, e.blocks[k], Len(f.body[e.blocks[k]]) + 1, e.args[k])
  BY <1>3 DEF UseOK
<1>6. /\ DOMAIN e.args = 1 .. Len(e.args) /\ DOMAIN e.blocks = DOMAIN e.args
      /\ \A k \in DOMAIN e.args : e.blocks[k] \in Blocks(f)
  <2>1. e.blocks \in Seq(Blocks(f)) /\ Len(e.args) = Len(e.blocks)
    BY <1>1, <1>3 DEF InstrOK
  <2>2. DOMAIN e.args = 1 .. Len(e.args)  BY <1>1, Reads
  <2> QED BY <2>1, <2>2
<1>7. \A k \in DOMAIN e.args : e.args[k] \in Registers  BY <1>1, Reads
<1>8. ASSUME NEW k \in DOMAIN e.args
      PROVE  c.blocks[k] = IF e.blocks[k] = H THEN T ELSE e.blocks[k]
  <2>1. CASE on
    <3>1. c.blocks = Renamed(e.blocks, H, T)  BY <1>4, <2>1
    <3> QED BY <1>6, <3>1 DEF Renamed
  <2>2. CASE ~on
    <3>1. c.blocks = e.blocks  BY <1>4, <2>2
    <3>2. e.blocks[k] \in Range(e.blocks)  BY <1>6 DEF Range
    <3> QED BY <1>2, <1>9, <2>2, <3>1, <3>2
  <2> QED BY <2>1, <2>2
<1>10. ASSUME NEW k \in DOMAIN e.args
       PROVE  Available(g, c.blocks[k], Len(g.body[c.blocks[k]]) + 1, e.args[k])
  <2> DEFINE v == e.blocks[k]
             w == c.blocks[k]
             x == e.args[k]
  <2>1. /\ x \in Registers /\ v \in Blocks(f) /\ Available(f, v, Len(f.body[v]) + 1, x)
        /\ w = IF v = H THEN T ELSE v
    BY <1>5, <1>6, <1>7, <1>8
  <2> HIDE DEF v, w, x
  <2>2. Available(g, w, Len(g.body[w]) + 1, x)  BY <2>1, IncomingAvailable
  <2> QED BY <2>2 DEF w, x
<1> QED BY <1>4, <1>10 DEF UseOK

LEMMA OtherUses ==
  ASSUME NEW f, NEW n, FunctionOK(f, n), NEW g, NEW m, NEW H, NEW F, NEW T,
         Split(f, n, g, m, H, F, T), NEW i, NEW last, Scanned(f, H, i, last),
         NEW b, NEW r, NEW at, NEW s, NEW q, NEW to,
         Expanded(f, g, H, F, T, i, last, b, r, at, s, q, to),
         NEW y \in Blocks(f) \ {H}, NEW p \in 1 .. Len(f.body[y]),
         UseOK(f, f.body[y][p], y, p)
  PROVE  UseOK(g, g.body[y][p], y, p)
<1> DEFINE e == f.body[y][p]
           c == g.body[y][p]
<1>1. IsCopy(c, e, y \in f.succs[H], H, T)  BY DEF Expanded
<1>2. CASE e.kind = "phi"
  <2> HIDE DEF c
  <2>1. UseOK(g, c, y, p)  BY <1>1, <1>2, PhiUses
  <2> QED BY <2>1 DEF c
<1>3. CASE e.kind # "phi"
  <2>1. c.kind = e.kind /\ c.args = e.args  BY <1>1 DEF IsCopy
  <2>2. InstrOK(f, e)  BY DEF FunctionOK, BlockOK, InstrsOK
  <2>3. Uses(c) = Uses(e) /\ Uses(e) \subseteq Registers  BY <2>1, <2>2, Reads DEF Uses, IsDebug
  <2>4. \A x \in Uses(e) : Available(f, y, p, x)  BY <1>3 DEF UseOK
  <2>5. p \in 1 .. Len(f.body[y]) + 1
    <3>1. Sequence(f.body[y])  BY DEF FunctionOK, BlockOK, InstrsOK
    <3>2. Len(f.body[y]) \in Nat  BY <3>1, SequenceHas
    <3> QED BY <3>2
  <2> HIDE DEF c, e
  <2>6. \A x \in Uses(e) : Available(g, y, p, x)  BY <2>3, <2>4, <2>5, OtherAvailable
  <2>7. UseOK(g, c, y, p)  BY <1>3, <2>1, <2>3, <2>6 DEF UseOK
  <2> QED BY <2>7 DEF c
<1> QED BY <1>2, <1>3

\* A select of the sequence, and what stays between two of them, reads no result of
\* those before it.
LEMMA ReadsNoResult ==
  ASSUME NEW f, NEW H, NEW i, NEW last, Scanned(f, H, i, last), NEW p \in i .. last,
         InstrOK(f, f.body[H][p])
  PROVE  /\ IsSelect(f.body[H][p]) =>
              /\ f.body[H][p].args[3] \notin SelectDests(f.body[H], i, p)
              /\ f.body[H][p].args[4] \notin SelectDests(f.body[H], i, p)
         /\ ~IsSelect(f.body[H][p]) /\ ~IsDebug(f.body[H][p]) =>
              \A x \in Range(f.body[H][p].args) : x \notin SelectDests(f.body[H], i, p)
<1>1. ~Stops(f.body[H], i, p)  BY DEF Scanned
<1> DEFINE D == SelectDests(f.body[H], i, p)
           e == f.body[H][p]
<1>2. /\ IsSelect(e) => {e.args[3], e.args[4]} \cap D = {}
      /\ ~IsSelect(e) /\ ~IsDebug(e) => Range(e.args) \cap D = {}
  BY <1>1 DEF Stops
<1> HIDE DEF D, e
<1>3. /\ IsSelect(e) => e.args[3] \notin D /\ e.args[4] \notin D
      /\ ~IsSelect(e) /\ ~IsDebug(e) => \A x \in Range(e.args) : x \notin D
  BY <1>2
<1> QED BY <1>3 DEF D, e

LEMMA HeadUses ==
  ASSUME NEW f, NEW n, FunctionOK(f, n), NEW g, NEW m, NEW H, NEW F, NEW T,
         Split(f, n, g, m, H, F, T), NEW i, NEW last, Scanned(f, H, i, last),
         NEW b, NEW r, NEW at, NEW s, NEW q, NEW to,
         BranchesAround(b, f.body[H][i], T),
         Expanded(f, g, H, F, T, i, last, b, r, at, s, q, to),
         \A p \in 1 .. Len(f.body[H]) : UseOK(f, f.body[H][p], H, p),
         NEW P \in 1 .. Len(g.body[H])
  PROVE  UseOK(g, g.body[H][P], H, P)
<1> DEFINE c == f.body[H]
           N == Len(c)
           d == g.body[H]
<1>1. H \in Blocks(f)  BY SplitFacts
<1>2. Sequence(c) /\ \A p \in 1 .. N : InstrOK(f, c[p])
  BY <1>1 DEF FunctionOK, BlockOK, InstrsOK
<1>3. N \in Nat /\ i \in 1 .. N /\ last \in i .. N /\ IsSelect(c[i])
  <2>1. N \in Nat  BY <1>2, SequenceHas
  <2> QED BY <2>1 DEF Scanned
<1>4. HeadCopies(d, c, H \in f.succs[H], i, last, H, T, b, r, at)  BY DEF Expanded
<1>5. /\ Len(d) = r + 1 /\ r \in Nat /\ at \in [1 .. r -> 1 .. last] /\ d[r + 1] = b
      /\ \A k \in 1 .. r : /\ IsCopy(d[k], c[at[k]], H \in f.succs[H], H, T)
                           /\ i <= at[k] => ~IsSelect(c[at[k]])
                       /\ at[k] \notin SelectDebugValues(c, i, last)
      /\ \A k, l \in 1 .. r : k < l => at[k] < at[l]
  BY <1>4 DEF HeadCopies
<1>6. CASE P \in 1 .. r
  <2> DEFINE p == at[P]
             e == c[p]
             v == d[P]
  <2>1. p \in 1 .. last /\ p \in 1 .. N /\ p \in Nat /\ i \in Nat  BY <1>3, <1>5, <1>6
  <2>2. InstrOK(f, e) /\ UseOK(f, e, H, p)  BY <1>2, <2>1
  <2>3. IsCopy(v, e, H \in f.succs[H], H, T) /\ (i <= p => ~IsSelect(e))
    BY <1>5, <1>6
  <2>4. CASE e.kind = "phi"
    <3> HIDE DEF v, p
    <3>1. UseOK(g, v, H, P)  BY <1>1, <2>1, <2>2, <2>3, <2>4, PhiUses
    <3> QED BY <3>1 DEF v
  <2>5. CASE e.kind # "phi"
    <3>1. v.kind = e.kind /\ v.args = e.args  BY <2>3 DEF IsCopy
    <3>2. Uses(v) = Uses(e) /\ Uses(e) \subseteq Registers
      BY <2>2, <3>1, Reads DEF Uses, IsDebug
    <3>3. \A x \in Uses(e) : Available(f, H, p, x)  BY <2>2, <2>5 DEF UseOK
    <3>4. ASSUME NEW x \in Uses(e)  PROVE p <= i \/ x \notin SelectDests(c, i, p)
      <4>1. ~IsDebug(e) /\ Uses(e) = Range(e.args)  BY <2>2, Reads
      <4>2. p <= i \/ (p \in i .. last /\ i <= p)  BY <2>1
      <4>3. p \in i .. last /\ i <= p => x \notin SelectDests(c, i, p)
        BY <2>2, <2>3, <4>1, ReadsNoResult
      <4> QED BY <4>2, <4>3
    <3>5. \A k \in 1 .. r : at[k] < p => k < P
      <4> TAKE k \in 1 .. r
      <4>1. P < k => p < at[k]  BY <1>5, <1>6
      <4>2. at[k] \in Nat /\ k \in Nat /\ P \in Nat  BY <1>5, <1>6
      <4>3. k = P => at[k] = p  OBVIOUS
      <4> HIDE DEF p
      <4> QED BY <2>1, <4>1, <4>2, <4>3
    <3>6. P \in Nat  BY <1>6
    <3> HIDE DEF v, e, p
    <3>7. \A x \in Uses(e) : Available(g, H, P, x)
      BY <2>1, <3>2, <3>3, <3>4, <3>5, <3>6, HeadAvailable
    <3>8. UseOK(g, v, H, P)  BY <2>5, <3>1, <3>2, <3>7 DEF UseOK
    <3> QED BY <3>8 DEF v
  <2> QED BY <2>4, <2>5
<1>7. CASE P = r + 1
  <2> DEFINE e == c[i]
             X == e.args[1]
             Y == e.args[2]
  <2>1. InstrOK(f, e) /\ UseOK(f, e, H, i) /\ IsSelect(e)  BY <1>2, <1>3
  <2>2. b.kind = "branch" /\ b.args = <<X, Y>>  BY DEF BranchesAround, Branch, Instr
  <2>8. i \in 1 .. last /\ i <= i  BY <1>3
  <2>9. P \in Nat /\ \A k \in 1 .. r : k < P  BY <1>5, <1>7
  <2> HIDE DEF e
  <2>3. e.kind # "phi" /\ ~IsDebug(e)  BY <2>1 DEF IsSelect, IsDebug
  <2>4. \A k \in 1 .. 4 : e.args[k] \in Registers /\ e.args[k] \in Range(e.args)
    BY <2>1, SelectReads
  <2>5. Uses(e) = Range(e.args)  BY <2>1, <2>3, Reads
  <2>6. {X, Y} \subseteq Uses(e) /\ {X, Y} \subseteq Registers
    <3>1. 1 \in 1 .. 4 /\ 2 \in 1 .. 4  OBVIOUS
    <3> QED BY <2>4, <2>5, <3>1
  <2>7. \A x \in {X, Y} : Available(f, H, i, x)  BY <2>1, <2>3, <2>6 DEF UseOK
  <2> HIDE DEF X, Y
  <2>10. \A x \in {X, Y} : Available(g, H, P, x)
    BY <2>6, <2>7, <2>8, <2>9, HeadAvailable
  <2>11. Uses(b) = {X, Y}
    <3>1. Range(<<X, Y>>) = {X, Y}
      <4>1. DOMAIN <<X, Y>> = {1, 2}  OBVIOUS
      <4> QED BY <4>1 DEF Range
    <3> QED BY <2>2, <3>1 DEF Uses
  <2>12. UseOK(g, b, H, P)  BY <2>2, <2>10, <2>11 DEF UseOK
  <2> QED BY <1>5, <1>7, <2>12
<1>8. P \in 1 .. r \/ P = r + 1  BY <1>5
<1> QED BY <1>6, <1>7, <1>8

LEMMA TailUses ==
  ASSUME NEW f, NEW n, FunctionOK(f, n), NEW g, NEW m, NEW H, NEW F, NEW T,
         Split(f, n, g, m, H, F, T), NEW i, NEW last, Scanned(f, H, i, last),
         NEW b, NEW r, NEW at, NEW s, NEW q, NEW to,
         Expanded(f, g, H, F, T, i, last, b, r, at, s, q, to),
         \A p \in 1 .. Len(f.body[H]) : UseOK(f, f.body[H][p], H, p),
         NEW P \in 1 .. Len(g.body[T])
  PROVE  UseOK(g, g.body[T][P], T, P)
<1> DEFINE c == f.body[H]
           N == Len(c)
           d == g.body[T]
<1>1. H \in Blocks(f)  BY SplitFacts
<1>2. Sequence(c) /\ \A p \in 1 .. N : InstrOK(f, c[p])
  BY <1>1 DEF FunctionOK, BlockOK, InstrsOK
<1>3. N \in Nat /\ i \in 1 .. N /\ last \in i .. N /\ IsSelect(c[i])
  <2>1. N \in Nat  BY <1>2, SequenceHas
  <2> QED BY <2>1 DEF Scanned
<1>4. TailShape(d, c, i, last, H, F, s, q, to)  BY DEF Expanded
<1>5. /\ Len(d) = s + q /\ s \in Nat /\ q \in Nat
      /\ to \in [1 .. q -> i + 1 .. N]
      /\ \A k \in 1 .. s : \E p \in i .. last : IsSelect(c[p]) /\ d[k] = PhiOf(c[p], H, F)
      /\ \A k \in 1 .. q : d[s + k] = c[to[k]]
      /\ \A k \in 1 .. q : to[k] <= last => IsDebug(c[to[k]])
  BY <1>4 DEF TailShape
<1>6. CASE P \in 1 .. s
  <2>1. PICK p \in i .. last : IsSelect(c[p]) /\ d[P] = PhiOf(c[p], H, F)  BY <1>5, <1>6
  <2> DEFINE e == c[p]
             v == d[P]
             X == e.args[3]
             Y == e.args[4]
             D == SelectDests(c, i, p)
             Q == Len(g.body[H]) + 1
             W == Len(g.body[F]) + 1
  <2>2. p \in 1 .. N /\ p \in 1 .. last  BY <1>3
  <2>3. InstrOK(f, e) /\ UseOK(f, e, H, p) /\ IsSelect(e)  BY <1>2, <2>1, <2>2
  <2>4. v.kind = "phi" /\ v.args = <<X, Y>> /\ v.blocks = <<H, F>>  BY <2>1, PhiFields
  <2>5. X \notin D /\ Y \notin D  BY <2>1, <2>3, ReadsNoResult
  <2>6. Q \in Nat /\ \A k \in 1 .. r : at[k] < p => k < Q
    <3>1. Len(g.body[H]) = r + 1 /\ r \in Nat  BY DEF Expanded, HeadCopies
    <3> QED BY <3>1
  <2> HIDE DEF e, v, D, Q, W
  <2>7. e.kind # "phi" /\ ~IsDebug(e)  BY <2>3 DEF IsSelect, IsDebug
  <2>8. \A k \in 1 .. 4 : e.args[k] \in Registers /\ e.args[k] \in Range(e.args)
    BY <2>3, SelectReads
  <2>9. Uses(e) = Range(e.args)  BY <2>3, <2>7, Reads
  <2>10. {X, Y} \subseteq Uses(e) /\ {X, Y} \subseteq Registers
    <3>1. 3 \in 1 .. 4 /\ 4 \in 1 .. 4  OBVIOUS
    <3> QED BY <2>8, <2>9, <3>1
  <2>11. \A x \in {X, Y} : Available(f, H, p, x)  BY <2>3, <2>7, <2>10 DEF UseOK
  <2> HIDE DEF X, Y
  <2>12. ASSUME NEW x \in {X, Y}  PROVE Available(g, H, Q, x) /\ Available(g, F, W, x)
    <3>1. /\ x \in Registers /\ Available(f, H, p, x)
          /\ (p <= i \/ x \notin SelectDests(f.body[H], i, p))
      BY <2>5, <2>10, <2>11 DEF D
    <3>2. p \in 1 .. last  BY <2>2
    <3>3. Available(g, H, Q, x) /\ \A l : Available(g, F, l, x) /\ Available(g, T, l, x)
      <4> HIDE DEF N, d, c
      <4> QED BY <2>6, <3>1, <3>2, HeadAvailable
    <3> QED BY <3>3
  <2>13. DOMAIN v.args = {1, 2} /\ v.args[1] = X /\ v.args[2] = Y
         /\ v.blocks[1] = H /\ v.blocks[2] = F
    BY <2>4
  <2>14. ASSUME NEW k \in {1, 2}
         PROVE  Available(g, v.blocks[k], Len(g.body[v.blocks[k]]) + 1, v.args[k])
    <3>1. CASE k = 1
      <4>1. Available(g, H, Len(g.body[H]) + 1, X)  BY <2>12 DEF Q
      <4> QED BY <2>13, <3>1, <4>1
    <3>2. CASE k = 2
      <4>1. Available(g, F, Len(g.body[F]) + 1, Y)  BY <2>12 DEF W
      <4> QED BY <2>13, <3>2, <4>1
    <3> QED BY <3>1, <3>2
  <2>15. UseOK(g, v, T, P)  BY <2>4, <2>13, <2>14 DEF UseOK
  <2> QED BY <2>15 DEF v
<1>7. CASE P \notin 1 .. s
  <2>1. PICK k \in 1 .. q : P = s + k
    <3>1. P - s \in 1 .. q /\ P = s + (P - s)  BY <1>5, <1>7
    <3> QED BY <3>1
  <2> DEFINE p == to[k]
             e == c[p]
  <2>2. p \in i + 1 .. N /\ p \in 1 .. N /\ p \in Nat /\ d[P] = e
    <3>1. to[k] \in i + 1 .. N /\ d[s + k] = c[to[k]]  BY <1>5, <2>1
    <3>2. p \in 1 .. N /\ p \in Nat
      <4>1. p \in i + 1 .. N /\ i \in Nat /\ N \in Nat  BY <1>3, <3>1
      <4> HIDE DEF p, N
      <4> QED BY ONLY <4>1
    <3> QED BY <2>1, <3>1, <3>2
  <2>3. InstrOK(f, e) /\ UseOK(f, e, H, p)  BY <1>2, <2>2
  <2>4. e.kind # "phi"
    <3> SUFFICES ASSUME e.kind = "phi"  PROVE FALSE
      OBVIOUS
    <3>1. PhisOK(f, H)  BY <1>1 DEF FunctionOK, BlockOK
    <3>2. \A j \in 1 .. p : c[j].kind = "phi"  BY <2>2, <3>1 DEF PhisOK
    <3>3. i \in 1 .. p  BY <1>3, <2>2
    <3> QED BY <1>3, <3>2, <3>3 DEF IsSelect
  <2>5. p <= last => IsDebug(e)  BY <1>5
  <2>6. ~IsDebug(e) => \A l \in 1 .. q : to[l] < p => s + l < P
    <3> SUFFICES ASSUME ~IsDebug(e), NEW l \in 1 .. q  PROVE to[l] < p => s + l < P
      OBVIOUS
    <3>1. k < l => p < to[l]
      <4> HIDE DEF c, d
      <4> QED BY <1>4, TailOrder
    <3>2. to[l] \in Nat /\ l \in Nat /\ k \in Nat  BY <1>3, <1>5
    <3>3. k = l => to[l] = p  OBVIOUS
    <3> HIDE DEF p
    <3> QED BY <1>5, <2>1, <2>2, <3>1, <3>2, <3>3
  <2>7. P \in Nat /\ s < P  BY <1>5, <2>1
  <2> HIDE DEF e, p
  <2>8. Uses(e) \subseteq Registers  BY <2>3, Reads
  <2>9. ASSUME NEW x \in Uses(e)  PROVE Available(g, T, P, x)
    <3>1. ~IsDebug(e)  BY <2>3, <2>9, Reads
    <3>2. p \in last + 1 .. Len(f.body[H]) + 1  BY <1>3, <2>2, <2>5, <3>1
    <3>3. Available(f, H, p, x) /\ x \in Registers  BY <2>3, <2>4, <2>8 DEF UseOK
    <3>4. \A l \in 1 .. q : to[l] < p => s + l < P  BY <2>6, <3>1
    <3> QED BY <2>7, <3>2, <3>3, <3>4, TailAvailable
  <2>10. UseOK(g, e, T, P)  BY <2>4, <2>9 DEF UseOK
  <2> QED BY <2>2, <2>10
<1> QED BY <1>6, <1>7

\* An expansion keeps every use below its definition.
LEMMA UsesStay ==
  ASSUME NEW f, NEW n, FunctionOK(f, n), UsesDominated(f), NEW H \in Blocks(f),
         NEW i \in 1 .. Len(f.body[H]), IsSelect(f.body[H][i]),
         NEW T, T = n + 1, NEW F, F = n + 2, NEW m, m = n + 2,
         NEW g, g = EmitSelectPseudo(f, H, i, T, F), FunctionOK(g, m)
  PROVE  UsesDominated(g)
<1>1. Split(f, n, g, m, H, F, T)  BY SplitIs
<1>2. PICK last, r, at, s, q, to, b :
        /\ Scanned(f, H, i, last)
        /\ BranchesAround(b, f.body[H][i], T)
        /\ Expanded(f, g, H, F, T, i, last, b, r, at, s, q, to)
  BY ExpandedIs
<1>3. \A y \in Blocks(f) : \A p \in 1 .. Len(f.body[y]) : UseOK(f, f.body[y][p], y, p)
  <2>1. \A y \in Blocks(f) : Sequence(f.body[y])  BY DEF FunctionOK, BlockOK, InstrsOK
  <2> QED BY <2>1, UsesAre
<1>4. Blocks(g) = Blocks(f) \cup {F, T}  BY <1>1, SplitFacts
<1>5. ASSUME NEW P \in 1 .. Len(g.body[H])  PROVE UseOK(g, g.body[H][P], H, P)
  <2>1. \A p \in 1 .. Len(f.body[H]) : UseOK(f, f.body[H][p], H, p)  BY <1>3
  <2> QED BY <1>1, <1>2, <2>1, HeadUses
<1>6. ASSUME NEW P \in 1 .. Len(g.body[T])  PROVE UseOK(g, g.body[T][P], T, P)
  <2>1. \A p \in 1 .. Len(f.body[H]) : UseOK(f, f.body[H][p], H, p)  BY <1>3
  <2> QED BY <1>1, <1>2, <2>1, TailUses
<1>7. \A P \in 1 .. Len(g.body[F]) : FALSE
  <2>1. Len(g.body[F]) = 0  BY <1>2 DEF Expanded
  <2> QED BY <2>1
<1>8. ASSUME NEW y \in Blocks(f) \ {H}, NEW p \in 1 .. Len(g.body[y])
      PROVE  UseOK(g, g.body[y][p], y, p)
  <2>1. Len(g.body[y]) = Len(f.body[y])  BY <1>2 DEF Expanded
  <2> QED BY <1>1, <1>2, <1>3, <2>1, OtherUses
<1>9. \A y \in Blocks(g) : Sequence(g.body[y])  BY DEF FunctionOK, BlockOK, InstrsOK
<1>10. \A y \in Blocks(g) : \A p \in 1 .. Len(g.body[y]) : UseOK(g, g.body[y][p], y, p)
  BY <1>4, <1>5, <1>6, <1>7, <1>8
<1> QED BY <1>9, <1>10, UsesAre

----------------------------------------------------------------------------
(* The selects of one sequence.                                            *)

\* The scan goes on over what may stand between the selects, and gets to each of them.
LEMMA GoesOn ==
  ASSUME NEW f, NEW c, NEW i, Splits(c, i), Len(c) \in Nat, NEW p \in i .. Len(c),
         \A q \in 1 .. Len(c) : InstrOK(f, c[q]), IsSelect(c[p]),
         \A q \in i + 1 .. p : MayInterleave(c, i, q)
  PROVE  p \in i .. LastSelect(c, i)
<1> DEFINE last == LastSelect(c, i)
<1>1. i \in 1 .. Len(c) /\ IsSelect(c[i])  BY DEF Splits
<1>2. /\ last \in i .. Len(c) /\ ~Stops(c, i, i)
      /\ \A r \in last + 1 .. Len(c) : IsSelect(c[r]) => \E q \in i .. r : Stops(c, i, q)
  BY <1>1, LastSelectIs DEF Splits
<1> HIDE DEF last
<1>3. ASSUME NEW q \in i + 1 .. p  PROVE ~Stops(c, i, q)
  <2> DEFINE D == SelectDests(c, i, q)
             m == c[q]
             a == c[i].args
             b == m.args
  <2>1. q \in 1 .. Len(c) /\ InstrOK(f, m) /\ MayInterleave(c, i, q)
    <3>1. q \in 1 .. Len(c)  BY <1>1
    <3> QED BY <1>3, <3>1
  <2>2. CASE IsDebug(m)
    <3>1. ~IsSelect(m)  BY <2>2 DEF IsDebug, IsSelect
    <3> QED BY <2>2, <3>1 DEF Stops
  <2>3. (~IsDebug(m)) => Range(b) \cap D = {}
    <3> SUFFICES ASSUME ~IsDebug(m), NEW k \in {i} \cup {j \in i .. q - 1 : IsSelect(c[j])},
                        c[k].def \in Range(b)
                 PROVE  FALSE
      BY DEF SelectDests
    <3>1. k \in i .. q - 1 /\ IsSelect(c[k])  BY <1>1
    <3> QED BY <2>1, <3>1 DEF MayInterleave
  <2>4. CASE m.kind = "pure"
    <3>1. ~IsSelect(m) /\ ~IsDebug(m) /\ m.kind \notin {"effect", "mem"}
      BY <2>4 DEF IsDebug, IsSelect
    <3> QED BY <2>3, <3>1 DEF Stops
  <2>5. CASE IsSelect(m) /\ m.attr = c[i].attr /\ SubSeq(b, 1, 2) = SubSeq(a, 1, 2)
    <3>1. /\ a \in Seq(Registers) /\ Len(a) = 4 /\ b \in Seq(Registers) /\ Len(b) = 4
          /\ \A k \in 1 .. 4 : b[k] \in Range(b)
      <4>1. InstrOK(f, c[i])  BY <1>1
      <4> QED BY <1>1, <2>1, <2>5, <4>1, SelectReads
    <3>2. b[1] = a[1] /\ b[2] = a[2]
      <4> DEFINE s == SubSeq(a, 1, 2)
                 t == SubSeq(b, 1, 2)
      <4>1. s = t  BY <2>5
      <4> HIDE DEF a, b
      <4>2. s[1] = a[1] /\ s[2] = a[2] /\ t[1] = b[1] /\ t[2] = b[2]  BY <3>1
      <4> HIDE DEF s, t
      <4> QED BY <4>1, <4>2
    <3>3. m.kind = "select" /\ ~IsDebug(m)  BY <2>5 DEF IsSelect, IsDebug
    <3>4. {b[3], b[4]} \cap D = {}
      <4>1. 3 \in 1 .. 4 /\ 4 \in 1 .. 4  OBVIOUS
      <4>2. b[3] \in Range(b) /\ b[4] \in Range(b)  BY <3>1, <4>1
      <4> HIDE DEF b, D
      <4> QED BY <2>3, <3>3, <4>2
    <3> QED BY <2>5, <3>2, <3>3, <3>4 DEF Stops, IsSelect
  <2> QED BY <2>1, <2>2, <2>4, <2>5 DEF MayInterleave
<1>4. \A q \in i .. p : ~Stops(c, i, q)
  <2>1. \A q \in i .. p : q = i \/ q \in i + 1 .. p  BY <1>1
  <2> QED BY <1>2, <1>3, <2>1
<1>5. ~(p \in last + 1 .. Len(c))  BY <1>2, <1>4
<1>6. p \in i .. last  BY <1>1, <1>2, <1>5
<1> QED BY <1>6 DEF last

LEMMA PhisShared ==
  ASSUME NEW f, NEW n, FunctionOK(f, n), NEW H \in Blocks(f),
         NEW i \in 1 .. Len(f.body[H]), IsSelect(f.body[H][i]),
         NEW T, T = n + 1, NEW F, F = n + 2,
         NEW g, g = EmitSelectPseudo(f, H, i, T, F),
         NEW p \in i .. Len(f.body[H]), IsSelect(f.body[H][p]),
         \A q \in i + 1 .. p : MayInterleave(f.body[H], i, q)
  PROVE  f.body[H][p].def \in {m.def : m \in {x \in Range(g.body[T]) : x.kind = "phi"}}
<1> DEFINE c == f.body[H]
           d == g.body[T]
           m == n + 2
<1>1. PICK last, r, at, s, q, to, b :
        /\ Scanned(f, H, i, last) /\ last = LastSelect(c, i)
        /\ Expanded(f, g, H, F, T, i, last, b, r, at, s, q, to)
  <2>1. m = n + 2  OBVIOUS
  <2> HIDE DEF m
  <2> QED BY <2>1, ExpandedIs DEF Scanned
<1>2. Sequence(c) /\ \A k \in 1 .. Len(c) : InstrOK(f, c[k])
  BY DEF FunctionOK, BlockOK, InstrsOK
<1>3. Len(c) \in Nat  BY <1>2, SequenceHas
<1>4. Splits(c, i)
  <2>1. c[i].def \notin {c[i].args[3], c[i].args[4]}  BY <1>2 DEF InstrOK
  <2> QED BY <1>2, <2>1 DEF Splits, Sequence
<1>5. p \in i .. last /\ IsSelect(c[p])
  <2>1. p \in i .. LastSelect(c, i)
    <3>1. p \in i .. Len(c) /\ IsSelect(c[p]) /\ \A k \in i + 1 .. p : MayInterleave(c, i, k)
      OBVIOUS
    <3> HIDE DEF c
    <3> QED BY <1>2, <1>3, <1>4, <3>1, GoesOn
  <2> QED BY <1>1, <2>1
<1>6. TailShape(d, c, i, last, H, F, s, q, to)  BY <1>1 DEF Expanded
<1>7. PICK j \in 1 .. s : d[j] = PhiOf(c[p], H, F)  BY <1>5, <1>6 DEF TailShape
<1>8. d[j].kind = "phi" /\ d[j].def = c[p].def  BY <1>7, PhiFields
<1>9. d[j] \in Range(d)
  <2>1. Sequence(d) /\ Len(d) = s + q /\ s \in Nat /\ q \in Nat  BY <1>6 DEF TailShape
  <2>2. j \in 1 .. Len(d)  BY <2>1
  <2> QED BY <2>1, <2>2, SequenceHas
<1> HIDE DEF c, d
<1>10. c[p].def \in {x.def : x \in {y \in Range(d) : y.kind = "phi"}}
  BY <1>8, <1>9
<1> QED BY <1>10 DEF c, d

LEMMA ExpansionOK ==
  ASSUME NEW f, NEW n, FunctionOK(f, n), NEW H \in Blocks(f),
         NEW i \in 1 .. Len(f.body[H]), IsSelect(f.body[H][i]),
         NEW T, T = n + 1, NEW F, F = n + 2, NEW m, m = n + 2,
         NEW g, g = EmitSelectPseudo(f, H, i, T, F)
  PROVE  FunctionOK(g, m) /\ T \in Blocks(g)
<1> DEFINE c == f.body[H]
           last == LastSelect(c, i)
           h == HeadCode(c, i, last, T)
           t == TailCode(c, i, last, H, F)
           b == Branch(GetBrCond[c[i].attr], c[i].args[1], c[i].args[2], T)
<1>1. InstrsOK(f, H)  BY DEF FunctionOK, BlockOK
<1>2. Sequence(c) /\ InstrOK(f, c[i])  BY <1>1 DEF InstrsOK
<1>3. Splits(c, i)
  <2>1. c[i].def \notin {c[i].args[3], c[i].args[4]}  BY <1>2 DEF InstrOK
  <2> QED BY <1>2, <2>1 DEF Splits, Sequence
<1>4. Len(c) \in Nat  BY <1>2, SequenceHas
<1>5. last \in i .. Len(c) /\ IsSelect(c[last])
  BY <1>3, <1>4, LastSelectIs DEF Splits
<1>6. last \in 1 .. Len(c)  BY <1>4, <1>5
<1>7. Triangle(f, g, H, F, T) /\ Ordered(g.order, m)  BY TriangleIs
<1>8. DOMAIN f.body = Blocks(f)  BY DEF FunctionOK
<1>9. /\ g.body[F] = <<>> /\ g.body[T] = t
      /\ Sequence(h) => IsMoved(g.body[H], h, H \in f.succs[H], H, T)
      /\ \A x \in Blocks(f) \ {H} : Sequence(f.body[x]) =>
           IsMoved(g.body[x], f.body[x], x \in f.succs[H], H, T)
  BY <1>7, <1>8, BodiesAre
<1>10. BlockOK(g, H)
  <2>1. PICK r, at : HeadShape(h, c, i, last, b, r, at)  BY <1>3, <1>5, HeadIs
  <2>2. Sequence(h)  BY <2>1 DEF HeadShape
  <2>3. c[i].args[1] \in Registers /\ c[i].args[2] \in Registers
    BY <1>2, SelectReads
  <2> HIDE DEF h, last
  <2> QED BY <1>5, <1>6, <1>7, <1>9, <2>1, <2>2, <2>3, HeadOK
<1>11. BlockOK(g, T)
  <2>1. PICK s, r, at : TailShape(t, c, i, last, H, F, s, r, at)  BY <1>3, <1>5, TailIs
  <2>2. TailShape(g.body[T], c, i, last, H, F, s, r, at)  BY <1>9, <2>1
  <2> HIDE DEF t, last
  <2> QED BY <1>5, <1>7, <2>2, TailOK
<1>12. BlockOK(g, F)  BY <1>7, <1>9, FalseOK
<1>13. ASSUME NEW x \in Blocks(f) \ {H}  PROVE BlockOK(g, x)
  <2>1. Sequence(f.body[x])  BY DEF FunctionOK, BlockOK, InstrsOK
  <2> QED BY <1>7, <1>9, <2>1, OtherOK
<1>14. /\ Blocks(g) = Blocks(f) \cup {F, T} /\ DOMAIN g.body = Blocks(g)
       /\ DOMAIN g.succs = Blocks(g)
  BY <1>7 DEF Triangle
<1> QED BY <1>7, <1>10, <1>11, <1>12, <1>13, <1>14 DEF FunctionOK

LEMMA InBlocks ==
  ASSUME NEW f, NEW n, FunctionOK(f, n)
  PROVE  /\ 0 \notin Blocks(f) /\ f.order[1] \in Blocks(f)
         /\ \A b \in Blocks(f) : NextInLayout(f, b) \subseteq Blocks(f)
                                 /\ Len(f.body[b]) \in Nat
<1>1. Ordered(f.order, n)  BY DEF FunctionOK
<1>2. /\ n \in Nat /\ n # 0 /\ Blocks(f) = {f.order[j] : j \in 1 .. n}
      /\ \A j \in 1 .. n : f.order[j] \in 1 .. n
  BY <1>1, OrderedFacts DEF OrderIs, Blocks, Ordered
<1>3. 0 \notin Blocks(f) /\ f.order[1] \in Blocks(f)
  <2>1. 1 \in 1 .. n  BY <1>2
  <2> QED BY <1>2, <2>1
<1>4. ASSUME NEW b \in Blocks(f)  PROVE NextInLayout(f, b) \subseteq Blocks(f)
  <2>1. PICK j \in 1 .. n : b = f.order[j]  BY <1>2
  <2>2. NextInLayout(f, f.order[j]) = IF j < n THEN {f.order[j + 1]} ELSE {}
    BY <1>1, NextIs DEF FollowedBy
  <2>3. j < n => j + 1 \in 1 .. n  BY <1>2
  <2> QED BY <1>2, <2>1, <2>2, <2>3
<1>5. ASSUME NEW b \in Blocks(f)  PROVE Len(f.body[b]) \in Nat
  <2>1. Sequence(f.body[b])  BY DEF FunctionOK, BlockOK, InstrsOK
  <2> QED BY <2>1, SequenceHas
<1> QED BY <1>3, <1>4, <1>5

----------------------------------------------------------------------------
(* Every register keeps its one definition.                                *)

\* The instruction p of block b is where f defines x.
Defines(f, b, p, x) == p \in 1 .. Len(f.body[b]) /\ f.body[b][p].def = x

Once(f) ==
  \A x : x # NONE =>
    \A b, c \in Blocks(f) : \A p, q : Defines(f, b, p, x) /\ Defines(f, c, q, x) => b = c /\ p = q

LEMMA OnceIs ==
  ASSUME NEW f, NEW n, FunctionOK(f, n)
  PROVE  DefinedOnce(f) <=> Once(f)
<1>1. \A b \in Blocks(f) : DOMAIN f.body[b] = 1 .. Len(f.body[b])
  BY DEF FunctionOK, BlockOK, InstrsOK, Sequence
<1>2. ASSUME DefinedOnce(f)  PROVE Once(f)
  BY <1>1, <1>2 DEF DefinedOnce, Once, Defines
<1>3. ASSUME Once(f)  PROVE DefinedOnce(f)
  <2> SUFFICES ASSUME NEW b \in Blocks(f), NEW c \in Blocks(f), NEW p \in DOMAIN f.body[b],
                      NEW q \in DOMAIN f.body[c], f.body[b][p].def = f.body[c][q].def,
                      f.body[b][p].def # NONE
               PROVE  b = c /\ p = q
    BY DEF DefinedOnce
  <2>1. Defines(f, b, p, f.body[b][p].def) /\ Defines(f, c, q, f.body[b][p].def)
    BY <1>1 DEF Defines
  <2> QED BY <1>3, <2>1 DEF Once
<1> QED BY <1>2, <1>3


LEMMA DefinitionsMove ==
  ASSUME NEW f, NEW n, FunctionOK(f, n), NEW g, NEW m, NEW H, NEW F, NEW T,
         Split(f, n, g, m, H, F, T), NEW i, NEW last, Scanned(f, H, i, last),
         NEW b, NEW r, NEW at, NEW s, NEW q, NEW to, BranchesAround(b, f.body[H][i], T),
         Expanded(f, g, H, F, T, i, last, b, r, at, s, q, to),
         NEW x, x # NONE, NEW P
  PROVE  /\ ~Defines(g, F, P, x)
         /\ \A y \in Blocks(f) \ {H} : Defines(g, y, P, x) => Defines(f, y, P, x)
         /\ Defines(g, H, P, x) =>
              /\ P \in 1 .. r /\ Defines(f, H, at[P], x) /\ at[P] <= last
              /\ i <= at[P] => ~IsSelect(f.body[H][at[P]])
         /\ Defines(g, T, P, x) =>
              \/ /\ P \in 1 .. s
                 /\ \E p \in i .. last : IsSelect(f.body[H][p]) /\ Defines(f, H, p, x)
              \/ P - s \in 1 .. q /\ Defines(f, H, to[P - s], x) /\ to[P - s] > last
<1> DEFINE c == f.body[H]
           N == Len(c)
<1>1. \A d \in Blocks(f) : /\ Sequence(f.body[d])
                           /\ \A p \in 1 .. Len(f.body[d]) : InstrOK(f, f.body[d][p])
  BY DEF FunctionOK, BlockOK, InstrsOK
<1>2. H \in Blocks(f)  BY SplitFacts
<1>3. N \in Nat /\ i \in 1 .. N /\ last \in i .. N
  <2>1. N \in Nat  BY <1>1, <1>2, SequenceHas
  <2> QED BY <2>1 DEF Scanned
<1>4. ~Defines(g, F, P, x)
  <2>1. Len(g.body[F]) = 0  BY DEF Expanded
  <2>2. ~(P \in 1 .. 0)  OBVIOUS
  <2> QED BY <2>1, <2>2 DEF Defines
<1>5. ASSUME NEW y \in Blocks(f) \ {H}, Defines(g, y, P, x)  PROVE Defines(f, y, P, x)
  <2>1. Len(g.body[y]) = Len(f.body[y])
        /\ \A p \in 1 .. Len(f.body[y]) : g.body[y][p].def = f.body[y][p].def
    BY DEF Expanded, IsCopy
  <2> QED BY <1>5, <2>1 DEF Defines
<1>6. ASSUME Defines(g, H, P, x)
      PROVE  /\ P \in 1 .. r /\ Defines(f, H, at[P], x) /\ at[P] <= last
             /\ i <= at[P] => ~IsSelect(f.body[H][at[P]])
  <2>1. /\ Len(g.body[H]) = r + 1 /\ r \in Nat /\ at \in [1 .. r -> 1 .. last]
        /\ g.body[H][r + 1] = b
        /\ \A k \in 1 .. r : /\ g.body[H][k].def = c[at[k]].def
                             /\ i <= at[k] => ~IsSelect(c[at[k]])
    BY DEF Expanded, HeadCopies, IsCopy
  <2>2. P \in 1 .. r + 1 /\ g.body[H][P].def = x  BY <1>6, <2>1 DEF Defines
  <2>3. b.def = NONE  BY DEF BranchesAround, Branch, Instr
  <2>4. P # r + 1  BY <2>1, <2>2, <2>3
  <2>5. P \in 1 .. r  BY <2>1, <2>2, <2>4
  <2>6. at[P] \in 1 .. last /\ at[P] \in 1 .. N  BY <1>3, <2>1, <2>5
  <2>7. at[P] <= last
    <3> DEFINE y == at[P]
    <3>1. y \in 1 .. last /\ last \in Nat  BY <1>3, <2>6
    <3> HIDE DEF y
    <3>2. y <= last  BY <3>1
    <3> QED BY <3>2 DEF y
  <2>8. i <= at[P] => ~IsSelect(f.body[H][at[P]])  BY <2>1, <2>5
  <2>9. c[at[P]].def = x  BY <2>1, <2>2, <2>5
  <2>10. Defines(f, H, at[P], x)  BY <2>6, <2>9 DEF Defines
  <2> QED BY <2>5, <2>7, <2>8, <2>10
<1>7. ASSUME Defines(g, T, P, x)
      PROVE  \/ /\ P \in 1 .. s
                /\ \E p \in i .. last : IsSelect(f.body[H][p]) /\ Defines(f, H, p, x)
             \/ P - s \in 1 .. q /\ Defines(f, H, to[P - s], x) /\ to[P - s] > last
  <2>0. TailShape(g.body[T], c, i, last, H, F, s, q, to)  BY DEF Expanded
  <2>1. /\ Len(g.body[T]) = s + q /\ s \in Nat /\ q \in Nat /\ to \in [1 .. q -> i + 1 .. N]
        /\ \A k \in 1 .. s : \E p \in i .. last :
             IsSelect(c[p]) /\ g.body[T][k] = PhiOf(c[p], H, F)
        /\ \A k \in 1 .. q : g.body[T][s + k] = c[to[k]]
        /\ \A k \in 1 .. q : to[k] <= last => IsDebug(c[to[k]])
    BY <2>0 DEF TailShape
  <2>2. P \in 1 .. s + q /\ g.body[T][P].def = x  BY <1>7, <2>1 DEF Defines
  <2>3. CASE P \in 1 .. s
    <3>1. PICK p \in i .. last : IsSelect(c[p]) /\ g.body[T][P] = PhiOf(c[p], H, F)
      BY <2>1, <2>3
    <3>2. c[p].def = x  BY <2>2, <3>1, PhiFields
    <3>3. p \in 1 .. N  BY <1>3
    <3> QED BY <2>3, <3>1, <3>2, <3>3 DEF Defines
  <2>4. CASE P \notin 1 .. s
    <3>1. P - s \in 1 .. q /\ s + (P - s) = P  BY <2>1, <2>2, <2>4
    <3>2. c[to[P - s]].def = x  BY <2>1, <2>2, <3>1
    <3>3. to[P - s] \in i + 1 .. N /\ to[P - s] \in 1 .. N  BY <1>3, <2>1, <3>1
    <3>4. ~IsDebug(c[to[P - s]])
      <4>1. InstrOK(f, c[to[P - s]])  BY <1>1, <1>2, <3>3
      <4> QED BY <3>2, <4>1 DEF InstrOK
    <3>5. to[P - s] > last
      <4> DEFINE y == to[P - s]
      <4>1. ~(y <= last)  BY <2>1, <3>1, <3>4
      <4>2. y \in Int /\ last \in Int  BY <1>3, <3>3
      <4> HIDE DEF y
      <4>3. y > last  BY ONLY <4>1, <4>2
      <4> QED BY <4>3 DEF y
    <3> QED BY <3>1, <3>2, <3>3, <3>5 DEF Defines
  <2> QED BY <2>3, <2>4
<1> QED BY <1>4, <1>5, <1>6, <1>7

LEMMA OnceStays ==
  ASSUME NEW f, NEW n, FunctionOK(f, n), DefinedOnce(f), NEW g, NEW m, NEW H, NEW F, NEW T,
         FunctionOK(g, m), Split(f, n, g, m, H, F, T), NEW i, NEW last,
         Scanned(f, H, i, last),
         NEW b, NEW r, NEW at, NEW s, NEW q, NEW to, BranchesAround(b, f.body[H][i], T),
         Expanded(f, g, H, F, T, i, last, b, r, at, s, q, to)
  PROVE  DefinedOnce(g)
<1> DEFINE c == f.body[H]
           N == Len(c)
<1>1. Once(f)  BY OnceIs
<1>2. H \in Blocks(f) /\ Blocks(g) = Blocks(f) \cup {F, T} /\ T \notin Blocks(f)
  BY SplitFacts
<1>3. N \in Nat /\ i \in 1 .. N /\ last \in i .. N
  <2>0. Sequence(f.body[H])  BY <1>2 DEF FunctionOK, BlockOK, InstrsOK
  <2>1. N \in Nat  BY <2>0, SequenceHas
  <2> QED BY <2>1 DEF Scanned
<1>4. /\ r \in Nat /\ at \in [1 .. r -> 1 .. last]
      /\ \A k, l \in 1 .. r : k < l => at[k] < at[l]
  BY DEF Expanded, HeadCopies
<1>5. TailShape(g.body[T], c, i, last, H, F, s, q, to)  BY DEF Expanded
<1>6. /\ s \in Nat /\ q \in Nat /\ to \in [1 .. q -> i + 1 .. N]
      /\ \A k, l \in 1 .. q : k # l => to[k] # to[l]
      /\ TwoSelects(g.body[T], c, i, last, H, F, s)
  BY <1>5 DEF TailShape
<1> SUFFICES ASSUME NEW x, x # NONE, NEW y \in Blocks(g), NEW z \in Blocks(g), NEW P, NEW Q,
                    Defines(g, y, P, x), Defines(g, z, Q, x)
             PROVE  y = z /\ P = Q
  BY OnceIs DEF Once
<1> DEFINE InHead(w, k) == /\ w = H /\ k \in 1 .. r /\ Defines(f, H, at[k], x)
                           /\ at[k] <= last /\ (i <= at[k] => ~IsSelect(c[at[k]]))
           InPhis(w, k) == /\ w = T /\ k \in 1 .. s
                           /\ \E p \in i .. last : IsSelect(c[p]) /\ Defines(f, H, p, x)
           Behind(w, k) == /\ w = T /\ k - s \in 1 .. q /\ Defines(f, H, to[k - s], x)
                           /\ to[k - s] > last
           Other(w, k)  == w \in Blocks(f) \ {H} /\ Defines(f, w, k, x)
<1>7. ASSUME NEW w \in Blocks(g), NEW k, Defines(g, w, k, x)
      PROVE  InHead(w, k) \/ InPhis(w, k) \/ Behind(w, k) \/ Other(w, k)
  <2>1. /\ ~Defines(g, F, k, x)
        /\ \A u \in Blocks(f) \ {H} : Defines(g, u, k, x) => Defines(f, u, k, x)
        /\ Defines(g, H, k, x) =>
              /\ k \in 1 .. r /\ Defines(f, H, at[k], x) /\ at[k] <= last
              /\ i <= at[k] => ~IsSelect(c[at[k]])
        /\ Defines(g, T, k, x) =>
              \/ /\ k \in 1 .. s
                 /\ \E p \in i .. last : IsSelect(c[p]) /\ Defines(f, H, p, x)
              \/ k - s \in 1 .. q /\ Defines(f, H, to[k - s], x) /\ to[k - s] > last
    BY DefinitionsMove
  <2> QED BY <1>2, <1>7, <2>1
<1>8. \A p, o : Defines(f, H, p, x) /\ Defines(f, H, o, x) => p = o  BY <1>1, <1>2 DEF Once
<1>9. \A w, k : Other(w, k) => \A p : ~Defines(f, H, p, x)  BY <1>1, <1>2 DEF Once
<1>10. \A p : Defines(f, H, p, x) => p \in 1 .. N  BY DEF Defines
<1>11. CASE Other(y, P) \/ Other(z, Q)
  <2>1. Other(y, P) /\ Other(z, Q)  BY <1>7, <1>9, <1>11
  <2> QED BY <1>1, <2>1 DEF Once
<1>12. CASE InHead(y, P)
  <2>1. ~InPhis(z, Q)  BY <1>3, <1>8, <1>12
  <2>2. ~Behind(z, Q)  BY <1>3, <1>8, <1>10, <1>12
  <2>3. CASE InHead(z, Q)
    <3>1. at[P] = at[Q] /\ P \in 1 .. r /\ Q \in 1 .. r  BY <1>8, <1>12, <2>3
    <3>2. ~(P < Q) /\ ~(Q < P)
      <4>1. at[P] \in 1 .. last /\ ~(at[P] < at[P])  BY <1>3, <1>4, <3>1
      <4> QED BY <1>4, <3>1, <4>1
    <3> QED BY <1>12, <2>3, <3>1, <3>2
  <2> QED BY <1>7, <1>11, <2>1, <2>2, <2>3
<1>13. CASE InPhis(y, P)
  <2>1. ~InHead(z, Q)  BY <1>3, <1>8, <1>13
  <2>2. ~Behind(z, Q)  BY <1>3, <1>8, <1>10, <1>13
  <2>3. CASE InPhis(z, Q)
    <3>1. P \in 1 .. s /\ Q \in 1 .. s /\ y = T /\ z = T  BY <1>13, <2>3
    <3>2. g.body[T][P].def = x /\ g.body[T][Q].def = x  BY <3>1 DEF Defines
    <3>3. ASSUME NEW k \in 1 .. s, NEW l \in 1 .. s, k < l,
                 g.body[T][k].def = x, g.body[T][l].def = x
          PROVE  FALSE
      <4>1. PICK p \in i .. last, p2 \in i .. last :
              p < p2 /\ g.body[T][k] = PhiOf(c[p], H, F) /\ g.body[T][l] = PhiOf(c[p2], H, F)
        BY <1>6, <3>3 DEF TwoSelects
      <4>2. c[p].def = x /\ c[p2].def = x  BY <3>3, <4>1, PhiFields
      <4>3. p \in 1 .. N /\ p2 \in 1 .. N  BY <1>3
      <4>4. Defines(f, H, p, x) /\ Defines(f, H, p2, x)  BY <4>2, <4>3 DEF Defines
      <4>5. p = p2  BY <1>8, <4>4
      <4> QED BY <4>1, <4>3, <4>5
    <3>4. ~(P < Q) /\ ~(Q < P)  BY <3>1, <3>2, <3>3
    <3> QED BY <3>1, <3>4
  <2> QED BY <1>7, <1>11, <2>1, <2>2, <2>3
<1>14. CASE Behind(y, P)
  <2>1. ~InHead(z, Q)  BY <1>3, <1>8, <1>10, <1>14
  <2>2. ~InPhis(z, Q)  BY <1>3, <1>8, <1>10, <1>14
  <2>3. CASE Behind(z, Q)
    <3>1. to[P - s] = to[Q - s] /\ P - s \in 1 .. q /\ Q - s \in 1 .. q  BY <1>8, <1>14, <2>3
    <3>3. P - s = Q - s  BY <1>6, <3>1
    <3>4. P \in Int /\ Q \in Int
      <4>1. P \in 1 .. Len(g.body[T]) /\ Q \in 1 .. Len(g.body[T])
        BY <1>14, <2>3 DEF Defines
      <4> QED BY <4>1
    <3> QED BY <1>6, <1>14, <2>3, <3>3, <3>4
  <2> QED BY <1>7, <1>11, <2>1, <2>2, <2>3
<1> QED BY <1>7, <1>11, <1>12, <1>13, <1>14

\* What a function defines.
LEMMA RegsAre ==
  ASSUME NEW f, NEW n, FunctionOK(f, n), NEW x
  PROVE  x \in Regs(f) <=> x # NONE /\ \E b \in Blocks(f) : \E p : Defines(f, b, p, x)
<1>1. \A b \in Blocks(f) : Range(f.body[b]) = {f.body[b][k] : k \in 1 .. Len(f.body[b])}
  BY SequenceHas DEF FunctionOK, BlockOK, InstrsOK
<1>2. x \in Regs(f) <=> x # NONE /\ \E b \in Blocks(f) : \E m \in Range(f.body[b]) : m.def = x
  BY DEF Regs
<1>3. ASSUME NEW b \in Blocks(f)
      PROVE  (\E m \in Range(f.body[b]) : m.def = x) <=> \E p : Defines(f, b, p, x)
  <2>1. Range(f.body[b]) = {f.body[b][k] : k \in 1 .. Len(f.body[b])}  BY <1>1
  <2> DEFINE c == f.body[b]
             N == 1 .. Len(c)
  <2>2. Range(c) = {c[k] : k \in N} /\ \A p : Defines(f, b, p, x) <=> p \in N /\ c[p].def = x
    BY <2>1 DEF Defines
  <2> HIDE DEF c, N
  <2>3. (\E m \in Range(c) : m.def = x) <=> \E p : Defines(f, b, p, x)  BY <2>2
  <2> QED BY <2>3 DEF c
<1> QED BY <1>2, <1>3

LEMMA RegsStay ==
  ASSUME NEW f, NEW n, FunctionOK(f, n), NEW g, NEW m, NEW H, NEW F, NEW T,
         FunctionOK(g, m), Split(f, n, g, m, H, F, T), NEW i, NEW last,
         Scanned(f, H, i, last),
         NEW b, NEW r, NEW at, NEW s, NEW q, NEW to, BranchesAround(b, f.body[H][i], T),
         Expanded(f, g, H, F, T, i, last, b, r, at, s, q, to)
  PROVE  Regs(g) = Regs(f)
<1>1. /\ H \in Blocks(f) /\ Blocks(g) = Blocks(f) \cup {F, T}  BY SplitFacts
<1>2. ASSUME NEW x \in Regs(g)  PROVE x \in Regs(f)
  <2>1. x # NONE  BY DEF Regs
  <2>2. PICK y, P : y \in Blocks(g) /\ Defines(g, y, P, x)  BY RegsAre
  <2>3. /\ ~Defines(g, F, P, x)
        /\ \A u \in Blocks(f) \ {H} : Defines(g, u, P, x) => Defines(f, u, P, x)
        /\ Defines(g, H, P, x) => Defines(f, H, at[P], x)
        /\ Defines(g, T, P, x) => \/ \E p \in i .. last : Defines(f, H, p, x)
                                  \/ Defines(f, H, to[P - s], x)
    BY <2>1, DefinitionsMove
  <2>4. \E b2 \in Blocks(f) : \E p : Defines(f, b2, p, x)  BY <1>1, <2>2, <2>3
  <2> QED BY <2>1, <2>4, RegsAre
<1>3. ASSUME NEW x \in Regs(f)  PROVE x \in Regs(g)
  <2>1. x # NONE  BY DEF Regs
  <2>2. PICK y, p : y \in Blocks(f) /\ Defines(f, y, p, x)  BY RegsAre
  <2>3. \A d \in Blocks(g) : Sequence(g.body[d])  BY DEF FunctionOK, BlockOK, InstrsOK
  <2>4. Sequence(f.body[y]) /\ InstrOK(f, f.body[y][p])
    BY <2>2 DEF FunctionOK, BlockOK, InstrsOK, Defines
  <2>5. x \in Registers
    <3>1. f.body[y][p].def = x  BY <2>2 DEF Defines
    <3> QED BY <2>1, <2>4, <3>1 DEF InstrOK
  <2>6. DefinedIn(f, y, x)
    <3>1. p \in 1 .. Len(f.body[y]) /\ f.body[y][p].def = x  BY <2>2 DEF Defines
    <3> QED BY <2>4, <3>1, DefinedHas
  <2>7. PICK z \in Blocks(g) : DefinedIn(g, z, x)
    <3>1. /\ \A d \in Blocks(f) \ {H} : DefinedIn(f, d, x) => DefinedIn(g, d, x)
          /\ DefinedIn(f, H, x) => DefinedIn(g, H, x) \/ DefinedIn(g, T, x)
      BY <2>5, DefinedStill
    <3> QED BY <1>1, <2>2, <2>6, <3>1
  <2>8. \E P : Defines(g, z, P, x)  BY <2>3, <2>7, DefinedHas DEF Defines
  <2> QED BY <2>1, <2>8, RegsAre
<1> QED BY <1>2, <1>3

----------------------------------------------------------------------------
(* Execution of one instruction.                                           *)

\* A state of a function that defines the registers R.
IsState(st, R) ==
  /\ st = [at |-> st.at, to |-> st.to, env |-> st.env, mem |-> st.mem, shown |-> st.shown]
  /\ st.env = [r \in R |-> st.env[r]]

\* The states differ in the registers D and in what they show of variables not in X at
\* most, and in where control is.
Agree(s, t, R, D, X) ==
  /\ s.to = t.to /\ s.mem = t.mem
  /\ \A r \in R \ D : s.env[r] = t.env[r]
  /\ \A x \in X : ShownOf(s, x) = ShownOf(t, x)

\* An instruction that changes nothing but what is shown of variables not in X.
Idle(m, X) == m.kind = "phi" \/ (m.kind = "debug" /\ m.attr \notin X)

\* What m gives the register that it defines.
Result(holds, env, m) ==
  IF m.kind = "select" THEN Value(env, Chosen(holds, m)) ELSE Term(env, m)

Writes(m)   == m.kind \in {"pure", "select", "mem"}
Accesses(m) == m.kind \in {"mem", "effect"}

LEMMA EnvIs ==
  ASSUME NEW env, NEW R, env = [r \in R |-> env[r]], NEW d, NEW v,
         NEW e, e = [env EXCEPT ![d] = v]
  PROVE  /\ e = [r \in R |-> e[r]]
         /\ \A r \in R : e[r] = IF r = d THEN v ELSE env[r]
<1>1. DOMAIN env = R  OBVIOUS
<1> QED BY <1>1

\* e is what the instruction m makes of the state st.
Does(e, holds, st, m, R) ==
  /\ IsState(e, R) /\ e.at = st.at
  /\ st.to # {} \/ m.kind = "phi" => e = st
  /\ st.to = {} /\ m.kind # "phi" =>
       /\ e.to = IF IsTerminator(m) /\ Taken(holds, m) THEN {m.blocks} ELSE {}
       /\ e.mem = IF Accesses(m) THEN Append(st.mem, Term(st.env, m)) ELSE st.mem
       /\ \A r \in R : e.env[r] = IF Writes(m) /\ r = m.def
                                  THEN Result(holds, st.env, m) ELSE st.env[r]
       /\ \A x : ShownOf(e, x) =
                   IF m.kind = "debug" /\ x = m.attr
                   THEN Append(ShownOf(st, x), Value(st.env, m.args[1]))
                   ELSE ShownOf(st, x)

LEMMA Executes ==
  ASSUME NEW holds, NEW st, NEW R, IsState(st, R), NEW m, m.kind \in Kinds,
         NEW e, e = Execute(holds, st, m)
  PROVE  Does(e, holds, st, m, R)
<1> SUFFICES /\ IsState(e, R) /\ e.at = st.at
             /\ st.to # {} \/ m.kind = "phi" => e = st
             /\ st.to = {} /\ m.kind # "phi" =>
                  /\ e.to = IF IsTerminator(m) /\ Taken(holds, m) THEN {m.blocks} ELSE {}
                  /\ e.mem = IF Accesses(m) THEN Append(st.mem, Term(st.env, m)) ELSE st.mem
                  /\ \A r \in R : e.env[r] = IF Writes(m) /\ r = m.def
                                             THEN Result(holds, st.env, m) ELSE st.env[r]
                  /\ \A x : ShownOf(e, x) =
                              IF m.kind = "debug" /\ x = m.attr
                              THEN Append(ShownOf(st, x), Value(st.env, m.args[1]))
                              ELSE ShownOf(st, x)
  BY DEF Does
<1> DEFINE v == Result(holds, st.env, m)
           w == Term(st.env, m)
           env == [st.env EXCEPT ![m.def] = v]
           mem == Append(st.mem, w)
           show == Append(ShownOf(st, m.attr), Value(st.env, m.args[1]))
           shown == [x \in DOMAIN st.shown \cup {m.attr} |->
                       IF x = m.attr THEN show ELSE st.shown[x]]
<1>1. st = [at |-> st.at, to |-> st.to, env |-> st.env, mem |-> st.mem, shown |-> st.shown]
      /\ st.env = [r \in R |-> st.env[r]]
  BY DEF IsState
<1>2. env = [r \in R |-> env[r]] /\ \A r \in R : env[r] = IF r = m.def THEN v ELSE st.env[r]
  <2>1. env = [st.env EXCEPT ![m.def] = v]  OBVIOUS
  <2> HIDE DEF env, v
  <2> QED BY <1>1, <2>1, EnvIs
<1>3. m.kind \in {"phi", "select", "pure", "mem", "effect", "debug", "branch", "jump", "return"}
  BY DEF Kinds
<1>9. \A x : (IF x \in DOMAIN shown THEN shown[x] ELSE <<>>) =
               IF x = m.attr THEN show ELSE IF x \in DOMAIN st.shown THEN st.shown[x] ELSE <<>>
  <2> HIDE DEF show
  <2> QED OBVIOUS
<1>10. ASSUME NEW u, u.shown = shown  PROVE \A x : ShownOf(u, x) = IF x = m.attr THEN show ELSE ShownOf(st, x)
  <2> HIDE DEF show, shown
  <2> QED BY <1>9, <1>10 DEF ShownOf
<1>11. ASSUME NEW u, u.shown = st.shown  PROVE \A x : ShownOf(u, x) = ShownOf(st, x)
  BY <1>11 DEF ShownOf
<1>4. CASE st.to # {} \/ m.kind = "phi"
  <2>1. e = st  BY <1>4 DEF Execute
  <2> QED BY <1>4, <2>1
<1>5. CASE st.to = {} /\ m.kind # "phi"
  <2>1. CASE m.kind \in {"pure", "select", "mem"}
    <3>0. e = [at |-> st.at, to |-> st.to, env |-> env,
               mem |-> IF m.kind = "mem" THEN mem ELSE st.mem, shown |-> st.shown]
      <4>1. CASE m.kind = "pure"
        <5>1. e = [st EXCEPT !.env[m.def] = w] /\ v = w  BY <1>5, <4>1 DEF Execute, Result
        <5> HIDE DEF v, w
        <5> QED BY <1>1, <4>1, <5>1
      <4>2. CASE m.kind = "select"
        <5>1. e = [st EXCEPT !.env[m.def] = v]  BY <1>5, <4>2 DEF Execute, Result
        <5> HIDE DEF v, w
        <5> QED BY <1>1, <4>2, <5>1
      <4>3. CASE m.kind = "mem"
        <5>1. e = [st EXCEPT !.env[m.def] = w, !.mem = Append(@, w)] /\ v = w
          BY <1>5, <4>3 DEF Execute, Result
        <5> HIDE DEF v, w
        <5> QED BY <1>1, <4>3, <5>1
      <4> QED BY <2>1, <4>1, <4>2, <4>3
    <3> HIDE DEF env, v, w, mem
    <3>1. IsState(e, R) /\ e.at = st.at /\ e.to = {} /\ e.shown = st.shown /\ e.env = env
          /\ e.mem = IF m.kind = "mem" THEN mem ELSE st.mem
      BY <1>2, <1>5, <3>0 DEF IsState
    <3>2. ~IsTerminator(m) /\ m.kind # "debug" /\ Writes(m) /\ (Accesses(m) <=> m.kind = "mem")
      BY <2>1 DEF IsTerminator, Writes, Accesses
    <3> QED BY <1>2, <1>5, <1>11, <3>1, <3>2 DEF v, w, mem
  <2>2. CASE m.kind = "effect"
    <3>0. e = [st EXCEPT !.mem = Append(@, w)]  BY <1>5, <2>2 DEF Execute
    <3> HIDE DEF v, w, env
    <3>1. IsState(e, R) /\ e.at = st.at /\ e.to = {} /\ e.shown = st.shown /\ e.env = st.env
          /\ e.mem = mem
      BY <1>1, <1>5, <3>0 DEF IsState
    <3>2. ~IsTerminator(m) /\ m.kind # "debug" /\ ~Writes(m) /\ Accesses(m)
      BY <2>2 DEF IsTerminator, Writes, Accesses
    <3> QED BY <1>5, <1>11, <3>1, <3>2 DEF w
  <2>3. CASE m.kind = "debug"
    <3>0. e = [st EXCEPT !.shown = [x \in DOMAIN @ \cup {m.attr} |->
                 IF x = m.attr THEN Append(ShownOf(st, x), Value(st.env, m.args[1])) ELSE @[x]]]
      BY <1>5, <2>3 DEF Execute
    <3>1. e = [st EXCEPT !.shown = shown]
      <4>1. [x \in DOMAIN st.shown \cup {m.attr} |->
               IF x = m.attr THEN Append(ShownOf(st, x), Value(st.env, m.args[1])) ELSE st.shown[x]]
            = shown
        OBVIOUS
      <4> HIDE DEF shown
      <4> QED BY <1>1, <3>0, <4>1
    <3> HIDE DEF v, w, env, shown, show
    <3>2. IsState(e, R) /\ e.at = st.at /\ e.to = {} /\ e.shown = shown /\ e.env = st.env
          /\ e.mem = st.mem
      BY <1>1, <1>5, <3>1 DEF IsState
    <3>3. ~IsTerminator(m) /\ ~Writes(m) /\ ~Accesses(m)
      BY <2>3 DEF IsTerminator, Writes, Accesses
    <3> QED BY <1>5, <1>10, <2>3, <3>2, <3>3 DEF show
  <2>4. CASE m.kind \in {"branch", "jump", "return"}
    <3>0. e = IF Taken(holds, m) THEN [st EXCEPT !.to = {m.blocks}] ELSE st
      BY <1>5, <2>4 DEF Execute
    <3> HIDE DEF v, w, env, shown, show
    <3>1. IsState(e, R) /\ e.at = st.at /\ e.shown = st.shown /\ e.env = st.env
          /\ e.mem = st.mem /\ e.to = IF Taken(holds, m) THEN {m.blocks} ELSE st.to
      BY <1>1, <3>0 DEF IsState
    <3>2. IsTerminator(m) /\ m.kind # "debug" /\ ~Writes(m) /\ ~Accesses(m)
      BY <2>4 DEF IsTerminator, Writes, Accesses
    <3> QED BY <1>5, <1>11, <3>1, <3>2
  <2> QED BY <1>3, <1>5, <2>1, <2>2, <2>3, <2>4
<1> QED BY <1>4, <1>5

----------------------------------------------------------------------------
(* The states of a run.                                                    *)

IsRun(A, holds, st, c, n) ==
  A = [k \in 0 .. n |-> IF k = 0 THEN st ELSE Execute(holds, A[k - 1], c[k])]

\* A[k] is the state after the first k instructions of c, from st.
Runs(A, holds, st, c, n) ==
  A[0] = st /\ \A k \in 1 .. n : A[k] = Execute(holds, A[k - 1], c[k])

LEMMA RunExists ==
  ASSUME NEW holds, NEW st, NEW c, NEW n \in Nat
  PROVE  \E A : IsRun(A, holds, st, c, n)
<1> DEFINE T == {m \in 0 .. n : ~ \E A : IsRun(A, holds, st, c, m)}
<1> SUFFICES ASSUME T # {}  PROVE FALSE
  BY DEF IsRun
<1>1. PICK m \in T : \A k \in T : m <= k
  <2>1. T \subseteq Nat  OBVIOUS
  <2> HIDE DEF T
  <2> QED BY <2>1, Least
<1>2. m \in 0 .. n /\ ~ \E A : IsRun(A, holds, st, c, m)  BY <1>1
<1>3. CASE m = 0
  <2> DEFINE w == [k \in 0 .. 0 |-> st]
  <2>1. w = [k \in 0 .. 0 |-> IF k = 0 THEN st ELSE Execute(holds, w[k - 1], c[k])]
    OBVIOUS
  <2> HIDE DEF w
  <2>2. IsRun(w, holds, st, c, 0)  BY <2>1 DEF IsRun
  <2> QED BY <1>2, <1>3, <2>2
<1>4. CASE m # 0
  <2>1. m - 1 \in 0 .. n /\ ~(m <= m - 1)  BY <1>2, <1>4
  <2>2. m - 1 \notin T  BY <1>1, <2>1
  <2>3. PICK u : IsRun(u, holds, st, c, m - 1)  BY <2>1, <2>2
  <2> DEFINE w == [k \in 0 .. m |-> IF k = m THEN Execute(holds, u[m - 1], c[m]) ELSE u[k]]
  <2>5. \A k \in 0 .. m - 1 : u[k] = IF k = 0 THEN st ELSE Execute(holds, u[k - 1], c[k])
    <3> DEFINE e(k) == IF k = 0 THEN st ELSE Execute(holds, u[k - 1], c[k])
    <3>1. u = [k \in 0 .. m - 1 |-> e(k)]  BY <2>3 DEF IsRun
    <3> HIDE DEF e
    <3>2. \A k \in 0 .. m - 1 : u[k] = e(k)  BY <3>1
    <3> QED BY <3>2 DEF e
  <2>6. \A k \in 0 .. m : w[k] = IF k = 0 THEN st ELSE Execute(holds, w[k - 1], c[k])
    <3> TAKE k \in 0 .. m
    <3>1. CASE k = m
      <4>1. k - 1 \in 0 .. m /\ k - 1 # m /\ k # 0  BY <1>2, <1>4, <3>1
      <4>2. w[k - 1] = u[m - 1]  BY <3>1, <4>1
      <4> QED BY <3>1, <4>1, <4>2
    <3>2. CASE k # m /\ k # 0
      <4>1. k \in 0 .. m - 1 /\ k - 1 \in 0 .. m /\ k - 1 # m  BY <1>2, <3>2
      <4>2. w[k] = u[k] /\ w[k - 1] = u[k - 1]  BY <3>2, <4>1
      <4> QED BY <2>5, <3>2, <4>1, <4>2
    <3>3. CASE k # m /\ k = 0
      <4>1. k \in 0 .. m - 1  BY <1>2, <3>3
      <4>2. w[k] = u[k]  BY <3>3
      <4> QED BY <2>5, <3>3, <4>1, <4>2
    <3> QED BY <3>1, <3>2, <3>3
  <2>7. IsRun(w, holds, st, c, m)
    <3> DEFINE e(k) == IF k = 0 THEN st ELSE Execute(holds, w[k - 1], c[k])
    <3>1. w = [k \in 0 .. m |-> w[k]]  OBVIOUS
    <3>2. \A k \in 0 .. m : w[k] = e(k)  BY <2>6
    <3> HIDE DEF w, e
    <3>3. w = [k \in 0 .. m |-> e(k)]  BY <3>1, <3>2
    <3> QED BY <3>3 DEF IsRun, e
  <2> QED BY <1>2, <2>7
<1> QED BY <1>3, <1>4

LEMMA RunIs ==
  ASSUME NEW holds, NEW st, NEW c, NEW n \in Nat, n = Len(c)
  PROVE  Runs(Run(holds, st, c), holds, st, c, n)
<1> DEFINE v == CHOOSE A : IsRun(A, holds, st, c, n)
<1>1. Run(holds, st, c) = v  BY Zenon DEF Run, IsRun
<1>2. IsRun(v, holds, st, c, n)  BY RunExists
<1> HIDE DEF v
<1> DEFINE e(k) == IF k = 0 THEN st ELSE Execute(holds, v[k - 1], c[k])
<1>3. v = [k \in 0 .. n |-> e(k)]  BY <1>2 DEF IsRun
<1> HIDE DEF e
<1>4. \A k \in 0 .. n : v[k] = e(k)  BY <1>3
<1>5. v[0] = st
  <2>1. 0 \in 0 .. n  OBVIOUS
  <2>2. v[0] = e(0)  BY <1>4, <2>1
  <2> QED BY <2>2 DEF e
<1>6. ASSUME NEW k \in 1 .. n  PROVE v[k] = Execute(holds, v[k - 1], c[k])
  <2>1. k \in 0 .. n /\ k # 0  OBVIOUS
  <2>2. v[k] = e(k)  BY <1>4, <2>1
  <2> QED BY <2>1, <2>2 DEF e
<1>7. Runs(v, holds, st, c, n)  BY <1>5, <1>6 DEF Runs
<1> QED BY <1>1, <1>7

\* Where a run may leave to.
Targets(c, k) == {{}} \cup {{c[j].blocks} : j \in 1 .. k}

KindsIn(c, n) == \A k \in 1 .. n : c[k].kind \in Kinds
StatesIn(A, c, n, st, R) ==
  \A k \in 0 .. n : IsState(A[k], R) /\ A[k].at = st.at /\ A[k].to \in Targets(c, k)

LEMMA RunStates ==
  ASSUME NEW holds, NEW R, NEW st, IsState(st, R), NEW c, NEW n \in Nat,
         KindsIn(c, n), NEW A, Runs(A, holds, st, c, n), st.to = {}
  PROVE  StatesIn(A, c, n, st, R)
<1> DEFINE T == {k \in 0 .. n :
                   ~(IsState(A[k], R) /\ A[k].at = st.at /\ A[k].to \in Targets(c, k))}
<1> SUFFICES ASSUME T # {}  PROVE FALSE
  BY DEF StatesIn
<1>1. PICK m \in T : \A k \in T : m <= k
  <2>1. T \subseteq Nat  OBVIOUS
  <2> HIDE DEF T
  <2> QED BY <2>1, Least
<1>2. m \in 0 .. n /\ ~(IsState(A[m], R) /\ A[m].at = st.at /\ A[m].to \in Targets(c, m))
  BY <1>1
<1>3. m # 0
  <2>1. A[0] = st  BY DEF Runs
  <2> QED BY <1>2, <2>1 DEF Targets
<1>4. m - 1 \in 0 .. n /\ m \in 1 .. n /\ ~(m <= m - 1)  BY <1>2, <1>3
<1>5. IsState(A[m - 1], R) /\ A[m - 1].at = st.at /\ A[m - 1].to \in Targets(c, m - 1)
  <2>1. m - 1 \notin T  BY <1>1, <1>4
  <2> QED BY <1>4, <2>1
<1>6. A[m] = Execute(holds, A[m - 1], c[m]) /\ c[m].kind \in Kinds  BY <1>4 DEF Runs, KindsIn
<1>7. Does(A[m], holds, A[m - 1], c[m], R)  BY <1>5, <1>6, Executes
<1>8. /\ IsState(A[m], R) /\ A[m].at = A[m - 1].at
      /\ A[m].to \in {{}, {c[m].blocks}, A[m - 1].to}
  BY <1>7 DEF Does
<1>9. Targets(c, m - 1) \subseteq Targets(c, m) /\ {{}, {c[m].blocks}} \subseteq Targets(c, m)
  <2>1. m \in 1 .. m /\ 1 .. m - 1 \subseteq 1 .. m  BY <1>4
  <2> QED BY <2>1 DEF Targets
<1> QED BY <1>2, <1>5, <1>8, <1>9

----------------------------------------------------------------------------
(* States that agree.                                                      *)

LEMMA AgreeTrans ==
  ASSUME NEW R, NEW D, NEW X, NEW s, NEW t, NEW u, Agree(s, t, R, D, X), Agree(t, u, R, D, X)
  PROVE  Agree(s, u, R, D, X)
BY DEF Agree

LEMMA AgreeSym ==
  ASSUME NEW R, NEW D, NEW X, NEW s, NEW t, Agree(s, t, R, D, X)
  PROVE  Agree(t, s, R, D, X)
BY DEF Agree

\* An instruction whose effect does not show.
Quiet(m, D, X) == Idle(m, X) \/ (IsSelect(m) /\ m.def \in D)

LEMMA QuietAgrees ==
  ASSUME NEW holds, NEW R, NEW D, NEW X, NEW s, IsState(s, R), NEW m, m.kind \in Kinds,
         Quiet(m, D, X), NEW e, e = Execute(holds, s, m)
  PROVE  Agree(e, s, R, D, X)
<1>0. Does(e, holds, s, m, R)  BY Executes
<1>1. /\ s.to # {} \/ m.kind = "phi" => e = s
      /\ s.to = {} /\ m.kind # "phi" =>
           /\ e.to = IF IsTerminator(m) /\ Taken(holds, m) THEN {m.blocks} ELSE {}
           /\ e.mem = IF Accesses(m) THEN Append(s.mem, Term(s.env, m)) ELSE s.mem
           /\ \A r \in R : e.env[r] = IF Writes(m) /\ r = m.def
                                      THEN Result(holds, s.env, m) ELSE s.env[r]
           /\ \A x : ShownOf(e, x) =
                       IF m.kind = "debug" /\ x = m.attr
                       THEN Append(ShownOf(s, x), Value(s.env, m.args[1]))
                       ELSE ShownOf(s, x)
  BY <1>0 DEF Does
<1>2. CASE s.to # {} \/ m.kind = "phi"
  BY <1>1, <1>2 DEF Agree
<1>3. CASE s.to = {} /\ m.kind # "phi"
  <2>1. ~IsTerminator(m) /\ ~Accesses(m) /\ (Writes(m) => m.def \in D)
        /\ (m.kind = "debug" => m.attr \notin X)
    BY <1>3 DEF Quiet, Idle, IsSelect, IsTerminator, Accesses, Writes
  <2>2. \A r \in R \ D : e.env[r] = s.env[r]  BY <1>1, <1>3, <2>1
  <2>3. \A x \in X : ShownOf(e, x) = ShownOf(s, x)  BY <1>1, <1>3, <2>1
  <2>4. e.to = s.to /\ e.mem = s.mem  BY <1>1, <1>3, <2>1
  <2> QED BY <2>2, <2>3, <2>4 DEF Agree
<1> QED BY <1>2, <1>3

\* What an instruction reads to do its work.
Clear(m, D) ==
  IF IsSelect(m) THEN m.args[3] \notin D /\ m.args[4] \notin D
  ELSE \A k \in DOMAIN m.args : m.args[k] \notin D

\* The same instruction, but for the blocks of a phi.
Same(c, m) ==
  /\ c.kind = m.kind /\ c.def = m.def /\ c.args = m.args /\ c.attr = m.attr
  /\ m.kind # "phi" => c.blocks = m.blocks

LEMMA ValuesAgree ==
  ASSUME NEW R, NEW D, NEW X, NEW s, IsState(s, R), NEW t, IsState(t, R), Agree(s, t, R, D, X),
         NEW x, x \notin D
  PROVE  Value(s.env, x) = Value(t.env, x)
<1>1. DOMAIN s.env = R /\ DOMAIN t.env = R
  <2>1. s.env = [r \in R |-> s.env[r]]  BY DEF IsState
  <2>2. t.env = [r \in R |-> t.env[r]]  BY DEF IsState
  <2> QED BY <2>1, <2>2
<1> QED BY <1>1 DEF Value, Agree

LEMMA TermsAgree ==
  ASSUME NEW R, NEW D, NEW X, NEW s, IsState(s, R), NEW t, IsState(t, R), Agree(s, t, R, D, X),
         NEW m, ~IsSelect(m), Clear(m, D), NEW c, Same(c, m)
  PROVE  Term(s.env, m) = Term(t.env, c)
<1>1. \A k \in DOMAIN m.args : Value(s.env, m.args[k]) = Value(t.env, m.args[k])
  BY ValuesAgree DEF Clear
<1>2. Values(s.env, m.args) = Values(t.env, m.args)  BY <1>1 DEF Values
<1> QED BY <1>2 DEF Term, Same

LEMMA ExecuteAgrees ==
  ASSUME NEW holds, NEW R, NEW D, NEW X, NEW s, IsState(s, R), NEW t, IsState(t, R),
         Agree(s, t, R, D, X), NEW m, m.kind \in Kinds, NEW c, Same(c, m),
         Idle(m, X) \/ Clear(m, D), m.kind = "debug" => m.args[1] \notin D \/ m.attr \notin X,
         NEW e, e = Execute(holds, s, m), NEW u, u = Execute(holds, t, c)
  PROVE  Agree(e, u, R, D, X)
<1>0. Does(e, holds, s, m, R)  BY Executes
<1>1. /\ s.to # {} \/ m.kind = "phi" => e = s
      /\ s.to = {} /\ m.kind # "phi" =>
           /\ e.to = IF IsTerminator(m) /\ Taken(holds, m) THEN {m.blocks} ELSE {}
           /\ e.mem = IF Accesses(m) THEN Append(s.mem, Term(s.env, m)) ELSE s.mem
           /\ \A r \in R : e.env[r] = IF Writes(m) /\ r = m.def
                                      THEN Result(holds, s.env, m) ELSE s.env[r]
           /\ \A x : ShownOf(e, x) =
                       IF m.kind = "debug" /\ x = m.attr
                       THEN Append(ShownOf(s, x), Value(s.env, m.args[1]))
                       ELSE ShownOf(s, x)
  BY <1>0 DEF Does
<1>2. c.kind \in Kinds  BY DEF Same
<1>9. Does(u, holds, t, c, R)  BY <1>2, Executes
<1>3. /\ t.to # {} \/ c.kind = "phi" => u = t
      /\ t.to = {} /\ c.kind # "phi" =>
           /\ u.to = IF IsTerminator(c) /\ Taken(holds, c) THEN {c.blocks} ELSE {}
           /\ u.mem = IF Accesses(c) THEN Append(t.mem, Term(t.env, c)) ELSE t.mem
           /\ \A r \in R : u.env[r] = IF Writes(c) /\ r = c.def
                                      THEN Result(holds, t.env, c) ELSE t.env[r]
           /\ \A x : ShownOf(u, x) =
                       IF c.kind = "debug" /\ x = c.attr
                       THEN Append(ShownOf(t, x), Value(t.env, c.args[1]))
                       ELSE ShownOf(t, x)
  BY <1>9 DEF Does
<1>4. s.to = t.to  BY DEF Agree
<1>5. CASE s.to # {} \/ m.kind = "phi"
  BY <1>1, <1>3, <1>4, <1>5 DEF Same
<1>6. CASE s.to = {} /\ m.kind # "phi"
  <2>1. c.kind = m.kind /\ c.def = m.def /\ c.args = m.args /\ c.attr = m.attr /\ c.blocks = m.blocks
    BY <1>6 DEF Same
  <2>2. /\ Taken(holds, c) = Taken(holds, m) /\ IsTerminator(c) = IsTerminator(m)
        /\ Accesses(c) = Accesses(m) /\ Writes(c) = Writes(m)
    BY <2>1 DEF Taken, IsTerminator, Accesses, Writes
  <2>3. Accesses(m) => Term(s.env, m) = Term(t.env, c)
    <3> SUFFICES ASSUME Accesses(m)  PROVE Term(s.env, m) = Term(t.env, c)
      OBVIOUS
    <3>1. ~IsSelect(m) /\ ~Idle(m, X)  BY DEF Accesses, IsSelect, Idle
    <3> QED BY <3>1, TermsAgree
  <2>4. Writes(m) => Result(holds, s.env, m) = Result(holds, t.env, c)
    <3> SUFFICES ASSUME Writes(m)  PROVE Result(holds, s.env, m) = Result(holds, t.env, c)
      OBVIOUS
    <3>1. Clear(m, D)  BY DEF Writes, Idle
    <3>2. CASE IsSelect(m)
      <4>1. Chosen(holds, m) = Chosen(holds, c) /\ Chosen(holds, m) \notin D
        BY <2>1, <3>1, <3>2 DEF Chosen, Clear
      <4>2. Value(s.env, Chosen(holds, m)) = Value(t.env, Chosen(holds, m))
        BY <4>1, ValuesAgree
      <4>3. m.kind = "select" /\ c.kind = "select"  BY <2>1, <3>2 DEF IsSelect
      <4> QED BY <4>1, <4>2, <4>3 DEF Result
    <3>3. CASE ~IsSelect(m)
      <4>1. Term(s.env, m) = Term(t.env, c)  BY <3>1, <3>3, TermsAgree
      <4>2. m.kind # "select" /\ c.kind # "select"  BY <2>1, <3>3 DEF IsSelect
      <4> QED BY <4>1, <4>2 DEF Result
    <3> QED BY <3>2, <3>3
  <2>5. \A r \in R \ D : e.env[r] = u.env[r]
    BY <1>1, <1>3, <1>4, <1>6, <2>1, <2>2, <2>4 DEF Agree
  <2>6. e.to = u.to  BY <1>1, <1>3, <1>4, <1>6, <2>1, <2>2
  <2>7. e.mem = u.mem
    <3>1. s.mem = t.mem  BY DEF Agree
    <3> QED BY <1>1, <1>3, <1>4, <1>6, <2>1, <2>2, <2>3, <3>1
  <2>8. ASSUME NEW x \in X  PROVE ShownOf(e, x) = ShownOf(u, x)
    <3>1. ShownOf(s, x) = ShownOf(t, x)  BY DEF Agree
    <3>2. CASE m.kind = "debug" /\ x = m.attr
      <4>1. Value(s.env, m.args[1]) = Value(t.env, m.args[1])  BY <3>2, ValuesAgree
      <4> QED BY <1>1, <1>3, <1>4, <1>6, <2>1, <3>1, <3>2, <4>1
    <3>3. CASE ~(m.kind = "debug" /\ x = m.attr)
      BY <1>1, <1>3, <1>4, <1>6, <2>1, <3>1, <3>3
    <3> QED BY <3>2, <3>3
  <2> QED BY <2>5, <2>6, <2>7, <2>8 DEF Agree
<1> QED BY <1>5, <1>6

----------------------------------------------------------------------------
(* A run and one over a rearrangement of its code.                         *)

\* A has the states of a run over the first n instructions of c.
Trace(A, holds, c, n, R) ==
  /\ \A k \in 0 .. n : IsState(A[k], R)
  /\ \A k \in 1 .. n : c[k].kind \in Kinds /\ A[k] = Execute(holds, A[k - 1], c[k])

LEMMA QuietRun ==
  ASSUME NEW holds, NEW R, NEW D, NEW X, NEW c, NEW n \in Nat, NEW A, Trace(A, holds, c, n, R),
         NEW a \in 0 .. n, NEW b \in a .. n, \A k \in a + 1 .. b : Quiet(c[k], D, X)
  PROVE  Agree(A[b], A[a], R, D, X)
<1> DEFINE S == {k \in a .. b : ~Agree(A[k], A[a], R, D, X)}
<1> SUFFICES ASSUME S # {}  PROVE FALSE
  OBVIOUS
<1>1. PICK k \in S : \A l \in S : k <= l
  <2>1. S \subseteq Nat  OBVIOUS
  <2> HIDE DEF S
  <2> QED BY <2>1, Least
<1>2. k \in a .. b /\ ~Agree(A[k], A[a], R, D, X)  BY <1>1
<1>3. k # a  BY <1>2 DEF Agree
<1>4. k - 1 \in a .. b /\ k \in a + 1 .. b /\ k \in 1 .. n /\ k - 1 \in 0 .. n /\ ~(k <= k - 1)
  BY <1>2, <1>3
<1>5. Agree(A[k - 1], A[a], R, D, X)  BY <1>1, <1>4
<1>6. Agree(A[k], A[k - 1], R, D, X)
  <2>1. IsState(A[k - 1], R) /\ c[k].kind \in Kinds /\ A[k] = Execute(holds, A[k - 1], c[k])
    BY <1>4 DEF Trace
  <2> QED BY <1>4, <2>1, QuietAgrees
<1> QED BY <1>2, <1>5, <1>6, AgreeTrans

\* Nothing that differs outside D changes what m does.
Unaffected(m, D, X) ==
  /\ Idle(m, X) \/ Clear(m, D)
  /\ m.kind = "debug" => m.args[1] \notin D \/ m.attr \notin X

\* d has behind s0 the instructions of c at the positions at, up to hi; of those behind
\* lo it has all that show.
Rearranged(d, s0, c, lo, hi, r, at, D, X) ==
  /\ r \in Nat /\ s0 \in Nat /\ at \in [1 .. r -> 1 .. hi]
  /\ \A j, l \in 1 .. r : j < l => at[j] < at[l]
  /\ \A j \in 1 .. r : /\ Same(d[s0 + j], c[at[j]])
                       /\ at[j] > lo \/ Idle(c[at[j]], X)
                       /\ Unaffected(c[at[j]], D, X)
  /\ \A p \in lo + 1 .. hi : (\E j \in 1 .. r : at[j] = p) \/ Quiet(c[p], D, X)

LEMMA Simulates ==
  ASSUME NEW holds, NEW R, NEW D, NEW X,
         NEW c, NEW N \in Nat, NEW A, Trace(A, holds, c, N, R),
         NEW d, NEW M \in Nat, NEW B, Trace(B, holds, d, M, R),
         NEW lo \in 0 .. N, NEW hi \in lo .. N, NEW r, NEW s0, NEW at,
         Rearranged(d, s0, c, lo, hi, r, at, D, X), s0 + r <= M,
         Agree(A[lo], B[s0], R, D, X)
  PROVE  Agree(A[hi], B[s0 + r], R, D, X)
<1>1. /\ r \in Nat /\ s0 \in Nat /\ at \in [1 .. r -> 1 .. hi]
      /\ \A j, l \in 1 .. r : j < l => at[j] < at[l]
      /\ \A j \in 1 .. r : /\ Same(d[s0 + j], c[at[j]])
                           /\ at[j] > lo \/ Idle(c[at[j]], X)
                           /\ Unaffected(c[at[j]], D, X)
      /\ \A p \in lo + 1 .. hi : (\E j \in 1 .. r : at[j] = p) \/ Quiet(c[p], D, X)
  BY DEF Rearranged
<1> DEFINE Cut(p, k) == k \in 0 .. r /\ \A j \in 1 .. r : at[j] <= p <=> j <= k
           S == {p \in lo .. hi : \E k : Cut(p, k) /\ ~Agree(A[p], B[s0 + k], R, D, X)}
<1>2. ASSUME NEW k, Cut(lo, k)  PROVE Agree(A[lo], B[s0 + k], R, D, X)
  <2>1. s0 \in 0 .. M /\ s0 + k \in s0 .. M  BY <1>1, <1>2
  <2>2. ASSUME NEW l \in s0 + 1 .. s0 + k  PROVE Quiet(d[l], D, X)
    <3>1. l - s0 \in 1 .. r /\ s0 + (l - s0) = l /\ l - s0 <= k  BY <1>1, <1>2
    <3>2. at[l - s0] <= lo /\ at[l - s0] \in 1 .. hi  BY <1>1, <1>2, <3>1
    <3>3. Idle(c[at[l - s0]], X) /\ Same(d[l], c[at[l - s0]])  BY <1>1, <3>1, <3>2
    <3> QED BY <3>3 DEF Quiet, Idle, Same
  <2>3. Agree(B[s0 + k], B[s0], R, D, X)  BY <2>1, <2>2, QuietRun
  <2> QED BY <2>3, AgreeTrans, AgreeSym
<1>3. S = {}
  <2> SUFFICES ASSUME S # {}  PROVE FALSE
    OBVIOUS
  <2>1. PICK p \in S : \A l \in S : p <= l
    <3>1. S \subseteq Nat  OBVIOUS
    <3> HIDE DEF S
    <3> QED BY <3>1, Least
  <2>2. PICK k : Cut(p, k) /\ ~Agree(A[p], B[s0 + k], R, D, X)  BY <2>1
  <2>3. p \in lo .. hi /\ p # lo  BY <1>2, <2>1, <2>2
  <2>4. /\ p - 1 \in lo .. hi /\ p \in 1 .. N /\ p - 1 \in 0 .. N /\ ~(p <= p - 1)
        /\ p \in lo + 1 .. hi
    BY <2>3
  <2>5. \A l : Cut(p - 1, l) => Agree(A[p - 1], B[s0 + l], R, D, X)  BY <2>1, <2>4
  <2>6. IsState(A[p - 1], R) /\ c[p].kind \in Kinds /\ A[p] = Execute(holds, A[p - 1], c[p])
    BY <2>4 DEF Trace
  <2>7. CASE \E j \in 1 .. r : at[j] = p
    <3>1. PICK j \in 1 .. r : at[j] = p  BY <2>7
    <3>2. j = k
      <4>1. j <= k  BY <2>2, <3>1
      <4>2. ~(j < k)
        <5> SUFFICES ASSUME j < k  PROVE FALSE
          OBVIOUS
        <5>1. k \in 1 .. r /\ at[k] <= p  BY <2>2, <3>1
        <5>2. at[j] < at[k] /\ at[k] \in 1 .. hi  BY <1>1, <3>1, <5>1
        <5> QED BY <2>4, <3>1, <5>1, <5>2
      <4> QED BY <2>2, <4>1, <4>2
    <3>3. Cut(p - 1, k - 1)
      <4>1. k - 1 \in 0 .. r  BY <1>1, <3>1, <3>2
      <4>2. ASSUME NEW l \in 1 .. r  PROVE at[l] <= p - 1 <=> l <= k - 1
        <5>1. at[l] \in 1 .. hi  BY <1>1
        <5>2. at[l] <= p <=> l <= k  BY <2>2
        <5>3. at[l] = p <=> l = k
          <6>1. at[k] = p  BY <3>1, <3>2
          <6>2. l < k => at[l] < at[k]  BY <1>1, <3>1, <3>2
          <6>3. k < l => at[k] < at[l]  BY <1>1, <3>1, <3>2
          <6>4. l < k \/ l = k \/ k < l  BY <1>1, <3>1, <3>2
          <6>5. at[l] \in Int /\ at[k] \in Int
            <7>1. k \in 1 .. r  BY <3>1, <3>2
            <7>2. at[k] \in 1 .. hi  BY <1>1, <7>1
            <7> QED BY <5>1, <7>2
          <6> HIDE DEF Cut, S
          <6> QED BY <6>1, <6>2, <6>3, <6>4, <6>5
        <5>4. /\ p \in Int /\ at[l] \in Int /\ l \in Int /\ k \in Int
          <6>1. at[l] \in Int  BY <5>1
          <6>2. k \in 1 .. r  BY <3>1, <3>2
          <6> QED BY <2>4, <6>1, <6>2
        <5> QED BY ONLY <5>2, <5>3, <5>4
      <4> QED BY <4>1, <4>2
    <3>4. Agree(A[p - 1], B[s0 + (k - 1)], R, D, X)  BY <2>5, <3>3
    <3>5. /\ s0 + k \in 1 .. M /\ s0 + (k - 1) \in 0 .. M /\ (s0 + k) - 1 = s0 + (k - 1)
      BY <1>1, <3>1, <3>2
    <3>6. IsState(B[s0 + (k - 1)], R) /\ B[s0 + k] = Execute(holds, B[s0 + (k - 1)], d[s0 + k])
      <4>1. B[s0 + k] = Execute(holds, B[(s0 + k) - 1], d[s0 + k])  BY <3>5 DEF Trace
      <4> QED BY <3>5, <4>1 DEF Trace
    <3>7. Same(d[s0 + k], c[p]) /\ Unaffected(c[p], D, X)  BY <1>1, <3>1, <3>2
    <3>8. Agree(A[p], B[s0 + k], R, D, X)
      <4> HIDE DEF Cut, S
      <4> QED BY <2>6, <3>4, <3>6, <3>7, ExecuteAgrees DEF Unaffected
    <3> QED BY <2>2, <3>8
  <2>8. CASE ~ \E j \in 1 .. r : at[j] = p
    <3>1. Cut(p - 1, k)
      <4>1. ASSUME NEW l \in 1 .. r  PROVE at[l] <= p - 1 <=> at[l] <= p
        <5>1. at[l] \in 1 .. hi /\ at[l] # p  BY <1>1, <2>8
        <5> QED BY <2>4, <5>1
      <4>2. k \in 0 .. r  BY <2>2
      <4>3. \A l \in 1 .. r : at[l] <= p <=> l <= k  BY <2>2
      <4> QED BY <4>1, <4>2, <4>3
    <3>2. Agree(A[p - 1], B[s0 + k], R, D, X)  BY <2>5, <3>1
    <3>3. Quiet(c[p], D, X)  BY <1>1, <2>4, <2>8
    <3>4. Agree(A[p], A[p - 1], R, D, X)
      <4> HIDE DEF Cut, S
      <4> QED BY <2>6, <3>3, QuietAgrees
    <3> QED BY <2>2, <3>2, <3>4, AgreeTrans
  <2> QED BY <2>7, <2>8
<1>4. Cut(hi, r)
  <2>1. \A j \in 1 .. r : at[j] \in 1 .. hi  BY <1>1
  <2>2. \A j \in 1 .. r : at[j] <= hi /\ j <= r  BY <1>1, <2>1
  <2> QED BY <1>1, <2>2
<1>5. hi \in lo .. hi  OBVIOUS
<1> QED BY <1>3, <1>4, <1>5

\* The two agree before each instruction behind lo too.
LEMMA SimulatesUpTo ==
  ASSUME NEW holds, NEW R, NEW D, NEW X,
         NEW c, NEW N \in Nat, NEW A, Trace(A, holds, c, N, R),
         NEW d, NEW M \in Nat, NEW B, Trace(B, holds, d, M, R),
         NEW lo \in 0 .. N, NEW hi \in lo .. N, NEW r, NEW s0, NEW at,
         Rearranged(d, s0, c, lo, hi, r, at, D, X), s0 + r <= M,
         Agree(A[lo], B[s0], R, D, X), NEW k \in 1 .. r, lo < at[k]
  PROVE  Agree(A[at[k] - 1], B[s0 + (k - 1)], R, D, X)
<1>1. /\ r \in Nat /\ s0 \in Nat /\ at \in [1 .. r -> 1 .. hi]
      /\ \A j, l \in 1 .. r : j < l => at[j] < at[l]
      /\ \A j \in 1 .. r : /\ Same(d[s0 + j], c[at[j]])
                           /\ at[j] > lo \/ Idle(c[at[j]], X)
                           /\ Unaffected(c[at[j]], D, X)
      /\ \A p \in lo + 1 .. hi : (\E j \in 1 .. r : at[j] = p) \/ Quiet(c[p], D, X)
  BY DEF Rearranged
<1> DEFINE h == at[k] - 1
           e == k - 1
           w == [j \in 1 .. e |-> at[j]]
<1>2. at[k] \in 1 .. hi  BY <1>1
<1>3. h \in lo .. N /\ h \in lo .. hi /\ e \in Nat /\ s0 + e <= M  BY <1>1, <1>2
<1>4. \A j \in 1 .. e : j \in 1 .. r /\ j < k /\ w[j] = at[j]  BY <1>1
<1>5. \A j \in 1 .. e : w[j] \in 1 .. h
  <2> SUFFICES ASSUME NEW j \in 1 .. e  PROVE w[j] \in 1 .. h
    OBVIOUS
  <2>1. j \in 1 .. r /\ j < k /\ w[j] = at[j]  BY <1>4
  <2>2. at[j] < at[k] /\ at[j] \in 1 .. hi  BY <1>1, <2>1
  <2> HIDE DEF w
  <2> QED BY <1>2, <2>1, <2>2
<1>6. \A p \in lo + 1 .. h : (\E j \in 1 .. e : w[j] = p) \/ Quiet(c[p], D, X)
  <2> SUFFICES ASSUME NEW p \in lo + 1 .. h, ~Quiet(c[p], D, X)  PROVE \E j \in 1 .. e : w[j] = p
    OBVIOUS
  <2>1. p \in lo + 1 .. hi /\ p < at[k]  BY <1>2, <1>3
  <2>2. PICK j \in 1 .. r : at[j] = p  BY <1>1, <2>1
  <2>3. ~(k < j) /\ j # k  BY <1>1, <1>2, <2>1, <2>2
  <2>4. j \in 1 .. e  BY <1>1, <2>3
  <2> QED BY <1>4, <2>2, <2>4
<1>7. w \in [1 .. e -> 1 .. h]
  <2>1. w = [j \in 1 .. e |-> w[j]]  OBVIOUS
  <2> HIDE DEF w
  <2> QED BY <1>5, <2>1
<1> HIDE DEF h, e, w
<1>8. \A j, l \in 1 .. e : j < l => w[j] < w[l]
  <2> SUFFICES ASSUME NEW j \in 1 .. e, NEW l \in 1 .. e, j < l  PROVE w[j] < w[l]
    OBVIOUS
  <2>1. j \in 1 .. r /\ l \in 1 .. r /\ w[j] = at[j] /\ w[l] = at[l]  BY <1>4
  <2> QED BY <1>1, <2>1
<1>9. \A j \in 1 .. e : /\ Same(d[s0 + j], c[w[j]]) /\ (w[j] > lo \/ Idle(c[w[j]], X))
                        /\ Unaffected(c[w[j]], D, X)
  <2> SUFFICES ASSUME NEW j \in 1 .. e
               PROVE  /\ Same(d[s0 + j], c[w[j]]) /\ (w[j] > lo \/ Idle(c[w[j]], X))
                      /\ Unaffected(c[w[j]], D, X)
    OBVIOUS
  <2>1. j \in 1 .. r /\ w[j] = at[j]  BY <1>4
  <2> QED BY <1>1, <2>1
<1>10. Rearranged(d, s0, c, lo, h, e, w, D, X)
  BY <1>1, <1>3, <1>6, <1>7, <1>8, <1>9 DEF Rearranged
<1>11. Agree(A[h], B[s0 + e], R, D, X)  BY <1>3, <1>10, Simulates
<1> QED BY <1>11 DEF h, e

----------------------------------------------------------------------------
(* What a run keeps.                                                       *)

LEMMA TraceHas ==
  ASSUME NEW holds, NEW R, NEW c, NEW n \in Nat, NEW A, Trace(A, holds, c, n, R), NEW k \in 1 .. n
  PROVE  Does(A[k], holds, A[k - 1], c[k], R)
<1>1. k - 1 \in 0 .. n  OBVIOUS
<1>2. IsState(A[k - 1], R) /\ c[k].kind \in Kinds /\ A[k] = Execute(holds, A[k - 1], c[k])
  BY <1>1 DEF Trace
<1> QED BY <1>2, Executes

LEMMA ValueIs ==
  ASSUME NEW R, NEW s, IsState(s, R), NEW x
  PROVE  Value(s.env, x) = IF x \in R THEN s.env[x] ELSE <<>>
<1>1. s.env = [r \in R |-> s.env[r]]  BY DEF IsState
<1>2. DOMAIN s.env = R  BY <1>1
<1> QED BY <1>2 DEF Value

\* No instruction behind a up to b defines x.
Undefined(c, a, b, x) == \A k \in a + 1 .. b : c[k].def # x

\* A register keeps its value where nothing defines it.
LEMMA KeepsValue ==
  ASSUME NEW holds, NEW R, NEW c, NEW n \in Nat, NEW A, Trace(A, holds, c, n, R),
         NEW a \in 0 .. n, NEW b \in a .. n, NEW x, Undefined(c, a, b, x)
  PROVE  Value(A[b].env, x) = Value(A[a].env, x)
<1> DEFINE S == {k \in a .. b : Value(A[k].env, x) # Value(A[a].env, x)}
<1> SUFFICES ASSUME S # {}  PROVE FALSE
  OBVIOUS
<1>1. PICK k \in S : \A l \in S : k <= l
  <2>1. S \subseteq Nat  OBVIOUS
  <2> HIDE DEF S
  <2> QED BY <2>1, Least
<1>2. k \in a .. b /\ k # a  BY <1>1
<1>3. k - 1 \in a .. b /\ k \in a + 1 .. b /\ k \in 1 .. n /\ k - 1 \in 0 .. n /\ ~(k <= k - 1)
  BY <1>2
<1>4. Value(A[k - 1].env, x) = Value(A[a].env, x)  BY <1>1, <1>3
<1>5. Does(A[k], holds, A[k - 1], c[k], R)  BY <1>3, TraceHas
<1>6. IsState(A[k - 1], R) /\ IsState(A[k], R)  BY <1>3 DEF Trace
<1>7. Value(A[k].env, x) = Value(A[k - 1].env, x)
  <2>1. x \in R => A[k].env[x] = A[k - 1].env[x]
    <3> SUFFICES ASSUME x \in R  PROVE A[k].env[x] = A[k - 1].env[x]
      OBVIOUS
    <3>1. c[k].def # x  BY <1>3 DEF Undefined
    <3>2. CASE A[k - 1].to # {} \/ c[k].kind = "phi"  BY <1>5, <3>2 DEF Does
    <3>3. CASE A[k - 1].to = {} /\ c[k].kind # "phi"
      <4>1. \A r \in R : A[k].env[r] = IF Writes(c[k]) /\ r = c[k].def
                           THEN Result(holds, A[k - 1].env, c[k]) ELSE A[k - 1].env[r]
        BY <1>5, <3>3 DEF Does
      <4> QED BY <3>1, <4>1
    <3> QED BY <3>2, <3>3
  <2> QED BY <1>6, <2>1, ValueIs
<1> QED BY <1>1, <1>4, <1>7

\* No debug value describes x in c behind a, up to b.
Unshown(c, a, b, x) == \A k \in a + 1 .. b : ~(IsDebug(c[k]) /\ c[k].attr = x)

\* What is shown of a variable stays the same where no debug value describes it.
LEMMA KeepsShown ==
  ASSUME NEW holds, NEW R, NEW c, NEW n \in Nat, NEW A, Trace(A, holds, c, n, R),
         NEW a \in 0 .. n, NEW b \in a .. n, NEW x, Unshown(c, a, b, x)
  PROVE  ShownOf(A[b], x) = ShownOf(A[a], x)
<1> DEFINE S == {k \in a .. b : ShownOf(A[k], x) # ShownOf(A[a], x)}
<1> SUFFICES ASSUME S # {}  PROVE FALSE
  OBVIOUS
<1>1. PICK k \in S : \A l \in S : k <= l
  <2>1. S \subseteq Nat  OBVIOUS
  <2> HIDE DEF S
  <2> QED BY <2>1, Least
<1>2. k \in a .. b /\ k # a  BY <1>1
<1>3. k - 1 \in a .. b /\ k \in a + 1 .. b /\ k \in 1 .. n /\ ~(k <= k - 1)
  BY <1>2
<1>4. ShownOf(A[k - 1], x) = ShownOf(A[a], x)  BY <1>1, <1>3
<1>5. Does(A[k], holds, A[k - 1], c[k], R)  BY <1>3, TraceHas
<1>6. ~(c[k].kind = "debug" /\ x = c[k].attr)  BY <1>3 DEF Unshown, IsDebug
<1>7. ShownOf(A[k], x) = ShownOf(A[k - 1], x)
  <2>1. CASE A[k - 1].to # {} \/ c[k].kind = "phi"  BY <1>5, <2>1 DEF Does
  <2>2. CASE A[k - 1].to = {} /\ c[k].kind # "phi"
    <3>1. \A y : ShownOf(A[k], y) = IF c[k].kind = "debug" /\ y = c[k].attr
             THEN Append(ShownOf(A[k - 1], y), Value(A[k - 1].env, c[k].args[1]))
             ELSE ShownOf(A[k - 1], y)
      BY <1>5, <2>2 DEF Does
    <3> QED BY <1>6, <3>1
  <2> QED BY <2>1, <2>2
<1> QED BY <1>1, <1>4, <1>7

DebugOf(m, x) == IsDebug(m) /\ m.attr = x

\* Register y is seen alike in two states.
SeenAlike(a, b, y) == a.to = b.to /\ Value(a.env, y) = Value(b.env, y)

LEMMA AllSeenAlike ==
  ASSUME NEW R, NEW D, D = {}, NEW X, NEW a, IsState(a, R), NEW b, IsState(b, R),
         Agree(a, b, R, D, X), NEW y
  PROVE  SeenAlike(a, b, y)
<1>1. \A E : E = D => y \notin E  OBVIOUS
<1>2. y \notin D  BY <1>1
<1>3. Value(a.env, y) = Value(b.env, y)
  BY ONLY <1>2, IsState(a, R), IsState(b, R), Agree(a, b, R, D, X), ValuesAgree
<1> QED BY <1>3 DEF Agree, SeenAlike

\* A over c has the debug values of x behind lo, up to hi, in the order in which B over
\* d has them at the positions `at`, r of them behind s0, and both see the same there.
SameDebug(A, c, lo, hi, B, d, s0, r, at, x) ==
  /\ r \in Nat /\ s0 \in Nat /\ \A j \in 1 .. r : at[j] \in Nat
  /\ \A j, l \in 1 .. r : j < l => at[j] < at[l]
  /\ \A j \in 1 .. r : Same(d[s0 + j], c[at[j]])
  /\ \A j \in 1 .. r : DebugOf(c[at[j]], x) =>
       at[j] \in lo + 1 .. hi /\ SeenAlike(A[at[j] - 1], B[s0 + (j - 1)], c[at[j]].args[1])
  /\ \A p \in lo + 1 .. hi : DebugOf(c[p], x) => \E j \in 1 .. r : at[j] = p

\* One step of both at a debug value of x.
LEMMA ShowsStep ==
  ASSUME NEW holds, NEW R, NEW x, NEW o, DebugOf(o, x), NEW e, Same(e, o),
         NEW a, NEW a2, Does(a2, holds, a, o, R), NEW b, NEW b2, Does(b2, holds, b, e, R),
         SeenAlike(a, b, o.args[1]), ShownOf(a, x) = ShownOf(b, x)
  PROVE  ShownOf(a2, x) = ShownOf(b2, x)
<1>1. /\ o.kind = "debug" /\ o.attr = x /\ e.kind = "debug" /\ e.attr = x /\ e.args = o.args
      /\ o.kind # "phi" /\ e.kind # "phi"
  BY DEF DebugOf, IsDebug, Same
<1>2. a.to = b.to /\ Value(a.env, o.args[1]) = Value(b.env, o.args[1])  BY DEF SeenAlike
<1>3. CASE a.to # {}
  <2>1. a2 = a /\ b2 = b  BY <1>2, <1>3 DEF Does
  <2> QED BY <2>1
<1>4. CASE a.to = {}
  <2>1. ShownOf(a2, x) = Append(ShownOf(a, x), Value(a.env, o.args[1]))
    BY <1>1, <1>4 DEF Does
  <2>2. ShownOf(b2, x) = Append(ShownOf(b, x), Value(b.env, e.args[1]))
    BY <1>1, <1>2, <1>4 DEF Does
  <2> QED BY <1>1, <1>2, <2>1, <2>2
<1> QED BY <1>3, <1>4

LEMMA ShowsAlike ==
  ASSUME NEW holds, NEW R, NEW x,
         NEW c, NEW N \in Nat, NEW A, Trace(A, holds, c, N, R),
         NEW d, NEW M \in Nat, NEW B, Trace(B, holds, d, M, R),
         NEW lo \in 0 .. N, NEW hi \in lo .. N, NEW r, NEW s0, NEW at,
         SameDebug(A, c, lo, hi, B, d, s0, r, at, x), s0 + r <= M,
         ShownOf(A[lo], x) = ShownOf(B[s0], x)
  PROVE  ShownOf(A[hi], x) = ShownOf(B[s0 + r], x)
<1>1. /\ r \in Nat /\ s0 \in Nat /\ \A j \in 1 .. r : at[j] \in Nat
      /\ \A j, l \in 1 .. r : j < l => at[j] < at[l]
      /\ \A j \in 1 .. r : Same(d[s0 + j], c[at[j]])
      /\ \A j \in 1 .. r : DebugOf(c[at[j]], x) =>
           at[j] \in lo + 1 .. hi /\ SeenAlike(A[at[j] - 1], B[s0 + (j - 1)], c[at[j]].args[1])
      /\ \A p \in lo + 1 .. hi : DebugOf(c[p], x) => \E j \in 1 .. r : at[j] = p
  BY DEF SameDebug
<1> DEFINE Cut(p, k) == k \in 0 .. r /\ \A j \in 1 .. r : DebugOf(c[at[j]], x) => (at[j] <= p <=> j <= k)
           S == {p \in lo .. hi : \E k : Cut(p, k) /\ ShownOf(A[p], x) # ShownOf(B[s0 + k], x)}
<1>2. ASSUME NEW k \in 0 .. r, NEW l \in k .. r, \A j \in k + 1 .. l : ~DebugOf(c[at[j]], x)
      PROVE  ShownOf(B[s0 + l], x) = ShownOf(B[s0 + k], x)
  <2> DEFINE a == s0 + k
             b == s0 + l
  <2>1. a \in 0 .. M /\ b \in a .. M  BY <1>1
  <2>2. ASSUME NEW w \in a + 1 .. b  PROVE ~(IsDebug(d[w]) /\ d[w].attr = x)
    <3> DEFINE j == w - s0
    <3>1. j \in k + 1 .. l /\ j \in 1 .. r /\ s0 + j = w  BY <1>1
    <3> HIDE DEF j
    <3>2. ~DebugOf(c[at[j]], x) /\ Same(d[w], c[at[j]])  BY <1>1, <1>2, <3>1
    <3> QED BY <3>2 DEF DebugOf, IsDebug, Same
  <2>3. Unshown(d, a, b, x)  BY <2>2 DEF Unshown
  <2> HIDE DEF a, b
  <2>4. ShownOf(B[b], x) = ShownOf(B[a], x)  BY <2>1, <2>3, KeepsShown
  <2> QED BY <2>4 DEF a, b
<1>3. ASSUME NEW k, Cut(lo, k)  PROVE ShownOf(A[lo], x) = ShownOf(B[s0 + k], x)
  <2> DEFINE z == 0
  <2>1. z \in 0 .. r /\ k \in z .. r /\ s0 + z = s0  BY <1>1, <1>3
  <2>2. ASSUME NEW j \in z + 1 .. k  PROVE ~DebugOf(c[at[j]], x)
    <3> SUFFICES ASSUME DebugOf(c[at[j]], x)  PROVE FALSE
      OBVIOUS
    <3>1. j \in 1 .. r /\ j <= k  BY <1>1, <2>1
    <3>2. at[j] <= lo /\ at[j] \in lo + 1 .. hi  BY <1>1, <1>3, <3>1
    <3> QED BY <3>2
  <2> HIDE DEF z
  <2>3. ShownOf(B[s0 + k], x) = ShownOf(B[s0 + z], x)  BY <1>2, <2>1, <2>2
  <2> QED BY <2>1, <2>3
<1>4. S = {}
  <2> SUFFICES ASSUME S # {}  PROVE FALSE
    OBVIOUS
  <2>1. PICK p \in S : \A l \in S : p <= l
    <3>1. S \subseteq Nat  OBVIOUS
    <3> HIDE DEF S
    <3> QED BY <3>1, Least
  <2>2. PICK k : Cut(p, k) /\ ShownOf(A[p], x) # ShownOf(B[s0 + k], x)  BY <2>1
  <2>3. p \in lo .. hi /\ p # lo  BY <1>3, <2>1, <2>2
  <2>4. /\ p - 1 \in lo .. hi /\ p \in 1 .. N /\ p - 1 \in 0 .. N /\ ~(p <= p - 1)
        /\ p \in lo + 1 .. hi
    BY <2>3
  <2>5. \A l : Cut(p - 1, l) => ShownOf(A[p - 1], x) = ShownOf(B[s0 + l], x)  BY <2>1, <2>4
  <2>6. Does(A[p], holds, A[p - 1], c[p], R)  BY <2>4, TraceHas
  <2>20. k \in 0 .. r /\ \A j \in 1 .. r : DebugOf(c[at[j]], x) => (at[j] <= p <=> j <= k)
    BY <2>2
  <2>7. CASE DebugOf(c[p], x)
    <3>1. PICK j \in 1 .. r : at[j] = p  BY <1>1, <2>4, <2>7
    <3>2. DebugOf(c[at[j]], x)  BY <2>7, <3>1
    <3>3. j <= k /\ k \in j .. r /\ j \in 0 .. r /\ j - 1 \in 0 .. r
      <4>1. at[j] <= p  BY <1>1, <3>1
      <4>2. j <= k  BY <2>20, <3>2, <4>1
      <4> HIDE DEF Cut, S
      <4> QED BY <1>1, <2>20, <4>2
    <3>4. Cut(p - 1, j - 1)
      <4> SUFFICES ASSUME NEW l \in 1 .. r, DebugOf(c[at[l]], x)
                   PROVE  at[l] <= p - 1 <=> l <= j - 1
        BY <3>3
      <4>1. l < j => at[l] < p  BY <1>1, <3>1
      <4>2. j < l => p < at[l]  BY <1>1, <3>1
      <4>3. l = j => at[l] = p  BY <3>1
      <4>4. at[l] \in Nat  BY <1>1
      <4> HIDE DEF Cut, S
      <4> QED BY <1>1, <2>4, <4>1, <4>2, <4>3, <4>4
    <3>5. ShownOf(A[p - 1], x) = ShownOf(B[s0 + (j - 1)], x)  BY <2>5, <3>4
    <3>6. Does(B[s0 + j], holds, B[s0 + (j - 1)], d[s0 + j], R)
      <4>1. s0 + j \in 1 .. M /\ (s0 + j) - 1 = s0 + (j - 1)  BY <1>1
      <4>2. Does(B[s0 + j], holds, B[(s0 + j) - 1], d[s0 + j], R)  BY <4>1, TraceHas
      <4> QED BY <4>1, <4>2
    <3>7. Same(d[s0 + j], c[p]) /\ SeenAlike(A[p - 1], B[s0 + (j - 1)], c[p].args[1])
      BY <1>1, <3>1, <3>2
    <3>8. ShownOf(A[p], x) = ShownOf(B[s0 + j], x)
      <4> HIDE DEF Cut, S
      <4> QED BY <2>6, <2>7, <3>5, <3>6, <3>7, ShowsStep
    <3>9. \A l \in j + 1 .. k : ~DebugOf(c[at[l]], x)
      <4> SUFFICES ASSUME NEW l \in j + 1 .. k, DebugOf(c[at[l]], x)  PROVE FALSE
        OBVIOUS
      <4> HIDE DEF Cut, S
      <4>1. l \in 1 .. r /\ l <= k /\ j < l  BY <1>1, <2>20
      <4>2. at[l] <= p /\ p < at[l] /\ at[l] \in Nat  BY <1>1, <2>20, <3>1, <4>1
      <4> QED BY <2>4, <4>2
    <3>10. ShownOf(B[s0 + k], x) = ShownOf(B[s0 + j], x)
      <4> HIDE DEF Cut, S
      <4> QED BY <1>2, <3>3, <3>9
    <3> QED BY <2>2, <3>8, <3>10
  <2>8. CASE ~DebugOf(c[p], x)
    <3>1. Cut(p - 1, k)
      <4> SUFFICES ASSUME NEW l \in 1 .. r, DebugOf(c[at[l]], x)
                   PROVE  at[l] <= p - 1 <=> l <= k
        BY <2>20
      <4>1. at[l] # p /\ at[l] \in Nat /\ (at[l] <= p <=> l <= k)  BY <1>1, <2>8, <2>20
      <4> HIDE DEF Cut, S
      <4> QED BY <2>4, <4>1
    <3>2. ShownOf(A[p - 1], x) = ShownOf(B[s0 + k], x)  BY <2>5, <3>1
    <3>3. ShownOf(A[p], x) = ShownOf(A[p - 1], x)
      <4> DEFINE w == p - 1
      <4>1. w \in 0 .. N /\ p \in w .. N /\ \A l \in w + 1 .. p : l = p  BY <2>4
      <4>2. Unshown(c, w, p, x)  BY <2>8, <4>1 DEF Unshown, DebugOf
      <4> HIDE DEF w, Cut, S
      <4>3. ShownOf(A[p], x) = ShownOf(A[w], x)  BY <4>1, <4>2, KeepsShown
      <4> QED BY <4>3 DEF w
    <3> QED BY <2>2, <3>2, <3>3
  <2> QED BY <2>7, <2>8
<1>5. Cut(hi, r)
  <2> SUFFICES ASSUME NEW j \in 1 .. r, DebugOf(c[at[j]], x)  PROVE at[j] <= hi /\ j <= r
    BY <1>1
  <2>1. at[j] \in lo + 1 .. hi  BY <1>1
  <2> QED BY <1>1, <2>1
<1>6. hi \in lo .. hi  OBVIOUS
<1> QED BY <1>4, <1>5, <1>6

\* Control stays in a block up to its terminators.
LEMMA StaysIn ==
  ASSUME NEW holds, NEW R, NEW c, NEW n \in Nat, NEW A, Trace(A, holds, c, n, R), A[0].to = {},
         NEW b \in 0 .. n, \A k \in 1 .. b : ~IsTerminator(c[k])
  PROVE  \A k \in 0 .. b : A[k].to = {}
<1> DEFINE S == {k \in 0 .. b : A[k].to # {}}
<1> SUFFICES ASSUME S # {}  PROVE FALSE
  OBVIOUS
<1>1. PICK k \in S : \A l \in S : k <= l
  <2>1. S \subseteq Nat  OBVIOUS
  <2> HIDE DEF S
  <2> QED BY <2>1, Least
<1>2. k \in 0 .. b /\ k # 0 /\ A[k].to # {}  BY <1>1
<1>3. k - 1 \in 0 .. b /\ k \in 1 .. b /\ k \in 1 .. n /\ ~(k <= k - 1)
  BY <1>2
<1>4. A[k - 1].to = {}  BY <1>1, <1>3
<1>5. Does(A[k], holds, A[k - 1], c[k], R)  BY <1>3, TraceHas
<1>6. c[k].kind = "phi" => A[k] = A[k - 1]  BY <1>5 DEF Does
<1>7. c[k].kind # "phi" =>
        A[k].to = IF IsTerminator(c[k]) /\ Taken(holds, c[k]) THEN {c[k].blocks} ELSE {}
  BY <1>4, <1>5 DEF Does
<1> QED BY <1>2, <1>3, <1>4, <1>6, <1>7

----------------------------------------------------------------------------
(* What the code of Head reads.                                            *)

\* What an instruction reads is defined nowhere from it on.
LEMMA Foreign ==
  ASSUME NEW f, NEW n, FunctionOK(f, n), DefinedOnce(f), NEW b \in Blocks(f),
         NEW p \in 1 .. Len(f.body[b]), NEW x \in Registers, Available(f, b, p, x),
         NEW q \in p .. Len(f.body[b])
  PROVE  f.body[b][q].def # x
<1> SUFFICES ASSUME f.body[b][q].def = x  PROVE FALSE
  OBVIOUS
<1>1. Once(f) /\ x # NONE
  <2>1. x # NONE  BY DEF Registers
  <2> QED BY <2>1, OnceIs
<1>2. \A d \in Blocks(f) : Sequence(f.body[d])  BY DEF FunctionOK, BlockOK, InstrsOK
<1>3. Len(f.body[b]) \in Nat  BY <1>2, SequenceHas
<1>4. Defines(f, b, q, x)  BY <1>3 DEF Defines
<1>5. CASE DefinedBefore(f, b, p, x)
  <2>1. PICK k \in 1 .. p - 1 : f.body[b][k].def = x  BY <1>5 DEF DefinedBefore
  <2>2. k \in 1 .. Len(f.body[b]) /\ k # q  BY <1>3, <2>1
  <2>3. Defines(f, b, k, x)  BY <2>1, <2>2 DEF Defines
  <2>4. k = q
    <3>1. Defines(f, b, k, x) /\ Defines(f, b, q, x)  BY <1>4, <2>3
    <3> QED BY <1>1, <3>1 DEF Once
  <2> QED BY <2>2, <2>4
<1>6. CASE ~DefinedBefore(f, b, p, x)
  <2>1. PICK d \in Blocks(f) \ {b} : DefinedIn(f, d, x)  BY <1>6 DEF Available
  <2>2. PICK k \in 1 .. Len(f.body[d]) : f.body[d][k].def = x  BY <1>2, <2>1, DefinedHas
  <2>3. Defines(f, d, k, x)  BY <2>2 DEF Defines
  <2>4. d = b  BY <1>1, <1>4, <2>3 DEF Once
  <2> QED BY <2>1, <2>4
<1> QED BY <1>5, <1>6

\* The destinations of the selects of the sequence.
Dests(c, i, last) == {c[k].def : k \in {j \in i .. last : IsSelect(c[j])}}

\* The code that Head keeps reads no destination: the earlier ones because the scan did
\* not stop, the later ones because registers are defined once.
LEMMA ReadsNoDest ==
  ASSUME NEW f, NEW n, FunctionOK(f, n), DefinedOnce(f), UsesDominated(f),
         NEW H \in Blocks(f), NEW i, NEW last, Scanned(f, H, i, last), NEW p \in 1 .. last,
         f.body[H][p].kind # "phi", ~IsDebug(f.body[H][p])
  PROVE  Clear(f.body[H][p], Dests(f.body[H], i, last))
<1> DEFINE c == f.body[H]
           m == c[p]
           D == Dests(c, i, last)
<1>1. /\ Sequence(c) /\ \A k \in 1 .. Len(c) : InstrOK(f, c[k])
  BY DEF FunctionOK, BlockOK, InstrsOK
<1>2. Len(c) \in Nat /\ i \in 1 .. Len(c) /\ last \in i .. Len(c) /\ p \in 1 .. Len(c)
  BY <1>1, SequenceHas DEF Scanned
<1>3. InstrOK(f, m)  BY <1>1, <1>2
<1>4. \A x \in Range(m.args) : x \in Registers /\ Available(f, H, p, x)
  <2>1. \A b \in Blocks(f) : Sequence(f.body[b])  BY DEF FunctionOK, BlockOK, InstrsOK
  <2>2. UseOK(f, m, H, p)  BY <1>2, <2>1, UsesAre
  <2>3. \A x \in Uses(m) : Available(f, H, p, x)  BY <2>2 DEF UseOK
  <2> QED BY <1>3, <2>3, Reads
<1>5. \A k \in DOMAIN m.args : m.args[k] \in Range(m.args)  BY <1>3, Reads
<1>6. ASSUME NEW x \in Range(m.args), i <= p => x \notin SelectDests(c, i, p)
      PROVE  x \notin D
  <2> SUFFICES ASSUME NEW k \in i .. last, IsSelect(c[k]), c[k].def = x  PROVE FALSE
    BY DEF Dests
  <2>1. CASE p <= k
    <3>1. k \in p .. Len(c) /\ x \in Registers /\ Available(f, H, p, x)  BY <1>2, <1>4, <2>1
    <3> QED BY <1>2, <3>1, Foreign
  <2>2. CASE ~(p <= k)
    <3>1. i <= p /\ k \in i .. p - 1  BY <1>2, <2>2
    <3>2. x \in SelectDests(c, i, p)  BY <3>1 DEF SelectDests
    <3> QED BY <1>6, <3>1, <3>2
  <2> QED BY <2>1, <2>2
<1>7. i <= p =>
        /\ IsSelect(m) => /\ m.args[3] \notin SelectDests(c, i, p)
                          /\ m.args[4] \notin SelectDests(c, i, p)
        /\ ~IsSelect(m) /\ ~IsDebug(m) => \A x \in Range(m.args) : x \notin SelectDests(c, i, p)
  <2> SUFFICES ASSUME i <= p
               PROVE  /\ IsSelect(m) => /\ m.args[3] \notin SelectDests(c, i, p)
                                        /\ m.args[4] \notin SelectDests(c, i, p)
                      /\ ~IsSelect(m) /\ ~IsDebug(m) =>
                           \A x \in Range(m.args) : x \notin SelectDests(c, i, p)
    OBVIOUS
  <2>1. p \in i .. last  BY <1>2
  <2> QED BY <1>3, <2>1, ReadsNoResult
<1>8. CASE IsSelect(m)
  <2>1. m.args[3] \in Range(m.args) /\ m.args[4] \in Range(m.args)
    BY <1>3, <1>8, SelectReads
  <2>2. m.args[3] \notin D /\ m.args[4] \notin D  BY <1>6, <1>7, <1>8, <2>1
  <2> QED BY <1>8, <2>2 DEF Clear
<1>9. CASE ~IsSelect(m)
  <2>1. \A k \in DOMAIN m.args : m.args[k] \notin D  BY <1>5, <1>6, <1>7, <1>9
  <2> QED BY <1>9, <2>1 DEF Clear
<1> QED BY <1>8, <1>9

HasChosen(a, m, holds) == a.env[m.def] = Value(a.env, Chosen(holds, m))

\* At the end of the sequence the destination of a select still has the value chosen,
\* and the register it was chosen from still has it too.
LEMMA ChosenKept ==
  ASSUME NEW f, NEW n, FunctionOK(f, n), DefinedOnce(f), UsesDominated(f),
         NEW H \in Blocks(f), NEW i, NEW last, Scanned(f, H, i, last), NEW p \in i .. last,
         IsSelect(f.body[H][p]), f.body[H][p].def \in Regs(f),
         NEW holds, NEW A, Trace(A, holds, f.body[H], Len(f.body[H]), Regs(f)),
         NEW w, w = A[p - 1], w.to = {}, NEW a, a = A[last]
  PROVE  HasChosen(a, f.body[H][p], holds)
<1> DEFINE c == f.body[H]
           m == c[p]
           R == Regs(f)
           x == Chosen(holds, m)
           N == Len(c)
<1>1. /\ Sequence(c) /\ \A k \in 1 .. Len(c) : InstrOK(f, c[k])
  BY DEF FunctionOK, BlockOK, InstrsOK
<1>2. /\ N \in Nat /\ i \in 1 .. N /\ last \in i .. N /\ p \in 1 .. N /\ p - 1 \in 0 .. N
      /\ last \in 0 .. N /\ last \in p .. N /\ last \in p - 1 .. N /\ p \in 0 .. N
  <2>1. N \in Nat  BY <1>1, SequenceHas
  <2>2. i \in 1 .. N /\ last \in i .. N  BY DEF Scanned
  <2> HIDE DEF N, c
  <2> QED BY <2>1, <2>2
<1>3. InstrOK(f, m)  BY <1>1, <1>2
<1>4. x \in {m.args[3], m.args[4]}  BY DEF Chosen
<1>5. x \in Registers /\ Available(f, H, p, x)
  <2>1. \A b \in Blocks(f) : Sequence(f.body[b])  BY DEF FunctionOK, BlockOK, InstrsOK
  <2>2. UseOK(f, m, H, p)  BY <1>2, <2>1, UsesAre
  <2>3. m.kind # "phi" /\ ~IsDebug(m)  BY DEF IsSelect, IsDebug
  <2>4. \A y \in Range(m.args) : Available(f, H, p, y)
    BY <1>3, <2>2, <2>3, Reads DEF UseOK
  <2>5. m.args[3] \in Range(m.args) /\ m.args[4] \in Range(m.args)  BY <1>3, SelectReads
  <2>6. x \in Range(m.args)  BY <1>4, <2>5
  <2> QED BY <1>3, <2>4, <2>6, Reads
<1>6. Does(A[p], holds, A[p - 1], m, R)  BY <1>2, TraceHas
<1>7. A[p].env[m.def] = Value(A[p - 1].env, x)
  <2>1. m.kind = "select" /\ m.kind # "phi" /\ Writes(m)  BY DEF IsSelect, Writes
  <2>2. \A r \in R : A[p].env[r] = IF Writes(m) /\ r = m.def
                       THEN Result(holds, A[p - 1].env, m) ELSE A[p - 1].env[r]
    BY <1>6, <2>1 DEF Does
  <2>3. A[p].env[m.def] = Result(holds, A[p - 1].env, m)  BY <2>1, <2>2
  <2> QED BY <2>1, <2>3 DEF Result
<1>8. Value(A[last].env, x) = Value(A[p - 1].env, x)
  <2>1. \A k \in p .. N : c[k].def # x  BY <1>2, <1>5, Foreign
  <2>2. Undefined(c, p - 1, last, x)
    <3> HIDE DEF c, N, x
    <3> QED BY <1>2, <2>1 DEF Undefined
  <2>3. Trace(A, holds, c, N, R)  OBVIOUS
  <2> HIDE DEF x, c, N, R
  <2> QED BY <1>2, <2>2, <2>3, KeepsValue
<1>9. Value(A[last].env, m.def) = Value(A[p].env, m.def)
  <2>1. \A k \in p + 1 .. last : c[k].def # m.def
    <3> SUFFICES ASSUME NEW k \in p + 1 .. last, c[k].def = m.def  PROVE FALSE
      OBVIOUS
    <3>1. k \in 1 .. N /\ k # p  BY <1>2
    <3>2. m.def # NONE  BY DEF Regs
    <3>3. Defines(f, H, k, m.def) /\ Defines(f, H, p, m.def)  BY <1>2, <3>1 DEF Defines
    <3>4. Once(f)  BY OnceIs
    <3>5. k = p  BY <3>2, <3>3, <3>4 DEF Once
    <3> QED BY <3>1, <3>5
  <2>2. Trace(A, holds, c, N, R)  OBVIOUS
  <2> DEFINE y == m.def
  <2>3. Undefined(c, p, last, y)  BY <2>1 DEF Undefined
  <2> HIDE DEF y, c, N, R
  <2>4. Value(A[last].env, y) = Value(A[p].env, y)  BY <1>2, <2>2, <2>3, KeepsValue
  <2> QED BY <2>4 DEF y
<1>10. IsState(A[last], R) /\ IsState(A[p], R)  BY <1>2 DEF Trace
<1>11. A[last].env[m.def] = A[p].env[m.def]  BY <1>9, <1>10, ValueIs
<1> QED BY <1>7, <1>8, <1>11 DEF HasChosen

----------------------------------------------------------------------------
(* Control enters a block.                                                 *)

\* e is the state st when block b of f has been entered from block p.
Entering(e, st, f, b, p, R) ==
  /\ IsState(e, R) /\ e.at = b /\ e.to = {} /\ e.mem = st.mem /\ e.shown = st.shown
  /\ \A q \in 1 .. Len(f.body[b]) :
       f.body[b][q].kind = "phi" /\ f.body[b][q].def \in R =>
         e.env[f.body[b][q].def] = Incoming(st.env, f.body[b][q], p)
  /\ \A x \in R :
       (\A q \in 1 .. Len(f.body[b]) : ~(f.body[b][q].kind = "phi" /\ f.body[b][q].def = x)) =>
         e.env[x] = st.env[x]

LEMMA EnterIs ==
  ASSUME NEW f, NEW n, FunctionOK(f, n), DefinedOnce(f), NEW b \in Blocks(f), NEW p,
         NEW R, NONE \notin R, NEW st, IsState(st, R), NEW e, e = Enter(f, st, p, b)
  PROVE  Entering(e, st, f, b, p, R)
<1> DEFINE c == f.body[b]
           N == Len(c)
           phis == {m \in Range(c) : m.kind = "phi"}
           has(x) == \E m \in phis : m.def = x
           val(x) == Incoming(st.env, CHOOSE m \in phis : m.def = x, p)
           env == [x \in DOMAIN st.env |-> IF has(x) THEN val(x) ELSE st.env[x]]
<1>1. Sequence(c)  BY DEF FunctionOK, BlockOK, InstrsOK
<1>2. Range(c) = {c[k] : k \in 1 .. N}  BY <1>1, SequenceHas
<1>3. st = [at |-> st.at, to |-> st.to, env |-> st.env, mem |-> st.mem, shown |-> st.shown]
      /\ DOMAIN st.env = R
  BY DEF IsState
<1>4. env = [x \in R |-> IF has(x) THEN val(x) ELSE st.env[x]]  BY <1>3
<1>5. e = [st EXCEPT !.at = b, !.to = {}, !.env = env]  BY DEF Enter
<1>6. e = [at |-> b, to |-> {}, env |-> env, mem |-> st.mem, shown |-> st.shown]
  <2> HIDE DEF env
  <2> QED BY <1>3, <1>5
<1>7. env = [x \in R |-> env[x]] /\ \A x \in R : env[x] = IF has(x) THEN val(x) ELSE st.env[x]
  <2> HIDE DEF has, val
  <2> QED BY <1>4
<1> HIDE DEF env
<1>8. IsState(e, R) /\ e.at = b /\ e.to = {} /\ e.mem = st.mem /\ e.shown = st.shown /\ e.env = env
  BY <1>6, <1>7 DEF IsState
<1>9. ASSUME NEW q \in 1 .. N, c[q].kind = "phi", c[q].def \in R
      PROVE  e.env[c[q].def] = Incoming(st.env, c[q], p)
  <2> DEFINE x == c[q].def
  <2>1. c[q] \in phis /\ x # NONE  BY <1>2, <1>9
  <2>2. ASSUME NEW m \in phis, m.def = x  PROVE m = c[q]
    <3>1. PICK k \in 1 .. N : m = c[k]  BY <1>2
    <3>2. Defines(f, b, k, x) /\ Defines(f, b, q, x)  BY <2>2, <3>1 DEF Defines
    <3>3. Once(f)  BY OnceIs
    <3>4. k = q  BY <2>1, <3>2, <3>3 DEF Once
    <3> QED BY <3>1, <3>4
  <2>3. has(x) /\ (CHOOSE m \in phis : m.def = x) = c[q]
    <3> HIDE DEF phis
    <3>1. \E m \in phis : m.def = x  BY <2>1
    <3>2. \A m \in phis : m.def = x => m = c[q]  BY <2>2
    <3> QED BY <3>1, <3>2
  <2>4. env[x] = val(x)
    <3>1. x \in R  BY <1>9
    <3> HIDE DEF has, val, x
    <3> QED BY <1>7, <2>3, <3>1
  <2>5. val(x) = Incoming(st.env, c[q], p)  BY <2>3
  <2> QED BY <1>8, <2>4, <2>5
<1>10. ASSUME NEW x \in R, \A q \in 1 .. N : ~(c[q].kind = "phi" /\ c[q].def = x)
       PROVE  e.env[x] = st.env[x]
  <2>1. ~has(x)
    <3> SUFFICES ASSUME NEW m \in phis, m.def = x  PROVE FALSE
      OBVIOUS
    <3>1. PICK k \in 1 .. N : m = c[k]  BY <1>2
    <3> QED BY <1>10, <3>1
  <2> HIDE DEF has, val
  <2> QED BY <1>7, <1>8, <2>1
<1> QED BY <1>8, <1>9, <1>10 DEF Entering

\* A phi that names its blocks once has the operand of the one that control comes from.
LEMMA IncomingIs ==
  ASSUME NEW env, NEW m, IsInjective(m.blocks), NEW k \in DOMAIN m.blocks
  PROVE  Incoming(env, m, m.blocks[k]) = Value(env, m.args[k])
<1> DEFINE p == m.blocks[k]
<1>1. p \in Range(m.blocks)  BY DEF Range
<1>2. \A l \in DOMAIN m.blocks : m.blocks[l] = p => l = k  BY DEF IsInjective
<1>3. (CHOOSE l \in DOMAIN m.blocks : m.blocks[l] = p) = k
  <2>1. m.blocks[k] = p  OBVIOUS
  <2> HIDE DEF p
  <2> QED BY <1>2, <2>1
<1> QED BY <1>1, <1>3 DEF Incoming

\* The block of g that stands for block p of f as the end of an edge.
Stands(p, H, T) == IF p = H THEN T ELSE p

LEMMA IncomingSame ==
  ASSUME NEW f, NEW n, FunctionOK(f, n), NEW g, NEW m, NEW H, NEW F, NEW T,
         Split(f, n, g, m, H, F, T), NEW b \in Blocks(f), NEW q \in 1 .. Len(f.body[b]),
         f.body[b][q].kind = "phi",
         NEW c, IsCopy(c, f.body[b][q], b \in f.succs[H], H, T),
         NEW R, NEW X, NEW s, IsState(s, R), NEW t, IsState(t, R), Agree(s, t, R, {}, X),
         NEW p \in Blocks(f)
  PROVE  Incoming(s.env, f.body[b][q], p) = Incoming(t.env, c, Stands(p, H, T))
<1> DEFINE o == f.body[b][q]
           on == b \in f.succs[H]
           p2 == Stands(p, H, T)
<1>1. /\ H \in Blocks(f) /\ T \notin Blocks(f)  BY SplitFacts
<1>2. IsInjective(o.blocks) /\ Range(o.blocks) = Preds(f, b) /\ InstrOK(f, o)
  BY DEF FunctionOK, BlockOK, PhisOK, InstrsOK
<1>3. T \notin Range(o.blocks) /\ (H \in Range(o.blocks) <=> on)
  BY <1>1, <1>2 DEF Preds
<1>4. /\ c.args = o.args
      /\ c.blocks = IF on THEN Renamed(o.blocks, H, T) ELSE o.blocks
  BY DEF IsCopy
<1>5. IsInjective(c.blocks)
  <2>1. IsInjective(Renamed(o.blocks, H, T))
    <3> DEFINE B == o.blocks
               P == Range(B)
    <3>1. IsInjective(B) /\ Range(B) = P /\ T \notin P  BY <1>2, <1>3
    <3> HIDE DEF B, P
    <3>2. IsInjective(Renamed(B, H, T))  BY <3>1, RenamedNames
    <3> QED BY <3>2 DEF B
  <2> QED BY <1>2, <1>4, <2>1
<1>6. /\ DOMAIN c.blocks = DOMAIN o.blocks
      /\ \A k \in DOMAIN o.blocks : c.blocks[k] = Stands(o.blocks[k], H, T)
  <2>1. CASE on
    <3>1. c.blocks = Renamed(o.blocks, H, T)  BY <1>4, <2>1
    <3> QED BY <3>1 DEF Renamed, Stands
  <2>2. CASE ~on
    <3>1. c.blocks = o.blocks  BY <1>4, <2>2
    <3>2. \A k \in DOMAIN o.blocks : o.blocks[k] # H  BY <1>3, <2>2 DEF Range
    <3> QED BY <3>1, <3>2 DEF Stands
  <2> QED BY <2>1, <2>2
<1>7. CASE p \in Range(o.blocks)
  <2>1. PICK k \in DOMAIN o.blocks : o.blocks[k] = p  BY <1>7 DEF Range
  <2>2. k \in DOMAIN c.blocks /\ c.blocks[k] = p2  BY <1>6, <2>1
  <2>3. Incoming(s.env, o, p) = Value(s.env, o.args[k])  BY <1>2, <2>1, IncomingIs
  <2>4. Incoming(t.env, c, p2) = Value(t.env, c.args[k])  BY <1>5, <2>2, IncomingIs
  <2>5. Value(s.env, o.args[k]) = Value(t.env, o.args[k])
    <3> DEFINE x == o.args[k]
               D == {}
    <3>1. x \notin D /\ Agree(s, t, R, D, X)  OBVIOUS
    <3> HIDE DEF x, D
    <3>2. Value(s.env, x) = Value(t.env, x)  BY <3>1, ValuesAgree
    <3> QED BY <3>2 DEF x
  <2> QED BY <1>4, <2>3, <2>4, <2>5
<1>8. CASE p \notin Range(o.blocks)
  <2>1. p2 \notin Range(c.blocks)
    <3> SUFFICES ASSUME NEW k \in DOMAIN c.blocks, c.blocks[k] = p2  PROVE FALSE
      BY DEF Range
    <3>1. k \in DOMAIN o.blocks /\ o.blocks[k] \in Range(o.blocks)  BY <1>6 DEF Range
    <3>2. Stands(o.blocks[k], H, T) = Stands(p, H, T)  BY <1>6, <3>1
    <3>3. o.blocks[k] # T /\ p # T /\ o.blocks[k] # p
      <4>1. p # T  BY <1>1
      <4> HIDE DEF o
      <4> QED BY <1>3, <1>8, <3>1, <4>1
    <3> QED BY <3>2, <3>3 DEF Stands
  <2> QED BY <1>8, <2>1 DEF Incoming
<1> QED BY <1>7, <1>8

\* The phis of a block of f are those of the same block of g.
PhisOf(c) == {p \in 1 .. Len(c) : c[p].kind = "phi"}

LEMMA PhisCopied ==
  ASSUME NEW f, NEW n, FunctionOK(f, n), NEW g, NEW m, NEW H, NEW F, NEW T,
         Split(f, n, g, m, H, F, T), NEW i, NEW last, Scanned(f, H, i, last),
         NEW d, NEW r, NEW at, NEW s, NEW q, NEW to, BranchesAround(d, f.body[H][i], T),
         Expanded(f, g, H, F, T, i, last, d, r, at, s, q, to), NEW b \in Blocks(f)
  PROVE  /\ \A p \in PhisOf(f.body[b]) : \E k \in PhisOf(g.body[b]) :
              IsCopy(g.body[b][k], f.body[b][p], b \in f.succs[H], H, T)
         /\ \A k \in PhisOf(g.body[b]) : \E p \in PhisOf(f.body[b]) :
              IsCopy(g.body[b][k], f.body[b][p], b \in f.succs[H], H, T)
<1>1. CASE b # H
  <2>1. Len(g.body[b]) = Len(f.body[b]) /\ \A p \in 1 .. Len(f.body[b]) :
          IsCopy(g.body[b][p], f.body[b][p], b \in f.succs[H], H, T)
    BY <1>1 DEF Expanded
  <2>2. \A p \in 1 .. Len(f.body[b]) : g.body[b][p].kind = f.body[b][p].kind
    BY <2>1 DEF IsCopy
  <2> QED BY <2>1, <2>2 DEF PhisOf
<1>2. CASE b = H
  <2> DEFINE c == f.body[H]
             h == g.body[H]
             on == H \in f.succs[H]
  <2>1. /\ Len(h) = r + 1 /\ r \in Nat /\ at \in [1 .. r -> 1 .. last] /\ h[r + 1] = d
        /\ \A k \in 1 .. r : IsCopy(h[k], c[at[k]], on, H, T)
        /\ \A p \in 1 .. last : p < i => \E k \in 1 .. r : at[k] = p
    BY DEF Expanded, HeadCopies
  <2>2. d.kind = "branch"  BY DEF BranchesAround, Branch, Instr
  <2>3. Len(c) \in Nat /\ i \in 1 .. Len(c) /\ last \in i .. Len(c)
    <3>1. Sequence(c)  BY <1>2 DEF FunctionOK, BlockOK, InstrsOK
    <3>2. Len(c) \in Nat  BY <3>1, SequenceHas
    <3> QED BY <3>2 DEF Scanned
  <2>4. ASSUME NEW p \in PhisOf(c)  PROVE p \in 1 .. last /\ p < i
    <3>1. p \in 1 .. Len(c) /\ c[p].kind = "phi"  BY DEF PhisOf
    <3>2. \A l \in 1 .. p : c[l].kind = "phi"
      BY <1>2, <3>1 DEF FunctionOK, BlockOK, PhisOK
    <3>3. c[i].kind # "phi"  BY DEF Scanned, IsSelect
    <3>4. ~(i <= p)  BY <2>3, <3>1, <3>2, <3>3
    <3> QED BY <2>3, <3>1, <3>4
  <2>5. ASSUME NEW p \in PhisOf(c)
        PROVE  \E k \in PhisOf(h) : IsCopy(h[k], c[p], on, H, T)
    <3>1. PICK k \in 1 .. r : at[k] = p  BY <2>1, <2>4
    <3>2. IsCopy(h[k], c[p], on, H, T) /\ k \in 1 .. Len(h)  BY <2>1, <3>1
    <3>3. h[k].kind = "phi"  BY <3>2 DEF IsCopy, PhisOf
    <3> QED BY <3>2, <3>3 DEF PhisOf
  <2>6. ASSUME NEW k \in PhisOf(h)
        PROVE  \E p \in PhisOf(c) : IsCopy(h[k], c[p], on, H, T)
    <3>1. k \in 1 .. Len(h) /\ h[k].kind = "phi"  BY DEF PhisOf
    <3>2. k \in 1 .. r  BY <2>1, <2>2, <3>1
    <3>3. IsCopy(h[k], c[at[k]], on, H, T) /\ at[k] \in 1 .. Len(c)  BY <2>1, <2>3, <3>2
    <3>4. c[at[k]].kind = "phi"  BY <3>1, <3>3 DEF IsCopy
    <3> QED BY <3>3, <3>4 DEF PhisOf
  <2> QED BY <1>2, <2>5, <2>6
<1> QED BY <1>1, <1>2

----------------------------------------------------------------------------
(* Control moves in f as it does in g.                                     *)

\* g is f with the select at i of H and its sequence expanded.
Expansion(f, n, g, m, H, F, T, i, last, d, r, at, s, q, to) ==
  /\ FunctionOK(f, n) /\ DefinedOnce(f) /\ UsesDominated(f)
  /\ FunctionOK(g, m) /\ DefinedOnce(g) /\ Regs(g) = Regs(f)
  /\ Split(f, n, g, m, H, F, T) /\ Scanned(f, H, i, last) /\ BranchesAround(d, f.body[H][i], T)
  /\ Expanded(f, g, H, F, T, i, last, d, r, at, s, q, to)

\* The two are at the same block of f, or have both left, and agree.
AtSame(u, v, f, R, X) ==
  /\ IsState(u, R) /\ IsState(v, R) /\ Agree(u, v, R, {}, X) /\ u.at = v.at
  /\ u.at = 0 \/ (u.at \in Blocks(f) /\ u.to = {})

LEMMA EnterAgrees ==
  ASSUME NEW f, NEW n, NEW g, NEW m, NEW H, NEW F, NEW T, NEW i, NEW last, NEW d, NEW r,
         NEW at, NEW s, NEW q, NEW to,
         Expansion(f, n, g, m, H, F, T, i, last, d, r, at, s, q, to),
         NEW R, R = Regs(f), NEW X, NEW u, IsState(u, R), NEW v, IsState(v, R),
         Agree(u, v, R, {}, X), NEW p \in Blocks(f), NEW b \in Blocks(f),
         NEW e, e = Enter(f, u, p, b), NEW h, h = Enter(g, v, Stands(p, H, T), b)
  PROVE  AtSame(e, h, f, R, X)
<1> DEFINE p2 == Stands(p, H, T)
<1>1. /\ FunctionOK(f, n) /\ DefinedOnce(f) /\ FunctionOK(g, m) /\ DefinedOnce(g)
      /\ Split(f, n, g, m, H, F, T) /\ Scanned(f, H, i, last)
      /\ BranchesAround(d, f.body[H][i], T)
      /\ Expanded(f, g, H, F, T, i, last, d, r, at, s, q, to)
  BY DEF Expansion
<1>2. NONE \notin R  BY DEF Regs
<1>3. b \in Blocks(g)  BY <1>1, SplitFacts
<1>4. Entering(e, u, f, b, p, R)  BY <1>1, <1>2, EnterIs
<1>5. Entering(h, v, g, b, p2, R)  BY <1>1, <1>2, <1>3, EnterIs
<1>6. /\ IsState(e, R) /\ e.at = b /\ e.to = {} /\ e.mem = u.mem /\ e.shown = u.shown
      /\ IsState(h, R) /\ h.at = b /\ h.to = {} /\ h.mem = v.mem /\ h.shown = v.shown
  BY <1>4, <1>5 DEF Entering
<1>7. u.mem = v.mem /\ (\A x \in R : u.env[x] = v.env[x])
      /\ \A x \in X : ShownOf(u, x) = ShownOf(v, x)
  BY DEF Agree
<1>8. ASSUME NEW x \in R  PROVE e.env[x] = h.env[x]
  <2>1. CASE \E l \in PhisOf(f.body[b]) : f.body[b][l].def = x
    <3>1. PICK l \in PhisOf(f.body[b]) : f.body[b][l].def = x  BY <2>1
    <3>2. PICK k \in PhisOf(g.body[b]) : IsCopy(g.body[b][k], f.body[b][l], b \in f.succs[H], H, T)
      BY <1>1, PhisCopied
    <3>3. l \in 1 .. Len(f.body[b]) /\ f.body[b][l].kind = "phi"  BY DEF PhisOf
    <3>4. k \in 1 .. Len(g.body[b]) /\ g.body[b][k].kind = "phi"  BY DEF PhisOf
    <3>5. g.body[b][k].def = x  BY <3>1, <3>2 DEF IsCopy
    <3>6. e.env[x] = Incoming(u.env, f.body[b][l], p)  BY <1>4, <3>1, <3>3 DEF Entering
    <3>7. h.env[x] = Incoming(v.env, g.body[b][k], p2)  BY <1>5, <3>4, <3>5 DEF Entering
    <3>8. Incoming(u.env, f.body[b][l], p) = Incoming(v.env, g.body[b][k], p2)
      <4> DEFINE w == g.body[b][k]
      <4>1. IsCopy(w, f.body[b][l], b \in f.succs[H], H, T)  BY <3>2
      <4> HIDE DEF w
      <4>2. Incoming(u.env, f.body[b][l], p) = Incoming(v.env, w, Stands(p, H, T))
        BY <1>1, <3>3, <4>1, IncomingSame
      <4> QED BY <4>2 DEF w
    <3> QED BY <3>6, <3>7, <3>8
  <2>2. CASE ~ \E l \in PhisOf(f.body[b]) : f.body[b][l].def = x
    <3>1. \A l \in 1 .. Len(f.body[b]) : ~(f.body[b][l].kind = "phi" /\ f.body[b][l].def = x)
      BY <2>2 DEF PhisOf
    <3>2. ASSUME NEW k \in 1 .. Len(g.body[b]), g.body[b][k].kind = "phi", g.body[b][k].def = x
          PROVE  FALSE
      <4>1. k \in PhisOf(g.body[b])  BY <3>2 DEF PhisOf
      <4>2. PICK l \in PhisOf(f.body[b]) :
              IsCopy(g.body[b][k], f.body[b][l], b \in f.succs[H], H, T)
        BY <1>1, <4>1, PhisCopied
      <4>3. f.body[b][l].def = x  BY <3>2, <4>2 DEF IsCopy
      <4> QED BY <2>2, <4>3
    <3>3. e.env[x] = u.env[x]  BY <1>4, <3>1 DEF Entering
    <3>4. h.env[x] = v.env[x]  BY <1>5, <3>2 DEF Entering
    <3> QED BY <1>7, <3>3, <3>4
  <2> QED BY <2>1, <2>2
<1>9. \A x \in X : ShownOf(e, x) = ShownOf(h, x)  BY <1>6, <1>7 DEF ShownOf
<1>10. Agree(e, h, R, {}, X)  BY <1>6, <1>7, <1>8, <1>9 DEF Agree
<1> QED BY <1>6, <1>10 DEF AtSame

\* Where control goes from block b in state st.
Goal(f, st, b) == IF st.to = {} THEN NextInLayout(f, b) ELSE UNION {Range(t) : t \in st.to}

LEMMA LeaveIs ==
  ASSUME NEW f, NEW st, NEW b
  PROVE  Leave(f, st, b) = IF Goal(f, st, b) = {} THEN [st EXCEPT !.at = 0]
                           ELSE Enter(f, st, b, CHOOSE x \in Goal(f, st, b) : TRUE)
BY DEF Leave, Goal

LEMMA GoalIn ==
  ASSUME NEW f, NEW n, FunctionOK(f, n), NEW b \in Blocks(f),
         NEW st, st.to \in Targets(f.body[b], Len(f.body[b]))
  PROVE  Goal(f, st, b) \subseteq Blocks(f)
<1>1. NextInLayout(f, b) \subseteq Blocks(f)  BY InBlocks
<1>2. \A k \in 1 .. Len(f.body[b]) : Range(f.body[b][k].blocks) \subseteq Blocks(f)
  <2> SUFFICES ASSUME NEW k \in 1 .. Len(f.body[b])
               PROVE  Range(f.body[b][k].blocks) \subseteq Blocks(f)
    OBVIOUS
  <2> DEFINE B == f.body[b][k].blocks
             S == Blocks(f)
  <2>1. InstrOK(f, f.body[b][k])  BY DEF FunctionOK, BlockOK, InstrsOK
  <2>2. B \in Seq(S)  BY <2>1 DEF InstrOK
  <2> HIDE DEF B, S
  <2>3. DOMAIN B = 1 .. Len(B) /\ \A j \in 1 .. Len(B) : B[j] \in S  BY <2>2
  <2>4. Range(B) \subseteq S  BY <2>3 DEF Range
  <2> QED BY <2>4 DEF B, S
<1>3. CASE st.to = {}  BY <1>1, <1>3 DEF Goal
<1>4. CASE st.to # {}
  <2>1. PICK k \in 1 .. Len(f.body[b]) : st.to = {f.body[b][k].blocks}
    BY <1>4 DEF Targets
  <2> DEFINE B == f.body[b][k].blocks
  <2>2. Goal(f, st, b) = UNION {Range(t) : t \in {B}}  BY <1>4, <2>1 DEF Goal
  <2>3. UNION {Range(t) : t \in {B}} = Range(B)
    <3> HIDE DEF B
    <3> QED OBVIOUS
  <2> QED BY <1>2, <2>2, <2>3
<1> QED BY <1>3, <1>4

LEMMA LeaveAgrees ==
  ASSUME NEW f, NEW n, NEW g, NEW m, NEW H, NEW F, NEW T, NEW i, NEW last, NEW d, NEW r,
         NEW at, NEW s, NEW q, NEW to,
         Expansion(f, n, g, m, H, F, T, i, last, d, r, at, s, q, to),
         NEW R, R = Regs(f), NEW X, NEW u, IsState(u, R), NEW v, IsState(v, R),
         Agree(u, v, R, {}, X), NEW b \in Blocks(f), u.to \in Targets(f.body[b], Len(f.body[b])),
         NEW e, e = Leave(f, u, b), NEW h, h = Leave(g, v, Stands(b, H, T))
  PROVE  AtSame(e, h, f, R, X)
<1> DEFINE b2 == Stands(b, H, T)
           G == Goal(f, u, b)
           c == CHOOSE x \in G : TRUE
<1>1. FunctionOK(f, n) /\ Split(f, n, g, m, H, F, T)  BY DEF Expansion
<1>2. NextInLayout(g, b2) = NextInLayout(f, b)
  BY <1>1 DEF Split, Triangle, Stands
<1>3. u.to = v.to  BY DEF Agree
<1>4. Goal(g, v, b2) = G  BY <1>2, <1>3 DEF Goal
<1>5. G \subseteq Blocks(f)  BY <1>1, GoalIn
<1>6. e = (IF G = {} THEN [u EXCEPT !.at = 0] ELSE Enter(f, u, b, c))
  BY LeaveIs
<1>7. h = (IF G = {} THEN [v EXCEPT !.at = 0] ELSE Enter(g, v, b2, c))
  BY <1>4, LeaveIs
<1> HIDE DEF G, b2
<1>8. CASE G = {}
  <2>1. e = [u EXCEPT !.at = 0] /\ h = [v EXCEPT !.at = 0]  BY <1>6, <1>7, <1>8
  <2>2. /\ u = [at |-> u.at, to |-> u.to, env |-> u.env, mem |-> u.mem, shown |-> u.shown]
        /\ v = [at |-> v.at, to |-> v.to, env |-> v.env, mem |-> v.mem, shown |-> v.shown]
    BY DEF IsState
  <2>3. /\ e = [at |-> 0, to |-> u.to, env |-> u.env, mem |-> u.mem, shown |-> u.shown]
        /\ h = [at |-> 0, to |-> v.to, env |-> v.env, mem |-> v.mem, shown |-> v.shown]
    BY <2>1, <2>2
  <2>4. /\ e.at = 0 /\ e.to = u.to /\ e.env = u.env /\ e.mem = u.mem /\ e.shown = u.shown
        /\ h.at = 0 /\ h.to = v.to /\ h.env = v.env /\ h.mem = v.mem /\ h.shown = v.shown
    BY <2>3
  <2>5. IsState(e, R) /\ IsState(h, R)  BY <2>3, <2>4 DEF IsState
  <2>6. \A x \in X : ShownOf(e, x) = ShownOf(h, x)
    <3>1. \A x : ShownOf(e, x) = ShownOf(u, x) /\ ShownOf(h, x) = ShownOf(v, x)
      BY <2>4 DEF ShownOf
    <3> QED BY <3>1 DEF Agree
  <2>7. Agree(e, h, R, {}, X)  BY <2>4, <2>6 DEF Agree
  <2> QED BY <2>4, <2>5, <2>7 DEF AtSame
<1>9. CASE G # {}
  <2>1. c \in G  BY <1>9
  <2>2. c \in Blocks(f)  BY <1>5, <2>1
  <2>3. e = Enter(f, u, b, c) /\ h = Enter(g, v, Stands(b, H, T), c)  BY <1>6, <1>7, <1>9 DEF b2
  <2> HIDE DEF c
  <2> QED BY <2>2, <2>3, EnterAgrees
<1> QED BY <1>8, <1>9

----------------------------------------------------------------------------
(* One block.                                                              *)

LEMMA TraceIs ==
  ASSUME NEW f, NEW n, FunctionOK(f, n), NEW b \in Blocks(f), NEW R, NEW st, IsState(st, R),
         st.to = {}, NEW holds, NEW A, A = Run(holds, st, f.body[b])
  PROVE  /\ Trace(A, holds, f.body[b], Len(f.body[b]), R) /\ A[0] = st
         /\ Len(f.body[b]) \in Nat
         /\ IsState(A[Len(f.body[b])], R)
         /\ A[Len(f.body[b])].to \in Targets(f.body[b], Len(f.body[b]))
<1> DEFINE c == f.body[b]
           N == Len(c)
<1>1. Sequence(c) /\ \A k \in 1 .. N : c[k].kind \in Kinds
  <2>1. Sequence(c) /\ \A k \in 1 .. N : InstrOK(f, c[k])
    BY DEF FunctionOK, BlockOK, InstrsOK
  <2> QED BY <2>1 DEF InstrOK
<1>2. N \in Nat  BY <1>1, SequenceHas
<1>3. Runs(A, holds, st, c, N)
  <2> HIDE DEF c
  <2> QED BY <1>2, RunIs DEF c
<1>4. \A k \in 0 .. N : IsState(A[k], R) /\ A[k].to \in Targets(c, k)
  <2>1. KindsIn(c, N)  BY <1>1 DEF KindsIn
  <2> HIDE DEF c, N
  <2>2. StatesIn(A, c, N, st, R)  BY <1>2, <1>3, <2>1, RunStates
  <2> QED BY <2>2 DEF StatesIn
<1>5. A[0] = st /\ \A k \in 1 .. N : A[k] = Execute(holds, A[k - 1], c[k])  BY <1>3 DEF Runs
<1>6. N \in 0 .. N  BY <1>2
<1> QED BY <1>1, <1>2, <1>4, <1>5, <1>6 DEF Trace

\* Where nothing differs, nothing is affected.
LEMMA NothingAffects ==
  ASSUME NEW m, NEW X
  PROVE  Unaffected(m, {}, X)
BY DEF Unaffected, Clear

LEMMA CopiesSame ==
  ASSUME NEW x, NEW y, NEW on, NEW H, NEW T, IsCopy(x, y, on, H, T)
  PROVE  Same(x, y)
BY DEF IsCopy, Same

LEMMA OtherStep ==
  ASSUME NEW f, NEW n, NEW g, NEW m, NEW H, NEW F, NEW T, NEW i, NEW last, NEW d, NEW r,
         NEW at, NEW s, NEW q, NEW to,
         Expansion(f, n, g, m, H, F, T, i, last, d, r, at, s, q, to),
         NEW R, R = Regs(f), NEW X, NEW u, NEW v, AtSame(u, v, f, R, X), u.at \in Blocks(f) \ {H},
         NEW holds
  PROVE  AtSame(RunBlock(f, holds, u, u.at), RunBlock(g, holds, v, u.at), f, R, X)
<1> DEFINE b == u.at
           c == f.body[b]
           k == g.body[b]
           N == Len(c)
           A == Run(holds, u, c)
           B == Run(holds, v, k)
           id == [j \in 1 .. N |-> j]
<1>1. /\ FunctionOK(f, n) /\ FunctionOK(g, m) /\ Split(f, n, g, m, H, F, T)
      /\ Expanded(f, g, H, F, T, i, last, d, r, at, s, q, to)
  BY DEF Expansion
<1>2. b \in Blocks(f) /\ b \in Blocks(g) /\ b # H  BY <1>1, SplitFacts
<1>3. /\ IsState(u, R) /\ IsState(v, R) /\ Agree(u, v, R, {}, X) /\ u.to = {} /\ v.to = {}
  <2>1. b # 0  BY <1>1, <1>2, InBlocks
  <2> QED BY <2>1 DEF AtSame, Agree
<1>4. /\ Trace(A, holds, c, N, R) /\ A[0] = u /\ N \in Nat
      /\ IsState(A[N], R) /\ A[N].to \in Targets(c, N)
  <2>1. A = Run(holds, u, f.body[b])  OBVIOUS
  <2> HIDE DEF A, b
  <2>2. /\ Trace(A, holds, f.body[b], Len(f.body[b]), R) /\ A[0] = u /\ Len(f.body[b]) \in Nat
        /\ IsState(A[Len(f.body[b])], R) /\ A[Len(f.body[b])].to \in Targets(f.body[b], Len(f.body[b]))
    BY <1>1, <1>2, <1>3, <2>1, TraceIs
  <2> QED BY <2>2
<1>5. /\ Trace(B, holds, k, Len(k), R) /\ B[0] = v /\ IsState(B[Len(k)], R)
  <2>1. B = Run(holds, v, g.body[b])  OBVIOUS
  <2> HIDE DEF B, b
  <2>2. /\ Trace(B, holds, g.body[b], Len(g.body[b]), R) /\ B[0] = v
        /\ IsState(B[Len(g.body[b])], R)
    BY <1>1, <1>2, <1>3, <2>1, TraceIs
  <2> QED BY <2>2
<1>6. Len(k) = N /\ \A p \in 1 .. N : IsCopy(k[p], c[p], b \in f.succs[H], H, T)
  BY <1>1, <1>2 DEF Expanded
<1>7. RunBlock(f, holds, u, b) = Leave(f, A[N], b)
  BY DEF RunBlock
<1>8. RunBlock(g, holds, v, b) = Leave(g, B[N], b)
  BY <1>6 DEF RunBlock
<1>9. Stands(b, H, T) = b  BY <1>2 DEF Stands
<1> HIDE DEF b, c, k, N, A, B
<1>10. Agree(A[N], B[N], R, {}, X)
  <2>1. Rearranged(k, 0, c, 0, N, N, id, {}, X)
    <3>1. id \in [1 .. N -> 1 .. N] /\ \A j, l \in 1 .. N : j < l => id[j] < id[l]
      BY <1>4
    <3>2. \A j \in 1 .. N : Same(k[0 + j], c[id[j]])
      <4> SUFFICES ASSUME NEW j \in 1 .. N  PROVE Same(k[0 + j], c[id[j]])
        OBVIOUS
      <4>1. 0 + j = j /\ id[j] = j  BY <1>4
      <4>2. Same(k[j], c[j])  BY <1>6, CopiesSame
      <4> QED BY <4>1, <4>2
    <3>3. \A j \in 1 .. N : id[j] > 0 /\ Unaffected(c[id[j]], {}, X)
      BY <1>4, NothingAffects
    <3>4. \A p \in 0 + 1 .. N : \E j \in 1 .. N : id[j] = p  BY <1>4
    <3> HIDE DEF id
    <3> QED BY <1>4, <3>1, <3>2, <3>3, <3>4 DEF Rearranged
  <2>2. 0 \in 0 .. N /\ N \in 0 .. N /\ 0 + N <= N /\ 0 + N = N  BY <1>4
  <2>3. Agree(A[0], B[0], R, {}, X)  BY <1>3, <1>4, <1>5
  <2>4. Trace(B, holds, k, N, R)  BY <1>5, <1>6
  <2> DEFINE D == {}
             z == 0
  <2>5. /\ Rearranged(k, z, c, z, N, N, id, D, X) /\ Agree(A[z], B[z], R, D, X)
        /\ z \in 0 .. N /\ N \in z .. N /\ z + N <= N /\ z + N = N
    BY <2>1, <2>2, <2>3
  <2> HIDE DEF id, D, z
  <2>6. Agree(A[N], B[z + N], R, D, X)  BY <1>4, <2>4, <2>5, Simulates
  <2>7. Agree(A[N], B[N], R, D, X)  BY <2>5, <2>6
  <2> QED BY <2>7 DEF D
<1>11. AtSame(Leave(f, A[N], b), Leave(g, B[N], b), f, R, X)
  <2>1. IsState(B[N], R)  BY <1>5, <1>6
  <2>2. A[N].to \in Targets(f.body[b], Len(f.body[b]))  BY <1>4 DEF c, N
  <2>3. Leave(g, B[N], b) = Leave(g, B[N], Stands(b, H, T))  BY <1>9
  <2> QED BY <1>2, <1>4, <1>10, <2>1, <2>2, <2>3, LeaveAgrees
<1> QED BY <1>7, <1>8, <1>11 DEF b

----------------------------------------------------------------------------
(* Head and the triangle.                                                  *)

\* But for what debug values show, Head does what the code up to the last select does.
LEMMA HeadRearranged ==
  ASSUME NEW f, NEW n, NEW g, NEW m, NEW H, NEW F, NEW T, NEW i, NEW last, NEW d, NEW r,
         NEW at, NEW s, NEW q, NEW to,
         Expansion(f, n, g, m, H, F, T, i, last, d, r, at, s, q, to),
         NEW X, X = {}
  PROVE  /\ Rearranged(g.body[H], 0, f.body[H], 0, last, r, at, Dests(f.body[H], i, last), X)
         /\ r \in Nat /\ Len(g.body[H]) = r + 1 /\ g.body[H][r + 1] = d
         /\ last \in 1 .. Len(f.body[H])
<1> DEFINE c == f.body[H]
           h == g.body[H]
           D == Dests(c, i, last)
<1>1. /\ FunctionOK(f, n) /\ DefinedOnce(f) /\ UsesDominated(f) /\ H \in Blocks(f)
      /\ Scanned(f, H, i, last)
  BY SplitFacts DEF Expansion
<1>2. HeadCopies(h, c, H \in f.succs[H], i, last, H, T, d, r, at)
  BY DEF Expansion, Expanded
<1>3. /\ Len(h) = r + 1 /\ r \in Nat /\ at \in [1 .. r -> 1 .. last] /\ h[r + 1] = d
      /\ \A k \in 1 .. r : IsCopy(h[k], c[at[k]], H \in f.succs[H], H, T)
      /\ \A k, l \in 1 .. r : k < l => at[k] < at[l]
      /\ \A p \in 1 .. last :
           p < i \/ ~(IsSelect(c[p]) \/ IsDebug(c[p])) => \E k \in 1 .. r : at[k] = p
  BY <1>2 DEF HeadCopies
<1>4. /\ Sequence(c) /\ \A k \in 1 .. Len(c) : InstrOK(f, c[k])
  BY <1>1 DEF FunctionOK, BlockOK, InstrsOK
<1>5. Len(c) \in Nat /\ i \in 1 .. Len(c) /\ last \in i .. Len(c) /\ last \in 1 .. Len(c)
  BY <1>1, <1>4, SequenceHas DEF Scanned
<1>6. ASSUME NEW p \in 1 .. last  PROVE Unaffected(c[p], D, X) \/ IsSelect(c[p])
  <2>1. CASE c[p].kind = "phi"
    BY <2>1 DEF Unaffected, Idle
  <2>2. CASE IsDebug(c[p])
    BY <2>2 DEF Unaffected, Idle, IsDebug
  <2>3. CASE c[p].kind # "phi" /\ ~IsDebug(c[p])
    <3>1. Clear(c[p], D)  BY <1>1, <2>3, ReadsNoDest
    <3>2. c[p].kind # "debug"  BY <2>3 DEF IsDebug
    <3> QED BY <3>1, <3>2 DEF Unaffected
  <2> QED BY <2>1, <2>2, <2>3
<1>7. ASSUME NEW k \in 1 .. r  PROVE Unaffected(c[at[k]], D, X)
  <2>1. at[k] \in 1 .. last  BY <1>3
  <2>2. CASE ~IsSelect(c[at[k]])  BY <1>6, <2>1, <2>2
  <2>3. CASE IsSelect(c[at[k]])
    <3>1. c[at[k]].kind # "phi" /\ ~IsDebug(c[at[k]]) /\ c[at[k]].kind # "debug"
      BY <2>3 DEF IsSelect, IsDebug
    <3>2. Clear(c[at[k]], D)  BY <1>1, <2>1, <3>1, ReadsNoDest
    <3> QED BY <3>1, <3>2 DEF Unaffected
  <2> QED BY <2>2, <2>3
<1>8. ASSUME NEW p \in 1 .. last  PROVE (\E j \in 1 .. r : at[j] = p) \/ Quiet(c[p], D, X)
  <2>1. CASE p < i \/ ~(IsSelect(c[p]) \/ IsDebug(c[p]))  BY <1>3, <2>1
  <2>2. CASE ~(p < i) /\ IsSelect(c[p])
    <3>1. p \in i .. last  BY <1>5, <2>2
    <3>2. c[p].def \in D  BY <2>2, <3>1 DEF Dests
    <3> QED BY <2>2, <3>2 DEF Quiet
  <2>3. CASE ~(p < i) /\ IsDebug(c[p])
    BY <2>3 DEF Quiet, Idle, IsDebug
  <2> QED BY <2>1, <2>2, <2>3
<1>9. \A j \in 1 .. r : /\ Same(h[0 + j], c[at[j]])
                        /\ at[j] > 0 \/ Idle(c[at[j]], X)
                        /\ Unaffected(c[at[j]], D, X)
  <2> SUFFICES ASSUME NEW j \in 1 .. r
               PROVE  Same(h[0 + j], c[at[j]]) /\ at[j] > 0 /\ Unaffected(c[at[j]], D, X)
    OBVIOUS
  <2>1. 0 + j = j /\ at[j] \in 1 .. last  BY <1>3
  <2>2. Same(h[j], c[at[j]])  BY <1>3, CopiesSame
  <2> HIDE DEF h, c, D
  <2> QED BY <1>7, <2>1, <2>2
<1>10. \A p \in 0 + 1 .. last : (\E j \in 1 .. r : at[j] = p) \/ Quiet(c[p], D, X)
  BY <1>8
<1>11. Rearranged(h, 0, c, 0, last, r, at, D, X)
  <2>1. 0 \in Nat  OBVIOUS
  <2> HIDE DEF h, c, D
  <2> QED BY <1>3, <1>9, <1>10, <2>1 DEF Rearranged
<1> QED BY <1>3, <1>5, <1>11

\* Terminators end a block, so there is none before a select.
LEMMA NoTerminators ==
  ASSUME NEW f, NEW n, FunctionOK(f, n), NEW H \in Blocks(f), NEW i, NEW last,
         Scanned(f, H, i, last)
  PROVE  \A k \in 1 .. last : ~IsTerminator(f.body[H][k])
<1> SUFFICES ASSUME NEW k \in 1 .. last, IsTerminator(f.body[H][k])  PROVE FALSE
  OBVIOUS
<1>1. ~IsTerminator(f.body[H][last])  BY DEF Scanned, IsSelect, IsTerminator
<1>2. \A p, l \in 1 .. Len(f.body[H]) :
        p < l /\ IsTerminator(f.body[H][p]) => IsTerminator(f.body[H][l])
  BY DEF FunctionOK, BlockOK, TargetsOK
<1>3. Len(f.body[H]) \in Nat /\ i \in 1 .. Len(f.body[H]) /\ last \in i .. Len(f.body[H])
  BY InBlocks DEF Scanned
<1>4. k # last  BY <1>1
<1> QED BY <1>1, <1>2, <1>3, <1>4

\* Behind the last select, all but the results of the sequence is the same.
HeadRan(A, B, last, r, R, D, X) == Agree(A[last], B[r], R, D, X) /\ A[last].to = {}

LEMMA HeadRuns ==
  ASSUME NEW f, NEW n, NEW g, NEW m, NEW H, NEW F, NEW T, NEW i, NEW last, NEW d, NEW r,
         NEW at, NEW s, NEW q, NEW to,
         Expansion(f, n, g, m, H, F, T, i, last, d, r, at, s, q, to),
         NEW X, X = {}, NEW holds, NEW R,
         NEW A, Trace(A, holds, f.body[H], Len(f.body[H]), R),
         NEW B, Trace(B, holds, g.body[H], Len(g.body[H]), R),
         Agree(A[0], B[0], R, {}, X), A[0].to = {}
  PROVE  HeadRan(A, B, last, r, R, Dests(f.body[H], i, last), X)
<1> DEFINE c == f.body[H]
           h == g.body[H]
           D == Dests(c, i, last)
           N == Len(c)
           M == Len(h)
<1>1. /\ Rearranged(h, 0, c, 0, last, r, at, D, X)
      /\ r \in Nat /\ M = r + 1 /\ last \in 1 .. N
  BY HeadRearranged
<1>2. FunctionOK(f, n) /\ H \in Blocks(f) /\ Scanned(f, H, i, last)  BY SplitFacts DEF Expansion
<1>3. N \in Nat  BY <1>2, InBlocks
<1>4. \A k \in 1 .. last : ~IsTerminator(c[k])  BY <1>2, NoTerminators
<1>5. Trace(A, holds, c, N, R) /\ Trace(B, holds, h, M, R)  OBVIOUS
<1>6. Agree(A[0], B[0], R, D, X)  BY DEF Agree
<1> DEFINE z == 0
<1>7. /\ z \in 0 .. N /\ last \in z .. N /\ z + r <= M /\ z + r = r /\ M \in Nat /\ last \in 0 .. N
      /\ Rearranged(h, z, c, z, last, r, at, D, X) /\ Agree(A[z], B[z], R, D, X)
  BY <1>1, <1>3, <1>6
<1> HIDE DEF c, h, D, N, M, z
<1>8. Agree(A[last], B[z + r], R, D, X)  BY <1>3, <1>5, <1>7, Simulates
<1>9. \A k \in 0 .. last : A[k].to = {}  BY <1>3, <1>4, <1>5, <1>7, StaysIn
<1>10. last \in 0 .. last  BY <1>3, <1>7
<1> QED BY <1>7, <1>8, <1>9, <1>10 DEF HeadRan, D, c

\* The branch that was inserted tests the condition of the selects.
LEMMA BranchTests ==
  ASSUME NEW holds, NEW d, NEW o, NEW T, BranchesAround(d, o, T), o.attr \in DOMAIN CondRelation
  PROVE  /\ d.kind = "branch" /\ d.blocks = <<T>>
         /\ Taken(holds, d) <=> <<CondRelation[o.attr], o.args[1], o.args[2]>> \in holds
<1>1. /\ d.kind = "branch" /\ d.attr = GetBrCond[o.attr] /\ d.blocks = <<T>>
      /\ d.args = <<o.args[1], o.args[2]>>
  BY DEF BranchesAround, Branch, Instr
<1>2. BranchRelation[GetBrCond[o.attr]] = CondRelation[o.attr]
  <2>1. o.attr \in {"COND_EQ", "COND_NE", "COND_LT", "COND_GE", "COND_LTU", "COND_GEU"}
    BY DEF CondRelation
  <2> QED BY <2>1 DEF CondRelation, BranchRelation, GetBrCond
<1>3. d.args[1] = o.args[1] /\ d.args[2] = o.args[2]  BY <1>1
<1>4. Taken(holds, d) <=> <<BranchRelation[d.attr], d.args[1], d.args[2]>> \in holds
  BY <1>1 DEF Taken
<1> QED BY <1>1, <1>2, <1>3, <1>4

\* The registers, memory and what is shown are the same in both.
Alike(x, w, R) ==
  /\ IsState(x, R) /\ IsState(w, R) /\ x.mem = w.mem
  /\ \A y \in R : x.env[y] = w.env[y]
  /\ \A y : ShownOf(x, y) = ShownOf(w, y)

\* Where the branch behind the selects goes, and where Tail is entered from.
Tested(w, holds, d, T) == w.to = IF Taken(holds, d) THEN {<<T>>} ELSE {}

Source(holds, d, H, F) == IF Taken(holds, d) THEN H ELSE F

\* u, reached with x, is in Tail or will be after False.
Through(u, x, g, holds, P, F, T) ==
  /\ u.at \in {F, T}
  /\ u.at = F => RunBlock(g, holds, u, F) = Enter(g, x, P, T)
  /\ u.at # F => u = Enter(g, x, P, T)

\* Behind the branch, run r + 1 of head h.
Branched(B, r, h, R, holds, d, T) ==
  Alike(B[r + 1], B[r], R) /\ r + 1 = Len(h) /\ Tested(B[r + 1], holds, d, T)

\* No terminator is taken so far.
Going(A, k) == \A j \in 0 .. k : A[j].to = {}

LEMMA BranchRuns ==
  ASSUME NEW f, NEW n, NEW g, NEW m, NEW H, NEW F, NEW T, NEW i, NEW last, NEW d, NEW r,
         NEW at, NEW s, NEW q, NEW to,
         Expansion(f, n, g, m, H, F, T, i, last, d, r, at, s, q, to),
         NEW holds, NEW R, NEW B, Trace(B, holds, g.body[H], Len(g.body[H]), R),
         NEW w, w = B[r], w.to = {}
  PROVE  Branched(B, r, g.body[H], R, holds, d, T)
<1>1. /\ Len(g.body[H]) = r + 1 /\ r \in Nat /\ g.body[H][r + 1] = d
  <2>1. HeadCopies(g.body[H], f.body[H], H \in f.succs[H], i, last, H, T, d, r, at)
    BY DEF Expansion, Expanded
  <2> QED BY <2>1 DEF HeadCopies
<1>2. d.kind = "branch" /\ d.blocks = <<T>>
  BY DEF Expansion, BranchesAround, Branch, Instr
<1>3. r + 1 \in 1 .. Len(g.body[H]) /\ Len(g.body[H]) \in Nat /\ (r + 1) - 1 = r
      /\ r \in 0 .. Len(g.body[H]) /\ r + 1 \in 0 .. Len(g.body[H])
  BY <1>1
<1>4. Does(B[r + 1], holds, B[r], d, R)
  <2>1. Does(B[r + 1], holds, B[(r + 1) - 1], g.body[H][r + 1], R)  BY <1>3, TraceHas
  <2> QED BY <1>1, <1>3, <2>1
<1>5. IsState(B[r + 1], R) /\ IsState(B[r], R)  BY <1>3 DEF Trace
<1>6. IsTerminator(d) /\ ~Accesses(d) /\ ~Writes(d) /\ d.kind # "debug" /\ d.kind # "phi"
  BY <1>2 DEF IsTerminator, Accesses, Writes
<1>7. /\ B[r + 1].to = IF IsTerminator(d) /\ Taken(holds, d) THEN {d.blocks} ELSE {}
      /\ B[r + 1].mem = IF Accesses(d) THEN Append(B[r].mem, Term(B[r].env, d)) ELSE B[r].mem
      /\ \A y \in R : B[r + 1].env[y] = IF Writes(d) /\ y = d.def
                          THEN Result(holds, B[r].env, d) ELSE B[r].env[y]
      /\ \A x : ShownOf(B[r + 1], x) =
                  IF d.kind = "debug" /\ x = d.attr
                  THEN Append(ShownOf(B[r], x), Value(B[r].env, d.args[1]))
                  ELSE ShownOf(B[r], x)
  BY <1>4, <1>6 DEF Does
<1>8. /\ B[r + 1].mem = B[r].mem /\ \A y \in R : B[r + 1].env[y] = B[r].env[y]
      /\ \A x : ShownOf(B[r + 1], x) = ShownOf(B[r], x)
  BY <1>6, <1>7
<1>9. B[r + 1].to = IF Taken(holds, d) THEN {<<T>>} ELSE {}  BY <1>2, <1>6, <1>7
<1> QED BY <1>1, <1>5, <1>8, <1>9 DEF Alike, Tested, Branched

LEMMA ThroughTriangle ==
  ASSUME NEW f, NEW n, NEW g, NEW m, NEW H, NEW F, NEW T, NEW i, NEW last, NEW d, NEW r,
         NEW at, NEW s, NEW q, NEW to,
         Expansion(f, n, g, m, H, F, T, i, last, d, r, at, s, q, to),
         NEW holds, NEW R, R = Regs(f), NEW w, IsState(w, R),
         Tested(w, holds, d, T), NEW u, u = Leave(g, w, H), NEW P, P = Source(holds, d, H, F)
  PROVE  \E x : Alike(x, w, R) /\ Through(u, x, g, holds, P, F, T)
<1>0. /\ w.to = (IF Taken(holds, d) THEN {<<T>>} ELSE {})
      /\ P = (IF Taken(holds, d) THEN H ELSE F)
  BY DEF Tested, Source
<1>1. /\ FunctionOK(g, m) /\ DefinedOnce(g) /\ Split(f, n, g, m, H, F, T) /\ NONE \notin R
      /\ g.body[F] = <<>>
  BY DEF Expansion, Expanded, Regs
<1>2. /\ F \in Blocks(g) /\ T \in Blocks(g) /\ H \in Blocks(g) /\ F # T
      /\ NextInLayout(g, H) = {F} /\ NextInLayout(g, F) = {T}
  BY <1>1, SplitFacts DEF Split, Triangle
<1>3. CASE Taken(holds, d)
  <2>1. Goal(g, w, H) = {T}
    <3>1. w.to = {<<T>>}  BY <1>0, <1>3
    <3>2. UNION {Range(t) : t \in {<<T>>}} = Range(<<T>>)  OBVIOUS
    <3>3. Range(<<T>>) = {T}  BY DEF Range
    <3> QED BY <3>1, <3>2, <3>3 DEF Goal
  <2>2. u = Enter(g, w, H, T)
    <3>1. (CHOOSE x \in {T} : TRUE) = T  OBVIOUS
    <3> QED BY <2>1, <3>1, LeaveIs
  <2>3. u.at = T
    <3>1. Entering(u, w, g, T, H, R)  BY <1>1, <1>2, <2>2, EnterIs
    <3> QED BY <3>1 DEF Entering
  <2>4. Alike(w, w, R)  BY DEF Alike
  <2>5. P = H  BY <1>0, <1>3
  <2> QED BY <1>2, <2>2, <2>3, <2>4, <2>5 DEF Through
<1>4. CASE ~Taken(holds, d)
  <2>1. Goal(g, w, H) = {F}  BY <1>0, <1>2, <1>4 DEF Goal
  <2>2. u = Enter(g, w, H, F)
    <3>1. (CHOOSE x \in {F} : TRUE) = F  OBVIOUS
    <3> QED BY <2>1, <3>1, LeaveIs
  <2>3. Entering(u, w, g, F, H, R)  BY <1>1, <1>2, <2>2, EnterIs
  <2>4. /\ IsState(u, R) /\ u.at = F /\ u.to = {} /\ u.mem = w.mem /\ u.shown = w.shown
    BY <2>3 DEF Entering
  <2>5. Len(g.body[F]) = 0  BY <1>1
  <2>6. \A y \in R : u.env[y] = w.env[y]  BY <2>3, <2>5 DEF Entering
  <2>7. Alike(u, w, R)
    <3>1. \A y : ShownOf(u, y) = ShownOf(w, y)  BY <2>4 DEF ShownOf
    <3> QED BY <2>4, <2>6, <3>1 DEF Alike
  <2>8. RunBlock(g, holds, u, F) = Leave(g, u, F)
    <3> DEFINE A == Run(holds, u, g.body[F])
    <3>1. A = Run(holds, u, g.body[F])  OBVIOUS
    <3>2. RunBlock(g, holds, u, F) = Leave(g, A[Len(g.body[F])], F)  BY DEF RunBlock
    <3> HIDE DEF A
    <3>3. A[0] = u  BY <1>1, <1>2, <2>4, <3>1, TraceIs
    <3> QED BY <2>5, <3>2, <3>3
  <2>9. Leave(g, u, F) = Enter(g, u, F, T)
    <3>1. (CHOOSE x \in {T} : TRUE) = T  OBVIOUS
    <3>2. Goal(g, u, F) = {T}  BY <1>2, <2>4 DEF Goal
    <3> QED BY <3>1, <3>2, LeaveIs
  <2>10. P = F  BY <1>0, <1>4
  <2> QED BY <2>4, <2>7, <2>8, <2>9, <2>10 DEF Through
<1> QED BY <1>3, <1>4

\* The phis of Tail are the ones made of the selects.
LEMMA TailPhis ==
  ASSUME NEW f, NEW n, NEW g, NEW m, NEW H, NEW F, NEW T, NEW i, NEW last, NEW d, NEW r,
         NEW at, NEW s, NEW q, NEW to,
         Expansion(f, n, g, m, H, F, T, i, last, d, r, at, s, q, to)
  PROVE  /\ s \in Nat /\ q \in Nat /\ Len(g.body[T]) = s + q
         /\ \A l \in 1 .. s : g.body[T][l].kind = "phi"
         /\ \A l \in 1 .. Len(g.body[T]) : g.body[T][l].kind = "phi" =>
              \E p \in i .. last : /\ IsSelect(f.body[H][p])
                                   /\ g.body[T][l] = PhiOf(f.body[H][p], H, F)
         /\ \A p \in i .. last : IsSelect(f.body[H][p]) =>
              \E l \in 1 .. Len(g.body[T]) : g.body[T][l] = PhiOf(f.body[H][p], H, F)
<1> DEFINE c == f.body[H]
           t == g.body[T]
           N == Len(c)
<1>1. TailShape(t, c, i, last, H, F, s, q, to)  BY DEF Expansion, Expanded
<1>2. /\ s \in Nat /\ q \in Nat /\ Len(t) = s + q /\ to \in [1 .. q -> i + 1 .. N]
      /\ \A k \in 1 .. s : \E p \in i .. last : IsSelect(c[p]) /\ t[k] = PhiOf(c[p], H, F)
      /\ \A p \in i .. last : IsSelect(c[p]) => \E k \in 1 .. s : t[k] = PhiOf(c[p], H, F)
      /\ \A k \in 1 .. q : t[s + k] = c[to[k]]
  BY <1>1 DEF TailShape
<1>3. FunctionOK(f, n) /\ H \in Blocks(f) /\ Scanned(f, H, i, last)  BY SplitFacts DEF Expansion
<1>4. N \in Nat /\ i \in 1 .. N /\ last \in i .. N /\ c[i].kind # "phi"
  BY <1>3, InBlocks DEF Scanned, IsSelect
<1>5. \A p, l \in 1 .. N : c[p].kind = "phi" /\ l <= p => c[l].kind = "phi"
  <2> SUFFICES ASSUME NEW p \in 1 .. N, NEW l \in 1 .. N, c[p].kind = "phi", l <= p
               PROVE  c[l].kind = "phi"
    OBVIOUS
  <2>1. \A k \in 1 .. p : c[k].kind = "phi"  BY <1>3 DEF FunctionOK, BlockOK, PhisOK
  <2>2. l \in 1 .. p  BY <1>4
  <2> QED BY <2>1, <2>2
<1> HIDE DEF c, t, N
<1>6. \A k \in 1 .. q : t[s + k].kind # "phi"
  <2> SUFFICES ASSUME NEW k \in 1 .. q, t[s + k].kind = "phi"  PROVE FALSE
    OBVIOUS
  <2>1. to[k] \in i + 1 .. N /\ c[to[k]].kind = "phi"  BY <1>2
  <2>2. to[k] \in 1 .. N /\ i <= to[k]  BY <1>4, <2>1
  <2> QED BY <1>4, <1>5, <2>1, <2>2
<1>7. \A l \in 1 .. Len(t) : l \in 1 .. s \/ (l - s \in 1 .. q /\ s + (l - s) = l)
  BY <1>2
<1>8. \A l \in 1 .. Len(t) : t[l].kind = "phi" => l \in 1 .. s
  <2> SUFFICES ASSUME NEW l \in 1 .. Len(t), t[l].kind = "phi", l \notin 1 .. s  PROVE FALSE
    OBVIOUS
  <2>1. l - s \in 1 .. q /\ s + (l - s) = l  BY <1>7
  <2>2. t[s + (l - s)].kind # "phi"  BY <1>6, <2>1
  <2> QED BY <2>1, <2>2
<1>9. \A k \in 1 .. s : k \in 1 .. Len(t)  BY <1>2
<1>10. \A k \in 1 .. s : t[k].kind = "phi"
  <2> SUFFICES ASSUME NEW k \in 1 .. s  PROVE t[k].kind = "phi"
    OBVIOUS
  <2>1. PICK p \in i .. last : t[k] = PhiOf(c[p], H, F)  BY <1>2
  <2> QED BY <2>1, PhiFields
<1> QED BY <1>2, <1>8, <1>9, <1>10 DEF c, t

\* Behind the phis of Tail all is as behind the last select.
Arrived(a, e, R, T, X) ==
  IsState(e, R) /\ e.at = T /\ e.to = {} /\ Agree(a, e, R, {}, X)

LEMMA TailEntered ==
  ASSUME NEW f, NEW n, NEW g, NEW m, NEW H, NEW F, NEW T, NEW i, NEW last, NEW d, NEW r,
         NEW at, NEW s, NEW q, NEW to,
         Expansion(f, n, g, m, H, F, T, i, last, d, r, at, s, q, to),
         NEW X, NEW holds, NEW R, R = Regs(f),
         NEW A, Trace(A, holds, f.body[H], Len(f.body[H]), R), Going(A, last),
         NEW a, a = A[last], NEW b, Agree(a, b, R, Dests(f.body[H], i, last), X), NEW x, Alike(x, b, R),
         NEW P, P = Source(holds, d, H, F), NEW e, e = Enter(g, x, P, T)
  PROVE  Arrived(a, e, R, T, X)
<1> DEFINE c == f.body[H]
           t == g.body[T]
           D == Dests(c, i, last)
           N == Len(c)
<1>1. /\ FunctionOK(f, n) /\ DefinedOnce(f) /\ UsesDominated(f) /\ H \in Blocks(f)
      /\ FunctionOK(g, m) /\ DefinedOnce(g) /\ T \in Blocks(g) /\ Scanned(f, H, i, last)
      /\ BranchesAround(d, c[i], T) /\ NONE \notin R /\ H # F
  <2>1. Split(f, n, g, m, H, F, T)  BY DEF Expansion
  <2> QED BY <2>1, SplitFacts DEF Expansion, Regs
<1>2. N \in Nat /\ i \in 1 .. N /\ last \in i .. N /\ last \in 0 .. N
  <2>1. N \in Nat /\ i \in 1 .. N /\ last \in i .. N  BY <1>1, InBlocks DEF Scanned
  <2> HIDE DEF N
  <2> QED BY <2>1
<1>0. \A k \in 0 .. last : A[k].to = {}  BY DEF Going
<1>3. IsState(a, R) /\ IsState(x, R) /\ a.to = {}
  <2>1. last \in 0 .. last  BY <1>2
  <2> QED BY <1>0, <1>2, <2>1 DEF Trace, Alike
<1>4. /\ a.mem = x.mem /\ (\A y \in R \ D : a.env[y] = x.env[y])
      /\ \A z \in X : ShownOf(a, z) = ShownOf(x, z)
  BY DEF Agree, Alike
<1>5. Entering(e, x, g, T, P, R)  BY <1>1, <1>3, EnterIs
<1>6. /\ IsState(e, R) /\ e.at = T /\ e.to = {} /\ e.mem = x.mem /\ e.shown = x.shown
      /\ \A l \in 1 .. Len(t) :
           t[l].kind = "phi" /\ t[l].def \in R => e.env[t[l].def] = Incoming(x.env, t[l], P)
      /\ \A y \in R : (\A l \in 1 .. Len(t) : ~(t[l].kind = "phi" /\ t[l].def = y)) =>
                        e.env[y] = x.env[y]
  BY <1>5 DEF Entering
<1>7. /\ \A l \in 1 .. Len(t) : t[l].kind = "phi" =>
           \E p \in i .. last : IsSelect(c[p]) /\ t[l] = PhiOf(c[p], H, F)
      /\ \A p \in i .. last : IsSelect(c[p]) => \E l \in 1 .. Len(t) : t[l] = PhiOf(c[p], H, F)
  BY TailPhis
<1>8. ASSUME NEW y \in R, y \notin D  PROVE a.env[y] = e.env[y]
  <2>1. ASSUME NEW l \in 1 .. Len(t), t[l].kind = "phi", t[l].def = y  PROVE FALSE
    <3>1. PICK p \in i .. last : IsSelect(c[p]) /\ t[l] = PhiOf(c[p], H, F)  BY <1>7, <2>1
    <3>2. c[p].def = y  BY <2>1, <3>1, PhiFields
    <3> QED BY <1>8, <3>1, <3>2 DEF Dests
  <2> QED BY <1>4, <1>6, <1>8, <2>1
<1>9. ASSUME NEW p \in i .. last, IsSelect(c[p]), c[p].def \in R
      PROVE  a.env[c[p].def] = e.env[c[p].def]
  <2> DEFINE o == c[p]
             z == Chosen(holds, o)
  <2>1. PICK l \in 1 .. Len(t) : t[l] = PhiOf(o, H, F)  BY <1>7, <1>9
  <2>2. t[l].kind = "phi" /\ t[l].def = o.def /\ t[l].args = <<o.args[3], o.args[4]>>
        /\ t[l].blocks = <<H, F>>
    BY <2>1, PhiFields
  <2>3. e.env[o.def] = Incoming(x.env, t[l], P)  BY <1>6, <1>9, <2>2
  <2>4. p \in 1 .. N /\ p \in 1 .. last /\ p - 1 \in 0 .. last
    <3> HIDE DEF N
    <3> QED BY <1>2
  <2>5. InstrOK(f, o)  BY <1>1, <2>4 DEF FunctionOK, BlockOK, InstrsOK
  <2>6. o.attr = c[i].attr /\ o.args[1] = c[i].args[1] /\ o.args[2] = c[i].args[2]
    <3>1. ~Stops(c, i, p)  BY <1>1 DEF Scanned
    <3> QED BY <1>9, <3>1 DEF Stops
  <2>7. Taken(holds, d) <=> <<CondRelation[o.attr], o.args[1], o.args[2]>> \in holds
    <3>1. c[i].attr \in DOMAIN CondRelation  BY <1>9, <2>5, <2>6 DEF InstrOK
    <3>2. Taken(holds, d) <=> <<CondRelation[c[i].attr], c[i].args[1], c[i].args[2]>> \in holds
      <4> DEFINE k == c[i]
      <4>1. BranchesAround(d, k, T) /\ k.attr \in DOMAIN CondRelation  BY <1>1, <3>1
      <4> HIDE DEF k
      <4>2. Taken(holds, d) <=> <<CondRelation[k.attr], k.args[1], k.args[2]>> \in holds
        BY <4>1, BranchTests
      <4> QED BY <4>2 DEF k
    <3> QED BY <2>6, <3>2
  <2>8. Incoming(x.env, t[l], P) = Value(x.env, z)
    <3>0. P = (IF Taken(holds, d) THEN H ELSE F)  BY DEF Source
    <3> DEFINE k == IF Taken(holds, d) THEN 1 ELSE 2
    <3>1. /\ DOMAIN t[l].blocks = {1, 2} /\ t[l].blocks[1] = H /\ t[l].blocks[2] = F
          /\ t[l].args[1] = o.args[3] /\ t[l].args[2] = o.args[4]
      BY <2>2
    <3>2. IsInjective(t[l].blocks)  BY <1>1, <3>1 DEF IsInjective
    <3>3. k \in DOMAIN t[l].blocks /\ t[l].blocks[k] = P  BY <3>0, <3>1
    <3>4. Incoming(x.env, t[l], P) = Value(x.env, t[l].args[k])
      <4> DEFINE w == t[l]
      <4>1. IsInjective(w.blocks) /\ k \in DOMAIN w.blocks /\ w.blocks[k] = P  BY <3>2, <3>3
      <4> HIDE DEF k, t, w
      <4>2. Incoming(x.env, w, w.blocks[k]) = Value(x.env, w.args[k])  BY <4>1, IncomingIs
      <4> QED BY <4>1, <4>2 DEF w
    <3>5. z = IF Taken(holds, d) THEN o.args[3] ELSE o.args[4]  BY <2>7 DEF Chosen
    <3>6. t[l].args[k] = z  BY <3>1, <3>5
    <3> QED BY <3>4, <3>6
  <2>9. /\ a.env[o.def] = Value(a.env, z) /\ z \in {o.args[3], o.args[4]}
    <3>1. A[p - 1].to = {}  BY <1>0, <2>4
    <3>2. a.env[o.def] = Value(a.env, z)
      <4>1. /\ FunctionOK(f, n) /\ DefinedOnce(f) /\ UsesDominated(f) /\ H \in Blocks(f)
            /\ Scanned(f, H, i, last) /\ p \in i .. last
            /\ IsSelect(f.body[H][p]) /\ f.body[H][p].def \in Regs(f)
            /\ Trace(A, holds, f.body[H], Len(f.body[H]), Regs(f))
        BY <1>1, <1>9
      <4>2. a = A[last]  OBVIOUS
      <4>3. HasChosen(a, f.body[H][p], holds)  BY ONLY <3>1, <4>1, <4>2, ChosenKept
      <4> QED BY <4>3 DEF HasChosen
    <3>4. z \in {o.args[3], o.args[4]}  BY DEF Chosen
    <3> QED BY <3>2, <3>4
  <2>10. z \notin D
    <3>1. o.kind # "phi" /\ ~IsDebug(o)  BY <1>9 DEF IsSelect, IsDebug
    <3>2. Clear(o, D)  BY <1>1, <2>4, <3>1, ReadsNoDest
    <3>3. o.args[3] \notin D /\ o.args[4] \notin D  BY <1>9, <3>2 DEF Clear
    <3> QED BY <2>9, <3>3
  <2>11. Value(a.env, z) = Value(x.env, z)
    <3>1. z \in R => a.env[z] = x.env[z]  BY <1>4, <2>10
    <3> HIDE DEF z
    <3>2. /\ Value(a.env, z) = IF z \in R THEN a.env[z] ELSE <<>>
          /\ Value(x.env, z) = IF z \in R THEN x.env[z] ELSE <<>>
      BY <1>3, ValueIs
    <3> QED BY <3>1, <3>2
  <2> QED BY <2>3, <2>8, <2>9, <2>11
<1>10. \A y \in R : a.env[y] = e.env[y]
  <2> SUFFICES ASSUME NEW y \in R  PROVE a.env[y] = e.env[y]
    OBVIOUS
  <2>1. CASE y \notin D  BY <1>8, <2>1
  <2>2. CASE y \in D
    <3>1. PICK p \in i .. last : IsSelect(c[p]) /\ c[p].def = y  BY <2>2 DEF Dests
    <3> QED BY <1>9, <3>1
  <2> QED BY <2>1, <2>2
<1>11. \A z \in X : ShownOf(a, z) = ShownOf(e, z)
  <2>1. \A z : ShownOf(e, z) = ShownOf(x, z)  BY <1>6 DEF ShownOf
  <2> QED BY <1>4, <2>1
<1>12. Agree(a, e, R, {}, X)  BY <1>3, <1>4, <1>6, <1>10, <1>11 DEF Agree
<1> QED BY <1>6, <1>12 DEF Arrived

\* The first k of the positions in `to` are S, in order, the others all that is behind
\* `last` and not in S, in order.
Halves(to, q, k, N, last, S) ==
  /\ k \in 0 .. q /\ \A j \in 1 .. q : j <= k <=> to[j] \in S
  /\ \A j, l \in 1 .. k : j < l => to[j] < to[l]
  /\ \A j \in k + 1 .. q : to[j] \in last + 1 .. N
  /\ \A j, l \in k + 1 .. q : j < l => to[j] < to[l]
  /\ \A p \in last + 1 .. N : p \notin S => \E j \in k + 1 .. q : to[j] = p
  /\ \A p \in S : \E j \in 1 .. k : to[j] = p

\* The positions behind the first k.
Behind(to, q, k) == [j \in 1 .. q - k |-> to[k + j]]

\* Tail's code behind the phis: debug values of the selects, then the code behind them.
TailIn(t, c, last, s, q, to, k, S) ==
  /\ s \in Nat /\ q \in Nat /\ Len(t) = s + q /\ \A l \in 1 .. s : t[l].kind = "phi"
  /\ to \in [1 .. q -> 1 .. Len(c)] /\ \A j \in 1 .. q : t[s + j] = c[to[j]]
  /\ Halves(to, q, k, Len(c), last, S) /\ \A p \in S : IsDebug(c[p])

LEMMA TailHalves ==
  ASSUME NEW f, NEW n, NEW g, NEW m, NEW H, NEW F, NEW T, NEW i, NEW last, NEW d, NEW r,
         NEW at, NEW s, NEW q, NEW to,
         Expansion(f, n, g, m, H, F, T, i, last, d, r, at, s, q, to)
  PROVE  \E k : TailIn(g.body[T], f.body[H], last, s, q, to, k,
                       SelectDebugValues(f.body[H], i, last))
<1> DEFINE c == f.body[H]
           t == g.body[T]
           N == Len(c)
           S == SelectDebugValues(c, i, last)
<1>1. TailShape(t, c, i, last, H, F, s, q, to)  BY DEF Expansion, Expanded
<1>2. /\ to \in [1 .. q -> i + 1 .. N]
      /\ \A k \in 1 .. q : t[s + k] = c[to[k]]
      /\ \A p \in last + 1 .. N : \E k \in 1 .. q : to[k] = p
      /\ \A k \in 1 .. q : to[k] <= last => to[k] \in S
      /\ \A p \in S : \E k \in 1 .. q : to[k] = p
      /\ InParts(q, to, S)
  BY <1>1 DEF TailShape
<1>3. s \in Nat /\ q \in Nat /\ Len(t) = s + q /\ \A l \in 1 .. s : t[l].kind = "phi"  BY TailPhis
<1>4. FunctionOK(f, n) /\ H \in Blocks(f) /\ Scanned(f, H, i, last)  BY SplitFacts DEF Expansion
<1>5. N \in Nat /\ i \in 1 .. N /\ last \in i .. N  BY <1>4, InBlocks DEF Scanned
<1>6. \A p \in S : IsDebug(c[p])
  <2> SUFFICES ASSUME NEW p \in S  PROVE IsDebug(c[p])
    OBVIOUS
  <2>1. Sequence(c) /\ \A k \in 1 .. N : InstrOK(f, c[k])
    BY <1>4 DEF FunctionOK, BlockOK, InstrsOK
  <2>2. Splits(c, i)
    <3>1. IsSelect(c[i]) /\ InstrOK(f, c[i])  BY <1>4, <1>5, <2>1 DEF Scanned
    <3> QED BY <1>5, <2>1, <3>1 DEF Splits, Sequence, InstrOK
  <2> HIDE DEF c
  <2> QED BY <1>5, <2>2, DebugValuesAre DEF N, S
<1>7. PICK k \in 0 .. q : /\ \A j \in 1 .. q : j <= k <=> to[j] \in S
                          /\ \A j, l \in 1 .. q : j < l /\ (l <= k \/ k < j) => to[j] < to[l]
  BY <1>2 DEF InParts
<1> HIDE DEF c, t, N, S
<1>8. Halves(to, q, k, N, last, S)
  <2>1. \A j \in 1 .. k : j \in 1 .. q /\ j <= k  BY <1>3, <1>7
  <2>2. \A j \in k + 1 .. q : j \in 1 .. q /\ ~(j <= k) /\ k < j  BY <1>3, <1>7
  <2>3. ASSUME NEW j \in k + 1 .. q  PROVE to[j] \in last + 1 .. N
    <3>1. to[j] \notin S /\ to[j] \in i + 1 .. N  BY <1>2, <1>7, <2>2
    <3>2. ~(to[j] <= last)  BY <1>2, <2>2, <3>1
    <3> QED BY <1>5, <3>1, <3>2
  <2>4. ASSUME NEW p \in last + 1 .. N, p \notin S  PROVE \E j \in k + 1 .. q : to[j] = p
    <3>1. PICK j \in 1 .. q : to[j] = p  BY <1>2
    <3>2. ~(j <= k)  BY <1>7, <2>4, <3>1
    <3>3. j \in k + 1 .. q  BY <1>3, <1>7, <3>2
    <3> QED BY <3>1, <3>3
  <2>5. ASSUME NEW p \in S  PROVE \E j \in 1 .. k : to[j] = p
    <3>1. PICK j \in 1 .. q : to[j] = p  BY <1>2
    <3>2. j <= k  BY <1>7, <3>1
    <3>3. j \in 1 .. k  BY <1>3, <1>7, <3>2
    <3> QED BY <3>1, <3>3
  <2>6. \A j, l \in 1 .. k : j < l => to[j] < to[l]  BY <1>7, <2>1
  <2>7. \A j, l \in k + 1 .. q : j < l => to[j] < to[l]  BY <1>7, <2>2
  <2> QED BY <1>7, <2>3, <2>4, <2>5, <2>6, <2>7 DEF Halves
<1>9. to \in [1 .. q -> 1 .. N]
  <2>1. i + 1 .. N \subseteq 1 .. N  BY <1>5
  <2> QED BY <1>2, <2>1
<1>10. TailIn(t, c, last, s, q, to, k, S)  BY <1>2, <1>3, <1>6, <1>8, <1>9 DEF TailIn, N
<1> QED BY <1>10 DEF c, t, S

\* But for what debug values show, Tail's code behind them does what the code behind the
\* last select does.
LEMMA TailRearranged ==
  ASSUME NEW t, NEW c, NEW last \in Nat, NEW s, NEW q, NEW to, NEW k, NEW S, Len(c) \in Nat,
         TailIn(t, c, last, s, q, to, k, S), NEW D, D = {}, NEW X, X = {}
  PROVE  Rearranged(t, s + k, c, last, Len(c), q - k, Behind(to, q, k), D, X)
<1> DEFINE N == Len(c)
           w == Behind(to, q, k)
<1>1. /\ s \in Nat /\ q \in Nat /\ k \in 0 .. q /\ N \in Nat
      /\ to \in [1 .. q -> 1 .. N] /\ \A j \in 1 .. q : t[s + j] = c[to[j]]
      /\ \A j \in k + 1 .. q : to[j] \in last + 1 .. N
      /\ \A j, l \in k + 1 .. q : j < l => to[j] < to[l]
      /\ \A p \in last + 1 .. N : p \notin S => \E j \in k + 1 .. q : to[j] = p
      /\ \A p \in S : IsDebug(c[p])
  BY DEF TailIn, Halves
<1> HIDE DEF N
<1>2. \A j \in 1 .. q - k : k + j \in k + 1 .. q /\ k + j \in 1 .. q /\ w[j] = to[k + j]
  BY <1>1 DEF Behind
<1>3. w \in [1 .. q - k -> 1 .. N]
  <2>1. w = [j \in 1 .. q - k |-> to[k + j]]  BY DEF Behind
  <2>2. \A j \in 1 .. q - k : to[k + j] \in 1 .. N  BY <1>1, <1>2
  <2> HIDE DEF w
  <2> QED BY <2>1, <2>2
<1>4. \A j, l \in 1 .. q - k : j < l => w[j] < w[l]
  <2> SUFFICES ASSUME NEW j \in 1 .. q - k, NEW l \in 1 .. q - k, j < l  PROVE w[j] < w[l]
    OBVIOUS
  <2>1. k + j < k + l  BY <1>1
  <2> QED BY <1>1, <1>2, <2>1
<1>5. ASSUME NEW j \in 1 .. q - k
      PROVE  Same(t[(s + k) + j], c[w[j]]) /\ w[j] > last /\ Unaffected(c[w[j]], D, X)
  <2>1. (s + k) + j = s + (k + j)  BY <1>1
  <2>2. t[(s + k) + j] = c[w[j]] /\ w[j] \in last + 1 .. N  BY <1>1, <1>2, <2>1
  <2>3. w[j] > last  BY <1>1, <2>2
  <2> QED BY <2>2, <2>3, NothingAffects DEF Same
<1>6. ASSUME NEW p \in last + 1 .. N  PROVE (\E j \in 1 .. q - k : w[j] = p) \/ Quiet(c[p], D, X)
  <2>1. CASE p \in S  BY <1>1, <2>1 DEF Quiet, Idle, IsDebug
  <2>2. CASE p \notin S
    <3>1. PICK j \in k + 1 .. q : to[j] = p  BY <1>1, <2>2
    <3>2. j - k \in 1 .. q - k /\ k + (j - k) = j  BY <1>1
    <3> QED BY <1>2, <3>1, <3>2
  <2> QED BY <2>1, <2>2
<1>7. q - k \in Nat /\ s + k \in Nat  BY <1>1
<1> HIDE DEF w
<1>8. Rearranged(t, s + k, c, last, N, q - k, w, D, X)
  BY <1>3, <1>4, <1>5, <1>6, <1>7 DEF Rearranged
<1> QED BY <1>8 DEF N, w

\* A run is behind the debug values of Tail, as far as registers go, where it is at its start.
LEMMA TailStarts ==
  ASSUME NEW t, NEW c, NEW last, NEW s, NEW q, NEW to, NEW k, NEW S,
         TailIn(t, c, last, s, q, to, k, S), NEW D, D = {}, NEW X, X = {},
         NEW holds, NEW R, NEW C, Trace(C, holds, t, Len(t), R), NEW l \in 0 .. s + k
  PROVE  Agree(C[l], C[0], R, D, X)
<1> DEFINE M == Len(t)
           z == 0
<1>1. /\ s \in Nat /\ q \in Nat /\ k \in 0 .. q /\ M = s + q
      /\ \A j \in 1 .. s : t[j].kind = "phi"
      /\ \A j \in 1 .. q : t[s + j] = c[to[j]] /\ (j <= k => to[j] \in S)
      /\ \A p \in S : IsDebug(c[p])
  BY DEF TailIn, Halves
<1>2. ASSUME NEW j \in z + 1 .. l  PROVE Quiet(t[j], D, X)
  <2>1. CASE j \in 1 .. s  BY <1>1, <2>1 DEF Quiet, Idle
  <2>2. CASE j \notin 1 .. s
    <3> DEFINE e == j - s
    <3>1. e \in 1 .. q /\ s + e = j /\ e <= k  BY <1>1, <2>2
    <3> HIDE DEF e
    <3>2. IsDebug(t[s + e])  BY <1>1, <3>1
    <3> QED BY <3>1, <3>2 DEF Quiet, Idle, IsDebug
  <2> QED BY <2>1, <2>2
<1>3. M \in Nat /\ z \in 0 .. M /\ l \in z .. M /\ Trace(C, holds, t, M, R)  BY <1>1
<1> HIDE DEF M, z
<1>4. Agree(C[l], C[z], R, D, X)  BY <1>2, <1>3, QuietRun
<1> QED BY <1>4 DEF z

LEMMA TailRuns ==
  ASSUME NEW f, NEW n, NEW g, NEW m, NEW H, NEW F, NEW T, NEW i, NEW last, NEW d, NEW r,
         NEW at, NEW s, NEW q, NEW to,
         Expansion(f, n, g, m, H, F, T, i, last, d, r, at, s, q, to),
         NEW D, D = {}, NEW X, X = {}, NEW holds, NEW R,
         NEW A, Trace(A, holds, f.body[H], Len(f.body[H]), R),
         NEW C, Trace(C, holds, g.body[T], Len(g.body[T]), R),
         Agree(A[last], C[0], R, D, X)
  PROVE  Agree(A[Len(f.body[H])], C[Len(g.body[T])], R, D, X)
<1> DEFINE c == f.body[H]
           t == g.body[T]
           N == Len(c)
           M == Len(t)
           S == SelectDebugValues(c, i, last)
<1>1. PICK k : TailIn(t, c, last, s, q, to, k, S)  BY TailHalves
<1>2. /\ s \in Nat /\ q \in Nat /\ k \in 0 .. q /\ M = s + q  BY <1>1 DEF TailIn, Halves
<1>4. FunctionOK(f, n) /\ H \in Blocks(f) /\ Scanned(f, H, i, last)  BY SplitFacts DEF Expansion
<1>5. N \in Nat /\ i \in 1 .. N /\ last \in i .. N  BY <1>4, InBlocks DEF Scanned
<1>6. Trace(A, holds, c, N, R) /\ Trace(C, holds, t, M, R) /\ Agree(A[last], C[0], R, D, X)
  OBVIOUS
<1> DEFINE w == Behind(to, q, k)
           l == s + k
           o == q - k
<1> HIDE DEF c, t, S
<1>7. last \in Nat /\ last \in 0 .. N /\ N \in last .. N  BY <1>5
<1>8. Rearranged(t, l, c, last, N, o, w, D, X)  BY <1>1, <1>5, <1>7, TailRearranged
<1>9. M \in Nat /\ l + o = M /\ l + o <= M /\ l \in 0 .. s + k  BY <1>2
<1>10. Agree(C[l], C[0], R, D, X)  BY <1>1, <1>6, <1>9, TailStarts
<1> HIDE DEF N, M, w, l, o
<1>11. Agree(A[last], C[l], R, D, X)  BY <1>6, <1>10, AgreeTrans, AgreeSym
<1>12. Agree(A[N], C[l + o], R, D, X)  BY <1>5, <1>6, <1>7, <1>8, <1>9, <1>11, Simulates
<1> QED BY <1>9, <1>12 DEF c, t, N, M

\* f has run Head up to the last select, and g is in Tail behind the phis.
Arrives(A, B, last, r, v1, v2, R, F, T, X) ==
  /\ v1.at \in {F, T} /\ Arrived(A[last], v2, R, T, X) /\ Going(A, last)
  /\ \A z : ShownOf(v2, z) = ShownOf(B[r], z)

LEMMA HeadArrives ==
  ASSUME NEW f, NEW n, NEW g, NEW m, NEW H, NEW F, NEW T, NEW i, NEW last, NEW d, NEW r,
         NEW at, NEW s, NEW q, NEW to,
         Expansion(f, n, g, m, H, F, T, i, last, d, r, at, s, q, to),
         NEW R, R = Regs(f), NEW X, X = {},
         NEW u, NEW v, AtSame(u, v, f, R, X), u.at = H, NEW holds,
         NEW v1, v1 = RunBlock(g, holds, v, H),
         NEW v2, v2 = IF v1.at = F THEN RunBlock(g, holds, v1, F) ELSE v1,
         NEW A, A = Run(holds, u, f.body[H]), NEW B, B = Run(holds, v, g.body[H])
  PROVE  Arrives(A, B, last, r, v1, v2, R, F, T, X)
<1> DEFINE c == f.body[H]
           h == g.body[H]
           N == Len(c)
           D == Dests(c, i, last)
           P == Source(holds, d, H, F)
<1>1. /\ FunctionOK(f, n) /\ FunctionOK(g, m) /\ Split(f, n, g, m, H, F, T)
      /\ Scanned(f, H, i, last)
  BY DEF Expansion
<1>2. H \in Blocks(f) /\ H \in Blocks(g) /\ T \in Blocks(g) /\ F # T  BY <1>1, SplitFacts
<1>3. IsState(u, R) /\ IsState(v, R) /\ Agree(u, v, R, {}, X) /\ u.to = {} /\ v.to = {}
  <2>1. H # 0  BY <1>1, <1>2, InBlocks
  <2> QED BY <2>1 DEF AtSame, Agree
<1>4. /\ Trace(A, holds, c, N, R) /\ A[0] = u /\ N \in Nat
      /\ IsState(A[N], R) /\ A[N].to \in Targets(c, N)
  <2>1. A = Run(holds, u, f.body[H])  OBVIOUS
  <2>2. /\ Trace(A, holds, f.body[H], Len(f.body[H]), R) /\ A[0] = u /\ Len(f.body[H]) \in Nat
        /\ IsState(A[Len(f.body[H])], R) /\ A[Len(f.body[H])].to \in Targets(f.body[H], Len(f.body[H]))
    BY <1>1, <1>2, <1>3, <2>1, TraceIs
  <2> QED BY <2>2
<1>5. Trace(B, holds, h, Len(h), R) /\ B[0] = v
  <2>1. B = Run(holds, v, g.body[H])  OBVIOUS
  <2>2. Trace(B, holds, g.body[H], Len(g.body[H]), R) /\ B[0] = v
    BY <1>1, <1>2, <1>3, <2>1, TraceIs
  <2> QED BY <2>2
<1>7. RunBlock(g, holds, v, H) = Leave(g, B[Len(h)], H)  BY DEF RunBlock
<1>9. P = Source(holds, d, H, F)  OBVIOUS
<1> HIDE DEF P
<1>10. Agree(A[last], B[r], R, D, X) /\ A[last].to = {}
  <2>1. Agree(A[0], B[0], R, {}, X) /\ A[0].to = {}  BY <1>3, <1>4, <1>5
  <2>2. /\ Trace(A, holds, f.body[H], Len(f.body[H]), R)
        /\ Trace(B, holds, g.body[H], Len(g.body[H]), R)
    BY <1>4, <1>5
  <2>3. HeadRan(A, B, last, r, R, Dests(f.body[H], i, last), X)  BY <2>1, <2>2, HeadRuns
  <2> QED BY <2>3 DEF HeadRan
<1>11. \A k \in 0 .. last : A[k].to = {}
  <2>1. \A k \in 1 .. last : ~IsTerminator(c[k])  BY <1>1, <1>2, NoTerminators
  <2>2. last \in 0 .. N
    <3>1. i \in 1 .. N /\ last \in i .. N  BY <1>1 DEF Scanned
    <3> HIDE DEF N
    <3> QED BY <1>4, <3>1
  <2>3. A[0].to = {}  BY <1>3, <1>4
  <2> HIDE DEF c, N
  <2> QED BY <1>4, <2>1, <2>2, <2>3, StaysIn
<1>12. /\ Alike(B[r + 1], B[r], R) /\ r + 1 = Len(h)
       /\ Tested(B[r + 1], holds, d, T)
  <2>1. B[r].to = {}  BY <1>10 DEF Agree
  <2>2. Trace(B, holds, g.body[H], Len(g.body[H]), R)  BY <1>5
  <2>3. Branched(B, r, g.body[H], R, holds, d, T)
    BY <2>1, <2>2, BranchRuns
  <2> QED BY <2>3 DEF Branched
<1>13. v1 = Leave(g, B[r + 1], H)  BY <1>7, <1>12
<1>14. PICK x : Alike(x, B[r + 1], R) /\ Through(v1, x, g, holds, P, F, T)
  <2> DEFINE w == B[r + 1]
  <2>1. IsState(w, R) /\ Tested(w, holds, d, T) /\ v1 = Leave(g, w, H)
    BY <1>12, <1>13 DEF Alike
  <2> HIDE DEF w
  <2>2. \E x : Alike(x, w, R) /\ Through(v1, x, g, holds, P, F, T)
    BY <1>9, <2>1, ThroughTriangle
  <2> QED BY <2>2 DEF w
<1>15. v2 = Enter(g, x, P, T) /\ v1.at \in {F, T}  BY <1>14 DEF Through
<1>16. Alike(x, B[r], R)
  <2>1. Alike(x, B[r + 1], R) /\ Alike(B[r + 1], B[r], R)  BY <1>12, <1>14
  <2> QED BY <2>1 DEF Alike
<1>17. IsState(v2, R) /\ v2.at = T /\ v2.to = {} /\ Agree(A[last], v2, R, {}, X)
  <2> DEFINE b == B[r]
             a == A[last]
  <2>0. a = A[last]  OBVIOUS
  <2>1. Agree(a, b, R, Dests(f.body[H], i, last), X) /\ Alike(x, b, R)  BY <1>10, <1>16
  <2>2. Trace(A, holds, f.body[H], Len(f.body[H]), R)  BY <1>4
  <2>3. Going(A, last)  BY <1>11 DEF Going
  <2> HIDE DEF a, b
  <2>4. Arrived(a, v2, R, T, X)
    BY <1>9, <1>15, <2>0, <2>1, <2>2, <2>3, TailEntered
  <2> QED BY <2>0, <2>4 DEF Arrived
<1>18. \A z : ShownOf(v2, z) = ShownOf(B[r], z)
  <2>1. IsState(x, R) /\ \A z : ShownOf(x, z) = ShownOf(B[r], z)  BY <1>16 DEF Alike
  <2>2. FunctionOK(g, m) /\ DefinedOnce(g) /\ NONE \notin R  BY DEF Expansion, Regs
  <2>3. Entering(v2, x, g, T, P, R)  BY <1>2, <1>15, <2>1, <2>2, EnterIs
  <2>4. v2.shown = x.shown  BY <2>3 DEF Entering
  <2> QED BY <2>1, <2>4 DEF ShownOf
<1>19. Arrived(A[last], v2, R, T, X)  BY <1>17 DEF Arrived
<1>20. Going(A, last)  BY <1>11 DEF Going
<1> QED BY <1>15, <1>18, <1>19, <1>20 DEF Arrives

----------------------------------------------------------------------------
(* What debug values show.                                                 *)

\* What holds of Head's code, whatever else is in the function f.
HeadHas(f, c, i, last) ==
  /\ Len(c) \in Nat /\ i \in 1 .. Len(c) /\ last \in i .. Len(c) /\ IsSelect(c[last])
  /\ \A k \in 1 .. Len(c) : InstrOK(f, c[k])
  /\ \A k, l \in 1 .. Len(c) : c[k].def = c[l].def /\ c[k].def # NONE => k = l

LEMMA InHead ==
  ASSUME NEW f, NEW n, NEW g, NEW m, NEW H, NEW F, NEW T, NEW i, NEW last, NEW d, NEW r,
         NEW at, NEW s, NEW q, NEW to,
         Expansion(f, n, g, m, H, F, T, i, last, d, r, at, s, q, to)
  PROVE  /\ FunctionOK(f, n) /\ DefinedOnce(f) /\ H \in Blocks(f) /\ Scanned(f, H, i, last)
         /\ HeadHas(f, f.body[H], i, last)
<1>1. FunctionOK(f, n) /\ DefinedOnce(f) /\ H \in Blocks(f) /\ Scanned(f, H, i, last)
  BY SplitFacts DEF Expansion
<1>2. Sequence(f.body[H]) /\ \A k \in 1 .. Len(f.body[H]) : InstrOK(f, f.body[H][k])
  BY <1>1 DEF FunctionOK, BlockOK, InstrsOK
<1>3. Len(f.body[H]) \in Nat  BY <1>1, InBlocks
<1>4. DOMAIN f.body[H] = 1 .. Len(f.body[H])  BY <1>2 DEF Sequence
<1>5. \A k, l \in 1 .. Len(f.body[H]) :
        f.body[H][k].def = f.body[H][l].def /\ f.body[H][k].def # NONE => k = l
  BY <1>1, <1>4 DEF DefinedOnce
<1> QED BY <1>1, <1>2, <1>3, <1>5 DEF HeadHas, Scanned

\* A debug value reads one register.
LEMMA DebugReads ==
  ASSUME NEW f, NEW m, InstrOK(f, m), IsDebug(m)
  PROVE  m.args[1] # NONE /\ \A y : y \in Range(m.args) <=> y = m.args[1]
<1> DEFINE w == m.args
<1>1. Len(w) = 1 /\ DOMAIN w = 1 .. Len(w) /\ \A k \in DOMAIN w : w[k] \in Registers
  BY Reads DEF InstrOK
<1> HIDE DEF w
<1>2. DOMAIN w = {1}  BY <1>1
<1>3. w[1] # NONE  BY <1>1, <1>2, NoRegister
<1>4. \A y : y \in Range(w) <=> y = w[1]  BY <1>2 DEF Range
<1> QED BY <1>3, <1>4 DEF w

\* The debug values collected follow a select.
LEMMA CollectedIs ==
  ASSUME NEW f, NEW c, NEW i, NEW last, HeadHas(f, c, i, last), NEW d \in 1 .. Len(c),
         IsDebug(c[d])
  PROVE  d \in SelectDebugValues(c, i, last) <=> \E k \in i .. last : FollowsSelect(c, k, d)
<1>1. /\ Len(c) \in Nat /\ i \in 1 .. Len(c) /\ last \in i .. Len(c) /\ InstrOK(f, c[d])
  BY DEF HeadHas
<1>2. \A y : y \in Range(c[d].args) <=> y = c[d].args[1]  BY <1>1, DebugReads
<1>3. ASSUME NEW k \in i .. last, FollowsSelect(c, k, d)
      PROVE  d \in SelectDebugValues(c, i, last)
  <2>1. /\ IsSelect(c[k]) /\ k < d /\ c[d].args[1] = c[k].def
        /\ \A j \in k + 1 .. d : IsDebug(c[j])
    BY <1>3 DEF FollowsSelect
  <2>2. d \in k + 1 .. Len(c)  BY <1>1, <2>1
  <2>3. d \in CollectDebugValues(c, k)  BY <1>2, <2>1, <2>2 DEF CollectDebugValues
  <2> QED BY <2>1, <2>3 DEF SelectDebugValues
<1>4. ASSUME d \in SelectDebugValues(c, i, last)
      PROVE  \E k \in i .. last : FollowsSelect(c, k, d)
  <2>1. PICK k \in i .. last : IsSelect(c[k]) /\ d \in CollectDebugValues(c, k)
    BY <1>4 DEF SelectDebugValues
  <2>2. /\ d \in k + 1 .. Len(c) /\ \A j \in k + 1 .. d : IsDebug(c[j])
        /\ c[k].def \in Range(c[d].args)
    BY <2>1 DEF CollectDebugValues
  <2>3. k < d  BY <1>1, <2>2
  <2>4. FollowsSelect(c, k, d)  BY <1>2, <2>1, <2>2, <2>3 DEF FollowsSelect
  <2> QED BY <2>4
<1> QED BY <1>3, <1>4

\* The debug values of x behind a up to b are those that move to Tail; the ones ahead of
\* them show no result of a select before.
Kept(c, i, last, x, a, b) ==
  /\ a \in i .. last /\ b \in last .. Len(c)
  /\ \A p \in i .. Len(c) : DebugOf(c[p], x) =>
       /\ (a < p /\ p <= b) <=> p \in SelectDebugValues(c, i, last)
       /\ p <= a => c[p].args[1] \notin SelectDests(c, i, p)

\* In the first n instructions of c, none but the one at k defines y.
OnlyAt(c, n, y, k) == \A l \in 1 .. n : c[l].def = y => l = k

\* A register that is defined at k only keeps its value elsewhere.
LEMMA KeptElsewhere ==
  ASSUME NEW holds, NEW R, NEW c, NEW N \in Nat, NEW A, Trace(A, holds, c, N, R),
         NEW y, NEW k, OnlyAt(c, N, y, k),
         NEW u \in 0 .. N, NEW v \in u .. N, k \notin u + 1 .. v
  PROVE  Value(A[v].env, y) = Value(A[u].env, y)
<1>1. ASSUME NEW l \in u + 1 .. v  PROVE c[l].def # y
  <2>1. l \in 1 .. N /\ l # k  OBVIOUS
  <2> QED BY <2>1 DEF OnlyAt
<1>2. Undefined(c, u, v, y)  BY <1>1 DEF Undefined
<1> QED BY <1>2, KeepsValue

\* The debug values that Head keeps see what they saw.
LEMMA HeadSeesAlike ==
  ASSUME NEW f, NEW n, NEW g, NEW m, NEW H, NEW F, NEW T, NEW i, NEW last, NEW d, NEW r,
         NEW at, NEW s, NEW q, NEW to,
         Expansion(f, n, g, m, H, F, T, i, last, d, r, at, s, q, to),
         NEW holds, NEW R,
         NEW A, Trace(A, holds, f.body[H], Len(f.body[H]), R),
         NEW B, Trace(B, holds, g.body[H], Len(g.body[H]), R),
         NEW D, D = {}, Agree(A[0], B[0], R, D, D),
         NEW j \in 1 .. r, NEW y, y # NONE,
         i <= at[j] => y \notin SelectDests(f.body[H], i, at[j])
  PROVE  SeenAlike(A[at[j] - 1], B[j - 1], y)
<1> DEFINE c == f.body[H]
           h == g.body[H]
           N == Len(c)
           M == Len(h)
           E == Dests(c, i, last)
           u == at[j] - 1
           v == j - 1
           z == 0
<1>1. HeadHas(f, c, i, last)  BY InHead
<1>2. /\ N \in Nat /\ i \in 1 .. N /\ last \in i .. N
      /\ \A k, l \in 1 .. N : c[k].def = c[l].def /\ c[k].def # NONE => k = l
  BY <1>1 DEF HeadHas
<1>3. HeadCopies(h, c, H \in f.succs[H], i, last, H, T, d, r, at)  BY DEF Expansion, Expanded
<1>4. /\ M = r + 1 /\ r \in Nat /\ at \in [1 .. r -> 1 .. last]
      /\ \A k \in 1 .. r : /\ IsCopy(h[k], c[at[k]], H \in f.succs[H], H, T)
                           /\ i <= at[k] => ~IsSelect(c[at[k]])
  BY <1>3 DEF HeadCopies
<1>5. Rearranged(h, 0, c, 0, last, r, at, E, D)  BY HeadRearranged
<1>6. Trace(A, holds, c, N, R) /\ Trace(B, holds, h, M, R) /\ Agree(A[0], B[0], R, D, D)
  OBVIOUS
<1>7. Agree(A[0], B[0], R, E, D)  BY <1>6 DEF Agree
<1>8. /\ z \in 0 .. N /\ last \in z .. N /\ z + r <= M /\ M \in Nat /\ z + v = v
      /\ Rearranged(h, z, c, z, last, r, at, E, D) /\ Agree(A[z], B[z], R, E, D)
  BY <1>2, <1>4, <1>5, <1>7
<1>9. at[j] \in 1 .. last /\ u \in 0 .. N /\ v \in 0 .. M /\ z < at[j]
  <2>1. at[j] \in 1 .. last  BY <1>4
  <2> HIDE DEF N, c
  <2> QED BY <1>2, <1>4, <2>1
<1>10. y \in E => \E k \in i .. last : IsSelect(c[k]) /\ c[k].def = y  BY DEF Dests
<1>11. \A k \in i .. at[j] - 1 : IsSelect(c[k]) => c[k].def \in SelectDests(c, i, at[j])
  BY DEF SelectDests
<1>20. \A k \in 1 .. r : h[k].def = c[at[k]].def  BY <1>4 DEF IsCopy
<1>22. i <= at[j] => y \notin SelectDests(c, i, at[j])  OBVIOUS
<1>23. h[M].def = NONE
  <2>1. h[M] = d  BY <1>3, <1>4 DEF HeadCopies
  <2>2. d.def = NONE  BY DEF Expansion, BranchesAround, Branch, Instr
  <2> QED BY <2>1, <2>2
<1> HIDE DEF c, h, N, M, E, z
<1>12. Agree(A[at[j] - 1], B[z + (j - 1)], R, E, D)
  BY <1>2, <1>6, <1>8, <1>9, SimulatesUpTo
<1>13. Agree(A[u], B[v], R, E, D)  BY <1>8, <1>12
<1>14. IsState(A[u], R) /\ IsState(B[v], R)  BY <1>6, <1>9 DEF Trace
<1>15. A[u].to = B[v].to  BY <1>13 DEF Agree
<1>16. CASE y \notin E
  <2>1. Value(A[u].env, y) = Value(B[v].env, y)
    <3> HIDE DEF u, v
    <3> QED BY <1>13, <1>14, <1>16, ValuesAgree
  <2> QED BY <1>15, <2>1 DEF SeenAlike
<1>17. CASE y \in E
  <2>1. PICK k \in i .. last : IsSelect(c[k]) /\ c[k].def = y  BY <1>10, <1>17
  <2>2. k \notin z + 1 .. u
    <3> SUFFICES ASSUME k \in z + 1 .. u  PROVE FALSE
      OBVIOUS
    <3>1. i <= at[j] /\ k \in i .. at[j] - 1  BY <1>2, <1>9, <2>1 DEF z
    <3> QED BY <1>11, <1>22, <2>1, <3>1
  <2>3. \A l \in 1 .. N : c[l].def = y => l = k
    <3>1. k \in 1 .. N  BY <1>2
    <3> QED BY <1>2, <2>1, <3>1
  <2>4. ASSUME NEW l \in 1 .. M, h[l].def = y  PROVE FALSE
    <3>6. l # M  BY <1>23, <2>4
    <3>1. l \in 1 .. r  BY <1>4, <3>6
    <3>2. c[at[l]].def = y /\ at[l] \in 1 .. last  BY <1>4, <1>20, <2>4, <3>1
    <3>3. at[l] \in 1 .. N  BY <1>2, <3>2
    <3>4. at[l] = k  BY <2>3, <3>2, <3>3
    <3>5. i <= at[l]  BY <1>2, <3>4
    <3> QED BY <1>4, <2>1, <3>1, <3>4, <3>5
  <2>5. Value(A[u].env, y) = Value(A[z].env, y)
    <3>1. z \in 0 .. N /\ u \in z .. N  BY <1>8, <1>9 DEF z
    <3>2. OnlyAt(c, N, y, k)  BY <2>3 DEF OnlyAt
    <3> HIDE DEF u
    <3> QED BY ONLY <1>2, <1>6, <2>2, <3>1, <3>2, KeptElsewhere
  <2>6. Value(B[v].env, y) = Value(B[z].env, y)
    <3>1. z \in 0 .. M /\ v \in z .. M /\ M \in Nat  BY <1>8, <1>9 DEF z
    <3>2. Undefined(h, z, v, y)
      <4>1. \A l \in z + 1 .. v : l \in 1 .. M  BY <3>1 DEF z
      <4> QED BY <2>4, <4>1 DEF Undefined
    <3> HIDE DEF v
    <3> QED BY <1>6, <3>1, <3>2, KeepsValue
  <2>7. Value(A[z].env, y) = Value(B[z].env, y)
    <3>1. Agree(A[z], B[z], R, D, D)  BY <1>6 DEF z
    <3>2. IsState(A[z], R) /\ IsState(B[z], R)
      <4>1. z \in 0 .. N /\ z \in 0 .. M  BY <1>8 DEF z
      <4> QED BY <1>6, <4>1 DEF Trace
    <3>3. SeenAlike(A[z], B[z], y)  BY <3>1, <3>2, AllSeenAlike
    <3> QED BY <3>3 DEF SeenAlike
  <2> QED BY <1>15, <2>5, <2>6, <2>7 DEF SeenAlike
<1>18. SeenAlike(A[u], B[v], y)  BY <1>16, <1>17
<1> QED BY <1>18 DEF u, v

\* Two states show the same of variable x.
ShowsSame(e, o, x) == ShownOf(e, x) = ShownOf(o, x)

\* Head shows of x what the code up to a showed.
LEMMA HeadShows ==
  ASSUME NEW f, NEW n, NEW g, NEW m, NEW H, NEW F, NEW T, NEW i, NEW last, NEW d, NEW r,
         NEW at, NEW s, NEW q, NEW to,
         Expansion(f, n, g, m, H, F, T, i, last, d, r, at, s, q, to),
         NEW x, NEW a, NEW b, Kept(f.body[H], i, last, x, a, b), NEW holds, NEW R,
         NEW A, Trace(A, holds, f.body[H], Len(f.body[H]), R),
         NEW B, Trace(B, holds, g.body[H], Len(g.body[H]), R),
         NEW D, D = {}, Agree(A[0], B[0], R, D, D), ShowsSame(A[0], B[0], x)
  PROVE  ShowsSame(A[a], B[r], x)
<1> DEFINE c == f.body[H]
           h == g.body[H]
           N == Len(c)
           M == Len(h)
           S == SelectDebugValues(c, i, last)
           z == 0
<1>1. HeadHas(f, c, i, last)  BY InHead
<1>2. /\ N \in Nat /\ i \in 1 .. N /\ last \in i .. N
      /\ \A k \in 1 .. N : InstrOK(f, c[k])
  BY <1>1 DEF HeadHas
<1>3. HeadCopies(h, c, H \in f.succs[H], i, last, H, T, d, r, at)  BY DEF Expansion, Expanded
<1>4. /\ M = r + 1 /\ r \in Nat /\ at \in [1 .. r -> 1 .. last]
      /\ \A k \in 1 .. r : /\ IsCopy(h[k], c[at[k]], H \in f.succs[H], H, T)
                           /\ at[k] \notin S
      /\ \A k, l \in 1 .. r : k < l => at[k] < at[l]
      /\ \A p \in 1 .. last : p < i \/ ~(IsSelect(c[p]) \/ IsDebug(c[p])) =>
           \E k \in 1 .. r : at[k] = p
      /\ \A p \in 1 .. last : ~IsSelect(c[p]) /\ p \notin S => \E k \in 1 .. r : at[k] = p
  BY <1>3 DEF HeadCopies
<1>5. /\ a \in i .. last /\ b \in last .. N
      /\ \A p \in i .. N : DebugOf(c[p], x) =>
           /\ (a < p /\ p <= b) <=> p \in S
           /\ p <= a => c[p].args[1] \notin SelectDests(c, i, p)
  BY DEF Kept
<1>6. Trace(A, holds, c, N, R) /\ Trace(B, holds, h, M, R) /\ ShownOf(A[0], x) = ShownOf(B[0], x)
  BY DEF ShowsSame
<1>7. ASSUME NEW j \in 1 .. r, DebugOf(c[at[j]], x)
      PROVE  /\ at[j] \in 1 .. a
             /\ SeenAlike(A[at[j] - 1], B[j - 1], c[at[j]].args[1])
  <2>1. at[j] \in 1 .. last /\ at[j] \notin S  BY <1>4
  <2>2. at[j] \in 1 .. N
    <3> HIDE DEF N, S, c
    <3> QED BY <1>2, <2>1
  <2>3. at[j] <= a
    <3> SUFFICES ASSUME ~(at[j] <= a)  PROVE FALSE
      OBVIOUS
    <3> HIDE DEF N, S, c
    <3>1. at[j] \in i .. N /\ a < at[j] /\ at[j] <= b  BY <1>2, <1>5, <2>1
    <3> QED BY <1>5, <1>7, <2>1, <3>1
  <2> DEFINE y == c[at[j]].args[1]
  <2>4. y # NONE
    <3>1. InstrOK(f, c[at[j]]) /\ IsDebug(c[at[j]])  BY <1>2, <1>7, <2>2 DEF DebugOf
    <3> QED BY <3>1, DebugReads
  <2>5. i <= at[j] => y \notin SelectDests(f.body[H], i, at[j])
    <3> SUFFICES ASSUME i <= at[j]  PROVE y \notin SelectDests(f.body[H], i, at[j])
      OBVIOUS
    <3>1. at[j] \in i .. N
      <4> HIDE DEF N, c
      <4> QED BY <1>2, <2>2
    <3> QED BY <1>5, <1>7, <2>3, <3>1
  <2> HIDE DEF y
  <2>6. SeenAlike(A[at[j] - 1], B[j - 1], y)  BY <2>4, <2>5, HeadSeesAlike
  <2> HIDE DEF N, S, c
  <2> QED BY <1>2, <1>5, <2>1, <2>3, <2>6 DEF y, c
<1>8. \A j \in 1 .. r : Same(h[j], c[at[j]])  BY <1>4, CopiesSame
<1> HIDE DEF c, h, N, M, S
<1>9. ASSUME NEW p \in 1 .. a, DebugOf(c[p], x)  PROVE \E j \in 1 .. r : at[j] = p
  <2>1. p \in 1 .. last /\ ~IsSelect(c[p])  BY <1>2, <1>5, <1>9 DEF DebugOf, IsDebug, IsSelect
  <2>2. CASE p < i  BY <1>4, <2>1, <2>2
  <2>3. CASE ~(p < i)
    <3>1. p \in i .. N /\ ~(a < p)  BY <1>2, <1>5, <2>3
    <3>2. p \notin S  BY <1>5, <1>9, <3>1
    <3> QED BY <1>4, <2>1, <3>2
  <2> QED BY <2>2, <2>3
<1>10. SameDebug(A, c, z, a, B, h, z, r, at, x)
  <2>1. \A j \in 1 .. r : at[j] \in Nat
    <3> SUFFICES ASSUME NEW j \in 1 .. r  PROVE at[j] \in Nat
      OBVIOUS
    <3>1. at[j] \in 1 .. last  BY <1>4
    <3> QED BY <3>1
  <2>2. \A j \in 1 .. r : z + j = j /\ z + (j - 1) = j - 1  BY <1>4
  <2>3. \A j \in 1 .. r : Same(h[z + j], c[at[j]])  BY <1>8, <2>2
  <2>4. \A j \in 1 .. r : DebugOf(c[at[j]], x) =>
          at[j] \in z + 1 .. a /\ SeenAlike(A[at[j] - 1], B[z + (j - 1)], c[at[j]].args[1])
    BY <1>7, <2>2
  <2>5. \A p \in z + 1 .. a : DebugOf(c[p], x) => \E j \in 1 .. r : at[j] = p  BY <1>9
  <2>6. z \in Nat  OBVIOUS
  <2> HIDE DEF z
  <2> QED BY <1>4, <2>1, <2>3, <2>4, <2>5, <2>6 DEF SameDebug
<1>11. z \in 0 .. N /\ a \in z .. N /\ z + r <= M /\ z + r = r /\ M \in Nat
       /\ ShownOf(A[z], x) = ShownOf(B[z], x)
  BY <1>2, <1>4, <1>5, <1>6
<1> HIDE DEF z
<1>12. ShownOf(A[a], x) = ShownOf(B[z + r], x)  BY <1>2, <1>6, <1>10, <1>11, ShowsAlike
<1> QED BY <1>11, <1>12 DEF ShowsSame

\* A debug value that moves to Tail sees what it saw, if it is shown behind the last select.
LEMMA MovedSees ==
  ASSUME NEW f, NEW c, NEW i, NEW last, HeadHas(f, c, i, last), NEW holds, NEW R,
         NEW A, Trace(A, holds, c, Len(c), R), Going(A, last),
         NEW p \in SelectDebugValues(c, i, last)
  PROVE  /\ p \in i .. Len(c)
         /\ SeenAlike(A[p - 1], A[last], c[p].args[1])
<1> DEFINE N == Len(c)
           y == c[p].args[1]
           h == p - 1
           D == {}
<1>1. /\ N \in Nat /\ i \in 1 .. N /\ last \in i .. N
      /\ \A k \in 1 .. N : InstrOK(f, c[k])
      /\ \A k, l \in 1 .. N : c[k].def = c[l].def /\ c[k].def # NONE => k = l
  BY DEF HeadHas
<1>2. PICK k \in i .. last : IsSelect(c[k]) /\ p \in CollectDebugValues(c, k)
  BY DEF SelectDebugValues
<1>3. /\ p \in k + 1 .. N /\ (\A j \in k + 1 .. p : IsDebug(c[j]))
      /\ c[k].def \in Range(c[p].args)
  BY <1>2 DEF CollectDebugValues
<1> HIDE DEF N
<1>4. p \in 1 .. N /\ p \in k + 1 .. p /\ h \in 0 .. N /\ p \in i .. N /\ k \in 1 .. N
  BY <1>1, <1>3
<1>5. y = c[k].def /\ y # NONE
  <2>1. InstrOK(f, c[p]) /\ IsDebug(c[p])  BY <1>1, <1>3, <1>4
  <2>2. y # NONE /\ \A z : z \in Range(c[p].args) <=> z = y  BY <2>1, DebugReads
  <2> QED BY <1>3, <2>2
<1>6. Trace(A, holds, c, N, R) /\ last \in 0 .. N  BY <1>1 DEF N
<1> HIDE DEF y, h
<1>7. CASE h <= last
  <2>1. h \in 0 .. last /\ last \in h .. N /\ last \in 0 .. last  BY <1>1, <1>4, <1>7
  <2>2. A[h].to = A[last].to  BY <2>1 DEF Going
  <2>3. k \notin h + 1 .. last  BY <1>1, <1>3 DEF h
  <2>4. OnlyAt(c, N, y, k)  BY <1>1, <1>4, <1>5 DEF OnlyAt
  <2>5. Value(A[last].env, y) = Value(A[h].env, y)
    BY ONLY <1>1, <1>4, <1>6, <2>1, <2>3, <2>4, KeptElsewhere
  <2> QED BY <1>4, <2>2, <2>5 DEF SeenAlike, y, h, N
<1>8. CASE ~(h <= last)
  <2>1. h \in last .. N  BY <1>1, <1>4, <1>8
  <2>2. ASSUME NEW j \in last + 1 .. h  PROVE Quiet(c[j], D, D)
    <3>1. j \in k + 1 .. p  BY <1>1, <1>3, <1>4 DEF h
    <3> QED BY <1>3, <3>1 DEF Quiet, Idle, IsDebug
  <2> HIDE DEF D
  <2>3. Agree(A[h], A[last], R, D, D)  BY <1>1, <1>6, <2>1, <2>2, QuietRun
  <2>4. IsState(A[h], R) /\ IsState(A[last], R)  BY <1>4, <1>6 DEF Trace
  <2>5. y \notin D  BY DEF D
  <2>6. Value(A[h].env, y) = Value(A[last].env, y)  BY <2>3, <2>4, <2>5, ValuesAgree
  <2>7. A[h].to = A[last].to  BY <2>3 DEF Agree
  <2> QED BY <1>4, <2>6, <2>7 DEF SeenAlike, y, h, N
<1> QED BY <1>7, <1>8

\* Tail shows of x what the code behind a showed, as far as it had not been shown.
LEMMA TailShows ==
  ASSUME NEW f, NEW n, NEW g, NEW m, NEW H, NEW F, NEW T, NEW i, NEW last, NEW d, NEW r,
         NEW at, NEW s, NEW q, NEW to,
         Expansion(f, n, g, m, H, F, T, i, last, d, r, at, s, q, to),
         NEW x, NEW a, NEW b, Kept(f.body[H], i, last, x, a, b), NEW holds, NEW R,
         NEW A, Trace(A, holds, f.body[H], Len(f.body[H]), R), Going(A, last),
         NEW C, Trace(C, holds, g.body[T], Len(g.body[T]), R),
         NEW D, D = {}, Agree(A[last], C[0], R, D, D), ShowsSame(A[a], C[0], x)
  PROVE  ShowsSame(A[Len(f.body[H])], C[Len(g.body[T])], x)
<1> DEFINE c == f.body[H]
           t == g.body[T]
           N == Len(c)
           M == Len(t)
           S == SelectDebugValues(c, i, last)
           z == 0
<1>1. PICK k : TailIn(t, c, last, s, q, to, k, S)  BY TailHalves
<1>2. HeadHas(f, c, i, last)  BY InHead
<1>3. N \in Nat /\ i \in 1 .. N /\ last \in i .. N  BY <1>2 DEF HeadHas
<1>4. /\ s \in Nat /\ q \in Nat /\ k \in 0 .. q /\ M = s + q
      /\ \A l \in 1 .. s : t[l].kind = "phi"
      /\ to \in [1 .. q -> 1 .. N] /\ \A j \in 1 .. q : t[s + j] = c[to[j]]
      /\ \A j \in 1 .. q : j <= k <=> to[j] \in S
      /\ \A j, l \in 1 .. k : j < l => to[j] < to[l]
      /\ \A j \in k + 1 .. q : to[j] \in last + 1 .. N
      /\ \A j, l \in k + 1 .. q : j < l => to[j] < to[l]
      /\ \A p \in last + 1 .. N : p \notin S => \E j \in k + 1 .. q : to[j] = p
      /\ \A p \in S : \E j \in 1 .. k : to[j] = p
  BY <1>1 DEF TailIn, Halves
<1>5. /\ a \in i .. last /\ b \in last .. N
      /\ \A p \in i .. N : DebugOf(c[p], x) => ((a < p /\ p <= b) <=> p \in S)
  BY DEF Kept
<1>6. /\ Trace(A, holds, c, N, R) /\ Trace(C, holds, t, M, R) /\ Agree(A[last], C[0], R, D, D)
      /\ ShownOf(A[a], x) = ShownOf(C[0], x)
  BY DEF ShowsSame
<1>7. \A p \in S : p \in i .. N /\ SeenAlike(A[p - 1], A[last], c[p].args[1])
  BY <1>2, <1>6, MovedSees
<1> HIDE DEF c, t, N, M, S
<1>8. /\ M \in Nat /\ z \in 0 .. M /\ s \in z .. M /\ s + k \in 0 .. M /\ s + k <= M
      /\ q - k \in Nat /\ (s + k) + (q - k) = M /\ s + k \in Nat /\ k \in Nat
      /\ last \in Nat /\ last \in 0 .. N /\ N \in last .. N
      /\ a \in 0 .. N /\ b \in a .. N /\ b \in 0 .. N /\ N \in b .. N
  BY <1>3, <1>4, <1>5
<1>9. ShownOf(C[s], x) = ShownOf(C[0], x)
  <2>1. Unshown(t, z, s, x)  BY <1>4 DEF Unshown, IsDebug
  <2> HIDE DEF z
  <2>2. ShownOf(C[s], x) = ShownOf(C[z], x)  BY <1>6, <1>8, <2>1, KeepsShown
  <2> QED BY <2>2 DEF z
<1>10. \A l \in 0 .. s + k : Agree(C[l], C[0], R, D, D)  BY <1>1, <1>6, TailStarts DEF M
<1>11. ASSUME NEW j \in 1 .. k
       PROVE  SeenAlike(A[to[j] - 1], C[s + (j - 1)], c[to[j]].args[1])
  <2> DEFINE p == to[j]
             y == c[p].args[1]
             l == s + (j - 1)
  <2>1. j \in 1 .. q /\ j <= k /\ l \in 0 .. s + k /\ l \in 0 .. M  BY <1>4, <1>8
  <2>2. p \in S  BY <1>4, <2>1
  <2>3. SeenAlike(A[p - 1], A[last], y)  BY <1>7, <2>2
  <2> HIDE DEF p, l, y
  <2>4. Agree(A[last], C[l], R, D, D)  BY <1>6, <1>10, <2>1, AgreeTrans, AgreeSym
  <2>5. IsState(A[last], R) /\ IsState(C[l], R)  BY <1>6, <1>8, <2>1 DEF Trace
  <2>6. SeenAlike(A[last], C[l], y)  BY <2>4, <2>5, AllSeenAlike
  <2>7. SeenAlike(A[p - 1], C[l], y)  BY <2>3, <2>6 DEF SeenAlike
  <2> QED BY <2>7 DEF p, y, l
<1>12. \A j \in 1 .. q : to[j] \in Nat /\ Same(t[s + j], c[to[j]])
  <2> SUFFICES ASSUME NEW j \in 1 .. q  PROVE to[j] \in Nat /\ Same(t[s + j], c[to[j]])
    OBVIOUS
  <2>1. to[j] \in 1 .. N /\ t[s + j] = c[to[j]]  BY <1>4
  <2> QED BY <2>1 DEF Same
<1>13. SameDebug(A, c, a, b, C, t, s, k, to, x)
  <2>1. \A j \in 1 .. k : j \in 1 .. q /\ j <= k  BY <1>4, <1>8
  <2>2. ASSUME NEW j \in 1 .. k, DebugOf(c[to[j]], x)  PROVE to[j] \in a + 1 .. b
    <3>1. to[j] \in S /\ to[j] \in 1 .. N  BY <1>4, <2>1
    <3>2. to[j] \in i .. N  BY <1>7, <3>1
    <3>3. a < to[j] /\ to[j] <= b  BY <1>5, <2>2, <3>1, <3>2
    <3> QED BY <1>8, <3>1, <3>3
  <2>3. ASSUME NEW p \in a + 1 .. b, DebugOf(c[p], x)  PROVE \E j \in 1 .. k : to[j] = p
    <3>1. p \in i .. N /\ a < p /\ p <= b  BY <1>3, <1>5
    <3>2. p \in S  BY <1>5, <2>3, <3>1
    <3> QED BY <1>4, <3>2
  <2>4. \A j \in 1 .. k : to[j] \in Nat /\ Same(t[s + j], c[to[j]])  BY <1>12, <2>1
  <2> QED BY <1>4, <1>8, <1>11, <2>2, <2>3, <2>4 DEF SameDebug
<1>14. ShownOf(A[b], x) = ShownOf(C[s + k], x)
  <2>1. ShownOf(A[a], x) = ShownOf(C[s], x)  BY <1>6, <1>9
  <2> QED BY <1>3, <1>6, <1>8, <1>13, <2>1, ShowsAlike
<1> DEFINE l == s + k
           o == q - k
           w == Behind(to, q, k)
<1>15. Rearranged(t, l, c, last, N, o, w, D, D)
  BY <1>1, <1>3, <1>8, TailRearranged DEF N
<1>16. \A j \in 1 .. o : /\ k + j \in k + 1 .. q /\ k + j \in 1 .. q /\ w[j] = to[k + j]
                         /\ l + j = s + (k + j)
  <2> SUFFICES ASSUME NEW j \in 1 .. o
               PROVE  /\ k + j \in k + 1 .. q /\ k + j \in 1 .. q /\ w[j] = to[k + j]
                      /\ l + j = s + (k + j)
    OBVIOUS
  <2>1. s \in Nat /\ q \in Nat /\ k \in 0 .. q /\ j \in 1 .. q - k  BY <1>4
  <2>2. k + j \in k + 1 .. q /\ k + j \in 1 .. q /\ l + j = s + (k + j)
    BY ONLY <2>1
  <2>3. w[j] = to[k + j]  BY DEF Behind
  <2> QED BY <2>2, <2>3
<1>17. Agree(A[last], C[l], R, D, D)
  <2>1. l \in 0 .. s + k  BY <1>8
  <2>2. Agree(C[l], C[0], R, D, D)  BY <1>10, <2>1
  <2> HIDE DEF l
  <2> QED BY <1>6, <2>2, AgreeTrans, AgreeSym
<1>18. /\ l \in Nat /\ o \in Nat /\ l + o <= M /\ l + o = M  BY <1>8
<1> HIDE DEF l, o, w, z
<1>19. ASSUME NEW j \in 1 .. o
       PROVE  /\ w[j] \in last + 1 .. N /\ w[j] \notin S /\ Same(t[l + j], c[w[j]])
              /\ SeenAlike(A[w[j] - 1], C[l + (j - 1)], c[w[j]].args[1])
  <2> DEFINE y == c[w[j]].args[1]
             u == w[j] - 1
             v == l + (j - 1)
  <2>1. k + j \in k + 1 .. q /\ k + j \in 1 .. q /\ w[j] = to[k + j] /\ ~(k + j <= k)
    BY <1>8, <1>16
  <2>2. w[j] \in last + 1 .. N /\ w[j] \notin S /\ Same(t[l + j], c[w[j]])
    BY <1>4, <1>12, <1>16, <2>1
  <2>3. last < w[j] /\ u \in 0 .. N /\ v \in 0 .. M
    <3>1. w[j] \in last + 1 .. N  BY <2>2
    <3>2. last < w[j] /\ w[j] - 1 \in 0 .. N  BY <1>3, <3>1
    <3>3. l + (j - 1) \in 0 .. M  BY <1>8, <1>18
    <3> QED BY <3>2, <3>3
  <2>4. Agree(A[u], C[v], R, D, D)
    <3>1. Agree(A[w[j] - 1], C[l + (j - 1)], R, D, D)
      BY <1>3, <1>6, <1>8, <1>15, <1>17, <1>18, <2>3, SimulatesUpTo
    <3> QED BY <3>1
  <2> HIDE DEF u, v, y
  <2>5. IsState(A[u], R) /\ IsState(C[v], R)  BY <1>6, <2>3 DEF Trace
  <2>6. SeenAlike(A[u], C[v], y)  BY <2>4, <2>5, AllSeenAlike
  <2> QED BY <2>2, <2>6 DEF u, v, y
<1>20. SameDebug(A, c, b, N, C, t, l, o, w, x)
  <2>1. ASSUME NEW j \in 1 .. o, DebugOf(c[w[j]], x)  PROVE w[j] \in b + 1 .. N
    <3>1. w[j] \in last + 1 .. N /\ w[j] \notin S  BY <1>19
    <3>2. w[j] \in i .. N /\ a < w[j]  BY <1>3, <1>5, <3>1
    <3>3. ~(w[j] <= b)  BY <1>5, <2>1, <3>1, <3>2
    <3> QED BY <1>8, <3>2, <3>3
  <2>2. ASSUME NEW p \in b + 1 .. N, DebugOf(c[p], x)  PROVE \E j \in 1 .. o : w[j] = p
    <3>1. p \in i .. N /\ ~(p <= b) /\ p \in last + 1 .. N  BY <1>3, <1>5, <1>8
    <3>2. p \notin S  BY <1>5, <2>2, <3>1
    <3>3. PICK j \in k + 1 .. q : to[j] = p  BY <1>4, <3>1, <3>2
    <3>4. j - k \in 1 .. o /\ k + (j - k) = j  BY <1>4 DEF o
    <3> QED BY <1>16, <3>3, <3>4
  <2>3. \A j, e \in 1 .. o : j < e => w[j] < w[e]
    <3> SUFFICES ASSUME NEW j \in 1 .. o, NEW e \in 1 .. o, j < e  PROVE w[j] < w[e]
      OBVIOUS
    <3>1. k + j < k + e  BY <1>8, <1>18
    <3> QED BY <1>4, <1>16, <3>1
  <2>4. \A j \in 1 .. o : w[j] \in Nat
    <3> SUFFICES ASSUME NEW j \in 1 .. o  PROVE w[j] \in Nat
      OBVIOUS
    <3>1. w[j] \in last + 1 .. N  BY <1>19
    <3> QED BY <1>8, <3>1
  <2> QED BY <1>18, <1>19, <2>1, <2>2, <2>3, <2>4 DEF SameDebug
<1>21. ShownOf(A[b], x) = ShownOf(C[l], x)  BY <1>14 DEF l
<1>22. ShownOf(A[N], x) = ShownOf(C[l + o], x)
  <2>1. /\ N \in Nat /\ M \in Nat /\ b \in 0 .. N /\ N \in b .. N /\ l + o <= M
        /\ Trace(A, holds, c, N, R) /\ Trace(C, holds, t, M, R)
    BY <1>3, <1>6, <1>8, <1>18
  <2> QED BY ONLY <1>20, <1>21, <2>1, ShowsAlike
<1> QED BY <1>18, <1>22 DEF ShowsSame, N, M, c, t

----------------------------------------------------------------------------
(* Head, False and Tail together.                                          *)

\* The debug values of each variable of X stay in order when the sequence from i up to
\* last is expanded.
KeptShown(c, i, last, X) == \A x \in X : \E a, b : Kept(c, i, last, x, a, b)

LEMMA HeadStep ==
  ASSUME NEW f, NEW n, NEW g, NEW m, NEW H, NEW F, NEW T, NEW i, NEW last, NEW d, NEW r,
         NEW at, NEW s, NEW q, NEW to,
         Expansion(f, n, g, m, H, F, T, i, last, d, r, at, s, q, to),
         NEW R, R = Regs(f), NEW X, KeptShown(f.body[H], i, last, X),
         NEW u, NEW v, AtSame(u, v, f, R, X), u.at = H, NEW holds,
         NEW v1, v1 = RunBlock(g, holds, v, H),
         NEW v2, v2 = IF v1.at = F THEN RunBlock(g, holds, v1, F) ELSE v1
  PROVE  /\ v1.at \in {F, T} /\ v2.at = T
         /\ AtSame(RunBlock(f, holds, u, H), RunBlock(g, holds, v2, T), f, R, X)
<1> DEFINE c == f.body[H]
           t == g.body[T]
           h == g.body[H]
           N == Len(c)
           A == Run(holds, u, c)
           B == Run(holds, v, h)
           C == Run(holds, v2, t)
           D == {}
<1>1. FunctionOK(f, n) /\ FunctionOK(g, m) /\ Split(f, n, g, m, H, F, T)  BY DEF Expansion
<1>2. H \in Blocks(f) /\ H \in Blocks(g) /\ T \in Blocks(g)  BY <1>1, SplitFacts
<1>3. IsState(u, R) /\ IsState(v, R) /\ u.to = {} /\ v.to = {}
  <2>1. H # 0  BY <1>1, <1>2, InBlocks
  <2> QED BY <2>1 DEF AtSame, Agree
<1>9. AtSame(u, v, f, R, D) /\ Agree(u, v, R, D, D)  BY DEF AtSame, Agree
<1>10. \A x \in X : ShownOf(u, x) = ShownOf(v, x)  BY DEF AtSame, Agree
<1>4. A = Run(holds, u, f.body[H]) /\ B = Run(holds, v, g.body[H]) /\ C = Run(holds, v2, g.body[T])
  OBVIOUS
<1>6. RunBlock(f, holds, u, H) = Leave(f, A[N], H)  BY DEF RunBlock
<1>8. RunBlock(g, holds, v2, T) = Leave(g, C[Len(t)], T)  BY DEF RunBlock
<1>13. D = {}  OBVIOUS
<1> HIDE DEF A, B, C, D
<1>5. Arrives(A, B, last, r, v1, v2, R, F, T, D)  BY <1>4, <1>9, <1>13, HeadArrives
<1>7. /\ Trace(A, holds, c, N, R) /\ A[0] = u /\ IsState(A[N], R) /\ A[N].to \in Targets(c, N)
  <2>2. /\ Trace(A, holds, f.body[H], Len(f.body[H]), R) /\ A[0] = u
        /\ IsState(A[Len(f.body[H])], R) /\ A[Len(f.body[H])].to \in Targets(f.body[H], Len(f.body[H]))
    BY <1>1, <1>2, <1>3, <1>4, TraceIs
  <2> QED BY <2>2
<1>11. Trace(B, holds, h, Len(h), R) /\ B[0] = v
  <2>1. Trace(B, holds, g.body[H], Len(g.body[H]), R) /\ B[0] = v
    BY <1>1, <1>2, <1>3, <1>4, TraceIs
  <2> QED BY <2>1
<1>17. /\ v1.at \in {F, T} /\ Arrived(A[last], v2, R, T, D) /\ Going(A, last)
       /\ \A z : ShownOf(v2, z) = ShownOf(B[r], z)
  BY <1>5 DEF Arrives
<1>14. IsState(v2, R) /\ v2.at = T /\ v2.to = {} /\ Agree(A[last], v2, R, D, D)
  BY <1>13, <1>17 DEF Arrived
<1>18. Trace(C, holds, t, Len(t), R) /\ C[0] = v2 /\ IsState(C[Len(t)], R)
  <2>1. /\ Trace(C, holds, g.body[T], Len(g.body[T]), R) /\ C[0] = v2
        /\ IsState(C[Len(g.body[T])], R)
    BY <1>1, <1>2, <1>4, <1>14, TraceIs
  <2> QED BY <2>1
<1>15. Agree(A[last], C[0], R, D, D)  BY <1>14, <1>18
<1>19. Agree(A[N], C[Len(t)], R, D, D)
  BY <1>7, <1>13, <1>15, <1>18, TailRuns
<1>21. ASSUME NEW x \in X  PROVE ShownOf(A[N], x) = ShownOf(C[Len(t)], x)
  <2>1. PICK a, b : Kept(f.body[H], i, last, x, a, b)  BY DEF KeptShown
  <2>2. ShowsSame(A[0], B[0], x) /\ Agree(A[0], B[0], R, D, D)
    BY <1>7, <1>9, <1>10, <1>11 DEF ShowsSame
  <2>3. ShowsSame(A[a], B[r], x)  BY <1>7, <1>11, <1>13, <2>1, <2>2, HeadShows
  <2>4. ShowsSame(A[a], C[0], x)  BY <1>17, <1>18, <2>3 DEF ShowsSame
  <2>5. ShowsSame(A[Len(f.body[H])], C[Len(g.body[T])], x)
    BY <1>7, <1>13, <1>15, <1>17, <1>18, <2>1, <2>4, TailShows
  <2> QED BY <2>5 DEF ShowsSame
<1>22. Agree(A[N], C[Len(t)], R, {}, X)  BY <1>13, <1>19, <1>21 DEF Agree
<1>20. AtSame(Leave(f, A[N], H), Leave(g, C[Len(t)], T), f, R, X)
  <2> DEFINE a == A[N]
             b == C[Len(t)]
  <2>1. Stands(H, H, T) = T  BY DEF Stands
  <2>2. IsState(a, R) /\ IsState(b, R) /\ Agree(a, b, R, {}, X)
        /\ a.to \in Targets(f.body[H], Len(f.body[H])) /\ Leave(g, b, T) = Leave(g, b, Stands(H, H, T))
    BY <1>7, <1>18, <1>22, <2>1
  <2> HIDE DEF a, b
  <2>3. AtSame(Leave(f, a, H), Leave(g, b, T), f, R, X)  BY <1>2, <2>2, LeaveAgrees
  <2> QED BY <2>3 DEF a, b
<1> QED BY <1>6, <1>8, <1>14, <1>17, <1>20

----------------------------------------------------------------------------
(* One pass through the layout.                                            *)

IsPass(A, f, holds, n) ==
  A = [k \in 0 .. n |->
         IF k = 0 THEN Start(f) ELSE Visit(f, holds, A[k - 1], f.order[k])]

Passes(A, f, holds, n) ==
  A[0] = Start(f) /\ \A k \in 1 .. n : A[k] = Visit(f, holds, A[k - 1], f.order[k])

LEMMA PassExists ==
  ASSUME NEW f, NEW holds, NEW n \in Nat
  PROVE  \E A : IsPass(A, f, holds, n)
<1> DEFINE T == {m \in 0 .. n : ~ \E A : IsPass(A, f, holds, m)}
<1> SUFFICES ASSUME T # {}  PROVE FALSE
  BY DEF IsPass
<1>1. PICK m \in T : \A k \in T : m <= k
  <2>1. T \subseteq Nat  OBVIOUS
  <2> HIDE DEF T
  <2> QED BY <2>1, Least
<1>2. m \in 0 .. n /\ ~ \E A : IsPass(A, f, holds, m)  BY <1>1
<1>3. CASE m = 0
  <2> DEFINE w == [k \in 0 .. 0 |-> Start(f)]
  <2>1. w = [k \in 0 .. 0 |-> IF k = 0 THEN Start(f) ELSE Visit(f, holds, w[k - 1], f.order[k])]
    OBVIOUS
  <2> HIDE DEF w
  <2>2. IsPass(w, f, holds, 0)  BY <2>1 DEF IsPass
  <2> QED BY <1>2, <1>3, <2>2
<1>4. CASE m # 0
  <2>1. m - 1 \in 0 .. n /\ ~(m <= m - 1)  BY <1>2, <1>4
  <2>2. m - 1 \notin T  BY <1>1, <2>1
  <2>3. PICK u : IsPass(u, f, holds, m - 1)  BY <2>1, <2>2
  <2> DEFINE w == [k \in 0 .. m |-> IF k = m THEN Visit(f, holds, u[m - 1], f.order[m]) ELSE u[k]]
  <2>5. \A k \in 0 .. m - 1 : u[k] = IF k = 0 THEN Start(f) ELSE Visit(f, holds, u[k - 1], f.order[k])
    <3> DEFINE e(k) == IF k = 0 THEN Start(f) ELSE Visit(f, holds, u[k - 1], f.order[k])
    <3>1. u = [k \in 0 .. m - 1 |-> e(k)]  BY <2>3 DEF IsPass
    <3> HIDE DEF e
    <3>2. \A k \in 0 .. m - 1 : u[k] = e(k)  BY <3>1
    <3> QED BY <3>2 DEF e
  <2>6. \A k \in 0 .. m : w[k] = IF k = 0 THEN Start(f) ELSE Visit(f, holds, w[k - 1], f.order[k])
    <3> TAKE k \in 0 .. m
    <3>1. CASE k = m
      <4>1. k - 1 \in 0 .. m /\ k - 1 # m /\ k # 0  BY <1>2, <1>4, <3>1
      <4>2. w[k - 1] = u[m - 1]  BY <3>1, <4>1
      <4> QED BY <3>1, <4>1, <4>2
    <3>2. CASE k # m /\ k # 0
      <4>1. k \in 0 .. m - 1 /\ k - 1 \in 0 .. m /\ k - 1 # m  BY <1>2, <3>2
      <4>2. w[k] = u[k] /\ w[k - 1] = u[k - 1]  BY <3>2, <4>1
      <4> QED BY <2>5, <3>2, <4>1, <4>2
    <3>3. CASE k # m /\ k = 0
      <4>1. k \in 0 .. m - 1  BY <1>2, <3>3
      <4>2. w[k] = u[k]  BY <3>3
      <4> QED BY <2>5, <3>3, <4>1, <4>2
    <3> QED BY <3>1, <3>2, <3>3
  <2>7. IsPass(w, f, holds, m)
    <3> DEFINE e(k) == IF k = 0 THEN Start(f) ELSE Visit(f, holds, w[k - 1], f.order[k])
    <3>1. w = [k \in 0 .. m |-> w[k]]  OBVIOUS
    <3>2. \A k \in 0 .. m : w[k] = e(k)  BY <2>6
    <3> HIDE DEF w, e
    <3>3. w = [k \in 0 .. m |-> e(k)]  BY <3>1, <3>2
    <3> QED BY <3>3 DEF IsPass, e
  <2> QED BY <1>2, <2>7
<1> QED BY <1>3, <1>4

LEMMA PassIs ==
  ASSUME NEW f, NEW holds, NEW n \in Nat, n = Len(f.order)
  PROVE  Passes(Pass(f, holds), f, holds, n)
<1> DEFINE v == CHOOSE A : IsPass(A, f, holds, n)
<1>1. Pass(f, holds) = v  BY Zenon DEF Pass, IsPass
<1>2. IsPass(v, f, holds, n)  BY PassExists
<1> HIDE DEF v
<1> DEFINE e(k) == IF k = 0 THEN Start(f) ELSE Visit(f, holds, v[k - 1], f.order[k])
<1>3. v = [k \in 0 .. n |-> e(k)]  BY <1>2 DEF IsPass
<1> HIDE DEF e
<1>4. \A k \in 0 .. n : v[k] = e(k)  BY <1>3
<1>5. v[0] = Start(f)
  <2>1. 0 \in 0 .. n  OBVIOUS
  <2>2. v[0] = e(0)  BY <1>4, <2>1
  <2> QED BY <2>2 DEF e
<1>6. ASSUME NEW k \in 1 .. n  PROVE v[k] = Visit(f, holds, v[k - 1], f.order[k])
  <2>1. k \in 0 .. n /\ k # 0  OBVIOUS
  <2>2. v[k] = e(k)  BY <1>4, <2>1
  <2> QED BY <2>1, <2>2 DEF e
<1>7. Passes(v, f, holds, n)  BY <1>5, <1>6 DEF Passes
<1> QED BY <1>1, <1>7

\* Where the triangle is laid out: Head is at place k of f.
Laid(f, n, g, k, H, F, T) ==
  /\ n \in Nat /\ k \in 1 .. n /\ Len(f.order) = n /\ Len(g.order) = n + 2
  /\ \A j \in 1 .. n : f.order[j] \in Blocks(f)
  /\ \A j \in 1 .. n : f.order[j] = H <=> j = k
  /\ \A j \in 1 .. k : g.order[j] = f.order[j]
  /\ g.order[k + 1] = F /\ g.order[k + 2] = T
  /\ \A j \in k + 1 .. n : g.order[j + 2] = f.order[j]

LEMMA LaidIs ==
  ASSUME NEW f, NEW n, FunctionOK(f, n), NEW H \in Blocks(f), NEW T, NEW F, NEW i,
         NEW g, g = EmitSelectPseudo(f, H, i, T, F)
  PROVE  \E k : Laid(f, n, g, k, H, F, T)
<1>1. Ordered(f.order, n)  BY DEF FunctionOK
<1>2. /\ n \in Nat /\ Blocks(f) = {f.order[j] : j \in 1 .. n} /\ Len(f.order) = n
      /\ \A j, l \in 1 .. n : f.order[j] = f.order[l] => j = l
  BY <1>1, OrderedFacts DEF OrderIs, Blocks, Ordered
<1>3. PICK k \in 1 .. n : H = f.order[k]  BY <1>2
<1>4. IsInserted(g.order, f.order, k, F, T)
  <2>1. g.order = InsertBlocks(f.order, f.order[k], F, T)  BY <1>3 DEF EmitSelectPseudo
  <2>2. IsInserted(InsertBlocks(f.order, f.order[k], F, T), f.order, k, F, T)
    BY <1>1, PositionIs
  <2> QED BY <2>1, <2>2
<1>5. /\ Len(g.order) = n + 2 /\ \A j \in 1 .. k : g.order[j] = f.order[j]
      /\ g.order[k + 1] = F /\ g.order[k + 2] = T
      /\ \A j \in k + 1 .. n : g.order[j + 2] = f.order[j]
  BY <1>1, <1>4, InsertedAt
<1>6. Laid(f, n, g, k, H, F, T)  BY <1>2, <1>3, <1>5 DEF Laid
<1> QED BY <1>6

LEMMA StartAgrees ==
  ASSUME NEW f, NEW n, NEW g, NEW m, NEW H, NEW F, NEW T, NEW i, NEW last, NEW d, NEW r,
         NEW at, NEW s, NEW q, NEW to,
         Expansion(f, n, g, m, H, F, T, i, last, d, r, at, s, q, to),
         NEW R, R = Regs(f), NEW X, NEW u, u = Start(f), NEW v, v = Start(g)
  PROVE  AtSame(u, v, f, R, X)
<1>1. f.order[1] \in Blocks(f) /\ g.order[1] = f.order[1] /\ Regs(g) = R
  <2>1. Split(f, n, g, m, H, F, T)  BY DEF Expansion
  <2> QED BY <2>1, SplitFacts DEF Split, Expansion
<1> DEFINE e == [y \in R |-> <<>>]
           z == f.order[1]
<1>2. /\ u = [at |-> z, to |-> {}, env |-> e, mem |-> <<>>, shown |-> <<>>] /\ v = u
  BY <1>1 DEF Start
<1>3. e = [y \in R |-> e[y]]  OBVIOUS
<1> HIDE DEF e, z
<1>4. IsState(u, R) /\ u.to = {} /\ u.at = z  BY <1>2, <1>3 DEF IsState
<1>5. Agree(u, u, R, {}, X)  BY DEF Agree
<1> QED BY <1>1, <1>2, <1>4, <1>5 DEF AtSame, z

LEMMA VisitAgrees ==
  ASSUME NEW f, NEW n, NEW g, NEW m, NEW H, NEW F, NEW T, NEW i, NEW last, NEW d, NEW r,
         NEW at, NEW s, NEW q, NEW to,
         Expansion(f, n, g, m, H, F, T, i, last, d, r, at, s, q, to),
         NEW R, R = Regs(f), NEW X, NEW u, NEW v, AtSame(u, v, f, R, X), NEW holds,
         NEW b \in Blocks(f) \ {H}
  PROVE  AtSame(Visit(f, holds, u, b), Visit(g, holds, v, b), f, R, X)
<1>1. u.at = v.at  BY DEF AtSame
<1>2. CASE u.at = b
  <2>1. u.at \in Blocks(f) \ {H}  BY <1>2
  <2>2. AtSame(RunBlock(f, holds, u, u.at), RunBlock(g, holds, v, u.at), f, R, X)
    BY <2>1, OtherStep
  <2> QED BY <1>1, <1>2, <2>2 DEF Visit
<1>3. CASE u.at # b
  BY <1>1, <1>3 DEF Visit
<1> QED BY <1>2, <1>3

LEMMA HeadVisited ==
  ASSUME NEW f, NEW n, NEW g, NEW m, NEW H, NEW F, NEW T, NEW i, NEW last, NEW d, NEW r,
         NEW at, NEW s, NEW q, NEW to,
         Expansion(f, n, g, m, H, F, T, i, last, d, r, at, s, q, to),
         NEW R, R = Regs(f), NEW X, KeptShown(f.body[H], i, last, X),
         NEW u, NEW v, AtSame(u, v, f, R, X), NEW holds,
         NEW v1, v1 = Visit(g, holds, v, H), NEW v2, v2 = Visit(g, holds, v1, F),
         NEW v3, v3 = Visit(g, holds, v2, T)
  PROVE  AtSame(Visit(f, holds, u, H), v3, f, R, X)
<1>1. FunctionOK(f, n) /\ Split(f, n, g, m, H, F, T)  BY DEF Expansion
<1>2. u.at = v.at /\ (u.at = 0 \/ u.at \in Blocks(f))  BY DEF AtSame
<1>3. CASE u.at = H
  <2>1. v1 = RunBlock(g, holds, v, H)  BY <1>2, <1>3 DEF Visit
  <2>2. v2 = IF v1.at = F THEN RunBlock(g, holds, v1, F) ELSE v1  BY DEF Visit
  <2>3. v2.at = T /\ AtSame(RunBlock(f, holds, u, H), RunBlock(g, holds, v2, T), f, R, X)
    BY <1>3, <2>1, <2>2, HeadStep
  <2>4. v3 = RunBlock(g, holds, v2, T) /\ Visit(f, holds, u, H) = RunBlock(f, holds, u, H)
    BY <1>3, <2>3 DEF Visit
  <2> QED BY <2>3, <2>4
<1>4. CASE u.at # H
  <2>1. v.at # H /\ v.at # F /\ v.at # T
    <3>1. 0 \notin Blocks(g) /\ F \in Blocks(g) /\ T \in Blocks(g)
          /\ F \notin Blocks(f) /\ T \notin Blocks(f)
      <4>1. FunctionOK(g, m)  BY DEF Expansion
      <4> QED BY <1>1, <4>1, SplitFacts, InBlocks
    <3> QED BY <1>2, <1>4, <3>1
  <2>2. v1 = v /\ v2 = v /\ v3 = v  BY <2>1 DEF Visit
  <2>3. Visit(f, holds, u, H) = u  BY <1>4 DEF Visit
  <2> QED BY <2>2, <2>3
<1> QED BY <1>3, <1>4

\* After each block of f the pass through g agrees; the triangle takes three places.
LEMMA PassAgrees ==
  ASSUME NEW f, NEW n, NEW g, NEW m, NEW H, NEW F, NEW T, NEW i, NEW last, NEW d, NEW r,
         NEW at, NEW s, NEW q, NEW to,
         Expansion(f, n, g, m, H, F, T, i, last, d, r, at, s, q, to),
         NEW R, R = Regs(f), NEW X, KeptShown(f.body[H], i, last, X), NEW holds,
         NEW k, Laid(f, n, g, k, H, F, T),
         NEW P, Passes(P, f, holds, n), NEW Q, Passes(Q, g, holds, n + 2)
  PROVE  AtSame(P[n], Q[n + 2], f, R, X)
<1> DEFINE J(j) == IF j < k THEN j ELSE j + 2
           S == {j \in 0 .. n : ~AtSame(P[j], Q[J(j)], f, R, X)}
<1>1. /\ n \in Nat /\ k \in 1 .. n
      /\ \A j \in 1 .. n : f.order[j] \in Blocks(f)
      /\ \A j \in 1 .. n : f.order[j] = H <=> j = k
      /\ \A j \in 1 .. k : g.order[j] = f.order[j]
      /\ g.order[k + 1] = F /\ g.order[k + 2] = T
      /\ \A j \in k + 1 .. n : g.order[j + 2] = f.order[j]
  BY DEF Laid
<1>2. /\ P[0] = Start(f) /\ \A j \in 1 .. n : P[j] = Visit(f, holds, P[j - 1], f.order[j])
      /\ Q[0] = Start(g)
      /\ \A j \in 1 .. n + 2 : Q[j] = Visit(g, holds, Q[j - 1], g.order[j])
  BY DEF Passes
<1>3. S = {}
  <2> SUFFICES ASSUME S # {}  PROVE FALSE
    OBVIOUS
  <2>1. PICK j \in S : \A l \in S : j <= l
    <3>1. S \subseteq Nat  OBVIOUS
    <3> HIDE DEF S
    <3> QED BY <3>1, Least
  <2>2. j \in 0 .. n /\ ~AtSame(P[j], Q[J(j)], f, R, X)  BY <2>1
  <2>3. j # 0
    <3>1. AtSame(P[0], Q[0], f, R, X)  BY <1>2, StartAgrees
    <3>2. J(0) = 0  BY <1>1
    <3> QED BY <2>2, <3>1, <3>2
  <2>4. j \in 1 .. n /\ j - 1 \in 0 .. n /\ ~(j <= j - 1)  BY <1>1, <2>2, <2>3
  <2>5. AtSame(P[j - 1], Q[J(j - 1)], f, R, X)  BY <2>1, <2>4
  <2>6. P[j] = Visit(f, holds, P[j - 1], f.order[j])  BY <1>2, <2>4
  <2> DEFINE u == P[j - 1]
             v == Q[J(j - 1)]
  <2>7. CASE j = k
    <3>1. /\ J(j - 1) = k - 1 /\ J(j) = k + 2 /\ f.order[j] = H /\ g.order[k] = H
          /\ k \in 1 .. n + 2 /\ k + 1 \in 1 .. n + 2 /\ k + 2 \in 1 .. n + 2
          /\ (k + 1) - 1 = k /\ (k + 2) - 1 = k + 1
      BY <1>1, <2>4, <2>7
    <3>2. /\ Q[k] = Visit(g, holds, v, H) /\ Q[k + 1] = Visit(g, holds, Q[k], F)
          /\ Q[k + 2] = Visit(g, holds, Q[k + 1], T)
      BY <1>1, <1>2, <3>1
    <3>3. AtSame(u, v, f, R, X)  BY <2>5
    <3>4. P[j] = Visit(f, holds, u, H)  BY <2>6, <3>1
    <3> HIDE DEF u, v
    <3>5. AtSame(Visit(f, holds, u, H), Q[k + 2], f, R, X)  BY <3>2, <3>3, HeadVisited
    <3> QED BY <2>2, <3>1, <3>4, <3>5
  <2>8. CASE j # k
    <3>1. /\ J(j) \in 1 .. n + 2 /\ J(j) - 1 = J(j - 1) /\ g.order[J(j)] = f.order[j]
      <4>1. CASE j < k
        <5>1. j - 1 < k /\ j \in 1 .. k  BY <1>1, <2>4, <4>1
        <5> QED BY <1>1, <2>4, <4>1, <5>1
      <4>2. CASE j > k
        <5>1. ~(j - 1 < k) /\ ~(j < k) /\ j \in k + 1 .. n  BY <1>1, <2>4, <4>2
        <5>2. g.order[j + 2] = f.order[j]  BY <1>1, <5>1
        <5> QED BY <1>1, <2>4, <5>1, <5>2
      <4> QED BY <1>1, <2>4, <2>8, <4>1, <4>2
    <3>2. Q[J(j)] = Visit(g, holds, v, f.order[j])  BY <1>2, <3>1
    <3>3. f.order[j] \in Blocks(f) \ {H}  BY <1>1, <2>4, <2>8
    <3>4. AtSame(u, v, f, R, X)  BY <2>5
    <3>5. P[j] = Visit(f, holds, u, f.order[j])  BY <2>6
    <3> HIDE DEF u, v, J
    <3>6. AtSame(Visit(f, holds, u, f.order[j]), Visit(g, holds, v, f.order[j]), f, R, X)
      BY <3>3, <3>4, VisitAgrees
    <3> QED BY <2>2, <3>2, <3>5, <3>6
  <2> QED BY <2>7, <2>8
<1>4. n \in 0 .. n /\ J(n) = n + 2  BY <1>1
<1> QED BY <1>3, <1>4

----------------------------------------------------------------------------
(* What a pass computes.                                                   *)

\* Two outcomes agree: what the registers R hold, how memory was accessed, where control
\* left to, and what was shown of the variables X.
SameOutcome(e, o, R, X) ==
  /\ IsState(e, R) /\ IsState(o, R) /\ e.at = o.at /\ e.mem = o.mem
  /\ \A y \in R : e.env[y] = o.env[y]
  /\ \A x \in X : ShownOf(e, x) = ShownOf(o, x)

LEMMA OutcomeStays ==
  ASSUME NEW f, NEW n, NEW g, NEW m, NEW H, NEW F, NEW T, NEW i, NEW last, NEW d, NEW r,
         NEW at, NEW s, NEW q, NEW to,
         Expansion(f, n, g, m, H, F, T, i, last, d, r, at, s, q, to),
         NEW R, R = Regs(f), NEW X, KeptShown(f.body[H], i, last, X), NEW holds,
         NEW k, Laid(f, n, g, k, H, F, T)
  PROVE  SameOutcome(Outcome(f, holds), Outcome(g, holds), R, X)
<1> DEFINE P == Pass(f, holds)
           Q == Pass(g, holds)
<1>1. n \in Nat /\ Len(f.order) = n /\ n + 2 \in Nat /\ Len(g.order) = n + 2  BY DEF Laid
<1>2. Passes(P, f, holds, n)  BY <1>1, PassIs
<1>3. Passes(Q, g, holds, n + 2)
  <2> DEFINE N == n + 2
  <2>1. N \in Nat /\ N = Len(g.order)  BY <1>1
  <2> HIDE DEF N
  <2>2. Passes(Q, g, holds, N)  BY <2>1, PassIs
  <2> QED BY <2>2 DEF N
<1>4. Outcome(f, holds) = P[n] /\ Outcome(g, holds) = Q[n + 2]  BY <1>1 DEF Outcome
<1> HIDE DEF P, Q
<1>5. AtSame(P[n], Q[n + 2], f, R, X)  BY <1>2, <1>3, PassAgrees
<1> QED BY <1>4, <1>5 DEF AtSame, Agree, SameOutcome

\* The walk has left no select in front of i.
Walked(c, i) == \A k \in 1 .. i - 1 : ~IsSelect(c[k])

----------------------------------------------------------------------------
(* Every expansion.                                                        *)

\* g is f with the select at i of H and its sequence expanded, somehow, in a triangle
\* behind H.
Expands(f, n, g, m, H, F, T, i) ==
  /\ UsesDominated(g) /\ \E k : Laid(f, n, g, k, H, F, T)
  /\ \E last, d, r, at, s, q, to :
       Expansion(f, n, g, m, H, F, T, i, last, d, r, at, s, q, to)

LEMMA ExpansionIs ==
  ASSUME NEW f, NEW n, FunctionOK(f, n), DefinedOnce(f), UsesDominated(f),
         NEW H \in Blocks(f), NEW i \in 1 .. Len(f.body[H]), IsSelect(f.body[H][i]),
         NEW T, T = n + 1, NEW F, F = n + 2,
         NEW g, g = EmitSelectPseudo(f, H, i, T, F)
  PROVE  Expands(f, n, g, F, H, F, T, i)
<1>1. FunctionOK(g, F)  BY ExpansionOK
<1>2. UsesDominated(g)  BY <1>1, UsesStay
<1>3. Split(f, n, g, F, H, F, T)  BY <1>1, SplitIs
<1>4. \E k : Laid(f, n, g, k, H, F, T)  BY LaidIs
<1>5. PICK last, r, at, s, q, to, d :
        /\ Scanned(f, H, i, last) /\ BranchesAround(d, f.body[H][i], T)
        /\ Expanded(f, g, H, F, T, i, last, d, r, at, s, q, to)
  BY ExpandedIs
<1>6. DefinedOnce(g)  BY <1>1, <1>3, <1>5, OnceStays
<1>7. Regs(g) = Regs(f)  BY <1>1, <1>3, <1>5, RegsStay
<1>8. Expansion(f, n, g, F, H, F, T, i, last, d, r, at, s, q, to)
  BY <1>1, <1>3, <1>5, <1>6, <1>7 DEF Expansion
<1> QED BY <1>2, <1>4, <1>8 DEF Expands

----------------------------------------------------------------------------
(* Debug values stay in order.                                             *)

\* The sequence from the select i on ends at p.
IsLast(c, i, p) ==
  /\ p \in i .. Len(c) /\ IsSelect(c[p]) /\ \A q \in i .. p : ~Stops(c, i, q)
  /\ \A p2 \in p + 1 .. Len(c) : IsSelect(c[p2]) => \E q \in i .. p2 : Stops(c, i, q)

LEMMA LastIs ==
  ASSUME NEW c, Len(c) \in Nat, NEW i \in 1 .. Len(c), NEW p, IsLast(c, i, p)
  PROVE  p = LastSelect(c, i)
<1> DEFINE N == Len(c)
           Q(x) == /\ IsSelect(c[x]) /\ \A q \in i .. x : ~Stops(c, i, q)
                   /\ \A r \in x + 1 .. N : IsSelect(c[r]) => \E q \in i .. r : Stops(c, i, q)
           y == LastSelect(c, i)
<1>1. y = CHOOSE x \in i .. N : Q(x)  BY DEF LastSelect
<1>2. p \in i .. N /\ Q(p)  BY DEF IsLast
<1>3. y \in i .. N /\ Q(y)
  <2> HIDE DEF Q, y, N
  <2> QED BY <1>1, <1>2
<1> HIDE DEF y
<1>4. ASSUME NEW u \in i .. N, NEW v \in i .. N, Q(u), Q(v)  PROVE ~(u < v)
  <2> SUFFICES ASSUME u < v  PROVE FALSE
    OBVIOUS
  <2>1. v \in u + 1 .. N  OBVIOUS
  <2>2. \E q \in i .. v : Stops(c, i, q)  BY <1>4, <2>1
  <2> QED BY <1>4, <2>2
<1>5. ~(y < p) /\ ~(p < y)
  <2> HIDE DEF Q
  <2> QED BY <1>2, <1>3, <1>4
<1>6. y \in Int /\ p \in Int  BY <1>2, <1>3
<1> QED BY <1>5, <1>6 DEF y

\* Two instructions that differ in the blocks they name at most.
Twin(x, y) == x.kind = y.kind /\ x.def = y.def /\ x.args = y.args /\ x.attr = y.attr

\* Behind place k, d has the code that c has from i on.
Shifted(d, c, i, k) ==
  /\ k \in Int /\ Len(c) \in Nat /\ i \in 1 .. Len(c) /\ 1 <= i + k /\ Len(d) = Len(c) + k
  /\ \A q \in i .. Len(c) : Twin(d[q + k], c[q])

LEMMA DestsAre ==
  ASSUME NEW c, NEW i \in Int, NEW q \in Int, i <= q, NEW y
  PROVE  y \in SelectDests(c, i, q) <=>
           \E j \in i .. q : (j = i \/ (j < q /\ IsSelect(c[j]))) /\ c[j].def = y
<1>1. ASSUME NEW j \in i .. q
      PROVE  j \in {i} \cup {l \in i .. q - 1 : IsSelect(c[l])}
               <=> j = i \/ (j < q /\ IsSelect(c[j]))
  <2>1. j < q <=> j \in i .. q - 1  OBVIOUS
  <2> QED BY <2>1
<1>2. \A j \in {i} \cup {l \in i .. q - 1 : IsSelect(c[l])} : j \in i .. q  OBVIOUS
<1>3. y \in SelectDests(c, i, q) <=>
        \E j \in {i} \cup {l \in i .. q - 1 : IsSelect(c[l])} : c[j].def = y
  BY DEF SelectDests
<1> QED BY <1>1, <1>2, <1>3

LEMMA ShiftedDests ==
  ASSUME NEW d, NEW c, NEW i, NEW k, Shifted(d, c, i, k), NEW q \in i .. Len(c)
  PROVE  SelectDests(d, i + k, q + k) = SelectDests(c, i, q)
<1>1. /\ k \in Int /\ i \in Int /\ q \in Int /\ i <= q /\ i + k \in Int /\ q + k \in Int
      /\ i + k <= q + k /\ Len(c) \in Nat
      /\ \A j \in i .. Len(c) : Twin(d[j + k], c[j])
  BY DEF Shifted
<1> SUFFICES ASSUME NEW y  PROVE y \in SelectDests(d, i + k, q + k) <=> y \in SelectDests(c, i, q)
  OBVIOUS
<1>2. y \in SelectDests(c, i, q) <=>
        \E j \in i .. q : (j = i \/ (j < q /\ IsSelect(c[j]))) /\ c[j].def = y
  BY <1>1, DestsAre
<1>3. y \in SelectDests(d, i + k, q + k) <=>
        \E j \in i + k .. q + k : (j = i + k \/ (j < q + k /\ IsSelect(d[j]))) /\ d[j].def = y
  <2> DEFINE i2 == i + k
             q2 == q + k
  <2>1. i2 \in Int /\ q2 \in Int /\ i2 <= q2  BY <1>1
  <2> HIDE DEF i2, q2
  <2>2. y \in SelectDests(d, i2, q2) <=>
          \E j \in i2 .. q2 : (j = i2 \/ (j < q2 /\ IsSelect(d[j]))) /\ d[j].def = y
    BY <2>1, DestsAre
  <2> QED BY <2>2 DEF i2, q2
<1>4. ASSUME NEW j \in i .. q
      PROVE  /\ j + k \in i + k .. q + k /\ (j = i <=> j + k = i + k) /\ (j < q <=> j + k < q + k)
             /\ (IsSelect(d[j + k]) <=> IsSelect(c[j])) /\ d[j + k].def = c[j].def
  <2>1. j \in i .. Len(c)  BY <1>1
  <2>2. Twin(d[j + k], c[j])  BY <1>1, <2>1
  <2>3. j + k \in i + k .. q + k /\ (j = i <=> j + k = i + k) /\ (j < q <=> j + k < q + k)
    BY <1>1
  <2> QED BY <2>2, <2>3 DEF Twin, IsSelect
<1>5. ASSUME y \in SelectDests(c, i, q)  PROVE y \in SelectDests(d, i + k, q + k)
  <2>1. PICK j \in i .. q : (j = i \/ (j < q /\ IsSelect(c[j]))) /\ c[j].def = y  BY <1>2, <1>5
  <2> QED BY <1>3, <1>4, <2>1
<1>6. ASSUME y \in SelectDests(d, i + k, q + k)  PROVE y \in SelectDests(c, i, q)
  <2>1. PICK e \in i + k .. q + k : (e = i + k \/ (e < q + k /\ IsSelect(d[e]))) /\ d[e].def = y
    BY <1>3, <1>6
  <2> DEFINE j == e - k
  <2>2. j \in i .. q /\ j + k = e  BY <1>1
  <2> HIDE DEF j
  <2> QED BY <1>2, <1>4, <2>1, <2>2
<1> QED BY <1>5, <1>6

LEMMA ShiftedStops ==
  ASSUME NEW d, NEW c, NEW i, NEW k, Shifted(d, c, i, k), NEW q \in i .. Len(c)
  PROVE  Stops(d, i + k, q + k) <=> Stops(c, i, q)
<1> DEFINE m == d[q + k]
           o == c[q]
           m1 == d[i + k]
           o1 == c[i]
           S == SelectDests(c, i, q)
<1>1. Twin(m, o) /\ Twin(m1, o1)
  <2>1. i \in i .. Len(c) /\ \A j \in i .. Len(c) : Twin(d[j + k], c[j])  BY DEF Shifted
  <2> QED BY <2>1
<1>2. SelectDests(d, i + k, q + k) = S  BY ShiftedDests
<1>3. Stops(c, i, q) <=>
        \/ /\ IsSelect(o)
           /\ \/ o.args[1] # o1.args[1] \/ o.args[2] # o1.args[2] \/ o.attr # o1.attr
              \/ {o.args[3], o.args[4]} \cap S # {}
        \/ /\ ~IsSelect(o) /\ ~IsDebug(o)
           /\ o.kind \in {"effect", "mem"} \/ Range(o.args) \cap S # {}
  BY DEF Stops
<1>4. Stops(d, i + k, q + k) <=>
        \/ /\ IsSelect(m)
           /\ \/ m.args[1] # m1.args[1] \/ m.args[2] # m1.args[2] \/ m.attr # m1.attr
              \/ {m.args[3], m.args[4]} \cap S # {}
        \/ /\ ~IsSelect(m) /\ ~IsDebug(m)
           /\ m.kind \in {"effect", "mem"} \/ Range(m.args) \cap S # {}
  BY <1>2 DEF Stops
<1> HIDE DEF m, o, m1, o1, S
<1>5. /\ m.kind = o.kind /\ m.args = o.args /\ m.attr = o.attr /\ m1.args = o1.args
      /\ m1.attr = o1.attr /\ (IsSelect(m) <=> IsSelect(o)) /\ (IsDebug(m) <=> IsDebug(o))
  BY <1>1 DEF Twin, IsSelect, IsDebug
<1> QED BY <1>3, <1>4, <1>5

LEMMA ShiftedLast ==
  ASSUME NEW d, NEW c, NEW i, NEW k, Shifted(d, c, i, k), NEW p, IsLast(c, i, p)
  PROVE  IsLast(d, i + k, p + k)
<1>1. /\ k \in Int /\ i \in Int /\ Len(c) \in Nat /\ Len(d) = Len(c) + k
      /\ \A j \in i .. Len(c) : Twin(d[j + k], c[j])
  BY DEF Shifted
<1>2. /\ p \in i .. Len(c) /\ IsSelect(c[p]) /\ \A q \in i .. p : ~Stops(c, i, q)
      /\ \A p2 \in p + 1 .. Len(c) : IsSelect(c[p2]) => \E q \in i .. p2 : Stops(c, i, q)
  BY DEF IsLast
<1>3. p + k \in i + k .. Len(d)  BY <1>1, <1>2
<1>4. IsSelect(d[p + k])  BY <1>1, <1>2 DEF Twin, IsSelect
<1>5. ASSUME NEW e \in i + k .. p + k  PROVE ~Stops(d, i + k, e)
  <2> DEFINE q == e - k
  <2>1. q \in i .. p /\ q \in i .. Len(c) /\ q + k = e  BY <1>1, <1>2
  <2> HIDE DEF q
  <2> QED BY <1>2, <2>1, ShiftedStops
<1>6. ASSUME NEW e \in (p + k) + 1 .. Len(d), IsSelect(d[e])
      PROVE  \E q \in i + k .. e : Stops(d, i + k, q)
  <2> DEFINE p2 == e - k
  <2>1. p2 \in p + 1 .. Len(c) /\ p2 \in i .. Len(c) /\ p2 + k = e  BY <1>1, <1>2
  <2> HIDE DEF p2
  <2>2. IsSelect(c[p2])  BY <1>1, <1>6, <2>1 DEF Twin, IsSelect
  <2>3. PICK q \in i .. p2 : Stops(c, i, q)  BY <1>2, <2>1, <2>2
  <2>4. q \in i .. Len(c) /\ q + k \in i + k .. e  BY <1>1, <2>1
  <2> QED BY <2>3, <2>4, ShiftedStops
<1> QED BY <1>3, <1>4, <1>5, <1>6 DEF IsLast

LEMMA ShiftedFollows ==
  ASSUME NEW d, NEW c, NEW i, NEW k, Shifted(d, c, i, k), NEW j \in i .. Len(c),
         NEW e \in i .. Len(c)
  PROVE  FollowsSelect(d, j + k, e + k) <=> FollowsSelect(c, j, e)
<1>1. /\ k \in Int /\ i \in Int /\ Len(c) \in Nat
      /\ \A l \in i .. Len(c) : Twin(d[l + k], c[l])
  BY DEF Shifted
<1>2. /\ IsSelect(d[j + k]) <=> IsSelect(c[j])
      /\ d[j + k].def = c[j].def /\ d[e + k].args = c[e].args
      /\ j + k < e + k <=> j < e
  <2>1. Twin(d[j + k], c[j]) /\ Twin(d[e + k], c[e])  BY <1>1
  <2>2. j + k < e + k <=> j < e  BY <1>1
  <2> QED BY <2>1, <2>2 DEF Twin, IsSelect
<1>3. (\A l \in (j + k) + 1 .. e + k : IsDebug(d[l])) <=> (\A l \in j + 1 .. e : IsDebug(c[l]))
  <2>1. ASSUME NEW l \in j + 1 .. e
        PROVE  l + k \in (j + k) + 1 .. e + k /\ (IsDebug(d[l + k]) <=> IsDebug(c[l]))
    <3>1. l \in i .. Len(c) /\ l + k \in (j + k) + 1 .. e + k  BY <1>1
    <3> QED BY <1>1, <3>1 DEF Twin, IsDebug
  <2>2. ASSUME NEW l \in (j + k) + 1 .. e + k  PROVE l - k \in j + 1 .. e /\ (l - k) + k = l
    BY <1>1
  <2> QED BY <2>1, <2>2
<1> QED BY <1>2, <1>3 DEF FollowsSelect

\* Whether the debug values are in order is read off the code from the select on.
LEMMA ShiftedInOrder ==
  ASSUME NEW d, NEW c, NEW i, NEW k, Shifted(d, c, i, k), IsSelect(c[i]),
         c[i].def \notin {c[i].args[3], c[i].args[4]}, NEW x, InOrder(c, i, x)
  PROVE  InOrder(d, i + k, x)
<1> DEFINE last == LastSelect(c, i)
           i2 == i + k
           N == Len(c)
           M == Len(d)
           Near(a, b) ==
             \A e \in DebugValuesOf(c, i, x) :
               /\ (a < e /\ e <= b) <=> (\E j \in i .. last : FollowsSelect(c, j, e))
               /\ e <= a => c[e].args[1] \notin SelectDests(c, i, e)
<1>1. /\ k \in Int /\ N \in Nat /\ i \in 1 .. N /\ 1 <= i2 /\ M = N + k
      /\ \A j \in i .. N : Twin(d[j + k], c[j])
  BY DEF Shifted
<1>2. IsLast(c, i, last)  BY <1>1, LastSelectIs DEF IsLast
<1>3. \E a \in i .. last, b \in last .. N : Near(a, b)  BY DEF InOrder
<1>4. PICK a \in i .. last, b \in last .. N : Near(a, b)  BY <1>3
<1> HIDE DEF last
<1>5. \A e \in DebugValuesOf(c, i, x) :
        /\ (a < e /\ e <= b) <=> (\E j \in i .. last : FollowsSelect(c, j, e))
        /\ e <= a => c[e].args[1] \notin SelectDests(c, i, e)
  BY <1>4
<1> HIDE DEF N, M, Near, i2
<1>6. IsLast(d, i2, last + k)  BY <1>2, ShiftedLast DEF i2
<1>7. /\ last \in i .. N /\ M \in Nat /\ i2 \in 1 .. M /\ i2 = i + k
  <2>1. last \in i .. N  BY <1>2 DEF IsLast, N
  <2> QED BY <1>1, <2>1 DEF i2
<1>8. last + k = LastSelect(d, i2)  BY <1>6, <1>7, LastIs DEF M
<1>9. a + k \in i2 .. last + k /\ b + k \in last + k .. M  BY <1>1, <1>7
<1>10. ASSUME NEW e \in DebugValuesOf(d, i2, x)
       PROVE  /\ (a + k < e /\ e <= b + k) <=> (\E j \in i2 .. last + k : FollowsSelect(d, j, e))
              /\ e <= a + k => d[e].args[1] \notin SelectDests(d, i2, e)
  <2> DEFINE w == e - k
  <2>1. e \in i2 .. M /\ IsDebug(d[e]) /\ d[e].attr = x  BY DEF DebugValuesOf, M
  <2>2. w \in i .. N /\ w + k = e /\ e \in Int  BY <1>1, <1>7, <2>1
  <2> HIDE DEF w
  <2>3. Twin(d[e], c[w])  BY <1>1, <2>2
  <2>4. w \in DebugValuesOf(c, i, x)  BY <2>1, <2>2, <2>3 DEF DebugValuesOf, Twin, IsDebug, N
  <2>5. /\ (a < w /\ w <= b) <=> (\E j \in i .. last : FollowsSelect(c, j, w))
        /\ w <= a => c[w].args[1] \notin SelectDests(c, i, w)
    BY <1>5, <2>4
  <2>6. (a + k < e <=> a < w) /\ (e <= b + k <=> w <= b) /\ (e <= a + k <=> w <= a)
    BY <1>1, <1>7, <2>2
  <2>7. SelectDests(d, i2, e) = SelectDests(c, i, w)  BY <1>7, <2>2, ShiftedDests DEF N
  <2>8. \A j \in i .. N : FollowsSelect(d, j + k, e) <=> FollowsSelect(c, j, w)
    BY <2>2, ShiftedFollows DEF N
  <2>9. ASSUME NEW j \in i .. last, FollowsSelect(c, j, w)
        PROVE  \E l \in i2 .. last + k : FollowsSelect(d, l, e)
    <3>1. j \in i .. N /\ j + k \in i2 .. last + k  BY <1>1, <1>7
    <3> QED BY <2>8, <2>9, <3>1
  <2>10. ASSUME NEW l \in i2 .. last + k, FollowsSelect(d, l, e)
         PROVE  \E j \in i .. last : FollowsSelect(c, j, w)
    <3> DEFINE j == l - k
    <3>1. j \in i .. last /\ j \in i .. N /\ j + k = l  BY <1>1, <1>7
    <3> HIDE DEF j
    <3> QED BY <2>8, <2>10, <3>1
  <2>11. d[e].args = c[w].args  BY <2>3 DEF Twin
  <2> QED BY <2>5, <2>6, <2>7, <2>9, <2>10, <2>11
<1> QED BY <1>8, <1>9, <1>10 DEF InOrder, M, i2

\* The debug values of variable x are in order at every select of f.
InOrderIn(f, x) ==
  \A b \in Blocks(f) : \A i \in 1 .. Len(f.body[b]) :
    IsSelect(f.body[b][i]) => InOrder(f.body[b], i, x)

\* A select in Tail came from behind the sequence, and all behind it with it.
LEMMA TailShifted ==
  ASSUME NEW f, NEW n, NEW g, NEW m, NEW H, NEW F, NEW T, NEW i, NEW last, NEW d, NEW r,
         NEW at, NEW s, NEW q, NEW to,
         Expansion(f, n, g, m, H, F, T, i, last, d, r, at, s, q, to),
         NEW p \in 1 .. Len(g.body[T]), IsSelect(g.body[T][p])
  PROVE  \E l \in 1 .. Len(f.body[H]), k \in Int :
           Shifted(g.body[T], f.body[H], l, k) /\ p = l + k /\ IsSelect(f.body[H][l])
<1> DEFINE c == f.body[H]
           t == g.body[T]
           N == Len(c)
           S == SelectDebugValues(c, i, last)
           j == p - s
           l == to[j]
           k == p - l
<1>1. PICK y : TailIn(t, c, last, s, q, to, y, S)  BY TailHalves
<1>2. HeadHas(f, c, i, last)  BY InHead
<1>3. N \in Nat /\ i \in 1 .. N /\ last \in i .. N  BY <1>2 DEF HeadHas
<1>4. /\ s \in Nat /\ q \in Nat /\ y \in 0 .. q /\ Len(t) = s + q
      /\ \A v \in 1 .. s : t[v].kind = "phi"
      /\ to \in [1 .. q -> 1 .. N] /\ \A v \in 1 .. q : t[s + v] = c[to[v]]
      /\ \A v \in 1 .. q : v <= y <=> to[v] \in S
      /\ \A v \in y + 1 .. q : to[v] \in last + 1 .. N
      /\ \A v, w \in y + 1 .. q : v < w => to[v] < to[w]
      /\ \A v \in last + 1 .. N : v \notin S => \E w \in y + 1 .. q : to[w] = v
      /\ \A v \in S : IsDebug(c[v])
  BY <1>1 DEF TailIn, Halves
<1>5. \A v \in S : \A w \in last + 1 .. v : IsDebug(c[w])
  <2> SUFFICES ASSUME NEW v \in S, NEW w \in last + 1 .. v  PROVE IsDebug(c[w])
    OBVIOUS
  <2>1. PICK e \in i .. last : v \in CollectDebugValues(c, e)  BY DEF SelectDebugValues
  <2>2. v \in e + 1 .. N /\ \A z \in e + 1 .. v : IsDebug(c[z])
    BY <2>1 DEF CollectDebugValues
  <2>3. w \in e + 1 .. v  BY <1>3, <2>2
  <2> QED BY <2>2, <2>3
<1>6. p \in 1 .. s + q /\ IsSelect(t[p])  BY <1>4
<1> HIDE DEF c, t, N, S
<1>7. j \in 1 .. q /\ s + j = p
  <2>1. p \notin 1 .. s  BY <1>4, <1>6 DEF IsSelect
  <2> QED BY <1>4, <1>6, <2>1
<1>8. t[p] = c[l] /\ IsSelect(c[l]) /\ l \in 1 .. N  BY <1>4, <1>6, <1>7
<1>9. j \in y + 1 .. q
  <2>1. l \notin S  BY <1>4, <1>8 DEF IsSelect, IsDebug
  <2>2. ~(j <= y)  BY <1>4, <1>7, <2>1
  <2> QED BY <1>4, <1>7, <2>2
<1>10. l \in last + 1 .. N  BY <1>4, <1>9
<1> HIDE DEF j, l
<1>11. ASSUME NEW v \in l .. N  PROVE v \in last + 1 .. N /\ \E w \in y + 1 .. q : to[w] = v
  <2>1. v \in last + 1 .. N  BY <1>3, <1>10
  <2>2. v \notin S
    <3> SUFFICES ASSUME v \in S  PROVE FALSE
      OBVIOUS
    <3>1. l \in last + 1 .. v  BY <1>3, <1>10
    <3> QED BY <1>5, <1>8, <3>1 DEF IsSelect, IsDebug
  <2> QED BY <1>4, <2>1, <2>2
<1> DEFINE W == {v \in j .. q : to[v] # l + (v - j)}
<1>12. W = {}
  <2> SUFFICES ASSUME W # {}  PROVE FALSE
    OBVIOUS
  <2>1. PICK v \in W : \A w \in W : v <= w
    <3>1. W \subseteq Nat  BY <1>7
    <3> HIDE DEF W
    <3> QED BY <3>1, Least
  <2>2. v \in j .. q /\ to[v] # l + (v - j)  BY <2>1
  <2>3. v # j  BY <1>7, <1>8, <2>2 DEF l
  <2> DEFINE u == v - 1
             e == l + (v - j)
  <2>4. /\ u \in j .. q /\ u \in y + 1 .. q /\ v \in y + 1 .. q /\ u < v /\ ~(v <= u)
        /\ e = (l + (u - j)) + 1
    <3>1. /\ y \in Int /\ q \in Int /\ j \in Int /\ l \in Int /\ v \in Int
          /\ j <= v /\ v <= q /\ y < j /\ 1 <= j
      BY <1>4, <1>7, <1>8, <1>9, <2>2
    <3> QED BY ONLY <2>3, <3>1
  <2>5. to[u] = l + (u - j)  BY <2>1, <2>4
  <2>6. to[u] < to[v] /\ to[v] \in last + 1 .. N  BY <1>4, <2>4
  <2>7. e < to[v] /\ e \in l .. N
    <3>1. to[u] = e - 1 /\ e \in Int /\ l <= e  BY <1>8, <1>9, <2>2, <2>4, <2>5
    <3>2. e # to[v]  BY <2>2
    <3> HIDE DEF e
    <3> QED BY <1>3, <1>8, <2>6, <3>1, <3>2
  <2>8. PICK w \in y + 1 .. q : to[w] = e  BY <1>11, <2>7
  <2> HIDE DEF W
  <2>9. ~(v < w) /\ v # w
    <3>1. to[w] \in last + 1 .. N  BY <1>4
    <3>2. ~(to[v] < to[w]) /\ to[v] # to[w]  BY <2>6, <2>7, <2>8, <3>1
    <3> QED BY <1>4, <2>4, <3>2
  <2>10. ~(w < u) /\ w # u
    <3>1. to[u] = e - 1 /\ e \in Int  BY <1>8, <1>9, <2>2, <2>4, <2>5
    <3>2. ~(to[w] < to[u]) /\ to[w] # to[u]  BY <2>8, <3>1
    <3> QED BY <1>4, <2>4, <3>2
  <2>11. w \in Int /\ u \in Int /\ v = u + 1  BY <1>4, <2>2
  <2> HIDE DEF u, e
  <2> QED BY <2>9, <2>10, <2>11
<1>13. \A v \in j .. q : to[v] = l + (v - j)
  <2> SUFFICES ASSUME NEW v \in j .. q  PROVE to[v] = l + (v - j)
    OBVIOUS
  <2> QED BY <1>12
<1> HIDE DEF W
<1>14. q - j = N - l
  <2>1. q \in j .. q /\ q \in y + 1 .. q  BY <1>4, <1>7, <1>9
  <2>2. to[q] = l + (q - j) /\ to[q] \in last + 1 .. N  BY <1>4, <1>13, <2>1
  <2>3. N \in l .. N  BY <1>3, <1>8
  <2>4. PICK w \in y + 1 .. q : to[w] = N  BY <1>11, <2>3
  <2>5. w < q => to[w] < to[q]  BY <1>4, <2>1
  <2>6. ~(w < q)  BY <1>3, <2>2, <2>4, <2>5
  <2>7. w = q  BY <1>4, <2>6
  <2> QED BY <1>4, <1>7, <1>8, <2>2, <2>4, <2>7
<1>15. k \in Int /\ p = l + k /\ l + k = s + j /\ Len(t) = N + k
  BY <1>3, <1>4, <1>6, <1>7, <1>8, <1>14
<1>16. ASSUME NEW v \in l .. N  PROVE Twin(t[v + k], c[v])
  <2> DEFINE e == j + (v - l)
  <2>1. e \in j .. q /\ e \in 1 .. q /\ s + e = v + k /\ l + (e - j) = v
    BY <1>3, <1>4, <1>7, <1>8, <1>14, <1>15
  <2> HIDE DEF e
  <2>2. to[e] = v /\ t[s + e] = c[to[e]]  BY <1>4, <1>13, <2>1
  <2> QED BY <2>1, <2>2 DEF Twin
<1> HIDE DEF k
<1>17. Shifted(t, c, l, k)
  <2>1. 1 <= l + k  BY <1>6, <1>15
  <2> QED BY <1>3, <1>8, <1>15, <1>16, <2>1 DEF Shifted, N
<1> QED BY <1>8, <1>15, <1>17 DEF c, t, N

\* Nothing is left to expand in Head.
LEMMA HeadWalked ==
  ASSUME NEW f, NEW n, NEW g, NEW m, NEW H, NEW F, NEW T, NEW i, NEW last, NEW d, NEW r,
         NEW at, NEW s, NEW q, NEW to,
         Expansion(f, n, g, m, H, F, T, i, last, d, r, at, s, q, to), Walked(f.body[H], i),
         NEW p \in 1 .. Len(g.body[H])
  PROVE  ~IsSelect(g.body[H][p])
<1> DEFINE c == f.body[H]
           h == g.body[H]
<1>1. HeadCopies(h, c, H \in f.succs[H], i, last, H, T, d, r, at)  BY DEF Expansion, Expanded
<1>2. /\ Len(h) = r + 1 /\ r \in Nat /\ at \in [1 .. r -> 1 .. last] /\ h[r + 1] = d
      /\ \A k \in 1 .. r : /\ IsCopy(h[k], c[at[k]], H \in f.succs[H], H, T)
                           /\ i <= at[k] => ~IsSelect(c[at[k]])
  BY <1>1 DEF HeadCopies
<1>3. HeadHas(f, c, i, last)  BY InHead
<1>4. i \in Nat /\ last \in Nat
  <2>1. Len(c) \in Nat /\ i \in 1 .. Len(c) /\ last \in i .. Len(c)  BY <1>3 DEF HeadHas
  <2> HIDE DEF c
  <2> QED BY <2>1
<1>5. CASE p = r + 1
  <2>1. d.kind = "branch"  BY DEF Expansion, BranchesAround, Branch, Instr
  <2> QED BY <1>2, <1>5, <2>1 DEF IsSelect
<1>6. CASE p # r + 1
  <2>1. p \in 1 .. r  BY <1>2, <1>6
  <2>2. at[p] \in 1 .. last  BY <1>2, <2>1
  <2>3. ~IsSelect(c[at[p]])
    <3>1. CASE i <= at[p]  BY <1>2, <2>1, <3>1
    <3>2. CASE ~(i <= at[p])
      <4>1. at[p] \in 1 .. i - 1  BY <1>4, <2>2, <3>2
      <4> QED BY <4>1 DEF Walked
    <3> QED BY <3>1, <3>2
  <2>4. IsCopy(h[p], c[at[p]], H \in f.succs[H], H, T)  BY <1>2, <2>1
  <2> QED BY <2>3, <2>4 DEF IsCopy, IsSelect
<1> QED BY <1>5, <1>6

\* An expansion leaves the debug values of x in order at the selects still to come.
LEMMA OrderStays ==
  ASSUME NEW f, NEW n, NEW g, NEW m, NEW H, NEW F, NEW T, NEW i, NEW last, NEW d, NEW r,
         NEW at, NEW s, NEW q, NEW to,
         Expansion(f, n, g, m, H, F, T, i, last, d, r, at, s, q, to), Walked(f.body[H], i),
         NEW x, InOrderIn(f, x)
  PROVE  InOrderIn(g, x)
<1>1. /\ FunctionOK(f, n) /\ H \in Blocks(f) /\ Blocks(g) = Blocks(f) \cup {F, T}
      /\ Expanded(f, g, H, F, T, i, last, d, r, at, s, q, to)
  BY SplitFacts DEF Expansion
<1>2. \A b \in Blocks(f) : /\ Len(f.body[b]) \in Nat
                           /\ \A p \in 1 .. Len(f.body[b]) : InstrOK(f, f.body[b][p])
  BY <1>1, InBlocks DEF FunctionOK, BlockOK, InstrsOK
<1>3. ASSUME NEW b \in Blocks(f), NEW l \in 1 .. Len(f.body[b]), IsSelect(f.body[b][l]),
             NEW e, NEW k, Shifted(e, f.body[b], l, k)
      PROVE  InOrder(e, l + k, x)
  <2> DEFINE c == f.body[b]
  <2>1. InstrOK(f, c[l]) /\ InOrder(c, l, x)  BY <1>2, <1>3 DEF InOrderIn
  <2>2. c[l].def \notin {c[l].args[3], c[l].args[4]} /\ IsSelect(c[l])
    BY <1>3, <2>1 DEF InstrOK
  <2>3. Shifted(e, c, l, k)  BY <1>3
  <2> HIDE DEF c
  <2> QED BY <2>1, <2>2, <2>3, ShiftedInOrder
<1> SUFFICES ASSUME NEW b \in Blocks(g), NEW p \in 1 .. Len(g.body[b]), IsSelect(g.body[b][p])
             PROVE  InOrder(g.body[b], p, x)
  BY DEF InOrderIn
<1>4. CASE b = H
  BY <1>4, HeadWalked
<1>5. CASE b = F
  <2>1. g.body[F] = <<>>  BY <1>1 DEF Expanded
  <2>2. Len(g.body[b]) = 0  BY <1>5, <2>1
  <2> QED BY <2>2
<1>6. CASE b = T
  <2>1. p \in 1 .. Len(g.body[T]) /\ IsSelect(g.body[T][p])  BY <1>6
  <2>2. PICK l \in 1 .. Len(f.body[H]), k \in Int :
          Shifted(g.body[T], f.body[H], l, k) /\ p = l + k /\ IsSelect(f.body[H][l])
    BY <2>1, TailShifted
  <2>3. InOrder(g.body[T], l + k, x)  BY <1>1, <1>3, <2>2
  <2> QED BY <1>6, <2>2, <2>3
<1>7. CASE b \in Blocks(f) \ {H}
  <2> DEFINE c == f.body[b]
             e == g.body[b]
  <2>1. Len(e) = Len(c) /\ \A y \in 1 .. Len(c) : IsCopy(e[y], c[y], b \in f.succs[H], H, T)
    BY <1>1, <1>7 DEF Expanded
  <2>2. Len(c) \in Nat /\ p \in 1 .. Len(c)  BY <1>2, <1>7, <2>1
  <2> DEFINE k == 0
  <2>3. Shifted(e, c, p, k)
    <3>1. \A y \in p .. Len(c) : y \in 1 .. Len(c) /\ y + k = y  BY <2>2
    <3>2. \A y \in p .. Len(c) : Twin(e[y + k], c[y])  BY <2>1, <3>1 DEF IsCopy, Twin
    <3>3. k \in Int /\ 1 <= p + k /\ Len(e) = Len(c) + k  BY <2>1, <2>2
    <3> QED BY <2>2, <3>2, <3>3 DEF Shifted
  <2>4. IsSelect(c[p])  BY <2>1, <2>2 DEF IsCopy, IsSelect
  <2>5. p + k = p  BY <2>2
  <2> HIDE DEF k
  <2>6. InOrder(g.body[b], p + k, x)  BY <1>3, <1>7, <2>2, <2>3, <2>4
  <2> QED BY <2>5, <2>6
<1> QED BY <1>1, <1>4, <1>5, <1>6, <1>7

\* Where they are in order, an expansion shows them as they were.
LEMMA OrderKeeps ==
  ASSUME NEW f, NEW n, NEW g, NEW m, NEW H, NEW F, NEW T, NEW i, NEW last, NEW d, NEW r,
         NEW at, NEW s, NEW q, NEW to,
         Expansion(f, n, g, m, H, F, T, i, last, d, r, at, s, q, to),
         NEW X, \A x \in X : InOrderIn(f, x)
  PROVE  KeptShown(f.body[H], i, last, X)
<1> DEFINE c == f.body[H]
<1> SUFFICES ASSUME NEW x \in X  PROVE \E a, b : Kept(c, i, last, x, a, b)
  BY DEF KeptShown
<1>1. H \in Blocks(f) /\ Scanned(f, H, i, last) /\ HeadHas(f, c, i, last)  BY InHead
<1>2. last = LastSelect(c, i) /\ i \in 1 .. Len(c) /\ IsSelect(c[i])  BY <1>1 DEF Scanned
<1>3. InOrder(c, i, x)  BY <1>1, <1>2 DEF InOrderIn
<1>4. Len(c) \in Nat /\ i \in 1 .. Len(c) /\ last \in i .. Len(c)  BY <1>1 DEF HeadHas
<1> HIDE DEF c
<1>5. PICK a \in i .. last, b \in last .. Len(c) :
        \A e \in DebugValuesOf(c, i, x) :
          /\ (a < e /\ e <= b) <=> (\E k \in i .. last : FollowsSelect(c, k, e))
          /\ e <= a => c[e].args[1] \notin SelectDests(c, i, e)
  BY <1>2, <1>3 DEF InOrder
<1>6. ASSUME NEW p \in i .. Len(c), DebugOf(c[p], x)
      PROVE  /\ (a < p /\ p <= b) <=> p \in SelectDebugValues(c, i, last)
             /\ p <= a => c[p].args[1] \notin SelectDests(c, i, p)
  <2>1. p \in DebugValuesOf(c, i, x) /\ IsDebug(c[p])  BY <1>6 DEF DebugValuesOf, DebugOf
  <2>2. p \in 1 .. Len(c)  BY <1>4
  <2>3. p \in SelectDebugValues(c, i, last) <=> \E k \in i .. last : FollowsSelect(c, k, p)
    BY <1>1, <2>1, <2>2, CollectedIs
  <2> QED BY <1>5, <2>1, <2>3
<1>7. Kept(c, i, last, x, a, b)  BY <1>6 DEF Kept
<1> QED BY <1>7

----------------------------------------------------------------------------
(* The pass.                                                               *)

\* The properties preserve each other: the branch is the only terminator of Head
\* because terminators end a block, phis are not moved because they begin one, the
\* layout has the places that control falls through to, and what dominates a block is
\* read off the successors that control really has.
IInv == TypeOK /\ SuccessorsAreControlTargets /\ PhisMatchPreds /\ DefsDominateUses

LEMMA IInvIs ==
  IInv <=> /\ Verified(fn) /\ mbb \in Blocks(fn) \cup {0}
           /\ pos \in 1 .. (IF mbb = 0 THEN 1 ELSE Len(Code) + 1)
           /\ DefinedOnce(fn) /\ UsesDominated(fn)
BY DEF IInv, TypeOK, SuccessorsAreControlTargets, PhisMatchPreds, DefsDominateUses, Verified

LEMMA InitIInv == Init => IInv
<1> SUFFICES ASSUME Init  PROVE IInv
  OBVIOUS
<1>1. Verified(fn) /\ DefinedOnce(fn) /\ UsesDominated(fn) /\ mbb = fn.order[1] /\ pos = 1
  BY FunctionsAssumption DEF Init, Verified
<1>2. FunctionOK(fn, Len(fn.order))  BY <1>1, BlocksOK
<1>3. mbb \in Blocks(fn) /\ 0 \notin Blocks(fn) /\ Len(Code) \in Nat
  BY <1>1, <1>2, InBlocks DEF Code
<1> QED BY <1>1, <1>3, IInvIs

LEMMA NextIInv == IInv /\ [Next]_vars => IInv'
<1> SUFFICES ASSUME IInv, [Next]_vars  PROVE IInv'
  OBVIOUS
<1> DEFINE n == Len(fn.order)
<1>1. /\ Verified(fn) /\ mbb \in Blocks(fn) \cup {0}
      /\ pos \in 1 .. (IF mbb = 0 THEN 1 ELSE Len(Code) + 1)
      /\ DefinedOnce(fn) /\ UsesDominated(fn)
  BY IInvIs
<1>2. FunctionOK(fn, n)  BY <1>1, BlocksOK
<1>3. 0 \notin Blocks(fn) /\ \A b \in Blocks(fn) : NextInLayout(fn, b) \subseteq Blocks(fn)
                                                    /\ Len(fn.body[b]) \in Nat
  BY <1>2, InBlocks
<1> SUFFICES /\ Verified(fn') /\ mbb' \in Blocks(fn') \cup {0}
             /\ pos' \in 1 .. (IF mbb' = 0 THEN 1 ELSE Len(fn'.body[mbb']) + 1)
             /\ DefinedOnce(fn') /\ UsesDominated(fn')
  BY DEF IInv, TypeOK, SuccessorsAreControlTargets, PhisMatchPreds, DefsDominateUses,
         Verified, Code
<1>4. CASE ExpandSelect
  <2> DEFINE T == n + 1
             F == n + 2
  <2>1. /\ mbb \in Blocks(fn) /\ pos \in 1 .. Len(fn.body[mbb]) /\ IsSelect(fn.body[mbb][pos])
        /\ fn' = EmitSelectPseudo(fn, mbb, pos, T, F) /\ mbb' = T /\ pos' = 1
    BY <1>1, <1>3, <1>4 DEF ExpandSelect, Code
  <2>2. FunctionOK(fn', F) /\ T \in Blocks(fn')
    <3> HIDE DEF n
    <3> QED BY <1>2, <2>1, ExpansionOK
  <2>3. Verified(fn')  BY <2>2, BlocksMakeVerified
  <2>4. 0 \notin Blocks(fn') /\ Len(fn'.body[T]) \in Nat  BY <2>2, InBlocks
  <2>5. DefinedOnce(fn') /\ UsesDominated(fn')
    <3> DEFINE g == fn'
    <3>1. g = EmitSelectPseudo(fn, mbb, pos, T, F) /\ T = n + 1 /\ F = n + 2  BY <2>1
    <3> HIDE DEF n, T, F, g
    <3>2. Expands(fn, n, g, F, mbb, F, T, pos)  BY <1>1, <1>2, <2>1, <3>1, ExpansionIs
    <3> QED BY <3>2 DEF Expands, Expansion, g
  <2> HIDE DEF T
  <2> QED BY <2>1, <2>2, <2>3, <2>4, <2>5
<1>5. CASE StepOver
  <2>1. /\ fn' = fn /\ mbb' = mbb /\ pos' = pos + 1 /\ mbb # 0 /\ pos <= Len(fn.body[mbb])
    BY <1>5 DEF StepOver, Code
  <2> QED BY <1>1, <1>3, <2>1
<1>6. CASE NextBlock
  <2>1. /\ fn' = fn /\ mbb # 0 /\ pos' = 1
        /\ mbb' = IF NextInLayout(fn, mbb) = {} THEN 0
                  ELSE CHOOSE b \in NextInLayout(fn, mbb) : TRUE
    BY <1>6 DEF NextBlock
  <2>2. mbb' \in Blocks(fn) \cup {0}  BY <1>1, <1>3, <2>1
  <2> QED BY <1>1, <1>3, <2>1, <2>2
<1>7. CASE UNCHANGED vars
  <2>1. fn' = fn /\ mbb' = mbb /\ pos' = pos  BY <1>7 DEF vars
  <2> QED BY <1>1, <2>1 DEF Code
<1> QED BY <1>4, <1>5, <1>6, <1>7 DEF Next, Terminated

\* What a step of the pass does to the code.
LEMMA StepIs == IInv /\ [Next]_vars =>
  /\ original' = original
  /\ \/ fn' = fn
     \/ \E n, F, T : Expands(fn, n, fn', F, mbb, F, T, pos)
<1> SUFFICES ASSUME IInv, [Next]_vars
             PROVE  /\ original' = original
                    /\ \/ fn' = fn
                       \/ \E n, F, T : Expands(fn, n, fn', F, mbb, F, T, pos)
  OBVIOUS
<1> DEFINE n == Len(fn.order)
           T == n + 1
           F == n + 2
           g == fn'
<1>1. /\ Verified(fn) /\ mbb \in Blocks(fn) \cup {0} /\ DefinedOnce(fn) /\ UsesDominated(fn)
      /\ pos \in 1 .. (IF mbb = 0 THEN 1 ELSE Len(Code) + 1)
  BY IInvIs
<1>2. FunctionOK(fn, n)  BY <1>1, BlocksOK
<1>3. CASE ExpandSelect
  <2>1. Len(Code) \in Nat \/ mbb = 0  BY <1>1, <1>2, InBlocks DEF Code
  <2>2. /\ mbb \in Blocks(fn) /\ pos \in 1 .. Len(fn.body[mbb]) /\ IsSelect(fn.body[mbb][pos])
        /\ g = EmitSelectPseudo(fn, mbb, pos, T, F) /\ original' = original
    BY <1>1, <1>3, <2>1 DEF ExpandSelect, Code
  <2>3. T = n + 1 /\ F = n + 2  OBVIOUS
  <2> HIDE DEF n, T, F, g
  <2>4. Expands(fn, n, g, F, mbb, F, T, pos)  BY <1>1, <1>2, <2>2, <2>3, ExpansionIs
  <2> QED BY <2>2, <2>4 DEF g
<1>4. CASE StepOver \/ NextBlock \/ UNCHANGED vars
  BY <1>4 DEF StepOver, NextBlock, vars
<1> QED BY <1>3, <1>4 DEF Next, Terminated

\* Outcomes that agree give every register the same value.
LEMMA SameValues ==
  ASSUME NEW e, NEW o, NEW R, NEW X, SameOutcome(e, o, R, X)
  PROVE  /\ e.at = o.at /\ e.mem = o.mem /\ \A x \in X : ShownOf(e, x) = ShownOf(o, x)
         /\ \A y : Value(e.env, y) = Value(o.env, y)
<1>1. IsState(e, R) /\ IsState(o, R) /\ \A y \in R : e.env[y] = o.env[y]  BY DEF SameOutcome
<1>2. ASSUME NEW y  PROVE Value(e.env, y) = Value(o.env, y)
  <2>1. Value(e.env, y) = IF y \in R THEN e.env[y] ELSE <<>>  BY <1>1, ValueIs
  <2>2. Value(o.env, y) = IF y \in R THEN o.env[y] ELSE <<>>  BY <1>1, ValueIs
  <2> QED BY <1>1, <2>1, <2>2
<1> QED BY <1>2 DEF SameOutcome

\* The values that an expansion keeps are those of the function it is given, and it is
\* given one that keeps those of the original.
LEMMA MeaningStep == IInv /\ MeaningPreserved /\ [Next]_vars => MeaningPreserved'
<1> SUFFICES ASSUME IInv, MeaningPreserved, [Next]_vars  PROVE MeaningPreserved'
  OBVIOUS
<1>1. /\ original' = original
      /\ fn' = fn \/ \E n, F, T : Expands(fn, n, fn', F, mbb, F, T, pos)
  BY StepIs
<1>2. CASE fn' = fn
  BY <1>1, <1>2 DEF MeaningPreserved
<1>3. CASE \E n, F, T : Expands(fn, n, fn', F, mbb, F, T, pos)
  <2>1. PICK n, F, T : Expands(fn, n, fn', F, mbb, F, T, pos)  BY <1>3
  <2> DEFINE g == fn'
             R == Regs(fn)
             X == {}
  <2>2. Expands(fn, n, g, F, mbb, F, T, pos)  BY <2>1
  <2>3. R = Regs(fn)  OBVIOUS
  <2>4. \A last : KeptShown(fn.body[mbb], pos, last, X)  BY DEF KeptShown
  <2> HIDE DEF g, R, X
  <2>5. ASSUME NEW holds  PROVE SameOutcome(Outcome(fn, holds), Outcome(g, holds), R, X)
    BY <2>2, <2>3, <2>4, OutcomeStays DEF Expands
  <2> SUFFICES ASSUME NEW holds \in SUBSET Tests(original)
               PROVE  /\ Outcome(g, holds).at = Outcome(original, holds).at
                      /\ Outcome(g, holds).mem = Outcome(original, holds).mem
                      /\ \A r \in DOMAIN Outcome(original, holds).env :
                           Value(Outcome(g, holds).env, r) = Outcome(original, holds).env[r]
    BY <1>1 DEF MeaningPreserved, g
  <2> DEFINE was == Outcome(original, holds)
             is == Outcome(fn, holds)
             new == Outcome(g, holds)
  <2>6. /\ is.at = was.at /\ is.mem = was.mem
        /\ \A r \in DOMAIN was.env : Value(is.env, r) = was.env[r]
    BY DEF MeaningPreserved
  <2>7. SameOutcome(is, new, R, X)  BY <2>5
  <2> HIDE DEF was, is, new
  <2>8. is.at = new.at /\ is.mem = new.mem /\ \A y : Value(is.env, y) = Value(new.env, y)
    BY <2>7, SameValues
  <2>9. /\ new.at = was.at /\ new.mem = was.mem
        /\ \A r \in DOMAIN was.env : Value(new.env, r) = was.env[r]
    BY <2>6, <2>8
  <2> QED BY <2>9 DEF was, new
<1> QED BY <1>1, <1>2, <1>3

NoneBehind == mbb # 0 => Walked(Code, pos)

LEMMA NoneBehindStep == IInv /\ NoneBehind /\ [Next]_vars => NoneBehind'
<1> SUFFICES ASSUME IInv, NoneBehind, [Next]_vars, mbb' # 0
             PROVE  Walked(fn'.body[mbb'], pos')
  BY DEF NoneBehind, Code
<1>1. CASE pos' = 1  BY <1>1 DEF Walked
<1>2. CASE StepOver
  <2>1. pos \in Nat
    <3>1. mbb \in Blocks(fn) /\ FunctionOK(fn, Len(fn.order))
      BY <1>2, IInvIs, BlocksOK DEF StepOver
    <3>2. Len(Code) \in Nat  BY <3>1, InBlocks DEF Code
    <3> QED BY <3>2, IInvIs
  <2>2. /\ fn' = fn /\ mbb' = mbb /\ pos' = pos + 1 /\ mbb # 0 /\ ~IsSelect(Code[pos])
    BY <1>2 DEF StepOver
  <2>3. \A k \in 1 .. pos - 1 : ~IsSelect(Code[k])  BY <2>2 DEF NoneBehind, Walked
  <2>4. \A k \in 1 .. (pos + 1) - 1 : k \in 1 .. pos - 1 \/ k = pos  BY <2>1
  <2>5. \A k \in 1 .. (pos + 1) - 1 : ~IsSelect(Code[k])  BY <2>2, <2>3, <2>4
  <2> QED BY <2>2, <2>5 DEF Walked, Code
<1>3. CASE UNCHANGED vars
  BY <1>3 DEF NoneBehind, vars, Code
<1> QED BY <1>1, <1>2, <1>3 DEF Next, ExpandSelect, NextBlock, Terminated

\* The debug values of VariablesInOrder are in order at the selects still to come.
KeptInOrder == \A x \in VariablesInOrder : InOrderIn(fn, x)

LEMMA InitInOrder == Init => NoneBehind /\ KeptInOrder /\ DebugValuesFollow
<1> SUFFICES ASSUME Init  PROVE NoneBehind /\ KeptInOrder /\ DebugValuesFollow
  OBVIOUS
<1>1. fn = original /\ pos = 1  BY DEF Init
<1>2. NoneBehind  BY <1>1 DEF NoneBehind, Walked
<1>3. DebugValuesFollow  BY <1>1 DEF DebugValuesFollow
<1>4. FunctionOK(fn, Len(fn.order))  BY InitIInv, IInvIs, BlocksOK
<1>5. \A b \in Blocks(fn) : DOMAIN fn.body[b] = 1 .. Len(fn.body[b])
  BY <1>4 DEF FunctionOK, BlockOK, InstrsOK, Sequence
<1>6. KeptInOrder  BY <1>1, <1>5 DEF KeptInOrder, InOrderIn, VariablesInOrder
<1> QED BY <1>2, <1>3, <1>6

\* The values shown of a variable are those shown before an expansion that keeps its
\* debug values in order, and it leaves them in order.
LEMMA FollowStep ==
  IInv /\ NoneBehind /\ KeptInOrder /\ DebugValuesFollow /\ [Next]_vars
  => KeptInOrder' /\ DebugValuesFollow'
<1> SUFFICES ASSUME IInv, NoneBehind, KeptInOrder, DebugValuesFollow, [Next]_vars
             PROVE  KeptInOrder' /\ DebugValuesFollow'
  OBVIOUS
<1>1. /\ original' = original
      /\ fn' = fn \/ \E n, F, T : Expands(fn, n, fn', F, mbb, F, T, pos)
  BY StepIs
<1>2. VariablesInOrder' = VariablesInOrder  BY <1>1 DEF VariablesInOrder
<1>3. CASE fn' = fn
  BY <1>1, <1>2, <1>3 DEF KeptInOrder, DebugValuesFollow
<1>4. CASE \E n, F, T : Expands(fn, n, fn', F, mbb, F, T, pos)
  <2>1. PICK n, F, T : Expands(fn, n, fn', F, mbb, F, T, pos)  BY <1>4
  <2> DEFINE g == fn'
             R == Regs(fn)
             X == VariablesInOrder
  <2>2. PICK last, d, r, at, s, q, to :
          Expansion(fn, n, g, F, mbb, F, T, pos, last, d, r, at, s, q, to)
    BY <2>1 DEF Expands
  <2>3. PICK k : Laid(fn, n, g, k, mbb, F, T)  BY <2>1 DEF Expands
  <2>4. R = Regs(fn) /\ \A x \in X : InOrderIn(fn, x)  BY DEF KeptInOrder
  <2>5. Walked(fn.body[mbb], pos)
    <3>1. FunctionOK(fn, n) /\ mbb \in Blocks(fn)  BY <2>2, SplitFacts DEF Expansion
    <3>2. mbb # 0  BY <3>1, InBlocks
    <3> QED BY <3>2 DEF NoneBehind, Code
  <2>6. KeptInOrder'
    <3>1. \A x \in X : InOrderIn(g, x)
      <4> HIDE DEF g, X
      <4> QED BY <2>2, <2>4, <2>5, OrderStays
    <3> QED BY <1>2, <3>1 DEF KeptInOrder
  <2> HIDE DEF g, R, X
  <2>7. KeptShown(fn.body[mbb], pos, last, X)  BY <2>2, <2>4, OrderKeeps
  <2>8. ASSUME NEW holds  PROVE SameOutcome(Outcome(fn, holds), Outcome(g, holds), R, X)
    BY <2>2, <2>3, <2>4, <2>7, OutcomeStays
  <2>9. ASSUME NEW holds \in SUBSET Tests(original), NEW x \in X
        PROVE  ShownOf(Outcome(g, holds), x) = ShownOf(Outcome(original, holds), x)
    <3> DEFINE was == Outcome(original, holds)
               is == Outcome(fn, holds)
               new == Outcome(g, holds)
    <3>1. ShownOf(is, x) = ShownOf(was, x)  BY <2>9 DEF DebugValuesFollow, X
    <3>2. SameOutcome(is, new, R, X)  BY <2>8
    <3> HIDE DEF was, is, new
    <3>3. \A y \in X : ShownOf(is, y) = ShownOf(new, y)  BY <3>2, SameValues
    <3>4. ShownOf(new, x) = ShownOf(was, x)  BY <3>1, <3>3
    <3> QED BY <3>4 DEF was, new
  <2>10. DebugValuesFollow'
    BY <1>1, <1>2, <2>9 DEF DebugValuesFollow, g, X
  <2> QED BY <2>6, <2>10
<1> QED BY <1>1, <1>3, <1>4

\* SharesTriangle, of one step.
SharesNow ==
  \A p \in pos .. Len(Code) :
    IsSelect(Code[p]) /\ (\A q \in pos + 1 .. p : MayInterleave(Code, pos, q))
    => Code[p].def \in {m.def : m \in {n \in Range(fn'.body[mbb']) : n.kind = "phi"}}

LEMMA SharesStep == IInv /\ [Next]_vars => [fn' # fn => SharesNow]_vars
<1> SUFFICES ASSUME IInv, [Next]_vars, fn' # fn, NEW p \in pos .. Len(Code),
                    IsSelect(Code[p]), \A q \in pos + 1 .. p : MayInterleave(Code, pos, q)
             PROVE  Code[p].def \in {m.def : m \in {n \in Range(fn'.body[mbb']) :
                                                       n.kind = "phi"}}
  BY DEF SharesNow
<1> DEFINE N == Len(fn.order)
           T == N + 1
           F == N + 2
<1>1. /\ Verified(fn) /\ mbb \in Blocks(fn) \cup {0}
      /\ pos \in 1 .. (IF mbb = 0 THEN 1 ELSE Len(Code) + 1)
  BY IInvIs
<1>2. FunctionOK(fn, N)  BY <1>1, BlocksOK
<1>3. ExpandSelect
  BY DEF Next, StepOver, NextBlock, Terminated, vars
<1>4. /\ mbb \in Blocks(fn) /\ pos \in 1 .. Len(fn.body[mbb]) /\ IsSelect(fn.body[mbb][pos])
      /\ fn' = EmitSelectPseudo(fn, mbb, pos, T, F) /\ mbb' = T
  <2>1. Len(Code) \in Nat \/ mbb = 0  BY <1>1, <1>2, InBlocks DEF Code
  <2> QED BY <1>1, <1>3, <2>1 DEF ExpandSelect, Code
<1>5. /\ p \in pos .. Len(fn.body[mbb]) /\ IsSelect(fn.body[mbb][p])
      /\ \A q \in pos + 1 .. p : MayInterleave(fn.body[mbb], pos, q)
  BY DEF Code
<1> DEFINE g == fn'
           t == mbb'
<1>6. g = EmitSelectPseudo(fn, mbb, pos, T, F) /\ t = T  BY <1>4
<1>7. T = N + 1 /\ F = N + 2  OBVIOUS
<1> HIDE DEF g, t, N, T, F
<1>8. fn.body[mbb][p].def \in {m.def : m \in {n \in Range(g.body[T]) : n.kind = "phi"}}
  BY <1>2, <1>4, <1>5, <1>6, <1>7, PhisShared
<1> QED BY <1>6, <1>8 DEF Code, g, t

\* Throughout the pass all blocks created are in the layout once, instructions name
\* blocks that exist, and the walk is at an instruction or behind a block.
THEOREM TypeCorrect == Spec => []TypeOK
<1>1. IInv => TypeOK  BY DEF IInv
<1> QED BY <1>1, InitIInv, NextIInv, PTL DEF Spec

\* However many selects the pass expands, and also in blocks that lead back to
\* themselves: the successors emitSelectPseudo records are those that branches, jumps
\* and the layout lead to.
THEOREM SuccessorsCorrect == Spec => []SuccessorsAreControlTargets
<1>1. IInv => SuccessorsAreControlTargets  BY DEF IInv
<1> QED BY <1>1, InitIInv, NextIInv, PTL DEF Spec

\* Likewise every phi names exactly the predecessors of its block: replacing Head by
\* Tail in the phis of Head's successors is all that transferring them demands.
THEOREM PhisCorrect == Spec => []PhisMatchPreds
<1>1. IInv => PhisMatchPreds  BY DEF IInv
<1> QED BY <1>1, InitIInv, NextIInv, PTL DEF Spec

\* And every register read is defined on every path to its use: nothing that stays in
\* Head reads a select that has left it, the phis of Tail come before what reads them,
\* and the blocks that Head dominated are below Tail as well.
THEOREM DefsDominate == Spec => []DefsDominateUses
<1>1. IInv => DefsDominateUses  BY DEF IInv
<1> QED BY <1>1, InitIInv, NextIInv, PTL DEF Spec

\* The function computes what the original computes, however the comparisons turn out:
\* code that the scan leaves between two selects stays above the branch, code behind
\* them goes below the phis, and neither can tell.
THEOREM Preserved == Spec => []MeaningPreserved
<1>1. Init => MeaningPreserved  BY DEF Init, MeaningPreserved, Value
<1>2. IInv /\ MeaningPreserved /\ [Next]_vars => MeaningPreserved'  BY MeaningStep
<1> QED BY <1>1, <1>2, InitIInv, NextIInv, PTL DEF Spec

\* However many selects on one condition stand in a row, with whatever debug values and
\* pure code between: as long as none reads a result of those before, all become phis of
\* one Tail, and none gets a triangle of its own.
THEOREM Shares == Spec => SharesTriangle
<1>1. IInv /\ [Next]_vars => [fn' # fn => SharesNow]_vars  BY SharesStep
<1> QED BY <1>1, InitIInv, NextIInv, PTL DEF Spec, SharesTriangle, SharesNow

\* A debugger is shown what it would be shown in the original, in the same order, of
\* every variable with debug values in order, after any number of expansions: those
\* that move to Tail with a select still see its result, nothing that stays in Head is
\* overtaken or reads what has left it, and the selects that move to Tail find the debug
\* values behind them in order again.
THEOREM ShownFollows == Spec => []DebugValuesFollow
<1>1. Init => IInv /\ NoneBehind /\ KeptInOrder /\ DebugValuesFollow
  BY InitIInv, InitInOrder
<1>2. /\ IInv /\ NoneBehind /\ KeptInOrder /\ DebugValuesFollow /\ [Next]_vars
      => (IInv /\ NoneBehind /\ KeptInOrder /\ DebugValuesFollow)'
  BY NextIInv, NoneBehindStep, FollowStep
<1> QED BY <1>1, <1>2, PTL DEF Spec
=============================================================================
