------------------------- MODULE GlobalAccess_proof -------------------------
(***************************************************************************)
(* Numbers and addresses that are loaded by LUI and an instruction with a  *)
(* signed immediate, for every width of the fields and of a register.      *)
(*                                                                         *)
(* First Materialize: the two parts of a number add up to it, and the pair *)
(* loads every constant and address: its low 32 bits always, which is      *)
(* everything on RV32, and all of it on RV64 but for the last LoHalf       *)
(* values below 2^31.                                                      *)
(*                                                                         *)
(* Then GlobalAccess: AddressReached for every address of the symbol and   *)
(* every offset.  The invariant follows the program that the code of an    *)
(* access is, from its lowering to its last instruction: asm and code are  *)
(* parts of it, and each prefix that has run leaves known values in the    *)
(* registers.                                                              *)
(***************************************************************************)
EXTENDS GlobalAccess, Materialize, SequenceTheorems, TLAPS

----------------------------------------------------------------------------
(* Division with remainder.                                                *)

LEMMA DivMod ==
  ASSUME NEW a \in Int, NEW m \in Nat \ {0}
  PROVE  /\ a \div m \in Int /\ a % m \in 0 .. m - 1
         /\ a = m * (a \div m) + (a % m)
  BY SMTT(20)

LEMMA DivModUnique ==
  ASSUME NEW m \in Nat \ {0}, NEW q \in Int, NEW r \in 0 .. m - 1
  PROVE  (m * q + r) \div m = q /\ (m * q + r) % m = r
  BY SMTT(20)

LEMMA ModAddMultiple ==
  ASSUME NEW a \in Int, NEW k \in Int, NEW m \in Nat \ {0}
  PROVE  (a + m * k) % m = a % m /\ (a + m * k) \div m = (a \div m) + k
<1> DEFINE q == a \div m
           r == a % m
<1>1. q \in Int /\ r \in 0 .. m - 1 /\ a = m * q + r  BY DivMod
<1> HIDE DEF q, r
<1>2. a + m * k = m * (q + k) + r /\ q + k \in Int  BY <1>1
<1>3. (m * (q + k) + r) % m = r /\ (m * (q + k) + r) \div m = q + k
  BY <1>1, <1>2, DivModUnique
<1> QED BY <1>2, <1>3 DEF q, r

LEMMA ModAdd ==
  ASSUME NEW a \in Int, NEW b \in Int, NEW m \in Nat \ {0}
  PROVE  ((a % m) + b) % m = (a + b) % m
<1> DEFINE q == a \div m
           r == a % m
<1>1. q \in Int /\ r \in 0 .. m - 1 /\ a = m * q + r  BY DivMod
<1> HIDE DEF q, r
<1>2. r + b \in Int /\ a + b = (r + b) + m * q  BY <1>1
<1>3. ((r + b) + m * q) % m = (r + b) % m  BY <1>1, <1>2, ModAddMultiple
<1> QED BY <1>2, <1>3 DEF r

LEMMA ModMod ==
  ASSUME NEW a \in Int, NEW m \in Nat \ {0}, NEW k \in Nat \ {0},
         NEW w \in Nat \ {0}
  PROVE  w = m * k => (a % w) % m = a % m
<1> DEFINE q == a \div w
           r == a % w
<1>1. q \in Int /\ r \in Int /\ a = w * q + r  BY DivMod
<1> HIDE DEF q, r
<1> HAVE w = m * k
<1>2. k * q \in Int /\ w * q = m * (k * q)  BY <1>1, SMTT(20)
<1> DEFINE j == k * q
<1>3. j \in Int /\ a = r + m * j
  <2>1. m * j \in Int  BY <1>2, SMTT(20)
  <2> QED BY <1>1, <1>2, <2>1
<1> HIDE DEF j
<1>4. (r + m * j) % m = r % m  BY <1>1, <1>3, ModAddMultiple
<1> QED BY <1>3, <1>4 DEF r

----------------------------------------------------------------------------
(* The split of a number into a high and a signed low part.                *)

LEMMA Widths ==
  /\ Lo \in Nat \ {0} /\ Hi \in Nat \ {0} /\ Half32 \in Nat \ {0}
  /\ Lo * Hi \in Nat \ {0} /\ XlenMod \in Nat \ {0}
  /\ 2 * Half32 = Lo * Hi /\ Half32 = Lo * HiHalf
  /\ LoHalf \in Nat \ {0} /\ HiHalf \in Nat \ {0} /\ Ext \in Nat \ {0}
<1>1. /\ Lo \in Nat \ {0} /\ Hi \in Nat \ {0}
      /\ LoHalf \in Nat \ {0} /\ HiHalf \in Nat \ {0} /\ Ext \in Nat \ {0}
  BY WidthAssumption DEF Lo, Hi
<1>2. \A x, y \in Nat \ {0} : x * y \in Nat \ {0}  BY SMTT(20)
<1>3. Half32 \in Nat \ {0} /\ Lo * Hi \in Nat \ {0}  BY <1>1, <1>2 DEF Half32
<1>4. XlenMod \in Nat \ {0}
  <2>1. (Lo * Hi) * Ext \in Nat \ {0}  BY <1>1, <1>2, <1>3
  <2> QED BY <2>1 DEF XlenMod, Pow32
<1>5. 2 * Half32 = Lo * Hi /\ Half32 = Lo * HiHalf
  BY <1>1, SMTT(20) DEF Half32, Lo, Hi
<1> QED BY <1>1, <1>3, <1>4, <1>5

LEMMA Widths32 ==
  /\ Pow32 \in Nat \ {0} /\ Pow32 = Lo * Hi /\ XlenMod = Pow32 * Ext
  /\ XlenMod \in Nat \ {0} /\ Ext \in Nat \ {0}
  BY Widths DEF Pow32, XlenMod

\* Rounding to the nearest multiple of Lo leaves a signed remainder: %hi before
\* it is cut to its 20 bits, and %lo.
LEMMA Rounding ==
  ASSUME NEW n \in Int
  PROVE  /\ (n + LoHalf) \div Lo \in Int
         /\ EvaluateLo(n) \in -LoHalf .. LoHalf - 1
         /\ n = Lo * ((n + LoHalf) \div Lo) + EvaluateLo(n)
<1> DEFINE q == n \div Lo
           r == n % Lo
           c == IF r < LoHalf THEN 0 ELSE 1
           s == r + LoHalf - Lo * c
<1>1. q \in Int /\ r \in 0 .. Lo - 1 /\ n = Lo * q + r  BY DivMod, Widths
<1>2. EvaluateLo(n) = r - Lo * c
  BY <1>1, Widths DEF EvaluateLo, SignExtend, Lo
<1>3. c \in Int /\ s \in 0 .. Lo - 1 /\ r - Lo * c \in -LoHalf .. LoHalf - 1
  BY <1>1, Widths DEF Lo
<1> HIDE DEF q, r, c
<1>4. n + LoHalf = Lo * (q + c) + s  BY <1>1, <1>3, Widths
<1>5. q + c \in Int  BY <1>1, <1>3
<1> HIDE DEF s
<1>6. (n + LoHalf) \div Lo = q + c  BY <1>3, <1>4, <1>5, DivModUnique, Widths
<1>7. n = Lo * (q + c) + (r - Lo * c)  BY <1>1, <1>3, Widths
<1> QED BY <1>2, <1>3, <1>5, <1>6, <1>7

\* What LUI makes of the high part, plus the low part, differs from the number
\* by a multiple of 2^32, and not at all below 2^31 - LoHalf.
LEMMA SplitSum ==
  ASSUME NEW n \in Int
  PROVE  \E t \in Int :
           /\ SignExtend(EvaluateHi(n) * Lo, Half32) + EvaluateLo(n) = n + (Lo * Hi) * t
           /\ -Half32 <= n /\ n < Half32 - LoHalf => t = 0
<1> DEFINE p == (n + LoHalf) \div Lo
           l == EvaluateLo(n)
           h == p % Hi
           s == p \div Hi
           t == IF h < HiHalf THEN s ELSE s + 1
<1>1. p \in Int /\ l \in -LoHalf .. LoHalf - 1 /\ n = Lo * p + l  BY Rounding
<1>2. EvaluateHi(n) = h  BY DEF EvaluateHi
<1> HIDE DEF p, l
<1>3. s \in Int /\ h \in 0 .. Hi - 1 /\ p = Hi * s + h  BY <1>1, DivMod, Widths
<1> HIDE DEF h, s
<1>4. t \in Int  BY <1>3
<1>5. h * Lo < Half32 <=> h < HiHalf
  <2>1. h * Lo < Lo * HiHalf <=> h < HiHalf
    BY <1>3, Widths, SMTT(20)
  <2> QED BY <2>1, Widths
<1>6. SignExtend(h * Lo, Half32) = Lo * p - (Lo * Hi) * t
  <2>1. CASE h < HiHalf
    <3>1. SignExtend(h * Lo, Half32) = h * Lo /\ t = s  BY <1>5, <2>1 DEF SignExtend
    <3>2. h * Lo = Lo * (Hi * s + h) - (Lo * Hi) * s  BY <1>3, Widths, SMTT(20)
    <3> QED BY <1>3, <3>1, <3>2
  <2>2. CASE ~(h < HiHalf)
    <3>1. SignExtend(h * Lo, Half32) = h * Lo - Lo * Hi /\ t = s + 1
      BY <1>5, <2>2, Widths DEF SignExtend
    <3>2. h * Lo - Lo * Hi = Lo * (Hi * s + h) - (Lo * Hi) * (s + 1)
      BY <1>3, Widths, SMTT(20)
    <3> QED BY <1>3, <3>1, <3>2
  <2> QED BY <2>1, <2>2
<1>7. SignExtend(h * Lo, Half32) + l = n + (Lo * Hi) * (0 - t)
  <2>1. (Lo * Hi) * (0 - t) = 0 - (Lo * Hi) * t  BY <1>4, Widths, SMTT(20)
  <2>2. Lo * p \in Int /\ (Lo * Hi) * t \in Int  BY <1>1, <1>4, Widths, SMTT(20)
  <2> QED BY <1>1, <1>6, <2>1, <2>2
<1>8. ASSUME -Half32 <= n, n < Half32 - LoHalf  PROVE t = 0
  <2>1. -HiHalf <= p
    <3>1. CASE p < -HiHalf
      <4>1. p + 1 <= -HiHalf  BY <1>1, <3>1, Widths
      <4>2. Lo * (p + 1) <= Lo * (-HiHalf)  BY <1>1, <4>1, Widths, SMTT(20)
      <4>3. Lo * p + Lo <= -Half32  BY <1>1, <4>2, Widths, SMTT(20)
      <4>4. l < Lo /\ Lo * p \in Int  BY <1>1, Widths, SMTT(20) DEF Lo
      <4> QED BY <1>1, <1>8, <4>3, <4>4, Widths
    <3> QED BY <1>1, <3>1, Widths
  <2>2. p < HiHalf
    <3>1. CASE HiHalf <= p
      <4>1. Lo * HiHalf <= Lo * p  BY <1>1, <3>1, Widths, SMTT(20)
      <4>2. Lo * p \in Int  BY <1>1, Widths, SMTT(20)
      <4> QED BY <1>1, <1>8, <4>1, <4>2, Widths
    <3> QED BY <1>1, <3>1, Widths
  <2>3. CASE p >= 0
    <3>1. p \in 0 .. Hi - 1 /\ Hi * 0 + p = p  BY <1>1, <2>2, <2>3, Widths DEF Hi
    <3>2. p \div Hi = 0 /\ p % Hi = p  BY <3>1, DivModUnique, Widths
    <3> QED BY <2>2, <3>2 DEF h, s
  <2>4. CASE p < 0
    <3>1. p + Hi \in 0 .. Hi - 1 /\ Hi * (-1) + (p + Hi) = p
      BY <1>1, <2>1, <2>4, Widths DEF Hi
    <3> DEFINE r == p + Hi
    <3>2. r \in 0 .. Hi - 1 /\ 0 - 1 \in Int  BY <3>1
    <3> HIDE DEF r
    <3>3. (Hi * (0 - 1) + r) \div Hi = 0 - 1 /\ (Hi * (0 - 1) + r) % Hi = r
      BY <3>2, DivModUnique, Widths
    <3>4. p \div Hi = -1 /\ p % Hi = p + Hi  BY <3>1, <3>3 DEF r
    <3>5. ~(p + Hi < HiHalf)  BY <1>1, <2>1, Widths DEF Hi
    <3> QED BY <3>4, <3>5 DEF h, s
  <2> QED BY <1>1, <2>3, <2>4
<1>9. 0 - t \in Int /\ (t = 0 => 0 - t = 0)  BY <1>4
<1> QED BY <1>2, <1>7, <1>8, <1>9 DEF l

\* The simm32 pattern splits a constant as %hi and %lo split an address: the
\* zero extension adds a multiple of Lo * Hi.
LEMMA PatternSplit ==
  ASSUME NEW n \in Int
  PROVE  HI20(n) = EvaluateHi(n) /\ LO12Sext(n) = EvaluateLo(n)
<1> DEFINE d == n \div XlenMod
           z == n % XlenMod
           k == Ext * d
           j == Hi * k
           y == z + LoHalf
           w == y \div Lo
<1>1. d \in Int /\ z \in Int /\ n = XlenMod * d + z  BY DivMod, Widths
<1> HIDE DEF d, z
<1>2. k \in Int /\ j \in Int  BY <1>1, Widths, SMTT(20)
<1>3. XlenMod * d = Lo * j  BY <1>1, Widths, SMTT(20) DEF XlenMod, Pow32
<1>4. y \in Int  BY <1>1, Widths
<1>5. w \in Int  BY <1>4, DivMod, Widths
<1>6. (w + Hi * k) % Hi = w % Hi
  <2> HIDE DEF k, w
  <2> QED BY <1>2, <1>5, ModAddMultiple, Widths
<1> HIDE DEF j
<1>7. (z + Lo * j) % Lo = z % Lo
  <2>1. z \in Int /\ j \in Int /\ Lo \in Nat \ {0}  BY <1>1, <1>2, Widths
  <2> QED BY <2>1, ModAddMultiple
<1>8. (y + Lo * j) \div Lo = w + j
  <2> HIDE DEF y
  <2> QED BY <1>2, <1>4, ModAddMultiple, Widths
<1>9. Lo * j \in Int  BY <1>2, Widths, SMTT(20)
<1>10. n = z + Lo * j /\ n + LoHalf = y + Lo * j
  BY <1>1, <1>3, <1>9, Widths
<1>11. n % Lo = z % Lo /\ ((n + LoHalf) \div Lo) % Hi = w % Hi
  BY <1>6, <1>7, <1>8, <1>10 DEF j
<1> QED BY <1>11 DEF HI20, LO12Sext, EvaluateHi, EvaluateLo, ZExt, z

\* A residue that is right in its low 32 bits, and altogether unless it is exempt.
Right(v, n) == v % Pow32 = n % Pow32 /\ (~LuiNegative(n) => v = n % XlenMod)

LEMMA ResidueRight == \A n \in Int : Right(n % XlenMod, n)
  BY ModMod, Widths32 DEF Right

\* What executing the pair leaves in rd.
LEMMA PairLoads ==
  ASSUME NEW n \in Int, -Half32 <= n
  PROVE  Right(((SignExtend(EvaluateHi(n) * Lo, Half32) % XlenMod) + EvaluateLo(n)) % XlenMod, n)
<1> DEFINE a == SignExtend(EvaluateHi(n) * Lo, Half32)
           l == EvaluateLo(n)
<1>1. l \in Int  BY Rounding
<1>2. (n + LoHalf) \div Lo \in Int  BY Rounding
<1>3. EvaluateHi(n) \in 0 .. Hi - 1  BY <1>2, DivMod, Widths DEF EvaluateHi
<1>4. EvaluateHi(n) * Lo \in Int  BY <1>3, Widths, SMTT(20)
<1>5. a \in Int  BY <1>4, Widths DEF SignExtend
<1>6. PICK t \in Int : /\ a + l = n + (Lo * Hi) * t
                       /\ -Half32 <= n /\ n < Half32 - LoHalf => t = 0
  BY SplitSum
<1> DEFINE v == ((a % XlenMod) + l) % XlenMod
<1> HIDE DEF a, l
<1>7. ((a % XlenMod) + l) % XlenMod = (a + l) % XlenMod
  BY <1>1, <1>5, ModAdd, Widths
<1>8. ASSUME ~LuiNegative(n)  PROVE (n + (Lo * Hi) * t) % XlenMod = n % XlenMod
  <2>1. CASE Ext = 1
    <3>1. XlenMod = Lo * Hi /\ XlenMod \in Nat \ {0}  BY <2>1, Widths, Widths32
    <3> HIDE DEF v
    <3> QED BY <1>6, <3>1, ModAddMultiple
  <2>2. CASE Ext # 1
    <3>1. t = 0  BY <1>6, <1>8, <2>2, Widths DEF LuiNegative
    <3>2. n + (Lo * Hi) * t = n  BY <3>1, Widths
    <3> QED BY <3>2
  <2> QED BY <2>1, <2>2
<1>9. v % Pow32 = n % Pow32
  <2>1. a + l \in Int  BY <1>1, <1>5
  <2>2. ((a + l) % XlenMod) % Pow32 = (a + l) % Pow32  BY <2>1, ModMod, Widths32
  <2>3. (n + Pow32 * t) % Pow32 = n % Pow32  BY <1>6, ModAddMultiple, Widths32
  <2> QED BY <1>6, <1>7, <2>2, <2>3, Widths32
<1>10. ~LuiNegative(n) => v = n % XlenMod  BY <1>6, <1>7, <1>8
<1> QED BY <1>9, <1>10 DEF Right, a, l

LEMMA WordRange == \A a \in Int : a % XlenMod \in Word
  BY DivMod, Widths DEF Word

LEMMA FieldRange ==
  ASSUME NEW n \in Int
  PROVE  EvaluateHi(n) \in 0 .. Hi - 1 /\ EvaluateLo(n) \in -LoHalf .. LoHalf - 1
  BY Rounding, DivMod, Widths DEF EvaluateHi

----------------------------------------------------------------------------
(* Sums of registers and immediates.                                       *)

Congruent(a, b, m) == a % m = b % m

\* A register or an immediate that stands for n in its low 32 bits, and, if it is
\* exact, in all bits of a register.
Agrees(v, n, exact) ==
  Congruent(v, n, Pow32) /\ (exact => Congruent(v, n, XlenMod))

LEMMA CongruentAdd ==
  ASSUME NEW m \in Nat \ {0}, NEW v \in Int, NEW w \in Int, NEW n \in Int, NEW o \in Int,
         Congruent(v, n, m), Congruent(w, o, m)
  PROVE  Congruent(v + w, n + o, m)
<1>1. ((v % m) + w) % m = (v + w) % m /\ ((n % m) + w) % m = (n + w) % m  BY ModAdd
<1>2. ((w % m) + n) % m = (w + n) % m /\ ((o % m) + n) % m = (o + n) % m  BY ModAdd
<1>3. w + n = n + w /\ o + n = n + o  OBVIOUS
<1> QED BY <1>1, <1>2, <1>3 DEF Congruent

LEMMA ModXlen ==
  ASSUME NEW a \in Int
  PROVE  (a % XlenMod) % XlenMod = a % XlenMod /\ (a % XlenMod) % Pow32 = a % Pow32
<1>1. XlenMod = XlenMod * 1  BY Widths32
<1>2. 1 \in Nat \ {0}  OBVIOUS
<1>3. (a % XlenMod) % XlenMod = a % XlenMod  BY <1>1, <1>2, ModMod, Widths32
<1> QED BY <1>3, ModMod, Widths32

LEMMA AgreesAdd ==
  ASSUME NEW v \in Int, NEW w \in Int, NEW n \in Int, NEW o \in Int,
         NEW e, NEW f, Agrees(v, n, e), Agrees(w, o, f)
  PROVE  Agrees((v + w) % XlenMod, n + o, e /\ f)
<1> DEFINE s == v + w
<1>1. s \in Int  OBVIOUS
<1>2. Congruent(s, n + o, Pow32)
  <2>1. Congruent(v, n, Pow32) /\ Congruent(w, o, Pow32)  BY DEF Agrees
  <2> QED BY <2>1, CongruentAdd, Widths32
<1>3. ASSUME e, f  PROVE Congruent(s, n + o, XlenMod)
  <2>1. Congruent(v, n, XlenMod) /\ Congruent(w, o, XlenMod)  BY <1>3 DEF Agrees
  <2> QED BY <2>1, CongruentAdd, Widths32
<1> HIDE DEF s
<1>4. (s % XlenMod) % XlenMod = s % XlenMod /\ (s % XlenMod) % Pow32 = s % Pow32
  BY <1>1, ModXlen
<1>5. Congruent(s % XlenMod, n + o, Pow32)  BY <1>2, <1>4 DEF Congruent
<1>6. e /\ f => Congruent(s % XlenMod, n + o, XlenMod)  BY <1>3, <1>4 DEF Congruent
<1> QED BY <1>5, <1>6 DEF Agrees, s

LEMMA AgreesPair ==
  ASSUME NEW n \in Int, -Half32 <= n
  PROVE  Agrees((LuiValue(EvaluateHi(n)) + EvaluateLo(n)) % XlenMod, n, ~LuiNegative(n))
<1> DEFINE v == (LuiValue(EvaluateHi(n)) + EvaluateLo(n)) % XlenMod
<1>1. Right(v, n)  BY PairLoads DEF LuiValue
<1> HIDE DEF v
<1>2. Agrees(v, n, ~LuiNegative(n))  BY <1>1, ModXlen DEF Right, Agrees, Congruent
<1> QED BY <1>2 DEF v

LEMMA AgreesWord ==
  ASSUME NEW v \in Word, NEW n \in Int, NEW e \in BOOLEAN, Agrees(v, n, e)
  PROVE  v % Pow32 = n % Pow32 /\ (e => v = n % XlenMod)
<1>1. XlenMod * 0 + v = v /\ v \in 0 .. XlenMod - 1  BY Widths32 DEF Word
<1>2. v % XlenMod = v  BY <1>1, DivModUnique, Widths32
<1> QED BY <1>2 DEF Agrees, Congruent

LEMMA LuiWord == ASSUME NEW n \in 0 .. Hi - 1  PROVE LuiValue(n) \in Word
<1>1. n * Lo \in Int  BY Widths, SMTT(20)
<1>2. SignExtend(n * Lo, Half32) \in Int  BY <1>1, Widths DEF SignExtend
<1> QED BY <1>2, WordRange DEF LuiValue

----------------------------------------------------------------------------
(* The inductive invariant: the instructions still to execute, on the      *)
(* value rd holds now, end in the value wanted.                            *)

\* A pair is the split of the goal, on a goal the patterns give a pair for.
PairPending ==
  /\ insts = <<LUI(EvaluateHi(goal.value)), ADDI(EvaluateLo(goal.value))>>
  /\ -Half32 <= goal.value

AddPending ==
  \E i \in -LoHalf .. LoHalf - 1 :
    /\ insts = <<ADDI(i)>>
    /\ Right((rd + i) % XlenMod, goal.value)

LoadInv ==
  /\ goal \in Goals /\ rd \in Word
  /\ \/ insts = NotSelected /\ rd = 0
     \/ PairPending
     \/ AddPending
     \/ insts = <<>> /\ Right(rd, goal.value)
     \/ /\ insts = <<[op |-> "fatal", imm |-> 0]>>
        /\ goal.kind = "constant" /\ ~IsInt32(goal.value)

LEMMA GoalValue == goal \in Goals => goal.value \in Int /\ goal.kind \in {"constant", "symbol"}
<1>1. Half32 * Ext \in Int /\ XlenMod \in Int  BY Widths, SMTT(20)
<1> QED BY <1>1 DEF Goals, Constants, Word

LEMMA InitLoadInv == LInit => LoadInv
  BY Widths DEF LInit, LoadInv, Word

LEMMA SelectSimm12Step == LoadInv /\ SelectSimm12 => LoadInv'
<1> SUFFICES ASSUME LoadInv, SelectSimm12 PROVE LoadInv'  OBVIOUS
<1>1. /\ goal \in Goals /\ goal' = goal /\ rd \in Word /\ rd' = rd /\ rd = 0
      /\ goal.value \in Int /\ IsInt12(goal.value) /\ insts' = <<ADDI(goal.value)>>
  BY GoalValue DEF LoadInv, SelectSimm12, NotSelected, PairPending, AddPending, LUI, ADDI
<1>2. goal.value \in -LoHalf .. LoHalf - 1  BY <1>1, Widths DEF IsInt12
<1>3. 0 + goal.value = goal.value  BY <1>1
<1>4. Right((0 + goal.value) % XlenMod, goal.value)  BY <1>1, <1>3, ResidueRight
<1>5. AddPending'  BY <1>1, <1>2, <1>4 DEF AddPending, ADDI
<1> QED BY <1>1, <1>5 DEF LoadInv

LEMMA SelectSimm32Step == LoadInv /\ SelectSimm32 => LoadInv'
<1> SUFFICES ASSUME LoadInv, SelectSimm32 PROVE LoadInv'  OBVIOUS
<1>1. /\ goal \in Goals /\ goal' = goal /\ rd' \in Word /\ goal.value \in Int
      /\ -Half32 <= goal.value
      /\ insts' = <<LUI(HI20(goal.value)), ADDI(LO12Sext(goal.value))>>
  BY GoalValue DEF LoadInv, SelectSimm32, IsInt32
<1>2. PairPending'  BY <1>1, PatternSplit DEF PairPending, LUI, ADDI
<1> QED BY <1>1, <1>2 DEF LoadInv

LEMMA SelectSymbolStep == LoadInv /\ SelectSymbol => LoadInv'
<1> SUFFICES ASSUME LoadInv, SelectSymbol PROVE LoadInv'  OBVIOUS
<1>1. /\ goal \in Goals /\ goal' = goal /\ rd' \in Word
      /\ goal.kind = "symbol"
      /\ insts' = <<LUI(EvaluateHi(goal.value)), ADDI(EvaluateLo(goal.value))>>
  BY DEF LoadInv, SelectSymbol
<1>2. goal.value \in Word  BY <1>1 DEF Goals
<1>3. -Half32 <= goal.value  BY <1>2, Widths DEF Word
<1>4. PairPending'  BY <1>1, <1>3 DEF PairPending, LUI, ADDI
<1> QED BY <1>1, <1>4 DEF LoadInv

LEMMA CannotLoadStep == LoadInv /\ CannotLoad => LoadInv'
  BY DEF LoadInv, CannotLoad

LEMMA ExecuteLUIStep == LoadInv /\ ExecuteLUI => LoadInv'
<1> SUFFICES ASSUME LoadInv, ExecuteLUI PROVE LoadInv'  OBVIOUS
<1> DEFINE h == EvaluateHi(goal.value)
           l == EvaluateLo(goal.value)
<1>1. /\ goal \in Goals /\ goal' = goal /\ goal.value \in Int
      /\ -Half32 <= goal.value
      /\ insts = <<LUI(h), ADDI(l)>>
      /\ rd' = SignExtend(h * Lo, Half32) % XlenMod
      /\ insts' = <<ADDI(l)>>
  BY GoalValue
  DEF LoadInv, ExecuteLUI, LuiValue, PairPending, AddPending, NotSelected, LUI, ADDI
<1>2. h \in 0 .. Hi - 1 /\ l \in -LoHalf .. LoHalf - 1  BY <1>1, FieldRange
<1>3. rd' \in Word
  <2>1. h * Lo \in Int  BY <1>2, Widths, SMTT(20)
  <2>2. SignExtend(h * Lo, Half32) \in Int  BY <2>1, Widths DEF SignExtend
  <2> QED BY <1>1, <2>2, WordRange
<1>4. Right((rd' + l) % XlenMod, goal.value)  BY <1>1, PairLoads
<1> HIDE DEF h, l
<1>5. AddPending'  BY <1>1, <1>2, <1>4 DEF AddPending, ADDI
<1> QED BY <1>1, <1>3, <1>5 DEF LoadInv

LEMMA ExecuteADDIStep == LoadInv /\ ExecuteADDI => LoadInv'
<1> SUFFICES ASSUME LoadInv, ExecuteADDI PROVE LoadInv'  OBVIOUS
<1>1. /\ goal \in Goals /\ goal' = goal /\ rd \in Word /\ insts' = <<>>
      /\ rd' = (rd + insts[1].imm) % XlenMod /\ AddPending
  BY DEF LoadInv, ExecuteADDI, PairPending, NotSelected, LUI, ADDI
<1>2. PICK i \in -LoHalf .. LoHalf - 1 :
        /\ insts = <<ADDI(i)>>
        /\ Right((rd + i) % XlenMod, goal.value)
  BY <1>1 DEF AddPending
<1>3. rd' = (rd + i) % XlenMod  BY <1>1, <1>2 DEF ADDI
<1>4. rd' \in Word
  <2>1. rd \in Int  BY <1>1, Widths DEF Word
  <2>2. rd + i \in Int  BY <2>1, Widths
  <2> QED BY <1>3, <2>2, WordRange
<1>5. Right(rd', goal'.value)  BY <1>1, <1>2, <1>3
<1> QED BY <1>1, <1>4, <1>5 DEF LoadInv

LEMMA NextLoadInv == LoadInv /\ [LNext]_lvars => LoadInv'
<1> SUFFICES ASSUME LoadInv, [LNext]_lvars PROVE LoadInv'  OBVIOUS
<1>1. CASE SelectSimm12  BY <1>1, SelectSimm12Step
<1>2. CASE SelectSimm32  BY <1>2, SelectSimm32Step
<1>3. CASE CannotLoad  BY <1>3, CannotLoadStep
<1>4. CASE SelectSymbol  BY <1>4, SelectSymbolStep
<1>5. CASE ExecuteLUI    BY <1>5, ExecuteLUIStep
<1>6. CASE ExecuteADDI   BY <1>6, ExecuteADDIStep
<1>7. CASE UNCHANGED lvars
  BY <1>7 DEF lvars, LoadInv, PairPending, AddPending
<1> QED BY <1>1, <1>2, <1>3, <1>4, <1>5, <1>6, <1>7 DEF LNext, LFinished

LEMMA LoadInvariant == LSpec => []LoadInv
<1> QED BY InitLoadInv, NextLoadInv, PTL DEF LSpec

----------------------------------------------------------------------------
\* Every emitted instruction fits its field: HI20 in 20 unsigned bits, LO12Sext in
\* 12 signed ones.
THEOREM PairFits == LSpec => []TypeOK
<1>1. LoadInv => TypeOK
  <2> SUFFICES ASSUME LoadInv PROVE TypeOK  OBVIOUS
  <2>1. goal \in Goals /\ rd \in Word /\ goal.value \in Int  BY GoalValue DEF LoadInv
  <2>2. CASE PairPending
    <3>1. LUI(EvaluateHi(goal.value)) \in LoadInstruction
          /\ ADDI(EvaluateLo(goal.value)) \in LoadInstruction
      BY <2>1, FieldRange DEF LoadInstruction, LUI, ADDI
    <3> QED BY <2>1, <2>2, <3>1 DEF TypeOK, PairPending
  <2>3. CASE AddPending
    BY <2>1, <2>3 DEF TypeOK, AddPending, LoadInstruction, ADDI
  <2>4. CASE insts = NotSelected
    BY <2>1, <2>4 DEF TypeOK, NotSelected, LoadInstruction
  <2>5. CASE insts = <<>>
    BY <2>1, <2>5 DEF TypeOK
  <2>6. CASE insts = <<[op |-> "fatal", imm |-> 0]>>
    BY <2>1, <2>6 DEF TypeOK, LoadInstruction
  <2> QED BY <2>2, <2>3, <2>4, <2>5, <2>6 DEF LoadInv
<1> QED BY <1>1, LoadInvariant, PTL

LEMMA LoadedRight == LoadInv => (Loaded => Right(rd, goal.value))
  BY DEF LoadInv, Loaded, PairPending, AddPending, NotSelected, LUI, ADDI

\* On every register width the low 32 bits of every constant and address are
\* loaded, and all bits of what LUI does not sign-extend.
THEOREM LoadsAll == LSpec => []Materialized
<1>1. LoadInv => Materialized
  BY LoadedRight DEF Materialized, Right
<1> QED BY <1>1, LoadInvariant, PTL

\* On RV32 every constant and every address is loaded.
THEOREM LoadsOnRV32 ==
  ASSUME Ext = 1  PROVE LSpec => [](Loaded => rd = goal.value % XlenMod)
<1>1. LoadInv => (Loaded => rd = goal.value % XlenMod)
  BY LoadedRight DEF Right, LuiNegative
<1> QED BY <1>1, LoadInvariant, PTL

----------------------------------------------------------------------------
(* The program of an access.                                               *)

Address == GetAddr(access.pic, access.local, access.model)
Use     == IF access.memory THEN AccessMemory(access.offset)
                            ELSE AddOffset(access.offset)
Program == Address \o Use

\* What emitInstruction makes of an instruction.
Emitted(i) == Inst(i.op, i.reg, LowerInstrOperand(i.arg).operands[1])

Ops         == {"LUI", "ADDI", "ADD", "LLA", "LA", "MEM"}
Flags       == {"MO_None", "MO_HI", "MO_LO"}
Argument    == [kind : {"imm", "global"}, what : Flags \cup {""}, val : Int]
Instruction == [op : Ops, reg : {"rd", "rc"}, arg : Argument]

\* An instruction that loads a part of the symbol's address, and its operand once
\* emitted.
Loads(op, flag, variant) ==
  LET i == Inst(op, "rd", TargetNode(flag))
  IN  i \in Instruction /\ Emitted(i) = Inst(op, "rd", Expr(variant, 0))

LEMMA Variants ==
  /\ VariantOf["MO_None"] = "VK_RISCV_None"
  /\ VariantOf["MO_HI"] = "VK_RISCV_HI"
  /\ VariantOf["MO_LO"] = "VK_RISCV_LO"
  BY DEF VariantOf

LEMMA LoweredGlobal ==
  ASSUME NEW flag \in DOMAIN VariantOf
  PROVE  LowerInstrOperand(Global(flag, 0)).operands[1] = Expr(VariantOf[flag], 0)
<1> DEFINE arg == Global(flag, 0)
<1>1. arg.kind = "global" /\ arg.what = flag /\ arg.val = 0  BY DEF Global, Operand
<1> HIDE DEF arg
<1>2. LowerSymbolOperand(arg) = Lowered(<<Expr(VariantOf[flag], 0)>>)
  BY <1>1 DEF LowerSymbolOperand, NoOffset
<1>3. LowerInstrOperand(arg) = LowerSymbolOperand(arg)
  BY <1>1 DEF LowerInstrOperand
<1>4. Lowered(<<Expr(VariantOf[flag], 0)>>).operands[1] = Expr(VariantOf[flag], 0)
  BY DEF Lowered
<1> QED BY <1>2, <1>3, <1>4 DEF arg

LEMMA EmittedGlobals ==
  /\ Loads("LLA", "MO_None", "VK_RISCV_None")
  /\ Loads("LA", "MO_None", "VK_RISCV_None")
  /\ Loads("LUI", "MO_HI", "VK_RISCV_HI")
  /\ Loads("ADDI", "MO_LO", "VK_RISCV_LO")
<1>1. ASSUME NEW op \in Ops, NEW flag \in Flags
      PROVE  Loads(op, flag, VariantOf[flag])
  <2> DEFINE arg == TargetNode(flag)
             i == Inst(op, "rd", arg)
  <2>1. arg \in Argument
    <3> DEFINE n == 0
    <3>1. n \in Int  OBVIOUS
    <3>2. flag \in Flags  OBVIOUS
    <3>3. flag \in Flags \cup {""}  BY <3>2
    <3> HIDE DEF n
    <3>4. Operand("global", flag, n) \in Argument  BY <3>1, <3>3 DEF Operand, Argument
    <3> QED BY <3>4 DEF n, TargetNode, Global
  <2>2. LowerInstrOperand(arg).operands[1] = Expr(VariantOf[flag], 0)
    <3>1. flag \in DOMAIN VariantOf  BY DEF Flags, VariantOf
    <3> QED BY <3>1, LoweredGlobal DEF TargetNode
  <2> HIDE DEF arg
  <2>3. i \in Instruction /\ i.op = op /\ i.reg = "rd" /\ i.arg = arg
    BY <1>1, <2>1 DEF Inst, Instruction
  <2> HIDE DEF i
  <2>4. Emitted(i) = Inst(op, "rd", Expr(VariantOf[flag], 0))
    BY <2>2, <2>3 DEF Emitted
  <2> QED BY <2>3, <2>4 DEF Loads, i, arg
<1> QED BY <1>1, Variants DEF Ops, Flags

LEMMA EmittedConstant ==
  ASSUME NEW op \in Ops, NEW reg \in {"rd", "rc"}, NEW n \in Int
  PROVE  LET i == Inst(op, reg, Imm(n))
         IN  i \in Instruction /\ Emitted(i) = i
<1> DEFINE arg == Imm(n)
           i == Inst(op, reg, arg)
<1>1. arg \in Argument /\ arg.kind = "imm"
  BY DEF Imm, Operand, Argument
<1> HIDE DEF arg
<1>2. LowerInstrOperand(arg) = Lowered(<<arg>>)  BY <1>1 DEF LowerInstrOperand
<1>3. Lowered(<<arg>>).operands[1] = arg  BY DEF Lowered
<1>4. i \in Instruction /\ i.op = op /\ i.reg = reg /\ i.arg = arg
  BY <1>1 DEF Inst, Instruction
<1>5. i = Inst(op, reg, arg)  OBVIOUS
<1> HIDE DEF i
<1>6. Emitted(i) = i  BY <1>2, <1>3, <1>4, <1>5 DEF Emitted
<1> QED BY <1>4, <1>6 DEF i, arg

LEMMA AddressProgram ==
  ASSUME access \in Access
  PROVE  /\ Address \in Seq(Instruction)
         /\ \/ Address = <<>> /\ Len(Address) = 0
            \/ /\ Len(Address) = 1
               /\ \/ Emitted(Address[1]) = Inst("LLA", "rd", Expr("VK_RISCV_None", 0))
                  \/ Emitted(Address[1]) = Inst("LA", "rd", Expr("VK_RISCV_None", 0))
            \/ /\ Len(Address) = 2 /\ ~access.pic /\ access.model = "small"
               /\ Emitted(Address[1]) = Inst("LUI", "rd", Expr("VK_RISCV_HI", 0))
               /\ Emitted(Address[2]) = Inst("ADDI", "rd", Expr("VK_RISCV_LO", 0))
<1> DEFINE lla  == Inst("LLA", "rd", TargetNode("MO_None"))
           la   == Inst("LA", "rd", TargetNode("MO_None"))
           lui  == Inst("LUI", "rd", TargetNode("MO_HI"))
           addi == Inst("ADDI", "rd", TargetNode("MO_LO"))
<1>1. /\ lla \in Instruction /\ la \in Instruction
      /\ lui \in Instruction /\ addi \in Instruction
  BY EmittedGlobals DEF Loads
<1>2. /\ Emitted(lla) = Inst("LLA", "rd", Expr("VK_RISCV_None", 0))
      /\ Emitted(la) = Inst("LA", "rd", Expr("VK_RISCV_None", 0))
      /\ Emitted(lui) = Inst("LUI", "rd", Expr("VK_RISCV_HI", 0))
      /\ Emitted(addi) = Inst("ADDI", "rd", Expr("VK_RISCV_LO", 0))
  BY EmittedGlobals DEF Loads
<1>3. \/ Address = <<>>
      \/ Address = <<lla>>
      \/ Address = <<la>>
      \/ ~access.pic /\ access.model = "small" /\ Address = <<lui, addi>>
  <2>1. CASE access.pic
    <3>1. Address = <<Inst(IF access.local THEN "LLA" ELSE "LA", "rd", TargetNode("MO_None"))>>
      BY <2>1 DEF Address, GetAddr
    <3> QED BY <3>1
  <2>2. CASE ~access.pic
    <3>1. Address = CASE access.model = "small"  -> <<lui, addi>>
                      [] access.model = "medium" -> <<lla>>
                      [] OTHER                   -> <<>>
      BY <2>2 DEF Address, GetAddr
    <3> HIDE DEF lla, la, lui, addi
    <3> QED BY <2>2, <3>1
  <2> QED BY <2>1, <2>2
<1> HIDE DEF lla, la, lui, addi
<1>4. CASE Address = <<>>
  <2>1. Len(Address) = 0 /\ Address \in Seq(Instruction)  BY <1>4
  <2> QED BY <1>4, <2>1
<1>5. CASE Address = <<lla>>
  <2>1. Len(Address) = 1 /\ Address[1] = lla /\ Address \in Seq(Instruction)
    BY <1>1, <1>5
  <2> QED BY <1>2, <2>1
<1>6. CASE Address = <<la>>
  <2>1. Len(Address) = 1 /\ Address[1] = la /\ Address \in Seq(Instruction)
    BY <1>1, <1>6
  <2> QED BY <1>2, <2>1
<1>7. CASE ~access.pic /\ access.model = "small" /\ Address = <<lui, addi>>
  <2>1. /\ Len(Address) = 2 /\ Address[1] = lui /\ Address[2] = addi
        /\ Address \in Seq(Instruction)
    BY <1>1, <1>7
  <2> QED BY <1>2, <1>7, <2>1
<1> QED BY <1>3, <1>4, <1>5, <1>6, <1>7

\* One instruction, or LUI and ADDI in the small code model.
LEMMA SingleAddress ==
  ASSUME access \in Access, Len(Address) = 1
  PROVE  \/ Emitted(Address[1]) = Inst("LLA", "rd", Expr("VK_RISCV_None", 0))
         \/ Emitted(Address[1]) = Inst("LA", "rd", Expr("VK_RISCV_None", 0))
  BY AddressProgram

LEMMA PairAddress ==
  ASSUME access \in Access, Len(Address) = 2
  PROVE  /\ ~access.pic /\ access.model = "small"
         /\ Emitted(Address[1]) = Inst("LUI", "rd", Expr("VK_RISCV_HI", 0))
         /\ Emitted(Address[2]) = Inst("ADDI", "rd", Expr("VK_RISCV_LO", 0))
<1> DEFINE a == Len(Address)
<1>1. a = 2 /\ a # 0 /\ a # 1  OBVIOUS
<1> QED BY <1>1, AddressProgram

\* A constant operand stays as it is.
Constant(i) == i \in Instruction /\ Emitted(i) = i

LEMMA Appended ==
  ASSUME NEW s \in Seq(Instruction), NEW e \in Instruction
  PROVE  /\ Append(s, e) \in Seq(Instruction)
         /\ Len(Append(s, e)) = Len(s) + 1
         /\ \A k \in 1 .. Len(s) : Append(s, e)[k] = s[k]
         /\ Append(s, e)[Len(s) + 1] = e
  BY AppendProperties

LEMMA UseProgram ==
  ASSUME access \in Access, IsInt32(access.offset)
  PROVE  LET n == access.offset
             m == access.memory
             large == ~IsInt12(n)
         IN  /\ Use \in Seq(Instruction)
             /\ \A k \in 1 .. Len(Use) : Emitted(Use[k]) = Use[k]
             /\ Len(Use) = (IF large THEN 3 ELSE IF n = 0 \/ m THEN 0 ELSE 1)
                             + (IF m THEN 1 ELSE 0)
             /\ large => /\ Use[1] = Inst("LUI", "rc", Imm(EvaluateHi(n)))
                         /\ Use[2] = Inst("ADDI", "rc", Imm(EvaluateLo(n)))
                         /\ Use[3] = Inst("ADD", "rd", Imm(0))
                         /\ m => Use[4] = Inst("MEM", "rd", Imm(0))
             /\ ~large /\ m => Use[1] = Inst("MEM", "rd", Imm(n))
             /\ ~large /\ ~m /\ n # 0 => Use[1] = Inst("ADDI", "rd", Imm(n))
<1> DEFINE n == access.offset
           m == access.memory
           lui  == Inst("LUI", "rc", Imm(EvaluateHi(n)))
           addi == Inst("ADDI", "rc", Imm(EvaluateLo(n)))
           add  == Inst("ADD", "rd", Imm(0))
           mem0 == Inst("MEM", "rd", Imm(0))
           memn == Inst("MEM", "rd", Imm(n))
           inc  == Inst("ADDI", "rd", Imm(n))
<1>1. n \in Int /\ m \in BOOLEAN  BY AccessAssumption DEF Access
<1>2. EvaluateHi(n) \in Int /\ EvaluateLo(n) \in Int  BY <1>1, FieldRange, Widths
<1>3. HI20(n) = EvaluateHi(n) /\ LO12Sext(n) = EvaluateLo(n)  BY <1>1, PatternSplit
<1> HIDE DEF n
<1>4. /\ Constant(lui) /\ Constant(addi) /\ Constant(add)
      /\ Constant(mem0) /\ Constant(memn) /\ Constant(inc)
  BY <1>1, <1>2, EmittedConstant DEF Constant, Ops
<1>5. AddOffset(n) = IF n = 0 THEN <<>> ELSE IF IsInt12(n) THEN <<inc>>
                     ELSE <<lui, addi, add>>
  BY <1>3 DEF AddOffset
<1>6. AccessMemory(n) = IF IsInt12(n) THEN <<memn>> ELSE Append(AddOffset(n), mem0)
  BY DEF AccessMemory
<1>7. IsInt12(0)  BY Widths DEF IsInt12
<1>8. Use = IF m THEN AccessMemory(n) ELSE AddOffset(n)  BY DEF Use, n
<1> HIDE DEF lui, addi, add, mem0, memn, inc, m
<1>9. CASE IsInt12(n)
  <2>1. CASE m
    <3>1. Use = <<memn>>  BY <1>6, <1>8, <1>9, <2>1
    <3> QED BY <1>1, <1>4, <1>9, <2>1, <3>1 DEF Constant, n, m, memn
  <2>2. CASE ~m /\ n = 0
    <3>1. Use = <<>>  BY <1>5, <1>8, <2>2
    <3> QED BY <1>1, <1>9, <2>2, <3>1 DEF n, m
  <2>3. CASE ~m /\ n # 0
    <3>1. Use = <<inc>>  BY <1>5, <1>8, <1>9, <2>3
    <3> QED BY <1>1, <1>4, <1>9, <2>3, <3>1 DEF Constant, n, m, inc
  <2> QED BY <2>1, <2>2, <2>3
<1>10. CASE ~IsInt12(n)
  <2>1. n # 0  BY <1>7, <1>10
  <2>2. CASE m
    <3>1. Use = Append(<<lui, addi, add>>, mem0)
      BY <1>5, <1>6, <1>8, <1>10, <2>1, <2>2
    <3> DEFINE t == <<lui, addi, add>>
    <3>2. /\ t \in Seq(Instruction) /\ mem0 \in Instruction
          /\ Len(t) = 3 /\ t[1] = lui /\ t[2] = addi /\ t[3] = add
      BY <1>4 DEF Constant
    <3> HIDE DEF t
    <3>3. /\ Append(t, mem0) \in Seq(Instruction) /\ Len(Append(t, mem0)) = Len(t) + 1
          /\ \A k \in 1 .. Len(t) : Append(t, mem0)[k] = t[k]
          /\ Append(t, mem0)[Len(t) + 1] = mem0
      BY <3>2, Appended
    <3>4. /\ Use \in Seq(Instruction) /\ Len(Use) = 4
          /\ Use[1] = lui /\ Use[2] = addi /\ Use[3] = add /\ Use[4] = mem0
      BY <3>1, <3>2, <3>3 DEF t
    <3>5. \A k \in 1 .. Len(Use) : Emitted(Use[k]) = Use[k]
      BY <1>4, <3>4 DEF Constant
    <3> QED BY <1>1, <1>10, <2>2, <3>4, <3>5 DEF n, m, lui, addi, add, mem0
  <2>3. CASE ~m
    <3>1. Use = <<lui, addi, add>>  BY <1>5, <1>8, <1>10, <2>1, <2>3
    <3> QED BY <1>1, <1>4, <1>10, <2>3, <3>1 DEF Constant, n, m, lui, addi, add
  <2> QED BY <2>2, <2>3
<1> QED BY <1>9, <1>10

\* Each immediate fits the field of its instruction.
LEMMA ProgramFits ==
  ASSUME access \in Access, IsInt32(access.offset)
  PROVE  /\ \A k \in 1 .. Len(Address) : FitsField(Emitted(Address[k]))
         /\ \A k \in 1 .. Len(Use) : FitsField(Emitted(Use[k]))
<1> DEFINE n == access.offset
<1>1. n \in Int  BY AccessAssumption DEF Access
<1>2. /\ EvaluateHi(n) \in 0 .. Hi - 1 /\ EvaluateLo(n) \in -LoHalf .. LoHalf - 1
  BY <1>1, FieldRange
<1>3. IsInt12(EvaluateLo(n)) /\ IsInt12(0)  BY <1>2, Widths DEF IsInt12
<1> HIDE DEF n
<1>4. \A op, reg, variant : FitsField(Inst(op, reg, Expr(variant, 0)))
  BY DEF FitsField, Inst, Expr, Operand
<1>5. \A op, reg, v : op # "LUI" /\ IsInt12(v) => FitsField(Inst(op, reg, Imm(v)))
  BY DEF FitsField, Inst, Imm, Operand
<1>6. FitsField(Inst("LUI", "rc", Imm(EvaluateHi(n))))
  BY <1>2 DEF FitsField, Inst, Imm, Operand
<1>7. ASSUME NEW k \in 1 .. Len(Address)  PROVE FitsField(Emitted(Address[k]))
  <2>1. Address # <<>>
    <3>1. Len(<<>>) = 0  OBVIOUS
    <3> QED BY <1>7, <3>1
  <2>2. CASE Len(Address) = 1
    <3>1. k = 1  BY <1>7, <2>2
    <3>2. \/ Emitted(Address[1]) = Inst("LLA", "rd", Expr("VK_RISCV_None", 0))
          \/ Emitted(Address[1]) = Inst("LA", "rd", Expr("VK_RISCV_None", 0))
      BY <2>2, SingleAddress
    <3> QED BY <1>4, <3>1, <3>2
  <2>3. CASE Len(Address) = 2
    <3>1. k = 1 \/ k = 2  BY <1>7, <2>3
    <3>2. /\ Emitted(Address[1]) = Inst("LUI", "rd", Expr("VK_RISCV_HI", 0))
          /\ Emitted(Address[2]) = Inst("ADDI", "rd", Expr("VK_RISCV_LO", 0))
      BY <2>3, PairAddress
    <3> QED BY <1>4, <3>1, <3>2
  <2> QED BY <1>7, <2>1, <2>2, <2>3, AddressProgram
<1>8. ASSUME NEW k \in 1 .. Len(Use)  PROVE FitsField(Emitted(Use[k]))
  <2>1. Emitted(Use[k]) = Use[k]  BY UseProgram
  <2>2. CASE ~IsInt12(n)
    <3>1. k = 1 \/ k = 2 \/ k = 3 \/ (k = 4 /\ access.memory)
      BY <1>8, <2>2, UseProgram DEF n
    <3>2. FitsField(Use[k])  BY <1>3, <1>5, <1>6, <2>2, <3>1, UseProgram DEF n
    <3> QED BY <2>1, <3>2
  <2>3. CASE IsInt12(n)
    <3>1. k = 1 /\ (access.memory \/ n # 0)  BY <1>8, <2>3, UseProgram DEF n
    <3>2. FitsField(Use[k])  BY <1>5, <2>3, <3>1, UseProgram DEF n
    <3> QED BY <2>1, <3>2
  <2> QED BY <2>2, <2>3
<1> QED BY <1>7, <1>8

----------------------------------------------------------------------------
(* The registers after each prefix of the program.                         *)

Regs == [rd : Word, rc : Word, ea : Word]

\* The symbol's address is loaded as the code model says.
AddressExact == ~(LuiNegative(access.symbol) /\ ~access.pic /\ access.model = "small")

IsAddress(v) == Agrees(v, access.symbol, AddressExact)
IsOffset(v)  == Agrees(v, access.offset, ~LuiNegative(access.offset))
IsTarget(v)  == Agrees(v, access.symbol + access.offset, ~Exempt)

\* After j instructions of the use.
UseHolds(r, j) ==
  IF IsInt12(access.offset)
  THEN /\ j = 0 => IsAddress(r.rd)
       /\ j = 1 => IsTarget(IF access.memory THEN r.ea ELSE r.rd)
  ELSE /\ j < 3 => IsAddress(r.rd)
       /\ j = 1 => r.rc = LuiValue(EvaluateHi(access.offset))
       /\ j = 2 => IsOffset(r.rc)
       /\ j = 3 => IsTarget(r.rd)
       /\ j = 4 => IsTarget(r.ea)

\* After d instructions of the program.
Holds(r, d) ==
  /\ d = 1 /\ Len(Address) = 2 => r.rd = LuiValue(EvaluateHi(access.symbol))
  /\ d >= Len(Address) => UseHolds(r, d - Len(Address))

LEMMA Executions ==
  ASSUME NEW r \in Regs, NEW reg \in {"rd", "rc"}, NEW arg, NEW n \in Int,
         Resolve(arg) = n
  PROVE  /\ Executed(Inst("LUI", reg, arg), r) = [r EXCEPT ![reg] = LuiValue(n)]
         /\ Executed(Inst("ADDI", reg, arg), r) = [r EXCEPT ![reg] = (@ + n) % XlenMod]
         /\ Executed(Inst("ADD", reg, arg), r) = [r EXCEPT !.rd = (@ + r.rc) % XlenMod]
         /\ Executed(Inst("LLA", reg, arg), r) = [r EXCEPT !.rd = n]
         /\ Executed(Inst("LA", reg, arg), r) = [r EXCEPT !.rd = n]
         /\ Executed(Inst("MEM", reg, arg), r) = [r EXCEPT !.ea = (r.rd + n) % XlenMod]
  BY DEF Executed, Inst

LEMMA Resolutions ==
  ASSUME access \in Access
  PROVE  /\ \A n : Resolve(Imm(n)) = n
         /\ Resolve(Expr("VK_RISCV_None", 0)) = access.symbol
         /\ Resolve(Expr("VK_RISCV_HI", 0)) = EvaluateHi(access.symbol)
         /\ Resolve(Expr("VK_RISCV_LO", 0)) = EvaluateLo(access.symbol)
<1>1. access.symbol \in Word  BY AccessAssumption DEF Access
<1>2. (access.symbol + 0) % XlenMod = access.symbol
  <2> DEFINE s == access.symbol
  <2>1. s \in 0 .. XlenMod - 1 /\ XlenMod * 0 + s = s  BY <1>1, Widths DEF Word
  <2> HIDE DEF s
  <2>2. (XlenMod * 0 + s) % XlenMod = s  BY <2>1, DivModUnique, Widths
  <2>3. s + 0 = s  BY <2>1, Widths
  <2> QED BY <2>1, <2>2, <2>3 DEF s
<1>3. \A n : Resolve(Imm(n)) = n  BY DEF Resolve, Imm, Operand
<1>4. ASSUME NEW variant
      PROVE  /\ Expr(variant, 0).kind = "expr" /\ Expr(variant, 0).what = variant
             /\ Expr(variant, 0).val = 0
  BY DEF Expr, Operand
<1>5. Resolve(Expr("VK_RISCV_None", 0)) = access.symbol
  BY <1>2, <1>4 DEF Resolve
<1>6. Resolve(Expr("VK_RISCV_HI", 0)) = EvaluateHi(access.symbol)
  BY <1>2, <1>4 DEF Resolve
<1>7. Resolve(Expr("VK_RISCV_LO", 0)) = EvaluateLo(access.symbol)
  BY <1>2, <1>4 DEF Resolve
<1> QED BY <1>3, <1>5, <1>6, <1>7

\* What a register that is set leaves of the others.
LEMMA SetRd ==
  ASSUME NEW r \in Regs, NEW v \in Word, NEW t, t = [r EXCEPT !["rd"] = v]
  PROVE  t \in Regs /\ t.rd = v
  BY DEF Regs

LEMMA SetRc ==
  ASSUME NEW r \in Regs, NEW v \in Word, NEW t, t = [r EXCEPT !["rc"] = v]
  PROVE  t \in Regs /\ t.rc = v /\ t.rd = r.rd
  BY DEF Regs

LEMMA SetEa ==
  ASSUME NEW r \in Regs, NEW v \in Word, NEW t, t = [r EXCEPT !["ea"] = v]
  PROVE  t \in Regs /\ t.ea = v
  BY DEF Regs

LEMMA SymbolWord ==
  ASSUME access \in Access
  PROVE  /\ access.symbol \in Word /\ access.symbol \in Int /\ -Half32 <= access.symbol
         /\ access.offset \in Int
<1>1. access.symbol \in Word /\ access.offset \in Int  BY AccessAssumption DEF Access
<1> DEFINE s == access.symbol
<1>2. s \in Word  BY <1>1
<1> HIDE DEF s
<1>3. s \in Int /\ -Half32 <= s  BY <1>2, Widths DEF Word
<1> QED BY <1>1, <1>3 DEF s

LEMMA HalfRanges ==
  ASSUME NEW n \in Int
  PROVE  EvaluateHi(n) \in 0 .. Hi - 1 /\ EvaluateHi(n) \in Int /\ EvaluateLo(n) \in Int
  BY FieldRange, Widths

LEMMA AgreesSame == \A n, e : Agrees(n, n, e)  BY DEF Agrees, Congruent

LEMMA AgreesWeaken ==
  ASSUME NEW v, NEW n, NEW e, NEW f, Agrees(v, n, e), f => e
  PROVE  Agrees(v, n, f)
  BY DEF Agrees

LEMMA AddressStep ==
  ASSUME access \in Access, NEW r \in Regs, NEW d \in Nat, d < Len(Address), Holds(r, d)
  PROVE  /\ Executed(Emitted(Address[d + 1]), r) \in Regs
         /\ Holds(Executed(Emitted(Address[d + 1]), r), d + 1)
<1> DEFINE s == access.symbol
           t == Executed(Emitted(Address[d + 1]), r)
<1>1. s \in Word /\ s \in Int  BY SymbolWord
<1>2. EvaluateHi(s) \in 0 .. Hi - 1 /\ EvaluateLo(s) \in Int
  BY <1>1, HalfRanges
<1>3. r.rd \in Word /\ r.rd \in Int  BY Widths DEF Regs, Word
<1>4. CASE Len(Address) = 1
  <2>1. d = 0  BY <1>4
  <2>2. \/ Emitted(Address[1]) = Inst("LLA", "rd", Expr("VK_RISCV_None", 0))
        \/ Emitted(Address[1]) = Inst("LA", "rd", Expr("VK_RISCV_None", 0))
    BY <1>4, SingleAddress
  <2>3. t = [r EXCEPT !["rd"] = s]  BY <1>1, <2>1, <2>2, Executions, Resolutions
  <2>4. t \in Regs /\ t.rd = s  BY <1>1, <2>3, SetRd
  <2> HIDE DEF t
  <2>5. IsAddress(t.rd)  BY <2>4, AgreesSame DEF IsAddress
  <2>6. UseHolds(t, 0)  BY <2>5 DEF UseHolds
  <2>7. Holds(t, 1)  BY <1>4, <2>6 DEF Holds
  <2> QED BY <2>1, <2>4, <2>7 DEF t
<1>5. CASE Len(Address) = 2 /\ d = 0
  <2>1. Emitted(Address[1]) = Inst("LUI", "rd", Expr("VK_RISCV_HI", 0))
    BY <1>5, PairAddress
  <2>2. t = [r EXCEPT !["rd"] = LuiValue(EvaluateHi(s))]
    BY <1>2, <1>5, <2>1, Executions, Resolutions, Widths
  <2>3. LuiValue(EvaluateHi(s)) \in Word  BY <1>2, LuiWord
  <2>4. t \in Regs /\ t.rd = LuiValue(EvaluateHi(s))  BY <2>2, <2>3, SetRd
  <2> HIDE DEF t
  <2>5. Holds(t, 1)  BY <1>5, <2>4 DEF Holds
  <2> QED BY <1>5, <2>4, <2>5 DEF t
<1>6. CASE Len(Address) = 2 /\ d = 1
  <2>1. /\ Emitted(Address[2]) = Inst("ADDI", "rd", Expr("VK_RISCV_LO", 0))
        /\ ~access.pic /\ access.model = "small"
    BY <1>6, PairAddress
  <2> DEFINE v == (r.rd + EvaluateLo(s)) % XlenMod
  <2>2. t = [r EXCEPT !["rd"] = v]
    <3>1. t = [r EXCEPT !["rd"] = (@ + EvaluateLo(s)) % XlenMod]
      BY <1>2, <1>6, <2>1, Executions, Resolutions
    <3> QED BY <3>1 DEF Regs
  <2>3. v \in Word  BY <1>2, <1>3, WordRange
  <2>4. r.rd = LuiValue(EvaluateHi(s))  BY <1>6 DEF Holds
  <2>5. -Half32 <= s  BY SymbolWord
  <2>6. Agrees(v, s, ~LuiNegative(s))  BY <1>1, <2>4, <2>5, AgreesPair
  <2> HIDE DEF v
  <2>7. t \in Regs /\ t.rd = v  BY <2>2, <2>3, SetRd
  <2> HIDE DEF t
  <2>8. IsAddress(t.rd)
    <3>1. AddressExact => ~LuiNegative(s)  BY <2>1 DEF AddressExact
    <3> QED BY <2>6, <2>7, <3>1, AgreesWeaken DEF IsAddress
  <2>9. UseHolds(t, 0)  BY <2>8 DEF UseHolds
  <2>10. Holds(t, 2)  BY <1>6, <2>9 DEF Holds
  <2> QED BY <1>6, <2>7, <2>10 DEF t
<1> QED BY <1>4, <1>5, <1>6, AddressProgram

LEMMA UseStep ==
  ASSUME access \in Access, IsInt32(access.offset),
         NEW r \in Regs, NEW j \in Nat, j < Len(Use), UseHolds(r, j)
  PROVE  /\ Executed(Emitted(Use[j + 1]), r) \in Regs
         /\ UseHolds(Executed(Emitted(Use[j + 1]), r), j + 1)
<1> DEFINE s == access.symbol
           n == access.offset
           t == Executed(Use[j + 1], r)
<1>1. s \in Int /\ n \in Int  BY SymbolWord
<1>2. /\ EvaluateHi(n) \in 0 .. Hi - 1 /\ EvaluateHi(n) \in Int
      /\ EvaluateLo(n) \in Int
  BY <1>1, HalfRanges
<1>3. r.rd \in Int /\ r.rc \in Int  BY Widths DEF Regs, Word
<1>4. Emitted(Use[j + 1]) = Use[j + 1]  BY UseProgram
<1>5. ASSUME NEW v \in Int, NEW a \in Int, IsAddress(v), IsInt12(n), a = n
      PROVE  IsTarget((v + a) % XlenMod)
  <2>1. Agrees(v, s, AddressExact) /\ Agrees(a, n, TRUE)
    BY <1>5, AgreesSame DEF IsAddress
  <2>2. Agrees((v + a) % XlenMod, s + n, AddressExact /\ TRUE)
    BY <1>1, <1>5, <2>1, AgreesAdd
  <2>3. ~Exempt => AddressExact /\ TRUE  BY DEF Exempt, AddressExact
  <2> QED BY <2>2, <2>3, AgreesWeaken DEF IsTarget
<1>6. CASE IsInt12(n)
  <2>1. j = 0 /\ (access.memory \/ n # 0)  BY <1>6, UseProgram
  <2>2. IsAddress(r.rd)  BY <1>6, <2>1 DEF UseHolds
  <2> DEFINE v == (r.rd + n) % XlenMod
  <2>3. v \in Word /\ IsTarget(v)  BY <1>1, <1>3, <1>5, <1>6, <2>2, WordRange
  <2>4. CASE access.memory
    <3>1. Use[1] = Inst("MEM", "rd", Imm(n))  BY <1>6, <2>4, UseProgram
    <3>2. t = [r EXCEPT !["ea"] = v]  BY <1>1, <2>1, <3>1, Executions, Resolutions
    <3> HIDE DEF v
    <3>3. t \in Regs /\ t.ea = v  BY <2>3, <3>2, SetEa
    <3> HIDE DEF t
    <3>4. UseHolds(t, 1)  BY <1>6, <2>3, <2>4, <3>3 DEF UseHolds
    <3> QED BY <1>4, <2>1, <3>3, <3>4 DEF t
  <2>5. CASE ~access.memory
    <3>1. Use[1] = Inst("ADDI", "rd", Imm(n))  BY <1>6, <2>1, <2>5, UseProgram
    <3>2. t = [r EXCEPT !["rd"] = v]
      <4>1. t = [r EXCEPT !["rd"] = (@ + n) % XlenMod]
        BY <1>1, <2>1, <3>1, Executions, Resolutions
      <4> QED BY <4>1 DEF Regs
    <3> HIDE DEF v
    <3>3. t \in Regs /\ t.rd = v  BY <2>3, <3>2, SetRd
    <3> HIDE DEF t
    <3>4. UseHolds(t, 1)  BY <1>6, <2>3, <2>5, <3>3 DEF UseHolds
    <3> QED BY <1>4, <2>1, <3>3, <3>4 DEF t
  <2> QED BY <2>4, <2>5
<1>7. CASE ~IsInt12(n) /\ j = 0
  <2> DEFINE v == LuiValue(EvaluateHi(n))
  <2>1. Use[1] = Inst("LUI", "rc", Imm(EvaluateHi(n)))  BY <1>7, UseProgram
  <2>2. t = [r EXCEPT !["rc"] = v]
    BY <1>2, <1>7, <2>1, Executions, Resolutions
  <2>3. v \in Word  BY <1>2, LuiWord
  <2> HIDE DEF v
  <2>4. t \in Regs /\ t.rc = v /\ t.rd = r.rd  BY <2>2, <2>3, SetRc
  <2>5. IsAddress(r.rd)  BY <1>7 DEF UseHolds
  <2> HIDE DEF t
  <2>6. UseHolds(t, 1)  BY <1>7, <2>4, <2>5 DEF UseHolds, v
  <2> QED BY <1>4, <1>7, <2>4, <2>6 DEF t
<1>8. CASE ~IsInt12(n) /\ j = 1
  <2> DEFINE v == (r.rc + EvaluateLo(n)) % XlenMod
  <2>1. Use[2] = Inst("ADDI", "rc", Imm(EvaluateLo(n)))  BY <1>8, UseProgram
  <2>2. t = [r EXCEPT !["rc"] = v]
    <3>1. t = [r EXCEPT !["rc"] = (@ + EvaluateLo(n)) % XlenMod]
      BY <1>2, <1>8, <2>1, Executions, Resolutions
    <3> QED BY <3>1 DEF Regs
  <2>3. v \in Word  BY <1>2, <1>3, WordRange
  <2>4. r.rc = LuiValue(EvaluateHi(n)) /\ IsAddress(r.rd)  BY <1>8 DEF UseHolds
  <2>5. -Half32 <= n  BY DEF IsInt32
  <2>6. IsOffset(v)  BY <1>1, <2>4, <2>5, AgreesPair DEF IsOffset
  <2> HIDE DEF v
  <2>7. t \in Regs /\ t.rc = v /\ t.rd = r.rd  BY <2>2, <2>3, SetRc
  <2> HIDE DEF t
  <2>8. UseHolds(t, 2)  BY <1>8, <2>4, <2>6, <2>7 DEF UseHolds
  <2> QED BY <1>4, <1>8, <2>7, <2>8 DEF t
<1>9. CASE ~IsInt12(n) /\ j = 2
  <2> DEFINE v == (r.rd + r.rc) % XlenMod
  <2>1. Use[3] = Inst("ADD", "rd", Imm(0))  BY <1>9, UseProgram
  <2>2. t = [r EXCEPT !["rd"] = v]
    <3>1. t = [r EXCEPT !.rd = (@ + r.rc) % XlenMod]
      BY <1>9, <2>1, Executions, Resolutions
    <3> QED BY <3>1 DEF Regs
  <2>3. v \in Word  BY <1>3, WordRange
  <2>4. IsAddress(r.rd) /\ IsOffset(r.rc)  BY <1>9 DEF UseHolds
  <2>5. IsTarget(v)
    <3>1. Agrees(v, s + n, AddressExact /\ ~LuiNegative(n))
      BY <1>1, <1>3, <2>4, AgreesAdd DEF IsAddress, IsOffset
    <3>2. ~Exempt => AddressExact /\ ~LuiNegative(n)
      BY <1>9 DEF Exempt, AddressExact
    <3> HIDE DEF v
    <3> QED BY <3>1, <3>2, AgreesWeaken DEF IsTarget
  <2> HIDE DEF v
  <2>6. t \in Regs /\ t.rd = v  BY <2>2, <2>3, SetRd
  <2> HIDE DEF t
  <2>7. UseHolds(t, 3)  BY <1>9, <2>5, <2>6 DEF UseHolds
  <2> QED BY <1>4, <1>9, <2>6, <2>7 DEF t
<1>10. CASE ~IsInt12(n) /\ j = 3
  <2> DEFINE v == (r.rd + 0) % XlenMod
  <2>1. Use[4] = Inst("MEM", "rd", Imm(0))  BY <1>10, UseProgram
  <2>2. t = [r EXCEPT !["ea"] = v]  BY <1>10, <2>1, Executions, Resolutions
  <2>3. v \in Word  BY <1>3, WordRange
  <2>4. IsTarget(r.rd)  BY <1>10 DEF UseHolds
  <2>5. IsTarget(v)
    <3>1. r.rd + 0 = r.rd  BY <1>3
    <3>2. v % XlenMod = r.rd % XlenMod /\ v % Pow32 = r.rd % Pow32
      BY <1>3, <3>1, ModXlen
    <3> HIDE DEF v
    <3> QED BY <2>4, <3>2 DEF IsTarget, Agrees, Congruent
  <2> HIDE DEF v
  <2>6. t \in Regs /\ t.ea = v  BY <2>2, <2>3, SetEa
  <2> HIDE DEF t
  <2>7. UseHolds(t, 4)  BY <1>10, <2>5, <2>6 DEF UseHolds
  <2> QED BY <1>4, <1>10, <2>6, <2>7 DEF t
<1>11. CASE ~IsInt12(n)
  <2>1. j = 0 \/ j = 1 \/ j = 2 \/ j = 3  BY <1>11, UseProgram
  <2> QED BY <1>7, <1>8, <1>9, <1>10, <1>11, <2>1
<1> QED BY <1>6, <1>11

\* After the whole use the register that is meant holds the address.
LEMMA UseEnd ==
  ASSUME access \in Access, IsInt32(access.offset), NEW r \in Regs, UseHolds(r, Len(Use))
  PROVE  IsTarget(IF access.memory THEN r.ea ELSE r.rd)
<1> DEFINE s == access.symbol
           n == access.offset
<1>1. s \in Int /\ n \in Int  BY SymbolWord
<1>2. CASE IsInt12(n) /\ ~access.memory /\ n = 0
  <2>1. Len(Use) = 0  BY <1>2, UseProgram
  <2>2. IsAddress(r.rd)  BY <1>2, <2>1 DEF UseHolds
  <2>3. s + n = s /\ (~Exempt => AddressExact)  BY <1>1, <1>2 DEF Exempt, AddressExact
  <2> QED BY <1>2, <2>2, <2>3, AgreesWeaken DEF IsAddress, IsTarget
<1>3. CASE IsInt12(n) /\ (access.memory \/ n # 0)
  <2>1. Len(Use) = 1  BY <1>3, UseProgram
  <2> QED BY <1>3, <2>1 DEF UseHolds
<1>4. CASE ~IsInt12(n)
  <2>1. Len(Use) = IF access.memory THEN 4 ELSE 3  BY <1>4, UseProgram
  <2> QED BY <1>4, <2>1 DEF UseHolds
<1> QED BY <1>2, <1>3, <1>4

LEMMA ProgramParts ==
  ASSUME access \in Access, IsInt32(access.offset)
  PROVE  /\ Program \in Seq(Instruction)
         /\ Len(Program) = Len(Address) + Len(Use)
         /\ Len(Address) \in Nat /\ Len(Use) \in Nat
         /\ \A k \in 1 .. Len(Program) :
              Program[k] = IF k <= Len(Address) THEN Address[k] ELSE Use[k - Len(Address)]
<1>1. Address \in Seq(Instruction) /\ Use \in Seq(Instruction)
  BY AddressProgram, UseProgram
<1>2. Len(Address) \in Nat /\ Len(Use) \in Nat  BY <1>1
<1> QED BY <1>1, <1>2, ConcatProperties DEF Program

LEMMA ProgramStep ==
  ASSUME access \in Access, IsInt32(access.offset),
         NEW r \in Regs, NEW d \in Nat, d < Len(Program), Holds(r, d)
  PROVE  /\ Executed(Emitted(Program[d + 1]), r) \in Regs
         /\ Holds(Executed(Emitted(Program[d + 1]), r), d + 1)
<1>1. d + 1 \in 1 .. Len(Program)  BY ProgramParts
<1>2. CASE d < Len(Address)
  <2>1. Program[d + 1] = Address[d + 1]  BY <1>1, <1>2, ProgramParts
  <2> QED BY <1>2, <2>1, AddressStep
<1>3. CASE ~(d < Len(Address))
  <2> DEFINE j == d - Len(Address)
             t == Executed(Emitted(Use[j + 1]), r)
  <2>1. j \in Nat /\ j < Len(Use) /\ d = Len(Address) + j  BY <1>3, ProgramParts
  <2>2. UseHolds(r, j)  BY <1>3, ProgramParts DEF Holds
  <2>3. Program[d + 1] = Use[j + 1]
    <3>1. ~(d + 1 <= Len(Address)) /\ (d + 1) - Len(Address) = j + 1
      BY <1>3, ProgramParts
    <3>2. Program[d + 1] = Use[(d + 1) - Len(Address)]  BY <1>1, <3>1, ProgramParts
    <3> QED BY <3>1, <3>2
  <2> HIDE DEF j
  <2>4. t \in Regs /\ UseHolds(t, j + 1)  BY <2>1, <2>2, UseStep
  <2> HIDE DEF t
  <2>5. Holds(t, d + 1)
    <3> DEFINE a == Len(Address)
    <3>1. a \in Nat /\ d = a + j /\ j \in Nat  BY <2>1, ProgramParts
    <3> HIDE DEF a
    <3>2. (d + 1) - a = j + 1 /\ ~(d + 1 = 1 /\ a = 2)  BY <3>1
    <3> QED BY <2>4, <3>2 DEF Holds, a
  <2> QED BY <2>3, <2>4, <2>5 DEF t
<1> QED BY <1>2, <1>3

LEMMA FieldsFit ==
  ASSUME access \in Access, IsInt32(access.offset), NEW k \in 1 .. Len(Program)
  PROVE  FitsField(Emitted(Program[k]))
<1>1. CASE k <= Len(Address)
  <2>1. k \in 1 .. Len(Address) /\ Program[k] = Address[k]  BY <1>1, ProgramParts
  <2> QED BY <2>1, ProgramFits
<1>2. CASE ~(k <= Len(Address))
  <2>1. k - Len(Address) \in 1 .. Len(Use) /\ Program[k] = Use[k - Len(Address)]
    BY <1>2, ProgramParts
  <2> QED BY <2>1, ProgramFits
<1> QED BY <1>1, <1>2

----------------------------------------------------------------------------
(* The invariant.                                                          *)

EmittedInstruction == {Emitted(i) : i \in Instruction}

\* The number of instructions that have run.
Ran == Len(Program) - Len(asm)

Lowering ==
  /\ stage \in {"node", "fatal"} => asm = <<>>
  /\ stage = "address" => code = Address /\ Address # <<>> /\ asm = <<>>

Emission ==
  stage = "selected" =>
    /\ IsInt32(access.offset) /\ Address # <<>>
    /\ Len(asm) + Len(code) = Len(Program)
    /\ \A k \in 1 .. Len(asm) : asm[k] = Emitted(Program[k])
    /\ \A k \in 1 .. Len(code) : code[k] = Program[Len(asm) + k]

Execution ==
  stage = "linked" =>
    /\ IsInt32(access.offset)
    /\ Ran \in Nat
    /\ \A k \in 1 .. Len(asm) : asm[k] = Emitted(Program[Ran + k])
    /\ Holds(regs, Ran)

Completion ==
  stage = "done" => asm = <<>> /\ IsTarget(regs.ea)

IInv ==
  /\ access \in Access /\ regs \in Regs
  /\ stage \in {"node", "address", "selected", "linked", "done", "fatal"}
  /\ code \in Seq(Instruction) /\ asm \in Seq(EmittedInstruction)
  /\ Lowering /\ Emission /\ Execution /\ Completion

\* What holds of the program of an access holds after a step of the same access.
LEMMA Rigid ==
  ASSUME access' = access
  PROVE  /\ Address' = Address /\ Use' = Use /\ Program' = Program
         /\ (Holds(regs, Ran))' <=> Holds(regs', Ran')
         /\ (IsTarget(regs.ea))' <=> IsTarget(regs'.ea)
<1>1. Address' = Address /\ Use' = Use  BY DEF Address, Use
<1>2. Program' = Program  BY <1>1 DEF Program
<1>3. (IsTarget(regs.ea))' <=> IsTarget(regs'.ea)  BY DEF IsTarget, Exempt
<1>4. (Holds(regs, Ran))' <=> Holds(regs', Ran')
  BY <1>1 DEF Holds, UseHolds, IsAddress, IsOffset, IsTarget, Exempt, AddressExact
<1> QED BY <1>1, <1>2, <1>3, <1>4

LEMMA Initially == Init => IInv
<1> HAVE Init
<1>1. 0 \in Word  BY Widths DEF Word
<1>2. regs \in Regs  BY <1>1 DEF Init, Regs
<1> QED BY <1>2 DEF Init, IInv, Lowering, Emission, Execution, Completion

LEMMA Preserved == IInv /\ [Next]_vars => IInv'
<1> SUFFICES ASSUME IInv, [Next]_vars  PROVE IInv'
  OBVIOUS
<1> USE DEF IInv
<1>1. CASE LowerGlobalAddress
  <2>1. access' = access /\ code' = Address /\ asm = <<>> /\ asm' = <<>>
    BY <1>1 DEF LowerGlobalAddress, Lowering, Address
  <2>2. Address \in Seq(Instruction)  BY AddressProgram
  <2>3. Address' = Address  BY <2>1, Rigid
  <2>4. \/ stage' = "fatal"
        \/ stage' = "address" /\ Address # <<>>
    BY <1>1, <2>1 DEF LowerGlobalAddress
  <2>5. regs' = regs  BY <1>1 DEF LowerGlobalAddress
  <2> QED BY <2>1, <2>2, <2>3, <2>4, <2>5
       DEF Lowering, Emission, Execution, Completion
<1>2. CASE SelectUse
  <2>1. /\ access' = access /\ regs' = regs /\ asm' = <<>>
        /\ stage' = "selected" /\ IsInt32(access.offset) /\ Address # <<>>
    BY <1>2 DEF SelectUse, Lowering
  <2>2. code' = Program
    BY <1>2 DEF SelectUse, Lowering, Program, Use
  <2>3. Program \in Seq(Instruction)  BY <2>1, ProgramParts
  <2>4. Address' = Address /\ Program' = Program  BY <2>1, Rigid
  <2>5. Emission'
    <3> DEFINE p == Program
    <3>1. p \in Seq(Instruction) /\ Len(<<>>) = 0  BY <2>3
    <3>2. code' = p /\ Program' = p /\ asm' = <<>>  BY <2>1, <2>2, <2>4
    <3> HIDE DEF p
    <3>3. /\ Len(asm') + Len(code') = Len(p)
          /\ \A k \in 1 .. Len(asm') : asm'[k] = Emitted(p[k])
          /\ \A k \in 1 .. Len(code') : code'[k] = p[Len(asm') + k]
      BY <3>1, <3>2
    <3> QED BY <2>1, <2>4, <3>2, <3>3 DEF Emission
  <2> QED BY <2>1, <2>2, <2>3, <2>5 DEF Lowering, Execution, Completion
<1>3. CASE CannotSelect
  <2>1. /\ access' = access /\ regs' = regs /\ asm' = asm /\ asm = <<>>
        /\ stage' = "fatal" /\ code' = code
    BY <1>3 DEF CannotSelect, Lowering
  <2> QED BY <2>1 DEF Lowering, Emission, Execution, Completion
<1>4. CASE EmitInstruction
  <2> DEFINE e == Emitted(Head(code))
             p == Program
  <2>1. /\ access' = access /\ regs' = regs /\ stage = "selected" /\ stage' = "selected"
        /\ code # <<>> /\ code' = Tail(code) /\ asm' = Append(asm, e)
    BY <1>4 DEF EmitInstruction, Emitted
  <2>2. /\ Head(code) \in Instruction /\ Head(code) = code[1]
        /\ Len(code) \in Nat /\ Len(code) > 0
    BY <2>1
  <2>3. e \in EmittedInstruction  BY <2>2 DEF EmittedInstruction
  <2>4. /\ code' \in Seq(Instruction) /\ Len(code') = Len(code) - 1
        /\ \A k \in 1 .. Len(code') : code'[k] = code[k + 1]
    BY <2>1, HeadTailProperties
  <2>5. /\ IsInt32(access.offset) /\ Address # <<>>
        /\ Len(asm) + Len(code) = Len(p)
        /\ \A k \in 1 .. Len(asm) : asm[k] = Emitted(p[k])
        /\ \A k \in 1 .. Len(code) : code[k] = p[Len(asm) + k]
    BY <2>1 DEF Emission
  <2>6. Address' = Address /\ Program' = p  BY <2>1, Rigid
  <2>7. e = Emitted(p[Len(asm) + 1])
    <3>1. 1 \in 1 .. Len(code)  BY <2>2
    <3> QED BY <2>2, <2>5, <3>1
  <2> HIDE DEF e, p
  <2>8. /\ asm' \in Seq(EmittedInstruction) /\ Len(asm') = Len(asm) + 1
        /\ \A k \in 1 .. Len(asm) : asm'[k] = asm[k]
        /\ asm'[Len(asm) + 1] = e
    BY <2>1, <2>3, AppendProperties
  <2>9. Len(asm) \in Nat  OBVIOUS
  <2>10. Len(asm') + Len(code') = Len(p)
    <3>1. /\ Len(asm') = Len(asm) + 1 /\ Len(code') = Len(code) - 1
          /\ Len(asm) \in Nat /\ Len(code) \in Nat
      BY <2>2, <2>4, <2>8, <2>9
    <3> QED BY <2>5, <3>1
  <2>11. \A k \in 1 .. Len(asm') : asm'[k] = Emitted(p[k])
    BY <2>5, <2>7, <2>8, <2>9
  <2>12. ASSUME NEW k \in 1 .. Len(code')  PROVE code'[k] = p[Len(asm') + k]
    <3>1. k + 1 \in 1 .. Len(code) /\ Len(asm) + (k + 1) = Len(asm') + k
      BY <2>2, <2>4, <2>8, <2>9
    <3> QED BY <2>4, <2>5, <3>1
  <2>13. Emission'  BY <2>1, <2>5, <2>6, <2>10, <2>11, <2>12 DEF Emission
  <2> QED BY <2>1, <2>4, <2>8, <2>13 DEF Lowering, Execution, Completion
<1>5. CASE Link
  <2>1. /\ access' = access /\ regs' = regs /\ stage = "selected" /\ stage' = "linked"
        /\ code = <<>> /\ code' = code /\ asm' = asm
    BY <1>5 DEF Link
  <2>2. /\ IsInt32(access.offset) /\ Address # <<>>
        /\ Len(asm) + Len(code) = Len(Program)
        /\ \A k \in 1 .. Len(asm) : asm[k] = Emitted(Program[k])
    BY <2>1 DEF Emission
  <2>3. Len(asm) \in Nat /\ Len(code) = 0  BY <2>1
  <2>4. Program' = Program /\ ((Holds(regs, Ran))' <=> Holds(regs', Ran'))
    BY <2>1, Rigid
  <2>5. Ran' = 0  BY <2>1, <2>2, <2>3, <2>4 DEF Ran
  <2>6. Holds(regs', 0)
    <3>1. Len(Address) \in Nat /\ Len(Address) # 0  BY <2>2, AddressProgram
    <3>2. ~(0 >= Len(Address))  BY <3>1
    <3> QED BY <3>2 DEF Holds
  <2>7. \A k \in 1 .. Len(asm) : asm[k] = Emitted(Program[0 + k])  BY <2>2, <2>3
  <2>8. Execution'  BY <2>1, <2>2, <2>4, <2>5, <2>6, <2>7 DEF Execution
  <2> QED BY <2>1, <2>8 DEF Lowering, Emission, Completion
<1>6. CASE Run
  <2> DEFINE i == Head(asm)
             p == Program
  <2>1. /\ access' = access /\ stage = "linked" /\ stage' = "linked" /\ code' = code
        /\ asm # <<>> /\ asm' = Tail(asm) /\ regs' = Executed(i, regs)
    BY <1>6 DEF Run
  <2>2. i = asm[1] /\ Len(asm) \in Nat /\ Len(asm) > 0  BY <2>1
  <2>3. /\ asm' \in Seq(EmittedInstruction) /\ Len(asm') = Len(asm) - 1
        /\ \A k \in 1 .. Len(asm') : asm'[k] = asm[k + 1]
    BY <2>1, HeadTailProperties
  <2>4. /\ IsInt32(access.offset) /\ Ran \in Nat /\ Holds(regs, Ran)
        /\ \A k \in 1 .. Len(asm) : asm[k] = Emitted(p[Ran + k])
    BY <2>1 DEF Execution
  <2>5. Program' = p /\ ((Holds(regs, Ran))' <=> Holds(regs', Ran'))  BY <2>1, Rigid
  <2>6. Len(p) \in Nat  BY <2>4, ProgramParts
  <2>7. i = Emitted(p[Ran + 1])
    <3>1. 1 \in 1 .. Len(asm)  BY <2>2
    <3> QED BY <2>2, <2>4, <3>1
  <2>8. Ran' = Ran + 1 /\ Ran < Len(p)  BY <2>2, <2>3, <2>4, <2>5, <2>6 DEF Ran
  <2>9. regs' \in Regs /\ Holds(regs', Ran + 1)
    BY <2>1, <2>4, <2>7, <2>8, ProgramStep
  <2> HIDE DEF i, p
  <2>10. ASSUME NEW k \in 1 .. Len(asm')  PROVE asm'[k] = Emitted(p[Ran' + k])
    <3>1. k + 1 \in 1 .. Len(asm) /\ Ran + (k + 1) = Ran' + k
      BY <2>2, <2>3, <2>4, <2>8
    <3> QED BY <2>3, <2>4, <3>1
  <2>11. Execution'
    <3>1. Ran' \in Nat /\ (Holds(regs, Ran))'  BY <2>4, <2>5, <2>8, <2>9
    <3> QED BY <2>1, <2>4, <2>5, <2>10, <3>1 DEF Execution
  <2> QED BY <2>1, <2>3, <2>9, <2>11 DEF Lowering, Emission, Completion
<1>7. CASE Complete
  <2>1. /\ access' = access /\ stage = "linked" /\ stage' = "done" /\ code' = code
        /\ asm = <<>> /\ asm' = asm
        /\ regs' = IF access.memory THEN regs ELSE [regs EXCEPT !.ea = regs.rd]
    BY <1>7 DEF Complete
  <2>2. IsInt32(access.offset) /\ Holds(regs, Ran)  BY <2>1 DEF Execution
  <2>3. UseHolds(regs, Len(Use))
    <3> DEFINE a == Len(Address)
               u == Len(Use)
    <3>1. a \in Nat /\ u \in Nat /\ Ran = a + u
      BY <2>1, <2>2, ProgramParts DEF Ran
    <3> HIDE DEF a, u
    <3>2. Ran >= a /\ Ran - a = u  BY <3>1
    <3> QED BY <2>2, <3>2 DEF Holds, a, u
  <2>4. IsTarget(IF access.memory THEN regs.ea ELSE regs.rd)  BY <2>2, <2>3, UseEnd
  <2>5. regs' \in Regs /\ IsTarget(regs'.ea)
    <3>1. CASE access.memory  BY <2>1, <2>4, <3>1
    <3>2. CASE ~access.memory
      <4>1. regs' = [regs EXCEPT !["ea"] = regs.rd] /\ regs.rd \in Word
        BY <2>1, <3>2 DEF Regs
      <4>2. regs' \in Regs /\ regs'.ea = regs.rd  BY <4>1, SetEa
      <4> QED BY <2>4, <3>2, <4>2
    <3> QED BY <3>1, <3>2
  <2>6. (IsTarget(regs.ea))'  BY <2>1, <2>5, Rigid
  <2>7. Completion'  BY <2>1, <2>6 DEF Completion
  <2> QED BY <2>1, <2>5, <2>7 DEF Lowering, Emission, Execution
<1>8. CASE UNCHANGED vars
  <2>1. /\ access' = access /\ stage' = stage /\ code' = code /\ asm' = asm
        /\ regs' = regs
    BY <1>8 DEF vars
  <2>2. Address' = Address /\ Program' = Program /\ Ran' = Ran
    BY <2>1, Rigid DEF Ran
  <2>3. /\ (Holds(regs, Ran))' <=> Holds(regs, Ran)
        /\ (IsTarget(regs.ea))' <=> IsTarget(regs.ea)
    BY <2>1, <2>2, Rigid
  <2> QED BY <2>1, <2>2, <2>3 DEF Lowering, Emission, Execution, Completion
<1> QED BY <1>1, <1>2, <1>3, <1>4, <1>5, <1>6, <1>7, <1>8 DEF Next, Finished

LEMMA Enough == IInv => AddressReached
<1> SUFFICES ASSUME IInv  PROVE AddressReached
  OBVIOUS
<1> USE DEF IInv
<1>1. ASSUME NEW k \in DOMAIN asm  PROVE FitsField(asm[k])
  <2>1. k \in 1 .. Len(asm) /\ Len(asm) \in Nat  OBVIOUS
  <2>2. asm # <<>>
    <3>1. Len(<<>>) = 0  OBVIOUS
    <3> QED BY <2>1, <3>1
  <2>3. CASE stage = "selected"
    <3>1. k \in 1 .. Len(Program)  BY <2>1, <2>3, ProgramParts DEF Emission
    <3> QED BY <2>1, <2>3, <3>1, FieldsFit DEF Emission
  <2>4. CASE stage = "linked"
    <3>1. Ran + k \in 1 .. Len(Program)  BY <2>1, <2>4, ProgramParts DEF Execution, Ran
    <3> QED BY <2>1, <2>4, <3>1, FieldsFit DEF Execution
  <2> QED BY <2>2, <2>3, <2>4 DEF Lowering, Completion
<1>2. ASSUME stage = "done"
      PROVE  LET wanted == access.symbol + access.offset
             IN  /\ regs.ea % Pow32 = wanted % Pow32
                 /\ ~Exempt => regs.ea = wanted % XlenMod
  <2> DEFINE w == access.symbol + access.offset
             v == regs.ea
  <2>1. v \in Word  BY DEF Regs
  <2>2. w \in Int  BY SymbolWord
  <2>3. Agrees(v, w, ~Exempt)  BY <1>2 DEF Completion, IsTarget
  <2>4. v % Pow32 = w % Pow32 /\ (~Exempt => v = w % XlenMod)
    <3> HIDE DEF v, w
    <3>1. CASE Exempt  BY <2>3, <3>1 DEF Agrees, Congruent
    <3>2. CASE ~Exempt
      <4>1. Agrees(v, w, TRUE)  BY <2>3, <3>2 DEF Agrees
      <4> QED BY <2>1, <2>2, <4>1, AgreesWord
    <3> QED BY <3>1, <3>2
  <2> QED BY <2>4
<1> QED BY <1>1, <1>2 DEF AddressReached

\* Whatever the widths, the addresses and the offsets, an access whose program runs
\* to its end is to symbol + offset, but for what the pairs of LUI and ADDI cannot
\* load in the upper bits, and all its immediates can be encoded: getAddr, the simm32
\* pattern, LdPat and StPat, and the operands' modifiers fit together.
THEOREM Reaches == Spec => []AddressReached
<1>1. Init => IInv  BY Initially
<1>2. IInv /\ [Next]_vars => IInv'  BY Preserved
<1>3. IInv => AddressReached  BY Enough
<1> QED BY <1>1, <1>2, <1>3, PTL DEF Spec
=============================================================================
