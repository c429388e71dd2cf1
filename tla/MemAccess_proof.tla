-------------------------- MODULE MemAccess_proof --------------------------
(***************************************************************************)
(* MemAccess implements TypedMemory, for every memory, every byte and all  *)
(* values, but for the aligned access of eight bytes on RV64.              *)
(*                                                                         *)
(* Between legalisation and completion the invariant says which bytes the  *)
(* pieces that are done have moved: each byte belongs to one piece, and so *)
(* does each byte that an extension adds.                                  *)
(***************************************************************************)
EXTENDS MemAccess, TLAPS

----------------------------------------------------------------------------
(* The pieces of an access.                                                *)

Sizes == {1, 2, 4, 8}

\* The offsets of the pieces of `width` bytes in pieces of p bytes.
Offsets(width, p) == {k * p : k \in 0 .. width \div p - 1}

LEMMA Quotients ==
  ASSUME NEW w \in Sizes, NEW p \in Sizes, p <= w
  PROVE  w \div p \in 1 .. 8 /\ (w \div p) * p = w
<1>1. CASE p = 1  BY <1>1 DEF Sizes
<1>2. CASE p = 2  BY <1>2 DEF Sizes
<1>3. CASE p = 4  BY <1>3 DEF Sizes
<1>4. CASE p = 8  BY <1>4 DEF Sizes
<1> QED BY <1>1, <1>2, <1>3, <1>4 DEF Sizes

\* Pieces do not overlap, cover the access and lie in it.
LEMMA PiecesTile ==
  ASSUME NEW w \in Sizes, NEW p \in Sizes, p <= w
  PROVE  /\ \A o \in Offsets(w, p) : o \in 0 .. 7 /\ o + p <= w
         /\ \A o, q \in Offsets(w, p) : o < q => o + p <= q
         /\ \A i \in 0 .. w - 1 : \E o \in Offsets(w, p) : i \in o .. o + p - 1
         /\ w - p \in Offsets(w, p)
<1> DEFINE n == w \div p
<1>1. n \in 1 .. 8 /\ n * p = w /\ w \in Nat /\ w <= 8  BY Quotients DEF Sizes
<1> HIDE DEF n
<1>2. \A o : o \in Offsets(w, p) <=> \E k \in 0 .. n - 1 : o = k * p
  BY DEF Offsets, n
<1>3. \A i \in 0 .. w - 1 : i \div p \in 0 .. n - 1 /\ i \in (i \div p) * p .. (i \div p) * p + p - 1
  <2>1. CASE p = 1  BY <1>1, <2>1
  <2>2. CASE p = 2  BY <1>1, <2>2
  <2>3. CASE p = 4  BY <1>1, <2>3
  <2>4. CASE p = 8  BY <1>1, <2>4
  <2> QED BY <2>1, <2>2, <2>3, <2>4 DEF Sizes
<1>4. \A k \in 0 .. n - 1 : k * p \in 0 .. 7 /\ k * p + p <= w
  <2>1. CASE p = 1  BY <1>1, <2>1
  <2>2. CASE p = 2  BY <1>1, <2>2
  <2>3. CASE p = 4  BY <1>1, <2>3
  <2>4. CASE p = 8  BY <1>1, <2>4
  <2> QED BY <2>1, <2>2, <2>3, <2>4 DEF Sizes
<1>5. \A k, l \in 0 .. n - 1 : k * p < l * p => k * p + p <= l * p
  <2>1. CASE p = 1  BY <1>1, <2>1
  <2>2. CASE p = 2  BY <1>1, <2>2
  <2>3. CASE p = 4  BY <1>1, <2>3
  <2>4. CASE p = 8  BY <1>1, <2>4
  <2> QED BY <2>1, <2>2, <2>3, <2>4 DEF Sizes
<1>6. w - p = (n - 1) * p /\ n - 1 \in 0 .. n - 1
  <2>1. CASE p = 1  BY <1>1, <2>1
  <2>2. CASE p = 2  BY <1>1, <2>2
  <2>3. CASE p = 4  BY <1>1, <2>3
  <2>4. CASE p = 8  BY <1>1, <2>4
  <2> QED BY <2>1, <2>2, <2>3, <2>4 DEF Sizes
<1>7. \A o \in Offsets(w, p) : o \in 0 .. 7 /\ o + p <= w  BY <1>2, <1>4
<1>8. \A o, q \in Offsets(w, p) : o < q => o + p <= q  BY <1>2, <1>5
<1>9. ASSUME NEW i \in 0 .. w - 1
      PROVE  \E o \in Offsets(w, p) : i \in o .. o + p - 1
  BY <1>2, <1>3
<1>10. w - p \in Offsets(w, p)  BY <1>2, <1>6
<1> QED BY <1>7, <1>8, <1>9, <1>10

\* The last byte of the register that a piece at o is shifted into.
Top(o) == (o \div reg + 1) * reg - 1

LEMMA Tops ==
  ASSUME reg \in {4, 8}, NEW w \in Sizes, NEW p \in Sizes, p <= w, p <= reg,
         NEW o \in Offsets(w, p)
  PROVE  /\ w <= reg => Top(o) = reg - 1
         /\ Top(o) \in 0 .. 7 /\ o + p - 1 <= Top(o) /\ Top(o) - o <= reg - 1
<1> DEFINE n == w \div p
<1>1. n \in 1 .. 8 /\ n * p = w /\ w \in Nat /\ w <= 8  BY Quotients DEF Sizes
<1>2. PICK k \in 0 .. n - 1 : o = k * p  BY DEF Offsets
<1>3. o \in 0 .. 7 /\ o + p <= w  BY PiecesTile
<1> HIDE DEF n
<1>4. CASE w <= reg
  <2>1. o \div reg = 0
    <3>1. CASE reg = 4  BY <1>3, <1>4, <3>1 DEF Sizes
    <3>2. CASE reg = 8  BY <1>3, <1>4, <3>2 DEF Sizes
    <3> QED BY <3>1, <3>2
  <2>2. (0 + 1) * reg - 1 = reg - 1  OBVIOUS
  <2>3. Top(o) = reg - 1  BY <2>1, <2>2 DEF Top
  <2>4. reg - 1 \in 0 .. 7 /\ o + p - 1 <= reg - 1 /\ (reg - 1) - o <= reg - 1
    BY <1>1, <1>3, <1>4 DEF Sizes
  <2> QED BY <2>3, <2>4
<1>5. CASE w > reg
  <2>1. reg = 4 /\ w = 8 /\ p \in {1, 2, 4}  BY <1>5 DEF Sizes
  <2>2. Top(o) = IF o < 4 THEN 3 ELSE 7  BY <1>3, <2>1 DEF Top
  <2>3. CASE p = 1  BY <1>3, <2>1, <2>2, <2>3
  <2>4. CASE p = 2  BY <1>2, <1>3, <2>1, <2>2, <2>4
  <2>5. CASE p = 4  BY <1>2, <1>3, <2>1, <2>2, <2>5
  <2> QED BY <1>5, <2>1, <2>3, <2>4, <2>5
<1> QED BY <1>1, <1>4, <1>5 DEF Sizes

----------------------------------------------------------------------------
(* The access and the instruction of a piece.                              *)

\* The assumption: an aligned access of eight bytes does not occur on RV64.
NoWide == [reg |-> 8, width |-> 8, align |-> 8] \notin Shapes

Valid == \E s \in Shapes : s.reg = reg /\ access \in IR!Accesses(s.width, s.align)

W == access.width
P == PieceWidth(access.width, access.align)

LEMMA AccessFields ==
  ASSUME NoWide, reg \in {4, 8}, Valid
  PROVE  /\ W \in Sizes /\ P \in Sizes /\ P <= W /\ P <= reg /\ P # 8
         /\ access.kind \in {"load", "store"} /\ access.ext \in {"sext", "zext", "any"}
         /\ access.value \in Pair
         /\ access.addr \in Address /\ access.addr + W <= MemSize
<1>1. PICK s \in Shapes : s.reg = reg /\ access \in IR!Accesses(s.width, s.align)
  BY DEF Valid
<1>2. s \in [reg : {4, 8}, width : {1, 2, 4, 8}, align : {1, 2, 4, 8}]
  BY <1>1, AccessAssumption
<1> DEFINE A == {a \in IR!Address : a % s.align = 0 /\ a + s.width <= MemSize}
<1>3. \/ access \in [kind : {"load"}, width : {s.width}, align : {s.align}, addr : A,
                     ext : IR!Extension, value : {IR!Zeros}]
      \/ access \in [kind : {"store"}, width : {s.width}, align : {s.align}, addr : A,
                     ext : {"any"}, value : Values]
  BY <1>1 DEF IR!Accesses
<1> HIDE DEF A
<1>4. /\ access.width = s.width /\ access.align = s.align /\ access.addr \in A
      /\ access.kind \in {"load", "store"} /\ access.ext \in IR!Extension \cup {"any"}
      /\ access.value \in {IR!Zeros} \cup Values
  BY <1>3
<1>5. access.value \in Pair
  <2>1. IR!Zeros \in Pair  BY DEF IR!Zeros, Pair, Byte
  <2> QED BY <1>4, <2>1, ValuesAssumption
<1>6. access.addr \in Address /\ access.addr + W <= MemSize
  BY <1>4 DEF A, W, IR!Address, Address
<1>7. W \in Sizes /\ access.align \in Sizes  BY <1>2, <1>4 DEF W, Sizes
<1>8. P \in Sizes /\ P <= W /\ P <= reg
  BY <1>7 DEF P, PieceWidth, PartWidth, Lesser, Sizes, W
<1>9. P # 8
  <2> SUFFICES ASSUME P = 8  PROVE FALSE
    OBVIOUS
  <2>1. reg = 8 /\ W = 8 /\ access.align = 8
    BY <1>7 DEF P, PieceWidth, PartWidth, Lesser, Sizes, W
  <2>2. s.reg = 8 /\ s.width = 8 /\ s.align = 8  BY <1>1, <1>4, <2>1 DEF W
  <2>3. s = [reg |-> 8, width |-> 8, align |-> 8]  BY <1>2, <2>2
  <2> QED BY <1>1, <2>3 DEF NoWide
<1>10. access.ext \in {"sext", "zext", "any"}  BY <1>4 DEF IR!Extension
<1> QED BY <1>4, <1>5, <1>6, <1>7, <1>8, <1>9, <1>10

\* The piece at an offset, and its instruction.
Offs      == Offsets(W, P)
Piece(o)  == [off |-> o, width |-> P, ext |-> PieceExt(access, o)]
InstAt(o) == InstOf(access, Piece(o))
CodeAt(o) == [off |-> o, inst |-> InstAt(o)]

LEMMA PiecesAre == Pieces(access) = {Piece(o) : o \in Offs}
  BY DEF Pieces, Piece, Offs, Offsets, W, P

LEMMA Footprints ==
  /\ Footprint["LB"] = 1 /\ Footprint["LBU"] = 1 /\ Footprint["LH"] = 2
  /\ Footprint["LHU"] = 2 /\ Footprint["LW"] = 4 /\ Footprint["SB"] = 1
  /\ Footprint["SH"] = 2 /\ Footprint["SW"] = 4
  BY DEF Footprint

\* A load of a piece that is narrower than a register extends it as the piece says.
LEMMA LoadSelected ==
  ASSUME NoWide, reg \in {4, 8}, Valid, access.kind = "load", NEW o \in Offs
  PROVE  /\ InstAt(o) = "none" => reg = 8 /\ P = 4
         /\ InstAt(o) # "none" =>
              /\ Footprint[InstAt(o)] = P
              /\ P # reg => (InstAt(o) \in Signed <=> PieceExt(access, o) # "zext")
<1> DEFINE e == PieceExt(access, o)
<1>1. e \in {"none", "sext", "zext", "any"} /\ (e = "none" <=> P = reg)
  BY AccessFields DEF PieceExt, P
<1>2. InstAt(o) = LoadInst(P, e)  BY DEF InstAt, InstOf, Piece
<1> HIDE DEF e
<1>3. P \in {1, 2, 4} /\ P <= reg  BY AccessFields DEF Sizes
<1>4. CASE e = "none"
  <2>1. LoadInst(P, e) = "LW" /\ P = 4  BY <1>1, <1>3, <1>4 DEF LoadInst
  <2> QED BY <1>1, <1>2, <1>4, <2>1, Footprints
<1>5. CASE e # "none" /\ P = 1
  <2>1. LoadInst(P, e) = IF e = "zext" THEN "LBU" ELSE "LB"
    BY <1>1, <1>5 DEF LoadInst
  <2> QED BY <1>2, <1>5, <2>1, Footprints DEF Signed, e
<1>6. CASE e # "none" /\ P = 2
  <2>1. LoadInst(P, e) = IF e = "zext" THEN "LHU" ELSE "LH"
    BY <1>1, <1>6 DEF LoadInst
  <2> QED BY <1>2, <1>6, <2>1, Footprints DEF Signed, e
<1>7. CASE e # "none" /\ P = 4
  <2>1. LoadInst(P, e) = "none" /\ reg = 8  BY <1>1, <1>3, <1>7 DEF LoadInst
  <2> QED BY <1>2, <1>7, <2>1
<1> QED BY <1>3, <1>4, <1>5, <1>6, <1>7

LEMMA StoreSelected ==
  ASSUME NoWide, reg \in {4, 8}, Valid, access.kind = "store", NEW o \in Offs
  PROVE  /\ InstAt(o) = "none" => reg = 8 /\ P = 4
         /\ InstAt(o) # "none" => Footprint[InstAt(o)] = P
<1>1. InstAt(o) = StoreInst(P)  BY DEF InstAt, InstOf, Piece
<1>2. P \in {1, 2, 4} /\ P <= reg  BY AccessFields DEF Sizes
<1>3. CASE P = reg
  <2>1. StoreInst(P) = "SW" /\ P = 4  BY <1>2, <1>3 DEF StoreInst
  <2> QED BY <1>1, <2>1, Footprints
<1>4. CASE P # reg /\ P = 1
  <2>1. StoreInst(P) = "SB"  BY <1>4 DEF StoreInst
  <2> QED BY <1>1, <1>4, <2>1, Footprints
<1>5. CASE P # reg /\ P = 2
  <2>1. StoreInst(P) = "SH"  BY <1>5 DEF StoreInst
  <2> QED BY <1>1, <1>5, <2>1, Footprints
<1>6. CASE P # reg /\ P = 4
  <2>1. StoreInst(P) = "none" /\ reg = 8  BY <1>2, <1>6 DEF StoreInst
  <2> QED BY <1>1, <1>6, <2>1
<1> QED BY <1>2, <1>3, <1>4, <1>5, <1>6

----------------------------------------------------------------------------
(* What pieces move.                                                       *)

\* The piece at o provides byte i of what is loaded: one of its own, or one of the
\* extension of the whole access.
Owns(o, i) == i \in o .. o + P - 1 \/ (i \in W .. reg - 1 /\ o + P = W)

\* Byte i of what the access loads.
Final(i) ==
  IF i < W THEN mem[access.addr + i]
  ELSE IF i < reg /\ access.ext # "zext" THEN SignFill(mem[access.addr + W - 1])
  ELSE {}

LEMMA OneOwner ==
  ASSUME NoWide, reg \in {4, 8}, Valid, NEW i \in 0 .. 7
  PROVE  /\ \A o, q \in Offs : Owns(o, i) /\ Owns(q, i) => o = q
         /\ (\A o \in Offs : ~Owns(o, i)) => Final(i) = {}
<1>1. W \in Sizes /\ P \in Sizes /\ P <= W /\ P <= reg /\ P \in Nat /\ W \in Nat
  BY AccessFields DEF Sizes
<1>2. /\ \A o \in Offs : o \in 0 .. 7 /\ o + P <= W
      /\ \A o, q \in Offs : o < q => o + P <= q
      /\ \A j \in 0 .. W - 1 : \E o \in Offs : j \in o .. o + P - 1
      /\ W - P \in Offs
  BY <1>1, PiecesTile DEF Offs
<1>3. ASSUME NEW o \in Offs, NEW q \in Offs, Owns(o, i), Owns(q, i)  PROVE o = q
  <2>1. o \in 0 .. 7 /\ q \in 0 .. 7 /\ o + P <= W /\ q + P <= W  BY <1>2
  <2>2. (o < q => o + P <= q) /\ (q < o => q + P <= o)  BY <1>2
  <2> QED BY <1>1, <1>3, <2>1, <2>2 DEF Owns
<1>4. ASSUME \A o \in Offs : ~Owns(o, i)  PROVE Final(i) = {}
  <2>1. ~(i < W)  BY <1>1, <1>2, <1>4 DEF Owns
  <2>2. ~(i < reg)
    <3>1. W - P \in Offs /\ (W - P) + P = W  BY <1>1, <1>2
    <3> QED BY <1>1, <1>4, <2>1, <3>1 DEF Owns
  <2> QED BY <2>1, <2>2 DEF Final
<1> QED BY <1>3, <1>4

\* What executing the piece at o adds to byte i of the registers.
Added(o, i) ==
  IF i \in o .. Top(o) THEN Fetch(InstAt(o), access.addr + o)[i - o] ELSE {}

LEMMA AddsWhatItOwns ==
  ASSUME NoWide, reg \in {4, 8}, Valid, access.kind = "load",
         NEW o \in Offs, InstAt(o) # "none", NEW i \in 0 .. 7
  PROVE  Added(o, i) = IF Owns(o, i) THEN Final(i) ELSE {}
<1> DEFINE f == access.addr
           inst == InstAt(o)
<1>1. /\ W \in Sizes /\ P \in Sizes /\ P <= W /\ P <= reg /\ P \in Nat /\ W \in Nat
      /\ f \in Nat
  BY AccessFields DEF Sizes, Address
<1>2. o \in 0 .. 7 /\ o + P <= W  BY <1>1, PiecesTile DEF Offs
<1>3. /\ W <= reg => Top(o) = reg - 1
      /\ Top(o) \in 0 .. 7 /\ o + P - 1 <= Top(o) /\ Top(o) - o <= reg - 1
  BY <1>1, Tops DEF Offs
<1>4. /\ Footprint[inst] = P
      /\ P # reg => (inst \in Signed <=> PieceExt(access, o) # "zext")
  BY LoadSelected
<1> HIDE DEF inst, f
<1>5. CASE i < o
  <2>1. ~Owns(o, i)  BY <1>1, <1>2, <1>5 DEF Owns
  <2>2. i \notin o .. Top(o)  BY <1>2, <1>3, <1>5
  <2> QED BY <2>1, <2>2 DEF Added
<1>6. CASE i \in o .. o + P - 1
  <2>1. Owns(o, i) /\ i < W /\ i \in o .. Top(o) /\ i - o \in 0 .. reg - 1 /\ i - o < P
    BY <1>1, <1>2, <1>3, <1>6 DEF Owns
  <2>2. Fetch(inst, f + o)[i - o] = mem[(f + o) + (i - o)]
    BY <1>4, <2>1 DEF Fetch
  <2>3. (f + o) + (i - o) = f + i  BY <1>1, <1>2
  <2> QED BY <2>1, <2>2, <2>3 DEF Added, Final, inst, f
<1>7. CASE i > Top(o)
  <2>1. ~Owns(o, i)  BY <1>1, <1>2, <1>3, <1>7 DEF Owns
  <2>2. i \notin o .. Top(o)  BY <1>3, <1>7
  <2> QED BY <2>1, <2>2 DEF Added
<1>8. CASE i \in o + P .. Top(o)
  <2>1. i \in o .. Top(o) /\ i - o \in 0 .. reg - 1 /\ ~(i - o < P) /\ P # reg
    BY <1>1, <1>2, <1>3, <1>8
  <2>2. Fetch(inst, f + o)[i - o]
          = IF inst \in Signed THEN SignFill(mem[(f + o) + P - 1]) ELSE {}
    BY <1>4, <2>1 DEF Fetch
  <2>3. CASE Owns(o, i)
    <3>1. i \in W .. reg - 1 /\ o + P = W /\ ~(i < W) /\ i < reg
      BY <1>1, <1>2, <1>8, <2>3 DEF Owns
    <3>2. ~(W >= reg) /\ ~(o + P < W)  BY <1>1, <1>2, <3>1
    <3>3. PieceExt(access, o) = access.ext  BY <2>1, <3>2 DEF PieceExt, P, W
    <3>4. inst \in Signed <=> access.ext # "zext"  BY <1>4, <2>1, <3>3
    <3>5. (f + o) + P - 1 = f + W - 1  BY <1>1, <1>2, <3>1
    <3> QED BY <2>1, <2>2, <2>3, <3>1, <3>4, <3>5 DEF Added, Final, inst, f
  <2>4. CASE ~Owns(o, i)
    <3>1. W >= reg \/ o + P < W  BY <1>1, <1>2, <1>3, <1>8, <2>4 DEF Owns
    <3>2. PieceExt(access, o) = "zext"  BY <2>1, <3>1 DEF PieceExt, P, W
    <3>3. inst \notin Signed  BY <1>4, <2>1, <3>2
    <3> QED BY <2>1, <2>2, <2>4, <3>3 DEF Added, inst, f
  <2> QED BY <2>3, <2>4
<1> QED BY <1>1, <1>2, <1>3, <1>5, <1>6, <1>7, <1>8

----------------------------------------------------------------------------
(* The invariant.                                                          *)

\* c are the instructions still to run, m is the memory and r the registers: the
\* others have loaded, or stored, what they own.
LoadedSoFar(c, r) ==
  \A i \in 0 .. 7 :
    r[i] = IF \E o \in Offs : CodeAt(o) \in c /\ Owns(o, i) THEN {} ELSE Final(i)

StoredSoFar(c, m) ==
  \A o \in Offs : CodeAt(o) \notin c =>
    \A i \in o .. o + P - 1 : m[access.addr + i] = access.value[i]

Executing ==
  /\ code \subseteq {CodeAt(o) : o \in Offs}
  /\ \A o \in Offs : InstAt(o) # "none"
  /\ access.kind = "load" => LoadedSoFar(code, regs)
  /\ access.kind = "store" => StoredSoFar(code, mem)

Busy == {"access", "pieces", "code", "fatal"}

IInv ==
  /\ reg \in {4, 8} /\ mem \in Memory /\ regs \in Pair
  /\ stage \in {"idle"} \cup Busy
  /\ stage = "idle" => access = IR!Nothing
  /\ stage \in Busy => Valid /\ loaded = Zeros
  /\ stage \in {"idle", "access", "pieces"} => regs = Zeros
  /\ stage = "pieces" => pieces = Pieces(access)
  /\ stage = "code" => Executing
  /\ stage = "fatal" => reg = 8 /\ P = 4

\* The memory of the IR: the expression of INSTANCE.
IRMem ==
  IF access.kind = "store" THEN Overwrite(mem, access.addr, access.width, access.value)
  ELSE mem

LEMMA ZerosIsPair == Zeros \in Pair /\ IR!Zeros = Zeros /\ \A i \in 0 .. 7 : Zeros[i] = {}
  BY DEF Zeros, IR!Zeros, Pair, Byte

LEMMA NothingAccessed ==
  /\ IR!Nothing.kind = "none" /\ IR!Nothing.kind # "store" /\ IR!Nothing.kind # "load"
  BY DEF IR!Nothing

LEMMA SameOverwrite ==
  \A m, a, w, v : IR!Overwrite(m, a, w, v) = Overwrite(m, a, w, v)
  BY DEF IR!Overwrite, Overwrite, IR!Address, Address

\* What does not depend on code, memory and registers.
LEMMA Rigid ==
  ASSUME access' = access, reg' = reg
  PROVE  /\ (Valid <=> Valid') /\ W' = W /\ P' = P /\ Offs' = Offs
         /\ \A o : InstAt(o)' = InstAt(o) /\ CodeAt(o)' = CodeAt(o)
         /\ \A o, i : Owns(o, i)' <=> Owns(o, i)
         /\ mem' = mem => \A i : Final(i)' = Final(i)
<1>1. W' = W /\ (Valid <=> Valid')  BY DEF W, Valid
<1>2. P' = P  BY DEF P, PieceWidth, PartWidth, Lesser
<1>3. Offs' = Offs  BY <1>1, <1>2 DEF Offs
<1>4. \A o : PieceExt(access, o)' = PieceExt(access, o)
  BY DEF PieceExt, PieceWidth, PartWidth, Lesser
<1>5. \A o : InstAt(o)' = InstAt(o)
  BY <1>2, <1>4 DEF InstAt, InstOf, Piece, StoreInst
<1>6. \A o : CodeAt(o)' = CodeAt(o)  BY <1>5 DEF CodeAt
<1>7. \A o, i : Owns(o, i)' <=> Owns(o, i)  BY <1>1, <1>2 DEF Owns
<1>8. mem' = mem => \A i : Final(i)' = Final(i)  BY <1>1 DEF Final
<1> QED BY <1>1, <1>2, <1>3, <1>5, <1>6, <1>7, <1>8

LEMMA FinalIsByte ==
  ASSUME NoWide, reg \in {4, 8}, Valid, mem \in Memory, NEW i \in 0 .. 7
  PROVE  Final(i) \in Byte
<1>1. W \in 1 .. 8 /\ access.addr \in Nat /\ access.addr + W <= MemSize /\ MemSize \in Nat
  BY AccessFields, WordAssumption DEF Sizes, Address
<1>2. \A j \in 0 .. W - 1 : mem[access.addr + j] \in Byte
  BY <1>1 DEF Memory, Address
<1>3. \A b : SignFill(b) \in Byte  BY DEF SignFill, Byte
<1>4. {} \in Byte  BY DEF Byte
<1> QED BY <1>1, <1>2, <1>3, <1>4 DEF Final

LEMMA CodeAtOffset == \A o, q : CodeAt(o) = CodeAt(q) => o = q
<1>1. \A o : CodeAt(o).off = o /\ CodeAt(o).inst = InstAt(o)  BY DEF CodeAt
<1> QED BY <1>1

\* A piece of a load puts in place what it owns.
LEMMA LoadsPiece ==
  ASSUME NoWide, IInv, stage = "code", ExecuteLoad
  PROVE  regs' \in Pair /\ LoadedSoFar(code', regs')
<1>1. /\ reg \in {4, 8} /\ Valid /\ Executing /\ access.kind = "load" /\ regs \in Pair
      /\ mem \in Memory
  BY DEF IInv, Busy, ExecuteLoad
<1>2. PICK c \in code :
        /\ LET value == Fetch(c.inst, access.addr + c.off)
               top   == (c.off \div reg + 1) * reg - 1
           IN  regs' = [i \in 0 .. 7 |->
                          regs[i] \cup IF i \in c.off .. top THEN value[i - c.off] ELSE {}]
        /\ code' = code \ {c}
  BY DEF ExecuteLoad
<1>3. PICK o \in Offs : c = CodeAt(o)  BY <1>1 DEF Executing
<1>4. c.off = o /\ c.inst = InstAt(o) /\ InstAt(o) # "none"
  BY <1>1, <1>3 DEF CodeAt, Executing
<1>5. regs' = [i \in 0 .. 7 |-> regs[i] \cup Added(o, i)]
  BY <1>2, <1>4 DEF Added, Top
<1>6. LoadedSoFar(code, regs)  BY <1>1 DEF Executing
<1>7. ASSUME NEW i \in 0 .. 7
      PROVE  /\ regs'[i] = IF \E q \in Offs : CodeAt(q) \in code' /\ Owns(q, i)
                           THEN {} ELSE Final(i)
             /\ regs'[i] \in Byte
  <2>1. regs'[i] = regs[i] \cup Added(o, i) /\ regs[i] \in Byte /\ Final(i) \in Byte
    BY <1>1, <1>5, FinalIsByte DEF Pair
  <2>2. Added(o, i) = IF Owns(o, i) THEN Final(i) ELSE {}
    BY <1>1, <1>4, AddsWhatItOwns
  <2>3. regs[i] = IF \E q \in Offs : CodeAt(q) \in code /\ Owns(q, i) THEN {} ELSE Final(i)
    BY <1>6 DEF LoadedSoFar
  <2>4. CASE Owns(o, i)
    <3>1. regs[i] = {}  BY <1>3, <2>3, <2>4
    <3>2. \A q \in Offs : Owns(q, i) => q = o  BY <1>1, <2>4, OneOwner
    <3>3. ~ \E q \in Offs : CodeAt(q) \in code' /\ Owns(q, i)  BY <1>2, <1>3, <3>2
    <3> QED BY <2>1, <2>2, <2>4, <3>1, <3>3
  <2>5. CASE ~Owns(o, i)
    <3>1. \A q \in Offs : Owns(q, i) => (CodeAt(q) \in code' <=> CodeAt(q) \in code)
      BY <1>2, <1>3, <2>5, CodeAtOffset
    <3>2. regs'[i] = regs[i]  BY <2>1, <2>2, <2>5
    <3> QED BY <2>1, <2>3, <3>1, <3>2
  <2> QED BY <2>4, <2>5
<1> QED BY <1>5, <1>7 DEF LoadedSoFar, Pair

\* A piece of a store writes its bytes of the value, and no other piece's.
LEMMA StoresPiece ==
  ASSUME NoWide, IInv, stage = "code", ExecuteStore
  PROVE  /\ mem' \in Memory /\ StoredSoFar(code', mem')
         /\ Overwrite(mem', access.addr, W, access.value)
              = Overwrite(mem, access.addr, W, access.value)
<1> DEFINE f == access.addr
           v == access.value
<1>1. reg \in {4, 8} /\ Valid /\ Executing /\ access.kind = "store" /\ mem \in Memory
  BY DEF IInv, Busy, ExecuteStore
<1>2. PICK c \in code :
        /\ mem' = Overwrite(mem, f + c.off, Footprint[c.inst],
                            [i \in 0 .. 7 - c.off |-> v[c.off + i]])
        /\ code' = code \ {c}
  BY DEF ExecuteStore
<1>3. PICK o \in Offs : c = CodeAt(o)  BY <1>1 DEF Executing
<1>4. c.off = o /\ c.inst = InstAt(o) /\ InstAt(o) # "none"
  BY <1>1, <1>3 DEF CodeAt, Executing
<1>5. Footprint[c.inst] = P  BY <1>1, <1>4, StoreSelected
<1>6. /\ W \in Sizes /\ P \in Sizes /\ P <= W /\ W \in 1 .. 8 /\ P \in 1 .. 8
      /\ f \in Nat /\ f + W <= MemSize /\ MemSize \in Nat /\ v \in Pair
  BY <1>1, AccessFields, WordAssumption DEF Sizes, Address
<1>7. /\ \A q \in Offs : q \in 0 .. 7 /\ q + P <= W
      /\ \A q, r \in Offs : q < r => q + P <= r
  BY <1>6, PiecesTile DEF Offs
<1> DEFINE shifted == [i \in 0 .. 7 - o |-> v[o + i]]
<1>8. mem' = Overwrite(mem, f + o, P, shifted)  BY <1>2, <1>4, <1>5
<1> HIDE DEF f, v
<1>9. \A a \in Address : mem'[a] = IF a \in f + o .. f + o + P - 1 THEN v[a - f] ELSE mem[a]
  <2> SUFFICES ASSUME NEW a \in Address
               PROVE  mem'[a] = IF a \in f + o .. f + o + P - 1 THEN v[a - f] ELSE mem[a]
    OBVIOUS
  <2>0. o \in 0 .. 7 /\ o + P <= W /\ a \in Int  BY <1>6, <1>7 DEF Address
  <2>1. mem'[a] = IF a \in f + o .. f + o + P - 1 THEN shifted[a - (f + o)] ELSE mem[a]
    BY <1>8 DEF Overwrite
  <2>2. ASSUME a \in f + o .. f + o + P - 1  PROVE shifted[a - (f + o)] = v[a - f]
    <3>1. a - (f + o) \in 0 .. 7 - o /\ o + (a - (f + o)) = a - f
      BY <1>6, <2>0, <2>2
    <3> QED BY <3>1
  <2> QED BY <2>1, <2>2
<1> HIDE DEF shifted
<1>10. mem' \in Memory
  <2>1. DOMAIN mem' = Address /\ mem' = [a \in Address |-> mem'[a]]  BY <1>8 DEF Overwrite
  <2>2. ASSUME NEW a \in Address  PROVE mem'[a] \in Byte
    <3>1. mem[a] \in Byte  BY <1>1 DEF Memory
    <3>2. a \in f + o .. f + o + P - 1 => a - f \in 0 .. 7
      BY <1>6, <1>7 DEF Address
    <3> QED BY <1>6, <1>9, <3>1, <3>2 DEF Pair
  <2> QED BY <2>1, <2>2 DEF Memory
<1>11. StoredSoFar(code', mem')
  <2> SUFFICES ASSUME NEW q \in Offs, CodeAt(q) \notin code', NEW i \in q .. q + P - 1
               PROVE  mem'[f + i] = v[i]
    BY DEF StoredSoFar, f, v
  <2>1. /\ o \in 0 .. 7 /\ q \in 0 .. 7 /\ o + P <= W /\ q + P <= W
        /\ (q < o => q + P <= o) /\ (o < q => o + P <= q)
    BY <1>7
  <2>2. f + i \in Address /\ i \in 0 .. 7 /\ (f + i) - f = i  BY <1>6, <2>1 DEF Address
  <2>3. CASE q = o
    <3>1. f + i \in f + o .. f + o + P - 1  BY <1>6, <2>1, <2>3
    <3> QED BY <1>9, <2>2, <3>1
  <2>4. CASE q # o
    <3>1. CodeAt(q) \notin code  BY <1>2, <1>3, <2>4, CodeAtOffset
    <3>2. mem[f + i] = v[i]  BY <1>1, <3>1 DEF Executing, StoredSoFar, f, v
    <3>3. f + i \notin f + o .. f + o + P - 1  BY <1>6, <2>1, <2>4
    <3> QED BY <1>9, <2>2, <3>2, <3>3
  <2> QED BY <2>3, <2>4
<1>12. ASSUME NEW a \in Address
       PROVE  (IF a \in f .. f + W - 1 THEN v[a - f] ELSE mem'[a])
                = IF a \in f .. f + W - 1 THEN v[a - f] ELSE mem[a]
  <2>1. a \in f + o .. f + o + P - 1 => a \in f .. f + W - 1
    BY <1>6, <1>7 DEF Address
  <2> QED BY <1>9, <2>1
<1>13. Overwrite(mem', f, W, v) = Overwrite(mem, f, W, v)  BY <1>12 DEF Overwrite
<1> QED BY <1>10, <1>11, <1>13 DEF f, v

----------------------------------------------------------------------------
(* The invariant is inductive.                                             *)

LEMMA ExecutingNext ==
  ASSUME access' = access, reg' = reg,
         code' \subseteq {CodeAt(o) : o \in Offs},
         \A o \in Offs : InstAt(o) # "none",
         access.kind = "load" => mem' = mem /\ LoadedSoFar(code', regs'),
         access.kind = "store" => StoredSoFar(code', mem')
  PROVE  Executing'
<1>1. /\ Offs' = Offs /\ P' = P
      /\ \A o : InstAt(o)' = InstAt(o) /\ CodeAt(o)' = CodeAt(o)
      /\ \A o, i : Owns(o, i)' <=> Owns(o, i)
      /\ mem' = mem => \A i : Final(i)' = Final(i)
  BY Rigid
<1>2. (code \subseteq {CodeAt(o) : o \in Offs})'  BY <1>1
<1>3. (\A o \in Offs : InstAt(o) # "none")'  BY <1>1
<1>4. (access.kind = "load" => LoadedSoFar(code, regs))'
  <2>1. CASE access.kind # "load"  BY <2>1
  <2>2. CASE access.kind = "load"
    <3>1. \A i \in 0 .. 7 :
            regs'[i] = IF \E o \in Offs : CodeAt(o) \in code' /\ Owns(o, i)
                       THEN {} ELSE Final(i)
      BY <2>2 DEF LoadedSoFar
    <3>2. ASSUME NEW i \in 0 .. 7
          PROVE  /\ (\E o \in Offs' : CodeAt(o)' \in code' /\ Owns(o, i)')
                      <=> \E o \in Offs : CodeAt(o) \in code' /\ Owns(o, i)
                 /\ Final(i)' = Final(i)
      BY <1>1, <2>2
    <3> QED BY <3>1, <3>2 DEF LoadedSoFar
  <2> QED BY <2>1, <2>2
<1>5. (access.kind = "store" => StoredSoFar(code, mem))'
  <2>1. CASE access.kind # "store"  BY <2>1
  <2>2. CASE access.kind = "store"
    <3>1. \A o \in Offs : CodeAt(o) \notin code' =>
            \A i \in o .. o + P - 1 : mem'[access.addr + i] = access.value[i]
      BY <2>2 DEF StoredSoFar
    <3> QED BY <1>1, <3>1 DEF StoredSoFar
  <2> QED BY <2>1, <2>2
<1> QED BY <1>2, <1>3, <1>4, <1>5 DEF Executing

LEMMA Initially == Init => IInv
<1> SUFFICES ASSUME Init  PROVE IInv
  OBVIOUS
<1>1. PICK s \in Shapes : reg = s.reg  BY DEF Init
<1>2. reg \in {4, 8}  BY <1>1, AccessAssumption
<1> QED BY <1>2, ZerosIsPair DEF Init, IInv, Busy

LEMMA BeginKeeps == ASSUME NoWide, IInv, Begin  PROVE IInv'
<1>1. PICK s \in Shapes : s.reg = reg /\ access' \in IR!Accesses(s.width, s.align)
  BY DEF Begin
<1>2. Valid'
  <2>1. s.reg = reg' /\ access' \in IR!Accesses(s.width, s.align)  BY <1>1 DEF Begin
  <2>2. IR!Accesses(s.width, s.align)' = IR!Accesses(s.width, s.align)
    BY DEF IR!Accesses
  <2> QED BY <2>1, <2>2 DEF Valid
<1>3. stage' = "access" /\ loaded' = Zeros /\ regs = Zeros  BY DEF Begin, IInv
<1> QED BY <1>2, <1>3 DEF Begin, IInv, Busy, Zeros

LEMMA SelectKeeps == ASSUME NoWide, IInv, SelectPieces  PROVE IInv'
<1>1. /\ reg \in {4, 8} /\ Valid /\ stage = "pieces" /\ regs = Zeros
      /\ pieces = Pieces(access) /\ mem \in Memory
      /\ \A p \in pieces : InstOf(access, p) # "none"
      /\ code' = {[off |-> p.off, inst |-> InstOf(access, p)] : p \in pieces}
      /\ access' = access /\ reg' = reg /\ mem' = mem /\ regs' = regs
      /\ stage' = "code" /\ loaded' = loaded /\ loaded = Zeros
  BY DEF IInv, Busy, SelectPieces
<1>2. pieces = {Piece(o) : o \in Offs}  BY <1>1, PiecesAre
<1>3. \A o \in Offs : InstAt(o) # "none"  BY <1>1, <1>2 DEF InstAt
<1>4. code' = {CodeAt(o) : o \in Offs}
  <2>1. \A o : Piece(o).off = o  BY DEF Piece
  <2>2. \A o : [off |-> Piece(o).off, inst |-> InstOf(access, Piece(o))] = CodeAt(o)
    BY <2>1 DEF CodeAt, InstAt
  <2> QED BY <1>1, <1>2, <2>2
<1>5. LoadedSoFar(code', regs')
  <2> SUFFICES ASSUME NEW i \in 0 .. 7
               PROVE  regs'[i] = IF \E o \in Offs : CodeAt(o) \in code' /\ Owns(o, i)
                                 THEN {} ELSE Final(i)
    BY DEF LoadedSoFar
  <2>1. regs'[i] = {}  BY <1>1, ZerosIsPair
  <2>2. (\A o \in Offs : ~Owns(o, i)) => Final(i) = {}  BY <1>1, OneOwner
  <2> QED BY <1>4, <2>1, <2>2
<1>6. StoredSoFar(code', mem')  BY <1>4 DEF StoredSoFar
<1>7. Executing'  BY <1>1, <1>3, <1>4, <1>5, <1>6, ExecutingNext
<1>8. Valid'  BY <1>1, Rigid
<1>9. regs' \in Pair  BY <1>1, ZerosIsPair
<1> QED BY <1>1, <1>7, <1>8, <1>9 DEF IInv, Busy

LEMMA CannotSelectKeeps == ASSUME NoWide, IInv, CannotSelect  PROVE IInv'
<1>1. /\ reg \in {4, 8} /\ Valid /\ stage = "pieces" /\ pieces = Pieces(access)
      /\ \E p \in pieces : InstOf(access, p) = "none"
      /\ access' = access /\ reg' = reg /\ stage' = "fatal"
  BY DEF IInv, Busy, CannotSelect
<1>2. PICK o \in Offs : InstAt(o) = "none"  BY <1>1, PiecesAre DEF InstAt
<1>3. access.kind \in {"load", "store"}  BY <1>1, AccessFields
<1>4. reg = 8 /\ P = 4  BY <1>1, <1>2, <1>3, LoadSelected, StoreSelected
<1>5. (reg = 8 /\ P = 4)' /\ Valid'  BY <1>1, <1>4, Rigid
<1> QED BY <1>1, <1>5 DEF IInv, Busy, CannotSelect

LEMMA ExecuteKeeps == ASSUME NoWide, IInv, ExecuteLoad \/ ExecuteStore  PROVE IInv'
<1>1. /\ reg \in {4, 8} /\ Valid /\ Executing /\ mem \in Memory /\ regs \in Pair
      /\ stage = "code" /\ loaded = Zeros /\ code' \subseteq code
      /\ access' = access /\ reg' = reg /\ stage' = stage /\ loaded' = loaded
  BY DEF IInv, Busy, ExecuteLoad, ExecuteStore
<1>2. Valid'  BY <1>1, Rigid
<1>3. code' \subseteq {CodeAt(o) : o \in Offs} /\ \A o \in Offs : InstAt(o) # "none"
  BY <1>1 DEF Executing
<1>4. CASE ExecuteLoad
  <2>1. regs' \in Pair /\ LoadedSoFar(code', regs')  BY <1>1, <1>4, LoadsPiece
  <2>2. access.kind = "load" /\ mem' = mem  BY <1>4 DEF ExecuteLoad
  <2>3. Executing'  BY <1>1, <1>3, <2>1, <2>2, ExecutingNext
  <2> QED BY <1>1, <1>2, <2>1, <2>2, <2>3 DEF IInv, Busy
<1>5. CASE ExecuteStore
  <2>1. mem' \in Memory /\ StoredSoFar(code', mem')  BY <1>1, <1>5, StoresPiece
  <2>2. access.kind = "store" /\ regs' = regs  BY <1>5 DEF ExecuteStore
  <2>3. Executing'  BY <1>1, <1>3, <2>1, <2>2, ExecutingNext
  <2> QED BY <1>1, <1>2, <2>1, <2>2, <2>3 DEF IInv, Busy
<1> QED BY <1>4, <1>5

LEMMA Preserved == ASSUME NoWide, IInv, [Next]_vars  PROVE IInv'
<1>1. CASE Begin         BY <1>1, BeginKeeps
<1>2. CASE Legalise
  <2>1. access' = access /\ reg' = reg  BY <1>2 DEF Legalise
  <2>2. Pieces(access)' = Pieces(access)
    BY <2>1 DEF Pieces, PieceExt, PieceWidth, PartWidth, Lesser
  <2>3. (Valid <=> Valid')  BY <2>1, Rigid
  <2> QED BY <1>2, <2>1, <2>2, <2>3 DEF Legalise, IInv, Busy
<1>3. CASE SelectPieces  BY <1>3, SelectKeeps
<1>4. CASE CannotSelect  BY <1>4, CannotSelectKeeps
<1>5. CASE ExecuteLoad   BY <1>5, ExecuteKeeps
<1>6. CASE ExecuteStore  BY <1>6, ExecuteKeeps
<1>7. CASE Complete
  <2>1. access' = IR!Nothing' 
    BY <1>7 DEF Complete, IR!Nothing, IR!Zeros
  <2> QED BY <1>7, <2>1, ZerosIsPair DEF Complete, IInv, Busy, Zeros
<1>8. CASE UNCHANGED vars
  <2>1. /\ access' = access /\ reg' = reg /\ code' = code /\ mem' = mem /\ regs' = regs
        /\ stage' = stage /\ loaded' = loaded /\ pieces' = pieces
    BY <1>8 DEF vars
  <2>2. Pieces(access)' = Pieces(access)
    BY <2>1 DEF Pieces, PieceExt, PieceWidth, PartWidth, Lesser
  <2>3. (Valid <=> Valid') /\ P' = P  BY <2>1, Rigid
  <2>4. stage = "code" => Executing'
    BY <2>1, ExecutingNext DEF IInv, Executing
  <2> QED BY <2>1, <2>2, <2>3, <2>4 DEF IInv
<1> QED BY <1>1, <1>2, <1>3, <1>4, <1>5, <1>6, <1>7, <1>8 DEF Next, Failed

----------------------------------------------------------------------------
(* The refinement.                                                         *)

\* The step of the IR, with the substitution of INSTANCE done.
LEMMA Steps ==
  /\ IR!Request <=>
       /\ access = IR!Nothing
       /\ \E width, align \in {1, 2, 4, 8} : access' \in IR!Accesses(width, align)
       /\ IRMem' = IF access'.kind = "store"
                   THEN Overwrite(IRMem, access'.addr, access'.width, access'.value) ELSE IRMem
       /\ loaded' = Zeros /\ reg' = reg
  /\ IR!Respond <=>
       /\ access # IR!Nothing
       /\ IF access.kind = "load" THEN loaded' \in Pair /\ IR!Extended(loaded')
          ELSE loaded' = Zeros
       /\ access' = IR!Nothing /\ reg' = reg /\ IRMem' = IRMem
  /\ \A v : IR!Extended(v) <=>
       /\ \A i \in 0 .. W - 1 : v[i] = IRMem[access.addr + i]
       /\ \A i \in (W - 1) + 1 .. reg - 1 :
            /\ access.ext = "sext" => v[i] = SignFill(IRMem[access.addr + (W - 1)])
            /\ access.ext = "zext" => v[i] = {}
<1>1. IR!Zeros = Zeros /\ IR!Pair = Pair  BY DEF IR!Zeros, Zeros, IR!Pair, Pair, IR!Byte, Byte
<1>2. \A m, a, w, v : IR!Overwrite(m, a, w, v) = Overwrite(m, a, w, v)  BY SameOverwrite
<1>3. \A b : IR!SignFill(b) = SignFill(b)  BY DEF IR!SignFill, SignFill
<1>4. IR!Request <=>
       /\ access = IR!Nothing
       /\ \E width, align \in {1, 2, 4, 8} : access' \in IR!Accesses(width, align)
       /\ IRMem' = IF access'.kind = "store"
                   THEN Overwrite(IRMem, access'.addr, access'.width, access'.value) ELSE IRMem
       /\ loaded' = Zeros /\ reg' = reg
  BY <1>1, <1>2 DEF IR!Request, IRMem
<1>5. IR!Respond <=>
       /\ access # IR!Nothing
       /\ IF access.kind = "load" THEN loaded' \in Pair /\ IR!Extended(loaded')
          ELSE loaded' = Zeros
       /\ access' = IR!Nothing /\ reg' = reg /\ IRMem' = IRMem
  BY <1>1 DEF IR!Respond, IRMem
<1>6. \A v : IR!Extended(v) <=>
       /\ \A i \in 0 .. W - 1 : v[i] = IRMem[access.addr + i]
       /\ \A i \in (W - 1) + 1 .. reg - 1 :
            /\ access.ext = "sext" => v[i] = SignFill(IRMem[access.addr + (W - 1)])
            /\ access.ext = "zext" => v[i] = {}
  BY <1>3 DEF IR!Extended, IRMem, W
<1> QED BY <1>4, <1>5, <1>6

LEMMA StartsAsIR == Init => IR!TInit
<1> SUFFICES ASSUME Init  PROVE IR!TInit
  OBVIOUS
<1>1. reg \in {4, 8}  BY Initially DEF IInv
<1>2. IR!Memory = Memory  BY DEF IR!Memory, Memory, IR!Byte, Byte, IR!Address, Address
<1> QED BY <1>1, <1>2, ZerosIsPair, NothingAccessed DEF Init, IR!TInit

\* A store whose code has run has written all of its value.
LEMMA StoreDone ==
  ASSUME NoWide, IInv, stage = "code", code = {}, access.kind = "store"
  PROVE  Overwrite(mem, access.addr, W, access.value) = mem
<1>1. reg \in {4, 8} /\ Valid /\ Executing /\ mem \in Memory  BY DEF IInv, Busy
<1>2. W \in Sizes /\ P \in Sizes /\ P <= W /\ access.addr \in Nat  BY <1>1, AccessFields DEF Address
<1>3. \A j \in 0 .. W - 1 : mem[access.addr + j] = access.value[j]
  <2>1. \A j \in 0 .. W - 1 : \E o \in Offs : j \in o .. o + P - 1
    BY <1>2, PiecesTile DEF Offs
  <2>2. StoredSoFar({}, mem)  BY <1>1 DEF Executing
  <2> QED BY <2>1, <2>2 DEF StoredSoFar
<1>4. ASSUME NEW a \in Address, a \in access.addr .. access.addr + W - 1
      PROVE  access.value[a - access.addr] = mem[a]
  <2>1. a - access.addr \in 0 .. W - 1 /\ access.addr + (a - access.addr) = a
    BY <1>2, <1>4 DEF Sizes, Address
  <2> QED BY <1>3, <2>1
<1>5. mem = [a \in Address |-> mem[a]]  BY <1>1 DEF Memory
<1> QED BY <1>4, <1>5 DEF Overwrite

\* A load whose code has run has put together what the IR asks for.
LEMMA LoadDone ==
  ASSUME NoWide, IInv, stage = "code", code = {}, access.kind = "load"
  PROVE  regs \in Pair /\ IR!Extended(regs)
<1>1. reg \in {4, 8} /\ Valid /\ Executing /\ regs \in Pair  BY DEF IInv, Busy
<1>2. W \in 1 .. 8 /\ access.ext \in {"sext", "zext", "any"}
  BY <1>1, AccessFields DEF Sizes
<1>3. LoadedSoFar({}, regs)  BY <1>1 DEF Executing
<1>4. \A i \in 0 .. 7 : regs[i] = Final(i)  BY <1>3 DEF LoadedSoFar
<1>5. IRMem = mem  BY DEF IRMem
<1>6. \A i \in 0 .. W - 1 : regs[i] = IRMem[access.addr + i]
  BY <1>2, <1>4, <1>5 DEF Final
<1>7. ASSUME NEW i \in (W - 1) + 1 .. reg - 1
      PROVE  /\ access.ext = "sext" => regs[i] = SignFill(IRMem[access.addr + (W - 1)])
             /\ access.ext = "zext" => regs[i] = {}
  <2>1. i \in 0 .. 7 /\ ~(i < W) /\ i < reg  BY <1>1, <1>2
  <2>2. access.addr + (W - 1) = access.addr + W - 1
    <3>1. access.addr \in Nat  BY <1>1, AccessFields DEF Address
    <3> QED BY <1>2, <3>1
  <2> QED BY <1>4, <1>5, <2>1, <2>2 DEF Final
<1> QED BY <1>1, <1>6, <1>7, Steps

LEMMA Stutters ==
  ASSUME access' = access, loaded' = loaded, reg' = reg, IRMem' = IRMem
  PROVE  [IR!Request \/ IR!Respond]_(IR!tvars)
<1>1. UNCHANGED IR!tvars  BY DEF IR!tvars, IRMem
<1> QED BY <1>1

LEMMA StepsAsIR ==
  ASSUME NoWide, IInv, [Next]_vars
  PROVE  [IR!Request \/ IR!Respond]_(IR!tvars)
<1>1. CASE Begin
  <2>1. PICK s \in Shapes : s.reg = reg /\ access' \in IR!Accesses(s.width, s.align)
    BY <1>1 DEF Begin
  <2>2. s.width \in {1, 2, 4, 8} /\ s.align \in {1, 2, 4, 8}  BY AccessAssumption
  <2>3. access = IR!Nothing  BY <1>1 DEF Begin, IInv
  <2>4. IRMem = mem /\ mem' = mem /\ loaded' = Zeros /\ reg' = reg
    BY <1>1, <2>3, NothingAccessed DEF IRMem, Begin
  <2>5. IRMem' = IF access'.kind = "store"
                 THEN Overwrite(IRMem, access'.addr, access'.width, access'.value) ELSE IRMem
    BY <2>4 DEF IRMem, Overwrite, Address
  <2> QED BY <2>1, <2>2, <2>3, <2>4, <2>5, Steps
<1>2. CASE Legalise \/ SelectPieces \/ CannotSelect \/ ExecuteLoad \/ UNCHANGED vars
  <2>1. access' = access /\ mem' = mem /\ loaded' = loaded /\ reg' = reg
    BY <1>2 DEF Legalise, SelectPieces, CannotSelect, ExecuteLoad, vars
  <2>2. IRMem' = IRMem  BY <2>1 DEF IRMem, Overwrite, Address
  <2> QED BY <2>1, <2>2, Stutters
<1>3. CASE ExecuteStore
  <2>1. access' = access /\ loaded' = loaded /\ reg' = reg /\ access.kind = "store"
        /\ stage = "code"
    BY <1>3 DEF ExecuteStore
  <2>2. Overwrite(mem', access.addr, W, access.value) = Overwrite(mem, access.addr, W, access.value)
    BY <1>3, <2>1, StoresPiece
  <2>3. IRMem' = IRMem  BY <2>1, <2>2 DEF IRMem, W, Overwrite, Address
  <2> QED BY <2>1, <2>3, Stutters
<1>4. CASE Complete
  <2>1. /\ stage = "code" /\ code = {} /\ mem' = mem /\ reg' = reg
        /\ access' = IR!Nothing /\ loaded' = IF access.kind = "load" THEN regs ELSE loaded
        /\ reg \in {4, 8} /\ Valid /\ loaded = Zeros
    BY <1>4 DEF Complete, IInv, Busy
  <2>2. access.kind \in {"load", "store"}  BY <2>1, AccessFields
  <2>3. access # IR!Nothing  BY <2>2, NothingAccessed
  <2>4. access'.kind # "store"  BY <2>1, NothingAccessed
  <2>5. IRMem' = mem  BY <2>1, <2>4 DEF IRMem
  <2>6. CASE access.kind = "load"
    <3>1. IRMem' = IRMem  BY <2>5, <2>6 DEF IRMem
    <3>2. loaded' \in Pair /\ IR!Extended(loaded')  BY <2>1, <2>6, LoadDone
    <3> QED BY <2>1, <2>3, <2>6, <3>1, <3>2, Steps
  <2>7. CASE access.kind = "store"
    <3>1. IRMem' = IRMem  BY <2>1, <2>5, <2>7, StoreDone DEF IRMem, W
    <3> QED BY <2>1, <2>3, <2>7, <3>1, Steps
  <2> QED BY <2>2, <2>6, <2>7
<1> QED BY <1>1, <1>2, <1>3, <1>4 DEF Next, Failed

\* The loads and stores of IR that the code of the target does, piece by piece and
\* in any order, are those of TypedMemory: no byte is lost, moved, or extended wrongly.
THEOREM Implements == ASSUME NoWide  PROVE Spec => TypedMemoryImplemented
<1>1. Init => IInv  BY Initially
<1>2. IInv /\ [Next]_vars => IInv'  BY Preserved
<1>3. Init => IR!TInit  BY StartsAsIR
<1>4. IInv /\ [Next]_vars => [IR!Request \/ IR!Respond]_(IR!tvars)  BY StepsAsIR
<1> QED BY <1>1, <1>2, <1>3, <1>4, PTL DEF Spec, TypedMemoryImplemented, IR!TSpec

\* Legalisation leaves no piece without a pattern but the words of RV64.
THEOREM Selectable == ASSUME NoWide  PROVE Spec => []EveryAccessSelectable
<1>1. Init => IInv  BY Initially
<1>2. IInv /\ [Next]_vars => IInv'  BY Preserved
<1>3. IInv => EveryAccessSelectable  BY DEF IInv, EveryAccessSelectable, P
<1> QED BY <1>1, <1>2, <1>3, PTL DEF Spec
=============================================================================
