------------------------------ MODULE MemAccess ------------------------------
(***************************************************************************)
(* Loads and stores, from the access of the IR to the instructions of the  *)
(* LdPat and StPat patterns:                                               *)
(*                                                                         *)
(*   legalisation  LLVM splits what is wider than a register or less       *)
(*                 aligned than wide, as the target allows no misaligned   *)
(*                 access, and ORs what it has loaded                      *)
(*   selection     an instruction per piece                                *)
(*   execution     of the pieces in any order, as no chain orders them     *)
(***************************************************************************)
EXTENDS ByteWords

CONSTANT
  Shapes  \* the registers, widths and alignments of the accesses, all in bytes

ASSUME AccessAssumption ==
  Shapes \subseteq [reg : {4, 8}, width : {1, 2, 4, 8}, align : {1, 2, 4, 8}]

VARIABLES
  reg,     \* bytes of a register, by XLenVT
  stage,   \* "idle", "access", "pieces", "code" or "fatal"
  access,  \* the access of the IR that is being done
  pieces,  \* what legalisation made of it
  code,    \* instructions still to execute
  mem,     \* memory
  regs,    \* the registers in which a load puts its pieces together
  loaded   \* what the last access returned, until the next one begins

vars == <<reg, stage, access, pieces, code, mem, regs, loaded>>

\* The code implements TypedMemory: a store of the IR is done at once when it
\* begins, and its pieces, in whatever order, catch up with it before it is
\* complete; the pieces of a load make up the extended value of one load.
IR ==
  INSTANCE TypedMemory WITH
    irreg <- reg,
    irop <- access,
    irmem <- IF access.kind = "store"
             THEN Overwrite(mem, access.addr, access.width, access.value) ELSE mem,
    irloaded <- loaded

Init ==
  /\ reg \in {s.reg : s \in Shapes}
  /\ stage = "idle" /\ access = IR!Nothing /\ pieces = {} /\ code = {}
  /\ mem \in Memory /\ regs = Zeros /\ loaded = Zeros

----------------------------------------------------------------------------
(* Legalisation.                                                           *)

Lesser(m, n) == IF m <= n THEN m ELSE n

\* The width of an access to one register, and of its pieces: halves, until they
\* are as wide as they are aligned.
PartWidth(width)        == Lesser(width, reg)
PieceWidth(width, align) == Lesser(PartWidth(width), align)

\* The extension of the piece at `off`: the highest of a register extends as the
\* access does, if there is room for it, and the others leave room for an OR.
PieceExt(a, off) ==
  LET piece == PieceWidth(a.width, a.align)
  IN  IF piece = reg THEN "none"
      ELSE IF a.width >= reg \/ off + piece < a.width THEN "zext" ELSE a.ext

Pieces(a) ==
  LET piece == PieceWidth(a.width, a.align)
  IN  {[off |-> k * piece, width |-> piece, ext |-> PieceExt(a, k * piece)] :
         k \in 0 .. a.width \div piece - 1}

----------------------------------------------------------------------------
(* The patterns.  "none": no pattern matches.                              *)

\* Mutants of LoadInst: zextloadi8 is an LB; there is no extloadi16.
LoadInstSigned(width, ext) ==
  CASE ext = "none" -> "LW"
    [] width = 1 /\ ext # "none" -> "LB"
    [] width = 2 /\ ext \in {"sext", "any"} -> "LH"
    [] width = 2 /\ ext = "zext" -> "LHU"
    [] OTHER -> "none"
LoadInstNoAny(width, ext) ==
  CASE ext = "none" -> "LW"
    [] width = 1 /\ ext \in {"sext", "any"} -> "LB"
    [] width = 1 /\ ext = "zext" -> "LBU"
    [] width = 2 /\ ext = "sext" -> "LH"
    [] width = 2 /\ ext = "zext" -> "LHU"
    [] OTHER -> "none"

\* LdPat.
LoadInst(width, ext) ==
  CASE ext = "none" -> "LW"
    [] width = 1 /\ ext \in {"sext", "any"} -> "LB"
    [] width = 1 /\ ext = "zext" -> "LBU"
    [] width = 2 /\ ext \in {"sext", "any"} -> "LH"
    [] width = 2 /\ ext = "zext" -> "LHU"
    [] OTHER -> "none"

\* StPat.
StoreInst(width) ==
  CASE width = reg -> "SW" [] width = 1 -> "SB" [] width = 2 -> "SH" [] OTHER -> "none"

InstOf(a, piece) ==
  IF a.kind = "store" THEN StoreInst(piece.width) ELSE LoadInst(piece.width, piece.ext)

\* The bytes an instruction accesses, and whether it extends them as signed.
Footprint == [LB |-> 1, LBU |-> 1, LH |-> 2, LHU |-> 2, LW |-> 4, SB |-> 1, SH |-> 2, SW |-> 4]
Signed    == {"LB", "LH", "LW"}

----------------------------------------------------------------------------
(* Steps.                                                                  *)

\* The next access of the program; it may use the registers of the last one.
Begin ==
  /\ stage = "idle"
  /\ \E s \in Shapes : s.reg = reg /\ access' \in IR!Accesses(s.width, s.align)
  /\ stage' = "access" /\ loaded' = Zeros
  /\ UNCHANGED <<reg, pieces, code, mem, regs>>

Legalise ==
  /\ stage = "access"
  /\ pieces' = Pieces(access) /\ stage' = "pieces"
  /\ UNCHANGED <<reg, access, code, mem, regs, loaded>>

SelectPieces ==
  /\ stage = "pieces" /\ \A p \in pieces : InstOf(access, p) # "none"
  /\ code' = {[off |-> p.off, inst |-> InstOf(access, p)] : p \in pieces}
  /\ pieces' = {} /\ stage' = "code"
  /\ UNCHANGED <<reg, access, mem, regs, loaded>>

\* A piece without a pattern: "Cannot select".
CannotSelect ==
  /\ stage = "pieces" /\ \E p \in pieces : InstOf(access, p) = "none"
  /\ pieces' = {} /\ stage' = "fatal"
  /\ UNCHANGED <<reg, access, code, mem, regs, loaded>>

\* What a load instruction at the address a leaves in its register.
Fetch(inst, a) ==
  [i \in 0 .. reg - 1 |->
     IF i < Footprint[inst] THEN mem[a + i]
     ELSE IF inst \in Signed THEN SignFill(mem[a + Footprint[inst] - 1]) ELSE {}]

\* A piece is loaded, shifted to its place in its register and ORed to the others.
ExecuteLoad ==
  /\ stage = "code" /\ access.kind = "load"
  /\ \E c \in code :
       /\ LET value == Fetch(c.inst, access.addr + c.off)
              top   == (c.off \div reg + 1) * reg - 1
          IN  regs' = [i \in 0 .. 7 |->
                         regs[i] \cup IF i \in c.off .. top THEN value[i - c.off] ELSE {}]
       /\ code' = code \ {c}
  /\ UNCHANGED <<reg, stage, access, pieces, mem, loaded>>

\* A piece of the value is shifted down and stored.
ExecuteStore ==
  /\ stage = "code" /\ access.kind = "store"
  /\ \E c \in code :
       /\ mem' = Overwrite(mem, access.addr + c.off, Footprint[c.inst],
                           [i \in 0 .. 7 - c.off |-> access.value[c.off + i]])
       /\ code' = code \ {c}
  /\ UNCHANGED <<reg, stage, access, pieces, regs, loaded>>

Complete ==
  /\ stage = "code" /\ code = {}
  /\ loaded' = IF access.kind = "load" THEN regs ELSE loaded
  /\ stage' = "idle" /\ access' = IR!Nothing /\ regs' = Zeros
  /\ UNCHANGED <<reg, pieces, code, mem>>

\* There is no program.
Failed == stage = "fatal" /\ UNCHANGED vars

Next ==
  \/ Begin \/ Legalise \/ SelectPieces \/ CannotSelect
  \/ ExecuteLoad \/ ExecuteStore \/ Complete \/ Failed

Spec == Init /\ [][Next]_vars

----------------------------------------------------------------------------
(* Properties.                                                             *)

\* After legalisation a pattern matches every piece of every access, but for words
\* on RV64, which has no LWU and no SW for the low half of a register.
EveryAccessSelectable ==
  stage = "fatal" => reg = 8 /\ PieceWidth(access.width, access.align) = 4

\* The code implements TypedMemory under the refinement mapping IR.
TypedMemoryImplemented == IR!TSpec

\* A store has written every byte of its value when its code has run.
WholeValueStored ==
  stage = "code" /\ code = {} /\ access.kind = "store" =>
    \A i \in 0 .. access.width - 1 : mem[access.addr + i] = access.value[i]
=============================================================================
