----------------------------- MODULE Immediates -----------------------------
(***************************************************************************)
(* The immediates of the instructions: the predicates and transformations  *)
(* of TOYRISCVInstrInfo.td, and the %hi and %lo that symbol operands stand *)
(* for (TOYRISCVMCExpr::evaluateAsInt64).                                  *)
(*                                                                         *)
(* The widths are parameters: LoHalf is 2^11, HiHalf 2^19, and Ext is      *)
(* 2^(XLEN - 32), so 1 on RV32 and 2^32 on RV64.                           *)
(***************************************************************************)
EXTENDS Integers

CONSTANTS LoHalf, HiHalf, Ext

ASSUME WidthAssumption ==
  LoHalf \in Nat \ {0} /\ HiHalf \in Nat \ {0} /\ Ext \in Nat \ {0}

Lo      == 2 * LoHalf         \* a 12-bit immediate has Lo values
Hi      == 2 * HiHalf         \* a 20-bit immediate has Hi values
Half32  == LoHalf * Hi        \* 2^31
Pow32   == Lo * Hi            \* 2^32
XlenMod == Pow32 * Ext        \* 2^XLEN
Word    == 0 .. XlenMod - 1

\* isInt<12> and isInt<32>.
IsInt12(n) == -LoHalf <= n /\ n < LoHalf
IsInt32(n) == -Half32 <= n /\ n < Half32

\* The sign extension of the residue r of `half`'s two's complement.
SignExtend(r, half) == IF r < half THEN r ELSE r - 2 * half

\* N->getZExtValue().
ZExt(n) == n % XlenMod

\* Mutants of HI20: no carry from the low part; not cut to 20 bits.
HI20NoCarry(n) == (ZExt(n) \div Lo) % Hi
HI20Wide(n)    == (ZExt(n) + LoHalf) \div Lo

\* Mutant of LO12Sext: the low part is not sign-extended.
LO12(n) == ZExt(n) % Lo

\* The transformations of the simm32 pattern.
HI20(n)     == ((ZExt(n) + LoHalf) \div Lo) % Hi
LO12Sext(n) == SignExtend(ZExt(n) % Lo, LoHalf)

\* evaluateAsInt64 of VK_RISCV_HI and VK_RISCV_LO.
EvaluateHi(value) == ((value + LoHalf) \div Lo) % Hi
EvaluateLo(value) == SignExtend(value % Lo, LoHalf)

\* What LUI leaves in a register: the immediate at bit 12, sign-extended from bit
\* 31.
LuiValue(imm) == SignExtend(imm * Lo, Half32) % XlenMod

\* What LUI and ADDI cannot load because LUI sign-extends: the last LoHalf values
\* below 2^31 or, for an address, those above, if a register has more than 32 bits.
LuiNegative(n) == Ext > 1 /\ n >= Half32 - LoHalf
=============================================================================
