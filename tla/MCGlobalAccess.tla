--------------------------- MODULE MCGlobalAccess ---------------------------
(***************************************************************************)
(* GlobalAccess with a LoBits-bit low and a HiBits-bit high part: every    *)
(* address and every offset of a register of LoBits + HiBits + ExtBits.    *)
(***************************************************************************)
EXTENDS GlobalAccess

CONSTANTS LoBits, HiBits, ExtBits

MCLoHalf == 2 ^ (LoBits - 1)
MCHiHalf == 2 ^ (HiBits - 1)
MCExt    == 2 ^ ExtBits

MCSymbols == Word
MCOffsets == -(Half32 * Ext) .. Half32 * Ext - 1
=============================================================================
