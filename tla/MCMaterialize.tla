---------------------------- MODULE MCMaterialize ----------------------------
(***************************************************************************)
(* Materialize with a LoBits-bit low and a HiBits-bit high part, on every  *)
(* constant and every address of a register of LoBits + HiBits + ExtBits.  *)
(***************************************************************************)
EXTENDS Materialize

CONSTANTS LoBits, HiBits, ExtBits

MCLoHalf == 2 ^ (LoBits - 1)
MCHiHalf == 2 ^ (HiBits - 1)
MCExt    == 2 ^ ExtBits
============================================================================
