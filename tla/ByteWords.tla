------------------------------ MODULE ByteWords ------------------------------
(***************************************************************************)
(* Bytes and words of bytes, little endian.  A byte is a set of bits, so   *)
(* that an OR is a union; the byte 0 of a word is its lowest.              *)
(***************************************************************************)
EXTENDS Integers

CONSTANTS
  Bits,    \* the bits of a byte
  Sign,    \* the highest of them
  MemSize, \* bytes of memory
  Values   \* the values that are stored

ASSUME WordAssumption ==
  Sign \in Bits /\ MemSize \in Nat

Byte    == SUBSET Bits
Address == 0 .. MemSize - 1
Memory  == [Address -> Byte]

\* Eight bytes: a register of RV64, or two of RV32, over which an i64 is split.
Pair  == [0 .. 7 -> Byte]
Zeros == [i \in 0 .. 7 |-> {}]

ASSUME ValuesAssumption == Values \subseteq Pair

\* The byte that continues byte b upwards in a signed number.
SignFill(b) == IF Sign \in b THEN Bits ELSE {}

\* `memory` with `width` bytes of `value` at the address a.
Overwrite(memory, a, width, value) ==
  [i \in Address |-> IF i \in a .. a + width - 1 THEN value[i - a] ELSE memory[i]]
=============================================================================
