---------------------------- MODULE MCFunctionCall ----------------------------
(***************************************************************************)
(* FunctionCall with one register of each kind to allocate, up to three    *)
(* stack objects, and offsets that may be too large.                       *)
(***************************************************************************)
EXTENDS FunctionCall

MCPool        == {"A0", "A1", "T0", "S1", "TP", "RA"}
MCObjectLists == {<<>>} \cup {<<m>> : m \in {8, 40}} \cup {<<m, n>> : m, n \in {4, 8, 24}}
                   \cup {<<4, 1, 24>>}
=============================================================================
