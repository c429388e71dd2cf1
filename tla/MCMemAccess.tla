----------------------------- MODULE MCMemAccess -----------------------------
(***************************************************************************)
(* MemAccess with bytes of one bit, which is also their sign, and values   *)
(* in which neighbouring bytes, halves and words differ.                   *)
(***************************************************************************)
EXTENDS MemAccess

MCBits   == {Sign}
MCValues == {[i \in 0 .. 7 |-> IF (i \div n) % 2 = 0 THEN MCBits ELSE {}] : n \in {1, 2, 4, 8}}

\* Every shape but the aligned i64 of RV64, and that one alone.
Wide     == [reg |-> 8, width |-> 8, align |-> 8]
MCShapes == [reg : {4, 8}, width : {1, 2, 4, 8}, align : {1, 2, 4, 8}] \ {Wide}
MCWide   == {Wide}
=============================================================================
