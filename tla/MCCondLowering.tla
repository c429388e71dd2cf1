--------------------------- MODULE MCCondLowering ---------------------------
(***************************************************************************)
(* CondLowering on words of Width bits.  Every pair of compared words is   *)
(* tried; the selected values are taken from the ends of the range, where  *)
(* the difference of one wraps.                                            *)
(***************************************************************************)
EXTENDS CondLowering

CONSTANT Width

MCHalf == 2 ^ (Width - 1)

Payload == [const : BOOLEAN, val : {0, 1, Half, 2 * Half - 1}]

\* A branch and a SETCC have no payload, a condition that is no SETCC no rhs.
MCInit ==
  /\ \E o \in SourceOp, c \in SetCC \cup {"NONZERO"} :
     \E x \in IF c = "NONZERO" THEN [const : BOOLEAN, val : {0, 1}] ELSE Operand,
        y \in IF c = "NONZERO" THEN {Const(0)} ELSE Operand,
        a \in IF o = "SELECT" THEN Payload ELSE {Const(0)},
        b \in IF o = "SELECT" THEN Payload ELSE {Const(0)} :
       /\ ~(o = "SETCC" /\ c = "NONZERO")
       /\ src = [op |-> o, lhs |-> x, rhs |-> y, cc |-> c, t |-> a, f |-> b]
  /\ node = src

MCSpec == MCInit /\ [][Next]_vars
============================================================================
