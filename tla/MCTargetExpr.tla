---------------------------- MODULE MCTargetExpr ----------------------------
(***************************************************************************)
(* TargetExpr with two symbols, every expression of one operator on them   *)
(* and two constants, many of two, and every kind of operand and flag.     *)
(***************************************************************************)
EXTENDS TargetExpr

Names  == {Sym(s) : s \in Symbols}
Leaves == Names \cup {Const(0), Const(2)}
One    == {Neg(e) : e \in Leaves} \cup {Target("VK_RISCV_LO", e) : e \in Leaves}
            \cup {Bin(op, l, r) : op \in {"add", "sub", "mul"}, l, r \in Leaves}
Two    == {Neg(e) : e \in One} \cup {Bin(op, l, r) : op \in {"add", "sub"}, l \in One, r \in Names}
            \cup {Bin("sub", l, r) : l \in Names, r \in One}

MCSubExprs == Leaves \cup One \cup Two

MCArguments ==
  {Operand(kind, flag, off) : kind \in SymbolKinds \ NoOffset, flag \in OperandFlag, off \in {0, 2}}
    \cup {Operand(kind, flag, 0) : kind \in NoOffset, flag \in OperandFlag}
    \cup {Operand(kind, "", 1) : kind \in OtherKinds}
=============================================================================
