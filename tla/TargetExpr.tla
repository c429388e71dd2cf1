----------------------------- MODULE TargetExpr -----------------------------
(***************************************************************************)
(* TOYRISCVMCExpr: an operand expression with a variant such as %hi.  The  *)
(* expressions of a unit come one after the other; each is printed, read   *)
(* again by an assembler, evaluated as a constant, and otherwise becomes a *)
(* fixup: its symbols are marked if it is one of thread-local storage, and *)
(* at the end it is evaluated as a relocatable value.                      *)
(*                                                                         *)
(* An expression is the sequence of its nodes in Polish notation, which is *)
(* the order in which a recursive function visits them.                    *)
(***************************************************************************)
EXTENDS Immediates, Operands, SequencesExt

CONSTANTS
  Symbols,   \* the symbols of the unit
  SubExprs,  \* the expressions a variant is put on
  Arguments, \* the machine operands that are lowered to expressions
  MaxExprs   \* how many expressions the unit has

Blank == ""  \* no symbol of a node or a value, and no text

Node(op, sym, val) == [op |-> op, sym |-> sym, val |-> val]

Sym(s)       == <<Node("sym", s, 0)>>
Const(n)     == <<Node("const", Blank, n)>>
Neg(e)       == <<Node("neg", Blank, 0)>> \o e
Bin(op, l, r) == <<Node(op, Blank, 0)>> \o l \o r
Target(kind, e) == <<Node("target", kind, 0)>> \o e

----------------------------------------------------------------------------
(* Variants.                                                               *)

VariantKind ==
  {"VK_RISCV_None", "VK_RISCV_LO", "VK_RISCV_HI", "VK_RISCV_PCREL_LO", "VK_RISCV_PCREL_HI",
   "VK_RISCV_GOT_HI", "VK_RISCV_TPREL_LO", "VK_RISCV_TPREL_HI", "VK_RISCV_TPREL_ADD",
   "VK_RISCV_TLS_GOT_HI", "VK_RISCV_TLS_GD_HI", "VK_RISCV_CALL", "VK_RISCV_CALL_PLT",
   "VK_RISCV_32_PCREL"}

Nodes ==
  [op : {"sym"}, sym : Symbols, val : {0}] \cup [op : {"target"}, sym : VariantKind, val : {0}]
    \cup [op : {"const", "neg", "add", "sub", "mul"}, sym : {Blank}, val : Int]

\* Mutant of VariantKindForName: the names of the two models of TLS are exchanged.
VariantKindForNameCrossed ==
  [lo |-> "VK_RISCV_LO", hi |-> "VK_RISCV_HI", pcrel_lo |-> "VK_RISCV_PCREL_LO",
   pcrel_hi |-> "VK_RISCV_PCREL_HI", got_pcrel_hi |-> "VK_RISCV_GOT_HI",
   tprel_lo |-> "VK_RISCV_TPREL_LO", tprel_hi |-> "VK_RISCV_TPREL_HI",
   tprel_add |-> "VK_RISCV_TPREL_ADD", tls_ie_pcrel_hi |-> "VK_RISCV_TLS_GD_HI",
   tls_gd_pcrel_hi |-> "VK_RISCV_TLS_GOT_HI"]

\* getVariantKindForName; VK_RISCV_Invalid for other names.
VariantKindForName ==
  [lo |-> "VK_RISCV_LO", hi |-> "VK_RISCV_HI", pcrel_lo |-> "VK_RISCV_PCREL_LO",
   pcrel_hi |-> "VK_RISCV_PCREL_HI", got_pcrel_hi |-> "VK_RISCV_GOT_HI",
   tprel_lo |-> "VK_RISCV_TPREL_LO", tprel_hi |-> "VK_RISCV_TPREL_HI",
   tprel_add |-> "VK_RISCV_TPREL_ADD", tls_ie_pcrel_hi |-> "VK_RISCV_TLS_GOT_HI",
   tls_gd_pcrel_hi |-> "VK_RISCV_TLS_GD_HI"]

\* getVariantKindName; unreachable for the others.
VariantKindName ==
  [VK_RISCV_LO |-> "lo", VK_RISCV_HI |-> "hi", VK_RISCV_PCREL_LO |-> "pcrel_lo",
   VK_RISCV_PCREL_HI |-> "pcrel_hi", VK_RISCV_GOT_HI |-> "got_pcrel_hi",
   VK_RISCV_TPREL_LO |-> "tprel_lo", VK_RISCV_TPREL_HI |-> "tprel_hi",
   VK_RISCV_TPREL_ADD |-> "tprel_add", VK_RISCV_TLS_GOT_HI |-> "tls_ie_pcrel_hi",
   VK_RISCV_TLS_GD_HI |-> "tls_gd_pcrel_hi", VK_RISCV_CALL |-> "call",
   VK_RISCV_CALL_PLT |-> "call_plt", VK_RISCV_32_PCREL |-> "32_pcrel"]

\* printImpl: the name before the parenthesis, Blank if there is none, and the suffix
\* behind the expression.
PrintImpl(kind) ==
  LET bare == {"VK_RISCV_None", "VK_RISCV_CALL", "VK_RISCV_CALL_PLT"}
  IN  [name   |-> IF kind \in bare THEN Blank ELSE VariantKindName[kind],
       suffix |-> IF kind = "VK_RISCV_CALL_PLT" THEN "@plt" ELSE Blank]

\* What an assembler that knows these names makes of them.
ReadVariant(text) ==
  CASE text.name # Blank    -> IF text.name \in DOMAIN VariantKindForName
                              THEN VariantKindForName[text.name] ELSE "VK_RISCV_Invalid"
    [] text.suffix = "@plt" -> "VK_RISCV_CALL_PLT"
    [] OTHER                -> "VK_RISCV_None"

----------------------------------------------------------------------------
(* Evaluation.                                                             *)

\* An MCValue, a - b + c.
Value(a, b, c) == [ok |-> TRUE, a |-> a, b |-> b, c |-> c]
NoValue        == [ok |-> FALSE, a |-> Blank, b |-> Blank, c |-> 0]

IsAbsolute(v) == v.ok /\ v.a = Blank /\ v.b = Blank

\* MCExpr::evaluateAsRelocatable without layout, for each sort of expression: no
\* difference is folded, and of each sign there is one symbol at most.
Sum(l, r) ==
  IF ~l.ok \/ ~r.ok \/ (l.a # Blank /\ r.a # Blank) \/ (l.b # Blank /\ r.b # Blank) THEN NoValue
  ELSE Value(IF l.a # Blank THEN l.a ELSE r.a, IF l.b # Blank THEN l.b ELSE r.b, l.c + r.c)

Swapped(v) == IF v.ok THEN Value(v.b, v.a, -v.c) ELSE NoValue

Negated(v) == IF v.a # Blank /\ v.b = Blank THEN NoValue ELSE Swapped(v)

Product(l, r) == IF IsAbsolute(l) /\ IsAbsolute(r) THEN Value(Blank, Blank, l.c * r.c) ELSE NoValue

\* Mutant of EvaluateAsRelocatable: differences are valid with every variant.
EvaluateAsRelocatableAny(kind, v) == v

\* TOYRISCVMCExpr::evaluateAsRelocatableImpl, given the value of its subexpression:
\* "Custom fixup types are not valid with symbol difference expressions."
EvaluateAsRelocatable(kind, v) == IF v.b # Blank /\ kind # "VK_RISCV_None" THEN NoValue ELSE v

\* One node on the values of what follows it.
Reduce(node, values) ==
  LET l == values[1]
      r == values[2]
  IN  CASE node.op = "sym"    -> <<Value(node.sym, Blank, 0)>> \o values
        [] node.op = "const"  -> <<Value(Blank, Blank, node.val)>> \o values
        [] node.op = "neg"    -> <<Negated(l)>> \o Tail(values)
        [] node.op = "add"    -> <<Sum(l, r)>> \o Tail(Tail(values))
        [] node.op = "sub"    -> <<Sum(l, Swapped(r))>> \o Tail(Tail(values))
        [] node.op = "mul"    -> <<Product(l, r)>> \o Tail(Tail(values))
        [] node.op = "target" -> <<EvaluateAsRelocatable(node.sym, l)>> \o Tail(values)

\* What the rest of an expression from each of its nodes on leaves on the stack.
Values(e) ==
  LET from[k \in 1 .. Len(e) + 1] ==
        IF k > Len(e) THEN <<>> ELSE Reduce(e[k], from[k + 1])
  IN  from

Evaluate(e) == Values(e)[1][1]

Arity(op) == CASE op \in {"sym", "const"} -> 0 [] op \in {"neg", "target"} -> 1 [] OTHER -> 2

\* No operator lacks an operand, and no operand an operator.
IsExpr(e) ==
  /\ e \in Seq(Nodes) /\ Len(Values(e)[1]) = 1
  /\ \A k \in DOMAIN e : Len(Values(e)[k + 1]) >= Arity(e[k].op)

\* evaluateAsInt64; unreachable with other variants.
EvaluateAsInt64(kind, n) ==
  CASE kind = "VK_RISCV_LO" -> [result |-> "constant", value |-> EvaluateLo(n)]
    [] kind = "VK_RISCV_HI" -> [result |-> "constant", value |-> EvaluateHi(n)]
    [] OTHER                -> [result |-> "unreachable", value |-> 0]

\* Mutant of Relocated: the calls are missing.
RelocatedButCalls ==
  {"VK_RISCV_PCREL_HI", "VK_RISCV_PCREL_LO", "VK_RISCV_GOT_HI", "VK_RISCV_TPREL_HI",
   "VK_RISCV_TPREL_LO", "VK_RISCV_TPREL_ADD", "VK_RISCV_TLS_GOT_HI", "VK_RISCV_TLS_GD_HI"}

\* The variants evaluateAsConstant leaves to relocations.
Relocated ==
  {"VK_RISCV_PCREL_HI", "VK_RISCV_PCREL_LO", "VK_RISCV_GOT_HI", "VK_RISCV_TPREL_HI",
   "VK_RISCV_TPREL_LO", "VK_RISCV_TPREL_ADD", "VK_RISCV_TLS_GOT_HI", "VK_RISCV_TLS_GD_HI",
   "VK_RISCV_CALL", "VK_RISCV_CALL_PLT"}

EvaluateAsConstant(kind, sub) ==
  IF kind \notin Relocated /\ IsAbsolute(Evaluate(sub))
  THEN EvaluateAsInt64(kind, Evaluate(sub).c)
  ELSE [result |-> "none", value |-> 0]

----------------------------------------------------------------------------
IsOperand(a) ==
  \/ a.kind \in SymbolKinds /\ a.what \in OperandFlag /\ a.val \in Int
  \/ a.kind \in OtherKinds

\* Symbols have names, and expressions are made by the constructors of LLVM.
ASSUME ExprAssumption ==
  /\ Blank \notin Symbols
  /\ \A e \in SubExprs : IsExpr(e)
  /\ \A a \in Arguments : IsOperand(a)
  /\ MaxExprs \in Nat

----------------------------------------------------------------------------
VARIABLES
  unit,     \* how many expressions there were
  stage,    \* where the present one is
  arg,      \* the machine operand it comes from, or Built
  expr,     \* the expression, <<>> between two of them
  todo,     \* the nodes the marking still has to visit
  types,    \* the ELF types of the symbols
  result,   \* what the last evaluation of expr gave
  threads   \* the symbols that occurred in fixups of TLS (history)

Built == Operand("built", "", 0)

vars == <<unit, stage, arg, expr, todo, types, result, threads>>

Init ==
  /\ unit = 0 /\ stage = "idle" /\ arg = Built /\ expr = <<>> /\ todo = <<>>
  /\ types = [s \in Symbols |-> "STT_NOTYPE"] /\ result = "none" /\ threads = {}

Kind == expr[1].sym
Sub  == Tail(expr)

HasVariant(o) == o.kind = "expr" /\ o.what # "VK_RISCV_None"

SymbolsOf(e) == {e[k].sym : k \in {j \in DOMAIN e : e[j].op = "sym"}}

\* TOYRISCVMCExpr::create on any expression.
Create(kind, sub) ==
  /\ stage = "idle" /\ unit < MaxExprs
  /\ expr' = Target(kind, sub) /\ stage' = "created" /\ unit' = unit + 1
  /\ UNCHANGED <<arg, todo, types, result, threads>>

\* The operand of an instruction is lowered, one way or the other, if its flag is one
\* that lowerSymbolOperand knows.  A symbol with a variant becomes an expression of
\* this class; other operands are not followed.
LowerOperand(a, lowered, s) ==
  /\ stage = "idle" /\ unit < MaxExprs
  /\ arg' = a /\ unit' = unit + 1
  /\ \/ /\ lowered.end # "lowered" /\ stage' = lowered.end /\ UNCHANGED expr
     \/ /\ lowered.end = "lowered" /\ \A o \in ToSet(lowered.operands) : ~HasVariant(o)
        /\ stage' = "done" /\ UNCHANGED expr
     \/ \E o \in ToSet(lowered.operands) : HasVariant(o)
        /\ stage' = "created"
        /\ expr' = Target(o.what, IF o.val = 0 THEN Sym(s) ELSE Bin("add", Sym(s), Const(o.val)))
  /\ UNCHANGED <<todo, types, result, threads>>

LowerInInstruction(a, s) == LowerOperand(a, LowerInstrOperand(a), s)
LowerInPseudo(a, s)      == LowerOperand(a, LowerPseudoOperand(a), s)

\* printImpl, and an assembler.
PrintAndRead ==
  /\ stage = "created" /\ stage' = "read"
  /\ result' = ReadVariant(PrintImpl(Kind))
  /\ UNCHANGED <<unit, arg, expr, todo, types, threads>>

\* evaluateAsConstant; what is no constant is left to a fixup.
AskForConstant ==
  /\ stage = "read"
  /\ result' = EvaluateAsConstant(Kind, Sub).result
  /\ stage' = CASE result' = "none" -> "fixup" [] result' = "constant" -> "done"
                [] OTHER -> "unreachable"
  /\ UNCHANGED <<unit, arg, expr, todo, types, threads>>

\* fixELFSymbolsInTLSFixups: the variants whose symbols are thread-local.
TLSKinds == {"VK_RISCV_TPREL_HI", "VK_RISCV_TLS_GOT_HI", "VK_RISCV_TLS_GD_HI"}

FixELFSymbolsInTLSFixups ==
  /\ stage = "fixup" /\ stage' = "marking"
  /\ todo' = IF Kind \in TLSKinds THEN Sub ELSE <<>>
  /\ threads' = threads \cup (IF Kind \in TLSKinds THEN SymbolsOf(Sub) ELSE {})
  /\ UNCHANGED <<unit, arg, expr, types, result>>

\* Mutant of MarkNode: the first symbol is the only one.
MarkNodeOnce ==
  /\ stage = "marking" /\ todo # <<>>
  /\ \/ /\ Head(todo).op = "target" /\ stage' = "unreachable"
        /\ UNCHANGED <<todo, types>>
     \/ /\ Head(todo).op = "sym" /\ types' = [types EXCEPT ![Head(todo).sym] = "STT_TLS"]
        /\ todo' = <<>> /\ UNCHANGED stage
     \/ /\ Head(todo).op \notin {"target", "sym"}
        /\ todo' = Tail(todo) /\ UNCHANGED <<stage, types>>
  /\ UNCHANGED <<unit, arg, expr, result, threads>>

\* fixELFSymbolsInTLSFixupsImpl on one node: a symbol is marked, an operator or a
\* constant passed, "Can't handle nested target expression".
MarkNode ==
  /\ stage = "marking" /\ todo # <<>>
  /\ \/ /\ Head(todo).op = "target" /\ stage' = "unreachable"
        /\ UNCHANGED <<todo, types>>
     \/ /\ Head(todo).op = "sym" /\ types' = [types EXCEPT ![Head(todo).sym] = "STT_TLS"]
        /\ todo' = Tail(todo) /\ UNCHANGED stage
     \/ /\ Head(todo).op \notin {"target", "sym"}
        /\ todo' = Tail(todo) /\ UNCHANGED <<stage, types>>
  /\ UNCHANGED <<unit, arg, expr, result, threads>>

\* The fixup is resolved; "expected relocatable expression" if it has no value.
Relocate ==
  /\ stage = "marking" /\ todo = <<>> /\ stage' = "done"
  /\ result' = IF Evaluate(expr).ok THEN "relocation" ELSE "refused"
  /\ UNCHANGED <<unit, arg, expr, todo, types, threads>>

\* The next expression.
Forget ==
  /\ stage = "done" /\ stage' = "idle" /\ arg' = Built /\ expr' = <<>> /\ result' = "none"
  /\ UNCHANGED <<unit, todo, types, threads>>

Finished ==
  /\ stage \in {"unreachable", "fatal"} \/ (stage = "idle" /\ unit = MaxExprs)
  /\ UNCHANGED vars

Next ==
  \/ \E kind \in VariantKind, sub \in SubExprs : Create(kind, sub)
  \/ \E a \in Arguments, s \in Symbols : LowerInInstruction(a, s) \/ LowerInPseudo(a, s)
  \/ PrintAndRead \/ AskForConstant \/ FixELFSymbolsInTLSFixups \/ MarkNode \/ Relocate
  \/ Forget \/ Finished

Spec == Init /\ [][Next]_vars

----------------------------------------------------------------------------
(* Properties.                                                             *)

\* Between two fixups exactly the symbols are thread-local that have occurred under
\* a variant of TLS, however deep in the expression and however often before.
MarkedExactly ==
  stage \notin {"marking", "unreachable"} =>
    threads = {s \in Symbols : types[s] = "STT_TLS"}

\* "We're known to be under a TLS fixup, so any symbol should be modified. There
\* should be only one": so it is in each fixup that is resolved, and its
\* relocation is against that symbol.
OneSymbol ==
  result = "relocation" /\ Kind # "VK_RISCV_None" =>
    SymbolsOf(Sub) \subseteq {Evaluate(expr).a} /\ Evaluate(expr).b = Blank

\* What printImpl writes is read as the variant it was; a call has it in its
\* mnemonic, and the table of names has nothing for 32_pcrel.
ReadBack ==
  stage = "read" =>
    result = CASE Kind = "VK_RISCV_CALL"     -> "VK_RISCV_None"
               [] Kind = "VK_RISCV_32_PCREL" -> "VK_RISCV_Invalid"
               [] OTHER                      -> Kind

\* Of the operands of machine instructions, only a symbol with the flag MO_PLT leads to
\* llvm_unreachable, in lowerSymbolOperand; the flags the lowering sets
\* (TOYRISCVISelLowering.cpp:146-147) do not, nor does what an operand has become.  Of
\* the expressions the class can hold, constants with the variants that
\* evaluateAsConstant forgets do, and an expression of the class in one of TLS.
UnreachableBuilt ==
  stage = "unreachable" =>
    IF arg # Built
    THEN arg.kind \in SymbolKinds /\ arg.what = "MO_PLT" /\ expr = <<>>
    ELSE \/ Kind \in {"VK_RISCV_None", "VK_RISCV_32_PCREL"} /\ IsAbsolute(Evaluate(Sub))
         \/ Kind \in TLSKinds /\ \E k \in DOMAIN Sub : Sub[k].op = "target"

\* An operand becomes the same in an instruction and in a pseudo instruction: a
\* PseudoBR branches where the branch it stands for would.  The symbol of a block
\* has no variant in an instruction, and what only pseudos may have is an error.
LoweringsAgree ==
  arg # Built /\ LowerInstrOperand(arg) # Fatal /\ ~(arg.kind = "mbb" /\ arg.what # "MO_None") =>
    LowerPseudoOperand(arg) = LowerInstrOperand(arg)
=============================================================================
