-------------------------- MODULE TargetExpr_proof --------------------------
(***************************************************************************)
(* Expressions of the class TOYRISCVMCExpr, for units of any length, any   *)
(* symbols and operands, and expressions of any depth.                     *)
(*                                                                         *)
(* ExprInv says what each stage knows: where the expression comes from     *)
(* (Formed), what the last evaluation made of it (ResultIs), and, while    *)
(* symbols are marked, that those to come are those of the nodes to visit  *)
(* (Visiting).  What evaluation computes is shown node by node, from the   *)
(* end of an expression to its beginning (HaveSymbols).                    *)
(***************************************************************************)
EXTENDS TargetExpr, SequenceTheorems, NaturalsInduction, WellFoundedInduction, TLAPS

----------------------------------------------------------------------------
(* Expressions and their nodes.                                            *)

LEMMA NodeIs ==
  /\ \A s \in Symbols : Node("sym", s, 0) \in Nodes
  /\ \A kind \in VariantKind : Node("target", kind, 0) \in Nodes
  /\ \A op \in {"const", "neg", "add", "sub", "mul"}, c \in Int : Node(op, Blank, c) \in Nodes
BY DEF Node, Nodes

LEMMA NodeKinds ==
  ASSUME NEW n \in Nodes
  PROVE  /\ n.op \in {"sym", "const", "neg", "add", "sub", "mul", "target"}
         /\ n.op = "sym" => n.sym \in Symbols
BY DEF Nodes

LEMMA TargetIs ==
  ASSUME NEW kind \in VariantKind, NEW e \in Seq(Nodes)
  PROVE  /\ Target(kind, e) \in Seq(Nodes) /\ Len(Target(kind, e)) = Len(e) + 1
         /\ Target(kind, e)[1] = Node("target", kind, 0) /\ Target(kind, e)[1].sym = kind
         /\ \A k \in 1 .. Len(e) : Target(kind, e)[k + 1] = e[k]
         /\ Tail(Target(kind, e)) = e
<1> DEFINE n == Node("target", kind, 0)
<1>1. n \in Nodes /\ n.sym = kind /\ Target(kind, e) = <<n>> \o e
  BY NodeIs DEF Target, Node
<1> HIDE DEF n
<1>2. \A k \in 1 .. Len(e) : (<<n>> \o e)[k + 1] = e[k]
  BY <1>1
<1>3. (<<n>> \o e)[1] = n /\ <<n>> \o e \in Seq(Nodes) /\ Len(<<n>> \o e) = Len(e) + 1
  BY <1>1
<1>4. Tail(<<n>> \o e) = e
  BY <1>1, <1>2, <1>3, HeadTailProperties, ConcatProperties
<1> QED BY <1>1, <1>2, <1>3, <1>4 DEF n

\* What a machine operand becomes: a symbol, or a symbol and an offset.
Lowerable(e) == \E s \in Symbols : e = Sym(s) \/ \E c \in Int : e = Bin("add", Sym(s), Const(c))

LEMMA SymIs ==
  ASSUME NEW s \in Symbols, NEW c \in Int
  PROVE  /\ Sym(s) \in Seq(Nodes) /\ Len(Sym(s)) = 1 /\ Sym(s)[1] = Node("sym", s, 0)
         /\ LET e == Bin("add", Sym(s), Const(c))
            IN  /\ e \in Seq(Nodes) /\ Len(e) = 3 /\ e[1] = Node("add", Blank, 0)
                /\ e[2] = Node("sym", s, 0) /\ e[3] = Node("const", Blank, c)
<1> DEFINE x == Node("sym", s, 0)
           y == Node("const", Blank, c)
           z == Node("add", Blank, 0)
<1>1. x \in Nodes /\ y \in Nodes /\ z \in Nodes
  BY NodeIs
<1>2. Sym(s) = <<x>> /\ Bin("add", Sym(s), Const(c)) = <<z>> \o <<x>> \o <<y>>
  BY DEF Sym, Bin, Const
<1> HIDE DEF x, y, z
<1>3. <<x>> \in Seq(Nodes) /\ <<y>> \in Seq(Nodes) /\ <<z>> \in Seq(Nodes)
      /\ Len(<<x>>) = 1 /\ Len(<<y>>) = 1 /\ Len(<<z>>) = 1
      /\ <<x>>[1] = x /\ <<y>>[1] = y /\ <<z>>[1] = z
  BY <1>1
<1> DEFINE p == <<z>> \o <<x>>
           q == p \o <<y>>
<1>4. p \in Seq(Nodes) /\ Len(p) = 2 /\ p[1] = z /\ p[2] = x
  BY <1>3, ConcatProperties
<1> HIDE DEF p
<1>5. q \in Seq(Nodes) /\ Len(q) = 3 /\ q[1] = z /\ q[2] = x /\ q[3] = y
  <2> DEFINE r == <<y>>
  <2>1. r \in Seq(Nodes) /\ Len(r) = 1 /\ r[1] = y /\ q = p \o r  BY <1>3
  <2> HIDE DEF q, r
  <2>2. /\ q \in Seq(Nodes) /\ Len(q) = Len(p) + Len(r)
        /\ \A i \in 1 .. Len(p) + Len(r) : q[i] = IF i <= Len(p) THEN p[i] ELSE r[i - Len(p)]
    BY <1>4, <2>1, ConcatProperties
  <2>3. \A i \in 1 .. 3 : q[i] = IF i <= 2 THEN p[i] ELSE r[i - 2]
    BY <1>4, <2>1, <2>2
  <2>4. q[1] = p[1] /\ q[2] = p[2] /\ q[3] = r[1]  BY <2>3
  <2> QED BY <1>4, <2>1, <2>2, <2>4
<1>6. q = Bin("add", Sym(s), Const(c))  BY <1>2 DEF p
<1> HIDE DEF q
<1>7. /\ Sym(s) \in Seq(Nodes) /\ Len(Sym(s)) = 1 /\ Sym(s)[1] = Node("sym", s, 0)
  BY <1>2, <1>3 DEF x
<1>8. /\ q[1] = Node("add", Blank, 0) /\ q[2] = Node("sym", s, 0) /\ q[3] = Node("const", Blank, c)
  BY <1>5 DEF x, y, z
<1> QED BY <1>5, <1>6, <1>7, <1>8

LEMMA LowerableNodes ==
  ASSUME NEW e, Lowerable(e)
  PROVE  e \in Seq(Nodes) /\ \A k \in DOMAIN e : e[k].op # "target"
<1>1. PICK s \in Symbols : e = Sym(s) \/ \E c \in Int : e = Bin("add", Sym(s), Const(c))
  BY DEF Lowerable
<1>2. CASE e = Sym(s)
  <2>1. e \in Seq(Nodes) /\ Len(e) = 1 /\ e[1] = Node("sym", s, 0)
    BY <1>2, SymIs
  <2>2. e[1].op = "sym"  BY <2>1 DEF Node
  <2> QED BY <2>1, <2>2
<1>3. ASSUME NEW c \in Int, e = Bin("add", Sym(s), Const(c))
      PROVE e \in Seq(Nodes) /\ \A k \in DOMAIN e : e[k].op # "target"
  <2>1. /\ e \in Seq(Nodes) /\ Len(e) = 3 /\ e[1] = Node("add", Blank, 0)
        /\ e[2] = Node("sym", s, 0) /\ e[3] = Node("const", Blank, c)
    BY <1>3, SymIs
  <2>2. e[1].op = "add" /\ e[2].op = "sym" /\ e[3].op = "const"
    BY <2>1 DEF Node
  <2> QED BY <2>1, <2>2
<1> QED BY <1>1, <1>2, <1>3

LEMMA SymbolsOfTail ==
  ASSUME NEW e \in Seq(Nodes), e # <<>>
  PROVE  /\ Tail(e) \in Seq(Nodes) /\ Head(e) \in Nodes
         /\ \A k \in DOMAIN Tail(e) : Tail(e)[k] = e[k + 1] /\ k + 1 \in DOMAIN e
         /\ SymbolsOf(e) = SymbolsOf(Tail(e)) \cup (IF Head(e).op = "sym" THEN {Head(e).sym} ELSE {})
<1>1. /\ Tail(e) \in Seq(Nodes) /\ Len(Tail(e)) = Len(e) - 1 /\ Head(e) = e[1] /\ e[1] \in Nodes
      /\ Len(e) \in Nat \ {0} /\ \A k \in 1 .. Len(e) - 1 : Tail(e)[k] = e[k + 1]
  OBVIOUS
<1>2. DOMAIN e = 1 .. Len(e) /\ DOMAIN Tail(e) = 1 .. Len(e) - 1
  BY <1>1
<1> DEFINE t == Tail(e)
           n == Len(e)
           h == Head(e)
<1> HIDE DEF t, n, h
<1>3. ASSUME NEW s  PROVE s \in SymbolsOf(e) <=> s \in SymbolsOf(t) \/ (h.op = "sym" /\ s = h.sym)
  <2>1. s \in SymbolsOf(e) <=> \E k \in 1 .. n : e[k].op = "sym" /\ s = e[k].sym
    BY <1>2 DEF SymbolsOf, n
  <2>2. s \in SymbolsOf(t) <=> \E k \in 1 .. n - 1 : t[k].op = "sym" /\ s = t[k].sym
    BY <1>2 DEF SymbolsOf, n, t
  <2>3. \A k \in 1 .. n - 1 : t[k] = e[k + 1]  BY <1>1 DEF t, n
  <2>4. n \in Nat \ {0} /\ h = e[1]  BY <1>1 DEF n, h
  <2>5. \A k \in 1 .. n : k = 1 \/ (k - 1 \in 1 .. n - 1 /\ e[k] = t[k - 1])
    <3> TAKE k \in 1 .. n
    <3> QED BY <2>3, <2>4
  <2>6. \A k \in 1 .. n - 1 : k + 1 \in 1 .. n  BY <2>4
  <2>7. ASSUME NEW k \in 1 .. n, e[k].op = "sym", s = e[k].sym
        PROVE  (\E j \in 1 .. n - 1 : t[j].op = "sym" /\ s = t[j].sym) \/ (h.op = "sym" /\ s = h.sym)
    BY <2>4, <2>5, <2>7
  <2>8. (h.op = "sym" /\ s = h.sym) => \E k \in 1 .. n : e[k].op = "sym" /\ s = e[k].sym
    BY <2>4
  <2> HIDE DEF h
  <2> QED BY <2>1, <2>2, <2>3, <2>6, <2>7, <2>8
<1>4. \A k \in DOMAIN t : t[k] = e[k + 1] /\ k + 1 \in DOMAIN e
  BY <1>1, <1>2 DEF t
<1> QED BY <1>1, <1>3, <1>4 DEF t, h

----------------------------------------------------------------------------
(* What each stage knows of the expression and of the symbols.             *)

OperandVariants == {"VK_RISCV_CALL", "VK_RISCV_LO", "VK_RISCV_HI", "VK_RISCV_PCREL_LO", "VK_RISCV_PCREL_HI"}

\* The expression is one that was built, or one that an operand became.
Formed ==
  /\ Kind \in VariantKind /\ Sub \in Seq(Nodes) /\ expr = Target(Kind, Sub)
  /\ \/ arg = Built /\ Sub \in SubExprs
     \/ arg \in Arguments /\ Kind \in OperandVariants /\ Lowerable(Sub)

\* What became of it.
ResultIs ==
  CASE stage \in {"idle", "created", "fixup", "marking", "fatal"} -> result = "none"
    [] stage = "read" -> result = ReadVariant(PrintImpl(Kind))
    [] stage = "unreachable" -> result \in {"none", "unreachable"}
    [] stage = "done" ->
         \/ result \in {"none", "constant", "refused"}
         \/ result = "relocation" /\ Formed /\ Evaluate(expr).ok

Marked == {s \in Symbols : types[s] = "STT_TLS"}

\* What is to be marked still is among the nodes to visit, which are of the expression.
Visiting ==
  /\ todo \in Seq(Nodes) /\ threads = Marked \cup SymbolsOf(todo)
  /\ todo # <<>> => Kind \in TLSKinds
  /\ \A k \in DOMAIN todo : \E j \in DOMAIN Sub : todo[k] = Sub[j]

ExprInv ==
  /\ stage \in {"idle", "created", "read", "fixup", "marking", "done", "fatal", "unreachable"}
  /\ arg \in Arguments \cup {Built}
  /\ types \in [Symbols -> {"STT_NOTYPE", "STT_TLS"}]
  /\ stage = "idle" => arg = Built /\ expr = <<>>
  /\ stage \in {"created", "read", "fixup", "marking"} => Formed
  /\ ResultIs
  /\ IF stage = "marking" THEN Visiting ELSE stage # "unreachable" => threads = Marked
  /\ UnreachableBuilt

LEMMA OperandsAre ==
  ASSUME NEW a \in Arguments,
         NEW lowered \in {LowerInstrOperand(a), LowerPseudoOperand(a)},
         NEW o \in ToSet(lowered.operands), HasVariant(o)
  PROVE  o.what \in OperandVariants /\ o.val \in Int
<1>1. IsOperand(a)  BY ExprAssumption
<1> DEFINE e == Expr(VariantOf[a.what], IF a.kind \in NoOffset THEN 0 ELSE a.val)
<1>2. lowered.operands \in {<<>>, <<a>>, <<Expr("VK_RISCV_None", 0)>>}
        \/ (lowered.operands = <<e>> /\ a.what \in DOMAIN VariantOf)
  <2>1. LowerSymbolOperand(a) = Unreachable
          \/ (LowerSymbolOperand(a) = Lowered(<<e>>) /\ a.what \in DOMAIN VariantOf)
    BY Zenon DEF LowerSymbolOperand
  <2>2. lowered \in {Lowered(<<>>), Lowered(<<a>>), Lowered(<<Expr("VK_RISCV_None", 0)>>), Fatal,
                     LowerSymbolOperand(a)}
    BY DEF LowerInstrOperand, LowerPseudoOperand
  <2> HIDE DEF e
  <2> QED BY <2>1, <2>2 DEF Lowered, Fatal, Unreachable
<1> HIDE DEF e
<1>3. \A x, y : y \in ToSet(<<x>>) => y = x
  BY DEF ToSet
<1>4. \A y : y \notin ToSet(<<>>)
  BY DEF ToSet
<1>5. o \in {a, Expr("VK_RISCV_None", 0)} \/ (o = e /\ a.what \in DOMAIN VariantOf)
  BY <1>2, <1>3, <1>4
<1>6. o.kind = "expr" /\ o.what # "VK_RISCV_None"  BY DEF HasVariant
<1>7. a.kind # "expr"  BY <1>1 DEF IsOperand, SymbolKinds, NoOffset, OtherKinds
<1>8. CASE a.kind \in OtherKinds
  <2>1. lowered.operands \in {<<>>, <<a>>}
    BY <1>8 DEF LowerInstrOperand, LowerPseudoOperand, Lowered, Fatal, SymbolKinds, OtherKinds, NoOffset
  <2> QED BY <1>3, <1>4, <1>6, <1>7, <2>1
<1>9. CASE a.kind \in SymbolKinds /\ a.what \in OperandFlag /\ a.val \in Int
  <2>1. o = e /\ a.what \in DOMAIN VariantOf
    <3>1. Expr("VK_RISCV_None", 0).what = "VK_RISCV_None"  BY DEF Expr, Operand
    <3> QED BY <1>5, <1>6, <1>7, <3>1
  <2>2. o.what = VariantOf[a.what] /\ o.val \in Int
    BY <1>9, <2>1 DEF e, Expr, Operand
  <2> QED BY <1>6, <2>1, <2>2 DEF VariantOf, OperandVariants
<1> QED BY <1>1, <1>8, <1>9 DEF IsOperand

\* Lowering itself is unreachable for symbols with the one flag that has no case.
LEMMA LoweringEnds ==
  ASSUME NEW a \in Arguments,
         NEW lowered \in {LowerInstrOperand(a), LowerPseudoOperand(a)}
  PROVE  /\ lowered.end \in {"lowered", "fatal", "unreachable"}
         /\ lowered.end = "unreachable" => a.kind \in SymbolKinds /\ a.what = "MO_PLT"
<1>1. /\ \A seq : Lowered(seq).end = "lowered"
      /\ Fatal.end = "fatal" /\ Unreachable.end = "unreachable"
  BY DEF Lowered, Fatal, Unreachable
<1>2. \/ \E seq : lowered = Lowered(seq)
      \/ lowered = Fatal
      \/ lowered = LowerSymbolOperand(a) /\ a.kind \in SymbolKinds
  <2>1. CASE lowered = LowerInstrOperand(a)
    BY <2>1 DEF LowerInstrOperand, SymbolKinds
  <2>2. CASE lowered = LowerPseudoOperand(a)
    <3>1. CASE a.kind \in SymbolKinds
      <4>1. a.kind \notin {"implicit", "regmask", "reg", "imm"}
        BY <3>1 DEF SymbolKinds, NoOffset
      <4> QED BY <2>2, <3>1, <4>1 DEF LowerPseudoOperand
    <3>2. CASE a.kind \notin SymbolKinds
      BY <2>2, <3>2 DEF LowerPseudoOperand
    <3> QED BY <3>1, <3>2
  <2> QED BY <2>1, <2>2
<1>3. CASE lowered = LowerSymbolOperand(a) /\ a.kind \in SymbolKinds
  <2>1. lowered.end = "lowered" \/ (lowered.end = "unreachable" /\ a.what \notin DOMAIN VariantOf)
    <3>1. (\E seq : lowered = Lowered(seq)) \/ (lowered = Unreachable /\ a.what \notin DOMAIN VariantOf)
      BY <1>3, Zenon DEF LowerSymbolOperand
    <3> QED BY <1>1, <3>1
  <2>2. a.what \in OperandFlag
    BY <1>3, ExprAssumption DEF IsOperand, SymbolKinds, NoOffset, OtherKinds
  <2> QED BY <1>3, <2>1, <2>2 DEF OperandFlag, VariantOf
<1> QED BY <1>1, <1>2, <1>3

LEMMA OperandExpr ==
  ASSUME NEW s \in Symbols, NEW kind \in VariantKind, NEW c \in Int
  PROVE  LET e == IF c = 0 THEN Sym(s) ELSE Bin("add", Sym(s), Const(c))
         IN  /\ e \in Seq(Nodes) /\ Lowerable(e)
             /\ Target(kind, e)[1].sym = kind /\ Tail(Target(kind, e)) = e
<1> DEFINE e == IF c = 0 THEN Sym(s) ELSE Bin("add", Sym(s), Const(c))
<1>1. Lowerable(e)  BY DEF Lowerable
<1> HIDE DEF e
<1>2. e \in Seq(Nodes)  BY <1>1, LowerableNodes
<1>3. Target(kind, e)[1].sym = kind /\ Tail(Target(kind, e)) = e  BY <1>2, TargetIs
<1> QED BY <1>1, <1>2, <1>3 DEF e

LEMMA SubExprsAre == \A e \in SubExprs : e \in Seq(Nodes)
BY ExprAssumption DEF IsExpr

LEMMA InvInit == Init => ExprInv
<1> SUFFICES ASSUME Init  PROVE ExprInv
  OBVIOUS
<1>1. threads = Marked  BY DEF Init, Marked
<1>2. types \in [Symbols -> {"STT_NOTYPE", "STT_TLS"}]  BY DEF Init
<1>3. stage = "idle" /\ arg = Built /\ expr = <<>> /\ result = "none"  BY DEF Init
<1> QED BY <1>1, <1>2, <1>3 DEF ExprInv, ResultIs, UnreachableBuilt

LEMMA InvCreate ==
  ASSUME ExprInv, NEW kind \in VariantKind, NEW sub \in SubExprs, Create(kind, sub)
  PROVE  ExprInv'
<1>1. /\ stage = "idle" /\ stage' = "created" /\ expr' = Target(kind, sub)
      /\ UNCHANGED <<arg, todo, types, result, threads>>
  BY DEF Create
<1>2. arg = Built /\ result = "none" /\ threads = Marked
  BY <1>1 DEF ExprInv, ResultIs
<1>3. sub \in Seq(Nodes)  BY SubExprsAre
<1>4. expr'[1].sym = kind /\ Tail(expr') = sub  BY <1>1, <1>3, TargetIs
<1>5. Formed'  BY <1>1, <1>2, <1>3, <1>4 DEF Formed, Kind, Sub
<1>6. ResultIs'  BY <1>1, <1>2 DEF ResultIs
<1>7. (threads = Marked)'  BY <1>1, <1>2 DEF Marked
<1>8. UnreachableBuilt'  BY <1>1 DEF UnreachableBuilt
<1> QED BY <1>1, <1>5, <1>6, <1>7, <1>8 DEF ExprInv

LEMMA InvLower ==
  ASSUME ExprInv, NEW a \in Arguments, NEW s \in Symbols,
         NEW lowered \in {LowerInstrOperand(a), LowerPseudoOperand(a)},
         LowerOperand(a, lowered, s)
  PROVE  ExprInv'
<1>1. stage = "idle" /\ arg' = a /\ UNCHANGED <<todo, types, result, threads>>
  BY DEF LowerOperand
<1>2. result = "none" /\ threads = Marked
  BY <1>1 DEF ExprInv, ResultIs
<1>3. (threads = Marked)' /\ result' = "none"  BY <1>1, <1>2 DEF Marked
<1>4. types' \in [Symbols -> {"STT_NOTYPE", "STT_TLS"}] /\ arg' \in Arguments
  BY <1>1 DEF ExprInv
<1>5. CASE stage' \in {"fatal", "done"}
  BY <1>3, <1>4, <1>5 DEF ExprInv, ResultIs, UnreachableBuilt
<1>7. CASE lowered.end = "unreachable" /\ stage' = "unreachable" /\ UNCHANGED expr
  <2>1. a.kind \in SymbolKinds /\ a.what = "MO_PLT"  BY <1>7, LoweringEnds
  <2>2. expr = <<>>  BY <1>1 DEF ExprInv
  <2>3. arg' # Built
    <3>1. Built.kind = "built"  BY DEF Built, Operand
    <3> QED BY <1>1, <2>1, <3>1 DEF SymbolKinds, NoOffset
  <2>4. UnreachableBuilt'  BY <1>1, <1>7, <2>1, <2>2, <2>3 DEF UnreachableBuilt
  <2> QED BY <1>3, <1>4, <1>7, <2>4 DEF ExprInv, ResultIs
<1>6. ASSUME NEW o \in ToSet(lowered.operands), HasVariant(o), stage' = "created",
             expr' = Target(o.what, IF o.val = 0 THEN Sym(s) ELSE Bin("add", Sym(s), Const(o.val)))
      PROVE  ExprInv'
  <2> DEFINE e == IF o.val = 0 THEN Sym(s) ELSE Bin("add", Sym(s), Const(o.val))
  <2>1. o.what \in OperandVariants /\ o.val \in Int  BY <1>6, OperandsAre
  <2>2. o.what \in VariantKind  BY <2>1 DEF OperandVariants, VariantKind
  <2>3. e \in Seq(Nodes) /\ Lowerable(e) /\ expr'[1].sym = o.what /\ Tail(expr') = e
    BY <1>6, <2>1, <2>2, OperandExpr
  <2>4. expr' = Target(o.what, e)  BY <1>6
  <2> HIDE DEF e
  <2>5. Formed'  BY <1>4, <2>1, <2>2, <2>3, <2>4 DEF Formed, Kind, Sub
  <2>6. ResultIs' /\ UnreachableBuilt'  BY <1>3, <1>6 DEF ResultIs, UnreachableBuilt
  <2> QED BY <1>3, <1>4, <1>6, <2>5, <2>6 DEF ExprInv
<1> QED BY <1>5, <1>6, <1>7, LoweringEnds DEF LowerOperand

LEMMA InvPrint == ExprInv /\ PrintAndRead => ExprInv'
<1> SUFFICES ASSUME ExprInv, PrintAndRead  PROVE ExprInv'
  OBVIOUS
<1>1. /\ stage = "created" /\ stage' = "read" /\ result' = ReadVariant(PrintImpl(Kind))
      /\ UNCHANGED <<unit, arg, expr, todo, types, threads>>
  BY DEF PrintAndRead
<1>2. Kind' = Kind /\ Sub' = Sub /\ Marked' = Marked  BY <1>1 DEF Kind, Sub, Marked
<1>3. Formed /\ threads = Marked  BY <1>1 DEF ExprInv
<1>4. Formed' /\ threads' = Marked'  BY <1>1, <1>2, <1>3 DEF Formed
<1>5. ResultIs' /\ UnreachableBuilt'  BY <1>1, <1>2 DEF ResultIs, UnreachableBuilt
<1> QED BY <1>1, <1>4, <1>5 DEF ExprInv

LEMMA ConstantIs ==
  ASSUME NEW kind \in VariantKind, NEW sub
  PROVE  LET result1 == EvaluateAsConstant(kind, sub).result
         IN  /\ result1 \in {"none", "constant", "unreachable"}
             /\ result1 = "unreachable" =>
                  kind \in {"VK_RISCV_None", "VK_RISCV_32_PCREL"} /\ IsAbsolute(Evaluate(sub))
<1>1. \A n : EvaluateAsInt64(kind, n).result =
               IF kind \in {"VK_RISCV_LO", "VK_RISCV_HI"} THEN "constant" ELSE "unreachable"
  BY DEF EvaluateAsInt64
<1>2. kind \notin Relocated =>
        kind \in {"VK_RISCV_LO", "VK_RISCV_HI", "VK_RISCV_None", "VK_RISCV_32_PCREL"}
  BY DEF Relocated, VariantKind
<1>3. CASE kind \notin Relocated /\ IsAbsolute(Evaluate(sub))
  <2>1. EvaluateAsConstant(kind, sub) = EvaluateAsInt64(kind, Evaluate(sub).c)
    BY <1>3 DEF EvaluateAsConstant
  <2> QED BY <1>1, <1>2, <1>3, <2>1
<1>4. CASE ~(kind \notin Relocated /\ IsAbsolute(Evaluate(sub)))
  <2>1. EvaluateAsConstant(kind, sub).result = "none"
    BY <1>4 DEF EvaluateAsConstant
  <2> QED BY <2>1
<1> QED BY <1>3, <1>4

LEMMA InvAsk == ExprInv /\ AskForConstant => ExprInv'
<1> SUFFICES ASSUME ExprInv, AskForConstant  PROVE ExprInv'
  OBVIOUS
<1>1. /\ stage = "read" /\ result' = EvaluateAsConstant(Kind, Sub).result
      /\ stage' = CASE result' = "none" -> "fixup" [] result' = "constant" -> "done"
                    [] OTHER -> "unreachable"
      /\ UNCHANGED <<unit, arg, expr, todo, types, threads>>
  BY DEF AskForConstant
<1>2. Kind' = Kind /\ Sub' = Sub /\ Marked' = Marked  BY <1>1 DEF Kind, Sub, Marked
<1>3. Formed /\ threads = Marked  BY <1>1 DEF ExprInv
<1>4. Formed' /\ threads' = Marked'  BY <1>1, <1>2, <1>3 DEF Formed
<1>5. /\ result' \in {"none", "constant", "unreachable"}
      /\ result' = "unreachable" =>
           Kind \in {"VK_RISCV_None", "VK_RISCV_32_PCREL"} /\ IsAbsolute(Evaluate(Sub))
  BY <1>1, <1>3, ConstantIs DEF Formed
<1>6. \/ result' = "none" /\ stage' = "fixup"
      \/ result' = "constant" /\ stage' = "done"
      \/ result' = "unreachable" /\ stage' = "unreachable"
  BY <1>1, <1>5
<1>7. ResultIs'  BY <1>6 DEF ResultIs
<1>8. UnreachableBuilt'
  <2> SUFFICES ASSUME stage' = "unreachable"  PROVE UnreachableBuilt'
    BY DEF UnreachableBuilt
  <2>1. Kind \in {"VK_RISCV_None", "VK_RISCV_32_PCREL"} /\ IsAbsolute(Evaluate(Sub))
    BY <1>5, <1>6
  <2>2. arg = Built  BY <1>3, <2>1 DEF Formed, OperandVariants
  <2> QED BY <1>1, <1>2, <2>1, <2>2 DEF UnreachableBuilt
<1> QED BY <1>1, <1>4, <1>6, <1>7, <1>8 DEF ExprInv

LEMMA InvFix == ExprInv /\ FixELFSymbolsInTLSFixups => ExprInv'
<1> SUFFICES ASSUME ExprInv, FixELFSymbolsInTLSFixups  PROVE ExprInv'
  OBVIOUS
<1>1. /\ stage = "fixup" /\ stage' = "marking"
      /\ todo' = IF Kind \in TLSKinds THEN Sub ELSE <<>>
      /\ threads' = threads \cup (IF Kind \in TLSKinds THEN SymbolsOf(Sub) ELSE {})
      /\ UNCHANGED <<unit, arg, expr, types, result>>
  BY DEF FixELFSymbolsInTLSFixups
<1>2. Kind' = Kind /\ Sub' = Sub /\ Marked' = Marked  BY <1>1 DEF Kind, Sub, Marked
<1>3. Formed /\ threads = Marked /\ result = "none"  BY <1>1 DEF ExprInv, ResultIs
<1>4. Formed'  BY <1>1, <1>2, <1>3 DEF Formed
<1>5. ResultIs' /\ UnreachableBuilt'  BY <1>1, <1>3 DEF ResultIs, UnreachableBuilt
<1>6. Visiting'
  <2>1. SymbolsOf(<<>>) = {}  BY DEF SymbolsOf
  <2>2. Sub \in Seq(Nodes)  BY <1>3 DEF Formed
  <2>3. todo' \in Seq(Nodes) /\ threads' = Marked' \cup SymbolsOf(todo')
    BY <1>1, <1>2, <1>3, <2>1, <2>2
  <2>4. \A k \in DOMAIN todo' : \E j \in DOMAIN Sub' : todo'[k] = Sub'[j]
    BY <1>1, <1>2
  <2> QED BY <1>1, <1>2, <2>3, <2>4 DEF Visiting
<1> QED BY <1>1, <1>4, <1>5, <1>6 DEF ExprInv

LEMMA InvMark == ExprInv /\ MarkNode => ExprInv'
<1> SUFFICES ASSUME ExprInv, MarkNode  PROVE ExprInv'
  OBVIOUS
<1>1. /\ stage = "marking" /\ todo # <<>> /\ UNCHANGED <<unit, arg, expr, result, threads>>
      /\ \/ Head(todo).op = "target" /\ stage' = "unreachable" /\ UNCHANGED <<todo, types>>
         \/ /\ Head(todo).op = "sym" /\ types' = [types EXCEPT ![Head(todo).sym] = "STT_TLS"]
            /\ todo' = Tail(todo) /\ stage' = stage
         \/ /\ Head(todo).op \notin {"target", "sym"}
            /\ todo' = Tail(todo) /\ UNCHANGED <<stage, types>>
  BY DEF MarkNode
<1>2. Kind' = Kind /\ Sub' = Sub  BY <1>1 DEF Kind, Sub
<1>3. Formed /\ Visiting /\ result = "none"  BY <1>1 DEF ExprInv, ResultIs
<1>4. Formed'  BY <1>1, <1>2, <1>3 DEF Formed
<1>5. todo \in Seq(Nodes) /\ Kind \in TLSKinds  BY <1>1, <1>3 DEF Visiting
<1>6. /\ Tail(todo) \in Seq(Nodes) /\ Head(todo) \in Nodes
      /\ \A k \in DOMAIN Tail(todo) : Tail(todo)[k] = todo[k + 1] /\ k + 1 \in DOMAIN todo
      /\ SymbolsOf(todo) = SymbolsOf(Tail(todo))
                             \cup (IF Head(todo).op = "sym" THEN {Head(todo).sym} ELSE {})
  BY <1>1, <1>5, SymbolsOfTail
<1>7. CASE Head(todo).op = "target" /\ stage' = "unreachable" /\ UNCHANGED <<todo, types>>
  <2>1. 1 \in DOMAIN todo /\ Head(todo) = todo[1]  BY <1>1, <1>5
  <2>2. PICK j \in DOMAIN Sub : Sub[j].op = "target"  BY <1>3, <1>7, <2>1 DEF Visiting
  <2>3. arg = Built  BY <1>3, <2>2, LowerableNodes DEF Formed
  <2>4. UnreachableBuilt'  BY <1>1, <1>2, <1>5, <2>2, <2>3 DEF UnreachableBuilt
  <2>5. ResultIs'  BY <1>1, <1>3, <1>7 DEF ResultIs
  <2> QED BY <1>1, <1>7, <2>4, <2>5 DEF ExprInv
<1>8. ASSUME stage' = stage, todo' = Tail(todo),
             types' \in [Symbols -> {"STT_NOTYPE", "STT_TLS"}],
             Marked' = Marked \cup (IF Head(todo).op = "sym" THEN {Head(todo).sym} ELSE {})
      PROVE  ExprInv'
  <2>1. threads' = Marked' \cup SymbolsOf(todo')
    BY <1>1, <1>3, <1>6, <1>8 DEF Visiting
  <2>2. \A k \in DOMAIN todo' : \E j \in DOMAIN Sub' : todo'[k] = Sub'[j]
    BY <1>2, <1>3, <1>6, <1>8 DEF Visiting
  <2>3. Visiting'  BY <1>2, <1>5, <1>6, <1>8, <2>1, <2>2 DEF Visiting
  <2>4. ResultIs' /\ UnreachableBuilt'  BY <1>1, <1>3, <1>8 DEF ResultIs, UnreachableBuilt
  <2> QED BY <1>1, <1>4, <1>8, <2>3, <2>4 DEF ExprInv
<1>9. CASE Head(todo).op = "sym" /\ types' = [types EXCEPT ![Head(todo).sym] = "STT_TLS"]
             /\ todo' = Tail(todo) /\ stage' = stage
  <2>1. Head(todo).sym \in Symbols  BY <1>6, <1>9, NodeKinds
  <2>2. types \in [Symbols -> {"STT_NOTYPE", "STT_TLS"}]  BY DEF ExprInv
  <2>3. types' \in [Symbols -> {"STT_NOTYPE", "STT_TLS"}]  BY <1>9, <2>1, <2>2
  <2>4. Marked' = Marked \cup {Head(todo).sym}  BY <1>9, <2>1, <2>2 DEF Marked
  <2> QED BY <1>8, <1>9, <2>3, <2>4
<1>10. CASE Head(todo).op \notin {"target", "sym"} /\ todo' = Tail(todo) /\ UNCHANGED <<stage, types>>
  <2>1. types' \in [Symbols -> {"STT_NOTYPE", "STT_TLS"}]  BY <1>10 DEF ExprInv
  <2>2. Marked' = Marked  BY <1>10 DEF Marked
  <2> QED BY <1>8, <1>10, <2>1, <2>2
<1> QED BY <1>1, <1>7, <1>9, <1>10

LEMMA InvRelocate == ExprInv /\ Relocate => ExprInv'
<1> SUFFICES ASSUME ExprInv, Relocate  PROVE ExprInv'
  OBVIOUS
<1>1. /\ stage = "marking" /\ todo = <<>> /\ stage' = "done"
      /\ result' = IF Evaluate(expr).ok THEN "relocation" ELSE "refused"
      /\ UNCHANGED <<unit, arg, expr, todo, types, threads>>
  BY DEF Relocate
<1>2. Kind' = Kind /\ Sub' = Sub /\ Marked' = Marked  BY <1>1 DEF Kind, Sub, Marked
<1>3. Formed /\ Visiting  BY <1>1 DEF ExprInv
<1>4. Formed'  BY <1>1, <1>2, <1>3 DEF Formed
<1>5. threads' = Marked'
  <2>1. SymbolsOf(<<>>) = {}  BY DEF SymbolsOf
  <2> QED BY <1>1, <1>2, <1>3, <2>1 DEF Visiting
<1>6. ResultIs' /\ UnreachableBuilt'  BY <1>1, <1>4 DEF ResultIs, UnreachableBuilt
<1> QED BY <1>1, <1>4, <1>5, <1>6 DEF ExprInv

LEMMA InvForget == ExprInv /\ Forget => ExprInv'
<1> SUFFICES ASSUME ExprInv, Forget  PROVE ExprInv'
  OBVIOUS
<1>1. /\ stage = "done" /\ stage' = "idle" /\ arg' = Built /\ expr' = <<>> /\ result' = "none"
      /\ UNCHANGED <<unit, todo, types, threads>>
  BY DEF Forget
<1>2. threads' = Marked'  BY <1>1 DEF ExprInv, Marked
<1> QED BY <1>1, <1>2 DEF ExprInv, ResultIs, UnreachableBuilt

LEMMA InvSame == ExprInv /\ UNCHANGED vars => ExprInv'
<1> SUFFICES ASSUME ExprInv, UNCHANGED vars  PROVE ExprInv'
  OBVIOUS
<1>1. UNCHANGED <<unit, stage, arg, expr, todo, types, result, threads>>  BY DEF vars
<1>2. Kind' = Kind /\ Sub' = Sub /\ Marked' = Marked  BY <1>1 DEF Kind, Sub, Marked
<1>3. Formed' <=> Formed  BY <1>1, <1>2 DEF Formed
<1>4. ResultIs' <=> ResultIs  BY <1>1, <1>2, <1>3 DEF ResultIs
<1>5. Visiting' <=> Visiting  BY <1>1, <1>2 DEF Visiting
<1>6. UnreachableBuilt' <=> UnreachableBuilt  BY <1>1, <1>2 DEF UnreachableBuilt
<1> QED BY <1>1, <1>2, <1>3, <1>4, <1>5, <1>6 DEF ExprInv

LEMMA ExprInvariant == Spec => []ExprInv
<1>1. ExprInv /\ [Next]_vars => ExprInv'
  <2> SUFFICES ASSUME ExprInv, [Next]_vars  PROVE ExprInv'
    OBVIOUS
  <2>1. ASSUME NEW a \in Arguments, NEW s \in Symbols, LowerInInstruction(a, s) \/ LowerInPseudo(a, s)
        PROVE  ExprInv'
    BY <2>1, InvLower DEF LowerInInstruction, LowerInPseudo
  <2> QED BY <2>1, InvCreate, InvPrint, InvAsk, InvFix, InvMark, InvRelocate, InvForget, InvSame
             DEF Next, Finished
<1> QED BY <1>1, InvInit, PTL DEF Spec

\* Marking ends with exactly the symbols of TLS marked, in expressions of any depth.
THEOREM ExprMarks == Spec => []MarkedExactly
<1>1. ExprInv => MarkedExactly
  BY DEF ExprInv, MarkedExactly, Marked
<1> QED BY <1>1, ExprInvariant, PTL

\* llvm_unreachable is reached by expressions that were built, and by operands only
\* through the flag MO_PLT, which lowerSymbolOperand has no case for.
THEOREM ExprReaches == Spec => []UnreachableBuilt
<1>1. ExprInv => UnreachableBuilt  BY DEF ExprInv
<1> QED BY <1>1, ExprInvariant, PTL

LEMMA VariantsRead ==
  ASSUME NEW kind \in VariantKind
  PROVE  ReadVariant(PrintImpl(kind)) =
           CASE kind = "VK_RISCV_CALL"     -> "VK_RISCV_None"
             [] kind = "VK_RISCV_32_PCREL" -> "VK_RISCV_Invalid"
             [] OTHER                      -> kind
<1> DEFINE text == PrintImpl(kind)
<1>1. "@plt" # Blank /\ \A name \in DOMAIN VariantKindForName \cup {"32_pcrel"} : name # Blank
  <2>1. DOMAIN VariantKindForName =
          {"lo", "hi", "pcrel_lo", "pcrel_hi", "got_pcrel_hi", "tprel_lo", "tprel_hi",
           "tprel_add", "tls_ie_pcrel_hi", "tls_gd_pcrel_hi"}
    BY DEF VariantKindForName
  <2> QED BY <2>1, Zenon DEF Blank
<1>2. CASE kind \in {"VK_RISCV_None", "VK_RISCV_CALL", "VK_RISCV_CALL_PLT"}
  <2>1. text.name = Blank /\ text.suffix = IF kind = "VK_RISCV_CALL_PLT" THEN "@plt" ELSE Blank
    BY <1>2 DEF PrintImpl
  <2> HIDE DEF text
  <2>2. ReadVariant(text) = IF kind = "VK_RISCV_CALL_PLT" THEN "VK_RISCV_CALL_PLT" ELSE "VK_RISCV_None"
    BY <1>1, <2>1 DEF ReadVariant
  <2> QED BY <1>2, <2>2 DEF text
<1>3. CASE kind \in VariantKind \ {"VK_RISCV_None", "VK_RISCV_CALL", "VK_RISCV_CALL_PLT"}
  <2>1. text.name = VariantKindName[kind] /\ text.suffix = Blank
    BY <1>3 DEF PrintImpl
  <2>2. VariantKindName[kind] \in DOMAIN VariantKindForName \cup {"32_pcrel"}
    BY <1>3 DEF VariantKindName, VariantKind, VariantKindForName
  <2> HIDE DEF text
  <2>3. ReadVariant(text) = IF VariantKindName[kind] \in DOMAIN VariantKindForName
                            THEN VariantKindForName[VariantKindName[kind]] ELSE "VK_RISCV_Invalid"
    <3>1. text.name # Blank /\ text.suffix # "@plt"  BY <1>1, <2>1, <2>2
    <3> QED BY <2>1, <3>1 DEF ReadVariant
  <2> QED BY <1>3, <2>3 DEF VariantKindForName, VariantKindName, VariantKind, text
<1> QED BY <1>2, <1>3

\* What is printed is read as the variant it was.
THEOREM ExprReadsBack == Spec => []ReadBack
<1>1. ExprInv => ReadBack
  <2> SUFFICES ASSUME ExprInv, stage = "read"  PROVE ReadBack
    BY DEF ReadBack
  <2>1. Kind \in VariantKind /\ result = ReadVariant(PrintImpl(Kind))
    BY DEF ExprInv, Formed, ResultIs
  <2> QED BY <2>1, VariantsRead DEF ReadBack
<1> QED BY <1>1, ExprInvariant, PTL

\* The two lowerings make the same of an operand.
THEOREM ExprLowerings == Spec => []LoweringsAgree
<1>1. ExprInv => LoweringsAgree
  <2> SUFFICES ASSUME ExprInv, arg # Built, LowerInstrOperand(arg) # Fatal,
                      ~(arg.kind = "mbb" /\ arg.what # "MO_None")
               PROVE  LowerPseudoOperand(arg) = LowerInstrOperand(arg)
    BY DEF LoweringsAgree
  <2>1. IsOperand(arg)  BY ExprAssumption DEF ExprInv
  <2>2. arg.kind \in {"implicit", "reg", "imm", "mbb", "global"}
    BY DEF LowerInstrOperand
  <2>3. CASE arg.kind \in {"implicit", "reg", "imm", "global"}
    BY <2>3 DEF LowerInstrOperand, LowerPseudoOperand, SymbolKinds, NoOffset
  <2>4. CASE arg.kind = "mbb"
    <3>1. LowerSymbolOperand(arg) = Lowered(<<Expr("VK_RISCV_None", 0)>>)
      BY <2>4 DEF LowerSymbolOperand, VariantOf, NoOffset
    <3> QED BY <2>4, <3>1 DEF LowerInstrOperand, LowerPseudoOperand, SymbolKinds, NoOffset
  <2> QED BY <2>2, <2>3, <2>4
<1> QED BY <1>1, ExprInvariant, PTL

----------------------------------------------------------------------------
(* Evaluation.                                                             *)

\* Sets of natural numbers have least members: induction over an expression.
LEMMA Least ==
  ASSUME NEW T, T \subseteq Nat, T # {}
  PROVE  \E n \in T : \A m \in T : n <= m
<1>1. IsWellFoundedOn(OpToRel(<, Nat), Nat)  BY NatLessThanWellFounded
<1> DEFINE LessThan == {pair \in Nat \X Nat : pair[1] < pair[2]}
<1>2. IsWellFoundedOn(LessThan, Nat)  BY <1>1 DEF OpToRel
<1>3. PICK n \in T : \A m \in T : ~ (<<m, n>> \in LessThan)  BY <1>2, WFMin
<1>4. \A m \in T : ~(m < n)  BY <1>3
<1> QED BY <1>3, <1>4

\* The same from the end of an expression to its beginning.
LEMMA Backwards ==
  ASSUME NEW n \in Nat, NEW S, n \in S, \A k \in 1 .. n - 1 : k + 1 \in S => k \in S
  PROVE  1 .. n \subseteq S
<1> DEFINE T == {d \in 0 .. n - 1 : n - d \notin S}
<1> SUFFICES ASSUME T # {}  PROVE FALSE
  <2>1. ASSUME T = {}, NEW k \in 1 .. n  PROVE k \in S
    <3>1. n - k \in 0 .. n - 1 /\ n - (n - k) = k  OBVIOUS
    <3>2. n - k \notin T  BY <2>1
    <3> QED BY <3>1, <3>2
  <2> QED BY <2>1
<1>1. T \subseteq Nat  OBVIOUS
<1> HIDE DEF T
<1>2. PICK d \in T : \A m \in T : d <= m  BY <1>1, Least
<1>3. d \in 0 .. n - 1 /\ n - d \notin S  BY <1>2 DEF T
<1>4. d # 0  BY <1>3
<1>5. d - 1 \in 0 .. n - 1 /\ ~(d <= d - 1)  BY <1>3, <1>4
<1>6. n - (d - 1) \in S  BY <1>2, <1>5 DEF T
<1>7. n - d \in 1 .. n - 1 /\ n - (d - 1) = (n - d) + 1  BY <1>3, <1>4
<1> QED BY <1>3, <1>6, <1>7

LEMMA ValuesAre ==
  ASSUME NEW e \in Seq(Nodes)
  PROVE  /\ Values(e) = [k \in 1 .. Len(e) + 1 |->
                           IF k > Len(e) THEN <<>> ELSE Reduce(e[k], Values(e)[k + 1])]
         /\ Len(e) \in Nat /\ Values(e)[Len(e) + 1] = <<>>
         /\ \A k \in 1 .. Len(e) : Values(e)[k] = Reduce(e[k], Values(e)[k + 1])
<1> DEFINE n == Len(e)
           Is(f, m) == f = [k \in m .. n + 1 |-> IF k > n THEN <<>> ELSE Reduce(e[k], f[k + 1])]
           S == {m \in 1 .. n + 1 : \E f : Is(f, m)}
<1>1. n \in Nat  OBVIOUS
<1> HIDE DEF n
<1>2. n + 1 \in S
  <2> DEFINE f == [k \in n + 1 .. n + 1 |-> <<>>]
  <2>1. \A k \in n + 1 .. n + 1 : k > n  BY <1>1
  <2>2. Is(f, n + 1)  BY <2>1
  <2>3. n + 1 \in 1 .. n + 1  BY <1>1
  <2> HIDE DEF f
  <2>4. \E g : Is(g, n + 1)  BY <2>2
  <2> HIDE DEF Is
  <2> QED BY <2>3, <2>4
<1>3. ASSUME NEW m \in 1 .. n, m + 1 \in S  PROVE m \in S
  <2>1. PICK f : Is(f, m + 1)  BY <1>3
  <2> DEFINE g == [k \in m .. n + 1 |-> IF k = m THEN Reduce(e[m], f[m + 1]) ELSE f[k]]
  <2>2. \A k \in m .. n + 1 : g[k] = IF k > n THEN <<>> ELSE Reduce(e[k], g[k + 1])
    <3> TAKE k \in m .. n + 1
    <3>1. CASE k = m
      <4>1. ~(k > n) /\ m + 1 \in m .. n + 1 /\ m + 1 # m  BY <1>1, <3>1
      <4>2. g[m + 1] = f[m + 1] /\ g[m] = Reduce(e[m], f[m + 1])  BY <1>1, <4>1
      <4> QED BY <3>1, <4>1, <4>2
    <3>2. CASE k # m /\ k <= n
      <4>1. k \in m + 1 .. n + 1 /\ ~(k > n) /\ k + 1 \in m .. n + 1 /\ k + 1 # m  BY <1>1, <3>2
      <4>2. g[k + 1] = f[k + 1] /\ g[k] = f[k]  BY <3>2, <4>1
      <4>3. f[k] = Reduce(e[k], f[k + 1])  BY <2>1, <4>1
      <4> QED BY <4>1, <4>2, <4>3
    <3>3. CASE k # m /\ k > n
      <4>1. k \in m + 1 .. n + 1  BY <1>1, <3>3
      <4>2. f[k] = <<>>  BY <2>1, <3>3, <4>1
      <4> QED BY <3>3, <4>2
    <3> QED BY <1>1, <3>1, <3>2, <3>3
  <2> HIDE DEF g
  <2>3. g = [k \in m .. n + 1 |-> g[k]]  BY DEF g
  <2>4. Is(g, m)  BY <2>2, <2>3
  <2> QED BY <1>1, <2>4
<1>4. 1 \in S
  <2>1. n + 1 \in Nat /\ 1 \in 1 .. n + 1 /\ (n + 1) - 1 = n  BY <1>1
  <2> HIDE DEF S
  <2>2. 1 .. n + 1 \subseteq S  BY <1>2, <1>3, <2>1, Backwards
  <2> QED BY <2>1, <2>2
<1>5. Is(Values(e), 1)
  <2>1. \E f : Is(f, 1)  BY <1>4
  <2>2. Values(e) = CHOOSE f : Is(f, 1)  BY DEF Values, n
  <2> QED BY <2>1, <2>2
<1>6. \A k \in 1 .. n : k \in 1 .. n + 1 /\ ~(k > n)  BY <1>1
<1>7. n + 1 \in 1 .. n + 1 /\ n + 1 > n  BY <1>1
<1> QED BY <1>1, <1>5, <1>6, <1>7 DEF n

Names    == Symbols \cup {Blank}
MCValues == [ok : BOOLEAN, a : Names, b : Names, c : Int]

\* A value v made of the values in `from` is one only if they all are, and it has
\* their symbols.
Keeps(v, from) ==
  /\ v \in MCValues
  /\ v.ok => \A w \in from : w.ok /\ \A x \in {w.a, w.b} \ {Blank} : x \in {v.a, v.b}

LEMMA ValueIs ==
  ASSUME NEW a \in Names, NEW b \in Names, NEW c \in Int
  PROVE  /\ Value(a, b, c) \in MCValues /\ Value(a, b, c).ok
         /\ Value(a, b, c).a = a /\ Value(a, b, c).b = b /\ Value(a, b, c).c = c
BY DEF Value, MCValues

LEMMA NoValueIs ==
  NoValue \in MCValues /\ ~NoValue.ok /\ NoValue.a = Blank /\ NoValue.b = Blank
BY DEF NoValue, MCValues, Names

LEMMA FieldsAre ==
  ASSUME NEW v \in MCValues
  PROVE  v.ok \in BOOLEAN /\ v.a \in Names /\ v.b \in Names /\ v.c \in Int
BY DEF MCValues

LEMMA NoneKeeps == \A from : Keeps(NoValue, from)
BY NoValueIs DEF Keeps

LEMMA SwappedKeeps ==
  ASSUME NEW v \in MCValues
  PROVE  Keeps(Swapped(v), {v})
<1>1. CASE v.ok
  <2> DEFINE w == Value(v.b, v.a, -v.c)
  <2>1. w \in MCValues /\ w.ok /\ w.a = v.b /\ w.b = v.a
    <3>1. -v.c \in Int  BY FieldsAre
    <3> QED BY <3>1, FieldsAre, ValueIs
  <2>2. Swapped(v) = w  BY <1>1 DEF Swapped
  <2> HIDE DEF w
  <2> QED BY <1>1, <2>1, <2>2 DEF Keeps
<1>2. CASE ~v.ok
  BY <1>2, NoneKeeps DEF Swapped
<1> QED BY <1>1, <1>2

LEMMA NegatedKeeps ==
  ASSUME NEW v \in MCValues
  PROVE  Keeps(Negated(v), {v})
BY SwappedKeeps, NoneKeeps DEF Negated

LEMMA SumKeeps ==
  ASSUME NEW l \in MCValues, NEW r \in MCValues
  PROVE  Keeps(Sum(l, r), {l, r})
<1> DEFINE a == IF l.a # Blank THEN l.a ELSE r.a
           b == IF l.b # Blank THEN l.b ELSE r.b
           v == Value(a, b, l.c + r.c)
<1>1. CASE l.ok /\ r.ok /\ ~(l.a # Blank /\ r.a # Blank) /\ ~(l.b # Blank /\ r.b # Blank)
  <2>1. a \in Names /\ b \in Names /\ l.c + r.c \in Int  BY FieldsAre
  <2>2. v \in MCValues /\ v.ok /\ v.a = a /\ v.b = b
    <3> HIDE DEF a, b
    <3> QED BY <2>1, ValueIs
  <2>3. Sum(l, r) = v  BY <1>1 DEF Sum
  <2> HIDE DEF v
  <2>4. \A w \in {l, r} : w.ok /\ \A x \in {w.a, w.b} \ {Blank} : x \in {v.a, v.b}
    BY <1>1, <2>2
  <2> QED BY <2>2, <2>3, <2>4 DEF Keeps
<1>2. CASE ~(l.ok /\ r.ok /\ ~(l.a # Blank /\ r.a # Blank) /\ ~(l.b # Blank /\ r.b # Blank))
  <2>1. Sum(l, r) = NoValue  BY <1>2 DEF Sum
  <2> QED BY <2>1, NoneKeeps
<1> QED BY <1>1, <1>2

LEMMA DifferenceKeeps ==
  ASSUME NEW l \in MCValues, NEW r \in MCValues
  PROVE  Keeps(Sum(l, Swapped(r)), {l, r})
<1>1. Keeps(Swapped(r), {r})  BY SwappedKeeps
<1>2. Swapped(r) \in MCValues  BY <1>1 DEF Keeps
<1>3. Keeps(Sum(l, Swapped(r)), {l, Swapped(r)})  BY <1>2, SumKeeps
<1> QED BY <1>1, <1>3 DEF Keeps

LEMMA ProductKeeps ==
  ASSUME NEW l \in MCValues, NEW r \in MCValues
  PROVE  Keeps(Product(l, r), {l, r})
<1>1. CASE IsAbsolute(l) /\ IsAbsolute(r)
  <2>1. Product(l, r) \in MCValues
    <3>1. l.c * r.c \in Int /\ Blank \in Names  BY FieldsAre DEF Names
    <3> QED BY <1>1, <3>1, ValueIs DEF Product
  <2> QED BY <1>1, <2>1 DEF Keeps, IsAbsolute
<1>2. CASE ~(IsAbsolute(l) /\ IsAbsolute(r))
  BY <1>2, NoneKeeps DEF Product
<1> QED BY <1>1, <1>2

LEMMA VariantKeeps ==
  ASSUME NEW v \in MCValues, NEW kind
  PROVE  Keeps(EvaluateAsRelocatable(kind, v), {v})
<1>1. Keeps(v, {v})  BY DEF Keeps
<1> QED BY <1>1, NoneKeeps DEF EvaluateAsRelocatable

\* A node on the stack: its operands are replaced by its value.
LEMMA ReduceIs ==
  ASSUME NEW n \in Nodes, NEW vs \in Seq(MCValues), Len(vs) >= Arity(n.op)
  PROVE  LET d  == Arity(n.op)
             us == Reduce(n, vs)
         IN  /\ d \in Nat /\ us \in Seq(MCValues) /\ Len(us) = Len(vs) - d + 1
             /\ Keeps(us[1], {vs[i] : i \in 1 .. d})
             /\ n.op = "sym" => us[1].a = n.sym
             /\ \A i \in 2 .. Len(us) : us[i] = vs[i - 1 + d]
<1> DEFINE d == Arity(n.op)
           us == Reduce(n, vs)
           m == Len(vs)
<1>1. n.op \in {"sym", "const", "neg", "add", "sub", "mul", "target"}  BY NodeKinds
<1>2. n.val \in Int /\ Blank \in Names /\ Symbols \subseteq Names  BY DEF Nodes, Names
<1>3. m \in Nat /\ m >= d  OBVIOUS
<1>4. ASSUME NEW v, Keeps(v, {vs[i] : i \in 1 .. d}), NEW rest \in Seq(MCValues),
             Len(rest) = m - d, \A i \in 1 .. m - d : rest[i] = vs[i + d],
             us = <<v>> \o rest, d \in 0 .. 2
      PROVE  /\ d \in Nat /\ us \in Seq(MCValues) /\ Len(us) = m - d + 1
             /\ us[1] = v /\ \A i \in 2 .. Len(us) : us[i] = vs[i - 1 + d]
  <2> HIDE DEF d, us, m
  <2> DEFINE one == <<v>>
  <2>1. one \in Seq(MCValues) /\ Len(one) = 1 /\ one[1] = v  BY <1>4 DEF Keeps
  <2>2. us = one \o rest  BY <1>4
  <2> HIDE DEF one
  <2>3. /\ us \in Seq(MCValues) /\ Len(us) = 1 + Len(rest)
        /\ \A i \in 1 .. 1 + Len(rest) : us[i] = IF i <= 1 THEN one[i] ELSE rest[i - 1]
    BY <1>4, <2>1, <2>2, ConcatProperties
  <2>4. \A i \in 2 .. Len(us) : us[i] = vs[i - 1 + d]
    <3> TAKE i \in 2 .. Len(us)
    <3>1. i \in 1 .. 1 + Len(rest) /\ ~(i <= 1) /\ i - 1 \in 1 .. m - d  BY <1>3, <1>4, <2>3
    <3>2. us[i] = rest[i - 1] /\ rest[i - 1] = vs[(i - 1) + d]  BY <1>4, <2>3, <3>1
    <3> QED BY <3>2
  <2>5. 1 \in 1 .. 1 + Len(rest)  BY <1>3, <1>4
  <2>6. us[1] = v  BY <2>1, <2>3, <2>5
  <2> QED BY <1>3, <1>4, <2>3, <2>4, <2>6
<1>5. CASE n.op \in {"sym", "const"}
  <2> DEFINE v == IF n.op = "sym" THEN Value(n.sym, Blank, 0) ELSE Value(Blank, Blank, n.val)
  <2>1. d = 0 /\ us = <<v>> \o vs  BY <1>5 DEF Arity, Reduce
  <2>2. v \in MCValues /\ (n.op = "sym" => v.a = n.sym)
    BY <1>2, <1>5, ValueIs, NodeKinds
  <2> HIDE DEF v
  <2>3. Keeps(v, {vs[i] : i \in 1 .. d})  BY <2>1, <2>2 DEF Keeps
  <2> HIDE DEF d, us
  <2>4. Len(vs) = m - d /\ \A i \in 1 .. m - d : vs[i] = vs[i + d]  BY <1>3, <2>1
  <2> HIDE DEF m
  <2>5. /\ d \in Nat /\ us \in Seq(MCValues) /\ Len(us) = m - d + 1
        /\ us[1] = v /\ \A i \in 2 .. Len(us) : us[i] = vs[i - 1 + d]
    BY <1>4, <2>1, <2>3, <2>4
  <2> QED BY <2>2, <2>3, <2>5 DEF d, us, m
<1>6. CASE n.op \in {"neg", "target"}
  <2> DEFINE v == IF n.op = "neg" THEN Negated(vs[1]) ELSE EvaluateAsRelocatable(n.sym, vs[1])
  <2>1. d = 1  BY <1>6 DEF Arity
  <2>2. vs[1] \in MCValues /\ Tail(vs) \in Seq(MCValues) /\ Len(Tail(vs)) = m - 1
        /\ \A i \in 1 .. m - 1 : Tail(vs)[i] = vs[i + 1]
    BY <1>3, <2>1
  <2>3. us = <<v>> \o Tail(vs)  BY <1>6 DEF Reduce
  <2>4. Keeps(v, {vs[1]})  BY <2>2, NegatedKeeps, VariantKeeps
  <2>5. {vs[i] : i \in 1 .. d} = {vs[1]}  BY <2>1
  <2> HIDE DEF v, d, us, m
  <2>6. /\ d \in Nat /\ us \in Seq(MCValues) /\ Len(us) = m - d + 1
        /\ us[1] = v /\ \A i \in 2 .. Len(us) : us[i] = vs[i - 1 + d]
    <3> DEFINE rest == Tail(vs)
    <3>1. Keeps(v, {vs[i] : i \in 1 .. d})  BY <2>4, <2>5
    <3>2. /\ rest \in Seq(MCValues) /\ Len(rest) = m - d /\ us = <<v>> \o rest
          /\ \A i \in 1 .. m - d : rest[i] = vs[i + d]
      BY <2>1, <2>2, <2>3
    <3>3. d \in 0 .. 2  BY <2>1
    <3> HIDE DEF rest
    <3> QED BY <1>4, <3>1, <3>2, <3>3
  <2> QED BY <1>6, <2>4, <2>5, <2>6 DEF d, us, m
<1>7. CASE n.op \in {"add", "sub", "mul"}
  <2> DEFINE v == IF n.op = "add" THEN Sum(vs[1], vs[2])
                  ELSE IF n.op = "sub" THEN Sum(vs[1], Swapped(vs[2])) ELSE Product(vs[1], vs[2])
  <2>1. d = 2  BY <1>7 DEF Arity
  <2>2. vs[1] \in MCValues /\ vs[2] \in MCValues
        /\ Tail(Tail(vs)) \in Seq(MCValues) /\ Len(Tail(Tail(vs))) = m - 2
        /\ \A i \in 1 .. m - 2 : Tail(Tail(vs))[i] = vs[i + 2]
    <3>1. /\ vs[1] \in MCValues /\ vs[2] \in MCValues
          /\ Tail(vs) \in Seq(MCValues) /\ Len(Tail(vs)) = m - 1 /\ m - 1 >= 1
          /\ \A i \in 1 .. m - 1 : Tail(vs)[i] = vs[i + 1]
      BY <1>3, <2>1
    <3> DEFINE t == Tail(vs)
    <3>2. t \in Seq(MCValues) /\ Len(t) = m - 1 /\ m - 1 >= 1  BY <3>1
    <3>3. \A i \in 1 .. m - 1 : t[i] = vs[i + 1]  BY <3>1
    <3> HIDE DEF t, m
    <3>4. m \in Nat  BY <1>3
    <3>5. Tail(t) \in Seq(MCValues) /\ Len(Tail(t)) = m - 2
          /\ \A i \in 1 .. m - 2 : Tail(t)[i] = t[i + 1]
      BY <3>2, <3>4
    <3>6. \A i \in 1 .. m - 2 : i + 1 \in 1 .. m - 1 /\ (i + 1) + 1 = i + 2  BY <3>4
    <3>7. \A i \in 1 .. m - 2 : Tail(t)[i] = vs[i + 2]  BY <3>3, <3>5, <3>6
    <3> QED BY <3>1, <3>5, <3>7 DEF t
  <2>3. us = <<v>> \o Tail(Tail(vs))  BY <1>7 DEF Reduce
  <2>4. Keeps(v, {vs[1], vs[2]})  BY <2>2, SumKeeps, DifferenceKeeps, ProductKeeps
  <2>5. {vs[i] : i \in 1 .. d} = {vs[1], vs[2]}
    <3>1. 1 .. d = {1, 2}  BY <2>1
    <3> QED BY <3>1
  <2> HIDE DEF v, d, us, m
  <2>6. /\ d \in Nat /\ us \in Seq(MCValues) /\ Len(us) = m - d + 1
        /\ us[1] = v /\ \A i \in 2 .. Len(us) : us[i] = vs[i - 1 + d]
    <3> DEFINE rest == Tail(Tail(vs))
    <3>1. Keeps(v, {vs[i] : i \in 1 .. d})  BY <2>4, <2>5
    <3>2. /\ rest \in Seq(MCValues) /\ Len(rest) = m - d /\ us = <<v>> \o rest
          /\ \A i \in 1 .. m - d : rest[i] = vs[i + d]
      BY <2>1, <2>2, <2>3
    <3>3. d \in 0 .. 2  BY <2>1
    <3> HIDE DEF rest
    <3> QED BY <1>4, <3>1, <3>2, <3>3
  <2> QED BY <1>7, <2>4, <2>5, <2>6 DEF d, us, m
<1> QED BY <1>1, <1>5, <1>6, <1>7

\* From a node on, the values on the stack have all symbols that were met, if they
\* all are values.
HaveSymbols(e, k) ==
  LET vs == Values(e)[k]
  IN  /\ vs \in Seq(MCValues)
      /\ (\A i \in DOMAIN vs : vs[i].ok) =>
           \A j \in k .. Len(e) : e[j].op = "sym" =>
             \E i \in DOMAIN vs : e[j].sym \in {vs[i].a, vs[i].b}

LEMMA HaveSymbolsStep ==
  ASSUME NEW e, IsExpr(e), NEW k \in 1 .. Len(e), HaveSymbols(e, k + 1)
  PROVE  HaveSymbols(e, k)
<1> DEFINE n == e[k]
           d == Arity(n.op)
           ws == Values(e)[k + 1]
           vs == Values(e)[k]
<1>1. e \in Seq(Nodes) /\ n \in Nodes /\ Len(ws) >= d /\ vs = Reduce(n, ws) /\ Len(e) \in Nat
  <2>1. e \in Seq(Nodes) /\ k \in DOMAIN e  BY DEF IsExpr
  <2> QED BY <2>1, ValuesAre DEF IsExpr
<1>2. ws \in Seq(MCValues)  BY DEF HaveSymbols
<1>3. /\ d \in Nat /\ vs \in Seq(MCValues) /\ Len(vs) = Len(ws) - d + 1
      /\ Keeps(vs[1], {ws[i] : i \in 1 .. d})
      /\ n.op = "sym" => vs[1].a = n.sym
      /\ \A i \in 2 .. Len(vs) : vs[i] = ws[i - 1 + d]
  <2> HIDE DEF n, ws, vs
  <2> QED BY <1>1, <1>2, ReduceIs
<1>4. Len(ws) \in Nat /\ DOMAIN ws = 1 .. Len(ws) /\ DOMAIN vs = 1 .. Len(vs)  BY <1>2, <1>3
<1>5. \A j \in k + 1 .. Len(e) : e[j].op = "sym" => e[j].sym # Blank
  <2> TAKE j \in k + 1 .. Len(e)
  <2>1. e[j] \in Nodes  BY <1>1
  <2> QED BY <2>1, NodeKinds, ExprAssumption
<1>6. (\A i \in DOMAIN ws : ws[i].ok) =>
         \A j \in k + 1 .. Len(e) : e[j].op = "sym" =>
           \E i \in DOMAIN ws : e[j].sym \in {ws[i].a, ws[i].b}
  BY DEF HaveSymbols
<1> HIDE DEF ws, vs, d
<1>7. ASSUME \A i \in DOMAIN vs : vs[i].ok, NEW j \in k .. Len(e), e[j].op = "sym"
      PROVE  \E i \in DOMAIN vs : e[j].sym \in {vs[i].a, vs[i].b}
  <2>1. 1 \in DOMAIN vs /\ vs[1].ok
    <3>1. Len(ws) - d + 1 >= 1  BY <1>1, <1>3, <1>4
    <3>2. Len(vs) \in Nat /\ Len(vs) >= 1  BY <1>3, <3>1
    <3>3. 1 \in DOMAIN vs  BY <1>4, <3>2
    <3> QED BY <1>7, <3>3
  <2>2. \A i \in 1 .. d : ws[i].ok /\ \A x \in {ws[i].a, ws[i].b} \ {Blank} : x \in {vs[1].a, vs[1].b}
    BY <1>3, <2>1 DEF Keeps
  <2>3. \A i \in 1 .. Len(ws) : i \notin 1 .. d => i - d + 1 \in 2 .. Len(vs) /\ ws[i] = vs[i - d + 1]
    <3> TAKE i \in 1 .. Len(ws)
    <3> HAVE i \notin 1 .. d
    <3>1. i - d + 1 \in 2 .. Len(vs) /\ (i - d + 1) - 1 + d = i  BY <1>3, <1>4
    <3> QED BY <1>3, <3>1
  <2>4. \A i \in DOMAIN ws : ws[i].ok
    <3> TAKE i \in DOMAIN ws
    <3>1. CASE i \in 1 .. d  BY <2>2, <3>1
    <3>2. CASE i \notin 1 .. d
      <4>1. i - d + 1 \in DOMAIN vs /\ ws[i] = vs[i - d + 1]  BY <1>4, <2>3, <3>2
      <4> QED BY <1>7, <4>1
    <3> QED BY <3>1, <3>2
  <2>5. CASE j = k
    <3>1. vs[1].a = e[j].sym  BY <1>3, <1>7, <2>5 DEF n
    <3> QED BY <2>1, <3>1
  <2>6. CASE j # k
    <3>1. j \in k + 1 .. Len(e)  BY <1>1, <2>6
    <3>2. PICK i \in DOMAIN ws : e[j].sym \in {ws[i].a, ws[i].b}  BY <1>6, <1>7, <2>4, <3>1
    <3>3. e[j].sym # Blank  BY <1>5, <1>7, <3>1
    <3>4. CASE i \in 1 .. d
      <4>1. e[j].sym \in {vs[1].a, vs[1].b}  BY <2>2, <3>2, <3>3, <3>4
      <4> QED BY <2>1, <4>1
    <3>5. CASE i \notin 1 .. d
      <4>1. i - d + 1 \in DOMAIN vs /\ ws[i] = vs[i - d + 1]  BY <1>4, <2>3, <3>5
      <4> QED BY <3>2, <4>1
    <3> QED BY <3>4, <3>5
  <2> QED BY <2>5, <2>6
<1> QED BY <1>3, <1>7 DEF HaveSymbols, vs

\* An expression that has a value has all its symbols in it.
LEMMA EvaluateIs ==
  ASSUME NEW e, IsExpr(e)
  PROVE  /\ Values(e)[1] \in Seq(MCValues) /\ Evaluate(e) \in MCValues
         /\ Evaluate(e).ok => SymbolsOf(e) \subseteq {Evaluate(e).a, Evaluate(e).b}
<1> DEFINE S == {k \in 1 .. Len(e) + 1 : HaveSymbols(e, k)}
<1>1. e \in Seq(Nodes) /\ Len(e) \in Nat /\ DOMAIN e = 1 .. Len(e)  BY DEF IsExpr
<1>2. Len(e) + 1 \in S
  <2>1. Values(e)[Len(e) + 1] = <<>>  BY <1>1, ValuesAre
  <2>2. <<>> \in Seq(MCValues)  OBVIOUS
  <2>3. \A j \in Len(e) + 1 .. Len(e) : FALSE  BY <1>1
  <2>4. HaveSymbols(e, Len(e) + 1)  BY <2>1, <2>2, <2>3 DEF HaveSymbols
  <2> QED BY <1>1, <2>4
<1>3. \A k \in 1 .. Len(e) : k + 1 \in S => k \in S
  <2> TAKE k \in 1 .. Len(e)
  <2> HAVE k + 1 \in S
  <2>1. HaveSymbols(e, k)  BY HaveSymbolsStep
  <2> QED BY <1>1, <2>1
<1>4. 1 \in S
  <2>1. Len(e) + 1 \in Nat /\ 1 \in 1 .. Len(e) + 1 /\ (Len(e) + 1) - 1 = Len(e)  BY <1>1
  <2> HIDE DEF S
  <2>2. 1 .. Len(e) + 1 \subseteq S  BY <1>2, <1>3, <2>1, Backwards
  <2> QED BY <2>1, <2>2
<1> DEFINE vs == Values(e)[1]
           v == Evaluate(e)
<1>5. vs \in Seq(MCValues) /\ Len(vs) = 1 /\ v = vs[1]
  BY <1>4 DEF HaveSymbols, IsExpr, Evaluate
<1>6. (\A i \in DOMAIN vs : vs[i].ok) =>
           \A j \in 1 .. Len(e) : e[j].op = "sym" =>
             \E i \in DOMAIN vs : e[j].sym \in {vs[i].a, vs[i].b}
  BY <1>4 DEF HaveSymbols
<1> HIDE DEF vs, v
<1>7. DOMAIN vs = {1}  BY <1>5
<1>8. v.ok => \A j \in 1 .. Len(e) : e[j].op = "sym" => e[j].sym \in {v.a, v.b}
  BY <1>5, <1>6, <1>7
<1>9. v.ok => SymbolsOf(e) \subseteq {v.a, v.b}
  BY <1>1, <1>8 DEF SymbolsOf
<1> QED BY <1>5, <1>9 DEF v, vs

LEMMA ReduceLength ==
  ASSUME NEW n \in Nodes, NEW vs \in Seq(MCValues)
  PROVE  LET us == Reduce(n, vs)
         IN  /\ Arity(n.op) = 0 => us \in Seq(MCValues) /\ Len(us) = Len(vs) + 1
             /\ Arity(n.op) = 2 /\ Len(vs) = 2 => us \in Seq(MCValues) /\ Len(us) = 1
<1> DEFINE us == Reduce(n, vs)
<1>1. Len(vs) \in Nat  OBVIOUS
<1>2. CASE Arity(n.op) = 0
  <2>1. Len(vs) >= Arity(n.op)  BY <1>1, <1>2
  <2>2. us \in Seq(MCValues) /\ Len(us) = Len(vs) - Arity(n.op) + 1  BY <2>1, ReduceIs
  <2> QED BY <1>1, <1>2, <2>2
<1>3. CASE Arity(n.op) = 2 /\ Len(vs) = 2
  <2>1. Len(vs) >= Arity(n.op)  BY <1>1, <1>3
  <2>2. us \in Seq(MCValues) /\ Len(us) = Len(vs) - Arity(n.op) + 1  BY <2>1, ReduceIs
  <2> QED BY <1>1, <1>3, <2>2
<1> QED BY <1>2, <1>3

\* A symbol, and a symbol with an offset, are expressions.
LEMMA LowerableIs ==
  ASSUME NEW e, Lowerable(e)
  PROVE  IsExpr(e)
<1> DEFINE none == <<>>
<1>1. none \in Seq(MCValues) /\ Len(none) = 0  OBVIOUS
<1>2. \A k \in Nat : e \in Seq(Nodes) /\ Len(e) = k => Values(e)[k + 1] = none
  BY ValuesAre
<1> HIDE DEF none
<1>3. PICK s \in Symbols : e = Sym(s) \/ \E c \in Int : e = Bin("add", Sym(s), Const(c))
  BY DEF Lowerable
<1>4. CASE e = Sym(s)
  <2>1. e \in Seq(Nodes) /\ Len(e) = 1 /\ e[1] = Node("sym", s, 0)  BY <1>4, SymIs
  <2>2. e[1].op = "sym" /\ e[1] \in Nodes  BY <2>1, NodeIs DEF Node
  <2>3. Arity(e[1].op) = 0  BY <2>2 DEF Arity
  <2>4. Values(e)[1 + 1] = none /\ Values(e)[1] = Reduce(e[1], none)
    BY <1>2, <2>1, ValuesAre
  <2>5. Len(Reduce(e[1], none)) = 0 + 1  BY <1>1, <2>2, <2>3, ReduceLength
  <2>6. Len(Values(e)[1]) = 1  BY <2>4, <2>5
  <2>7. DOMAIN e = {1}  BY <2>1
  <2>8. Len(Values(e)[1 + 1]) >= Arity(e[1].op)  BY <1>1, <2>3, <2>4
  <2> QED BY <2>1, <2>6, <2>7, <2>8 DEF IsExpr
<1>5. ASSUME NEW c \in Int, e = Bin("add", Sym(s), Const(c))
      PROVE  IsExpr(e)
  <2>1. /\ e \in Seq(Nodes) /\ Len(e) = 3 /\ e[1] = Node("add", Blank, 0)
        /\ e[2] = Node("sym", s, 0) /\ e[3] = Node("const", Blank, c)
    BY <1>5, SymIs
  <2>2. /\ e[1].op = "add" /\ e[2].op = "sym" /\ e[3].op = "const"
        /\ e[1] \in Nodes /\ e[2] \in Nodes /\ e[3] \in Nodes
    BY <2>1, NodeIs DEF Node
  <2>3. Arity(e[1].op) = 2 /\ Arity(e[2].op) = 0 /\ Arity(e[3].op) = 0  BY <2>2 DEF Arity
  <2> DEFINE v3 == Values(e)[3]
             v2 == Values(e)[2]
             v1 == Values(e)[1]
  <2>4. Values(e)[3 + 1] = none  BY <1>2, <2>1
  <2>5. /\ v3 = Reduce(e[3], Values(e)[3 + 1]) /\ v2 = Reduce(e[2], Values(e)[2 + 1])
        /\ v1 = Reduce(e[1], Values(e)[1 + 1])
    BY <2>1, ValuesAre
  <2>6. Values(e)[2 + 1] = v3 /\ Values(e)[1 + 1] = v2  OBVIOUS
  <2> HIDE DEF v1, v2, v3
  <2>7. v3 \in Seq(MCValues) /\ Len(v3) = 1
    <3>1. Reduce(e[3], none) \in Seq(MCValues) /\ Len(Reduce(e[3], none)) = 0 + 1
      BY <1>1, <2>2, <2>3, ReduceLength
    <3> QED BY <2>4, <2>5, <3>1
  <2>8. v2 \in Seq(MCValues) /\ Len(v2) = 2
    <3>1. Reduce(e[2], v3) \in Seq(MCValues) /\ Len(Reduce(e[2], v3)) = 1 + 1
      BY <2>2, <2>3, <2>7, ReduceLength
    <3> QED BY <2>5, <2>6, <3>1
  <2>9. Len(v1) = 1
    <3>1. Len(Reduce(e[1], v2)) = 1  BY <2>2, <2>3, <2>8, ReduceLength
    <3> QED BY <2>5, <2>6, <3>1
  <2>10. DOMAIN e = {1, 2, 3}  BY <2>1
  <2>11. /\ Len(Values(e)[1 + 1]) >= Arity(e[1].op)
         /\ Len(Values(e)[2 + 1]) >= Arity(e[2].op)
         /\ Len(Values(e)[3 + 1]) >= Arity(e[3].op)
    BY <1>1, <2>3, <2>4, <2>6, <2>7, <2>8
  <2>12. \A k \in DOMAIN e : Len(Values(e)[k + 1]) >= Arity(e[k].op)
    BY <2>10, <2>11
  <2> QED BY <2>1, <2>9, <2>12 DEF IsExpr, v1
<1> QED BY <1>3, <1>4, <1>5

LEMMA OnlyOne ==
  ASSUME NEW vs \in Seq(MCValues), Len(vs) = 1, NEW r \in MCValues
  PROVE  (<<r>> \o Tail(vs))[1] = r
<1>1. Tail(vs) \in Seq(MCValues) /\ Len(Tail(vs)) = 0
  OBVIOUS
<1>2. <<r>> \in Seq(MCValues) /\ <<r>>[1] = r  OBVIOUS
<1>3. <<r>> \o <<>> = <<r>>  BY <1>2, ConcatEmptySeq
<1>4. Tail(vs) = <<>>  BY <1>1, EmptySeq
<1> QED BY <1>2, <1>3, <1>4

\* The value of an expression of the class.
LEMMA EvaluateTarget ==
  ASSUME NEW kind \in VariantKind, NEW e, IsExpr(e)
  PROVE  Evaluate(Target(kind, e)) = EvaluateAsRelocatable(kind, Evaluate(e))
<1> DEFINE t == Target(kind, e)
           n == Len(e)
<1>1. e \in Seq(Nodes) /\ n \in Nat  BY DEF IsExpr
<1>2. /\ t \in Seq(Nodes) /\ Len(t) = n + 1 /\ t[1] = Node("target", kind, 0)
      /\ \A k \in 1 .. n : t[k + 1] = e[k]
  BY <1>1, TargetIs
<1>3. /\ Values(e)[n + 1] = <<>>
      /\ \A k \in 1 .. n : Values(e)[k] = Reduce(e[k], Values(e)[k + 1])
  BY <1>1, ValuesAre
<1>4. /\ Values(t)[(n + 1) + 1] = <<>>
      /\ \A k \in 1 .. n + 1 : Values(t)[k] = Reduce(t[k], Values(t)[k + 1])
  <2> HIDE DEF t
  <2> QED BY <1>2, ValuesAre
<1> HIDE DEF t, n
<1> DEFINE S == {k \in 1 .. n + 1 : Values(t)[k + 1] = Values(e)[k]}
<1>5. n + 1 \in S  BY <1>1, <1>3, <1>4
<1>6. \A k \in 1 .. n : k + 1 \in S => k \in S
  <2> TAKE k \in 1 .. n
  <2> HAVE k + 1 \in S
  <2>1. Values(t)[(k + 1) + 1] = Values(e)[k + 1]  OBVIOUS
  <2>2. k + 1 \in 1 .. n + 1 /\ k \in 1 .. n + 1  BY <1>1
  <2>3. Values(t)[k + 1] = Values(e)[k]  BY <1>2, <1>3, <1>4, <2>1, <2>2
  <2> QED BY <2>2, <2>3
<1>7. 1 \in S
  <2>1. n + 1 \in Nat /\ 1 \in 1 .. n + 1 /\ (n + 1) - 1 = n  BY <1>1
  <2> HIDE DEF S
  <2>2. 1 .. n + 1 \subseteq S  BY <1>5, <1>6, <2>1, Backwards
  <2> QED BY <2>1, <2>2
<1> DEFINE vs == Values(e)[1]
           r == EvaluateAsRelocatable(kind, vs[1])
<1>8. Values(t)[1] = Reduce(t[1], vs)  BY <1>1, <1>4, <1>7
<1>9. Evaluate(e) = vs[1]  BY DEF Evaluate
<1>10. Reduce(t[1], vs) = <<r>> \o Tail(vs)
  <2>1. t[1].op = "target" /\ t[1].sym = kind  BY <1>2 DEF Node
  <2> HIDE DEF vs
  <2> QED BY <2>1 DEF Reduce
<1>11. vs \in Seq(MCValues) /\ Len(vs) = 1 /\ vs[1] \in MCValues
  BY EvaluateIs DEF IsExpr, Evaluate
<1> HIDE DEF vs
<1>12. Keeps(r, {vs[1]})  BY <1>11, VariantKeeps
<1> HIDE DEF r
<1>13. (<<r>> \o Tail(vs))[1] = r  BY <1>11, <1>12, OnlyOne DEF Keeps
<1>14. Evaluate(t) = r  BY <1>8, <1>10, <1>13 DEF Evaluate
<1> QED BY <1>9, <1>14 DEF r, t

\* A fixup that is resolved has one symbol, unless its expression has no variant.
THEOREM ExprSymbol == Spec => []OneSymbol
<1>1. ExprInv => OneSymbol
  <2> SUFFICES ASSUME ExprInv, result = "relocation", Kind # "VK_RISCV_None"
               PROVE  SymbolsOf(Sub) \subseteq {Evaluate(expr).a} /\ Evaluate(expr).b = Blank
    BY DEF OneSymbol
  <2>1. Formed /\ Evaluate(expr).ok
    <3>1. stage = "read" => Kind \in VariantKind /\ result = ReadVariant(PrintImpl(Kind))
      BY DEF ExprInv, Formed, ResultIs
    <3>2. stage # "read"
      <4> SUFFICES ASSUME stage = "read"  PROVE FALSE
        OBVIOUS
      <4>1. result = CASE Kind = "VK_RISCV_CALL"     -> "VK_RISCV_None"
                       [] Kind = "VK_RISCV_32_PCREL" -> "VK_RISCV_Invalid"
                       [] OTHER                      -> Kind
        BY <3>1, VariantsRead
      <4> QED BY <3>1, <4>1 DEF VariantKind
    <3>3. stage = "done"  BY <3>2 DEF ExprInv, ResultIs
    <3> QED BY <3>3 DEF ExprInv, ResultIs
  <2>2. Kind \in VariantKind /\ expr = Target(Kind, Sub) /\ IsExpr(Sub)
    BY <2>1, LowerableIs, ExprAssumption DEF Formed
  <2> DEFINE v == Evaluate(Sub)
             w == Evaluate(expr)
  <2>3. v \in MCValues /\ (v.ok => SymbolsOf(Sub) \subseteq {v.a, v.b}) /\ Sub \in Seq(Nodes)
    BY <2>2, EvaluateIs DEF IsExpr
  <2>4. w = EvaluateAsRelocatable(Kind, v)  BY <2>2, EvaluateTarget
  <2>5. w.ok  BY <2>1
  <2> HIDE DEF v, w
  <2>6. w = v /\ v.b = Blank  BY <2>4, <2>5, NoValueIs DEF EvaluateAsRelocatable
  <2>7. Blank \notin SymbolsOf(Sub)
    <3>1. \A k \in DOMAIN Sub : Sub[k] \in Nodes  BY <2>3
    <3>2. \A k \in DOMAIN Sub : Sub[k].op = "sym" => Sub[k].sym \in Symbols  BY <3>1, NodeKinds
    <3> QED BY <3>2, ExprAssumption DEF SymbolsOf
  <2>8. SymbolsOf(Sub) \subseteq {w.a} /\ w.b = Blank  BY <2>3, <2>5, <2>6, <2>7
  <2> QED BY <2>8 DEF w
<1> QED BY <1>1, ExprInvariant, PTL
=============================================================================
