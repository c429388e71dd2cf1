-------------------------- MODULE MachineFunction --------------------------
(***************************************************************************)
(* Machine code as the custom inserter of TOYRISCVISelLowering.cpp sees    *)
(* it: a function is a layout (the order of its blocks), a body for every  *)
(* block and the successors the CFG records for it.                        *)
(*                                                                         *)
(* The first part is the vocabulary emitSelectPseudo is written with.  The *)
(* second part says what such code means: the SSA rules the machine        *)
(* verifier demands, and an execution that computes with free terms, so    *)
(* that two functions agree exactly when they compute the same terms in    *)
(* the same order.  LLVM's own classes live outside this repository; they  *)
(* are modelled from how emitSelectPseudo uses them.                       *)
(***************************************************************************)
EXTENDS Integers, Sequences, FiniteSets, SequencesExt

\* TOYRISCVCC::CondCode without COND_INVALID, and the relation each names.
CondRelation ==
  [COND_EQ |-> "=", COND_NE |-> "/=", COND_LT |-> "<", COND_GE |-> ">=",
   COND_LTU |-> "<u", COND_GEU |-> ">=u"]

\* The relation each conditional branch of the ISA tests.
BranchRelation ==
  [BEQ |-> "=", BNE |-> "/=", BLT |-> "<", BGE |-> ">=",
   BLTU |-> "<u", BGEU |-> ">=u"]

\* No register; no attribute.
NONE == ""

\* An instruction defines `def` (or none) from the registers `args`.
\* `attr` is the condition of a select or branch, or the variable a debug value
\* describes; `blocks` are the incoming blocks of a phi or the target of a
\* branch.  "pure" touches registers only, "mem" mayLoadOrStore, "effect"
\* hasUnmodeledSideEffects.
Instr(kind, def, args, attr, blocks) ==
  [kind |-> kind, def |-> def, args |-> args, attr |-> attr, blocks |-> blocks]

Select(def, lhs, rhs, cc, t, f) == Instr("select", def, <<lhs, rhs, t, f>>, cc, <<>>)
Phi(def, values, from)          == Instr("phi", def, values, NONE, from)
Pure(def, args)                 == Instr("pure", def, args, NONE, <<>>)
Mem(def, args)                  == Instr("mem", def, args, NONE, <<>>)
Effect(args)                    == Instr("effect", NONE, args, NONE, <<>>)
Debug(variable, reg)            == Instr("debug", NONE, <<reg>>, variable, <<>>)
Branch(opcode, lhs, rhs, to)    == Instr("branch", NONE, <<lhs, rhs>>, opcode, <<to>>)
Jump(to)                        == Instr("jump", NONE, <<>>, NONE, <<to>>)
Return(args)                    == Instr("return", NONE, args, NONE, <<>>)

IsSelect(m)  == m.kind = "select"
IsDebug(m)   == m.kind = "debug"
IsBarrier(m) == m.kind \in {"jump", "return"}
IsTerminator(m) == m.kind \in {"branch", "jump", "return"}

----------------------------------------------------------------------------
(* A function fn is a record [order, body, succs].                         *)

Blocks(fn)        == Range(fn.order)
Position(fn, b)   == SelectInSeq(fn.order, LAMBDA c : c = b)
NextInLayout(fn, b) == {fn.order[k + 1] : k \in {Position(fn, b)} \ {Len(fn.order)}}
Preds(fn, b)      == {p \in Blocks(fn) : b \in fn.succs[p]}
Uses(m)           == IF m.kind = "debug" THEN {} ELSE Range(m.args)

\* The blocks control can reach from b's terminators: branch targets, and the
\* next block of the layout unless a barrier ends the block.
ControlTargets(fn, b) ==
  LET code == fn.body[b]
  IN  (UNION {Range(m.blocks) : m \in {n \in Range(code) : n.kind \in {"branch", "jump"}}})
      \cup (IF code # <<>> /\ IsBarrier(Last(code)) THEN {} ELSE NextInLayout(fn, b))

\* The blocks reached from the entry without passing through `avoid`.
Reached(fn, avoid) ==
  LET n == Len(fn.order)
      reach[k \in 0 .. n] ==
        IF k = 0 THEN {fn.order[1]} \ avoid
        ELSE (reach[k - 1] \cup UNION {fn.succs[b] : b \in reach[k - 1]}) \ avoid
  IN  reach[n]

Dominates(fn, d, b) == d = b \/ b \notin Reached(fn, {d})

DefinedIn(fn, b, r)        == \E m \in Range(fn.body[b]) : m.def = r
DefinedBefore(fn, b, p, r) == \E k \in 1 .. p - 1 : fn.body[b][k].def = r

\* r has a value when instruction p of block b reads it: SSA dominance.
Available(fn, b, p, r) ==
  \/ DefinedBefore(fn, b, p, r)
  \/ \E d \in Blocks(fn) \ {b} : DefinedIn(fn, d, r) /\ Dominates(fn, d, b)

----------------------------------------------------------------------------
(* The rules of the machine verifier.                                      *)

Registers == STRING \ {NONE}

Kinds == {"phi", "select", "pure", "mem", "effect", "debug", "branch", "jump", "return"}

\* Instructions read registers and name blocks that exist; a phi has a value for
\* each block it names; a debug value shows one register and defines none; no select
\* reads its own result.
InstrOK(fn, m) ==
  /\ m = Instr(m.kind, m.def, m.args, m.attr, m.blocks) /\ m.kind \in Kinds
  /\ m.def \in Registers \cup {NONE}
  /\ m.args \in Seq(Registers) /\ m.blocks \in Seq(Blocks(fn))
  /\ Len(m.args) = 4 <=> m.kind = "select"
  /\ m.kind = "phi" => Len(m.args) = Len(m.blocks)
  /\ IsDebug(m) => m.def = NONE /\ Len(m.args) = 1
  /\ IsSelect(m) => m.attr \in DOMAIN CondRelation /\ m.def \notin {m.args[3], m.args[4]}

\* There is an entry; the blocks are exactly the ones created, and every one is in
\* the layout once.
WellFormed(fn) ==
  /\ fn.order \in Seq(1 .. Len(fn.order)) /\ fn.order # <<>> /\ IsInjective(fn.order)
  /\ DOMAIN fn.body = Blocks(fn) /\ DOMAIN fn.succs = Blocks(fn)
  /\ \A b \in Blocks(fn) : /\ fn.succs[b] \subseteq Blocks(fn)
                           /\ fn.body[b] \in Seq(Range(fn.body[b]))
                           /\ \A m \in Range(fn.body[b]) : InstrOK(fn, m)

\* Terminators end a block, and lead to the successors that the CFG records.
SuccessorsMatch(fn) ==
  \A b \in Blocks(fn) :
    /\ fn.succs[b] = ControlTargets(fn, b)
    /\ \A p, q \in DOMAIN fn.body[b] :
         p < q /\ IsTerminator(fn.body[b][p]) => IsTerminator(fn.body[b][q])

\* Phis begin a block, and name each predecessor exactly once.
PhisMatch(fn) ==
  \A b \in Blocks(fn) : \A p \in DOMAIN fn.body[b] :
    LET m == fn.body[b][p]
    IN  m.kind = "phi" =>
          /\ IsInjective(m.blocks) /\ Range(m.blocks) = Preds(fn, b)
          /\ \A q \in 1 .. p : fn.body[b][q].kind = "phi"

\* SSA: no register has two definitions.
DefinedOnce(fn) ==
  \A b, c \in Blocks(fn) : \A p \in DOMAIN fn.body[b] : \A q \in DOMAIN fn.body[c] :
    fn.body[b][p].def = fn.body[c][q].def /\ fn.body[b][p].def # NONE => b = c /\ p = q

\* Every register that an instruction reads has a value there, and a phi's operand
\* has one at the end of its incoming block.
UsesDominated(fn) ==
  \A b \in Blocks(fn) : \A p \in DOMAIN fn.body[b] :
    LET m == fn.body[b][p]
    IN  IF m.kind = "phi"
        THEN \A k \in DOMAIN m.args :
               Available(fn, m.blocks[k], Len(fn.body[m.blocks[k]]) + 1, m.args[k])
        ELSE \A r \in Uses(m) : Available(fn, b, p, r)

----------------------------------------------------------------------------
(* Execution.  A value is the prefix form of the term that computes it;    *)
(* "undefined" is <<>>.  `holds` is the set of relations <<op, lhs, rhs>>  *)
(* between registers that are true in this execution.                      *)

Regs(fn) == {m.def : m \in UNION {Range(fn.body[b]) : b \in Blocks(fn)}} \ {NONE}

Value(env, r)      == IF r \in DOMAIN env THEN env[r] ELSE <<>>
Values(env, args)  == [k \in DOMAIN args |-> Value(env, args[k])]
Term(env, m)       == <<m.def>> \o FlattenSeq(Values(env, m.args))

Taken(holds, m) ==
  \/ m.kind \in {"jump", "return"}
  \/ m.kind = "branch" /\ <<BranchRelation[m.attr], m.args[1], m.args[2]>> \in holds

Chosen(holds, m) ==
  IF <<CondRelation[m.attr], m.args[1], m.args[2]>> \in holds THEN m.args[3] ELSE m.args[4]

\* What a debugger was shown of variable x, in order.
ShownOf(st, x) == IF x \in DOMAIN st.shown THEN st.shown[x] ELSE <<>>

\* One instruction; `to` is {} until a terminator leaves the block.
Execute(holds, st, m) ==
  IF st.to # {} \/ m.kind = "phi" THEN st
  ELSE CASE m.kind = "pure" ->
              [st EXCEPT !.env[m.def] = Term(st.env, m)]
         [] m.kind = "select" ->
              [st EXCEPT !.env[m.def] = Value(st.env, Chosen(holds, m))]
         [] m.kind = "mem" ->
              [st EXCEPT !.env[m.def] = Term(st.env, m), !.mem = Append(@, Term(st.env, m))]
         [] m.kind = "effect" ->
              [st EXCEPT !.mem = Append(@, Term(st.env, m))]
         [] m.kind = "debug" ->
              [st EXCEPT !.shown = [x \in DOMAIN @ \cup {m.attr} |->
                 IF x = m.attr THEN Append(ShownOf(st, x), Value(st.env, m.args[1])) ELSE @[x]]]
         [] OTHER ->
              IF Taken(holds, m) THEN [st EXCEPT !.to = {m.blocks}] ELSE st

\* The states after each of the first instructions of `code`, starting in st.
Run(holds, st, code) ==
  LET after[k \in 0 .. Len(code)] ==
        IF k = 0 THEN st ELSE Execute(holds, after[k - 1], code[k])
  IN  after

\* What the phi m has when control comes from block p.
Incoming(env, m, p) ==
  IF p \in Range(m.blocks)
  THEN Value(env, m.args[CHOOSE k \in DOMAIN m.blocks : m.blocks[k] = p])
  ELSE <<>>

\* Control passes from block p to block b: b's phis read their operand for p
\* all at once.
Enter(fn, st, p, b) ==
  LET phis == {m \in Range(fn.body[b]) : m.kind = "phi"}
      env  == [r \in DOMAIN st.env |->
                 IF \E m \in phis : m.def = r
                 THEN Incoming(st.env, CHOOSE m \in phis : m.def = r, p)
                 ELSE st.env[r]]
  IN  [st EXCEPT !.at = b, !.to = {}, !.env = env]

\* Control leaves block b in state st: to where a terminator sent it, or to the
\* next block of the layout, or nowhere.
Leave(fn, st, b) ==
  LET goal == IF st.to = {} THEN NextInLayout(fn, b) ELSE UNION {Range(t) : t \in st.to}
  IN  IF goal = {} THEN [st EXCEPT !.at = 0]
      ELSE Enter(fn, st, b, CHOOSE g \in goal : TRUE)

RunBlock(fn, holds, st, b) == Leave(fn, Run(holds, st, fn.body[b])[Len(fn.body[b])], b)

Start(fn) ==
  [at |-> fn.order[1], to |-> {}, env |-> [r \in Regs(fn) |-> <<>>],
   mem |-> <<>>, shown |-> <<>>]

\* The pass is at block b of the layout: it runs when control is there.
Visit(fn, holds, st, b) == IF st.at = b THEN RunBlock(fn, holds, st, b) ELSE st

\* The states after each of the first blocks of the layout: control only moves
\* forward until it returns (at = 0) or takes a back edge (at = the earlier block).
Pass(fn, holds) ==
  LET after[k \in 0 .. Len(fn.order)] ==
        IF k = 0 THEN Start(fn) ELSE Visit(fn, holds, after[k - 1], fn.order[k])
  IN  after

\* One pass through the layout from the entry.
Outcome(fn, holds) == Pass(fn, holds)[Len(fn.order)]

\* The relations the code of fn may test.
Tests(fn) ==
  LET code == UNION {Range(fn.body[b]) : b \in Blocks(fn)}
  IN  {<<CondRelation[m.attr], m.args[1], m.args[2]>> : m \in {n \in code : IsSelect(n)}}
      \cup {<<BranchRelation[m.attr], m.args[1], m.args[2]>>
              : m \in {n \in code : n.kind = "branch"}}
============================================================================
