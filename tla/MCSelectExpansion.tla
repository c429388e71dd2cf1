------------------------- MODULE MCSelectExpansion -------------------------
(***************************************************************************)
(* Functions for SelectExpansion: Entry falls through into Loop, Loop      *)
(* branches back to itself or jumps to Exit.  Entry may end in a select of *)
(* its own; the body of Loop is every order in which at most MaxBody       *)
(* instructions of the pool respect SSA.                                   *)
(***************************************************************************)
EXTENDS SelectExpansion

CONSTANT MaxBody

Inputs == <<"a", "b", "t", "f">>

\* The first three selects share a condition; s3 reads the result of s1.
Pool == {
  Select("s1", "a", "b", "COND_LT", "t", "f"),
  Select("s2", "a", "b", "COND_LT", "f", "x"),
  Select("s3", "a", "b", "COND_LT", "s1", "t"),
  Select("s4", "a", "b", "COND_GE", "t", "f"),
  Select("s5", "b", "a", "COND_LT", "x", "s2"),
  Pure("p", <<"x">>),
  Pure("q", <<"s1", "p">>),
  Mem("l", <<"a">>),
  Effect(<<"s2">>) }

\* Debug values of two variables, v with three of them: of a select, of pure code and of
\* what is there before.
DebugPool == {
  Select("s1", "a", "b", "COND_LT", "t", "f"),
  Select("s2", "a", "b", "COND_LT", "f", "x"),
  Pure("p", <<"x">>),
  Debug("v", "s1"), Debug("v", "p"), Debug("v", "t"), Debug("w", "s2") }

Defined(code) == {m.def : m \in Range(code)}

RECURSIVE BodiesOf(_, _)
BodiesOf(pool, n) ==
  IF n = 0 THEN {<<>>}
  ELSE LET shorter == BodiesOf(pool, n - 1)
       IN  shorter \cup
           {Append(code, m) : <<code, m>> \in
              {cm \in {c \in shorter : Len(c) = n - 1} \X pool :
                 /\ cm[2] \notin Range(cm[1])
                 /\ Range(cm[2].args) \subseteq Range(Inputs) \cup {"x"} \cup Defined(cm[1])}}

\* What Loop hands to Exit: the register its body defined last.
ResultOf(code) ==
  LET defs == SelectSeq(code, LAMBDA m : m.def # NONE)
  IN  IF defs = <<>> THEN "x" ELSE Last(defs).def

MakeFunction(pre, code) ==
  [order |-> <<1, 2, 3>>,
   body  |-> <<
     [k \in 1 .. 4 |-> Pure(Inputs[k], <<>>)] \o pre,
     <<Phi("x", <<"t", ResultOf(code)>>, <<1, 2>>)>> \o code
       \o <<Branch("BNE", "a", "b", 2), Jump(3)>>,
     <<Phi("y", <<ResultOf(code)>>, <<2>>), Return(<<"y">>)>> >>,
   succs |-> << {2}, {2, 3}, {} >>]

MCFunctions ==
  {MakeFunction(pre, code) :
     pre \in {<<>>, <<Select("s0", "t", "f", "COND_EQ", "a", "b")>>},
     code \in BodiesOf(Pool, MaxBody) \cup BodiesOf(DebugPool, MaxBody)}
============================================================================
