------------------------- MODULE FunctionCall_proof -------------------------
(***************************************************************************)
(* What the caller relies on, for all signatures, every set of registers   *)
(* to allocate from and every allocation: the results arrive in their      *)
(* registers, and the registers the convention protects are kept.  And for *)
(* all stack objects: none overlaps another.                               *)
(***************************************************************************)
EXTENDS FunctionCall, SequenceTheorems, WellFoundedInduction, TLAPS

----------------------------------------------------------------------------
(* Signatures and registers.                                               *)

LEMMA FunctionFields ==
  ASSUME fn \in Functions
  PROVE  /\ fn.args \in Nat \ {0}
         /\ fn.results \in Seq({1, fn.args}) /\ DOMAIN fn.results = 1 .. Len(fn.results)
         /\ Len(fn.results) \in Nat
         /\ fn.dynamic \in BOOLEAN
<1>1. PICK n \in ArgCounts :
        fn \in [cc : {"C", "Fast"}, vararg : BOOLEAN, args : {n}, objects : ObjectLists,
                fp : BOOLEAN, dynamic : BOOLEAN,
                results : UNION {[1 .. m -> {1, n}] : m \in 0 .. 3}]
  BY DEF Functions
<1>2. fn.args = n /\ n \in Nat \ {0} /\ fn.dynamic \in BOOLEAN
  BY <1>1, FunctionAssumption
<1>3. PICK m \in 0 .. 3 : fn.results \in [1 .. m -> {1, n}]  BY <1>1
<1>4. fn.results \in Seq({1, n}) /\ Len(fn.results) = m  BY <1>3
<1> QED BY <1>2, <1>3, <1>4

LEMMA ArgumentRegisters ==
  /\ ArgRegs = ABIArgs /\ Len(ABIArgs) = 8 /\ Len(RetRegs) = 2
  /\ ABIArgs \in Seq(GPR) /\ RetRegs \in Seq(GPR)
  /\ ABIArgs[1] = "A0" /\ ABIArgs[2] = "A1" /\ RetRegs[1] = "A0" /\ RetRegs[2] = "A1"
  /\ \A k \in 1 .. 8 : ABIArgs[k] \in GPR /\ ABIArgs[k] \notin ABIKept
  /\ ABIKept \subseteq GPR
<1>1. ArgRegs = ABIArgs  BY DEF ArgRegs, ABIArgs
<1>2. /\ Len(ABIArgs) = 8 /\ Len(RetRegs) = 2
      /\ ABIArgs \in Seq(GPR) /\ RetRegs \in Seq(GPR)
      /\ ABIArgs[1] = "A0" /\ ABIArgs[2] = "A1" /\ RetRegs[1] = "A0" /\ RetRegs[2] = "A1"
  BY DEF ABIArgs, RetRegs, GPR
<1>3. \A k \in 1 .. 8 : ABIArgs[k] \in {"A0", "A1", "A2", "A3", "A4", "A5", "A6", "A7"}
  BY DEF ABIArgs
<1>4. \A r \in {"A0", "A1", "A2", "A3", "A4", "A5", "A6", "A7"} :
        r \in GPR /\ r \notin ABIKept
  BY DEF GPR, ABIKept
<1>5. ABIKept \subseteq GPR  BY DEF GPR, ABIKept
<1> QED BY <1>1, <1>2, <1>3, <1>4, <1>5

----------------------------------------------------------------------------
(* The invariant.                                                          *)

Value    == [is : {"caller", "argument", "junk"}, of : GPR]
Caller(r)   == [is |-> "caller", of |-> r]
Argument(r) == [is |-> "argument", of |-> r]

\* The number of results, and what the i-th has to be.
Count     == Len(fn.results)
Result(i) == Argument(ABIArgs[fn.results[i]])

\* Nothing has run yet.
Compiling ==
  {"arguments", "return", "select", "allocate", "save", "frame", "body"}

Kept == \A r \in ABIKept : regs[r] = Caller(r)

Arguments ==
  /\ stage \in Compiling =>
       \A k \in 1 .. fn.args : k <= 8 => regs[ABIArgs[k]] = Argument(ABIArgs[k])
  /\ stage \in Compiling \ {"arguments"} =>
       fn.args <= 8 /\ \A k \in 1 .. fn.args : livein[k] = ABIArgs[k]

Results ==
  stage \in Compiling \ {"arguments", "return"} =>
    /\ Count <= 2 /\ copies \in Seq({"A0", "A1"}) /\ Len(copies) = Count
    /\ \A i \in 1 .. Count : copies[i] = ABIArgs[i]

\* What the later steps know of the allocation: SP is written only if the function
\* moves it.
Allocation ==
  /\ stage \in {"save", "frame", "body", "copies"} =>
       /\ loc \in Seq(GPR \ Reserved) /\ Len(loc) = Count
       /\ \A i, j \in 1 .. Count : i < j => loc[i] # loc[j] /\ loc[j] # ABIArgs[i]
       /\ \A i \in 1 .. Count : loc[i] \in written
       /\ written \cap {"ZERO", "GP", "TP"} = {}
  /\ stage \in {"frame", "body"} => written \cap CalleeSaved = {}

\* The first results are in their registers, the others still where they were.
Copying ==
  stage = "copies" =>
    LET done == Count - Len(copies)
    IN  /\ Count <= 2 /\ done \in Nat /\ copies \in Seq({"A0", "A1"})
        /\ \A i \in 1 .. Len(copies) : copies[i] = ABIArgs[done + i]
        /\ \A i \in 1 .. done : regs[ABIArgs[i]] = Result(i)
        /\ \A i \in done + 1 .. Count : regs[loc[i]] = Result(i)

Returned ==
  stage = "returned" => \A i \in 1 .. Count : regs[ABIArgs[i]] = Result(i)

IInv ==
  /\ fn \in Functions /\ regs \in [GPR -> Value]
  /\ stage \in Compiling \cup {"copies", "returned", "fatal"}
  /\ Kept /\ Arguments /\ Results /\ Allocation /\ Copying /\ Returned

LEMMA Initially == Init => IInv
<1> SUFFICES ASSUME Init  PROVE IInv
  OBVIOUS
<1>1. /\ fn \in Functions /\ stage = "arguments" /\ stage \in Compiling
      /\ regs = [r \in GPR |->
                   IF \E k \in 1 .. fn.args : k <= Len(ABIArgs) /\ ABIArgs[k] = r
                   THEN Argument(r) ELSE Caller(r)]
  BY DEF Init, Compiling, Argument, Caller
<1>2. \A r \in GPR : Argument(r) \in Value /\ Caller(r) \in Value
  BY DEF Argument, Caller, Value
<1>3. fn.args \in Nat  BY <1>1, FunctionFields
<1>4. regs \in [GPR -> Value]  BY <1>1, <1>2
<1>5. Kept
  <2> SUFFICES ASSUME NEW r \in ABIKept  PROVE regs[r] = Caller(r)
    BY DEF Kept
  <2>1. r \in GPR /\ ~(\E k \in 1 .. fn.args : k <= Len(ABIArgs) /\ ABIArgs[k] = r)
    BY <1>3, ArgumentRegisters
  <2> QED BY <1>1, <2>1
<1>6. ASSUME NEW k \in 1 .. fn.args, k <= 8
      PROVE  regs[ABIArgs[k]] = Argument(ABIArgs[k])
  <2>1. ABIArgs[k] \in GPR /\ k <= Len(ABIArgs)  BY <1>3, <1>6, ArgumentRegisters
  <2> QED BY <1>1, <2>1
<1> QED BY <1>1, <1>4, <1>5, <1>6
     DEF IInv, Arguments, Results, Allocation, Copying, Returned, Compiling

LEMMA Preserved == IInv /\ [Next]_vars => IInv'
<1> SUFFICES ASSUME IInv, [Next]_vars  PROVE IInv'
  OBVIOUS
<1> USE DEF IInv
<1>0. /\ fn.args \in Nat \ {0} /\ Count \in Nat
      /\ DOMAIN fn.results = 1 .. Count
      /\ \A i \in 1 .. Count : fn.results[i] \in 1 .. fn.args
  <2>1. /\ fn.args \in Nat \ {0} /\ Count \in Nat /\ DOMAIN fn.results = 1 .. Count
        /\ fn.results \in Seq({1, fn.args})
    BY FunctionFields DEF Count
  <2>2. \A i \in 1 .. Count : fn.results[i] \in {1, fn.args}  BY <2>1
  <2> QED BY <2>1, <2>2
<1>1. CASE LowerFormalArguments
  <2>1. /\ fn' = fn /\ regs' = regs /\ stage = "arguments"
        /\ \/ stage' = "fatal"
           \/ /\ stage' = "return" /\ fn.args <= Len(ArgRegs)
              /\ livein' = SubSeq(ArgRegs, 1, fn.args)
    <3>1. CASE Unsupported  BY <1>1, <3>1 DEF LowerFormalArguments
    <3>2. CASE ~Unsupported
      <4>1. fn.args <= Len(ArgRegs)
        <5>1. ~(fn.args > Len(ArgRegs))  BY <3>2 DEF Unsupported
        <5> QED BY <1>0, <5>1, ArgumentRegisters
      <4> QED BY <1>1, <3>2, <4>1 DEF LowerFormalArguments
    <3> QED BY <3>1, <3>2
  <2>2. Kept'  BY <2>1 DEF Kept
  <2>3. CASE stage' = "fatal"
    BY <2>1, <2>2, <2>3
       DEF Arguments, Results, Allocation, Copying, Returned, Compiling
  <2>4. CASE stage' = "return"
    <3>1. fn.args <= 8 /\ livein' = SubSeq(ABIArgs, 1, fn.args)
      BY <2>1, <2>4, ArgumentRegisters
    <3>2. \A k \in 1 .. fn.args : livein'[k] = ABIArgs[k]
      BY <1>0, <3>1, ArgumentRegisters
    <3>3. Arguments'  BY <2>1, <2>4, <3>1, <3>2 DEF Arguments, Compiling
    <3> QED BY <2>1, <2>2, <2>4, <3>3
         DEF Results, Allocation, Copying, Returned, Compiling
  <2> QED BY <2>1, <2>3, <2>4
<1>2. CASE LowerReturn
  <2>1. /\ fn' = fn /\ regs' = regs /\ stage = "return" /\ livein' = livein
        /\ \/ stage' = "fatal"
           \/ stage' = "select" /\ Count <= 2 /\ copies' = SubSeq(RetRegs, 1, Count)
    BY <1>2, ArgumentRegisters DEF LowerReturn, Count
  <2>2. Kept'  BY <2>1 DEF Kept
  <2>3. CASE stage' = "fatal"
    BY <2>1, <2>2, <2>3
       DEF Arguments, Results, Allocation, Copying, Returned, Compiling
  <2>4. CASE stage' = "select"
    <3>1. RetRegs \in Seq({"A0", "A1"})  BY DEF RetRegs
    <3>2. /\ Count <= 2 /\ copies' \in Seq({"A0", "A1"}) /\ Len(copies') = Count
          /\ \A i \in 1 .. Count : copies'[i] = RetRegs[i]
      BY <1>0, <2>1, <2>4, <3>1, ArgumentRegisters
    <3>3. \A i \in 1 .. Count : RetRegs[i] = ABIArgs[i]
      <4>1. \A i \in 1 .. Count : i = 1 \/ i = 2  BY <1>0, <3>2
      <4> QED BY <4>1, ArgumentRegisters
    <3>4. Results'  BY <2>1, <3>2, <3>3 DEF Results, Count
    <3>5. Arguments'  BY <2>1, <2>4 DEF Arguments, Compiling
    <3> QED BY <2>1, <2>2, <2>4, <3>4, <3>5 DEF Allocation, Copying, Returned, Compiling
  <2> QED BY <2>1, <2>3, <2>4
<1>3. CASE SelectFrameIndices
  <2>1. /\ fn' = fn /\ regs' = regs /\ livein' = livein /\ copies' = copies
        /\ stage = "select" /\ stage' = "allocate"
    BY <1>3 DEF SelectFrameIndices
  <2> QED BY <2>1 DEF Kept, Arguments, Results, Allocation, Copying, Returned, Compiling,
                      Count
<1>4. CASE AllocateRegisters
  <2>1. /\ fn' = fn /\ regs' = regs /\ livein' = livein /\ copies' = copies
        /\ stage = "allocate" /\ stage' = "save"
    BY <1>4 DEF AllocateRegisters
  <2>2. PICK l \in [1 .. Count -> Pool \ Reserved], extra \in Pool \ Reserved :
          /\ \A i, j \in DOMAIN l : i < j => l[i] # l[j] /\ l[j] # RetRegs[i]
          /\ loc' = l
          /\ written' = {l[i] : i \in DOMAIN l} \cup {copies[i] : i \in DOMAIN copies}
                          \cup {extra} \cup IF fn.dynamic THEN {"SP"} ELSE {}
    BY <1>0, <1>4 DEF AllocateRegisters
  <2>3. Pool \ Reserved \subseteq GPR \ Reserved  BY FunctionAssumption
  <2>4. Count <= 2 /\ copies \in Seq({"A0", "A1"})  BY <2>1 DEF Results, Compiling
  <2>5. loc' \in Seq(GPR \ Reserved) /\ Len(loc') = Count /\ DOMAIN loc' = 1 .. Count
    <3>1. l \in [1 .. Count -> GPR \ Reserved]  BY <2>2, <2>3
    <3>2. l \in Seq(GPR \ Reserved) /\ Len(l) = Count  BY <1>0, <3>1
    <3> QED BY <2>2, <3>2
  <2>6. \A i, j \in 1 .. Count : i < j => loc'[i] # loc'[j] /\ loc'[j] # ABIArgs[i]
    <3> SUFFICES ASSUME NEW i \in 1 .. Count, NEW j \in 1 .. Count, i < j
                 PROVE  loc'[i] # loc'[j] /\ loc'[j] # ABIArgs[i]
      OBVIOUS
    <3>1. loc'[i] # loc'[j] /\ loc'[j] # RetRegs[i]  BY <2>2, <2>5
    <3>2. i = 1 \/ i = 2  BY <1>0, <2>4
    <3> QED BY <3>1, <3>2, ArgumentRegisters
  <2>7. \A i \in 1 .. Count : loc'[i] \in written'  BY <2>2, <2>5
  <2>8. written' \cap {"ZERO", "GP", "TP"} = {}
    <3>1. \A i \in DOMAIN copies : copies[i] \in {"A0", "A1"}  BY <2>4
    <3>2. \A r \in Pool \ Reserved : r \notin {"ZERO", "GP", "TP"}  BY DEF Reserved
    <3>3. \A i \in DOMAIN l : l[i] \in Pool \ Reserved  BY <2>2
    <3>4. \A r \in written' : \/ r \in Pool \ Reserved
                              \/ r \in {"A0", "A1"}
                              \/ r = "SP"
      BY <2>2, <3>1, <3>3
    <3> QED BY <3>2, <3>4
  <2>9. Allocation'
    BY <2>1, <2>5, <2>6, <2>7, <2>8 DEF Allocation, Count
  <2>10. Kept' /\ Arguments' /\ Results'
    BY <2>1 DEF Kept, Arguments, Results, Compiling, Count
  <2> QED BY <2>1, <2>9, <2>10 DEF Copying, Returned, Compiling
<1>5. CASE SpillCalleeSaved
  <2>1. /\ fn' = fn /\ regs' = regs /\ livein' = livein /\ copies' = copies
        /\ loc' = loc /\ written' = written /\ stage = "save"
        /\ \/ stage' = "fatal"
           \/ stage' = "frame" /\ written \cap CalleeSaved = {}
    BY <1>5 DEF SpillCalleeSaved
  <2> QED BY <2>1 DEF Kept, Arguments, Results, Allocation, Copying, Returned, Compiling,
                      Count
<1>6. CASE EliminateFrameIndex
  <2>1. /\ fn' = fn /\ regs' = regs /\ livein' = livein /\ copies' = copies
        /\ loc' = loc /\ written' = written /\ stage = "frame"
        /\ stage' = "frame" \/ stage' = "fatal"
    BY <1>6 DEF EliminateFrameIndex
  <2> QED BY <2>1 DEF Kept, Arguments, Results, Allocation, Copying, Returned, Compiling,
                      Count
<1>7. CASE Call
  <2>1. /\ fn' = fn /\ regs' = regs /\ livein' = livein /\ copies' = copies
        /\ loc' = loc /\ written' = written /\ stage = "frame" /\ stage' = "body"
    BY <1>7 DEF Call
  <2> QED BY <2>1 DEF Kept, Arguments, Results, Allocation, Copying, Returned, Compiling,
                      Count
<1>8. CASE Body
  <2>1. /\ fn' = fn /\ copies' = copies /\ loc' = loc /\ written' = written
        /\ stage = "body" /\ stage' = "copies"
        /\ regs' = [r \in GPR |->
                      IF \E i \in DOMAIN loc : loc[i] = r
                      THEN regs[livein[fn.results[CHOOSE i \in DOMAIN loc : loc[i] = r]]]
                      ELSE IF r \in written THEN [is |-> "junk", of |-> r] ELSE regs[r]]
    BY <1>8 DEF Body
  <2>2. /\ fn.args <= 8
        /\ \A k \in 1 .. fn.args : livein[k] = ABIArgs[k]
        /\ \A k \in 1 .. fn.args : regs[ABIArgs[k]] = Argument(ABIArgs[k])
    BY <1>0, <2>1 DEF Arguments, Compiling
  <2>3. /\ Count <= 2 /\ copies \in Seq({"A0", "A1"}) /\ Len(copies) = Count
        /\ \A i \in 1 .. Count : copies[i] = ABIArgs[i]
    BY <2>1 DEF Results, Compiling
  <2>4. /\ loc \in Seq(GPR \ Reserved) /\ Len(loc) = Count
        /\ \A i, j \in 1 .. Count : i < j => loc[i] # loc[j] /\ loc[j] # ABIArgs[i]
        /\ \A i \in 1 .. Count : loc[i] \in written
        /\ written \cap {"ZERO", "GP", "TP"} = {} /\ written \cap CalleeSaved = {}
    BY <2>1 DEF Allocation
  <2>5. DOMAIN loc = 1 .. Count  BY <1>0, <2>4
  <2>6. ASSUME NEW i \in 1 .. Count
        PROVE  regs[livein[fn.results[i]]] = Result(i) /\ Result(i) \in Value
    <3>1. fn.results[i] \in 1 .. fn.args  BY <1>0
    <3>2. ABIArgs[fn.results[i]] \in GPR  BY <1>0, <2>2, <3>1, ArgumentRegisters
    <3> QED BY <2>2, <3>1, <3>2 DEF Result, Argument, Value
  <2>7. ASSUME NEW r \in GPR, NEW i \in 1 .. Count, loc[i] = r
        PROVE  regs'[r] = Result(i)
    <3> DEFINE c == CHOOSE j \in DOMAIN loc : loc[j] = r
    <3>1. c \in 1 .. Count /\ loc[c] = r  BY <2>5, <2>7
    <3>2. regs'[r] = regs[livein[fn.results[c]]]  BY <2>1, <2>5, <2>7
    <3> HIDE DEF c
    <3>3. c = i
      <4>1. ~(c < i) /\ ~(i < c)  BY <2>4, <2>7, <3>1
      <4> QED BY <1>0, <3>1, <4>1
    <3> QED BY <2>6, <3>2, <3>3
  <2>8. ASSUME NEW r \in GPR, r \notin written  PROVE regs'[r] = regs[r]
    <3>1. ~(\E i \in DOMAIN loc : loc[i] = r)  BY <2>4, <2>5, <2>8
    <3> QED BY <2>1, <2>8, <3>1
  <2>9. regs' \in [GPR -> Value]
    <3>1. ASSUME NEW r \in GPR  PROVE regs'[r] \in Value
      <4>1. CASE \E i \in DOMAIN loc : loc[i] = r
        <5>1. PICK i \in 1 .. Count : loc[i] = r  BY <2>5, <4>1
        <5> QED BY <2>6, <2>7, <5>1
      <4>2. CASE ~(\E i \in DOMAIN loc : loc[i] = r) /\ r \in written
        <5>1. regs'[r] = [is |-> "junk", of |-> r]  BY <2>1, <4>2
        <5> QED BY <5>1 DEF Value
      <4>3. CASE ~(\E i \in DOMAIN loc : loc[i] = r) /\ r \notin written
        <5>1. regs'[r] = regs[r]  BY <2>8, <4>3
        <5> QED BY <5>1
      <4> QED BY <4>1, <4>2, <4>3
    <3>2. regs' = [r \in GPR |-> regs'[r]]  BY <2>1
    <3> QED BY <3>1, <3>2
  <2>10. Kept'
    <3> SUFFICES ASSUME NEW r \in ABIKept  PROVE regs'[r] = Caller(r)
      BY DEF Kept
    <3>1. r \in GPR  BY ArgumentRegisters
    <3>2. r \notin written  BY <2>4 DEF ABIKept, CalleeSaved
    <3> QED BY <2>8, <3>1, <3>2 DEF Kept
  <2>11. Copying'
    <3>1. \A i \in 1 .. Count : regs'[loc[i]] = Result(i)  BY <2>4, <2>5, <2>7
    <3>2. Count' = Count /\ Len(copies') = Count /\ Count' - Len(copies') = 0
      BY <1>0, <2>1, <2>3 DEF Count
    <3>3. \A i \in 1 .. Count : (Result(i))' = Result(i)  BY <2>1 DEF Result
    <3>4. \A i \in 1 .. Count : copies'[i] = ABIArgs[0 + i]
      BY <1>0, <2>1, <2>3
    <3>5. \A i \in 0 + 1 .. Count : regs'[loc'[i]] = (Result(i))'
      BY <1>0, <2>1, <3>1, <3>3
    <3>6. \A i \in 1 .. 0 : regs'[ABIArgs[i]] = (Result(i))'  OBVIOUS
    <3>7. Count' <= 2 /\ 0 \in Nat /\ copies' \in Seq({"A0", "A1"})
      BY <2>1, <2>3, <3>2
    <3> QED BY <2>1, <3>2, <3>4, <3>5, <3>6, <3>7 DEF Copying
  <2>12. Allocation'  BY <2>1, <2>4 DEF Allocation, Count
  <2> QED BY <2>1, <2>9, <2>10, <2>11, <2>12 DEF Arguments, Results, Returned, Compiling
<1>9. CASE CopyPhysReg
  <2> DEFINE done == Count - Len(copies)
             dst == Head(copies)
             src == loc[Len(loc) - Len(copies) + 1]
  <2>1. /\ fn' = fn /\ loc' = loc /\ written' = written /\ stage = "copies"
        /\ stage' = "copies" /\ copies # <<>> /\ copies' = Tail(copies)
        /\ regs' = [regs EXCEPT ![dst] = regs[src]]
    BY <1>9 DEF CopyPhysReg
  <2>2. /\ Count <= 2 /\ done \in Nat /\ copies \in Seq({"A0", "A1"})
        /\ \A i \in 1 .. Len(copies) : copies[i] = ABIArgs[done + i]
        /\ \A i \in 1 .. done : regs[ABIArgs[i]] = Result(i)
        /\ \A i \in done + 1 .. Count : regs[loc[i]] = Result(i)
    BY <2>1 DEF Copying
  <2>3. /\ loc \in Seq(GPR \ Reserved) /\ Len(loc) = Count
        /\ \A i, j \in 1 .. Count : i < j => loc[i] # loc[j] /\ loc[j] # ABIArgs[i]
    BY <2>1 DEF Allocation
  <2>4. /\ Len(copies) \in Nat /\ Len(copies) > 0 /\ dst = copies[1]
        /\ dst \in {"A0", "A1"}
        /\ copies' \in Seq({"A0", "A1"}) /\ Len(copies') = Len(copies) - 1
        /\ \A i \in 1 .. Len(copies') : copies'[i] = copies[i + 1]
    BY <2>1, <2>2, HeadTailProperties
  <2>5. dst = ABIArgs[done + 1] /\ src = loc[done + 1] /\ done + 1 \in 1 .. Count
    BY <1>0, <2>2, <2>3, <2>4
  <2>6. dst \in GPR /\ dst \notin ABIKept  BY <2>4 DEF GPR, ABIKept
  <2> HIDE DEF done, dst, src
  <2>7. src \in GPR /\ regs[src] = Result(done + 1)
    <3>1. done + 1 \in done + 1 .. Count  BY <1>0, <2>2, <2>5 DEF done
    <3> QED BY <2>2, <2>3, <2>5, <3>1
  <2>8. regs' \in [GPR -> Value] /\ regs'[dst] = regs[src]
    BY <2>1, <2>6, <2>7
  <2>9. \A r \in GPR : r # dst => regs'[r] = regs[r]  BY <2>1
  <2>10. Kept'  BY <2>6, <2>9, ArgumentRegisters DEF Kept
  <2>11. Count' = Count /\ Count' - Len(copies') = done + 1
    BY <1>0, <2>1, <2>4 DEF Count, done
  <2>12. \A i \in 1 .. done + 1 : regs'[ABIArgs[i]] = Result(i)
    <3> SUFFICES ASSUME NEW i \in 1 .. done + 1  PROVE regs'[ABIArgs[i]] = Result(i)
      OBVIOUS
    <3>1. CASE i = done + 1  BY <2>5, <2>7, <2>8, <3>1
    <3>2. CASE i # done + 1
      <4>1. i \in 1 .. done /\ i = 1 /\ done + 1 = 2  BY <1>0, <2>2, <2>5, <3>2
      <4>2. ABIArgs[i] # dst /\ ABIArgs[i] \in GPR
        BY <2>5, <4>1, ArgumentRegisters
      <4> QED BY <2>2, <2>9, <4>1, <4>2
    <3> QED BY <3>1, <3>2
  <2>13. \A i \in (done + 1) + 1 .. Count : regs'[loc[i]] = Result(i)
    <3> SUFFICES ASSUME NEW i \in (done + 1) + 1 .. Count
                 PROVE  regs'[loc[i]] = Result(i)
      OBVIOUS
    <3>1. i \in 1 .. Count /\ done + 1 < i /\ i \in done + 1 .. Count
      BY <1>0, <2>2
    <3>2. loc[i] # dst /\ loc[i] \in GPR  BY <2>3, <2>5, <3>1
    <3> QED BY <2>2, <2>9, <3>1, <3>2
  <2>14. \A i \in 1 .. Len(copies') : copies'[i] = ABIArgs[(done + 1) + i]
    <3> SUFFICES ASSUME NEW i \in 1 .. Len(copies')
                 PROVE  copies'[i] = ABIArgs[(done + 1) + i]
      OBVIOUS
    <3>1. i + 1 \in 1 .. Len(copies) /\ done + (i + 1) = (done + 1) + i
      BY <2>2, <2>4
    <3> QED BY <2>2, <2>4, <3>1
  <2>15. \A i \in 1 .. Count : (Result(i))' = Result(i)  BY <2>1 DEF Result
  <2>16. Copying'
    BY <1>0, <2>1, <2>2, <2>4, <2>11, <2>12, <2>13, <2>14, <2>15 DEF Copying, done
  <2>17. Allocation'  BY <2>1 DEF Allocation, Count
  <2> QED BY <2>1, <2>8, <2>10, <2>16, <2>17 DEF Arguments, Results, Returned, Compiling
<1>10. CASE Return
  <2>1. /\ fn' = fn /\ regs' = regs /\ copies = <<>>
        /\ stage = "copies" /\ stage' = "returned"
    BY <1>10 DEF Return
  <2>2. Count - Len(copies) = Count  BY <1>0, <2>1
  <2>3. \A i \in 1 .. Count : regs[ABIArgs[i]] = Result(i)  BY <2>1, <2>2 DEF Copying
  <2>4. Returned'  BY <2>1, <2>3 DEF Returned, Count, Result
  <2> QED BY <2>1, <2>4 DEF Kept, Arguments, Results, Allocation, Copying, Compiling
<1>11. CASE UNCHANGED vars
  BY <1>11 DEF vars, Kept, Arguments, Results, Allocation, Copying, Returned, Count, Result
<1> QED BY <1>1, <1>2, <1>3, <1>4, <1>5, <1>6, <1>7, <1>8, <1>9, <1>10, <1>11
     DEF Next, Finished

----------------------------------------------------------------------------
\* For every signature, set of registers and allocation, each result of a call is
\* where the convention puts it: no copy into a return register destroys a result
\* that is still to be copied.
THEOREM Arrive == Spec => []ResultsArrive
<1>1. IInv => ResultsArrive
  <2> SUFFICES ASSUME IInv, stage = "returned", NEW i \in DOMAIN fn.results
               PROVE  regs[ABIArgs[i]] = [is |-> "argument", of |-> ABIArgs[fn.results[i]]]
    BY DEF ResultsArrive
  <2>1. i \in 1 .. Count  BY FunctionFields DEF IInv, Count
  <2> QED BY <2>1 DEF IInv, Returned, Result, Argument
<1> QED BY <1>1, Initially, Preserved, PTL DEF Spec

\* For every signature, set of registers and allocation, a function that returns has
\* left each register the convention protects as the caller left it.
THEOREM Keeps == Spec => []CallerRegistersKept
<1>1. IInv => CallerRegistersKept  BY DEF IInv, Kept, Caller, CallerRegistersKept
<1> QED BY <1>1, Initially, Preserved, PTL DEF Spec

----------------------------------------------------------------------------
(* The frame.                                                              *)

LessThan == {pair \in Nat \X Nat : pair[1] < pair[2]}

\* Sets of natural numbers have least members: induction over the objects of a frame.
LEMMA Least ==
  ASSUME NEW T, T \subseteq Nat, T # {}
  PROVE  \E n \in T : \A m \in T : n <= m
<1>1. IsWellFoundedOn(OpToRel(<, Nat), Nat)  BY NatLessThanWellFounded
<1>2. IsWellFoundedOn(LessThan, Nat)  BY <1>1 DEF OpToRel, LessThan
<1>3. PICK n \in T : \A m \in T : ~ (<<m, n>> \in LessThan)  BY <1>2, WFMin
<1>4. \A m \in T : ~(m < n)  BY <1>3 DEF LessThan
<1> QED BY <1>3, <1>4

\* The sums of the sizes, as the recursive function computes them.
SumsTo(o, n) ==
  {f \in [0 .. n -> Nat] : f[0] = 0 /\ \A i \in 1 .. n : f[i] = f[i - 1] + o[i]}

LEMMA SumsExist ==
  ASSUME NEW o \in Seq(Nat \ {0}), NEW n \in 0 .. Len(o)
  PROVE  SumsTo(o, n) # {}
<1> DEFINE T == {m \in 0 .. Len(o) : SumsTo(o, m) = {}}
<1>1. Len(o) \in Nat /\ \A i \in 1 .. Len(o) : o[i] \in Nat  OBVIOUS
<1> SUFFICES ASSUME T # {}  PROVE FALSE
  OBVIOUS
<1>2. PICK m \in T : \A k \in T : m <= k
  <2>1. T \subseteq Nat  BY <1>1
  <2> HIDE DEF T
  <2> QED BY <2>1, Least
<1>3. CASE m = 0
  <2> DEFINE f == [i \in 0 .. 0 |-> 0]
  <2>1. f \in SumsTo(o, 0)  BY DEF SumsTo
  <2> QED BY <1>2, <1>3, <2>1
<1>4. CASE m # 0
  <2>1. m - 1 \in 0 .. Len(o) /\ ~(m <= m - 1) /\ m \in 1 .. Len(o)  BY <1>1, <1>2, <1>4
  <2>2. PICK f : f \in SumsTo(o, m - 1)  BY <1>2, <2>1
  <2>3. /\ f \in [0 .. m - 1 -> Nat] /\ f[0] = 0
        /\ \A i \in 1 .. m - 1 : f[i] = f[i - 1] + o[i]
    BY <2>2 DEF SumsTo
  <2> DEFINE g == [i \in 0 .. m |-> IF i = m THEN f[m - 1] + o[m] ELSE f[i]]
  <2>4. g \in [0 .. m -> Nat] /\ g[0] = 0  BY <1>1, <2>1, <2>3
  <2>5. \A i \in 1 .. m : g[i] = g[i - 1] + o[i]  BY <1>1, <2>1, <2>3
  <2> HIDE DEF g
  <2>6. g \in SumsTo(o, m)  BY <2>4, <2>5 DEF SumsTo
  <2> QED BY <1>2, <2>6
<1> QED BY <1>3, <1>4

LEMMA BelowSums ==
  ASSUME fn.objects \in Seq(Nat \ {0})
  PROVE  Below \in SumsTo(fn.objects, Len(fn.objects))
<1> DEFINE o == fn.objects
           n == Len(o)
           Step(g) == [i \in 0 .. n |-> IF i = 0 THEN 0 ELSE g[i - 1] + o[i]]
<1>1. n \in Nat  OBVIOUS
<1>2. Below = CHOOSE g : g = Step(g)  BY DEF Below
<1>3. PICK f : f \in SumsTo(o, n)  BY <1>1, SumsExist
<1>4. f = Step(f)  BY <1>1, <1>3 DEF SumsTo
<1>5. Below = Step(Below)  BY <1>2, <1>4
<1>6. Below = [i \in 0 .. n |-> IF i = 0 THEN 0 ELSE Below[i - 1] + o[i]]  BY <1>5
<1>7. Below[0] = 0 /\ \A i \in 1 .. n : Below[i] = Below[i - 1] + o[i]
  <2> HIDE DEF o, n
  <2>1. 0 \in 0 .. n /\ \A i \in 1 .. n : i \in 0 .. n /\ i # 0  BY <1>1
  <2>2. \A i \in 0 .. n : Below[i] = IF i = 0 THEN 0 ELSE Below[i - 1] + o[i]
    BY <1>6
  <2> QED BY <2>1, <2>2
<1>8. \A i \in 0 .. n : Below[i] = f[i]
  <2> DEFINE T == {i \in 0 .. n : Below[i] # f[i]}
  <2> SUFFICES ASSUME T # {}  PROVE FALSE
    OBVIOUS
  <2>1. T \subseteq Nat  OBVIOUS
  <2>2. PICK m \in T : \A k \in T : m <= k  BY <2>1, Least
  <2>3. CASE m = 0  BY <1>3, <1>7, <2>2, <2>3 DEF SumsTo
  <2>4. CASE m # 0
    <3>1. m - 1 \in 0 .. n /\ ~(m <= m - 1) /\ m \in 1 .. n  BY <1>1, <2>2, <2>4
    <3>2. Below[m - 1] = f[m - 1]  BY <2>2, <3>1
    <3> QED BY <1>3, <1>7, <2>2, <3>1, <3>2 DEF SumsTo
  <2> QED BY <2>3, <2>4
<1>9. Below = f
  <2>1. f = [i \in 0 .. n |-> f[i]]  BY <1>3 DEF SumsTo
  <2>2. Below = [i \in 0 .. n |-> Below[i]]  BY <1>6
  <2> QED BY <1>8, <2>1, <2>2
<1> QED BY <1>3, <1>9

Total == Len(fn.objects)

\* Where an object lies: below the objects before it, in the frame.
LEMMA Placed ==
  ASSUME fn.objects \in Seq(Nat \ {0})
  PROVE  /\ Total \in Nat /\ StackSize \in Nat
         /\ \A i \in 1 .. Total :
              /\ fn.objects[i] \in Nat /\ FrameOffset(i) \in 0 .. StackSize - fn.objects[i]
              /\ \A j \in i + 1 .. Total : FrameOffset(j) + fn.objects[j] <= FrameOffset(i)
<1> DEFINE o == fn.objects
           n == Len(o)
<1>1. n \in Nat /\ \A i \in 1 .. n : o[i] \in Nat  OBVIOUS
<1>2. /\ Below \in [0 .. n -> Nat] /\ \A i \in 1 .. n : Below[i] = Below[i - 1] + o[i]
  BY BelowSums DEF SumsTo
<1> HIDE DEF o, n
<1>3. \A i \in 0 .. n : Below[i] \in Nat  BY <1>2
<1>4. ASSUME NEW i \in 0 .. n, NEW j \in i .. n  PROVE Below[i] <= Below[j]
  <2> DEFINE T == {k \in i .. n : ~(Below[i] <= Below[k])}
  <2> SUFFICES ASSUME T # {}  PROVE FALSE
    BY <1>4
  <2>1. T \subseteq Nat  BY <1>1
  <2>2. PICK k \in T : \A l \in T : k <= l
    <3> HIDE DEF T
    <3> QED BY <2>1, Least
  <2>3. k # i  BY <1>3, <2>2
  <2>4. k - 1 \in i .. n /\ ~(k <= k - 1) /\ k \in 1 .. n /\ k - 1 \in 0 .. n
    BY <1>1, <2>2, <2>3
  <2>5. Below[i] <= Below[k - 1]  BY <2>2, <2>4
  <2>6. Below[k] = Below[k - 1] + o[k] /\ o[k] \in Nat  BY <1>1, <1>2, <2>4
  <2>7. Below[k - 1] \in Nat /\ Below[i] \in Nat  BY <1>3, <2>4
  <2>8. Below[i] <= Below[k]  BY <2>5, <2>6, <2>7
  <2> QED BY <2>2, <2>8
<1>5. StackSize = ((Below[n] + 15) \div 16) * 16  BY DEF StackSize, o, n
<1>6. n \in 0 .. n /\ Below[n] \in Nat  BY <1>1, <1>3
<1>7. StackSize \in Nat /\ Below[n] <= StackSize  BY <1>5, <1>6
<1>8. \A i : FrameOffset(i) = StackSize - Below[i]  BY DEF FrameOffset
<1>9. ASSUME NEW i \in 1 .. n
      PROVE  /\ o[i] \in Nat /\ FrameOffset(i) \in 0 .. StackSize - o[i]
             /\ \A j \in i + 1 .. n : FrameOffset(j) + o[j] <= FrameOffset(i)
  <2>1. /\ i \in 0 .. n /\ i - 1 \in 0 .. n /\ o[i] \in Nat /\ n \in i .. n
        /\ Below[i] \in Nat /\ Below[i - 1] \in Nat /\ Below[i] = Below[i - 1] + o[i]
    BY <1>1, <1>2, <1>3
  <2>2. Below[i] <= Below[n]  BY <1>4, <2>1
  <2>3. FrameOffset(i) \in 0 .. StackSize - o[i]  BY <1>6, <1>7, <1>8, <2>1, <2>2
  <2>4. ASSUME NEW j \in i + 1 .. n  PROVE FrameOffset(j) + o[j] <= FrameOffset(i)
    <3>1. j \in 1 .. n /\ j - 1 \in i .. n /\ j - 1 \in 0 .. n /\ j \in 0 .. n
      BY <1>1
    <3>2. Below[j] = Below[j - 1] + o[j] /\ o[j] \in Nat  BY <1>1, <1>2, <3>1
    <3>3. Below[j] \in Nat /\ Below[j - 1] \in Nat  BY <1>3, <3>1
    <3>4. Below[i] <= Below[j - 1]  BY <1>4, <2>1, <3>1
    <3>5. FrameOffset(j) = StackSize - Below[j] /\ FrameOffset(i) = StackSize - Below[i]
      BY <1>8
    <3> QED BY <1>7, <2>1, <3>2, <3>3, <3>4, <3>5
  <2> QED BY <2>1, <2>3, <2>4
<1> QED BY <1>1, <1>7, <1>9 DEF Total, o, n

Slot == [fi : Nat, reg : {"FP", "SP"}, off : Int]

\* The invariant of the frame: a slot per index that is eliminated.
Layout ==
  /\ fn \in Functions /\ slots \in Seq(Slot) /\ fis \subseteq 1 .. Total
  /\ stage \in {"arguments", "return", "select"} => slots = <<>>
  /\ \A k \in 1 .. Len(slots) :
       /\ slots[k].fi \in (1 .. Total) \ fis
       /\ slots[k].off = FrameOffset(slots[k].fi) /\ EncodableOffset(slots[k].off)
       /\ \A l \in 1 .. Len(slots) : l # k => slots[l].fi # slots[k].fi

LEMMA Objects == ASSUME fn \in Functions  PROVE fn.objects \in Seq(Nat \ {0})
<1>1. fn.objects \in ObjectLists  BY DEF Functions
<1> QED BY <1>1, FunctionAssumption

LEMMA LayoutStarts == Init => Layout
<1> SUFFICES ASSUME Init  PROVE Layout
  OBVIOUS
<1>1. fn \in Functions /\ slots = <<>> /\ fis = {}  BY DEF Init
<1>2. <<>> \in Seq(Slot) /\ Len(<<>>) = 0  OBVIOUS
<1> QED BY <1>1, <1>2 DEF Layout

LEMMA LayoutKept == Layout /\ [Next]_vars => Layout'
<1> SUFFICES ASSUME Layout, [Next]_vars  PROVE Layout'
  OBVIOUS
<1>1. fn' = fn
  BY DEF Next, LowerFormalArguments, LowerReturn, SelectFrameIndices, AllocateRegisters,
     SpillCalleeSaved, EliminateFrameIndex, Call, Body, CopyPhysReg, Return, Finished, vars
<1>2. Total' = Total /\ \A i : FrameOffset(i)' = FrameOffset(i)
  BY <1>1 DEF Total, FrameOffset, StackSize, Below
<1>3. \A n : EncodableOffset(n)' = EncodableOffset(n)  BY DEF EncodableOffset
<1>4. CASE EliminateFrameIndex
  <2>1. PICK i \in fis :
          /\ fis' = fis \ {i}
          /\ IF EncodableOffset(FrameOffset(i))
             THEN /\ slots' = Append(slots, [fi |-> i, reg |-> FrameReg, off |-> FrameOffset(i)])
                  /\ UNCHANGED stage
             ELSE stage' = "fatal" /\ UNCHANGED slots
    BY <1>4 DEF EliminateFrameIndex
  <2>2. stage = "frame" /\ fis' \subseteq 1 .. Total /\ i \in 1 .. Total
    BY <1>4, <2>1 DEF EliminateFrameIndex, Layout
  <2>3. CASE EncodableOffset(FrameOffset(i))
    <3> DEFINE s == [fi |-> i, reg |-> FrameReg, off |-> FrameOffset(i)]
               n == Len(slots)
    <3>1. slots' = Append(slots, s) /\ stage' = stage  BY <2>1, <2>3
    <3>2. s \in Slot
      <4>1. fn.objects \in Seq(Nat \ {0})  BY Objects DEF Layout
      <4>2. FrameOffset(i) \in Int /\ i \in Nat  BY <2>2, <4>1, Placed
      <4> QED BY <4>2 DEF Slot, FrameReg
    <3>3. s.fi = i /\ s.off = FrameOffset(i)  OBVIOUS
    <3> HIDE DEF s
    <3>4. /\ slots \in Seq(Slot) /\ n \in Nat /\ slots' \in Seq(Slot) /\ Len(slots') = n + 1
          /\ slots'[n + 1] = s /\ \A k \in 1 .. n : slots'[k] = slots[k]
      BY <3>1, <3>2 DEF Layout
    <3>5. \A k \in 1 .. n :
            /\ slots[k].fi \in (1 .. Total) \ fis
            /\ slots[k].off = FrameOffset(slots[k].fi) /\ EncodableOffset(slots[k].off)
            /\ \A l \in 1 .. n : l # k => slots[l].fi # slots[k].fi
      BY DEF Layout
    <3> HIDE DEF n
    <3>6. \A k \in 1 .. n + 1 :
            /\ slots'[k].fi \in (1 .. Total) \ fis'
            /\ slots'[k].off = FrameOffset(slots'[k].fi) /\ EncodableOffset(slots'[k].off)
      <4> TAKE k \in 1 .. n + 1
      <4>1. CASE k = n + 1  BY <2>1, <2>2, <2>3, <3>3, <3>4, <4>1
      <4>2. CASE k \in 1 .. n  BY <2>1, <3>4, <3>5, <4>2
      <4> QED BY <3>4, <4>1, <4>2
    <3>7. \A k, l \in 1 .. n + 1 : l # k => slots'[l].fi # slots'[k].fi
      <4> TAKE k, l \in 1 .. n + 1
      <4>1. CASE k \in 1 .. n /\ l \in 1 .. n  BY <3>4, <3>5, <4>1
      <4>2. CASE k = n + 1 /\ l \in 1 .. n  BY <2>1, <3>3, <3>4, <3>5, <4>2
      <4>3. CASE k \in 1 .. n /\ l = n + 1  BY <2>1, <3>3, <3>4, <3>5, <4>3
      <4>4. CASE k = n + 1 /\ l = n + 1  BY <4>4
      <4> QED BY <3>4, <4>1, <4>2, <4>3, <4>4
    <3>8. stage' \notin {"arguments", "return", "select"}  BY <2>2, <3>1
    <3> QED BY <1>1, <1>2, <1>3, <2>2, <3>4, <3>6, <3>7, <3>8 DEF Layout
  <2>4. CASE ~EncodableOffset(FrameOffset(i))
    <3>1. slots' = slots /\ stage' = "fatal"  BY <2>1, <2>4
    <3> QED BY <1>1, <1>2, <1>3, <2>1, <2>2, <3>1 DEF Layout
  <2> QED BY <2>3, <2>4
<1>5. CASE SelectFrameIndices
  <2>1. stage = "select" /\ stage' = "allocate" /\ slots' = slots /\ slots = <<>>
    BY <1>5 DEF SelectFrameIndices, Layout
  <2>2. fis' = 1 .. Total
    <3>1. fn.objects \in Seq(Nat \ {0})  BY Objects DEF Layout
    <3> QED BY <1>5, <3>1 DEF SelectFrameIndices, Total
  <2>3. Len(<<>>) = 0  OBVIOUS
  <2> QED BY <1>1, <1>2, <2>1, <2>2, <2>3 DEF Layout
<1>6. CASE ~EliminateFrameIndex /\ ~SelectFrameIndices
  <2>1. /\ slots' = slots /\ fis' = fis
        /\ stage' \in {"arguments", "return", "select"} =>
             stage \in {"arguments", "return", "select"}
    BY <1>6 DEF Next, LowerFormalArguments, LowerReturn, AllocateRegisters,
       SpillCalleeSaved, Call, Body, CopyPhysReg, Return, Finished, vars
  <2> QED BY <1>1, <1>2, <1>3, <2>1 DEF Layout
<1> QED BY <1>4, <1>5, <1>6

\* For all stack objects and every order of elimination: no two objects overlap, all
\* lie in the frame, and every offset fits the field of its instruction.
THEOREM Apart == Spec => []ObjectsApart
<1>1. Layout => ObjectsApart
  <2> SUFFICES ASSUME Layout, NEW k \in DOMAIN slots
               PROVE  /\ EncodableOffset(slots[k].off)
                      /\ slots[k].off \in 0 .. StackSize - fn.objects[slots[k].fi]
                      /\ \A l \in DOMAIN slots :
                           l # k => \/ slots[k].off + fn.objects[slots[k].fi] <= slots[l].off
                                    \/ slots[l].off + fn.objects[slots[l].fi] <= slots[k].off
    BY DEF ObjectsApart
  <2>1. DOMAIN slots = 1 .. Len(slots)  BY DEF Layout
  <2>2. fn.objects \in Seq(Nat \ {0})  BY Objects DEF Layout
  <2>3. /\ Total \in Nat
        /\ \A i \in 1 .. Total :
             /\ FrameOffset(i) \in 0 .. StackSize - fn.objects[i]
             /\ \A j \in i + 1 .. Total : FrameOffset(j) + fn.objects[j] <= FrameOffset(i)
    BY <2>2, Placed
  <2>4. \A l \in DOMAIN slots :
          /\ slots[l].fi \in 1 .. Total /\ slots[l].off = FrameOffset(slots[l].fi)
          /\ EncodableOffset(slots[l].off)
    BY <2>1 DEF Layout
  <2>5. ASSUME NEW l \in DOMAIN slots, l # k
        PROVE  \/ slots[k].off + fn.objects[slots[k].fi] <= slots[l].off
               \/ slots[l].off + fn.objects[slots[l].fi] <= slots[k].off
    <3>1. slots[l].fi # slots[k].fi  BY <2>1, <2>5 DEF Layout
    <3>2. slots[l].fi \in slots[k].fi + 1 .. Total \/ slots[k].fi \in slots[l].fi + 1 .. Total
      BY <2>3, <2>4, <3>1
    <3> QED BY <2>3, <2>4, <3>2
  <2> QED BY <2>3, <2>4, <2>5
<1> QED BY <1>1, LayoutStarts, LayoutKept, PTL DEF Spec
=============================================================================
