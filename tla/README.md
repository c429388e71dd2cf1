# Verification of the TOYRISCV backend

This directory holds TLA+ models of the TOYRISCV backend of LLVM in
`src/llvm/lib/Target/TOYRISCV`, the TLC runs that check them on small
instances, and TLAPS proofs for all values of their parameters.

The backend turns LLVM IR into RISC-V assembly. It has no threads and no
persistent state; what makes it hard is that code of one function is rewritten
in several stages that live in different files and languages (C++ and TableGen)
and must agree on conventions no compiler checks: condition codes, operand
flags, halves of constants, the order of members, the shape of the CFG. The
tests in `src/llvm/test/CodeGen` compare text for a few dozen RV32 inputs; the
models execute what the stages emit and compare it with what went in.

## Inventory

| Part | State it keeps or changes | Operations | What makes it correct |
|---|---|---|---|
| Custom inserter (`TOYRISCVISelLowering.cpp:247-387`) | machine function: layout, block bodies, CFG, phis | `emitSelectPseudo`, `EmitInstrWithCustomInserter`, `getBrCond`, driven by LLVM's FinalizeISel | SSA, phis match predecessors, successors match the terminators and the layout, the function computes what it did, the pass ends with no select left |
| Conditions (`TOYRISCVISelLowering.cpp:81-112, 182-245, 389-410`, `TOYRISCVISelDagToDag.h`, `TOYRISCVInstrInfo.td:194-319`) | one DAG node | `lowerBRCOND`, `lowerSELECT`, `translateSetCCForBranch`, patterns, `getRISCVCCForIntCC` | the result of the node never changes; only codes with a pattern are produced |
| Constants and addresses (`TOYRISCVInstrInfo.td:33-60, 316-319`, `getAddr`, `evaluateAsInt64`) | the register being loaded | simm12, simm32 patterns, LUI/ADDI | the register ends up with the value |
| Global symbols (`getAddr`, `lowerGlobalAddress`, `TOYRISCVMCInstLower.cpp`) | DAG node, machine operands, MC operands | lowering, folding of offsets, operand lowering | the program accesses symbol + offset |
| Target machine, subtarget (`TOYRISCVTargetMachine.*`, `TOYRISCVSubtarget.*`, `TOYRISCVMCTargetDesc.cpp`, `TOYRISCVABIInfo.cpp`) | members: data layout, ABI, features, XLenVT, mode | constructors, `initializeSubtargetDependencies`, `ParseSubtargetFeatures`, `initAsmInfo` | no member is read before it is set; all parts agree on the register width |
| Operand lowering (`TOYRISCVMCInstLower.cpp`) | operands of one MCInst | `LowerTOYRISCVMachineInstrToMCInst`, `LowerTOYRISCVMachineOperandToMCOperand`, `lowerSymbolOperand` | both ways make the same of an operand; every flag but `MO_PLT` has a variant |
| MC expressions (`TOYRISCVMCExpr.*`) | expression trees, types of the unit's symbols | print, evaluate, `fixELFSymbolsInTLSFixups` | names round-trip, exactly the TLS symbols are marked, a relocation has one symbol, no operand that got past the lowering leads to `llvm_unreachable` |
| Calling convention (`LowerFormalArguments`, `LowerReturn`, `TOYRISCVCallingConv.td`) | register assignment | analyse, copy | results arrive, the caller's registers are kept, what has no register is refused |
| Frame and registers (`TOYRISCVFrameLowering.cpp`, `TOYRISCVRegisterInfo.*`, `Select` of FrameIndex, `copyPhysReg`) | stack objects, frame register | `eliminateFrameIndex`, empty prologue | objects are disjoint and lie in the function's own frame |
| Loads and stores (`TOYRISCVInstrInfo.td:109-175`) | memory | LdPat, StPat | a load reads what was stored, with the right extension |
| Formats, emitter (`TOYRISCVInstrFormats.td`, `TOYRISCVCodeEmitter.cpp`) | 32-bit words | field layout; `encodeInstruction` is empty | fields do not overlap |
| Triple (`src/llvm/lib/Support/Triple.cpp`), LLVM's class with two architectures added in some ten tables | a string and what it parses as | mutators, variants by width and byte order, `normalize`, `isCompatibleWith`, `merge`, versions of macOS | what is set is read back and nothing else changes; variants fit and lead back; `normalize` loses nothing, keeps what is read and is idempotent; linking does not depend on the order |
| Registration (`TOYRISCVTargetInfo.cpp`, `getArchTypeForLLVMName`) | the triple and the target chosen for it | `-march` or the triple | target and triple are of one width |
| Printing, build | text | | not state |

The parts meet in calls: LLVM's selector calls `LowerOperation` per node and
`Select` per node, FinalizeISel calls `EmitInstrWithCustomInserter` per select
pseudo, the frame pass calls `eliminateFrameIndex` per operand, the printer calls
`emitInstruction` per instruction; all of them read the one `DefaultSubtarget`.
A triple is normalised, changed, linked or used to choose the target before the
target machine is constructed from it. The hazards, each at its line, are listed in `PROJECT.json`.

## Modules

| Module | Models | Runs | Proofs |
|---|---|---|---|
| `MachineFunction` | machine code, its SSA and CFG rules, its execution on free terms | | |
| `SelectExpansion` | the custom inserter under FinalizeISel | `select_expansion` | `SelectExpansion_proof` |
| `CondLowering` | one conditional node from DAG to machine code | `cond_lowering` | `CondLowering_proof` |
| `Immediates` | field widths, HI20, LO12Sext, %hi, %lo | | `GlobalAccess_proof` |
| `Materialize` | loading one constant or address | `materialize`, `materialize_symbols` | `GlobalAccess_proof` |
| `Operands` | what operands of machine instructions become in an MCInst | | `TargetExpr_proof` |
| `TargetExpr` | `TOYRISCVMCExpr` from construction to fixup, for the expressions of a unit | `target_expr` | `TargetExpr_proof` |
| `GlobalAccess` | one access to symbol + offset, up to execution | `global_access` | `GlobalAccess_proof` |
| `ByteWords` | bytes, words and memory | | |
| `TypedMemory` | abstract: one load or store of the IR at a time | | |
| `MemAccess` | an access from legalisation to its instructions; implements `TypedMemory` | `memory`, `memory_rv64_wide` | `MemAccess_proof` |
| `FunctionCall` | one function: convention, frame, and a call of it | `function_call`, `frame_needs_fp` | `FunctionCall_proof` |
| `TripleWords` | the tables of `Triple.cpp` and the parser | | `TripleUse_proof` |
| `TripleFields` | the mutators of a triple | | `TripleUse_proof` |
| `TripleVariants` | the variants by width and byte order | | `TripleUse_proof` |
| `TripleNormalize` | `normalize`, done twice | | `TripleUse_proof` |
| `TripleLink` | compatibility, `merge`, versions of macOS | | `TripleUse_proof` |
| `TripleUse` | all of these in one life of a triple, and the choice of the target | `triple_use` | `TripleUse_proof` |
| `TargetConfig` | abstract: the target's widths, decided at once | | |
| `TargetSetup` | construction of the target machine; implements `TargetConfig` | `target_setup` | `TargetSetup_proof` |

`MC*` modules give the constants values. Operators called a *mutant* in their
comment are plausible bugs of the definition that follows; each property of a
passing run is known to catch one of them. No specification uses them.

### SelectExpansion

`fn` is the machine function: `order` (the layout), `body` (a sequence of
instructions per block) and `succs` (what `addSuccessor` and
`transferSuccessorsAndUpdatePHIs` record). `mbb` and `pos` are FinalizeISel's
position. One action is one turn of its loop: `ExpandSelect` calls
`EmitInstrWithCustomInserter` and resumes at the start of the block it returns,
`StepOver` and `NextBlock` go on. `EmitSelectPseudo` is the whole of
`emitSelectPseudo`: the scan for the sequence (`Stops`, `LastSelect`), the move of
debug values and of the code behind (`TailCode`), the branch (`HeadCode`), the
two blocks in the layout (`InsertBlocks`), the successors and phis.
`collectDebugValues`, the phi update and FinalizeISel are LLVM's and modelled from
their use.

`MeaningPreserved` executes the original and the current function on terms
that stand for unknown results, under every truth assignment of the comparisons
they make: equal terms mean equal values whatever the instructions compute. `Run`
executes one block, `Leave` and `Enter` pass control on and read the phis, and
`Pass` goes through the layout once, up to a return or a back edge, so both functions
are executed by the same rules and no loop is unrolled. The
functions of `MCSelectExpansion` have an entry block that may itself end in a
select, a loop block that is its own predecessor and starts with a phi, and an
exit. The loop's body is every SSA-correct sequence of up to four of nine
instructions: three selects with the same condition, one of them reading the
first, one with another code, one with swapped operands, pure code that does and
does not read a select, a load and a side effect. Four are enough for two
triangles next to each other, a chain that must be cut, and any instruction
between, before or behind selects. They satisfy `FunctionsAssumption`, the rules of
the machine verifier (`WellFormed`, `SuccessorsMatch`, `PhisMatch`, `DefinedOnce`,
`UsesDominated` of `MachineFunction`). The pass runs in one thread to its end, so
weak fairness of its steps is what the code does.

`SharesTriangle` looks at every select that the scan could reach: as long as the
instructions between are debug values, pure code or selects on the same condition and
read no result of the selects before, the select becomes a phi of the same Tail.

A second pool has two selects on one condition, pure code and debug values of two
variables, `v` with three of them. Tail gets the phis, then all debug values collected,
and only then the code behind the last select (`TailCode`,
`TOYRISCVISelLowering.cpp:331`). So the pass does not keep every debug value in its
place, although the comment there speaks of all that are "associated with the selects":

- A collected one overtakes an uncollected one that stands in the same run of debug
  values. Of `s1 = select; debug v, p; debug v, s1` a debugger is shown `p` last in the
  program and `s1` in the original.
- `collectDebugValues` ends at the first instruction that is no debug value. One that
  shows a select but follows other code, between two selects of a sequence, stays in
  Head, ahead of the phi that now defines what it shows.
- One that shows something else and stands between two selects of a sequence stays in
  Head as well, and is now ahead of the debug values collected from the first select.

`DebugValuesFollow` is about the variables with none of this (`VariablesInOrder`,
decided on the original alone): for the sequence of every select, the debug values of the
variable that follow a select stand in one piece around the last select, and those ahead of
them show no result of the sequence. It says of each such variable, whatever the number
of its debug values, that a debugger is shown the values of the original in the same order.
The variables left out are the ones that the three cases above can disturb, at the select
the pass meets or at one that is itself passed over by the scan of an earlier one; the
latter is more than the program needs.

### CondLowering

A node carries the values of its operands in one execution and whether they are
constants; `Result` is what it computes. The actions are the stages, and
`ResultPreserved` compares every stage with the source. The word width is a
parameter: 3 bits have distinct values 0, 1, -1, both ends of the signed range and
one more, and the proof covers all widths. `ConstantsDifferByOne` compares
wrapped values, as `APInt` does.

### Materialize and GlobalAccess

`LoHalf`, `HiHalf` and `Ext` are 2^11, 2^19 and 2^(XLEN-32) in the program. The
model is exact for every choice, so the runs use 2 to 4 bits per field and 1 or 3
more for the rest of a register, and try every value; the theorems hold for all.
A register of RV32 is the low 32 bits of one of RV64 in this code, for LUI and
ADDI do the same to them; that is why the properties have two parts, the low 32
bits, which are always right, and the whole register. On RV64 LUI sign-extends,
so constants from 2^31 - 2^11 to 2^31 - 1 are loaded minus 2^32, and addresses
from there on are not reached. `materialize_symbols` shows this against the
comment of `getAddr` ("within the first 2 GiB", `TOYRISCVISelLowering.cpp:144`).

`GlobalAccess` follows an access through `lowerGlobalAddress` (which leaves the
offset to an ADD), the selection of that ADD or its folding into a load or store,
one `emitInstruction` per instruction, and the execution of the linked code.
`PseudoLA` and `PseudoLLA` are printed as `la` and `lla`; that the assembler
expands them to the symbol's address is assumed. Selection prefers the pattern
that covers more nodes, as the generated matcher does. The offset always ends up in
an instruction of its own; `global_mem.ll`, which expects `%hi(G+36)`, has no RUN line.

### MemAccess

An access of the IR is split by LLVM into `pieces` (`allowsMisalignedMemoryAccesses`
is the default, no), each piece gets the instruction of its LdPat or StPat
pattern, and the instructions run in any order. Loads put their pieces together
in `regs`. The refinement mapping `IR` does a store when it begins: the bytes that
are still to be written are overlaid on `mem` until it is complete. So a load
that reads a byte too much or extends it the wrong way, and a store that leaves
or touches a byte, are steps `TypedMemory` does not have. A byte is a set of
bits, of which one is enough: loads, stores and ORs move bits without looking
at them, and the highest is the sign. The values differ between neighbouring
bytes, halves and words.

The run has every width and alignment on both register widths but one: on RV64
the patterns of the full width are LW and SW, which transfer half of it, as
`memory_rv64_wide` shows. Of the other accesses of RV64, words have no pattern
(there is no LWU and no truncstorei32), and `EveryAccessSelectable` says that nothing else is refused.

### FunctionCall

The stages of compiling one function follow each other: `LowerFormalArguments`,
`LowerReturn`, `Select` of frame indices, register allocation and
spilling by LLVM, `eliminateFrameIndex` for each operand, then a call by foreign
code that follows the RISC-V convention. The allocator is any choice of
registers that are not reserved and of places for results that do not overwrite
each other; `storeRegToStackSlot` is not implemented, so a function that has to
save a register ends in a fatal error, and what does compile must keep the
caller's registers. Arguments and results have the width of a register.
`fp` stands for the reasons for a frame pointer that are independent of the code's
objects (the option, realignment, a taken frame address).

`frame_needs_fp` gets to the assertion of `eliminateFrameIndex`, "currently requires
hasFP", without a frame pointer. The empty prologue does not move SP, though
offsets are computed as if it had: objects are apart, but they lie above the SP of
the caller, in its frame. `ObjectsApart` does not speak of this.

### Operands and TargetExpr

`Operands` has both switches that lower operands. They differ: the one for
instructions knows registers, immediates, blocks and global addresses, and makes
a fatal error of the rest; the one for pseudo instructions, reached from the
generated expansions through `TOYRISCVAsmPrinter::lowerOperand`, knows all kinds
of symbols. `GlobalAccess` uses the first. `LoweringsAgree` compares them. Both hand
symbols to `lowerSymbolOperand`, whose switch has no case for one of the seven
flags declared in `TOYRISCVBaseInfo.h`, `MO_PLT` (line 31): a symbol with it ends in
`llvm_unreachable`, "Unknown target flag on GV operand" (`Unreachable`). Nothing in
the repository sets it: the only flags set are `MO_HI` and `MO_LO`
(`TOYRISCVISelLowering.cpp:146-147`). The operands of the runs have every flag.

In `TargetExpr` the expressions of a unit come one after the other: made by
`create` from any expression, or lowered from an operand. Each goes through all
that the class does: it is printed and its name looked up again, evaluated as a
constant, and, if that fails, its symbols are marked (`MarkNode` is one call of the
recursive `fixELFSymbolsInTLSFixupsImpl`, `todo` the nodes that are still to be
visited) and it is evaluated for the fixup. An expression is a sequence in Polish
notation, so that the recursion is one from its end (`Values`) and the marking a walk. MCExpr's own
evaluation is LLVM's and modelled without layout, as the class asks for it.
The types of the symbols last over the unit: two expressions are enough for a
symbol to be used in a fixup of TLS and in another. Two symbols, one operator
over all leaves and two over many give every combination that the code
distinguishes, differences of symbols, nested target expressions and constants of
two symbols included.

`UnreachableBuilt` states where the class can abort: `evaluateAsConstant` excludes
ten variants and `evaluateAsInt64` knows two, so a constant under the remaining ones
(`None` and `32_PCREL`) reaches `llvm_unreachable`, and so does a nested
expression under a TLS variant. Operands of instructions never get there once they
are lowered; lowering itself is unreachable for `MO_PLT`, and for no other flag.
`got`, TLS and `call_plt` variants are reached by `create` only: no flag of
an operand stands for them.

### Triple

`TripleWords` has the tables as functions and sets, `Parse` is the constructor.
ARM's parser (`ARM::parseArchISA`) is another file of LLVM that is not in the
repository: it is represented by the words that the tables print. In
`TripleFields` the string is the state, as in the class, whose other
members are parsed from it; a mutator writes names and `triple'` is what they
are parsed as. `TripleVariants` has the four variants, in any order, between
mutators. `getBigEndianArchVariant` has no case for `aarch64_32` and
`getLittleEndianArchVariant` none for `arc`, where `Triple.h:932` promises an
unknown architecture: the step `Unreachable` is `llvm_unreachable`. No property forbids
it; `VariantsFit` and `ThereAndBack` are about the variants that are returned.

`TripleNormalize` moves components one at a time: `FindComponent` is the search
of the inner loop with the kinds it leaves behind, `MoveLeft`, `PushRight` and
`Fix` the two ways to bring the component to its position, `Settle` the
special cases. Its result is normalised again (`Again`), which states idempotence
as an invariant. `ReadingKept` compares what the constructor reads in the input
and in the result: architecture, sub-architecture, vendor, system, version,
environment and object format. The special cases of Windows do not keep every object
format; `FormatUnnamed` names the exceptions: COFF is never written, though not every
architecture has it as its default; of what follows the environment one word is
read, and if it names no format, one in the word of the environment (`gnuelf`) comes to
light; and MinGW and Cygwin, which have the default of Windows in the result only,
lose a format in the word of the environment.

`TripleLink` is what LLVM's linker does with the triples of modules: each is
compared with the merged triple only. `LinkedAgree` says that modules linked
without a warning are nevertheless compatible pairwise, and that the result
has the newest version of an Apple system. Three modules are the fewest for
which this says more than one comparison. `VersionsAgree` compares
`isMacOSXVersionLT`, which turns a bound into Darwin's numbers, with
`getMacOSXVersion`, which turns Darwin's numbers into macOS's.

`TripleUse` composes them: a string is constructed as it is or after
`normalize`, and the triple is then changed and asked for variants, linked, or
used to choose a target. `LookupTarget` is what llc calls: `-march` selects a target by
name and sets the architecture by `getArchTypeForLLVMName`; otherwise the triple's
architecture selects. `TargetFits` holds after any mutators and variants, and is what
`TargetSetup` starts from. The repository's two architectures are in every
set of inputs.

### TargetSetup

One action per member in C++'s order of construction, `Order`. `early` records
members that are read before they are constructed. The code has one such read:
the constructor of `TargetLowering` hands on the address of `RegInfo`, which is
declared after it (`TOYRISCVSubtarget.h:35-36`). LLVM then looks for larger
classes than GPR, of which there are none, so the outcome does not depend on the
memory's contents; this is undefined behaviour nevertheless.

`TargetConfig` says what the options decide. The assembler's subtarget really
differs from the code generator's for the CPU `generic`
(`TOYRISCVMCTargetDesc.cpp:58` tests for an empty name only); the abstract
specification states this as it is.

## Runs

All bounds are constants in the `.cfg` files.

| Run | Shows | Bounds |
|---|---|---|
| `select_expansion` | triangles keep SSA, CFG and meaning; selects share over debug values and pure code; debug values follow in order; the pass ends | `MaxBody = 4` of 9 instructions, and of 7 with debug values |
| `cond_lowering` | result kept, codes selectable | 3-bit words, all pairs |
| `materialize` | constants and addresses loaded | 4+4 bits, 3 more |
| `materialize_symbols` | violation: addresses LUI sign-extends | the same |
| `global_access` | the access reaches symbol + offset | 2+3 bits, 1 more; all symbols and offsets |
| `memory` | loads and stores implement the typed memory; only words of RV64 are refused | 8 bytes of 1 bit, every width and alignment, both registers |
| `memory_rv64_wide` | violation: SW writes half of an i64 | that access |
| `function_call` | results arrive, registers are kept, objects are apart | 1, 2, 8, 9 arguments, up to 3 results, 6 registers of each kind, up to 3 objects; offsets up to 24 so that some do not fit |
| `frame_needs_fp` | violation: the assertion of `eliminateFrameIndex` | the same |
| `target_expr` | exactly TLS symbols are marked, one symbol per relocation, names read back, both lowerings agree, where `llvm_unreachable` is reached | 2 expressions per unit, 2 symbols; all of one operator, many of two; every kind of operand and flag |
| `triple_use` | `normalize` loses nothing, keeps the reading, is idempotent; mutators, variants; linking; versions; the target fits | strings of up to 5 words out of one of each sort, an unknown and the empty one, special cases up to 5 words; every word for an architecture under mutators and variants; 3 modules linked; versions around each edge of Darwin's numbers |
| `target_setup` | members in order, widths agree, refinement | all 720 combinations of options |

Every model ends in a final state on purpose; a `Finished` or `Terminated` step
repeats it, so deadlock is checked and means a missing case.

## Proofs

`SelectExpansion_proof`, for every function that satisfies the verifier's rules
(`FunctionsAssumption`): any number of blocks, any code in them, loops included.

- `TypeCorrect`, `SuccessorsCorrect`, `PhisCorrect`: `TypeOK`,
  `SuccessorsAreControlTargets`, `PhisMatchPreds`. They are inductive together only
  (`IInv`): Head's branch is its sole terminator because terminators end a block, and
  what moves to Tail has no phi because phis begin one. The proof goes block by block
  (`BlockOK`) over the description of the new blocks (`HeadShape`, `TailShape`), the
  layout (`InsertedIs`, `NextAfter`), the edges (`PredsAre`) and the renamed phis
  (`RenamedNames`); that the sequence of selects has a last one, and that moved code
  keeps its order, are inductions by least counterexample (`LastSelectIs`, `Picked`).
- `DefsDominate`: `DefsDominateUses`, which joins `IInv`. That each register keeps its one
  definition follows from where the code of the new blocks comes from (`OnceStays`). What the recursive function of
  `Reached` computes is shown to be the least set of blocks that is closed under
  successors (`ReachedIs`). So a set of blocks of the old function gives one of the new
  function and the other way round: what dominated a block still does
  (`DominatesStill`), and what Head dominated, Tail dominates (`DominatesBelow`). The
  scan is what makes the rest true: nothing that stays in Head reads a register that
  moves to Tail (`ReadsNoResult`, `HeadUses`), and what moves to Tail reads the phis, or
  what Head still defines (`TailUses`).
- `Preserved`: `MeaningPreserved`. One expansion is shown to keep what the function
  given to it computes, which with `IInv` makes the property inductive. Two executions
  are compared (`Agree`: control, memory, registers outside a set, what is shown of
  some variables). Code that is reordered as Head's is, with nothing moved over what it
  reads or over a side effect, ends in the same state but for the
  destinations of the selects (`HeadRuns`, from one instruction at a time by least
  counterexample); the branch tests what the selects tested (`BranchTests`); the phis of
  Tail read on either way what the selects chose (`TailEntered`); and the code behind
  them runs on equal states (`TailRuns`). So one block of the old function is two or three of
  the new one (`HeadStep`), every other block is itself (`OtherStep`), and the
  executions stay together through the layout (`PassAgrees`).
- `ShownFollows`: `DebugValuesFollow`. Two invariants support it: the variables of
  `VariablesInOrder` still have their debug values in order at every select that is left
  (`KeptInOrder`), and the walk leaves no select behind (`NoneBehind`), so that the
  selects in front are always in the sequence that is expanded. The scan, and with it
  `InOrder`, is the same for a select wherever its code is moved to (`ShiftedLast`,
  `ShiftedInOrder`), which gives `OrderStays`. In one expansion, what stays in Head of
  such a variable is ahead of what moves and shows the same (`HeadShows`); what moves is
  put behind the phis in the same order and shows what the selects would have
  chosen (`MovedSees`, `TailShows`).
- `Shares`: `SharesTriangle`, a property of steps, from the same invariant: the scan
  goes on over what may stand between (`GoesOn`), and the selects it passes become phis of
  one block (`PhisShared`).

`FunctionsAssumption` says of the input what the machine verifier demands: registers
are names and have one definition, a phi has one value for each block it names, a debug
value shows one register and defines none, and definitions dominate uses. The proof needs each of these, and the pass keeps them.

`CondLowering_proof`, for every word width `Half >= 2`:

- `TypeCorrect`, `Selectable`: `TypeOK` and `BranchesAndSelectsSelectable` are
  made inductive by what each stage knows of the condition code.
- `LoweringCorrect`: `ResultPreserved`. The inductive invariant adds that the
  operands stay words and that a node's condition belongs to its stage; each
  rewriting has a lemma about comparisons of words.

`GlobalAccess_proof`, about `Materialize`, for all widths:

- `PairFits`: `TypeOK`.
- `LoadsAll`: `Materialized`.
- `LoadsOnRV32`: from `Ext = 1`, the whole register for every value.

The inductive invariant says what is still to be executed: after selection the
pair is the %hi and %lo of the goal, after LUI the register is the goal minus the
pending low part. `GlobalAccess`, in the same module, needs the same lemmas on numbers: rounding to a multiple of
2^12 (`Rounding`), what the sign extension of LUI adds (`SplitSum`), that HI20 and
LO12Sext are %hi and %lo (`PatternSplit`), and that sums of registers that agree
with numbers in the low 32 bits, or in all, do so too (`AgreesAdd`).

`GlobalAccess_proof`, about `GlobalAccess`, for all widths, symbols that are words and
integer offsets:

- `Reaches`: `AddressReached`. The invariant compares the machine code, the emitted
  and the remaining instructions with the program of the access (`Address` and
  `Use`), and says what the registers hold after each prefix of it (`Holds`): the
  property itself speaks of the end only. `ProgramStep` executes one instruction.

`TargetSetup_proof`:

- `SetupTypeCorrect`, `ReadOrder`, `SetupLayout`, `SetupSettled`,
  `SetupImplementsConfig`: the state is a function of the options
  and of the number of members constructed; this is the inductive invariant, and
  the properties and the refinement follow from it.

`MemAccess_proof`, for every memory, byte and value and all shapes of access but
the aligned eight bytes on RV64 (`NoWide`; `memory_rv64_wide` shows that the code
gets that one wrong):

- `Implements`: `TypedMemoryImplemented`. Pieces tile the access (`PiecesTile`), and
  each byte of the register, those an extension adds included, has one piece that
  provides it (`OneOwner`, `AddsWhatItOwns`). The invariant says of every byte whether its piece is
  done; it is needed because pieces run in any order, and the refinement compares
  the whole access at its end.
- `Selectable`: `EveryAccessSelectable`.

`FunctionCall_proof`, for all signatures, pools of registers, allocations and lists
of stack objects:

- `Arrive`, `Keeps`: `ResultsArrive`, `CallerRegistersKept`. The invariant carries what
  each stage fixes: the registers of the arguments, that no result waits in the
  return register of an earlier one (`Allocation`), which copies are done
  (`Copying`), and what of the caller's is untouched (`Kept`).
- `Apart`: `ObjectsApart`. The invariant `Layout` gives every slot the offset of
  its object; that the sums of sizes grow is proved by induction (`BelowSums`,
  `Placed`), as a least counterexample (`Least`, from `WFMin` of the library).

`TripleUse_proof`, for strings of any length, any sets of inputs, fields, modules and
options, and any number of linked modules:

- `TargetFitsUses`, `VariantsFitUses`, `LinkedAgreeUses`, `VersionsAgreeUses`: the
  invariant `UseInv` says that the string has a first component, how the triple stands
  to the one its variant was asked of (`VariantIs`), and how every linked module stands
  to what they became (`LinkedIs`). The first rests on every table being read back by
  the parser (`ArchsRead` and its neighbours), the last two on compatibility with one
  triple being compatibility with each other (`CompatibleWithSame`).
- `SetIsReadUses`, `OthersKeptUses`, `ThereAndBackUses`: properties of steps, from the
  same invariant and from where in the new string the constructor reads (`IsRead`).
- `NothingLostUses`, `KindsCorrectUses`: the invariant `NormInv` of `normalize`. An
  insertion hands each displaced word to the next position that is not final and ends
  at the first blank (`Inserted`), so that the words before and after are the same up
  to a bijection of their positions (`SameWords`); counting them is what the
  library's cardinality theorems give (`Counted`). For the kinds it adds that
  what is not final cannot be read as a position already given up: the search
  has looked at every component, and moves make no new words.
- `ReadingKeptUses`: the invariant `ReadInv` has two halves. The kinds found so far fit
  the words they come from (`KindsFit`), whatever was moved; and a string whose first
  four words can all be read in their places (`Ordered`) is not moved at all
  (`OrderedIs`). At the end each special case renames a word only to one that is read
  as the same kind (`SettledWords`), which is followed through the cases that
  the property exempts.
- `IdempotentUses`: the invariant `NormalInv` follows the two runs of `normalize` one
  after the other. `LeftIs` says what the search leaves behind: a final component is
  valid for its position, and none of the others is a candidate for a position
  given up, or comes before the object format that stands for the environment.
  Hence what comes out is a normal form (`IsNormal`, `NormalSettled`): the kinds in
  place are found in place (`InPlace`), no special case has a word to rename, and a
  Windows triple has its four or five words (`WindowsInPlace`). On a normal form the
  second run finds at most an object format as environment, where it already is
  (`AgainIs`), so that it moves nothing (`AgainUnmoved`) and renames nothing
  (`AgainSettled`).

`TargetExpr_proof`, for units of any length, expressions of any depth, any symbols
and operands (`ExprAssumption`: symbols have names, no operator of an expression
lacks an operand):

- `ExprMarks`, `ExprReaches`, `ExprReadsBack`, `ExprLowerings`: the invariant `ExprInv`
  says of every stage where the expression comes from (`Formed`) and what the last
  evaluation made of it (`ResultIs`); while symbols are marked, the symbols of TLS so
  far are those marked and those of the nodes to visit (`Visiting`).
- `ExprSymbol`: evaluation loses no symbol. This is shown from the end of an expression
  to its beginning: if all values on the stack are valid, every symbol met is in
  one of them (`HaveSymbols`), which every node preserves (`ReduceIs`).

`LinkAssumption` has macOS bounds from 10.0 on, with minor versions of 10 up to 16, the
range in which the class maps macOS to Darwin one to one.

Only model-checked: liveness (`AllExpanded`), which the prover does not handle.

## Plan

Done, in order of importance: `SelectExpansion`, `CondLowering`, `Materialize`,
`GlobalAccess`, `TargetSetup`, `MemAccess`, `FunctionCall`, the triple with its
uses, `TargetExpr`. Left:

Composition: several conditional nodes lowered by `CondLowering` into one function
that `SelectExpansion` then works on. What joins the two today: `InsertTriangle`
takes the select for its triangle, and `MeaningPreserved` shows for every truth
assignment of the comparisons that the triangle does what the select did.

## Not modelled

- Text formatting (`TOYRISCVInstPrinter`, `TOYRISCVMCAsmInfo`, the target
  streamer) and build files hold no state.
- The instruction formats and TSFlags: `CMakeLists.txt` generates no code emitter
  and no decoder, `encodeInstruction` is empty, no code reads TSFlags, so
  the fields of `TOYRISCVInstrFormats.td` have no effect in the program. No
  assembler backend is registered either: object output does not exist, and the
  fixup in `TargetExpr` stands for what LLVM's streamer would do with the expression.
- `getPCRelHiFixup` returns a null pointer on every path.
- Of the triple: versions of iOS, watchOS and environments,
  `getMinimumSupportedOSVersion`, `getARMCPUForArch`, and the predicates that read
  one field.
- Arguments narrower or wider than a register in the calling convention, and vector
  selects: no vector type is legal.
- The register allocator, scheduling and other LLVM passes are outside the repository.
