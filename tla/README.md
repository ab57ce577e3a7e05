# A model of cpplox-bytecode

TLA+ modules for the bytecode compiler and virtual machine of cpplox: what the
parts do, what they promise one another, small instances checked with TLC, and
proofs about the hash table, the virtual machine, the scanner, the compiler and
the interpreter composed of them, for every size, source, chunk and session.

`src/...` below is the path in the repository, whose own sources are in its
directory `src`; the sources are named without it (`vm.cpp` is `src/vm.cpp`).

## The system

`lox` reads a file, or lines at a prompt. For each it makes a scanner, a chunk
and a compiler; the compiler pulls tokens from the scanner and writes bytes and
constants into the chunk in one pass; if there was no error the one virtual
machine runs the chunk; a debug build prints it first. The program is a single thread: nothing interleaves.
What is hard is that the parts trust each other without a check. The VM verifies
no byte; the compiler gives out stack slots at compile time that the VM must
find at run time; the VM lives on from line to line, after errors too; and the
hash table under the globals relies on an invariant that spans all of its slots.

| Component | State | Operations | What makes it correct | Modules |
|---|---|---|---|---|
| Hash table (`table.*`) | `m_entries`: eight slots, each a key and a value | `set`, `get`, `del`, `find_string`, all by `find_entry`-like probe loops; tombstones | it is a map; no key twice, no chain cut; every loop ends | `Table`, `HashTable`, `HashTableProofs`, `Dictionary` |
| Virtual machine (`vm.*`) | chunk, `m_ip`, `m_stack`, `m_stack_top`, `m_globals`, `m_strings` | `load_new_chunk`, `run`, `run_step` (24 opcodes) | which chunks it runs inside its stack and its code; errors leave the globals alone | `VM`, `VMChecks`, `VMProofs`, `VMSafetyProofs` |
| Objects (`object.*`, `value.*`) | none | truth, equality, interning | used by VM and table | `Objects`, `Table` |
| Chunk (`chunk.*`) | `m_code`, `m_lines`, `m_constants` | `write_byte`, `write_byte_at`, `write_constant` | encoding that compiler and VM share | `Bytecode`, `CodeShape` |
| Compiler (`compiler.*`) | parser tokens and flags, `m_locals`, `m_scope_depth`, the chunk | `compile` and the functions it calls, recursively | accepts the grammar and translates it; jumps land; stack balanced; scopes pair up; ends on every source | `Locals`, `Compiler`, `CompilerChecks`, `Grammar`, `Translation`, `CompilerProofs` |
| Driver (`lox.*`, `main.cpp`) | the VM, the line | `interpret`, `run_file`, `repl` | only correct sources run; the next line starts as if nothing had happened; a program does what it says | `Lox`, `LoxChecks`, `LoxMeaning`, `LoxProofs`, `Meaning`, `Syntax` |
| Scanner (`scanner.*`, `token.*`) | `m_source`, `m_start`, `m_current`, `m_line` | `scan_token` and the functions it calls, with up to two characters of lookahead | each token is the longest lexeme, no character skipped or read twice; tokens run out; lines are counted | `Tokens`, `Scanner`, `ScannerChecks`, `Lexical`, `TokenStream`, `ScannerProofs` |
| Disassembler (`debug.*`) | an offset | `disassemble_chunk` | agrees with compiler and VM on how long instructions are and what they mean | `Disassembler` |
| Utilities (`utility.h`, `common.h`) | none | integer types, printing | - | not modelled |

Calls go one way: driver to compiler to scanner and chunk, driver to VM to table
and objects. There are no callbacks but the compiler's rule table `m_rules`, no
threads, and nothing is persisted: a crash loses everything.

Hard behaviours, each listed with its line in `PROJECT.json`:

- tombstones and their reuse, a table that never grows, loops without a bound;
- assignment to an undefined global, which stores first and undoes it after;
- errors of `-`, `*`, `/`, `<`, `>` that `run_step` ignores, and values that a
  runtime error leaves on the stack of a REPL session;
- `u8` for stack pointer, constant index, local slot and scope depth, `u16` for
  distances: what happens at each limit;
- jumps that are patched after what lies between was compiled, and the three
  jumps of a `for` with an increment;
- panic mode, synchronisation, and compilation that goes on after an error with
  scopes half open;
- lookahead past the end of the source, and newlines that are counted in two
  places.

## Modules

State variables and actions have the names of the code (`stackTop` is
`m_stack_top`); `PROJECT.json` gives the lines behind every definition.
Definitions commented "Mutant" are wrong variants of the definition that
follows, kept to see that a property notices them; nothing uses them.

- **Table** holds the slot array and the operators on it. A key is the contents
  of a string, since `find_entry` compares with `is_equal`. `FindEntry` and
  `FindString` are the results of the two probe loops in closed form.
- **HashTable** runs the loops one slot per step, with one call at a time:
  `Invoke`, `PassTombstone`, `PassKey`, and `ReturnSet` to `ReturnFind`, which do
  all that the call does when its loop stops.
- **Dictionary** is the abstract specification: a map and a call in progress.
  `HashTable!ImplementsDictionary` substitutes the map read off the slots.
- **TableProofs**, **HashTableProofs**: see below.
- **Bytecode**: opcodes, operand lengths, distances. `U8` is `UINT8_COUNT`.
- **Objects**: the values. Doubles are abstract; their arithmetic is a constant.
- **VM**: one action for each kind of instruction. An instruction is one step:
  `run` does nothing else between two of them. The outcomes that are no
  `InterpretResult` are values of `status`: `"hung"` for a probe loop without
  end, `"aborted"` for an uncaught `std::out_of_range`, `"undefined"` for a null
  dereference or an access outside `m_stack`.
- **CodeShape**: what a well-formed chunk is (instruction boundaries, the stack
  heights an instruction can be reached with, jumps that land). It models no
  code; both sides are held to it.
- **VMChecks**, **MCVM**: the VM's properties and its instances. `sound` says
  that the stack was empty before each chunk so far and each was `Verified`, and
  that no number operator went on after its error (`Swallows`) and no push filled
  the stack (`Overflows`).
- **VMProofs**, **VMSafetyProofs**: what holds whatever the bytes are, and what
  holds as long as `sound` does.
- **Locals**: the operators on `m_locals`.
- **Compiler**: a pushdown machine. `todo` is the C++ call stack: a frame is a
  function still to be called or the rest of one, with the locals that rest
  uses. An action runs one function up to the next call. The source is made up
  on the way: `advance` takes any next token that `source` allows, so that every
  text of some length is compiled, wrong ones included.
- **Grammar**: the grammar of the repository's README (lines 12 to 41, without
  classes, functions and calls, which the compiler does not have yet, and with
  `declaration*` for a program, where line 13 has `statement*`) as a
  syntax-directed translation, a reference that shares nothing with the
  compiler's method but the instruction set. It uses recursive operators and is
  only for model checking.
- **CompilerChecks**, **MCCompiler**: the compiler's properties, with history
  variables for the text and the open scopes, and its instances.
- **Translation**: the one property that compares the compiler with `Grammar`,
  kept apart since proofs cannot use a module with recursive operators.
- **CompilerProofs**: types, scopes and errors, proved over the pushdown machine.
- **CodeProofs**: that accepted code is well formed, on top of it.
- **Disassembler**: `disassemble_chunk`, one round for each offset, with its own
  table of instruction lengths, as in the code.
- **Tokens**: characters by class, token types, keywords and operators.
- **Scanner**: `scan_token`, one round of a loop per action: `at` is the function
  whose loop is running.
- **Lexical** is the abstract specification of scanning: a text falls into gaps
  and lexemes, each as long as it can be. `CommentEndsGap` says what the code
  makes of a comment (TRUE) and what the sample programs expect (FALSE).
- **TokenStream** is what a parser may rely on, whatever the tokens: they run out,
  and then all are the end of the file. The scanner implements it, and `advance`
  in `Compiler` reads such a stream. This is where the two parts meet: the
  compiler's other properties do not depend on characters.
- **ScannerChecks**, **MCScanner**, **ScannerProofs**: properties, instances, proofs.
- **Lox**: driver, compiler and VM composed by `INSTANCE`. `FromLine` makes the
  compiler's free choice of tokens that of the line typed.
- **Meaning** is what programs mean: an evaluator of syntax trees, with variables
  by name in nested scopes, and no bytes, slots, jumps, stacks or tables. It is the
  reference for compiler and VM together. It is recursive and only for model checking.
- **Syntax**: the trees, each with the tokens it is written with.
- **LoxChecks**, **MCLox**: the properties across the parts, with history variables
  for where the stack and the globals were when a line started and what it printed,
  and instances.
- **LoxMeaning**: the two properties that compare with `Meaning` and `Grammar`.
- **LoxProofs**: compiler and VM fit, from the theorems about each.

## Runs

| Run | Question and result |
|---|---|
| `HashTable` | Four names, five slots, probe sequences that collide, overlap and wrap. Probing never doubles a key (`NoDuplicateKeys`) or cuts one off (`ChainsUnbroken`), loops know what they passed (`ProbeConsistent`), the loops are the closed forms that the VM uses (`LoopIsClosedForm`), an empty slot is left (`EmptySlotLeft`) so that calls return (`CallsReturn`), and all answers are a map's (`ImplementsDictionary`). |
| `VM` | Three families of chunks that no compiler checked. Single ones: every chunk of up to six bytes over constants, `nil`, pop, get-local, two jumps and return, and every three bytes of operators, one invalid, on numbers, strings and mixtures. Three in a row: up to four bytes on two names and two slots, or strings to concatenate; and lines of one or two statements on names. Verified chunks never leave stack or code, also after runtime errors of others, until an operator swallows its error or the stack is full (`VerifiedIsSafe`); the stack height is the one the bytes determine (`StackIsStatic`). Whatever the bytes are, a runtime error changes no global (`ErrorsKeepGlobals`), definitions and interned strings stay (`NamesStay`), no name is there twice (`NoNameTwice`), members keep their types (`TypeOK`). Hanging on a full table is reached. |
| `Compiler_grammar` | Every text of eight vocabularies: control flow up to 12 tokens, `for` up to 11, scopes up to 8, assignments in scopes up to 9, one name that hides itself up to 12, expressions up to 6, all operators up to 5, and texts that go on after an error up to 6. The compiler accepts exactly the grammar's programs and emits their translation (`TranslatesGrammar`), the stack balances on all paths (`CodeBalanced`), depths are the open scopes (`DepthIsScope`), scopes close (`ScopesClosed`), and the disassembler lists just the instructions, with their constants and jump targets (`ListingIsProgram`). |
| `Compiler_limits` | `U8 = 3`, so that a distance has at most 8 and a pool 3 constants: texts of up to 8 tokens pass both limits, declarations one more than the three slots of locals in 15 tokens, and scanner errors and wrong tokens are anywhere in texts of 5. Accepted jumps land (`JumpsPatched`), accepted indexes exist (`ConstantsThere`), `CodeBalanced`, `TypeOK`; no error is forgotten (`ErrorsKept`), scopes pair up (`ScopesClosed`), the compiler ends (`CompileEnds`). |
| `Lox` | Some thousand scripts of a block with a local, nested control flow, global and local variables, every binary operator, and runtime errors, reported and swallowed; scripts with about as many locals as the stack has slots; and four lines out of ten at the prompt, correct or not, in any order, starting on slot 0, 1 or 7. The stack grows by what the compiler counted, modulo a byte (`HeightsMatch`), nothing undefined happens as long as lines find the stack empty, no operator swallows its error and no push fills the stack (`NeverUndefined`), a line without error leaves the stack as it was (`LineLeavesStack`), a program that starts on an empty stack prints, fails and sets globals exactly as `Meaning` says of its syntax tree, and an operator swallows its error only where that fails, with all printed till then as meant (`RunsAsMeant`); of the lines exactly the grammar's programs are run, but for `or` and the limits of a chunk (`ExactlyProgramsRun`), the prompt comes back (`EveryLineEnds`). |
| `Scanner` | Every text of up to five or six characters over five alphabets: words and keywords, numbers and points, strings with newlines, comments, operators. Tokens are the longest lexemes in order (`ImplementsLexical`), newlines are counted but for those after comments (`LinesCounted`), tokens run out (`TokensRunOut`), calls return (`CallsReturn`), only one text makes the scanner throw (`ThrowsOnlyOnSlash`), positions stay in order (`TypeOK`). |
| `Compiler_bare_for`, `Compiler_or`, `Compiler_depth`, `Lox_swallowed_error`, `Lox_after_error`, `Scanner_comment` | Violated, as below. |

Bounds. `U8` stands for 256 wherever the code has a byte: base of a distance,
limit of locals and constants, size of the stack. Opcodes are labels and are not
bounded by it, so that `U8 = 3` reaches limits that take hundreds of tokens in
the code; elsewhere `U8 = 16` keeps them out of the way. `source.length` bounds a
text; the lengths allow the longest statement of each kind with a second one
nested (`if (1) if (1) 1; else 1;`, `{ var a; { var a; a; } }`), where patching and nesting interact.
`loads` and `maxLines` bound a session: three chunks suffice to leave a
tombstone, pass it and reuse it. `Capacity` is 8 in the code; the properties do
not depend on its value (proved). `UsizeCount` is larger than any offset that
occurs. In `MCVM` and `MCLox` numbers are zero and one other: the VM tells apart
only falsey and truthy, number and not. Texts of the scanner have the longest
lookahead twice and a lexeme of each kind before and after a gap; that their
length does not matter is proved.

Deadlock is checked for `HashTable` and the compiler (which stutters explicitly
once it has returned). The VM, the driver and the scanner stop for good (aborted,
exit, no more chunks), and their configurations switch the check off.

Fairness. The hash table is fair for the steps of a call, the compiler for every
step, the driver for every step except those that wait at the prompt, the scanner for the
steps of a call but not for the call itself. All are
plain loops of the only thread; nothing they do can be blocked. A user need not
type anything.

What does not hold:

- `for (;;)`, any `for` without a condition, tests and pops a value that was
  never pushed (`Compiler_bare_for`).
- `or` has no precedence in `m_rules` and is refused (`Compiler_or`).
- After `1 - nil` the VM goes on with one value less, and later locals are read
  from the wrong slot (`Lox_swallowed_error`). `HeightsMatch` and `LineLeavesStack`
  therefore end at such an error, and `RunsAsMeant` compares only what was printed
  before it.
- After a runtime error at the prompt the next line's locals are off
  (`Lox_after_error`). The same happens on a first line when the uninitialised
  `m_stack_top` (`VirtualMachine() = default`, `lox.cpp:68`) is not zero:
  `InitialTops` models it.
- With eight names in use the lookup of a ninth never returns: `k_max_load` and
  `adjust_capacity` are declared and unused. `EmptySlotLeft` therefore has the
  premise that fewer names than slots are in use.
- `OP_RETURN` does not end the run (`vm.cpp:193`); it must be the last byte,
  which `Verified` asks for and `TranslatesGrammar` shows.
- In the 256th nested block a local's depth is stored as 0, so that `end_scope`
  takes it for one of another scope (`compiler.cpp:94`, `Compiler_depth`).
  `ScopesClosed` therefore speaks of locals only below that depth.
- 256 locals are accepted, but the value stack has 256 slots in all: temporaries
  above them wrap `m_stack_top`. `NeverUndefined` therefore ends at a push that fills
  the stack (`Overflows`), `RunsAsMeant` has the premise `StackSuffices`, and
  `HeightsMatch` counts modulo the byte.
- After a comment the newline is an unexpected character, an error that fails the
  line, and is not counted (`Scanner_comment`); `LinesCounted` and
  `ImplementsLexical` say exactly this of the code.
- The source `/` makes `peek_next` throw, which nothing catches
  (`ThrowsOnlyOnSlash`).
- A global that an unverified chunk, or one that failed halfway, defined from a
  bad stack may be a null pointer for all chunks after it: `VerifiedIsSafe` and
  `NeverUndefined` take all chunks so far to be verified, and the stack to be empty
  before each.

## Proofs

`HashTableProofs` proves for every `Capacity`, `Hash`, set of keys and values:

- `TypeCorrect`: `TypeOK` always holds.
- `KeysAreOnce`, `ChainsAreUnbroken`, `ProbesAreConsistent`: `NoDuplicateKeys`,
  `ChainsUnbroken` and `ProbeConsistent` always hold.
- `RoomIsLeft`: so does `EmptySlotLeft`.
- `TableIsDictionary`: `HashTable` implements `Dictionary`.
- `LoopComputesClosedForm`: where a probe loop stops, `FindEntry` and
  `FindString` say the same, so that the VM may use them for the loops.

`VMProofs` proves for every set of chunks, `U8`, `Capacity`, `Hash` and values,
any number of chunks one after the other and any first `m_stack_top`:

- `VMTypeCorrect`: `TypeOK` always holds, whatever the bytes are.
- `NamesOnce`: `NoNameTwice` always holds.
- `ErrorsKeep`: no step that ends in a runtime error changes what the globals are.
- `NamesStayDefined`: globals stay defined, strings stay interned.

`VMSafetyProofs` proves for the same constants:

- `VerifiedChunksAreSafe`: `VerifiedIsSafe` always holds.
- `HeightsAreStatic`: `StackIsStatic` always holds.

`ScannerProofs` proves for every set of texts, of any length:

- `ScannerTypeCorrect`, `LookaheadIsSafe`, `LinesAreCounted`: `TypeOK`,
  `ThrowsOnlyOnSlash` and `LinesCounted` always hold.
- `ScannerIsLexical`: `Scanner` implements `Lexical`.
- `ScannerRunsOut`: `Scanner` implements `TokenStream`.

`CompilerProofs` proves for every set of sources and every `U8`:

- `CompilerTypes`, `ScopesAreClosed`: `TypeOK` and `ScopesClosed` always hold.
- `DepthsAreScopes`: `DepthIsScope` holds as long as no scope was deeper than a
  byte can count, which `Compiler_depth` shows to be needed.
- `ErrorsAreKept`: `ErrorsKept`.

`CodeProofs` proves for the same constants:

- `JumpsArePatched`, `ConstantsAreThere`: `JumpsPatched` and `ConstantsThere`
  always hold.
- `CodeIsBalanced`: so does `CodeBalanced`, whose two premises (every `for` has
  its condition, fewer than 256 scopes were nested) `Compiler_bare_for` and
  `Compiler_depth` show to be needed.
- `ListingShowsProgram`: so does `ListingIsProgram`.

`LoxProofs` proves for every set of sessions and lines, of any length and content,
run from a file or at the prompt, and for the constants above:

- `CompilerAndVMMatch`: `HeightsMatch` always holds, this is "compiler and vm local
  var stacks match" (`vm.cpp:80`).
- `LinesAreSafe`: `NeverUndefined` always holds.
- `LinesLeaveStack`: `LineLeavesStack` always holds.

Their premises are those that runs show to be needed: `OnCount`, which is `counted`
(every `for` has its condition, fewer than 256 scopes) without `swallowed` (an operator
of the chunk swallowed its error), and for safety `sound` (the stack empty before each
line, and never full).

The assumptions are those named in the modules: at least one slot, hashes are
numbers, `Null` is no key and none of the other values, the tombstone's value is
neither null nor nil; a byte has at least two values, arithmetic on numbers gives
numbers, bytes of a chunk are numbers and its constants values, and a chunk is
shorter than `2^64`; a line is a sequence of tokens whose lexemes are names, strings
or numbers by their type; a source is a finite number of tokens with the fields of
`Token`, a text a sequence of characters shorter than `2^64`, and the classes of
characters do not overlap.

The argument for the hash table. That no key is stored twice is not inductive by itself: `set`
stores where its loop stops, so the key must not lie further along. That follows
if no stored key is cut off from its home slot by an empty one
(`ChainsUnbroken`), since the loop stops at an empty slot only after it passed
every slot from the home slot on; and chains stay whole because `del` leaves a
tombstone and `set` fills only slots that the key's own probes reach, which is
what the loop's variables record (`ProbeConsistent`). The conjunction `IInv` is
inductive; `Between(h, s)`, the slots from h round to s, carries the modular
arithmetic. For the refinement, a loop that stops at an empty slot has shown that
its key is in no slot, so the answer is that of the map; loop steps are
stuttering. `find_string` never matches `""` and passes it, as the abstract
specification says. For the closed form the loop's memory of tombstones is
needed as well (`FirstTombstone`): it keeps the first one it passed, and that lies
before every slot that could stop the loop, even after a full round.

The argument for the VM. `TableProofs` states what a table is that sets and
deletes can leave (`IsTable`: keys once, chains whole), that `FindEntry` finds a
stored key in it (`FindsKey`) and that storing and erasing in the slot found
leave a table. With these, a failed assignment, which stores and then deletes,
is shown to delete from the very slot it stored into and to leave just a tombstone
(`StoreThenErase`), hence no change of contents. The inductive invariant of
`VMProofs` is `TypeOK`, that both tables are tables, and that interned strings have
no value; the last is needed since `find_string` never finds `""`, so that it is
stored again each time it is concatenated, which must not change the contents.

For `RoomIsLeft` each slot in use, tombstones included, is charged to a name of
its own, from whose home slot no empty slot lies before it (`Charged`): a set that
takes an empty slot is charged to its key, and one that reuses a tombstone hands
the name charged for it on to the slot that was its key's. So there are never more
slots in use than names.

The argument for verified chunks. `Heights(code)` follows the code round by round;
this proof never looks into it. `StackBalanced` says that it contains offset 0 at height 0 and
is closed under what instructions do, with one height for each offset. The
invariant (`Safe`) is that a running chunk is at one of these pairs, that the slots
below `m_stack_top` and the values of globals are no null pointers, and that
nothing went wrong so far. From a pair the checks of `Verified` give what the VM
trusts (operands in range, enough values, the local there: `Fetched`, `Defined`),
and the next pair is at an instruction (`Arrives`); that its height is below the
stack's size is the premise that no push fills it. That the pair is at an instruction
is also why `runtime_error` finds a line. The globals must be part of it:
they carry values from chunk to chunk.

The argument for the scanner. Between two calls nothing is pending, so the
invariant (`Passed`) is about a call in progress: what was passed since `from` is a
gap, or a gap and a prefix of the one lexeme that `at` allows. Where a loop stops,
what stopped it is what makes the lexeme the longest.

The argument for the compiler. `todo` stands for the C++ call stack, so that the
proof types its frames by the functions they belong to. `m_scope_depth` is the
number of frames that still have an `end_scope` to call (`ScopesOK`), whatever is
nested in what, and errors unwind no frame. Depths are layered by those frames
(`LayersOK`), a declaration in progress has only expressions above it on the stack
(`Nested`), which is why at most the last local is without a depth, and each scope
opened with the locals of the ones before it (`OwnersOK`, until an error).

The argument for accepted code. Code half written has jumps without a target, so
that nothing can be said of it as `Heights` reads it. What is said instead: it has a
chart (`Chart`), a stack height at the offset of each instruction and of the end.
Jumps stay inside the chart and heights follow the instructions (`Level`), except at
the operands that a call in progress is still to patch (`Pending`). Each call in
progress leads from one spot (height, locals, open scopes) to the next (`Leads`):
the rest of an `if` from the height of its `then` to that without the condition, the
end of a loop from the height of its start to that of its exit jump, `end_scope` to
the locals there were at its `begin_scope`. So a jump is patched where its height is
right, because its call says so. A step appends to the chart (`AppendInstruction`),
patches it (`PatchInstruction`) or closes a loop (`AppendLoop`), and puts calls that
lead on in the place of the one it takes (`Moves`); for each function of the
compiler a lemma `Lands...` says so. `CodeInv` is the invariant, checked as an invariant of runs before it was
proved. Heights are only claimed as long as `Fits`; jumps and constants always.

What remains is that `Heights` and `Starts`, which compute round by round, find in
the bytes what the chart says. No induction schema can be cited, but a set of
numbers with 0 and all successors is shown to be `Nat` by its least missing number
(`Inducts`), and from this that the recursive functions exist (`Iterates`). The
rounds stay in the chart (`RunStays`), pass every start (`StartsFound`) and, since
each round with something new finds one more offset of at most `Len(code)`, have
come to an end (`HeightsClosed`). The disassembler's rounds are read the same way:
after n of them the instructions of the chart before offset n are listed, and the
next one is where it goes on (`Reads`), since its lengths are those of the
instruction set (`SizesAgree`).

The argument for the interpreter. `LoxProofs` takes both sets of theorems as
instances: `CP` of the compiler's for the line being compiled, `VP` of the VM's with
no chunk but the one loaded. A step of `Lox` is a step of one of them
(`CompilerSteps`, `VMSteps`), and what they say of bytes is the same (`HeightsAgree`,
`ShapesAgree`). `LoxInv` holds the compiler's invariant while it compiles, and of the
VM its types, its safety as long as `sound` holds, and while a chunk runs `OnCount`
that it is balanced and where its heights say (`Counts`). The join is
`ChunkIsVerified`: what `CodeProofs` proves of an accepted chunk (`JumpsPatched`,
`ConstantsThere`, `CodeBalanced`) is what `Verified` asks of it, and a token's lexeme
is a value of the kind that the instruction trusts. Then a chunk starts on height 0
above `base`, each instruction goes from one height to the next modulo a byte
(`StepCounts`), and at the end nothing is left, so that the top is `base` again.

Only model-checked: `TranslatesGrammar`, `RunsAsMeant` and `ExactlyProgramsRun`, which
compare with recursive operators, what the text and the syntax tree of a line mean;
and `CallsReturn`, `CompileEnds` and `EveryLineEnds`, which are liveness under
fairness.

## Not modelled

Printing and tracing: the text of messages, `to_string`, and in the disassembler
the names of opcodes, the lines and the layout. Lines of the chunk, except that
`runtime_error` reads the line of the next byte and throws if there is none. The
bits of doubles, NaN (which differs from itself), and `std::stod`, which throws for
literals out of range. `Table::add_all`, `VirtualMachine::reset`, `or_infix` and
`operator!=` of `Object`, which nothing calls; `load_source` on a scanner that has
already read something, which nothing does. File access and the usage message;
integer type names and print helpers (`common.h`, `utility.h`); memory, which is
shared pointers throughout. The tests are read as a statement of intent.

## Plan

Done: table, VM, scanner, compiler, disassembler and the interpreter composed of
them, with proofs; a grammar and a reference evaluator for the language. Left:
doubles, that is NaN and the literals that `std::stod` refuses.
