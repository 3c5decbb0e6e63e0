# A verification development for Rak

Rak is a small C-like scripting language implemented in C: a lexer and a
one-pass compiler that emit bytecode, a stack machine that runs it, fibers, and
values whose memory is managed by reference counts. What is hard in it is the
promise of *mutable value semantics* (src/README.md:18): an array may be shared by
many variables, is copied when one of them writes to it, is written in place
when nobody would notice, and is freed the moment nothing holds it. The promise
rests on counts kept by hand in some sixty instruction handlers, on a flag computed
at one instruction and used several instructions later, and on code the compiler
emits and no handler checks. This directory models that machinery in TLA+, checks
it with TLC and proves parts of it with TLAPS.

## 1. Inventory

Rak is sequential: there are no threads, no files, no persistence. "Concurrency" is
limited to fibers, which are coroutines. The hard behaviours are long sequences of
legal instructions that break a count or a flag, failures in the middle of a handler
(no memory, stack overflow, type error), and stack discipline that the compiler
and the machine must agree on.

| Component | State | Operations | Interacts with | Hard behaviours | Correct when |
|---|---|---|---|---|---|
| Values, counts (`value.h`, `value.c`) | type, word and SHARED flag of a value; `refCount` of an object | retain, release, free, equals, compare, print | every other component | a release may free a graph of objects; order of retain and release | counts equal holders; nothing is used after it is freed; nothing is kept for ever |
| Arrays (`array.c`) | slice of values | new, copy, append, set, concat, remove, slice, and their in-place forms | values, VM, natives | copy or write in place; allocation fails midway | elements are retained once each; a write is seen by one variable |
| Records (`record.c`) | slice of (key string, value) | put, set, lookup, remove, in-place forms | strings, VM, constants of the chunk | ownership of keys, duplicate fields, an index kept on the stack while the right-hand side runs | keys and values released once each; one field per name; a write is seen by one variable |
| Ranges, strings (`range.c`, `string.c`) | immutable pair; byte buffer | new, slice, concat, escapes, compare | VM, compiler | a slice past the end; the reader of escapes trusts the lexer | contents preserved; a literal means what its escapes say |
| VM (`vm.h`, `vm.c`) | instruction pointer, slots of the frame | one handler per opcode | fiber, arrays, records, closures | stale SHARED flag; tail calls that replace a frame; in-place unpacking | value semantics; every path balances its retains |
| Fiber (`fiber.h`, `fiber.c`) | value stack, call stack, status | push, pop, set, call, return, yield, resume, deinit | VM, natives (`resume`) | a fiber resumed from a native of another; errors through several fibers; full stacks | each resume gets one value; a fiber runs once at a time; a stack is released once |
| Closures, functions, natives | callable, arity, inout positions | new, release | VM, compiler | a frame's closure released by RETURN or TAIL_CALL | the closure outlives its frame |
| Built-ins (`builtin.c`) | array of globals | 20 natives | VM, fiber, arrays | `append` writes through a reference; `resume` nests fibers | as if the variable were assigned |
| Compiler (`compiler.c`) | symbols, scopes, loops, chunk | one function per construct, peephole rewriting | lexer, chunk, VM | height of the stack at a label, rewriting across a label, break out of a scope | the height assumed is the height at run time |
| Chunk (`chunk.c`) | instructions, constants, line map | append, patch, line lookup | compiler, VM errors | line map after rewriting | a line is that of the instruction |
| Lexer (`lexer.c`) | position, line, column, token | init, next | compiler, strings | points after digits, keywords inside names, escapes, comments at the end | tokens and silent text partition the source; each token is the longest, of the right kind, at the place it says |
| Slice, stack, memory, error, dump, main | buffers; error text | grow, alloc, set; print; start and stop | all | allocation failure | — |

PROJECT.json lists the same components with what is modelled of each, and the hazards
at their lines with the properties that cover them.

## 2. Modules

```
RakMemory ──► RakVM ──► RakVMValues ──► MCRakVM        RakTemplates: in MCRakVM,
    │           │            └─ INSTANCE ─► RakValues   MCRakFiber, RakRecordTrees
    │           └─► RakVMProofs ──► RakVMSafety
    ├───► RakFiber ──► MCRakFiber
    │           └─► RakFiberProofs ──► RakFiberSafety
    └───► RakRecord ─┬► RakRecordTrees ─────┬► RakRecordMeaning ──► MCRakRecord
                     └► RakRecordForgotten ─┤       └─ INSTANCE ─► RakRecordSource
                                            └► RakRecordProofs
RakCompiler ─┬► MCRakCompiler
             └► RakCompilerProofs
RakLexer ─┬► MCRakLexer
          └► RakLexerProofs
```

**RakMemory** — values and counts. A value is its type, its word and its SHARED
flag; an array or a closure is the address of an object of `Obj`. `Retain`, `Release`,
`RetainAll` and `ReleaseAll` transform a record `[rc, dying]`, so that a handler's
retains and releases read in the order in which the code makes them. A release that
brings a count to zero puts the object in `dying`, and nothing takes it out again: a
later retain, as in MOVE, cannot save what C has already freed.

**RakVM** — the machine. `stk`, `sp` are the value stack (slot 0 stands for
`fiber->globals`), `frames` the call stack, `cell`, `len`, `class` the heap, `rc` and
`dying` the counts, `status` the run. There is one action per handler of `vm.h`
(`PushNil` … `ReturnNil`), one for each of the natives `append`, `array` and `len`, `FreeObject` for
`rak_array_free` and `rak_closure_free`, `Deinit` for `rak_fiber_deinit`, and
`NextStatement`, described below. An instruction starts only when `dying` is empty: in C
the frees happen inside the release, so no instruction can see a condemned object
(the cascade itself is a chain of `FreeObject` steps, in any order). Allocation picks
any free address and fails when there is none. `PushValue`, `ReturnValue`, `Call` and
`TailCall` have the branches in which the stack is full, with exactly the state the C code
leaves behind. `NewEmptyArray` is the path of the literal `[]`, which pushes what the
allocator returned without looking at it: on a full stack the array is lost, and with no memory
left a NULL is on the stack, on which `rak_fiber_deinit` crashes (`status` is then "crashed",
and nothing follows).

What a handler does *not* check is not guarded: an operand the compiler guarantees
(`IsLocal`, `Operands`, `IsLocalRef`) is a conjunct whose failure would be a
deadlock, and the runs check for deadlock.

*Programs.* A frame's instruction pointer is the sequence of instructions it has
still to run. When it is empty, `NextStatement` gives it any statement of its function,
so that a behaviour runs the statements of a script in any order, any number of
times: the conditions of its branches and loops are left undecided. `Prologue`, `Stmts`,
`Arity` and `Inouts` are constants, and so are the natives a script has (`Natives`, with the
closures of the array of globals in `NativeObjs`, in the order of LOAD_GLOBAL). **RakTemplates** builds them as `compiler.c` would,
the peephole on stores (`LOAD_LOCAL` + store = `MOVE`) and returns (`CALL` + return =
`TAIL_CALL`) included.

**RakValues** — the abstract specification: the same instructions over values that
cannot be shared. An array is the sequence of its elements, an assignment replaces the
content of one slot, append returns a longer sequence. No heap, no counts, no flags.

**RakVMValues** — the refinement. `Denotes` maps a word of the machine to the value it
stands for. One history variable is needed: between `FETCH_LOCAL` and `STORE_LOCAL` an
unshared array is already modified in place while the variable still holds it; `lent`
keeps the value the variable had when it was loaded until it is assigned. `LentNext`
is `Next` with that bookkeeping, so every behaviour of `LentSpec` is one of `Spec`.
`ValueSemantics` is `RakValues!Spec` under the mapping.

**RakFiber** — several fibers. Each has a value stack `stk[f]`, a call stack `cstk[f]` and
a `status`; `chain` is the C stack of the interpreter, the activations of `run()` and
`resume()` one inside the other, of which only the last executes. `Resume` is the native up to
its call of `rak_fiber_resume`, `HandOver` the end of the loop in `resume()` and the rest
of the native, which moves the value from one stack to the other; `RootContinues` and
`RootDone` are what `run()` does instead for the fiber of main(). An error sets `err`, and
`Unwind` ends the activations one by one. `FiberNative` is `rak_fiber_new` with
its failures. A fiber has the instructions that move fibers about and no others; what
RakVM says of the rest of a frame is not repeated, the declarations at the head of a script
have already run, and the array of arguments given to `fiber()` has at most one element
and is represented by it. `HasLocal` guards the operands no handler checks, as `IsLocal` does in
RakVM: an instruction whose operand is not there would be a deadlock, and `fibers` checks for it.

**RakCompiler** — the compiler's control, and the machine as far as control and slots go. A
behaviour has two phases. In the first the compiler reads a function statement by statement,
any statement at any point, one action for each place in `compiler.c` where it decides:
`BeginIf` is `compile_if_stmt` up to its condition, `Condition` goes on to the `{`, `EndThen`
is what follows the block, `BeginElse` and `EndIf` are `compile_if_stmt_cont` and the rest.
`open` stands for the C functions that are waiting for a block to end, `loops` for the chain
of `Loop`s, `symbols`, `scopeDepth` and `code` are the fields of `Compiler` and the chunk; offsets
wrap as `uint16_t` does. Expressions are compiled by the recursive function of `Compiled`, with the
rewriting of the last instructions in `EmitSum`, `EmitStore` and `EmitReturn`. In the second
phase the code runs, one action per opcode.

The specification it is held against is the source itself. While it compiles, the model notes
in `steps` what the source does between two offsets of the code: declares, assigns, tests,
leaves scopes down to a level, returns. `src` is a second machine that follows these
steps on a sequence of *named* variables, evaluating expressions as trees (`Eval`); it moves
when the machine leaves an offset where a step begins. It knows nothing of slots, pops or jumps, so
`Follows`, which compares the two, is the correctness of the compiler for the program at hand.

The conditions of branches depend on the argument, which is arbitrary. Arithmetic and calls
are functions of their operands given as constants. Not in it: the grammar (precedence
is that of the trees), inout parameters, arrays and records, nested functions, and errors at run time.

**RakRecord** — records, strings and ranges, and the handlers that work on them, in one frame.
A record is a sequence of fields, each an owned key string and a value; keys are compared by
their characters, and the strings of the chunk's constants stay until `Deinit` releases
the function. `PutField`, `SetElement`, `UpdateField` and `UpdateElement` go through `Put` and
`Set`, which write in place (`WriteInPlace`) or on a copy (`WriteCopy`), with growing
refused at `MaxFields`. `LoadField` and its kin leave the index of the field on the stack for the
update that follows. `NewEmptyRecord` is the path of the literal `{}`, which pushes what
the allocator returned without looking at it: with no memory left the program crashes,
and on a full stack the record is lost. `UnpackFields` overwrites the keys it is still
reading, and leaves them half replaced when one is missing.

**RakRecordForgotten** — RakRecord with one history variable: `forgotten` counts the references
SET_ELEMENT and NEW_RECORD drop without releasing them (a computed key; the key and one count of
the value of a field written twice in a literal). No action reads it. `ForgettingSpec` is
RakRecord with that bookkeeping, and what the proofs are about.

**RakRecordTrees** — the statements of those scripts as trees: `StmtCode` is the code the
compiler emits for them, `Results` what they mean to someone who knows nothing of the machine: a
record is a sequence of key and value pairs, and an assignment to a path gives a new value.
**RakRecordSource** is the abstract machine: a statement begins, and in one step one
variable gets one of its `Results`, or the script stops. **RakRecordMeaning** is the
refinement: `seen` records what the variables mean at the end of each statement and `todo` the
statement that runs; no action of RakRecord reads them. A script stops once it has forgotten one
object `MaxForgotten` times, since its count would grow for ever: apart from that bound
`SeenSpec` is `ForgettingSpec` with these two variables added.

**RakLexer** — the lexer and the reader of string literals. A step is a whole call of
`rak_lexer_next`: `Skip`, then the matches in the order of the code (`Match`), where
`Reach` advances line and column character by character as `next_char` does. The compiler calls
it again as it goes on (`NextToken`), turns a string into a constant after it has
asked for the token behind it (`ReadString`), and may stop at any token (`SyntaxError`). What a
token is, is defined a second time from the text alone (`Lexeme`, `Escaped`, `IsAt`,
`StartAfter`, `Meaning`), with quantifiers and no scanning, for the properties.

**MCRakVM**, **MCRakFiber**, **MCRakCompiler**, **MCRakRecord**, **MCRakLexer** — scripts, sources and
constants for TLC.

**RakCounting**, **RakVMProofs**, **RakVMSafety**, **RakFiberProofs**, **RakFiberSafety**,
**RakRecordProofs**, **RakLexerProofs**, **RakCompilerProofs** — theorems and their lemmas (section 4).

Abstractions: numbers stand for every scalar with a payload; results of arithmetic are
any number up to `MaxNum` and of `==` either boolean; arrays are in RakVM, records, ranges and
strings in RakRecord, and no model has both (the handlers branch on the type first, and
the branches share no state but the counts); each text is one constant of the chunk, where the
compiler makes one at each use; the count a closure holds on its function is left out (a function
has no other mutable state); the capacity of a slice is `MaxLen`, `MaxFields` or
`MaxText`, at which growing fails; characters are those of ASCII.

## 3. Runs

All passing runs but `lexer`, which stops at the end of its text, check for deadlock. Those
of the VM and of records use symmetry over the free addresses; `fibers` checks a liveness
property and uses none.

| Run | Script | Bounds | Properties |
|---|---|---|---|
| `arrays` | two variables assigned, nested, written through one and two levels, `+=` on elements, destructuring, `==`, append through references to shared, unshared and nested arrays, `array()`, `[]` | 8 slots, 2 frames, 4 objects, arrays of 2 | TypeOK, RefCountExact, Reclaimed, Thrifty, NoLeak, ValueSemantics |
| `calls` | a function of an inout and a plain parameter that writes, replaces, returns and passes on its reference, and recurses in tail position; functions as values and elements, too few and too many arguments, nested calls, tail calls, `len`, `[]` on a full stack and without memory | 11 slots, 3 frames, 6 objects | Disciplined, WellTyped, NoDangling, RefsAimBelow, NoLeak, FramesAnchored, ValueSemantics |
| `fibers` | generators that call themselves and yield, relays that resume the fiber they are given, create others or hand theirs on, and a script that mixes them with top-level yields and errors | 10 slots, 3 frames, 3 fibers besides that of main() | TypeOK, RefCountExact, NoDangling, ChainSound, StacksLevel, Acyclic, NoLeak, ResumeReturns |
| `compiler` | every function of one parameter and at most four statements: declarations that shadow, assignments, `+=`, returns, blocks, if with let and else, loop, while with let, break, continue | 4 symbols, 15 instructions, one break per loop, 3 values | TypeOK, Follows, OperandsExist, Sealed, ScopesNest |
| `records` | two variables that are assigned records and each other, fields and nested fields written and `+=` by name and by computed key, strings appended to a field, fields, slices of strings and elements of ranges read, a literal with a field twice, destructuring | 6 slots, 4 objects and 2 constants, records of 2 fields, strings of 2 characters, 2 forgotten references | TypeOK, RefCountExact, NoDangling, KeysDistinct, OnlyForgottenLeak, FailsRightly, SourceMeaning |
| `lexer` | every text of up to 3 of 17 characters; numbers, strings with their escapes and comments of up to 5 of the characters that matter to them; every keyword with what may stand beside it | the lengths given | TypeOK, Tiled, Longest, PositionsRight, FaultsRight, StringsMean, ReadsInside |

The bounds are chosen so that each limit is met: four free objects let two variables
hold nested arrays, a copy be in flight and the next allocation fail; two
elements distinguish the element written from the one kept; the slots run out both in
the middle of an expression and on entry to a call, and between the two pushes of a field
instruction. A larger `Obj` or `MaxSlots` adds
longer sequences of the same steps. In `compiler` four statements are enough for a break out
of an if in a while, for three levels of scopes and for an else-if chain; the limits on symbols, breaks
and instructions are set low enough that programs exceed each of them by one and by more. Three
characters hold every pair of tokens that could be mistaken for another, and five
a number with a point and a signed exponent, or two escapes and a quote.

What the properties say:

- **RefCountExact**: the count of an object is the number of stack slots and array
  elements that hold it, after every instruction and through every error path.
- **NoDangling**: nothing holds memory that is free or condemned.
- **WellTyped**: a value tagged array or closure addresses an object that is one; no handler
  looks at the object before it uses it as what the tag says.
- **Reclaimed**: what nothing holds is freed at once, also where `append` drops a
  count without freeing.
- **NoLeak**: after `rak_fiber_deinit` no object is left; since counts are exact this
  is the absence of cycles, i.e. that copy on write never stores an array in itself.
  Excepted is an empty array nothing has ever held (`Unclaimed`), which `[]` leaves on a full stack.
- **RefsAimBelow**: a reference names a lower slot that is not itself a reference, and is
  never stored in an array.
- **FramesAnchored**: frames are stacked in order and each still has its closure in its
  bottom slot, which RETURN and TAIL_CALL release blindly.
- **Disciplined**: what a script must respect for the above, because no handler checks
  it: no variable is assigned to itself (MOVE releases before it retains), neither an
  instruction nor a reference writes the bottom slot of a frame, which is the function's own
  name, a call in tail position passes as many arguments as its frame has slots above the
  closure, and `array(val, n)` is not given an object to repeat.
- **Thrifty**: what a script must respect besides so that nothing is left behind: `append`
  through a variable whose flag says shared finds a count above one, since it drops
  one without looking, and neither `array` nor the literal `[]` meets a full stack, where
  they lose the array they have made.
- **ValueSemantics**: the machine implements `RakValues`.

Of fibers (RefCountExact and NoLeak are stated over all stacks; a fiber that could not be
created because an argument is not a reference loses the counts it had taken, fiber.c:120, so
after an error NoLeak only asks that fibers and globals are gone):

- **NoDangling**: what a live stack holds is in memory, the closures of the frames included, also
  after an error has stopped every fiber where it was.
- **ChainSound**: the fibers that are running are those of the chain, once each, and each is
  kept alive by the frame that resumed it, where the native waits.
- **StacksLevel**: between statements a stack holds the variables of its function and
  nothing else: what is yielded leaves it exactly once.
- **Acyclic**: no fiber can reach itself. This is what makes reference counts enough for
  fibers, and what makes the check in `resume` for a fiber that is not suspended one
  that only a finished fiber can fail.
- **ResumeReturns**: control is back in the outermost fiber again and again. The fairness is
  weak fairness of `Next`: the interpreter is one thread that never waits. It holds for
  scripts in which every statement of a resumed function yields or returns, as in `fibers`; a
  loop that does neither is the script's own.

Of records:

- **SourceMeaning**: the machine implements `RakRecordSource`: when the code of a statement has run,
  the variables mean what the source says, whatever was shared, copied or written in place.
- **FailsRightly**: a statement fails only when it has no meaning, or when an object, a slot or room
  in a record was wanting.
- **RefCountExact**, **OnlyForgottenLeak**: what a count has beyond the slots, keys and values
  that hold the object is what was forgotten, and when the script is over nothing else is left but
  what hangs below that: keys and values change hands without a slip on every other path.
- **KeysDistinct**: no record has two fields of one name, though its keys are different strings.

Of the lexer:

- **Tiled**: tokens and silent text make up the source; the end is found at the end and not before.
- **Longest**: each token is the longest at its place and has the kind of its text.
- **PositionsRight**: line and column are those of the text; for a string, of its closing quote.
- **FaultsRight**: an error is raised only where no token can be.
- **StringsMean**, **ReadsInside**: a constant is what its literal means, and reading one never leaves
  its token, though the reader does not look at the length after a backslash.

`Longest` and `FaultsRight` are stated for texts in which no backslash follows another: there the
lexer goes wrong, as the run `string_end` shows.

Of the compiler:

- **Follows**: at every boundary between statements the machine is where the source is, and its
  slots hold the source's variables, outermost first, and nothing else; and what is returned
  is what the source returns.
- **OperandsExist**: no instruction pops or names a slot that is not there, nor pops
  a parameter.
- **Sealed**: in code that runs no jump is left unpatched or leads outside the code.
- **ScopesNest**: while it compiles, the depths of the symbols, the open blocks and the
  loops agree with one another.

`compiler` uses `LevelSpec`: programs in which no break or continue leaves the scope of a
variable, with expressions whose last instruction no jump skips. The two runs below take these
restrictions away.

The other properties are safety properties and assume no fairness.

### Runs that show the code at odds with its documentation

Each uses a script of a few statements and has been reproduced with the program
built with the address sanitizer.

| Run | Violates | What happens |
|---|---|---|
| `stale_flag` | ValueSemantics | `&b[0] = f(&a, b)`, where `f` assigns its second argument to its inout parameter: SET_ELEMENT uses the flag FETCH_LOCAL computed before `f` made `a` share the array, writes in place, and changes `a` too |
| `break_local` | Follows | `while let x = p; p { continue; }` jumps back with `x` still on the stack: each round leaves one slot more, and the condition reads the first `x` for ever. `break` out of a block with variables shifts those declared after the loop |
| `fused_label` | Follows | `return p && f()`: the call becomes TAIL_CALL, no RETURN is emitted, and when `p` is false the function goes on with the next statement. `let x = (p && f) + p` and `&p = if p { f } else { p }` are rewritten across a label too |
| `tail_apply` | NoLeak | TAIL_CALL releases as many slots as the callee has parameters: the extra arguments of the caller leak (the `apply` of docs/README.md:615 is such a function) |
| `array_fill` | NoDangling | `array(val, n)` stores `val` n times and retains none of them: `let a = [1]; let b = array(a, 2); &b = nil;` frees the array `a` still holds |
| `string_end` | StringsClose | `"a\\"`: the quote after an escaped backslash is taken for an escaped quote, and the string is reported as unterminated |

The scripts of the passing VM runs respect `Disciplined` and stay clear of those of these that are
about the VM, which is what their statements were chosen for: no right-hand side shares the variable
being written after it was loaded, `array` is not given an array to repeat, and append's
argument is not a variable whose sharing has ended. The same defects have variants that the
model reproduces when given the script: `&b = b` becomes MOVE b b, which releases before it
retains; REF_LOCAL leaves the SHARED flag on a variable after its sharing has ended, and append
then drops the last count of the array without freeing it; `&a[0] = a` and `append(&a, a)`
make an array contain itself; a function that copies its inout parameter and then writes the
parameter changes the copy (`LOAD_LOCAL_REF` never looks at the count again); a tail call to a
function of more parameters than the caller releases what it has just moved; a function that
assigns its own name has its closure released twice. Each computed key of `&r[k] = v` leaks, and
so do the key and a count of the value of a field written twice in a literal: these the run
`records` counts in `forgotten`.

## 4. Proofs

The theorems hold for every script, every set of objects and every size of the
stacks, from the assumptions `ObjAssumption`, `ProgramAssumption`,
`MainAssumption` and `BoundAssumption` for RakVM, `ObjAssumption`, `FiberAssumption`,
`SizeAssumption` and `StartAssumption` for RakFiber, `ObjAssumption`, `ConstsAssumption`,
`ScriptAssumption` and `LimitAssumption` for RakRecord, `AsciiAssumption`, `SourcesAssumption`,
`TextsAssumption` and `OrderAssumption` for RakLexer, `CompilerAssumption` and `ExprAssumption` for RakCompiler (which TLC evaluates on every run).

`RakVMProofs`:

- `TypeCorrect`: `Spec => []TypeOK`. `TypeOK` is inductive as it stands. Besides types it
  says that the slots above the top and the cells past the end of an array are
  empty, and that slot 0 keeps the globals; LOAD_GLOBAL needs the last fact, every
  handler that moves `sp` down needs the first, and the counting of holders in
  `RefCountExact` is over all slots and cells only because of them. The proof has one lemma
  per action; `StackStepType` and `HeapStepType` state once what a handler that goes on
  must show, `FailType` what one that fails leaves, `ReturnType` and `ReturnValueType`
  what the two ways to leave a frame do.

`RakVMSafety`, for scripts that keep to `Disciplined`:

- `CountsExact` (`RefCountExact`), `TypesSound` (`WellTyped`), `NothingDangles` (`NoDangling`) and
  `FramesStay` (`FramesAnchored`): `Spec /\ []Disciplined => []...`.
- `NothingForgotten`: `Spec /\ []Disciplined /\ []Thrifty => []Reclaimed`. It does not say that no
  handler ever leaves an object behind: `append`, `array` and `[]` do, each in the situation
  `Thrifty` excludes. It says that these are all, for every script and every size.

None of these is inductive alone. The inductive invariant is `SafetyInv`: `TypeOK`, exact counts
over slots and cells, well-typed values, "a condemned or free object has count zero", and frames in
order with their closure in their bottom slot. They need each other. RETURN and TAIL_CALL
release the closure they read from the *frame*, so the count is right only if the
slot still holds it; the slot still holds it because a closure that something holds is
not freed, and so its address is not given to another function, which is what the counts say.
`Reclaimed` is proved on top of it: a count that falls to zero condemns the object in the same step.

How it is laid out: `RakCounting` has what the sums of `Occ` obey (over disjoint parts, at one
place, when a function changes on a few places, under a shift of a block of the stack) and what
`Retain`, `Release` and their iterations do to counts and to the set of condemned objects, and the
sums over several sequences (`OnStack`, `OnStacks`) that fibers and records share; it
knows nothing of a machine. `RakVMSafety` shows handler by handler that the
counts stay exact, then that the frames stay, puts the two together, and adds what
is reclaimed.

`Disciplined` and `Thrifty` are hypotheses because the code needs them. No handler checks what
they say, and the runs `tail_apply` and `array_fill`, as well as the variants listed above, break
the conclusions where a script breaks them. They speak of the next instruction only,
and every other state of a run, each error path and every step of a cascade, is covered. That a
script does keep to them depends on what the compiler emits: TLC checks `Disciplined` on the
run `calls` and `Thrifty` on `arrays`.

`RakFiberSafety`, for every script, with no hypothesis:

- `FiberTypeCorrect` (`TypeOK`), `FiberCountsExact` (`RefCountExact`), `FibersNeverDangle`
  (`NoDangling`) and `FibersChained` (`ChainSound`): `Spec => []...`.

The inductive invariant is `FiberInv`. To the four properties it adds what they need of one
another. `Counts` extends `RefCountExact` to the states after an error, where a count may be too
high (`fiber()` has lost what it retained) but never too low: this is what keeps the frames of the
fibers that wait from dangling when an error ends the chain. `WellTyped` makes the address in a
value tagged fiber that of a fiber. `FramesAnchored` keeps the closure of every
frame in its slot, which RETURN releases without a look, and `AtZero` says that what is condemned is
held by nobody. `Standing` says where each fiber is: the first of the chain is that of main(),
a fiber that waits has the argument of `resume` above the base of its frame, a suspended fiber
still has a frame, and one that has just yielded has the value above it. A fiber of the chain is
never freed because the stack of the one before it holds it, and that one waits in its native,
so that its stack does not change; the counts then say that it is not condemned.

`RakFiberProofs` has what a push, a pop, a store, a cut and padding do to the number of holders on one
stack, the sum over the stacks of all fibers when one or two of them are written, and what becomes of
frames. Most instructions write only the stack and the top frame of the fiber that executes:
`WriteStep` says once what these have to show. Entering and leaving a chain
(`ResumeStep`, `ChainLeft`), a value that passes between two stacks (`HandOverStep`), an object that
becomes a fiber (`CreatedStep`) and one that is freed (`FreeObjectStep`) have proofs of their own.
The hypotheses on the constants are about the start alone: each closure there is at the start is held
once, by a slot of the script or by the globals, and a stack has room for the declarations and
for the arguments of any function.

And, in the same module, with no hypothesis:

- `FibersAcyclic` (`Acyclic`): `Spec => []Acyclic`.
- `FibersReclaimed`: `Spec => [](err \/ NoLeak)`, for scripts that end without an error.

`Acyclic` speaks of sets of fibers instead of paths, so that no induction on paths is needed:
in every set one fiber is kept by none of the set. Most steps bring no fiber to a stack that did not
have it (`Fewer`). Two do. In `HandOver` the resumer gets a value from the stack of the fiber it
resumed; it has kept that fiber all along, as the argument of `resume` (`Standing`), so a set with the
resumer has an element that is not kept, found in the set with the resumed fiber added
(`HandedOrder`). In `FiberNative` the new fiber gets what its maker has, and only the maker gets
hold of it (`BroughtOrder`). `Tidy` says that a count never falls to zero without the object being
condemned. At the end the fibers that are left would be a set in which one is kept by none: its count
is zero, so it was condemned, and there is none; then the globals go, and with them the closures.
After an error the second theorem does not hold for every script: `rak_fiber_init` forgets what it
has retained when an argument should have been a reference (fiber.c:120), and that may be a fiber.
`NoLeak` after an error is what TLC checks on `fibers`, where it is a closure.

`RakRecordProofs`, for scripts that assign no variable to itself (`Disciplined`: MOVE releases what
is in the slot before it retains what replaces it, vm.h:298):

- `RecordTypes` (`TypeOK`), `RecordCountsExact` (`RefCountExact`), `RecordsNeverDangle`
  (`NoDangling`) and `RecordKeysDistinct` (`KeysDistinct`):
  `ForgettingSpec /\ []Disciplined => []...`.

The inductive invariant is `RecordInv`. `Exact` says that each count is the number of slots, keys,
values and constants that hold the object plus what was forgotten; `FrameSound` and `HeapSound`
that a value or a key names an object of its kind and that the fields of a record are `Legal`
(keys are strings, no two with the same text); `ConstsSound` that the constants are strings until
the function goes; `AtZero` that what is condemned has count zero, and `ForgottenSound` that nothing
free was forgotten. Again they need each other: a key compared by its text must still be a string,
which the counts say, since a string that is held is not freed and its address not given to a record;
and that an overwritten key or value may be released rests on the key being the only one of its
name. `KeysDistinct` alone is not inductive: two strings with one text must not become the
keys of two fields, and nothing but the type of the key ensures that it has a text.

The proof follows the handlers. What they share is stated once: an operand that is replaced and
those above it dropped (`CollapseStep`, and `CollapseHeapStep` when a new object takes their place), a
push that may find the stack full (`PushStep`), a failure (`FailStep`), a record written in place or
copied (`WriteCopyStep`). NEW_RECORD has an argument of its own. It moves *n* keys and values
from the stack to a record of at most *n* fields, in the order in which each key was first met, with
the value that was given last. That the new record owns each of them that is not dropped, once, is shown
by three bijections: from the fields to the positions where a key is met first (`Nth`), from these to
where it is met last (`Last`), and from each position but the first of its key to the one before it
(`Prev`), whose value is released. `NewRecordForgets` adds up what is left: the keys that were
met before and one count of each value that replaced another, which is `Forgotten`. Least and
greatest elements of sets of numbers exist because < is well founded (`MinFacts`, `MaxFacts`).

`RakLexerProofs`, for every text of any length:

- `LexerTypes` (`TypeOK`), `TextTiled` (`Tiled`), `PlacesRight` (`PositionsRight`),
  `ReaderStaysInside` (`ReadsInside`), `TokensLongest` (`Longest`) and `FaultsAreFaults`
  (`FaultsRight`): `Spec => []...`.

The inductive invariant is `LexerInv`. `Tiled` speaks of the last two tokens, and is kept
only because the lexer stands right behind the last token whenever it is called again
(`curr = EndOf(Len(toks)) + 1`), which in turn needs that a string token leaves it behind the closing
quote. `Exact` ties line and column to the text: the newlines before the place and the distance from the
last one. `NewlineStep` shows that one `next_char` keeps it, `ReachFacts` that any number of
them does. That what is skipped is silent and what follows is not (`SkipGap`, `GapStart`) goes along
the loop of skip_whitespace_comments: a text of blanks, then a comment to its end of line, and again
(`Gap`). What each match yields is stated once: a token of its place and text, or a
fault (`Right`, `Read`, `Refused`). `Closed` says that no string token ends with a backslash; with it
`UnescapeFacts` shows that the codes of a literal are never those of an overrun.

`Longest` and `FaultsRight` compare what a match does with what a lexeme is, said without scanning, and
`LexerInv` is all they need besides. The character a lexeme begins with decides which of the four
forms it has (`LexemeStart`), so that each match is set against its own form only. A mark: the
first that fits is the longest, since none begins with one tried before it (`MarkFits`). A word: every
keyword ends where its letters do (`WordFits`, `TextLexeme`, `LexemeText`). A string: `EscapedFacts` says that a quote is
escaped exactly when a backslash stands before it, as match_string assumes; this is where the
doubled backslashes of the finding on `string_end` are excluded. A number: `NumberEnds` says that each one
ends among its first digits, those of its fraction or those of its exponent, and `PartsFacts` that
match_number comes to the end of the last of these there is; if it refuses, then whatever number
one cuts out there goes on with a digit, a letter or a fraction (`NumberStuck`, `NumberFits`).

The characters of a text are strings, which the provers do not look into. What they need of
those the lexer looks for is in `AsciiAssumption` (the codes of eight characters) and `TextsAssumption`
(marks and keywords hold no newline, marks begin neither blanks nor words nor numbers nor strings,
keywords are made of letters) and `OrderAssumption` (no mark begins with one tried before it, no two
keywords have the same characters), and holds of the texts in lexer.c. `Reach`, `Skip` and `Unescape` are
recursive functions. That there is one that satisfies its definition is proved by induction over the
numbers, with a set in the place of the operator of the library's theorem (`Induction`, `WalkExists`,
`ClimbExists`).

`RakCompilerProofs`, for every function of any length and nesting, breaks and continues out of
the scopes of variables included (`Spec`, of which `LevelSpec` is a part):

- `ScopesNested` (`ScopesNest`) and `JumpsSealed` (`Sealed`): `Spec => []...`.
- `ExpressionsCompiled`: for every expression `Compiled` adds code behind the code there is, leaves
  that unchanged, patches each of its own jumps, and does not end in two loads.

The inductive invariant is `CompilerInv`. `Sealed` speaks of code that runs, so it needs an account of
the code while it is being made: `Targets` says that each NOP in it is held (`Holes`), by the head of an
if or a while whose block has begun, by an if that awaits its end, or by the breaks of a loop,
and that every other jump lands in the code or right behind it. `Heads` says which kinds of
blocks may follow one another on `open`, so that at the `}` of a body there is nobody left to hold
anything. `Nested` is what makes `discard_scope` right: a symbol was declared at the depth of the last
block that began before it, so the symbols it takes away are those above the `level` of the block
that ends, and the others are as the outer blocks left them (`CloseBlock`). TLC checks `CompilerInv`
on `compiler` and the two runs of the compiler below. `Continues(c, d, X)` says
that the code `d` is `c` with more behind it, in which only the offsets in `X` are to be patched; each
lemma on what a statement emits is of this form, and `Together` and `PatchOne` join them. The
rewriting of the last instruction (`ReplaceLast`) is right only behind the code of an expression, which is not
empty; the rewriting of the last two (`EmitSum`) needs that the left operand does not end in two loads, or the sum
would take an instruction of what came before.

An expression is a tree of any depth: `ExprAssumption` says that every set of expressions
has one without a part in the set. That the recursive function of `Compiled` exists is proved from
this, together with what is true of each of its values (`Recursion`: sets and functions stand where a
theorem of induction would have operators as parameters).

Model-checked only: `RefsAimBelow`, which depends on the instructions emitted for inout
parameters; `NoLeak` of the machine, which needs the absence of cycles of arrays; `Disciplined` and `Thrifty`; the refinement of
`RakValues` (`RakVMValues` uses a recursive operator, `DenotesAt`, and so cannot hold
theorems); of the compiler `Follows` and `OperandsExist`, which need what the code of each
expression does when it runs beside `Eval`, and `TypeOK`, whose part on the machine rests on them; of records `SourceMeaning` and `FailsRightly`, which speak of the statements
and of values nested to any depth, both defined by recursion, and `OnlyForgottenLeak`, which needs
that no script stores a record in itself; of the lexer
`StringsMean`, since what a recursive definition computes for every literal is out of reach; of fibers `StacksLevel`, which is a property of
the statements the compiler emits, and `NoLeak` after an error; liveness (`ResumeReturns`), which is out
of reach of the prover.

## 5. Plan

In the order of importance:

1. **RakVM** (done): the counts, the copy-on-write decision, references, calls; its
   refinement of RakValues; type correctness proved.
2. **The counts of RakVM as theorems** (done): RefCountExact, WellTyped, NoDangling,
   FramesAnchored and Reclaimed. RefsAimBelow is left: it needs the instructions the compiler
   emits for inout parameters as a hypothesis, as `Disciplined` is one.
3. **RakFiber** (done), its types, counts, dangling, chain, acyclicity and, without errors, NoLeak
   proved. The abstract
   specification to come is a coroutine that hands over one value per resume.
4. **RakCompiler** (done for control), its scopes and jumps proved: inout parameters, whose `+=` loads the reference itself,
   and destructuring are to be added.
5. **RakRecord** (done): its types, counts, dangling and KeysDistinct proved.
6. **RakLexer** (done), its types, the tiling of the text, places, the longest tokens,
   the faults and the bounds of literals proved. The line map and the comparison of numbers are left.

## 6. What is not modelled

- Precedence and the other rules of the grammar, nested functions, number literals as values.
- Comparison of values, and arithmetic beyond the kinds of its operands: both compute with floating point.
- The line map of a chunk, which only error messages read.
- Patterns that reach past the end of their array because they skip positions (`let [_, a] = [1]`):
  UNPACK_ELEMENTS tests how many elements it has taken (`i < len`) and never the position
  it takes (`idx`), so it reads memory behind the last element. `UnpackElements` takes any positions
  inside the array.
- Slices of arrays, and remove_at and clear of arrays and records.
- Printing, dumping code and reading files, which are pure I/O; the growth policy of slices; the text of errors.
