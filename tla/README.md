# A verification of dyibicc

dyibicc is a C compiler that runs inside a host process. The host names the `.c` files of a
project once; after every edit it calls `dyibicc_update`, which compiles the file to x64 code in
memory, links it against the rest of the program, and leaves the program's variables alone, so
that a running program can be changed while it runs.

Two kinds of thing can go wrong, and the modules are of two kinds. What outlives a call (code,
data, symbol tables, heaps, reflection) must still be right after the next call, however the one
before it ended: these are state machines over sequences of calls. What a call computes must be
what C, the psABI or the Windows convention says: there the code is modelled step by step and held
against a second module that is read from the standard.

## The system

| part (under `src/src/`) | state | operations | what is hard | correct when |
|---|---|---|---|---|
| update and linker: `main.c`, `link.c` | `UserContext`: per file `codeseg_base_address` and the list of link fixups; `global_data` and `exports`, one table per file for statics and one for the program | `dyibicc_set_environment`, `dyibicc_update`, `link_all_files`, `dyibicc_find_export`, `dyibicc_free` | errors leave by `longjmp` or `return false` between any two steps; memory moves under code that is not recompiled | nothing dangles, nothing leaks, a linked program has the present address of every symbol |
| placement: end of `codegen.in.c`, `alloc.c` | code segments, data objects | `codegen`, `emit_data`, `fill_out_text_exports`, `fill_out_fixups`, `free_link_fixups`, `make_memory_*` | variables are kept while code and literals are replaced | each variable keeps its storage and its value |
| hash table: `hashmap.c` | buckets, capacity, used | put, get, delete, clear, rehash | tombstones, growing, ownership of keys | it is a dictionary |
| reflection: `get_reflect_type` in `parse.c` | `reflect_types`, descriptors in `AL_UserContext` | `_ReflectTypeOf` | recursive types, `ABORT` in mid recursion, a cache that outlives updates | one complete descriptor per type |
| lifetimes: `alloc.c`, `util.c` | four bump heaps, `compiler_state`, the DynASM handle | `alloc_init`, `alloc_reset`, `error*`, the `setjmp` handler | which heaps exist when an error strikes | everything is released once |
| preprocessor: `preprocess.c` | macros, conditional stack, include guards | directives, expansion | recursion through hide sets, stale guards | expansion ends and follows the standard |
| globals of a file: `parse.c` | list of `Obj`, scopes | `function`, `global_variable`, `scan_globals`, `mark_live` | tentative definitions, redeclarations, static inline functions, a list relinked while it is searched | one definition per symbol, all that is referred to is emitted |
| calling convention: `codegen.in.c` | register and stack assignment | `push_args`, `assign_lvar_offsets`, prologue, `va_arg` | caller and callee decide separately | they agree, and with the ABI |
| layout and initialisers: `type.c`, `parse.c` | member offsets, the `Initializer` tree | `struct_decl`, `union_decl`, `initializer`, `write_gvar_data`, `create_lvar_init` | bit-fields, packing, designators that move the current object | psABI, C11 6.7.9 |
| expressions: `parse.c`, `type.c`, `codegen.in.c` | registers, two stacks | `add_type`, `eval`, `gen_expr`, the cast table | conversions, constants folded by another algorithm than the code runs | both give the value of C11 6.5 |
| statements: `parse.c`, `codegen.in.c` | break and continue labels, goto lists, scopes, stack depth | `stmt`, `compound_stmt`, `gen_stmt` | jumps out of expressions and blocks | the text's order of events |
| declarations: `parse.c`, `type.c` | scopes, types | `declspec`, `declarator`, `compute_vla_size`, `is_compatible` | inside-out syntax, parameters, sizes known at run time | the declared type is C's |
| atomic objects: `parse.c`, `codegen.in.c` | the object, a loop per operation | `to_assign`, `ND_CAS`, `ND_LOCKCE`, `ND_EXCH` | threads of the running program | each operation at one moment |
| tokenizer, utilities, driver | per compile | | | |

The parts meet as follows. `dyibicc_update` runs tokenizer, preprocessor, parser and `codegen` for
each selected file and then `link_all_files` for all of them. `codegen` replaces, per file: the
segment, the exports, the fixups, and those data objects that are not kept. The symbol tables are
hash tables with lifetime `AL_Manual`; the reflection map is one with lifetime `AL_UserContext`.
The compiler has no threads; the programs it compiles may. What makes it hard is the sequence of
calls, each of which can stop half-way, over state that is kept.

## Modules

### State over calls

**`LiveUpdate`** is the core. Its variables are the fields of `UserContext` and `FileLinkData`,
the mapped segments and allocated objects, the position inside `dyibicc_update`, and two history
variables (`built`, the text a segment came from; `linked`, set when linking succeeded and cleared
when code is generated or a file is opened for linking). A text is reduced to what the back end
sees of it: functions and variables it defines, generated objects (string literals, static locals)
in the order their names `L..0`, `L..1`, ... are handed out, relocations, and referenced symbols.

| action | code |
|---|---|
| `BeginUpdate`, `SkipFile`, `EndCompile` | the loop of `dyibicc_update` |
| `CompileError` | `error`, `error_tok`, `ABORT` before `codegen` replaces anything, and the `setjmp` handler |
| `CompileFile` | `codegen`: segment, exports, `free_link_fixups`, `emit_data`, `fill_out_fixups`, in one step |
| `CheckstepAbort` | the same, and then `ABORT("dasm_checkstep failed")` |
| `LinkOpen`, `LinkFixup`, `LinkUndefined`, `LinkClose`, `LinkDone` | `link_all_files`, one fixup at a time |
| `ProgramStores` | the running program assigns a variable |
| `dyibicc_free` | `dyibicc_free` |

Addresses are never reused in the model, so a dangling address is one whose segment or object is
gone. The fixups of a file are a set: `link_all_files` writes each to a place of its own, so that
their order only decides which undefined symbol is reported.

**`Lifetimes`** has what a call maps and gives back: the four heaps, the DynASM state and its
handle, `compiler_state`, `linker_state`, the code segments and the context, on Unix and on
Windows. `ParseArguments`, `SetEnvironment`, `Update` and `Free` are what the host calls; the steps
of an update (`FrontEnd`, `Parse`, `Place`, `Encode`, `Link`, ...) each may raise an error, which
jumps to the landing place of the last `dyibicc_update`, whose handler (`Recover`) releases what it
finds. `WildJump` is a jump to a place that is not there, or no longer. It stands beside `LiveUpdate`: that module says what the tables hold, this one
whether the memory they are in exists.

**`Dictionary`** is the abstract map, **`HashMap`** the table of `hashmap.c`. The caller asks (`Ask`)
and the table answers; the call with its arguments (`call`) and what `hashmap_get` answered last
(`result`) are variables of both modules, so that `Implements` holds every answer against the call that
asked for it: a put that is lost, that changes another key, or that takes a tombstone while its key
lies further down does not implement the dictionary. `hashmap_put` begins, rehashes in steps
(`Double`, `NewTable`, `MoveEntry`, `MoveDone`) and inserts. Probing a chain is an operator: the first
of the chain's buckets that has the key or was never used. The model has the
lifetime `AL_Manual`, where the table owns copies of its keys. `hashmap_delete` on such a table is
supported by the code; the compiler itself deletes only macros, whose table does not own its keys.

**`Reflect`** runs the recursion of `get_reflect_type` with an explicit stack: `asked` is a call just
made, `stack` its callers with the parts they have so far. A type is a kind, parts, and a mangled
name; the name of a struct is its tag, so a struct before and after an edit are two types of one
name. `handed` has what code holds. `OneDescriptor` speaks of types, not of names: once code holds a
descriptor of a type, later calls and parts of that type get the same one. The outer of two nested
calls for one type does enter its descriptor over the inner one's (a finding, `PartsShared`), but
only before code holds either.

**`Atomics`** runs the threads of a compiled program on one `_Atomic` object, one access to memory a
step: the load, compute and compare-and-swap loop that `to_assign` makes of `op=`, `++` and the
builtins, the plain read and write that a member of an atomic struct gets, `xchg`, and plain loads
and stores. **`AtomicObject`** is the promise: each operation happens at one moment, with the value
C gives it. Operations for which the code promises less are named there (see Departures).

### One compilation

Each of these has two modules: the code, a function or an instruction per step, and the reference.

| code | reference | what the machine is |
|---|---|---|
| `Preprocess` | `StandardPP` | `preprocess2` over a token list, with a stack of its calls to itself, macros, conditional stack, guards and caches; the reference works on lines, with Prosser's algorithm |
| `Globals` | `StandardGlobals` | `parse` makes an object per declaration (`Declare`), `mark_live` follows the names in bodies (`Mark`), `scan_globals` relinks the list (`Keep`, `Drop`), then what is left is emitted |
| `CallConv` | `PsAbi` | `push_args`, an argument a step, in its loop and two passes, the pop loop, the call, `assign_lvar_offsets`, the prologue, `va_arg`; memory is words of eight bytes, each known by its place in its argument. The reference goes through the arguments as well and gives each a place (`Assign`) |
| `Layout` | `StandardLayout` | `struct_union_decl`, `struct_decl` a member at a time, `union_decl`, `array_of`, for one declaration after another; then an object and a store to a scalar of it; memory is the set of its one-bits |
| `Initializers` | `StandardData` | with the steps of `Layout`, the tree of an initialiser filled from tokens, then static data or assignments. The reference reads a list of items with a current object |
| `Expressions`, `FloatingPoint` | `StandardExpressions` | `add_type`, then `eval` or `gen_expr`, whose code runs on a machine with rax, rdi, xmm registers, a stack and the x87 stack |
| `Control` | `StandardControl` | `stmt` builds the tree, `gen_stmt` the code, the code runs; the reference walks the text itself, without labels, code or stack |
| `Declarators` | `StandardDeclarators` | `declspec`, `declarator` and the scope, on tokens; the reference is the meaning, from the name outwards, and `Spelling` writes it down for the parser |

In `Control` the two run side by side: `DoesAsC` is a refinement whose mapping takes the pending
event of the reference from the position of the code. What the outside answers is a variable of both
(`answer`), which the generated code never reads: it has rax, whose upper half is arbitrary after an
int, and its own compares and jumps. The reference goes on as the text says after that very answer,
so that a jump on the opposite condition, or a case compared in the wrong width or sign, is not a
refinement.

### Departures

Where the code does something other than its reference, the reference names the kind of program
(`RepeatedTentative`, `ExternInitialised`, `LateExternal`, `LateInitialiser`, `ForgottenRoot` in
`StandardGlobals`; `EmptyStruct`, `PhantomEightbytes`, `LastRegister`, `SecondHalf`,
`LongDouble`, `VaStart`, `VaTypes`, `VaAligned` in `PsAbi`; `again`, `LosesPlace`, `odd`, `unnamed`, `GapInStatic` in
`StandardData`; `PackedBits`, `UnnamedCount`, `PackedUnion`, `MasksCut` in `StandardLayout`; `CaseIsInt`, `WideRange`, `EnumEscapes`, `LeavesOperand` in `StandardControl`;
`FetchReturnsNew`, `NotExtended`, `NotConverted`, `MemberApart`, `NeverEnds` in `AtomicObject`;
`NamelessFunction`, `QualifierRefused`, `VariableParameter`, `VoidByName`, `FunctionInList`,
`StaticUnsized`, `SizeRetaken`, `ComparedApart`, `Unchecked` in `StandardDeclarators`). Each is as
narrow as it could be made, each is a finding in `PROJECT.json` with the line, and a property holds
for every other program. In `StandardExpressions` they are given as values: for `EnumIsWide`,
`Unpromoted`, `BoolCounts`, `CountsAbsorbed`, `FieldUnsigned`, `FieldOverflows`, `NaNIsFalse`,
`LongDoubleIsFalse`, `LongDoubleUnordered`, `LongDoubleReversed`, `UnsignedToFloat`,
`UnsignedFromFloat`, `LongDoubleStored`, `LongDoubleDropped`, `DeepLongDouble` and, in constants,
`WrapsFolded`, `LessFolded`, `BoolFolded`, `FoldedInDouble`, `UnsignedFolded`, `ConditionTruncated`,
`ComparedTruncated`, the reference says what the code computes instead of C's value.

`VaAligned` is the call where `__va_arg_mem` aligns and `push_args` has not: an argument
aligned to 16 on the stack behind an odd number of words. `NotExtended` is an exchange, or a
`_InterlockedCompareExchange`, of a type narrower than int: its answer must still be right in the
bits of the type, whatever is above them.

Some properties are stated in the modules and are false of the code, so that no run has them:
`NeverReinitialised`, `StorageIsOwn`, `DataPointersLive` (`LiveUpdate`),
`PartsShared`, `HandedComplete`, `HandedCurrent` (`Reflect`), `AlwaysComplete` (`StandardGlobals`),
`AsSpecified` (`PsAbi`). The findings say how each comes to be violated.

## Runs

All must pass. Deadlock is checked except in `live_update` (the last update, and `dyibicc_free`,
end it), `lifetimes` (a mapping that fails ends the process) and `preprocess` (it ends).

| run | bounds | shows |
|---|---|---|
| `live_update` | 2 files, up to 3 versions and an uncompilable text each, 3 updates | memory is owned once (`SegsOwned`, `ObjsOwned`), the linker writes into live memory (`FixupsLive`), a program that may run is up to date (`LinkedIsCurrent`), exports and call targets are mapped (`ExportsLive`, `TargetsLive`), stores survive all but a fixup of their own variable (`StoresSurvive`) |
| `hash_map` | 2 keys that collide, 2 values, a table of 4 that grows to 8 | each call does what was asked, and answers what the dictionary has (`Implements`); probes end and rehash counts right (`ProbesEnd`), keys freed once (`KeysOwned`), puts return (`PutReturns`) |
| `reflect` | 10 types: a recursive struct in two versions, pointers to it, a function, a struct with an unsupported member | parts are of the right type or explained (`PartsNamed`), a descriptor that code holds stays the only one of its type (`OneDescriptor`), the recursion ends (`ReflectReturns`) |
| `lifetimes` | 3 files, both platforms, an error at any step | on Unix nothing is released twice (`UnixReleasesOnce`), no heap or DynASM state is left over between calls (`NothingLeft`), compiler and linker see no old state (`OwnState`), calls return (`CallsReturn`) |
| `preprocess` | a group with any three lines in it; macro calls with arguments, and texts, of at most 3 tokens over seven sets of definitions, in one of which pasting makes a macro's name; pairs and triples of lines with 8 headers | text, error and macros are the standard's (`AgreesWithStandard`), every program ends (`PreprocessEnds`) |
| `globals` | all pairs of forms of declaration, triples of those that matter to liveness, up to 4 declarations of two variables, chains of 5 | exported are the external definitions (`ExportsAsC`), a variable is stored once (`OneStorage`), what is used is there (`ReferencesReach`), what is emitted is used (`NothingIdle`), the parse ends (`ParseEnds`) |
| `calls` | 3 integer and 4 floating registers, 2 positions on Windows; up to 3 parameters of 11 types, or 5 scalars; up to 2 named and 4 variadic arguments, an empty struct among them | each parameter gets its argument (`ArgumentsArrive`), where the convention has it (`PlacedAsABI`), as does `va_arg` (`VarargsArrive`); the stack is aligned and kept (`StackKept`) |
| `data` | structs of any three of 14 kinds of member, packed or not; structs and arrays in structs, unions, attributes; 11 types with initialisers of up to 3 items, designators of up to 2 parts | values where C wants them (`InitialisesAsC`), members where the psABI does (`LaidOutAsABI`), a store changes its scalar only (`StoreKeepsOthers`) |
| `expressions` | 10 integer and 3 floating types, extreme values, 1 to 4 operators; a byte of 2 bits, so an int of 8 and a long of 16; float, double and long double of 6, 12 and 16 bits; an x87 stack of 3 | code (`ComputesAsC`) and constant folding (`FoldsAsC`) give C's value |
| `control` | statements two levels deep with a label before or behind; conditions of 4 types; switches with ranges at the edges of types; cases inside loops; every pair of declarations in nested scopes; statement expressions as operands; `goto *` | the events that C has after each answer (`DoesAsC`), waiting operands undisturbed (`TemporariesKept`) |
| `atomics` | 2 threads with up to 2 and 1 operations, or 3 with one each; char, int, long, double | operations are atomic (`ActsAtomically`) and end (`OperationsEnd`) |
| `declarators` | specifiers of up to 3 words, shapes of up to 4 derivations, parameters with up to 2, lists of two, up to 3 statements while `n` goes from 2 to 3, pairs of about 30 types | the declared types (`DeclaresAsC`) and the answers of `sizeof` and `__builtin_types_compatible_p` (`AnswersAsC`) are C's |

Why the bounds are enough:

- `live_update`: three updates are the fewest that reach every case: one to build, one that fails in
  any of the ways, one that must put it right. Two files are one that is recompiled and one that is
  not. The texts have statics, shared globals, a string literal, a pointer to it, a static local
  that takes a literal's place, a host function and an undefined symbol. They keep their global
  functions (`StableSymbols`), without which `ExportsLive` and `TargetsLive` are false.
  `MaxUpdates` is the one counter bound.
- `hash_map` has no bound on calls; four is the smallest size the watermarks allow, and with two
  keys every bucket pattern of both sizes, tombstones included, that calls can produce is reached.
  `reflect` has no bound but its types.
- `lifetimes`: the first file, one in the middle and the last; the number of updates is unbounded.
- `preprocess`: `MaxReads` is the heap: a file that includes itself ends in an error. No program
  ends with `a.h` after another header: a stale `include_next_idx` makes the code fail there (a
  finding). White space inside a line is left out, so that a macro is function-like exactly if a
  parenthesis follows its name. `##` is in function-like macros only: in an object-like one the code
  passes it on (a finding).
- `globals`: errors and departures come from two declarations of a name or from one and a use;
  liveness needs a user, a used function and a later declaration; the relinked list needs a
  neighbour on either side.
- `calls`: what is proved below holds for any numbers of registers; with 3, 4 and 2 each type meets
  the last register, and each pair of types the place behind it, as they would with 6, 8 and 4. The offset of the stack at the call (`temps`) has
  both parities; a large struct is passed by reference on Windows and in memory on SysV.
- `data`: three members are one, one that must not be moved by it, and one behind both; bit-fields
  have units of 8, 16, 32 and 64 bits. `IntMax` is 1000, so that a struct of 125 bytes overflows an
  int, as 256 MiB do in the code. The program stores to scalars of at most 8 bytes that are not
  `long double` and, of a union, to the first member. What is proved below has no other bound.
- `expressions`: a format of floats keeps the ratios of 24, 53 and 64 bits to 32 and 64. Programs
  for which C leaves the behaviour undefined, and results finer than a sixteenth, are left out.
- `control`: an int has three bits, a long six. A variable-length array in a loop is never released
  by the code, `StackLimit` ends such a run after four.
- `atomics`: char, int and long have 4, 8 and 16 values, enough for each to be truncated and
  extended in the others. What differs between two threads and many is proved below.

## Fairness

`dyibicc_update`, `hashmap_put`, `get_reflect_type`, `preprocess` and `parse` are synchronous calls
on one thread: weak fairness of the steps inside the call says that it runs on. Nothing is assumed of
the host: it need never call again. `OperationsEnd` assumes weak fairness of each thread, which is
what an operating system gives them; that a compare-and-swap loop ends then follows, as every
attempt that fails means that another thread has stored, and operations are finite in number.
The other specifications are checked for safety only and state no fairness: a compiled loop whose
condition stays true never ends, and should not.

## Proofs

`tlapm` proves, with no assumption but the named ones on the constants (`ProjectAssumption`,
`NumFilesAssumption`, `SizeAssumption` and so on, which say what kind of value each is):

| module | theorems |
|---|---|
| `LiveUpdateProofs` | `TypeCorrect`, `SegsOwnedTheorem`, `ObjsOwnedTheorem`, `FixupsLiveTheorem`, `LinkedIsCurrentTheorem`, `StoresSurviveTheorem`; under `StableSymbols`, `ExportsLiveTheorem` and `TargetsLiveTheorem`: any number of files, any texts |
| `LifetimesProofs` | `TypeCorrect`, `UnixReleases`, `NothingIsLeft`, `StateIsOwn`: any number of files and calls |
| `HashMapProofs` | `TypeCorrect`, `ProbesEndTheorem`, `KeysOwnedTheorem`, and `ImplementsTheorem`, the refinement: any keys, hash function, size and watermarks |
| `ReflectProofs` | `PartsNamedTheorem`, `OneDescriptorTheorem`: any types |
| `AtomicsProofs` | `Invariance`, and `ActsAtomicallyTheorem`, the refinement: any number of threads, any programs |
| `GlobalsProofs` | `TypeCorrect`, `Invariance`, `Exports`, `StoredOnce`, `AllReach`, `NoneIdle`: any names, any declarations |
| `CallConvProofs` | `TypeCorrect`, `Invariance`, `Arrive`, `Placed`, `StackIsKept`, `VarargsAreGot`: any types, any numbers of parameters, arguments and registers (of positions on Windows: any even number) |
| `LayoutProofs` | `LayoutInvariant`, `LaidOutTheorem`, `StoreTheorem`: any declarations, alignments and values |

None of these properties is inductive. The arguments:

**Live update.** `IInv` adds to the type invariant `MemoryInv` (segments, objects and fixups are
owned as stated, a file's code fixups are exactly its references, its data fixups point at objects
made with its segment, and what the link loop has yet to do is part of the current file's fixups),
`LinkProgress` (while linking, the files before `cur` are current, and file `cur` is current except
for the fixups in `todo`) and `LinkedStands` (a linked program stays current until code is
generated). `LinkProgress` is what makes "all files are relinked" provable: linking file `f` writes
only to `f`'s segment and to objects that carry the generation of `f`'s segment, so it leaves the
files before it alone. For `ExportsLive` and `TargetsLive`, `ExportsOwned` adds that exports name the segment of a file that still
defines them, which is where `StableSymbols` is needed. `StoresSurvive` needs no history: a named
variable is in the symbol table, and `emit_data` passes over what it finds there, so that the variable
is neither moved nor made again, and only `LinkFixup` writes to it. That write is the exception the
property names, and no other: it must be the resolution of a fixup of this very variable by the file
under way. It does happen, also when another file is compiled (a finding, `NeverReinitialised`).

**Lifetimes.** `NothingLeft` is about the four heaps and the DynASM state. It says nothing of code
segments: `dyibicc_free` forgets them (a finding), and while the context lives `SegsOwned` of
`LiveUpdate` accounts for them. At each place the compiler can stand, `HeapsKnown` says which heaps are mapped,
`ContextKnown` what of the context there is, and `HandleKnown` when `compiler_state` has a handle of
the DynASM state. `OnUnix` is the part that fails on Windows: an error cannot come between the
release of a thing and the moment that the handler can see that it is released.

**Hash table.** A table is sound when every entry is found where it is: no never-used bucket comes
before it on its chain, and a chain has one. Rehashing has copied, before bucket `i`, exactly the
entries before `i`, and the new table has room for the rest, so that copying never rehashes. The
mapping to `Dictionary` is the entries, as a function, with the call under way and the last answer:
the steps of a rehash stutter, and the step that returns must be the one that was asked for. A key
is in at most one bucket, so that what `hashmap_put` overwrites or `hashmap_delete` buries is all
there was of it.

**Reflection.** `Nested`: each call on the stack waits for the one above it, and no two fill in the
same descriptor. `DescsOK`: a descriptor lacks a part only if its call has still to supply it, or
an `ABORT` took that call away. `MapOK`: an entry has its name, that of a struct under way stays, and
that of a type which is still to be entered has not been handed out, so that entering it replaces
nothing that code holds. `OneDescriptorTheorem` is about steps: by `MapOK` a type in `handed` is
never one still to be entered, so that each call for it finds the entry, and what a call returns, and
its caller fills in, is that entry (`ReturnHanded`, `HandedStep`).

**Atomics.** `Between`: a thread in a loop has in hand the value it computed from the one it read. A
compare-and-swap that succeeds finds that very value in the object: whatever happened in between,
it is as if nothing had, and the operation happens at that step. All others stutter. `xchg` and
`lock cmpxchg` replace the low bits of rax only (`Replaced`), and the lemmas on them say that these are
the bits of the value found, which is all that `NotExtended` leaves of the answer.

**Globals.** `ObjectsMade` and `DeclarationsMade` tie each object to the declarations of its name
(the function's one object has the specifiers of its first declaration, and a body if one has),
`FileScope` says what the scope finds, `UsesOK`, `RefsOK` and `RootsOK` what is remembered of uses
and by which function, `LiveOK` that the live functions are closed under references once
`mark_live` has gone through its list, and `ListOK` how the list is linked. The last is the delicate
one, since `scan_globals` relinks the list that it searches, from an old head: a set of the objects
kept so far is its witness, and of these the list from the new head has all, while the list from
any object not yet scanned is as it was. `OneStorage` then needs that a tentative definition
is dropped only if a definition, or a later tentative one, of its name is in what is searched, which
`RepeatedTentative` is the exception to.

**Calls.** Five loops decide where an argument goes: two of the caller (`push_args` and the pops), one
or two of the callee (`assign_lvar_offsets`, the prologue) and the psABI's. They run one after the
other, each with its own counters, and they do not compute the same: `push_args` counts past the
last register, the pops do not; `push_args` counts a second half for a small struct, the others do
not; the callee looks at the wrong half. `Inv` says that there is a trace `H`, from arguments to
counters (`Plan`), that every loop follows: where the state is in one of them, its counters are
those of `H`. That the loops decide the same of argument `i` is then a fact about one type and
the counters before it (`CallerDecides`, `CalleeDecides`, `CalleeHasRoom`, `AbiDecides`); it holds
because the counters differ by no more than the small structs, or the structs of two kinds of half,
up to `i` (`SysVBefore`, `FrameBefore`), which is why `PhantomEightbytes` and `SecondHalf` count
those. The trace grows in `push_args`, for arguments not yet classified it says nothing. The rest
is where things are in its terms: word `w` of an argument on the stack is `Mem(H, i) + w` words from
the top at the call (`OnStack`), those for registers lie above and are popped in the order of
`Reg(H, i)` (`ForRegisters`), what has been popped is where `Stored` looks for it (`InRegisters`), and
the copies that Windows passes by reference are below everything (`Bottom`). `VaPlan` relates the
registers that `va_area` counts, one for a parameter, to those that parameters take.
`TypeCorrect` leaves out calls with `EmptyStruct` or `PhantomEightbytes`, which pop what is not theirs.

**Layout.** `struct_decl` keeps one number, `bits`, and the psABI's places are said in terms of all
members before: the end of the last that has bits, and the largest unit of the zero-width
bit-fields behind it. `StructOpen` says that `bits` is that (`FirstFor`), which is not so once a
packed struct has a bit-field; that every member so far is at its first place, and would be at the
same one if it were the last (`AtFirstSame`); and that the scalars so far are in the bits counted,
apart from each other, each bit-field in its unit (`PlacesOK`). `UnionOpen` is the same for a union,
with `size` for `bits`. That a member goes to the first allowed place is `NextPlace`: `align_to`
gives the least multiple, and a bit-field that would lie across two units is forbidden at every bit up to the
next unit. `TypeOK` is what remains of it for a type that is complete, and the scalars of an inner type
are moved with it (`ShiftedOK`). `StoreTheorem` then needs only that the places are apart and
that the masks do not reach beyond the field. `Inv`, the conjunction, was checked as an invariant of the run `data`
before it was proved. The theorems are about `LayoutSpec`, where an object has no initialiser.

Only model-checked, and why:

- everything about liveness (`PutReturns`, `ReflectReturns`, `PreprocessEnds`, `CallsReturn`,
  `ParseEnds`, `OperationsEnd`): the prover has no rule for fairness;
- the preprocessor (`AgreesWithStandard`), initialisers (`InitialisesAsC`), expressions
  (`ComputesAsC`, `FoldsAsC`), control (`DoesAsC`, `TemporariesKept`) and declarators (`DeclaresAsC`,
  `AnswersAsC`): both machine and reference are
  recursive over texts and trees, and facts about recursive definitions need induction over data,
  which the installed provers cannot do. (Over the numbers an argument by the least
  counterexample can be made without it, as lemma `Least` of `LayoutProofs` does.) Nor is there anything
  in them that grows: the constants of `Expressions` are the widths of a machine, not a number of actors.

## Not modelled

Pointers, addresses and calls inside expressions, compound literals, `_Generic`, inline assembly;
enumerations, tags and attributes in declarations; nested function definitions; the return of
structs, the offsets of locals; initialisers that are objects of struct type, wide strings; stores of a
whole struct or a `long double`; the
tokenizer and the Unicode tables; `__LINE__`, the value of `#if` expressions beyond `!` and
`defined`, `$map` (it is `$vec` with two names); the mapping failures that `LiveUpdate` leaves to
`Lifetimes`, addends of fixups, sizes beyond what `StorageIsOwn` compares, the contents and the
exhaustion of a heap, overflow of `int` in a table of 21 million keys; Windows function tables and
debug information. Vendored and data files (`dynasm/`, `dyn_basic_pdb.h`, `_map.h`, `_vec.h`, close
to half of the lines under `src/`) and the driver, build and test scripts are not.

## Plan

1. The types of integer literals (`convert_pp_int`) as a pure operator in `Expressions`; struct
   returns in `CallConv`; enumerators and tags in `Declarators`.
2. Windows function tables in `Lifetimes`, where one table for all files is a finding already.
