------------------------------- MODULE Lifetimes -------------------------------
(***************************************************************************)
(* What a call of the API maps, allocates and gives back, and the way out  *)
(* when an error strikes: every error is a longjmp to the landing place    *)
(* that the last dyibicc_update set, wherever the compiler stands.  The    *)
(* handler there cannot know how far the compiler came.  It releases every *)
(* scratch heap that has a base, and the DynASM state if compiler_state    *)
(* has a handle of one.                                                    *)
(*                                                                         *)
(* A heap, a code segment and the DynASM state are mapped or not; what     *)
(* they hold is in other modules.  The host makes one context at a time    *)
(* and releases it before it makes another, as entry.c and fuzz_entry.c    *)
(* do.                                                                     *)
(***************************************************************************)
EXTENDS Integers, FiniteSets

CONSTANT NumFiles  \* the files of the project are 1 .. NumFiles

ASSUME NumFilesAssumption == NumFiles \in Nat \ {0}

Files == 1 .. NumFiles
Heaps == {"compile", "temp", "link", "user"}
Scratch == Heaps \ {"user"}

VARIABLES
  platform,  \* it is built for: on Windows a system call that fails is an error()
  pc,        \* what the call under way does next; "idle" between calls
  mapped,    \* the heaps that have a base
  codeseg,   \* codeseg_base_address: NULL, a mapping, or one that was released
  dynasm,    \* C(dynasm): NULL, a DynASM state, or one that was released
  compiler,  \* what compiler_state points to: nothing, the heap as it is now,
             \* or one that was released
  linker,    \* the same of linker_state
  context,   \* user_context: NULL, the temporary one on the stack, or the host's
  landing,   \* toplevel_update_jmpbuf: never set, armed, or of a call that is over
  todo,      \* the files this update has still to compile
  file,      \* the file it compiles
  compiled,  \* those it has compiled: compiled_any if there is one
  lost,      \* history: mappings and states nothing points to any more
  twice      \* history: what was released a second time

Windows == platform = "windows"

world == <<mapped, dynasm, compiler, linker, lost, twice>>
vars == <<platform, pc, mapped, codeseg, dynasm, compiler, linker, context, landing,
          todo, file, compiled, lost, twice>>

Places == {"idle", "environment", "files", "front", "parse", "place", "encode",
           "compiled", "link", "raised", "crashed"}
Pointer == {"null", "live", "released"}

TypeOK ==
  /\ platform \in {"unix", "windows"}
  /\ pc \in Places
  /\ mapped \in SUBSET Heaps
  /\ codeseg \in [Files -> Pointer]
  /\ dynasm \in Pointer /\ compiler \in Pointer /\ linker \in Pointer
  /\ context \in {"null", "temporary", "host"}
  /\ landing \in {"never", "armed", "over"}
  /\ todo \in SUBSET Files
  /\ file \in 0 .. NumFiles
  /\ compiled \in SUBSET Files
  /\ lost \in SUBSET (Heaps \union {"dynasm"})
  /\ twice \in SUBSET {"dynasm", "codeseg"}

-------------------------------------------------------------------------------
\* Mutant: the state a heap goes with is not cleared.
KeepsState(h, base) ==
  /\ mapped' = (mapped \ {h}) \union base
  /\ lost' = lost \union (mapped \intersect {h})
  /\ UNCHANGED <<compiler, dynasm, linker, twice>>

(***************************************************************************)
(* alloc.c.  alloc_init takes a new mapping whatever the heap had, and     *)
(* clears the state whose pointers go into it.  On Linux a mapping that    *)
(* fails is a heap without a base; the first allocation from it writes to  *)
(* address 0.                                                              *)
(***************************************************************************)
alloc_init(h, base) ==
  /\ mapped' = (mapped \ {h}) \union base
  /\ lost' = lost \union (mapped \intersect {h})
                  \union {x \in {"dynasm"} : h = "compile" /\ dynasm = "live"}
  /\ compiler' = IF h = "compile" THEN "null" ELSE compiler
  /\ dynasm' = IF h = "compile" THEN "null" ELSE dynasm
  /\ linker' = IF h = "link" THEN "null" ELSE linker
  /\ twice' = twice

\* On Windows VirtualAlloc raises the error and the heap stays as it was.
alloc_init_fails == Windows /\ UNCHANGED world

\* What pointed into a heap that is reset points nowhere.
Dangling(pointer, releasing) ==
  IF pointer = "live" /\ releasing THEN "released" ELSE pointer

alloc_reset(hs) ==
  /\ mapped' = mapped \ hs
  /\ compiler' = Dangling(compiler, "compile" \in hs)
  /\ linker' = Dangling(linker, "link" \in hs)

(***************************************************************************)
(* codegen_free releases what the handle in compiler_state refers to, if   *)
(* it is not NULL, and leaves the handle, which may be cleared later.      *)
(***************************************************************************)
codegen_free(handle) ==
  /\ dynasm' = handle
  /\ twice' = twice \union {x \in {"dynasm"} : dynasm = "released"}

-------------------------------------------------------------------------------
Init ==
  /\ platform \in {"unix", "windows"}
  /\ pc = "idle"
  /\ mapped = {}
  /\ codeseg = [f \in Files |-> "null"]
  /\ dynasm = "null" /\ compiler = "null" /\ linker = "null"
  /\ context = "null" /\ landing = "never"
  /\ todo = {} /\ file = 0 /\ compiled = {}
  /\ lost = {} /\ twice = {}

(***************************************************************************)
(* dyibicc_set_environment, up to its first allocation: a context on the   *)
(* stack stands in while AL_Temp has what the real one is built from.  The *)
(* command line driver keeps its arguments in AL_Link meanwhile.           *)
(***************************************************************************)
ParseArguments ==
  /\ pc = "idle" /\ context = "null" /\ "link" \notin mapped
  /\ alloc_init("link", {"link"})
  /\ UNCHANGED <<platform, pc, codeseg, context, landing, todo, file, compiled>>

SetEnvironment ==
  /\ pc = "idle" /\ context = "null"
  /\ context' = "temporary"
  /\ \/ alloc_init("temp", {"temp"}) /\ pc' = "environment"
     \/ alloc_init("temp", {}) /\ ~Windows /\ pc' = "crashed"
     \/ alloc_init_fails /\ pc' = "raised"
  /\ UNCHANGED <<platform, codeseg, landing, todo, file, compiled>>

\* An environment variable is missing.
EnvironmentFails ==
  /\ pc = "environment" /\ Windows
  /\ pc' = "raised"
  /\ UNCHANGED <<platform, codeseg, context, landing, todo, file, compiled, world>>

(***************************************************************************)
(* The rest of dyibicc_set_environment, and the driver's reset of AL_Link. *)
(***************************************************************************)
FinishEnvironment ==
  /\ pc = "environment"
  /\ context' = "host"
  /\ codeseg' = [f \in Files |-> "null"]
  /\ dynasm' = dynasm /\ compiler' = compiler
  /\ linker' = Dangling(linker, TRUE)
  /\ lost' = lost \union (mapped \intersect {"user"})
  /\ twice' = twice
  /\ \/ mapped' = {"user"} /\ pc' = "idle"
     \/ mapped' = {} /\ ~Windows /\ pc' = "idle"
     \/ mapped' = mapped \ {"temp"} /\ Windows /\ pc' = "raised"
  /\ UNCHANGED <<platform, landing, todo, file, compiled>>

\* dyibicc_free.  The code segments are not given back.
Free ==
  /\ pc = "idle" /\ context = "host"
  /\ alloc_reset({"user"})
  /\ context' = "null"
  /\ codeseg' = [f \in Files |-> "null"]
  /\ UNCHANGED <<platform, pc, dynasm, landing, todo, file, compiled, lost, twice>>

-------------------------------------------------------------------------------
(***************************************************************************)
(* dyibicc_update, of one file or of all; none if the name is of no file.  *)
(***************************************************************************)
Update ==
  /\ pc = "idle" /\ context = "host"
  /\ todo' \in {Files, {}} \union {{f} : f \in Files}
  /\ landing' = "armed" /\ compiled' = {} /\ pc' = "files"
  /\ UNCHANGED <<platform, codeseg, context, file, world>>

NextFile ==
  /\ pc = "files" /\ todo # {}
  /\ file' \in {f \in todo : \A g \in todo : f <= g}
  /\ todo' = todo \ {file'}
  /\ \/ alloc_init("compile", {"compile"}) /\ pc' = "front"
     \/ alloc_init("compile", {}) /\ ~Windows /\ pc' = "crashed"
     \/ alloc_init_fails /\ pc' = "raised"
  /\ UNCHANGED <<platform, codeseg, context, landing, compiled>>

\* tokenize_file, preprocess and add_container_instantiations; codegen_init.
FrontEnd ==
  /\ pc = "front"
  /\ compiler' = "live"
  /\ \/ pc' = "parse" /\ dynasm' = "live"
     \/ pc' = "raised" /\ dynasm' = dynasm
  /\ UNCHANGED <<platform, mapped, codeseg, linker, context, landing, todo, file, compiled, lost, twice>>

(***************************************************************************)
(* parse, and codegen up to dasm_link.  What _ReflectTypeOf asks for is    *)
(* allocated in AL_UserContext.                                            *)
(***************************************************************************)
Parse ==
  /\ pc = "parse"
  /\ \/ pc' \in {"place", "raised"}
     \/ pc' = "crashed" /\ "user" \notin mapped
  /\ UNCHANGED <<platform, codeseg, context, landing, todo, file, compiled, world>>

(***************************************************************************)
(* The segment of the file is replaced.  VirtualFree of an address that    *)
(* is not a mapping fails, and that is an error.                           *)
(***************************************************************************)
Place ==
  /\ pc = "place"
  /\ twice' = twice \union {x \in {"codeseg"} : codeseg[file] = "released"}
  /\ \/ /\ Windows => codeseg[file] # "released"
        /\ codeseg' = [codeseg EXCEPT ![file] = "live"]
        /\ pc' = "encode"
     \/ /\ Windows
        /\ codeseg' = [codeseg EXCEPT ![file] = Dangling(@, TRUE)]
        /\ pc' = "raised"
     \/ /\ ~Windows  \* mmap fails: the code is written to address 0
        /\ codeseg' = [codeseg EXCEPT ![file] = "null"]
        /\ pc' = "crashed"
  /\ UNCHANGED <<platform, mapped, dynasm, compiler, linker, context, landing, todo, file, compiled, lost>>

\* dasm_encode and dasm_checkstep, which may ABORT; codegen_free.
Encode ==
  /\ pc = "encode"
  /\ \/ codegen_free(Dangling(dynasm, TRUE)) /\ pc' = "compiled" /\ compiled' = compiled \union {file}
     \/ UNCHANGED <<dynasm, twice, compiled>> /\ pc' = "raised"
  /\ UNCHANGED <<platform, mapped, codeseg, compiler, linker, context, landing, todo, file, lost>>

FinishFile ==
  /\ pc = "compiled"
  /\ alloc_reset({"compile"})
  /\ pc' = "files"
  /\ UNCHANGED <<platform, codeseg, dynasm, context, landing, todo, file, compiled, lost, twice>>

\* On Linux nothing is allocated in AL_Link: that it is missing is not noticed.
StartLink ==
  /\ pc = "files" /\ todo = {}
  /\ \/ compiled = {} /\ pc' = "idle" /\ landing' = "over" /\ UNCHANGED world
     \/ /\ compiled # {} /\ landing' = landing
        /\ \/ alloc_init("link", {"link"}) /\ pc' = "link"
           \/ alloc_init("link", {}) /\ ~Windows /\ pc' = "link"
           \/ alloc_init_fails /\ pc' = "raised"
  /\ UNCHANGED <<platform, codeseg, context, todo, file, compiled>>

(***************************************************************************)
(* link_all_files, whose answer is passed on.  On Windows the protection   *)
(* of what is not a mapping cannot be changed, and the table of runtime    *)
(* functions is in AL_Link.                                                *)
(***************************************************************************)
Link ==
  /\ pc = "link"
  /\ \/ /\ Windows => \A f \in Files : codeseg[f] = "live"
        /\ mapped' = mapped \ {"link"}
        /\ linker' = IF Windows THEN "released" ELSE Dangling(linker, TRUE)
        /\ pc' = "idle" /\ landing' = "over"
     \/ /\ Windows
        /\ pc' = "raised" /\ linker' = "live"
        /\ UNCHANGED <<mapped, landing>>
  /\ UNCHANGED <<platform, codeseg, dynasm, compiler, context, todo, file, compiled, lost, twice>>

\* Mutant: the handler clears compiler_state with the handle in it.
RecoverForgetsDynasm ==
  /\ pc = "raised" /\ landing = "armed"
  /\ dynasm' = "null" /\ compiler' = "null" /\ linker' = "null"
  /\ lost' = lost \union {x \in {"dynasm"} : dynasm = "live"}
  /\ mapped' = mapped \ Scratch
  /\ pc' = "idle" /\ landing' = "over"
  /\ UNCHANGED <<platform, codeseg, context, todo, file, compiled, twice>>

\* Mutant: the handler releases what it has and goes on with the next file.
RecoverGoesOn ==
  /\ pc = "raised" /\ landing = "armed"
  /\ codegen_free("null")
  /\ compiler' = "null" /\ linker' = "null"
  /\ mapped' = mapped \ Scratch
  /\ pc' = "files" /\ todo' = todo \union {file}
  /\ UNCHANGED <<platform, codeseg, context, landing, file, compiled, lost>>

(***************************************************************************)
(* The handler: setjmp returns a second time.  If it is not armed the jump *)
(* is to nowhere, or to a call that has returned.                          *)
(***************************************************************************)
Recover ==
  /\ pc = "raised" /\ landing = "armed"
  /\ codegen_free("null")  \* and compiler_state is cleared
  /\ compiler' = "null" /\ linker' = "null"
  /\ mapped' = mapped \ Scratch
  /\ pc' = "idle" /\ landing' = "over"
  /\ UNCHANGED <<platform, codeseg, context, todo, file, compiled, lost>>

WildJump ==
  /\ pc = "raised" /\ landing # "armed"
  /\ pc' = "crashed"
  /\ UNCHANGED <<platform, codeseg, context, landing, todo, file, compiled, world>>

Call == ParseArguments \/ SetEnvironment \/ Free \/ Update
Work ==
  \/ EnvironmentFails \/ FinishEnvironment
  \/ NextFile \/ FrontEnd \/ Parse \/ Place \/ Encode \/ FinishFile
  \/ StartLink \/ Link \/ Recover \/ WildJump
Next == Call \/ Work
Spec == Init /\ [][Next]_vars /\ WF_vars(Work)

-------------------------------------------------------------------------------
(***************************************************************************)
(* Nothing is released twice, whatever the call an error ends and wherever *)
(* it strikes: "we may longjmp out during error handling, and don't know   *)
(* which heaps are initialized at that point" (alloc_reset); codegen_free  *)
(* "can be called after a longjmp in update".                              *)
(***************************************************************************)
ReleasedOnce == twice = {}

\* The same of a program built for Linux or Mac.
UnixReleasesOnce == ~Windows => ReleasedOnce

(***************************************************************************)
(* Of heaps and DynASM states the library holds between calls what the     *)
(* context owns and nothing else: however an update ended, those it took   *)
(* were released, and after dyibicc_free there are none.  Code segments    *)
(* are neither: one per file stays while the context does, which SegsOwned *)
(* of LiveUpdate says, and dyibicc_free forgets them.                      *)
(***************************************************************************)
NothingLeft ==
  /\ lost = {}
  /\ pc = "idle" => dynasm # "live"
  /\ pc = "idle" /\ context = "host" => mapped \intersect Scratch = {}
  /\ context = "null" => "user" \notin mapped

(***************************************************************************)
(* The compiler works on a heap that is there, with a compiler_state that  *)
(* has no pointer into an earlier one and a DynASM state that is alive;    *)
(* the linker starts with a cleared linker_state.                          *)
(***************************************************************************)
Working == {"front", "parse", "place", "encode"}
OwnState ==
  /\ pc \in Working => "compile" \in mapped /\ compiler # "released"
  /\ pc \in Working \ {"front"} => dynasm = "live"
  /\ pc = "link" => linker = "null"

(***************************************************************************)
(* Every call returns to the host unless it crashes: the loop over the     *)
(* files ends, and the way out of an error leads out.                      *)
(***************************************************************************)
CallsReturn == pc # "idle" ~> pc \in {"idle", "crashed"}
===============================================================================
