------------------------------ MODULE LiveUpdate ------------------------------
(***************************************************************************)
(* dyibicc_update: the host hands the compiler the text of one file (or    *)
(* asks for all of them), the selected files are compiled one after the    *)
(* other, each one's old machine code is thrown away and replaced, and then *)
(* every file of the project is linked again.  The state is what outlives  *)
(* a call: the UserContext with, per file, the code segment and the list   *)
(* of link fixups, and the symbol tables global_data and exports, which    *)
(* have one entry per file (statics) and one for the whole program.        *)
(*                                                                         *)
(* A file's text is reduced to what the back end sees of it: the functions *)
(* and variables it defines and the symbols its code and its initialisers  *)
(* refer to.  Memory is named, never reused: a segment is named by the     *)
(* number of the code generation that made it, a data object by its table, *)
(* its symbol and that number.  What is no longer in the domain of segs or *)
(* objs has been freed, so a dangling address is one that is not there.    *)
(***************************************************************************)
EXTENDS Naturals, Sequences, FiniteSets

CONSTANTS
  NumFiles,    \* num_files: how many files the host named in the environment
  Names,       \* the identifiers a program can define or refer to
  Unique,      \* the generated names L..0, L..1, ... in the order they are handed out
  HostNames,   \* the names symbol_lookup finds in the host process
  Texts,       \* for each file, the texts the host may hand in for it
  MaxUpdates   \* bound: calls of dyibicc_update

Files == 1 .. NumFiles
Global == NumFiles + 1                 \* the table index of non-static symbols
Scopes == 1 .. NumFiles + 1
Labels == {Unique[k] : k \in DOMAIN Unique}
Symbols == Names \cup Labels

(***************************************************************************)
(* Addresses: nothing, a function of a segment, a data object, a host      *)
(* function, and a value the running program stored itself.                *)
(***************************************************************************)
None == [kind |-> "none"]
Stored == [kind |-> "stored"]
CodeAddr(s, n) == [kind |-> "code", seg |-> s, fn |-> n]
DataAddr(o) == [kind |-> "data", obj |-> o]
HostAddr(n) == [kind |-> "host", fn |-> n]

(***************************************************************************)
(* Relocations of an initialiser: none, the address of a symbol, or the    *)
(* address of a label in the file's own code (labels as values).           *)
(***************************************************************************)
NoRel == [kind |-> "none"]
SymRel(n) == [kind |-> "sym", name |-> n]
LabelRel == [kind |-> "label"]
Rels == {NoRel, LabelRel} \cup {SymRel(n) : n \in Symbols}

(***************************************************************************)
(* A text: does it compile, its live functions, its named variables, its   *)
(* generated objects in the order their names are handed out (string       *)
(* literals, which are read-only, and static locals), and the symbols its  *)
(* code needs an address for.  src names the variable in the source.       *)
(***************************************************************************)
FunDefs == [name : Names, static : BOOLEAN]
VarDefs == [name : Names, static : BOOLEAN, size : Nat, rel : Rels]
AnonDefs == [src : Names, ro : BOOLEAN, size : Nat, rel : Rels]

IsText(t) ==
  /\ t.ok \in BOOLEAN
  /\ t.funs \subseteq FunDefs
  /\ t.vars \subseteq VarDefs
  /\ t.anons \in Seq(AnonDefs)
  /\ DOMAIN t.anons \subseteq DOMAIN Unique
  /\ t.refs \subseteq Symbols
  /\ \A v, w \in t.vars : v.name = w.name => v = w

(***************************************************************************)
(* At least one file, and generated names that are all different and no    *)
(* identifiers: "L..0" has dots in it.                                     *)
(***************************************************************************)
ASSUME ProjectAssumption ==
  /\ NumFiles \in Nat \ {0}
  /\ MaxUpdates \in Nat
  /\ HostNames \subseteq Names
  /\ Names \cap Labels = {}
  /\ \A j, k \in DOMAIN Unique : Unique[j] = Unique[k] => j = k
  /\ \A f \in Files : \A t \in Texts[f] : IsText(t)

\* parse() delivers one Obj per definition.  new_unique_name numbers the
\* anonymous ones by their place in the file.
Vars(t) ==
  {[name |-> v.name, static |-> v.static, ro |-> FALSE, size |-> v.size,
    rel |-> v.rel, src |-> v.name] : v \in t.vars}
  \cup
  {[name |-> Unique[k], static |-> TRUE, ro |-> t.anons[k].ro, size |-> t.anons[k].size,
    rel |-> t.anons[k].rel, src |-> t.anons[k].src] : k \in DOMAIN t.anons}

Nothing == [x \in {} |-> None]          \* a function with an empty domain
NoText == [ok |-> FALSE, funs |-> {}, vars |-> {}, anons |-> <<>>, refs |-> {}]

VARIABLES
  phase,        \* where dyibicc_update stands: "idle", "scan", "link", "fix"; "freed"
  cur,          \* the loop variable i of the compile and of the link loop
  only,         \* the filename argument: the file it names, AllFiles or NoSuchFile
  compiledAny,  \* compiled_any
  result,       \* what the last call returned
  updates,      \* how many calls were made (bounds the model)
  gen,          \* the last code generation
  codeseg,      \* codeseg_base_address per file, 0 for NULL
  segs,         \* the mapped code segments
  exports,      \* user_context->exports
  globalData,   \* user_context->global_data: the generation of the object, 0 if absent
  objs,         \* the data objects allocated by aligned_allocate
  fixups,       \* FileLinkData.fixups per file
  todo,         \* the fixups of file cur that the link loop has yet to process
  built,        \* history: the text each file's segment was generated from
  linked        \* history: the program was linked since code was last generated

ctl == <<phase, cur, only, compiledAny, result, updates>>
tables == <<exports, globalData>>
mem == <<gen, codeseg, segs, objs, fixups, built>>
vars == <<ctl, tables, mem, todo, linked>>

AllFiles == 0
NoSuchFile == NumFiles + 1
Selected(f) == only \in {AllFiles, f}

ScopeOf(f, v) == IF v.static THEN f ELSE Global
Object(sc, n, g) == <<sc, n, g>>

-------------------------------------------------------------------------------
\* The addresses a name can stand for in file f, in the order link_all_files
\* tries them.
DataIn(sc, n) ==
  IF globalData[sc][n] = 0 THEN None ELSE DataAddr(Object(sc, n, globalData[sc][n]))

symbol_lookup(n) == IF n \in HostNames THEN HostAddr(n) ELSE None

Candidates(f, n) ==
  <<DataIn(f, n), exports[f][n], DataIn(Global, n), exports[Global][n], symbol_lookup(n)>>

Found(f, n) == {i \in 1 .. 5 : Candidates(f, n)[i] # None}

Resolve(f, n) ==
  IF Found(f, n) = {} THEN None
  ELSE Candidates(f, n)[CHOOSE i \in Found(f, n) : \A j \in Found(f, n) : i <= j]

-------------------------------------------------------------------------------
Init ==
  /\ phase = "idle" /\ cur = 1 /\ only = AllFiles
  /\ compiledAny = FALSE /\ result = FALSE /\ updates = 0
  /\ gen = 0
  /\ codeseg = [f \in Files |-> 0]
  /\ segs = Nothing
  /\ exports = [sc \in Scopes |-> [n \in Symbols |-> None]]
  /\ globalData = [sc \in Scopes |-> [n \in Symbols |-> 0]]
  /\ objs = Nothing
  /\ fixups = [f \in Files |-> {}]
  /\ todo = {}
  /\ built = [f \in Files |-> NoText]
  /\ linked = FALSE

\* The host calls dyibicc_update(ctx, filename or NULL, contents).
BeginUpdate(o) ==
  /\ phase = "idle" /\ updates < MaxUpdates
  /\ phase' = "scan" /\ cur' = 1 /\ only' = o
  /\ compiledAny' = FALSE /\ updates' = updates + 1
  /\ UNCHANGED <<result, tables, mem, todo, linked>>

\* A filename was given and it is not this file's.
SkipFile ==
  /\ phase = "scan" /\ cur \in Files /\ ~Selected(cur)
  /\ cur' = cur + 1
  /\ UNCHANGED <<phase, only, compiledAny, result, updates, tables, mem, todo, linked>>

\* An error before codegen() starts to replace things (tokenize, preprocess,
\* parse, or gen_expr inside emit_text): longjmp, the call returns false.
CompileError ==
  /\ phase = "scan" /\ cur \in Files /\ Selected(cur)
  /\ \E t \in Texts[cur] : ~t.ok
  /\ phase' = "idle" /\ result' = FALSE
  /\ UNCHANGED <<cur, only, compiledAny, updates, tables, mem, todo, linked>>

-------------------------------------------------------------------------------
\* What codegen() does to each part of the UserContext.  s is the new segment.

\* Mutant: the old segment stays mapped.
ReplaceCodeLeak(f, s) ==
  [x \in DOMAIN segs \cup {s} |->
     IF x = s THEN [file |-> f, exec |-> FALSE, slot |-> [n \in Symbols |-> None]]
     ELSE segs[x]]

\* The old segment is unmapped and a new one mapped, writable.
ReplaceCode(f, s) ==
  [x \in (DOMAIN segs \ {codeseg[f]}) \cup {s} |->
     IF x = s THEN [file |-> f, exec |-> FALSE, slot |-> [n \in Symbols |-> None]]
     ELSE segs[x]]

Defines(t, n, static) == [name |-> n, static |-> static] \in t.funs

\* Mutant: a name that is in the table already keeps its entry.
FillExportsOnce(f, t, s) ==
  [sc \in Scopes |->
     [n \in Symbols |->
        IF exports[sc][n] = None
           /\ ((sc = f /\ Defines(t, n, TRUE)) \/ (sc = Global /\ Defines(t, n, FALSE)))
        THEN CodeAddr(s, n) ELSE exports[sc][n]]]

\* The file's own table is cleared first; the program-wide one is only added to.
fill_out_text_exports(f, t, s) ==
  [sc \in Scopes |->
     [n \in Symbols |->
        IF sc = f THEN IF Defines(t, n, TRUE) THEN CodeAddr(s, n) ELSE None
        ELSE IF sc = Global /\ Defines(t, n, FALSE) THEN CodeAddr(s, n)
        ELSE exports[sc][n]]]

\* Mutants: existing writable data is made again; old read-only data is not freed.
RecreatedAlways(f, t) == Vars(t)
DiscardedNever(f, t) == {}

\* emit_data: a variable that already has an object keeps it, except that
\* read-only data is freed and made again.
Recreated(f, t) ==
  {v \in Vars(t) : v.ro \/ globalData[ScopeOf(f, v)][v.name] = 0}

Discarded(f, t) ==
  {Object(ScopeOf(f, v), v.name, globalData[ScopeOf(f, v)][v.name]) :
     v \in {w \in Vars(t) : w.ro /\ globalData[ScopeOf(f, w)][w.name] # 0}}

NewObject(f, v, s) == Object(ScopeOf(f, v), v.name, s)

PutData(f, t, s) ==
  [sc \in Scopes |->
     [n \in Symbols |->
        IF \E v \in Recreated(f, t) : ScopeOf(f, v) = sc /\ v.name = n
        THEN s ELSE globalData[sc][n]]]

InitialValue(v, s) == IF v.rel = LabelRel THEN CodeAddr(s, v.src) ELSE None

EmitObjects(f, t, s) ==
  [o \in (DOMAIN objs \ Discarded(f, t)) \cup {NewObject(f, v, s) : v \in Recreated(f, t)} |->
     IF o \in DOMAIN objs THEN objs[o]
     ELSE LET v == CHOOSE w \in Recreated(f, t) : NewObject(f, w, s) = o
          IN  [size |-> v.size, ro |-> v.ro, src |-> v.src, val |-> InitialValue(v, s)]]

\* free_link_fixups, then one fixup per symbol address in the initialisers of
\* the objects just made and one per symbol address in the code.
DataFixup(o, n) == [kind |-> "data", at |-> o, name |-> n]
CodeFixup(s, n) == [kind |-> "code", at |-> s, name |-> n]

MakeFixupsKeepOld(f, t, s) ==           \* Mutant: without free_link_fixups
  fixups[f]
  \cup {DataFixup(NewObject(f, v, s), v.rel.name) : v \in {w \in Recreated(f, t) : w.rel.kind = "sym"}}
  \cup {CodeFixup(s, n) : n \in t.refs}

MakeFixups(f, t, s) ==
  {DataFixup(NewObject(f, v, s), v.rel.name) : v \in {w \in Recreated(f, t) : w.rel.kind = "sym"}}
  \cup {CodeFixup(s, n) : n \in t.refs}

codegen(f, t) ==
  LET s == gen + 1
  IN  /\ gen' = s
      /\ segs' = ReplaceCode(f, s)
      /\ codeseg' = [codeseg EXCEPT ![f] = s]
      /\ exports' = fill_out_text_exports(f, t, s)
      /\ globalData' = PutData(f, t, s)
      /\ objs' = EmitObjects(f, t, s)
      /\ fixups' = [fixups EXCEPT ![f] = MakeFixups(f, t, s)]
      /\ built' = [built EXCEPT ![f] = t]
      /\ linked' = FALSE

CompileFile ==
  /\ phase = "scan" /\ cur \in Files /\ Selected(cur)
  /\ \E t \in Texts[cur] : t.ok /\ codegen(cur, t)
  /\ cur' = cur + 1 /\ compiledAny' = TRUE
  /\ UNCHANGED <<phase, only, result, updates, todo>>

\* dasm_checkstep reports an error once everything has been replaced: ABORT.
CheckstepAbort ==
  /\ phase = "scan" /\ cur \in Files /\ Selected(cur)
  /\ \E t \in Texts[cur] : t.ok /\ codegen(cur, t)
  /\ phase' = "idle" /\ result' = FALSE
  /\ UNCHANGED <<cur, only, compiledAny, updates, todo>>

\* The compile loop is over.
EndCompile ==
  /\ phase = "scan" /\ cur = NumFiles + 1
  /\ IF compiledAny
     THEN phase' = "link" /\ cur' = 1 /\ UNCHANGED result
     ELSE phase' = "idle" /\ result' = TRUE /\ UNCHANGED cur
  /\ UNCHANGED <<only, compiledAny, updates, tables, mem, todo, linked>>

-------------------------------------------------------------------------------
\* link_all_files

SetExec(f, b) ==
  IF codeseg[f] = 0 THEN segs ELSE [segs EXCEPT ![codeseg[f]].exec = b]

\* Mutant: only the files of this update are linked again.
LinkOpenSelected ==
  /\ phase = "link" /\ cur \in Files
  /\ segs' = SetExec(cur, FALSE)
  /\ todo' = IF Selected(cur) THEN fixups[cur] ELSE {}
  /\ phase' = "fix"
  /\ linked' = FALSE
  /\ UNCHANGED <<cur, only, compiledAny, result, updates, tables,
                 gen, codeseg, objs, fixups, built>>

\* make_memory_readwrite; a file that was never compiled has an empty range.
LinkOpen ==
  /\ phase = "link" /\ cur \in Files
  /\ segs' = SetExec(cur, FALSE)
  /\ todo' = fixups[cur]
  /\ phase' = "fix"
  /\ linked' = FALSE
  /\ UNCHANGED <<cur, only, compiledAny, result, updates, tables,
                 gen, codeseg, objs, fixups, built>>

\* Mutant: a fixup that was resolved before is left as it is.
LinkFixupOnce ==
  /\ phase = "fix"
  /\ \E fx \in todo :
       /\ Resolve(cur, fx.name) # None
       /\ IF fx.kind = "code"
          THEN /\ segs' = IF segs[fx.at].slot[fx.name] # None THEN segs
                          ELSE [segs EXCEPT ![fx.at].slot[fx.name] = Resolve(cur, fx.name)]
               /\ UNCHANGED objs
          ELSE /\ objs' = [objs EXCEPT ![fx.at].val = Resolve(cur, fx.name)]
               /\ UNCHANGED segs
       /\ todo' = todo \ {fx}
  /\ UNCHANGED <<ctl, tables, gen, codeseg, fixups, built, linked>>

\* One fixup is resolved and its address written.  (The order of the fixups in
\* the list is left open.)
LinkFixup ==
  /\ phase = "fix"
  /\ \E fx \in todo :
       /\ Resolve(cur, fx.name) # None
       /\ IF fx.kind = "code"
          THEN /\ segs' = [segs EXCEPT ![fx.at].slot[fx.name] = Resolve(cur, fx.name)]
               /\ UNCHANGED objs
          ELSE /\ objs' = [objs EXCEPT ![fx.at].val = Resolve(cur, fx.name)]
               /\ UNCHANGED segs
       /\ todo' = todo \ {fx}
  /\ UNCHANGED <<ctl, tables, gen, codeseg, fixups, built, linked>>

\* "undefined symbol": the call returns false and the file stays writable.
LinkUndefined ==
  /\ phase = "fix"
  /\ \E fx \in todo : Resolve(cur, fx.name) = None
  /\ phase' = "idle" /\ result' = FALSE /\ todo' = {}
  /\ UNCHANGED <<cur, only, compiledAny, updates, tables, mem, linked>>

\* make_memory_executable, then the next file.
LinkClose ==
  /\ phase = "fix" /\ todo = {}
  /\ segs' = SetExec(cur, TRUE)
  /\ phase' = "link" /\ cur' = cur + 1
  /\ UNCHANGED <<only, compiledAny, result, updates, tables,
                 gen, codeseg, objs, fixups, built, todo, linked>>

LinkDone ==
  /\ phase = "link" /\ cur = NumFiles + 1
  /\ phase' = "idle" /\ result' = TRUE /\ linked' = TRUE
  /\ UNCHANGED <<cur, only, compiledAny, updates, tables, mem, todo>>

-------------------------------------------------------------------------------
\* Between updates the program runs and stores into its writable data.
ProgramStores ==
  /\ phase = "idle" /\ linked
  /\ \E o \in DOMAIN objs :
       /\ ~objs[o].ro
       /\ objs' = [objs EXCEPT ![o].val = Stored]
  /\ UNCHANGED <<ctl, tables, gen, codeseg, segs, fixups, built, todo, linked>>

\* dyibicc_free: the symbol tables with the objects they own, and the fixups.
dyibicc_free ==
  /\ phase = "idle"
  /\ phase' = "freed"
  /\ exports' = [sc \in Scopes |-> [n \in Symbols |-> None]]
  /\ globalData' = [sc \in Scopes |-> [n \in Symbols |-> 0]]
  /\ objs' = Nothing
  /\ fixups' = [f \in Files |-> {}]
  /\ linked' = FALSE
  /\ UNCHANGED <<cur, only, compiledAny, result, updates, gen, codeseg, segs, built, todo>>

Compile == SkipFile \/ CompileError \/ CompileFile \/ CheckstepAbort \/ EndCompile
Link == LinkOpen \/ LinkFixup \/ LinkUndefined \/ LinkClose \/ LinkDone

Next ==
  \/ \E o \in Files \cup {AllFiles, NoSuchFile} : BeginUpdate(o)
  \/ Compile
  \/ Link
  \/ ProgramStores
  \/ dyibicc_free

\* dyibicc_update is one synchronous call: once begun it runs on.
Spec == Init /\ [][Next]_vars /\ WF_vars(Compile \/ Link)

-------------------------------------------------------------------------------
(***************************************************************************)
(* What must hold.                                                         *)
(***************************************************************************)
ObjectIds == Scopes \X Symbols \X Nat

Addrs ==
  {None, Stored}
  \cup [kind : {"code"}, seg : Nat, fn : Symbols]
  \cup [kind : {"data"}, obj : ObjectIds]
  \cup [kind : {"host"}, fn : HostNames]

Segments == [file : Files, exec : BOOLEAN, slot : [Symbols -> Addrs]]
DataObjects == [size : Nat, ro : BOOLEAN, src : Names, val : Addrs]
Fixups ==
  [kind : {"code"}, at : Nat, name : Symbols]
  \cup [kind : {"data"}, at : ObjectIds, name : Symbols]

\* Every variable of the context holds what its C declaration says.
TypeOK ==
  /\ phase \in {"idle", "scan", "link", "fix", "freed"}
  /\ cur \in 1 .. NumFiles + 1 /\ only \in 0 .. NumFiles + 1
  /\ phase = "fix" => cur \in Files
  /\ compiledAny \in BOOLEAN /\ result \in BOOLEAN /\ linked \in BOOLEAN
  /\ updates \in Nat /\ gen \in Nat
  /\ codeseg \in [Files -> 0 .. gen]
  /\ DOMAIN segs \subseteq 1 .. gen
  /\ \A s \in DOMAIN segs : segs[s] \in Segments
  /\ exports \in [Scopes -> [Symbols -> Addrs]]
  /\ globalData \in [Scopes -> [Symbols -> 0 .. gen]]
  /\ DOMAIN objs \subseteq ObjectIds
  /\ \A o \in DOMAIN objs : objs[o] \in DataObjects
  /\ fixups \in [Files -> SUBSET Fixups]
  /\ todo \subseteq Fixups
  /\ DOMAIN built = Files
  /\ \A f \in Files : IsText(built[f])

\* Every mapped segment is the current one of the file it was generated from:
\* recompiling a file neither leaks its old code nor unmaps another file's.
SegsOwned ==
  /\ DOMAIN segs = {codeseg[f] : f \in Files} \ {0}
  /\ \A f \in Files : codeseg[f] # 0 => segs[codeseg[f]].file = f

NamedBy(table) ==
  {Object(p[1], p[2], table[p[1]][p[2]]) :
     p \in {q \in Scopes \X Symbols : table[q[1]][q[2]] # 0}}

\* The allocated data objects are exactly those the symbol tables name, so none
\* is leaked by a recompile and no table names freed storage.
ObjsOwned == DOMAIN objs = NamedBy(globalData)

Live(a) ==
  CASE a.kind = "code" -> a.seg \in DOMAIN segs
    [] a.kind = "data" -> a.obj \in DOMAIN objs
    [] OTHER -> TRUE

\* Every fixup points into memory that is mapped and belongs to its own file:
\* its current segment, or an object made together with that segment.  The link
\* loop writes through these pointers without looking.
FixupsLive ==
  \A f \in Files : \A fx \in fixups[f] :
    IF fx.kind = "code"
    THEN fx.at = codeseg[f] /\ fx.at \in DOMAIN segs
    ELSE /\ fx.at \in DOMAIN objs
         /\ fx.at[1] \in {f, Global} /\ fx.at[3] = codeseg[f]

\* File f may run: it is executable and each address in its code is the one its
\* symbol has now, each pointer the linker still looks after as well.
Current(f) ==
  codeseg[f] # 0 =>
    /\ segs[codeseg[f]].exec
    /\ \A n \in built[f].refs :
         Resolve(f, n) # None /\ segs[codeseg[f]].slot[n] = Resolve(f, n)
    /\ \A fx \in fixups[f] :
         fx.kind = "data" => objs[fx.at].val \in {Resolve(f, fx.name), Stored}

\* When dyibicc_update has compiled something and returned true, and also when it
\* failed before it replaced anything, all files are executable and refer to the
\* present address of every symbol, those that were not recompiled too.
LinkedIsCurrent ==
  linked \/ (phase = "idle" /\ result /\ compiledAny) => \A f \in Files : Current(f)

\* The projects for which the next two hold: a file that defined a global function
\* goes on defining it, because exports of the whole program are only ever added.
StableSymbols ==
  \A f \in Files : \A t, u \in Texts[f] : t.ok /\ u.ok =>
    \A n \in Symbols : Defines(t, n, FALSE) => Defines(u, n, FALSE)

\* After a call of dyibicc_update that compiled and returned true, what
\* dyibicc_find_export hands out is an address in mapped code.
ExportsLive ==
  phase = "idle" /\ result /\ compiledAny =>
    \A n \in Symbols : Live(exports[Global][n])

\* No address in linked code dangles.
TargetsLive ==
  linked => \A f \in Files : codeseg[f] # 0 =>
              \A n \in built[f].refs : Live(segs[codeseg[f]].slot[n])

\* What the program stored in a named variable stays there, and the variable stays
\* where it is, however often the project is recompiled or fails to be.  One thing
\* only takes a stored value away: the linker looks after a pointer in that variable,
\* and resolves it again.
StoresKept ==
  \A o \in DOMAIN objs :
    o[2] \in Names /\ objs[o].val = Stored
    => \/ phase' = "freed"
       \/ /\ o \in DOMAIN objs' /\ globalData'[o[1]][o[2]] = o[3]
          /\ \/ objs'[o].val = Stored
             \/ /\ phase = "fix"
                /\ \E n \in Symbols :
                     DataFixup(o, n) \in fixups[cur] /\ objs'[o].val = Resolve(cur, n)

StoresSurvive == [][StoresKept]_vars

-------------------------------------------------------------------------------
(***************************************************************************)
(* What the comments of the code and its interface say and it does not do. *)
(***************************************************************************)

\* The pointers in the data of a linked program are to mapped code and allocated
\* data.  (emit_data skips existing writable data: "possibly a bug".)
DataPointersLive == linked => \A o \in DOMAIN objs : Live(objs[o].val)

\* A variable that was created and initialised is not initialised again.
NeverReinitialised ==
  [][\A o \in DOMAIN objs :
       objs[o].val = Stored /\ o \in DOMAIN objs' => objs'[o].val = Stored]_vars

\* In a linked program a variable lives in storage made for it, and large enough.
StorageIsOwn ==
  linked =>
    \A f \in Files : codeseg[f] # 0 =>
      \A v \in Vars(built[f]) :
        LET obj == objs[Object(ScopeOf(f, v), v.name, globalData[ScopeOf(f, v)][v.name])]
        IN  obj.src = v.src /\ obj.size >= v.size
===============================================================================
