--------------------------- MODULE LiveUpdateProofs ---------------------------
(***************************************************************************)
(* Proofs about LiveUpdate for any number of files, any texts, and any     *)
(* number of updates.                                                      *)
(***************************************************************************)
EXTENDS LiveUpdate, TLAPS

VarRecords ==
  [name : Symbols, static : BOOLEAN, ro : BOOLEAN, size : Nat, rel : Rels, src : Names]

\* What parse() delivers is well formed, and only generated static objects are
\* read-only.
LEMMA VarsType ==
  ASSUME NEW t, IsText(t), NEW v \in Vars(t)
  PROVE  v \in VarRecords /\ (v.ro => v.static /\ v.name \in Labels)
<1>1. CASE v \in {[name |-> w.name, static |-> w.static, ro |-> FALSE, size |-> w.size,
                   rel |-> w.rel, src |-> w.name] : w \in t.vars}
  <2>1. PICK w \in t.vars :
          v = [name |-> w.name, static |-> w.static, ro |-> FALSE, size |-> w.size,
               rel |-> w.rel, src |-> w.name]
    BY <1>1
  <2>2. w \in VarDefs
    BY DEF IsText
  <2> QED
    BY <2>1, <2>2 DEF VarRecords, VarDefs, Symbols
<1>2. CASE v \in {[name |-> Unique[k], static |-> TRUE, ro |-> t.anons[k].ro,
                   size |-> t.anons[k].size, rel |-> t.anons[k].rel,
                   src |-> t.anons[k].src] : k \in DOMAIN t.anons}
  <2>1. PICK k \in DOMAIN t.anons :
          v = [name |-> Unique[k], static |-> TRUE, ro |-> t.anons[k].ro,
               size |-> t.anons[k].size, rel |-> t.anons[k].rel, src |-> t.anons[k].src]
    BY <1>2
  <2>2. t.anons[k] \in AnonDefs
    BY DEF IsText
  <2>3. Unique[k] \in Labels
    BY DEF IsText, Labels
  <2> QED
    BY <2>1, <2>2, <2>3 DEF VarRecords, AnonDefs, Symbols
<1> QED
  BY <1>1, <1>2 DEF Vars

LEMMA LeastOfFive ==
  ASSUME NEW S, S \subseteq 1 .. 5, S # {}
  PROVE  \E i \in S : \A j \in S : i <= j
<1>1. \A j \in S : j \in {1, 2, 3, 4, 5}
  OBVIOUS
<1>2. CASE 1 \in S
  BY <1>1, <1>2
<1>3. CASE 1 \notin S /\ 2 \in S
  <2>1. \A j \in S : 2 <= j
    BY <1>1, <1>3
  <2> QED
    BY <1>3, <2>1
<1>4. CASE 1 \notin S /\ 2 \notin S /\ 3 \in S
  <2>1. \A j \in S : 3 <= j
    BY <1>1, <1>4
  <2> QED
    BY <1>4, <2>1
<1>5. CASE 1 \notin S /\ 2 \notin S /\ 3 \notin S /\ 4 \in S
  <2>1. \A j \in S : 4 <= j
    BY <1>1, <1>5
  <2> QED
    BY <1>5, <2>1
<1>6. CASE 1 \notin S /\ 2 \notin S /\ 3 \notin S /\ 4 \notin S
  <2>1. \A j \in S : j = 5
    BY <1>1, <1>6
  <2>2. PICK i \in S : TRUE
    OBVIOUS
  <2>3. \A j \in S : i <= j
    BY <2>1, <2>2
  <2> QED
    BY <2>3
<1> QED
  BY <1>2, <1>3, <1>4, <1>5, <1>6

\* A symbol resolves to one of five addresses, or to none.
LEMMA ResolveCases ==
  ASSUME NEW f, NEW n
  PROVE  Resolve(f, n) \in {None, DataIn(f, n), exports[f][n], DataIn(Global, n),
                            exports[Global][n], symbol_lookup(n)}
<1>1. CASE Found(f, n) = {}
  BY <1>1 DEF Resolve
<1>2. CASE Found(f, n) # {}
  <2>1. Found(f, n) \subseteq 1 .. 5
    BY DEF Found
  <2>2. \E i \in Found(f, n) : \A j \in Found(f, n) : i <= j
    BY <1>2, <2>1, LeastOfFive
  <2> DEFINE m == CHOOSE i \in Found(f, n) : \A j \in Found(f, n) : i <= j
  <2>3. m \in Found(f, n)
    BY <2>2
  <2>4. m \in {1, 2, 3, 4, 5}
    BY <2>1, <2>3
  <2>5. Resolve(f, n) = Candidates(f, n)[m]
    BY <1>2 DEF Resolve
  <2> HIDE DEF m
  <2> QED
    BY <2>4, <2>5 DEF Candidates
<1> QED
  BY <1>1, <1>2

-------------------------------------------------------------------------------
(***************************************************************************)
(* Type correctness.                                                       *)
(***************************************************************************)
MemoryTypeOK ==
  /\ gen \in Nat
  /\ codeseg \in [Files -> 0 .. gen]
  /\ DOMAIN segs \subseteq 1 .. gen
  /\ \A s \in DOMAIN segs : segs[s] \in Segments
  /\ exports \in [Scopes -> [Symbols -> Addrs]]
  /\ globalData \in [Scopes -> [Symbols -> 0 .. gen]]
  /\ DOMAIN objs \subseteq ObjectIds
  /\ \A o \in DOMAIN objs : objs[o] \in DataObjects
  /\ fixups \in [Files -> SUBSET Fixups]
  /\ DOMAIN built = Files
  /\ \A f \in Files : IsText(built[f])

LEMMA ScopesType ==
  /\ Global \in Scopes /\ Global \notin Files /\ Files \subseteq Scopes
  /\ \A f \in Files : \A v \in VarRecords : ScopeOf(f, v) \in {f, Global}
BY ProjectAssumption DEF Global, Scopes, Files, ScopeOf

LEMMA AddrsType ==
  /\ None \in Addrs /\ Stored \in Addrs
  /\ \A s \in Nat, n \in Symbols : CodeAddr(s, n) \in Addrs
  /\ \A o \in ObjectIds : DataAddr(o) \in Addrs
  /\ \A n \in HostNames : HostAddr(n) \in Addrs
BY DEF Addrs, None, Stored, CodeAddr, DataAddr, HostAddr

LEMMA ResolveType ==
  ASSUME MemoryTypeOK, NEW f \in Files, NEW n \in Symbols
  PROVE  Resolve(f, n) \in Addrs
<1>1. \A sc \in Scopes : exports[sc][n] \in Addrs
  BY DEF MemoryTypeOK
<1>2. \A sc \in Scopes : DataIn(sc, n) \in Addrs
  BY AddrsType DEF MemoryTypeOK, DataIn, Object, ObjectIds
<1>3. symbol_lookup(n) \in Addrs
  BY AddrsType DEF symbol_lookup
<1> QED
  BY <1>1, <1>2, <1>3, ResolveCases, ScopesType, AddrsType

LEMMA CodegenType ==
  ASSUME MemoryTypeOK, NEW f \in Files, NEW t \in Texts[f], codegen(f, t)
  PROVE  MemoryTypeOK'
<1> DEFINE s == gen + 1
<1>1. IsText(t)
  BY ProjectAssumption
<1>2. gen' = s /\ s \in Nat /\ gen \in Nat
  BY DEF codegen, MemoryTypeOK
<1>3. codeseg' \in [Files -> 0 .. gen']
  BY <1>2 DEF codegen, MemoryTypeOK
<1>4. /\ DOMAIN segs' \subseteq 1 .. gen'
      /\ \A x \in DOMAIN segs' : segs'[x] \in Segments
  <2>1. segs' = ReplaceCode(f, s)
    BY DEF codegen
  <2>2. [file |-> f, exec |-> FALSE, slot |-> [n \in Symbols |-> None]] \in Segments
    BY AddrsType DEF Segments
  <2> QED
    BY <1>2, <2>1, <2>2 DEF ReplaceCode, MemoryTypeOK
<1>5. exports' \in [Scopes -> [Symbols -> Addrs]]
  BY <1>2, AddrsType DEF codegen, fill_out_text_exports, MemoryTypeOK
<1>6. globalData' \in [Scopes -> [Symbols -> 0 .. gen']]
  BY <1>2 DEF codegen, PutData, MemoryTypeOK
<1>7. \A v \in Recreated(f, t) :
        /\ v \in VarRecords /\ ScopeOf(f, v) \in Scopes
        /\ NewObject(f, v, s) \in ObjectIds
  <2>1. \A v \in Recreated(f, t) : v \in VarRecords
    BY <1>1, VarsType DEF Recreated
  <2> QED
    BY <1>2, <2>1, ScopesType DEF NewObject, Object, ObjectIds, VarRecords
<1>8. /\ DOMAIN objs' \subseteq ObjectIds
      /\ \A o \in DOMAIN objs' : objs'[o] \in DataObjects
  <2>1. objs' = EmitObjects(f, t, s)
    BY DEF codegen
  <2>2. DOMAIN objs' =
          (DOMAIN objs \ Discarded(f, t)) \cup {NewObject(f, v, s) : v \in Recreated(f, t)}
    BY <2>1 DEF EmitObjects
  <2>3. ASSUME NEW o \in DOMAIN objs', o \notin DOMAIN objs
        PROVE  objs'[o] \in DataObjects
    <3> DEFINE w == CHOOSE w \in Recreated(f, t) : NewObject(f, w, s) = o
    <3>1. w \in Recreated(f, t)
      BY <2>2, <2>3
    <3>2. objs'[o] = [size |-> w.size, ro |-> w.ro, src |-> w.src, val |-> InitialValue(w, s)]
      BY <2>1, <2>2, <2>3 DEF EmitObjects
    <3>3. w \in VarRecords
      BY <1>7, <3>1
    <3> HIDE DEF w
    <3>4. InitialValue(w, s) \in Addrs
      BY <1>2, <3>3, AddrsType DEF InitialValue, VarRecords, Symbols
    <3> QED
      BY <3>2, <3>3, <3>4 DEF DataObjects, VarRecords
  <2>4. ASSUME NEW o \in DOMAIN objs', o \in DOMAIN objs
        PROVE  objs'[o] \in DataObjects
    BY <2>1, <2>2, <2>4 DEF EmitObjects, MemoryTypeOK
  <2> QED
    BY <1>7, <2>2, <2>3, <2>4 DEF MemoryTypeOK
<1>9. fixups' \in [Files -> SUBSET Fixups]
  <2>1. ASSUME NEW v \in Recreated(f, t), v.rel.kind = "sym"
        PROVE  DataFixup(NewObject(f, v, s), v.rel.name) \in Fixups
    <3>1. v.rel \in Rels
      BY <1>7 DEF VarRecords
    <3>2. v.rel.name \in Symbols
      BY <2>1, <3>1 DEF Rels, NoRel, LabelRel, SymRel
    <3> QED
      BY <1>7, <3>2 DEF DataFixup, Fixups
  <2>2. \A n \in t.refs : CodeFixup(s, n) \in Fixups
    BY <1>1, <1>2 DEF IsText, CodeFixup, Fixups
  <2>3. MakeFixups(f, t, s) \subseteq Fixups
    BY <2>1, <2>2 DEF MakeFixups
  <2> QED
    BY <2>3 DEF codegen, MemoryTypeOK
<1>10. DOMAIN built' = Files /\ \A g \in Files : IsText(built'[g])
  BY <1>1 DEF codegen, MemoryTypeOK
<1> QED
  BY <1>2, <1>3, <1>4, <1>5, <1>6, <1>8, <1>9, <1>10 DEF MemoryTypeOK

ControlTypeOK ==
  /\ phase \in {"idle", "scan", "link", "fix", "freed"}
  /\ cur \in 1 .. NumFiles + 1 /\ only \in 0 .. NumFiles + 1
  /\ phase = "fix" => cur \in Files
  /\ updates \in Nat
  /\ todo \subseteq Fixups

FlagsTypeOK == compiledAny \in BOOLEAN /\ result \in BOOLEAN /\ linked \in BOOLEAN

LEMMA NumFilesType == NumFiles \in Nat /\ NumFiles > 0
BY ProjectAssumption

LEMMA TypeSplit == TypeOK <=> ControlTypeOK /\ FlagsTypeOK /\ MemoryTypeOK
BY DEF TypeOK, ControlTypeOK, FlagsTypeOK, MemoryTypeOK

LEMMA TypeInit == Init => TypeOK
<1> SUFFICES ASSUME Init PROVE TypeOK
  OBVIOUS
<1>1. ControlTypeOK
  <2>1. phase = "idle" /\ cur = 1 /\ only = 0 /\ updates = 0 /\ todo = {}
    BY DEF Init, AllFiles
  <2> QED
    BY <2>1, NumFilesType DEF ControlTypeOK
<1>2. FlagsTypeOK
  BY Zenon DEF Init, FlagsTypeOK
<1>3. DOMAIN segs = {} /\ DOMAIN objs = {}
  BY DEF Init, Nothing
<1>4. IsText(NoText)
  <2>1. <<>> \in Seq(AnonDefs) /\ DOMAIN <<>> = {}
    OBVIOUS
  <2> QED
    BY <2>1 DEF IsText, NoText
<1>5. MemoryTypeOK
  <2>1. /\ gen = 0
        /\ codeseg = [f \in Files |-> 0]
        /\ exports = [sc \in Scopes |-> [n \in Symbols |-> None]]
        /\ globalData = [sc \in Scopes |-> [n \in Symbols |-> 0]]
        /\ fixups = [f \in Files |-> {}]
        /\ built = [f \in Files |-> NoText]
    BY DEF Init
  <2> QED
    BY <1>3, <1>4, <2>1, AddrsType DEF MemoryTypeOK
<1> QED
  BY <1>1, <1>2, <1>5, TypeSplit

LEMMA FlagsStep == FlagsTypeOK /\ [Next]_vars => FlagsTypeOK'
<1> SUFFICES ASSUME FlagsTypeOK, [Next]_vars PROVE FlagsTypeOK'
  OBVIOUS
<1> USE DEF FlagsTypeOK
<1>1. ASSUME NEW o \in Files \cup {AllFiles, NoSuchFile}, BeginUpdate(o) PROVE FlagsTypeOK'
  BY <1>1, Zenon DEF BeginUpdate
<1>2. CASE Compile
  BY <1>2, Zenon
  DEF Compile, SkipFile, CompileError, CompileFile, CheckstepAbort, EndCompile, codegen
<1>3. CASE Link
  BY <1>3, Zenon DEF Link, LinkOpen, LinkFixup, LinkUndefined, LinkClose, LinkDone, ctl
<1>4. CASE ProgramStores
  BY <1>4, Zenon DEF ProgramStores, ctl
<1>5. CASE dyibicc_free
  BY <1>5, Zenon DEF dyibicc_free
<1>6. CASE UNCHANGED vars
  BY <1>6, Zenon DEF vars, ctl
<1> QED
  BY <1>1, <1>2, <1>3, <1>4, <1>5, <1>6 DEF Next

LEMMA SetExecType ==
  ASSUME MemoryTypeOK, NEW f \in Files, NEW b \in BOOLEAN
  PROVE  /\ DOMAIN SetExec(f, b) = DOMAIN segs
         /\ \A s \in DOMAIN segs : SetExec(f, b)[s] \in Segments
BY DEF SetExec, MemoryTypeOK, Segments

LEMMA TypeStep == TypeOK /\ [Next]_vars => TypeOK'
<1> SUFFICES ASSUME TypeOK, [Next]_vars PROVE TypeOK'
  OBVIOUS
<1>0. ControlTypeOK /\ MemoryTypeOK /\ FlagsTypeOK'
  BY TypeSplit, FlagsStep
<1> SUFFICES ControlTypeOK' /\ MemoryTypeOK'
  BY <1>0 DEF TypeOK, ControlTypeOK, FlagsTypeOK, MemoryTypeOK
<1>1. ASSUME NEW o \in Files \cup {AllFiles, NoSuchFile}, BeginUpdate(o) PROVE ControlTypeOK' /\ MemoryTypeOK'
  <2>1. ControlTypeOK'
    <3>1. o \in 0 .. NumFiles + 1
      BY NumFilesType DEF Files, AllFiles, NoSuchFile
    <3>2. updates' = updates + 1 /\ only' = o /\ cur' = 1 /\ phase' = "scan"
      BY <1>0, <1>1 DEF BeginUpdate
    <3>3. UNCHANGED todo
      BY <1>0, <1>1 DEF BeginUpdate
    <3> QED
      BY <1>0, <3>1, <3>2, <3>3, NumFilesType DEF ControlTypeOK
  <2>2. MemoryTypeOK'
    BY <1>0, <1>1 DEF BeginUpdate, MemoryTypeOK, mem, tables
  <2> QED
    BY <2>1, <2>2
<1>2. CASE SkipFile
  BY <1>0, <1>2, NumFilesType DEF SkipFile, ControlTypeOK, MemoryTypeOK, mem, tables, Files
<1>3. CASE CompileError
  BY <1>0, <1>3 DEF CompileError, ControlTypeOK, MemoryTypeOK, mem, tables
<1>4. CASE CompileFile
  <2>1. MemoryTypeOK'
    BY <1>0, <1>4, CodegenType DEF CompileFile
  <2>2. ControlTypeOK'
    <3>1. cur' = cur + 1 /\ cur \in Files /\ phase = "scan"
      BY <1>0, <1>4 DEF CompileFile
    <3>2. UNCHANGED <<phase, only, updates, todo>>
      BY <1>0, <1>4 DEF CompileFile
    <3> QED
      BY <1>0, <3>1, <3>2, NumFilesType DEF ControlTypeOK, Files
  <2> QED
    BY <2>1, <2>2
<1>5. CASE CheckstepAbort
  <2>1. MemoryTypeOK'
    BY <1>0, <1>5, CodegenType DEF CheckstepAbort
  <2>2. ControlTypeOK'
    <3>1. phase' = "idle" /\ UNCHANGED <<cur, only, updates, todo>>
      BY <1>0, <1>5 DEF CheckstepAbort
    <3> QED
      BY <1>0, <3>1 DEF ControlTypeOK
  <2> QED
    BY <2>1, <2>2
<1>6. CASE EndCompile
  BY <1>0, <1>6, NumFilesType DEF EndCompile, ControlTypeOK, MemoryTypeOK, mem, tables
<1>7. CASE LinkOpen
  <2>1. segs' = SetExec(cur, FALSE) /\ cur \in Files
    BY <1>0, <1>7 DEF LinkOpen
  <2>2. DOMAIN segs' = DOMAIN segs /\ \A s \in DOMAIN segs : segs'[s] \in Segments
    BY <1>0, <2>1, SetExecType
  <2>3. todo' \subseteq Fixups
    BY <1>0, <1>7 DEF LinkOpen, MemoryTypeOK
  <2> QED
    BY <1>0, <1>7, <2>1, <2>2, <2>3 DEF LinkOpen, ControlTypeOK, MemoryTypeOK, tables
<1>8. CASE LinkFixup
  <2>1. PICK fx \in todo :
          /\ IF fx.kind = "code"
             THEN /\ segs' = [segs EXCEPT ![fx.at].slot[fx.name] = Resolve(cur, fx.name)]
                  /\ UNCHANGED objs
             ELSE /\ objs' = [objs EXCEPT ![fx.at].val = Resolve(cur, fx.name)]
                  /\ UNCHANGED segs
          /\ todo' = todo \ {fx}
    BY <1>0, <1>8 DEF LinkFixup
  <2>2. fx.name \in Symbols
    BY <1>0 DEF ControlTypeOK, Fixups
  <2>3. Resolve(cur, fx.name) \in Addrs
    BY <1>0, <1>8, <2>2, ResolveType DEF LinkFixup, ControlTypeOK
  <2>4. DOMAIN segs' = DOMAIN segs /\ \A s \in DOMAIN segs : segs'[s] \in Segments
    <3>1. CASE fx.kind # "code"
      BY <1>0, <2>1, <3>1 DEF MemoryTypeOK
    <3>2. CASE fx.kind = "code"
      <4>1. segs' = [segs EXCEPT ![fx.at].slot[fx.name] = Resolve(cur, fx.name)]
        BY <2>1, <3>2
      <4>2. DOMAIN segs' = DOMAIN segs
        BY <4>1
      <4>3. \A s \in DOMAIN segs : s # fx.at => segs'[s] = segs[s]
        BY <4>1
      <4>4. ASSUME fx.at \in DOMAIN segs PROVE segs'[fx.at] \in Segments
        <5>1. segs'[fx.at] = [segs[fx.at] EXCEPT !.slot[fx.name] = Resolve(cur, fx.name)]
          BY <4>1, <4>4
        <5>2. segs[fx.at] \in Segments
          BY <1>0, <4>4 DEF MemoryTypeOK
        <5> QED
          BY <2>2, <2>3, <5>1, <5>2 DEF Segments
      <4> QED
        BY <1>0, <4>2, <4>3, <4>4 DEF MemoryTypeOK
    <3> QED
      BY <3>1, <3>2
  <2>5. DOMAIN objs' = DOMAIN objs /\ \A o \in DOMAIN objs : objs'[o] \in DataObjects
    BY <1>0, <2>1, <2>3 DEF MemoryTypeOK, DataObjects
  <2>6. todo' \subseteq Fixups
    BY <1>0, <2>1 DEF ControlTypeOK
  <2> QED
    BY <1>0, <1>8, <2>4, <2>5, <2>6 DEF LinkFixup, ControlTypeOK, MemoryTypeOK, ctl, tables
<1>9. CASE LinkUndefined
  BY <1>0, <1>9 DEF LinkUndefined, ControlTypeOK, MemoryTypeOK, mem, tables
<1>10. CASE LinkClose
  <2>1. segs' = SetExec(cur, TRUE) /\ cur \in Files
    BY <1>0, <1>10 DEF LinkClose, ControlTypeOK
  <2>2. DOMAIN segs' = DOMAIN segs /\ \A s \in DOMAIN segs : segs'[s] \in Segments
    BY <1>0, <2>1, SetExecType
  <2>3. cur' \in 1 .. NumFiles + 1
    BY <1>0, <1>10, <2>1, NumFilesType DEF LinkClose, Files
  <2> QED
    BY <1>0, <1>10, <2>1, <2>2, <2>3 DEF LinkClose, ControlTypeOK, MemoryTypeOK, tables
<1>11. CASE LinkDone
  BY <1>0, <1>11 DEF LinkDone, ControlTypeOK, MemoryTypeOK, mem, tables
<1>12. CASE ProgramStores
  BY <1>0, <1>12, AddrsType DEF ProgramStores, ControlTypeOK, MemoryTypeOK, DataObjects, ctl, tables
<1>13. CASE dyibicc_free
  <2>1. exports' \in [Scopes -> [Symbols -> Addrs]]
    BY <1>0, <1>13, AddrsType DEF dyibicc_free
  <2>2. globalData' \in [Scopes -> [Symbols -> 0 .. gen]]
    BY <1>0, <1>13 DEF dyibicc_free, MemoryTypeOK
  <2>3. DOMAIN objs' = {}
    BY <1>0, <1>13 DEF dyibicc_free, Nothing
  <2>4. fixups' \in [Files -> SUBSET Fixups]
    BY <1>0, <1>13 DEF dyibicc_free
  <2>5. UNCHANGED <<cur, only, updates, gen, codeseg, segs, built, todo>>
        /\ phase' = "freed"
    BY <1>0, <1>13 DEF dyibicc_free
  <2> QED
    BY <1>0, <2>1, <2>2, <2>3, <2>4, <2>5 DEF ControlTypeOK, MemoryTypeOK
<1>14. CASE UNCHANGED vars
  BY <1>0, <1>14 DEF vars, ControlTypeOK, MemoryTypeOK, ctl, mem, tables
<1> QED
  BY <1>1, <1>2, <1>3, <1>4, <1>5, <1>6, <1>7, <1>8, <1>9, <1>10, <1>11, <1>12, <1>13, <1>14
  DEF Next, Compile, Link

\* The type invariant, for every project and however many updates.
THEOREM TypeCorrect == Spec => []TypeOK
<1>1. Init => TypeOK
  BY TypeInit
<1>2. TypeOK /\ [Next]_vars => TypeOK'
  BY TypeStep
<1> QED
  BY <1>1, <1>2, PTL DEF Spec

-------------------------------------------------------------------------------
(***************************************************************************)
(* Memory: segments, objects and fixups.                                   *)
(***************************************************************************)

\* Strengthens FixupsLive: a file without code has no fixups, a file with code has
\* one for each symbol in its code, and no object has two.
FixupsComplete ==
  \A f \in Files :
    /\ codeseg[f] = 0 => fixups[f] = {}
    /\ phase # "freed" /\ codeseg[f] # 0 =>
         \A n \in built[f].refs : CodeFixup(codeseg[f], n) \in fixups[f]
    /\ \A fx, fy \in fixups[f] :
         fx.kind = "data" /\ fy.kind = "data" /\ fx.at = fy.at => fx.name = fy.name

MemoryInv == MemoryTypeOK /\ SegsOwned /\ ObjsOwned /\ FixupsLive /\ FixupsComplete

\* Two variables of a text have different names.
LEMMA VarsUnique ==
  ASSUME NEW t, IsText(t), NEW v \in Vars(t), NEW w \in Vars(t), v.name = w.name
  PROVE  v = w
<1> DEFINE Named == {[name |-> x.name, static |-> x.static, ro |-> FALSE, size |-> x.size,
                      rel |-> x.rel, src |-> x.name] : x \in t.vars}
           Anon(k) == [name |-> Unique[k], static |-> TRUE, ro |-> t.anons[k].ro,
                       size |-> t.anons[k].size, rel |-> t.anons[k].rel,
                       src |-> t.anons[k].src]
<1>1. \A x \in Vars(t) : x \in Named \/ \E k \in DOMAIN t.anons : x = Anon(k)
  BY DEF Vars
<1>2. \A x \in Named : \E y \in t.vars :
        /\ x = [name |-> y.name, static |-> y.static, ro |-> FALSE, size |-> y.size,
                rel |-> y.rel, src |-> y.name]
        /\ y.name \in Names
  BY DEF IsText, VarDefs
<1>3. \A k \in DOMAIN t.anons : k \in DOMAIN Unique /\ Anon(k).name = Unique[k]
                                /\ Unique[k] \in Labels
  BY DEF IsText, Labels
<1>4. Names \cap Labels = {}
  BY ProjectAssumption
<1>5. CASE v \in Named /\ w \in Named
  <2>1. PICK x \in t.vars :
          v = [name |-> x.name, static |-> x.static, ro |-> FALSE, size |-> x.size,
               rel |-> x.rel, src |-> x.name]
    BY <1>5
  <2>2. PICK y \in t.vars :
          w = [name |-> y.name, static |-> y.static, ro |-> FALSE, size |-> y.size,
               rel |-> y.rel, src |-> y.name]
    BY <1>5
  <2>3. x = y
    BY <2>1, <2>2 DEF IsText
  <2> QED
    BY <2>1, <2>2, <2>3
<1>6. CASE v \notin Named /\ w \notin Named
  <2>1. PICK j \in DOMAIN t.anons : v = Anon(j)
    BY <1>1, <1>6
  <2>2. PICK k \in DOMAIN t.anons : w = Anon(k)
    BY <1>1, <1>6
  <2>3. j = k
    BY <1>3, <2>1, <2>2, ProjectAssumption
  <2> QED
    BY <2>1, <2>2, <2>3
<1>7. \A x \in Named : x.name \in Names
  BY <1>2
<1>8. \A x \in Vars(t) : x \notin Named => x.name \in Labels
  BY <1>1, <1>3
<1> QED
  BY <1>4, <1>5, <1>6, <1>7, <1>8

\* Where a new object goes identifies the variable.
LEMMA NewObjectUnique ==
  ASSUME NEW f, NEW t, IsText(t), NEW s, NEW v \in Vars(t), NEW w \in Vars(t),
         NewObject(f, v, s) = NewObject(f, w, s)
  PROVE  v = w
<1>1. v.name = w.name
  BY DEF NewObject, Object
<1> QED
  BY <1>1, VarsUnique

LEMMA CodegenSegs ==
  ASSUME MemoryInv, NEW f \in Files, NEW t \in Texts[f], codegen(f, t)
  PROVE  SegsOwned'
<1> DEFINE s == gen + 1
<1>1. /\ segs' = ReplaceCode(f, s) /\ codeseg' = [codeseg EXCEPT ![f] = s]
      /\ codeseg \in [Files -> 0 .. gen] /\ gen \in Nat
  BY DEF codegen, MemoryInv, MemoryTypeOK
<1>2. /\ DOMAIN segs = {codeseg[g] : g \in Files} \ {0}
      /\ \A g \in Files : codeseg[g] # 0 => segs[codeseg[g]].file = g
  BY DEF MemoryInv, SegsOwned
<1>3. \A g \in Files : g # f /\ codeseg[g] # 0 => codeseg[g] # codeseg[f]
  BY <1>2
<1>4. DOMAIN segs' = (DOMAIN segs \ {codeseg[f]}) \cup {s}
  BY <1>1 DEF ReplaceCode
<1>5. /\ codeseg'[f] = s /\ s # 0
      /\ \A g \in Files : g # f => codeseg'[g] = codeseg[g]
      /\ \A g \in Files : codeseg[g] # s
  BY <1>1
<1>6. DOMAIN segs' = {codeseg'[g] : g \in Files} \ {0}
  BY <1>2, <1>3, <1>4, <1>5
<1>7. \A g \in Files : codeseg'[g] # 0 => segs'[codeseg'[g]].file = g
  <2>1. segs'[s].file = f
    BY <1>1 DEF ReplaceCode
  <2>2. \A x \in DOMAIN segs' : x # s => segs'[x] = segs[x]
    BY <1>1, <1>4 DEF ReplaceCode
  <2>3. ASSUME NEW g \in Files, g # f, codeseg'[g] # 0
        PROVE  segs'[codeseg'[g]].file = g
    <3>1. codeseg'[g] \in DOMAIN segs' /\ codeseg'[g] # s
      BY <1>5, <1>6, <2>3
    <3> QED
      BY <1>2, <1>5, <2>2, <2>3, <3>1
  <2> QED
    BY <1>5, <2>1, <2>3
<1> QED
  BY <1>6, <1>7 DEF SegsOwned

\* What codegen does to the objects, in one place for the lemmas below.
LEMMA CodegenPlaces ==
  ASSUME MemoryInv, NEW f \in Files, NEW t \in Texts[f], codegen(f, t)
  PROVE  /\ IsText(t) /\ gen' = gen + 1 /\ gen \in Nat
         /\ \A v \in Vars(t) : /\ v \in VarRecords
                               /\ ScopeOf(f, v) \in {f, Global} /\ ScopeOf(f, v) \in Scopes
                               /\ v.ro => ScopeOf(f, v) = f /\ v.name \in Labels
         /\ DOMAIN objs' = (DOMAIN objs \ Discarded(f, t))
                           \cup {NewObject(f, v, gen') : v \in Recreated(f, t)}
         /\ \A o \in DOMAIN objs' : o \in DOMAIN objs => objs'[o] = objs[o]
         /\ \A sc \in Scopes, n \in Symbols :
              globalData'[sc][n] =
                IF \E v \in Recreated(f, t) : ScopeOf(f, v) = sc /\ v.name = n
                THEN gen' ELSE globalData[sc][n]
<1>1. IsText(t)
  BY ProjectAssumption
<1>2. gen' = gen + 1 /\ gen \in Nat
  BY DEF codegen, MemoryInv, MemoryTypeOK
<1>3. ASSUME NEW v \in Vars(t)
      PROVE  /\ v \in VarRecords
             /\ ScopeOf(f, v) \in {f, Global} /\ ScopeOf(f, v) \in Scopes
             /\ v.ro => ScopeOf(f, v) = f /\ v.name \in Labels
  BY <1>1, VarsType, ScopesType DEF ScopeOf
<1>4. objs' = EmitObjects(f, t, gen')
  BY <1>2 DEF codegen
<1>5. /\ DOMAIN objs' = (DOMAIN objs \ Discarded(f, t))
                        \cup {NewObject(f, v, gen') : v \in Recreated(f, t)}
      /\ \A o \in DOMAIN objs' : o \in DOMAIN objs => objs'[o] = objs[o]
  BY <1>4 DEF EmitObjects
<1>6. globalData' = PutData(f, t, gen')
  BY <1>2 DEF codegen
<1>7. ASSUME NEW sc \in Scopes, NEW n \in Symbols
      PROVE  globalData'[sc][n] =
               IF \E v \in Recreated(f, t) : ScopeOf(f, v) = sc /\ v.name = n
               THEN gen' ELSE globalData[sc][n]
  BY <1>6 DEF PutData
<1> QED
  BY <1>1, <1>2, <1>3, <1>5, <1>7

LEMMA ObjsNamed ==
  ASSUME NEW table, NEW o
  PROVE  o \in NamedBy(table) <=>
           \E sc \in Scopes, n \in Symbols :
             table[sc][n] # 0 /\ o = Object(sc, n, table[sc][n])
<1>1. ASSUME o \in NamedBy(table)
      PROVE  \E sc \in Scopes, n \in Symbols :
               table[sc][n] # 0 /\ o = Object(sc, n, table[sc][n])
  <2>1. PICK p \in Scopes \X Symbols :
          table[p[1]][p[2]] # 0 /\ o = Object(p[1], p[2], table[p[1]][p[2]])
    BY <1>1 DEF NamedBy
  <2>2. p[1] \in Scopes /\ p[2] \in Symbols
    OBVIOUS
  <2> QED
    BY <2>1, <2>2
<1>2. ASSUME NEW sc \in Scopes, NEW n \in Symbols,
             table[sc][n] # 0, o = Object(sc, n, table[sc][n])
      PROVE  o \in NamedBy(table)
  <2>1. <<sc, n>> \in Scopes \X Symbols /\ <<sc, n>>[1] = sc /\ <<sc, n>>[2] = n
    OBVIOUS
  <2>2. <<sc, n>> \in {q \in Scopes \X Symbols : table[q[1]][q[2]] # 0}
    BY <1>2, <2>1
  <2> QED
    BY <1>2, <2>1, <2>2 DEF NamedBy
<1> QED
  BY <1>1, <1>2

LEMMA CodegenObjs ==
  ASSUME MemoryInv, NEW f \in Files, NEW t \in Texts[f], codegen(f, t)
  PROVE  ObjsOwned'
<1> DEFINE Here(sc, n) == \E v \in Recreated(f, t) : ScopeOf(f, v) = sc /\ v.name = n
<1>1. \A o : o \in DOMAIN objs <=>
        \E sc \in Scopes, n \in Symbols :
          globalData[sc][n] # 0 /\ o = Object(sc, n, globalData[sc][n])
  BY ObjsNamed DEF MemoryInv, ObjsOwned
<1>2. \A sc \in Scopes, n \in Symbols :
        globalData'[sc][n] = IF Here(sc, n) THEN gen' ELSE globalData[sc][n]
  BY CodegenPlaces
<1>3. gen' # 0
  <2>1. gen' = gen + 1 /\ gen \in Nat
    BY CodegenPlaces
  <2> QED
    BY <2>1
<1>4. \A o : o \in Discarded(f, t) <=>
        \E v \in Vars(t) : /\ v.ro /\ globalData[ScopeOf(f, v)][v.name] # 0
                           /\ o = Object(ScopeOf(f, v), v.name, globalData[ScopeOf(f, v)][v.name])
  BY DEF Discarded
<1>5. \A v \in Recreated(f, t) :
        v \in Vars(t) /\ (v.ro \/ globalData[ScopeOf(f, v)][v.name] = 0)
  BY DEF Recreated
<1>6. \A v \in Vars(t) : v.ro => v \in Recreated(f, t)
  BY DEF Recreated
<1>7. \A v \in Vars(t) : ScopeOf(f, v) \in Scopes /\ v.name \in Symbols
  BY CodegenPlaces DEF VarRecords
<1>8. ASSUME NEW sc \in Scopes, NEW n \in Symbols, globalData[sc][n] # 0
      PROVE  Object(sc, n, globalData[sc][n]) \in Discarded(f, t) <=> Here(sc, n)
  <2>1. ASSUME Here(sc, n)
        PROVE  Object(sc, n, globalData[sc][n]) \in Discarded(f, t)
    BY <1>4, <1>5, <1>8, <2>1
  <2>2. ASSUME Object(sc, n, globalData[sc][n]) \in Discarded(f, t)
        PROVE  Here(sc, n)
    <3>1. PICK v \in Vars(t) :
            /\ v.ro
            /\ Object(sc, n, globalData[sc][n])
                 = Object(ScopeOf(f, v), v.name, globalData[ScopeOf(f, v)][v.name])
      BY <1>4, <2>2
    <3>2. ScopeOf(f, v) = sc /\ v.name = n
      BY <3>1 DEF Object
    <3> QED
      BY <1>6, <3>1, <3>2
  <2> QED
    BY <2>1, <2>2
<1>9. \A o : o \in DOMAIN objs' <=>
        \/ o \in DOMAIN objs /\ o \notin Discarded(f, t)
        \/ \E v \in Recreated(f, t) : o = Object(ScopeOf(f, v), v.name, gen')
  <2>1. DOMAIN objs' = (DOMAIN objs \ Discarded(f, t))
                       \cup {NewObject(f, v, gen') : v \in Recreated(f, t)}
    BY CodegenPlaces
  <2> QED
    BY <2>1 DEF NewObject
<1>10. ASSUME NEW o, o \in DOMAIN objs'
       PROVE  \E sc \in Scopes, n \in Symbols :
                globalData'[sc][n] # 0 /\ o = Object(sc, n, globalData'[sc][n])
  <2>1. CASE o \in DOMAIN objs /\ o \notin Discarded(f, t)
    <3>1. PICK sc \in Scopes, n \in Symbols :
            globalData[sc][n] # 0 /\ o = Object(sc, n, globalData[sc][n])
      BY <1>1, <2>1
    <3>2. ~Here(sc, n)
      BY <1>8, <2>1, <3>1
    <3>3. globalData'[sc][n] = globalData[sc][n]
      BY <1>2, <3>2
    <3> QED
      BY <3>1, <3>3
  <2>2. ASSUME NEW v \in Recreated(f, t), o = Object(ScopeOf(f, v), v.name, gen')
        PROVE  \E sc \in Scopes, n \in Symbols :
                 globalData'[sc][n] # 0 /\ o = Object(sc, n, globalData'[sc][n])
    <3>1. ScopeOf(f, v) \in Scopes /\ v.name \in Symbols
      BY <1>5, <1>7
    <3>2. globalData'[ScopeOf(f, v)][v.name] = gen'
      BY <1>2, <3>1
    <3> QED
      BY <1>3, <2>2, <3>1, <3>2
  <2> QED
    BY <1>9, <1>10, <2>1, <2>2
<1>11. ASSUME NEW sc \in Scopes, NEW n \in Symbols, globalData'[sc][n] # 0
       PROVE  Object(sc, n, globalData'[sc][n]) \in DOMAIN objs'
  <2>1. CASE Here(sc, n)
    BY <1>2, <1>9, <2>1
  <2>2. CASE ~Here(sc, n)
    BY <1>1, <1>2, <1>8, <1>9, <1>11, <2>2
  <2> QED
    BY <2>1, <2>2
<1>12. \A o : o \in DOMAIN objs' <=>
         \E sc \in Scopes, n \in Symbols :
           globalData'[sc][n] # 0 /\ o = Object(sc, n, globalData'[sc][n])
  BY <1>10, <1>11
<1>13. DOMAIN objs' = NamedBy(globalData')
  BY <1>12, ObjsNamed, ZenonT(40)
<1> QED
  BY <1>13 DEF ObjsOwned

LEMMA CodegenFixups ==
  ASSUME MemoryInv, phase # "freed", phase' # "freed",
         NEW f \in Files, NEW t \in Texts[f], codegen(f, t)
  PROVE  FixupsLive' /\ FixupsComplete'
<1> DEFINE s == gen + 1
<1>1. /\ fixups' = [fixups EXCEPT ![f] = MakeFixups(f, t, s)]
      /\ codeseg' = [codeseg EXCEPT ![f] = s] /\ built' = [built EXCEPT ![f] = t]
      /\ gen' = s /\ s # 0
      /\ fixups \in [Files -> SUBSET Fixups] /\ codeseg \in [Files -> 0 .. gen]
      /\ DOMAIN built = Files
  BY DEF codegen, MemoryInv, MemoryTypeOK
<1>2. /\ codeseg'[f] = s /\ fixups'[f] = MakeFixups(f, t, s) /\ built'[f] = t
      /\ \A g \in Files : g # f => /\ codeseg'[g] = codeseg[g] /\ fixups'[g] = fixups[g]
                                   /\ built'[g] = built[g]
  BY <1>1
<1>3. DOMAIN segs' = {codeseg'[g] : g \in Files} \ {0}
  BY CodegenSegs DEF SegsOwned
<1>4. ASSUME NEW g \in Files, g # f, NEW fx \in fixups'[g]
      PROVE  IF fx.kind = "code"
             THEN fx.at = codeseg'[g] /\ fx.at \in DOMAIN segs'
             ELSE /\ fx.at \in DOMAIN objs'
                  /\ fx.at[1] \in {g, Global} /\ fx.at[3] = codeseg'[g]
  <2>1. IF fx.kind = "code"
        THEN fx.at = codeseg[g] /\ fx.at \in DOMAIN segs
        ELSE /\ fx.at \in DOMAIN objs
             /\ fx.at[1] \in {g, Global} /\ fx.at[3] = codeseg[g]
    BY <1>2, <1>4 DEF MemoryInv, FixupsLive
  <2>2. CASE fx.kind = "code"
    <3>1. codeseg[g] # 0
      BY <2>1, <2>2 DEF MemoryInv, SegsOwned
    <3> QED
      BY <1>2, <1>3, <1>4, <2>1, <2>2, <3>1
  <2>3. CASE fx.kind # "code"
    <3>1. \A o \in Discarded(f, t) : o[1] = f
      <4>1. \A v \in Vars(t) : v.ro => ScopeOf(f, v) = f
        BY CodegenPlaces
      <4> QED
        BY <4>1 DEF Discarded, Object
    <3>2. fx.at[1] # f
      BY <1>4, <2>1, <2>3, ScopesType
    <3>3. DOMAIN objs \ Discarded(f, t) \subseteq DOMAIN objs'
      BY DEF codegen, EmitObjects
    <3> QED
      BY <1>2, <1>4, <2>1, <2>3, <3>1, <3>2, <3>3
  <2> QED
    BY <2>2, <2>3
<1>5. ASSUME NEW fx \in MakeFixups(f, t, s)
      PROVE  \/ \E n \in t.refs : fx = CodeFixup(s, n)
             \/ \E v \in Recreated(f, t) : fx = DataFixup(NewObject(f, v, s), v.rel.name)
  BY DEF MakeFixups
<1>6. ASSUME NEW fx \in fixups'[f]
      PROVE  IF fx.kind = "code"
             THEN fx.at = codeseg'[f] /\ fx.at \in DOMAIN segs'
             ELSE /\ fx.at \in DOMAIN objs'
                  /\ fx.at[1] \in {f, Global} /\ fx.at[3] = codeseg'[f]
  <2>1. CASE \E n \in t.refs : fx = CodeFixup(s, n)
    BY <1>1, <1>2, <1>3, <2>1 DEF CodeFixup
  <2>2. ASSUME NEW v \in Recreated(f, t), fx = DataFixup(NewObject(f, v, s), v.rel.name)
        PROVE  /\ fx.kind # "code" /\ fx.at \in DOMAIN objs'
               /\ fx.at[1] \in {f, Global} /\ fx.at[3] = codeseg'[f]
    <3>1. fx.at = NewObject(f, v, s) /\ fx.kind # "code"
      BY <2>2 DEF DataFixup
    <3>2. fx.at[1] = ScopeOf(f, v) /\ fx.at[3] = s
      BY <3>1 DEF NewObject, Object
    <3>3. v \in Vars(t)
      BY DEF Recreated
    <3>4. ScopeOf(f, v) \in {f, Global}
      BY <3>3, CodegenPlaces
    <3>5. NewObject(f, v, s) \in DOMAIN objs'
      BY DEF codegen, EmitObjects
    <3> QED
      BY <1>1, <1>2, <3>1, <3>2, <3>4, <3>5
  <2> QED
    BY <1>2, <1>5, <1>6, <2>1, <2>2
<1>7. FixupsLive'
  BY <1>4, <1>6 DEF FixupsLive
<1>8. ASSUME NEW fx \in fixups'[f], NEW fy \in fixups'[f],
             fx.kind = "data", fy.kind = "data", fx.at = fy.at
      PROVE  fx.name = fy.name
  <2>1. PICK v \in Recreated(f, t) : fx = DataFixup(NewObject(f, v, s), v.rel.name)
    BY <1>2, <1>5, <1>8 DEF CodeFixup
  <2>2. PICK w \in Recreated(f, t) : fy = DataFixup(NewObject(f, w, s), w.rel.name)
    BY <1>2, <1>5, <1>8 DEF CodeFixup
  <2>3. NewObject(f, v, s) = NewObject(f, w, s)
    BY <1>8, <2>1, <2>2 DEF DataFixup
  <2>4. v \in Vars(t) /\ w \in Vars(t) /\ IsText(t)
    BY CodegenPlaces DEF Recreated
  <2>5. v = w
    BY <2>3, <2>4, NewObjectUnique
  <2> QED
    BY <2>1, <2>2, <2>5 DEF DataFixup
<1>9. \A n \in built'[f].refs : CodeFixup(codeseg'[f], n) \in fixups'[f]
  BY <1>2 DEF MakeFixups
<1>10. FixupsComplete'
  <2>1. ASSUME NEW g \in Files, g # f, phase' # "freed", codeseg'[g] # 0
        PROVE  \A n \in built'[g].refs : CodeFixup(codeseg'[g], n) \in fixups'[g]
    BY <1>2, <2>1 DEF MemoryInv, FixupsComplete
  <2>2. ASSUME NEW g \in Files, g # f
        PROVE  /\ codeseg'[g] = 0 => fixups'[g] = {}
               /\ \A fx, fy \in fixups'[g] :
                    fx.kind = "data" /\ fy.kind = "data" /\ fx.at = fy.at => fx.name = fy.name
    BY <1>2, <2>2 DEF MemoryInv, FixupsComplete
  <2>3. codeseg'[f] # 0
    BY <1>1, <1>2
  <2> QED
    BY <1>8, <1>9, <2>1, <2>2, <2>3 DEF FixupsComplete
<1> QED
  BY <1>7, <1>10

LEMMA MemoryInit == Init => MemoryInv
<1> SUFFICES ASSUME Init PROVE MemoryInv
  OBVIOUS
<1>1. MemoryTypeOK
  BY TypeInit, TypeSplit
<1>2. /\ codeseg = [f \in Files |-> 0] /\ fixups = [f \in Files |-> {}]
      /\ globalData = [sc \in Scopes |-> [n \in Symbols |-> 0]]
      /\ DOMAIN segs = {} /\ DOMAIN objs = {}
  BY DEF Init, Nothing
<1>3. SegsOwned
  BY <1>2 DEF SegsOwned
<1>4. ObjsOwned
  BY <1>2, ObjsNamed DEF ObjsOwned
<1>5. FixupsLive /\ FixupsComplete
  BY <1>2 DEF FixupsLive, FixupsComplete
<1> QED
  BY <1>1, <1>3, <1>4, <1>5 DEF MemoryInv

\* The link loop changes the contents of segments and objects only.
LEMMA ContentsOnly ==
  ASSUME MemoryInv, MemoryTypeOK', phase' # "freed",
         UNCHANGED <<tables, codeseg, fixups, built>>,
         phase # "freed",
         DOMAIN segs' = DOMAIN segs, DOMAIN objs' = DOMAIN objs,
         \A s \in DOMAIN segs : segs'[s].file = segs[s].file
  PROVE  MemoryInv'
<1>1. UNCHANGED <<globalData, codeseg, fixups, built>>
  BY DEF tables
<1>2. SegsOwned'
  <2>1. \A f \in Files : codeseg[f] # 0 => codeseg[f] \in DOMAIN segs
    BY DEF MemoryInv, SegsOwned
  <2> QED
    BY <1>1, <2>1 DEF MemoryInv, SegsOwned
<1>3. ObjsOwned'
  BY <1>1 DEF MemoryInv, ObjsOwned
<1>4. FixupsLive' /\ FixupsComplete'
  BY <1>1 DEF MemoryInv, FixupsLive, FixupsComplete
<1> QED
  BY <1>2, <1>3, <1>4 DEF MemoryInv

LEMMA MemoryUnchanged ==
  ASSUME MemoryInv, phase = "freed" => phase' = "freed", UNCHANGED <<tables, mem>>
  PROVE  MemoryInv'
<1>1. /\ UNCHANGED <<exports, globalData>>
      /\ UNCHANGED <<gen, codeseg, segs, objs, fixups, built>>
  BY DEF tables, mem
<1>2. MemoryTypeOK'
  BY <1>1 DEF MemoryInv, MemoryTypeOK
<1>3. SegsOwned' /\ ObjsOwned' /\ FixupsLive'
  BY <1>1 DEF MemoryInv, SegsOwned, ObjsOwned, FixupsLive
<1>4. FixupsComplete'
  BY <1>1 DEF MemoryInv, FixupsComplete
<1> QED
  BY <1>2, <1>3, <1>4 DEF MemoryInv

LEMMA LinkFixupEffect ==
  ASSUME MemoryInv, cur \in Files, NEW fx \in fixups[cur],
         IF fx.kind = "code"
         THEN /\ segs' = [segs EXCEPT ![fx.at].slot[fx.name] = Resolve(cur, fx.name)]
              /\ UNCHANGED objs
         ELSE /\ objs' = [objs EXCEPT ![fx.at].val = Resolve(cur, fx.name)]
              /\ UNCHANGED segs
  PROVE  /\ DOMAIN segs' = DOMAIN segs /\ DOMAIN objs' = DOMAIN objs
         /\ \A s \in DOMAIN segs :
              /\ segs'[s].file = segs[s].file /\ segs'[s].exec = segs[s].exec
              /\ s # codeseg[cur] => segs'[s] = segs[s]
              /\ \A n \in Symbols :
                   segs'[s].slot[n] = IF fx.kind = "code" /\ s = fx.at /\ n = fx.name
                                      THEN Resolve(cur, fx.name) ELSE segs[s].slot[n]
         /\ \A o \in DOMAIN objs :
              objs'[o].val = IF fx.kind # "code" /\ o = fx.at
                             THEN Resolve(cur, fx.name) ELSE objs[o].val
<1>1. fx \in Fixups /\ fx.name \in Symbols
  BY DEF MemoryInv, MemoryTypeOK, Fixups
<1>2. CASE fx.kind = "code"
  <2>1. /\ segs' = [segs EXCEPT ![fx.at].slot[fx.name] = Resolve(cur, fx.name)]
        /\ UNCHANGED objs
    BY <1>2
  <2>2. fx.at = codeseg[cur] /\ fx.at \in DOMAIN segs
    BY <1>2 DEF MemoryInv, FixupsLive
  <2>3. \A s \in DOMAIN segs : segs[s] \in Segments
    BY DEF MemoryInv, MemoryTypeOK
  <2>4. DOMAIN segs' = DOMAIN segs /\ \A s \in DOMAIN segs : s # fx.at => segs'[s] = segs[s]
    BY <2>1
  <2>5. segs'[fx.at] = [segs[fx.at] EXCEPT !.slot[fx.name] = Resolve(cur, fx.name)]
    BY <2>1, <2>2
  <2>6. /\ segs'[fx.at].file = segs[fx.at].file /\ segs'[fx.at].exec = segs[fx.at].exec
        /\ \A n \in Symbols :
             segs'[fx.at].slot[n] = IF n = fx.name THEN Resolve(cur, fx.name)
                                    ELSE segs[fx.at].slot[n]
    BY <2>2, <2>3, <2>5 DEF Segments
  <2> QED
    BY <1>2, <2>1, <2>2, <2>4, <2>6
<1>3. CASE fx.kind # "code"
  <2>1. objs' = [objs EXCEPT ![fx.at].val = Resolve(cur, fx.name)] /\ UNCHANGED segs
    BY <1>3
  <2>2. fx.at \in DOMAIN objs
    BY <1>3 DEF MemoryInv, FixupsLive
  <2>3. \A o \in DOMAIN objs : objs[o] \in DataObjects
    BY DEF MemoryInv, MemoryTypeOK
  <2> QED
    BY <1>3, <2>1, <2>2, <2>3 DEF DataObjects
<1> QED
  BY <1>2, <1>3

LEMMA SetExecEffect ==
  ASSUME MemoryInv, NEW f \in Files, NEW b \in BOOLEAN, segs' = SetExec(f, b)
  PROVE  /\ DOMAIN segs' = DOMAIN segs
         /\ \A s \in DOMAIN segs :
              /\ segs'[s].file = segs[s].file /\ segs'[s].slot = segs[s].slot
              /\ s # codeseg[f] => segs'[s] = segs[s]
<1>1. CASE codeseg[f] = 0
  BY <1>1 DEF SetExec
<1>2. CASE codeseg[f] # 0
  <2>1. segs' = [segs EXCEPT ![codeseg[f]].exec = b]
    BY <1>2 DEF SetExec
  <2>2. \A s \in DOMAIN segs : segs[s] \in Segments
    BY DEF MemoryInv, MemoryTypeOK
  <2> QED
    BY <2>1, <2>2 DEF Segments
<1> QED
  BY <1>1, <1>2

-------------------------------------------------------------------------------
(***************************************************************************)
(* Linking: what is known half-way through the link loop.                  *)
(***************************************************************************)
Done(f, fx) ==
  /\ Resolve(f, fx.name) # None
  /\ IF fx.kind = "code" THEN segs[fx.at].slot[fx.name] = Resolve(f, fx.name)
     ELSE objs[fx.at].val \in {Resolve(f, fx.name), Stored}

\* The files before the loop variable are linked, and so are the fixups of its file
\* that are no longer in todo.
LinkProgress ==
  /\ phase \in {"link", "fix"} => \A f \in Files : f < cur => Current(f)
  /\ phase = "fix" => /\ todo \subseteq fixups[cur]
                      /\ \A fx \in fixups[cur] \ todo : Done(cur, fx)

\* Nothing was generated since the program was linked, or it is known not to be.
LinkedStands ==
  /\ linked => phase \in {"idle", "scan"} /\ \A f \in Files : Current(f)
  /\ phase = "scan" /\ compiledAny => ~linked
  /\ phase = "idle" /\ result /\ compiledAny => linked

IInv == TypeOK /\ MemoryInv /\ LinkProgress /\ LinkedStands

LEMMA MemoryStep == IInv /\ [Next]_vars => MemoryInv'
<1> SUFFICES ASSUME IInv, [Next]_vars PROVE MemoryInv'
  OBVIOUS
<1>1. MemoryInv /\ TypeOK /\ MemoryTypeOK' /\ ControlTypeOK
  <2>1. MemoryInv /\ TypeOK
    BY DEF IInv
  <2>2. TypeOK'
    BY <2>1, TypeStep
  <2> QED
    BY <2>1, <2>2, TypeSplit DEF TypeOK, MemoryTypeOK
<1>2. ASSUME UNCHANGED <<tables, mem>>, phase = "freed" => phase' = "freed" PROVE MemoryInv'
  BY <1>1, <1>2, MemoryUnchanged
<1>3. ASSUME NEW f \in Files, NEW t \in Texts[f], codegen(f, t),
             phase # "freed", phase' # "freed"
      PROVE  MemoryInv'
  BY <1>1, <1>3, CodegenSegs, CodegenObjs, CodegenFixups DEF MemoryInv
<1>4. ASSUME NEW o \in Files \cup {AllFiles, NoSuchFile}, BeginUpdate(o) PROVE MemoryInv'
  BY <1>2, <1>4 DEF BeginUpdate
<1>5. CASE SkipFile
  BY <1>2, <1>5 DEF SkipFile
<1>6. CASE CompileError
  BY <1>2, <1>6 DEF CompileError
<1>7. CASE CompileFile
  BY <1>3, <1>7 DEF CompileFile
<1>8. CASE CheckstepAbort
  BY <1>3, <1>8 DEF CheckstepAbort
<1>9. CASE EndCompile
  BY <1>2, <1>9 DEF EndCompile
<1>10. CASE LinkOpen
  <2>1. segs' = SetExec(cur, FALSE) /\ cur \in Files
    BY <1>10 DEF LinkOpen
  <2>2. /\ DOMAIN segs' = DOMAIN segs
        /\ \A s \in DOMAIN segs : segs'[s].file = segs[s].file
    BY <1>1, <2>1, SetExecEffect
  <2>3. UNCHANGED <<tables, codeseg, objs, fixups, built>> /\ phase = "link" /\ phase' = "fix"
    BY <1>10 DEF LinkOpen
  <2> QED
    BY <1>1, <2>2, <2>3, ContentsOnly
<1>11. CASE LinkFixup
  <2>1. PICK fx \in todo :
          IF fx.kind = "code"
          THEN /\ segs' = [segs EXCEPT ![fx.at].slot[fx.name] = Resolve(cur, fx.name)]
               /\ UNCHANGED objs
          ELSE /\ objs' = [objs EXCEPT ![fx.at].val = Resolve(cur, fx.name)]
               /\ UNCHANGED segs
    BY <1>11 DEF LinkFixup
  <2>2. phase = "fix" /\ phase' = phase /\ UNCHANGED <<tables, codeseg, fixups, built>>
    BY <1>11 DEF LinkFixup, ctl
  <2>3. cur \in Files /\ fx \in fixups[cur]
    BY <1>1, <2>2 DEF IInv, LinkProgress, ControlTypeOK
  <2>4. /\ DOMAIN segs' = DOMAIN segs /\ DOMAIN objs' = DOMAIN objs
        /\ \A s \in DOMAIN segs : segs'[s].file = segs[s].file
    BY <1>1, <2>1, <2>3, LinkFixupEffect
  <2> QED
    BY <1>1, <2>2, <2>4, ContentsOnly
<1>12. CASE LinkUndefined
  BY <1>2, <1>12 DEF LinkUndefined
<1>13. CASE LinkClose
  <2>1. segs' = SetExec(cur, TRUE) /\ cur \in Files
    BY <1>1, <1>13 DEF LinkClose, ControlTypeOK
  <2>2. /\ DOMAIN segs' = DOMAIN segs
        /\ \A s \in DOMAIN segs : segs'[s].file = segs[s].file
    BY <1>1, <2>1, SetExecEffect
  <2>3. UNCHANGED <<tables, codeseg, objs, fixups, built>> /\ phase = "fix" /\ phase' = "link"
    BY <1>13 DEF LinkClose
  <2> QED
    BY <1>1, <2>2, <2>3, ContentsOnly
<1>14. CASE LinkDone
  BY <1>2, <1>14 DEF LinkDone
<1>15. CASE ProgramStores
  <2>1. PICK o \in DOMAIN objs : objs' = [objs EXCEPT ![o].val = Stored]
    BY <1>15 DEF ProgramStores
  <2>2. DOMAIN objs' = DOMAIN objs
    BY <2>1
  <2>3. UNCHANGED <<tables, codeseg, segs, fixups, built>> /\ phase = "idle" /\ phase' = phase
    BY <1>15 DEF ProgramStores, ctl
  <2> QED
    BY <1>1, <2>2, <2>3, ContentsOnly
<1>16. CASE dyibicc_free
  <2>1. /\ globalData' = [sc \in Scopes |-> [n \in Symbols |-> 0]]
        /\ DOMAIN objs' = {} /\ fixups' = [f \in Files |-> {}] /\ phase' = "freed"
        /\ UNCHANGED <<codeseg, segs>>
    BY <1>16 DEF dyibicc_free, Nothing
  <2>2. SegsOwned'
    BY <1>1, <2>1 DEF MemoryInv, SegsOwned
  <2>3. ObjsOwned'
    <3>1. \A o : o \notin NamedBy(globalData')
      BY <2>1, ObjsNamed
    <3> QED
      BY <2>1, <3>1 DEF ObjsOwned
  <2>4. FixupsLive' /\ FixupsComplete'
    BY <2>1 DEF FixupsLive, FixupsComplete
  <2> QED
    BY <1>1, <2>2, <2>3, <2>4 DEF MemoryInv
<1>17. CASE UNCHANGED vars
  BY <1>2, <1>17 DEF vars, ctl
<1> QED
  BY <1>4, <1>5, <1>6, <1>7, <1>8, <1>9, <1>10, <1>11, <1>12, <1>13, <1>14, <1>15, <1>16, <1>17
  DEF Next, Compile, Link

LEMMA ResolveSame ==
  ASSUME UNCHANGED tables, NEW f, NEW n
  PROVE  Resolve(f, n)' = Resolve(f, n)
<1>1. UNCHANGED <<exports, globalData>>
  BY DEF tables
<1>2. Candidates(f, n)' = Candidates(f, n)
  BY <1>1 DEF Candidates, DataIn, symbol_lookup
<1>3. Found(f, n)' = Found(f, n)
  BY <1>2 DEF Found
<1> QED
  BY <1>2, <1>3 DEF Resolve

\* A step that does not touch the segment of f, and leaves its pointers as they are
\* or stored over, keeps f current.
LEMMA CurrentSame ==
  ASSUME NEW f \in Files, Current(f), UNCHANGED <<tables, codeseg, fixups, built>>,
         codeseg[f] # 0 => segs'[codeseg[f]] = segs[codeseg[f]],
         \A fx \in fixups[f] :
           fx.kind = "data" => objs'[fx.at].val \in {objs[fx.at].val, Stored}
  PROVE  Current(f)'
<1>1. UNCHANGED tables /\ UNCHANGED <<codeseg, fixups, built>>
  OBVIOUS
<1>2. \A n : Resolve(f, n)' = Resolve(f, n)
  BY <1>1, ResolveSame
<1> QED
  BY <1>1, <1>2 DEF Current

LEMMA CodesegsDiffer ==
  ASSUME MemoryInv, NEW f \in Files, NEW g \in Files, f # g, codeseg[f] # 0
  PROVE  codeseg[f] # codeseg[g] /\ codeseg[f] \in DOMAIN segs
BY DEF MemoryInv, SegsOwned

LEMMA LinkProgressStep == IInv /\ [Next]_vars => LinkProgress'
<1> SUFFICES ASSUME IInv, [Next]_vars PROVE LinkProgress'
  OBVIOUS
<1>1. MemoryInv /\ LinkProgress /\ MemoryTypeOK /\ ControlTypeOK
  BY TypeSplit DEF IInv
<1>2. ASSUME phase' \notin {"link", "fix"} PROVE LinkProgress'
  BY <1>2 DEF LinkProgress
<1>3. ASSUME NEW o \in Files \cup {AllFiles, NoSuchFile}, BeginUpdate(o) PROVE LinkProgress'
  BY <1>2, <1>3 DEF BeginUpdate
<1>4. CASE SkipFile
  BY <1>2, <1>4 DEF SkipFile
<1>5. CASE CompileError
  BY <1>2, <1>5 DEF CompileError
<1>6. CASE CompileFile
  BY <1>2, <1>6 DEF CompileFile
<1>7. CASE CheckstepAbort
  BY <1>2, <1>7 DEF CheckstepAbort
<1>8. CASE EndCompile
  <2>1. phase' = "idle" \/ (phase' = "link" /\ cur' = 1)
    BY <1>8 DEF EndCompile
  <2>2. \A f \in Files : ~(f < 1)
    BY DEF Files
  <2> QED
    BY <2>1, <2>2 DEF LinkProgress
<1>9. CASE LinkOpen
  <2>1. /\ phase = "link" /\ phase' = "fix" /\ cur' = cur /\ cur \in Files
        /\ segs' = SetExec(cur, FALSE) /\ todo' = fixups[cur]
        /\ UNCHANGED <<tables, codeseg, fixups, built>> /\ UNCHANGED objs
        /\ UNCHANGED fixups
    BY <1>9 DEF LinkOpen
  <2>2. \A s \in DOMAIN segs : s # codeseg[cur] => segs'[s] = segs[s]
    BY <1>1, <2>1, SetExecEffect
  <2>3. ASSUME NEW f \in Files, f < cur PROVE Current(f)'
    <3>1. Current(f) /\ f # cur
      BY <1>1, <2>1, <2>3 DEF LinkProgress, Files
    <3>2. codeseg[f] # 0 => segs'[codeseg[f]] = segs[codeseg[f]]
      BY <1>1, <2>1, <2>2, <3>1, CodesegsDiffer
    <3> QED
      BY <2>1, <3>1, <3>2, CurrentSame
  <2> QED
    BY <2>1, <2>3 DEF LinkProgress
<1>10. CASE LinkFixup
  <2>1. PICK fx \in todo :
          /\ Resolve(cur, fx.name) # None
          /\ IF fx.kind = "code"
             THEN /\ segs' = [segs EXCEPT ![fx.at].slot[fx.name] = Resolve(cur, fx.name)]
                  /\ UNCHANGED objs
             ELSE /\ objs' = [objs EXCEPT ![fx.at].val = Resolve(cur, fx.name)]
                  /\ UNCHANGED segs
          /\ todo' = todo \ {fx}
    BY <1>10 DEF LinkFixup
  <2>2. /\ phase = "fix" /\ phase' = phase /\ cur' = cur
        /\ UNCHANGED <<tables, codeseg, fixups, built>> /\ UNCHANGED tables
        /\ UNCHANGED fixups
    BY <1>10 DEF LinkFixup, ctl
  <2>3. cur \in Files /\ fx \in fixups[cur] /\ todo \subseteq fixups[cur]
    BY <1>1, <2>2 DEF LinkProgress, ControlTypeOK
  <2>4. /\ \A s \in DOMAIN segs :
             /\ s # codeseg[cur] => segs'[s] = segs[s]
             /\ \A n \in Symbols :
                  segs'[s].slot[n] = IF fx.kind = "code" /\ s = fx.at /\ n = fx.name
                                     THEN Resolve(cur, fx.name) ELSE segs[s].slot[n]
        /\ \A o \in DOMAIN objs :
             objs'[o].val = IF fx.kind # "code" /\ o = fx.at
                            THEN Resolve(cur, fx.name) ELSE objs[o].val
    BY <1>1, <2>1, <2>3, LinkFixupEffect
  <2>5. ASSUME NEW f \in Files, f < cur PROVE Current(f)'
    <3>1. Current(f) /\ f # cur
      BY <1>1, <2>2, <2>3, <2>5 DEF LinkProgress, Files
    <3>2. codeseg[f] # 0 => segs'[codeseg[f]] = segs[codeseg[f]]
      BY <1>1, <2>3, <2>4, <3>1, CodesegsDiffer
    <3>3. ASSUME NEW fy \in fixups[f], fy.kind = "data"
          PROVE  objs'[fy.at].val \in {objs[fy.at].val, Stored}
      <4>1. fy.at \in DOMAIN objs /\ fy.at[3] = codeseg[f]
        BY <1>1, <3>3 DEF MemoryInv, FixupsLive
      <4>2. codeseg[f] # 0
        BY <1>1, <3>3 DEF MemoryInv, FixupsComplete
      <4>3. fx.kind # "code" => fx.at[3] = codeseg[cur]
        BY <1>1, <2>3 DEF MemoryInv, FixupsLive
      <4>4. fx.kind # "code" => fy.at # fx.at
        BY <1>1, <2>3, <3>1, <4>1, <4>2, <4>3, CodesegsDiffer
      <4> QED
        BY <2>4, <4>1, <4>4
    <3> QED
      BY <2>2, <3>1, <3>2, <3>3, CurrentSame
  <2>6. ASSUME NEW fy \in fixups[cur], fy \notin todo' PROVE Done(cur, fy)'
    <3>1. Resolve(cur, fy.name)' = Resolve(cur, fy.name)
      BY <2>2, ResolveSame
    <3>2. fy = fx \/ Done(cur, fy)
      BY <1>1, <2>1, <2>2, <2>6 DEF LinkProgress
    <3>3. Resolve(cur, fy.name) # None
      BY <2>1, <3>2 DEF Done
    <3>4. fy \in Fixups /\ fx \in Fixups /\ fy.name \in Symbols
      BY <1>1, <2>3 DEF MemoryTypeOK, Fixups
    <3>5. CASE fy.kind = "code"
      <4>1. fy.at \in DOMAIN segs /\ fy.at = codeseg[cur]
        BY <1>1, <2>3, <3>5 DEF MemoryInv, FixupsLive
      <4>2. fy = fx \/ segs[fy.at].slot[fy.name] = Resolve(cur, fy.name)
        BY <3>2, <3>5 DEF Done
      <4>3. segs'[fy.at].slot[fy.name] = Resolve(cur, fy.name)
        BY <2>4, <3>4, <3>5, <4>1, <4>2
      <4>4. cur' = cur
        BY <2>2
      <4> QED
        BY <3>1, <3>3, <3>5, <4>3, <4>4 DEF Done
    <3>6. CASE fy.kind # "code"
      <4>1. fy.at \in DOMAIN objs
        BY <1>1, <2>3, <3>6 DEF MemoryInv, FixupsLive
      <4>2. fy = fx \/ objs[fy.at].val \in {Resolve(cur, fy.name), Stored}
        BY <3>2, <3>6 DEF Done
      <4>3. fx.kind # "code" /\ fy.at = fx.at => fy.name = fx.name
        BY <1>1, <2>3, <3>4, <3>6 DEF MemoryInv, FixupsComplete, Fixups
      <4>4. objs'[fy.at].val \in {Resolve(cur, fy.name), Stored}
        BY <2>4, <3>6, <4>1, <4>2, <4>3
      <4>5. cur' = cur
        BY <2>2
      <4> QED
        BY <3>1, <3>3, <3>6, <4>4, <4>5 DEF Done
    <3> QED
      BY <3>5, <3>6
  <2>7. todo' \subseteq fixups'[cur']
    BY <2>1, <2>2, <2>3
  <2>8. \A fy \in fixups'[cur'] \ todo' : Done(cur, fy)'
    BY <2>2, <2>6
  <2> QED
    BY <2>2, <2>5, <2>7, <2>8 DEF LinkProgress
<1>11. CASE LinkUndefined
  BY <1>2, <1>11 DEF LinkUndefined
<1>12. CASE LinkClose
  <2>1. /\ phase = "fix" /\ phase' = "link" /\ cur' = cur + 1 /\ cur \in Files /\ todo = {}
        /\ segs' = SetExec(cur, TRUE)
        /\ UNCHANGED <<tables, codeseg, fixups, built>> /\ UNCHANGED objs
        /\ UNCHANGED tables /\ UNCHANGED <<codeseg, fixups, built>>
    BY <1>1, <1>12 DEF LinkClose, ControlTypeOK
  <2>2. /\ DOMAIN segs' = DOMAIN segs
        /\ \A s \in DOMAIN segs : /\ segs'[s].slot = segs[s].slot
                                  /\ s # codeseg[cur] => segs'[s] = segs[s]
    BY <1>1, <2>1, SetExecEffect
  <2>3. ASSUME NEW f \in Files, f < cur PROVE Current(f)'
    <3>1. Current(f) /\ f # cur
      BY <1>1, <2>1, <2>3 DEF LinkProgress, Files
    <3>2. codeseg[f] # 0 => segs'[codeseg[f]] = segs[codeseg[f]]
      BY <1>1, <2>1, <2>2, <3>1, CodesegsDiffer
    <3> QED
      BY <2>1, <3>1, <3>2, CurrentSame
  <2>4. ASSUME NEW f, f = cur PROVE Current(f)'
    <3>1. \A n : Resolve(f, n)' = Resolve(f, n)
      BY <2>1, ResolveSame
    <3>2. \A fx \in fixups[f] : Done(f, fx)
      BY <1>1, <2>1, <2>4 DEF LinkProgress
    <3>3. ASSUME codeseg[f] # 0 PROVE Current(f)'
      <4>1. codeseg[f] \in DOMAIN segs
        BY <1>1, <2>1, <2>4, <3>3 DEF MemoryInv, SegsOwned
      <4>2. segs'[codeseg[f]].exec = TRUE
        <5>1. segs' = [segs EXCEPT ![codeseg[f]].exec = TRUE]
          BY <2>1, <2>4, <3>3 DEF SetExec
        <5>2. segs[codeseg[f]] \in Segments
          BY <1>1, <4>1 DEF MemoryTypeOK
        <5> QED
          BY <4>1, <5>1, <5>2 DEF Segments
      <4>3. ASSUME NEW n \in built[f].refs
            PROVE  Resolve(f, n) # None /\ segs'[codeseg[f]].slot[n] = Resolve(f, n)
        <5>1. CodeFixup(codeseg[f], n) \in fixups[f]
          BY <1>1, <2>1, <2>4, <3>3, <4>3 DEF MemoryInv, FixupsComplete
        <5>2. Done(f, CodeFixup(codeseg[f], n))
          BY <3>2, <5>1
        <5>3. Resolve(f, n) # None /\ segs[codeseg[f]].slot[n] = Resolve(f, n)
          BY <5>2 DEF Done, CodeFixup
        <5> QED
          BY <2>2, <4>1, <5>3
      <4>4. ASSUME NEW fx \in fixups[f], fx.kind = "data"
            PROVE  objs'[fx.at].val \in {Resolve(f, fx.name), Stored}
        BY <2>1, <3>2, <4>4 DEF Done
      <4> QED
        BY <2>1, <3>1, <4>2, <4>3, <4>4 DEF Current
    <3>4. ASSUME codeseg[f] = 0 PROVE Current(f)'
      BY <2>1, <3>4 DEF Current
    <3> QED
      BY <3>3, <3>4
  <2>5. \A f \in Files : f < cur' => f < cur \/ f = cur
    BY <2>1 DEF Files
  <2> QED
    BY <2>1, <2>3, <2>4, <2>5 DEF LinkProgress
<1>13. CASE LinkDone
  BY <1>2, <1>13 DEF LinkDone
<1>14. CASE ProgramStores
  BY <1>2, <1>14 DEF ProgramStores, ctl
<1>15. CASE dyibicc_free
  BY <1>2, <1>15 DEF dyibicc_free
<1>16. CASE UNCHANGED vars
  <2>1. UNCHANGED <<phase, cur, segs, objs, exports, globalData, codeseg, fixups, built, todo>>
    BY <1>16 DEF vars, ctl, tables, mem
  <2>2. \A f, n : Resolve(f, n)' = Resolve(f, n)
    BY <2>1, ResolveSame DEF tables
  <2> QED
    BY <1>1, <2>1, <2>2 DEF LinkProgress, Current, Done
<1> QED
  BY <1>3, <1>4, <1>5, <1>6, <1>7, <1>8, <1>9, <1>10, <1>11, <1>12, <1>13, <1>14, <1>15, <1>16
  DEF Next, Compile, Link

LEMMA LinkedStandsStep == IInv /\ [Next]_vars => LinkedStands'
<1> SUFFICES ASSUME IInv, [Next]_vars PROVE LinkedStands'
  OBVIOUS
<1>1. MemoryInv /\ LinkProgress /\ LinkedStands /\ ControlTypeOK
  BY TypeSplit DEF IInv
<1>2. ASSUME linked' = FALSE, ~(phase' = "idle" /\ result' /\ compiledAny')
      PROVE  LinkedStands'
  BY <1>2, Zenon DEF LinkedStands
<1>3. ASSUME UNCHANGED <<tables, mem>>, NEW f \in Files, Current(f) PROVE Current(f)'
  <2>1. UNCHANGED <<tables, codeseg, fixups, built>> /\ segs' = segs /\ objs' = objs
    BY <1>3 DEF mem
  <2> QED
    BY <1>3, <2>1, CurrentSame
<1>4. ASSUME UNCHANGED <<tables, mem>>, linked PROVE \A f \in Files : Current(f)'
  BY <1>1, <1>3, <1>4, Zenon DEF LinkedStands
<1>5. ASSUME NEW o \in Files \cup {AllFiles, NoSuchFile}, BeginUpdate(o) PROVE LinkedStands'
  <2>1. phase' = "scan" /\ ~compiledAny' /\ linked' = linked /\ UNCHANGED <<tables, mem>>
    BY <1>5 DEF BeginUpdate
  <2> QED
    BY <1>4, <2>1, Zenon DEF LinkedStands
<1>6. CASE SkipFile
  <2>1. /\ phase = "scan" /\ phase' = phase /\ compiledAny' = compiledAny /\ linked' = linked
        /\ UNCHANGED <<tables, mem>>
    BY <1>6 DEF SkipFile
  <2> QED
    BY <1>1, <1>4, <2>1, Zenon DEF LinkedStands
<1>7. CASE CompileError
  <2>1. phase' = "idle" /\ ~result' /\ linked' = linked /\ UNCHANGED <<tables, mem>>
    BY <1>7 DEF CompileError
  <2> QED
    BY <1>4, <2>1, Zenon DEF LinkedStands
<1>8. CASE CompileFile
  <2>1. linked' = FALSE /\ phase' = "scan"
    BY <1>8, Zenon DEF CompileFile, codegen
  <2> QED
    BY <1>2, <2>1
<1>9. CASE CheckstepAbort
  <2>1. linked' = FALSE /\ ~result'
    BY <1>9, Zenon DEF CheckstepAbort, codegen
  <2> QED
    BY <1>2, <2>1
<1>10. CASE EndCompile
  <2>1. /\ phase = "scan" /\ compiledAny' = compiledAny /\ linked' = linked
        /\ UNCHANGED <<tables, mem>>
        /\ \/ compiledAny /\ phase' = "link"
           \/ ~compiledAny /\ phase' = "idle"
    BY <1>10 DEF EndCompile
  <2> QED
    BY <1>1, <1>4, <2>1, Zenon DEF LinkedStands
<1>11. CASE LinkOpen
  <2>1. linked' = FALSE /\ phase' = "fix"
    BY <1>11 DEF LinkOpen
  <2> QED
    BY <1>2, <2>1
<1>12. CASE LinkFixup
  <2>1. phase = "fix" /\ phase' = phase /\ linked' = linked
    BY <1>12 DEF LinkFixup, ctl
  <2>2. ~linked
    BY <1>1, <2>1 DEF LinkedStands
  <2> QED
    BY <2>1, <2>2 DEF LinkedStands
<1>13. CASE LinkUndefined
  <2>1. phase = "fix" /\ phase' = "idle" /\ linked' = linked /\ ~result'
    BY <1>13 DEF LinkUndefined
  <2>2. ~linked
    BY <1>1, <2>1 DEF LinkedStands
  <2> QED
    BY <2>1, <2>2, Zenon DEF LinkedStands
<1>14. CASE LinkClose
  <2>1. phase = "fix" /\ phase' = "link" /\ linked' = linked
    BY <1>14 DEF LinkClose
  <2>2. ~linked
    BY <1>1, <2>1 DEF LinkedStands
  <2> QED
    BY <2>1, <2>2 DEF LinkedStands
<1>15. CASE LinkDone
  <2>1. phase = "link" /\ cur = NumFiles + 1 /\ UNCHANGED <<tables, mem>> /\ phase' = "idle"
    BY <1>15 DEF LinkDone
  <2>2. linked'
    BY <1>15 DEF LinkDone
  <2>3. \A f \in Files : f < cur
    BY <2>1, NumFilesType DEF Files
  <2>4. \A f \in Files : Current(f)'
    BY <1>1, <1>3, <2>1, <2>3 DEF LinkProgress
  <2> QED
    BY <2>1, <2>2, <2>4, Zenon DEF LinkedStands
<1>16. CASE ProgramStores
  <2>1. /\ phase = "idle" /\ linked
        /\ phase' = phase /\ result' = result /\ compiledAny' = compiledAny /\ linked' = linked
        /\ UNCHANGED <<tables, codeseg, fixups, built>> /\ segs' = segs
    BY <1>16 DEF ProgramStores, ctl
  <2>2. PICK o \in DOMAIN objs : objs' = [objs EXCEPT ![o].val = Stored]
    BY <1>16 DEF ProgramStores
  <2>3. ASSUME NEW f \in Files PROVE Current(f)'
    <3>1. Current(f)
      BY <1>1, <2>1 DEF LinkedStands
    <3>2. ASSUME NEW fx \in fixups[f], fx.kind = "data"
          PROVE  objs'[fx.at].val \in {objs[fx.at].val, Stored}
      <4>1. fx.at \in DOMAIN objs
        BY <1>1, <3>2 DEF MemoryInv, FixupsLive
      <4>2. objs[fx.at] \in DataObjects
        BY <1>1, <4>1 DEF MemoryInv, MemoryTypeOK
      <4> QED
        BY <2>2, <4>1, <4>2 DEF DataObjects
    <3> QED
      BY <2>1, <3>1, <3>2, CurrentSame
  <2> QED
    BY <1>1, <2>1, <2>3, Zenon DEF LinkedStands
<1>17. CASE dyibicc_free
  <2>1. linked' = FALSE /\ phase' = "freed"
    BY <1>17 DEF dyibicc_free
  <2> QED
    BY <1>2, <2>1
<1>18. CASE UNCHANGED vars
  <2>1. /\ phase' = phase /\ result' = result /\ compiledAny' = compiledAny /\ linked' = linked
        /\ UNCHANGED <<tables, mem>>
    BY <1>18 DEF vars, ctl
  <2> QED
    BY <1>1, <1>4, <2>1, Zenon DEF LinkedStands
<1> QED
  BY <1>5, <1>6, <1>7, <1>8, <1>9, <1>10, <1>11, <1>12, <1>13, <1>14, <1>15, <1>16, <1>17, <1>18
  DEF Next, Compile, Link

LEMMA IInvInit == Init => IInv
<1> SUFFICES ASSUME Init PROVE IInv
  OBVIOUS
<1>1. TypeOK /\ MemoryInv
  BY TypeInit, MemoryInit
<1>2. LinkProgress
  BY DEF Init, LinkProgress
<1>3. LinkedStands
  BY Zenon DEF Init, LinkedStands
<1> QED
  BY <1>1, <1>2, <1>3 DEF IInv

LEMMA IInvStep == IInv /\ [Next]_vars => IInv'
BY TypeStep, MemoryStep, LinkProgressStep, LinkedStandsStep DEF IInv

THEOREM Invariance == Spec => []IInv
<1>1. Init => IInv
  BY IInvInit
<1>2. IInv /\ [Next]_vars => IInv'
  BY IInvStep
<1> QED
  BY <1>1, <1>2, PTL DEF Spec

-------------------------------------------------------------------------------
\* Recompiling neither leaks a file's old code nor unmaps another file's.
THEOREM SegsOwnedTheorem == Spec => []SegsOwned
<1>1. IInv => SegsOwned
  BY DEF IInv, MemoryInv
<1> QED
  BY <1>1, Invariance, PTL

\* The data objects are those the symbol tables name, no more and no less.
THEOREM ObjsOwnedTheorem == Spec => []ObjsOwned
<1>1. IInv => ObjsOwned
  BY DEF IInv, MemoryInv
<1> QED
  BY <1>1, Invariance, PTL

\* The link loop never writes through a stale fixup.
THEOREM FixupsLiveTheorem == Spec => []FixupsLive
<1>1. IInv => FixupsLive
  BY DEF IInv, MemoryInv
<1> QED
  BY <1>1, Invariance, PTL

\* After a successful update, and after one that failed before it replaced anything,
\* every file is executable and linked to the present address of every symbol.
THEOREM LinkedIsCurrentTheorem == Spec => []LinkedIsCurrent
<1>1. IInv => LinkedIsCurrent
  BY DEF IInv, LinkedStands, LinkedIsCurrent
<1> QED
  BY <1>1, Invariance, PTL

-------------------------------------------------------------------------------
(***************************************************************************)
(* What the host may rely on between updates.                              *)
(***************************************************************************)

(***************************************************************************)
(* Exports.  If files keep their global functions, each entry of a table   *)
(* of exports is a function of the current code of a file that defines it. *)
(***************************************************************************)
BuiltFromTexts == \A f \in Files : codeseg[f] # 0 => built[f] \in Texts[f] /\ built[f].ok

OwnExports ==
  \A f \in Files, n \in Symbols :
    exports[f][n] = None \/ (codeseg[f] # 0 /\ exports[f][n] = CodeAddr(codeseg[f], n))

GlobalExports ==
  \A n \in Symbols :
    exports[Global][n] = None
    \/ \E f \in Files : /\ codeseg[f] # 0 /\ Defines(built[f], n, FALSE)
                        /\ exports[Global][n] = CodeAddr(codeseg[f], n)

ExportsOwned == BuiltFromTexts /\ OwnExports /\ GlobalExports

LEMMA ExportsInit == Init => ExportsOwned
<1> SUFFICES ASSUME Init PROVE ExportsOwned
  OBVIOUS
<1>1. /\ codeseg = [f \in Files |-> 0]
      /\ exports = [sc \in Scopes |-> [n \in Symbols |-> None]]
  BY DEF Init
<1> QED
  BY <1>1, ScopesType DEF ExportsOwned, BuiltFromTexts, OwnExports, GlobalExports

LEMMA ExportsCodegen ==
  ASSUME StableSymbols, MemoryTypeOK, ExportsOwned,
         NEW f \in Files, NEW t \in Texts[f], t.ok, codegen(f, t)
  PROVE  ExportsOwned'
<1> DEFINE s == gen + 1
<1>1. /\ codeseg' = [codeseg EXCEPT ![f] = s] /\ built' = [built EXCEPT ![f] = t]
      /\ codeseg \in [Files -> 0 .. gen] /\ DOMAIN built = Files
      /\ gen \in Nat /\ exports' = fill_out_text_exports(f, t, s)
  BY DEF codegen, MemoryTypeOK
<1>2. /\ codeseg'[f] = s /\ s # 0 /\ built'[f] = t
      /\ \A g \in Files : g # f => codeseg'[g] = codeseg[g] /\ built'[g] = built[g]
  BY <1>1
<1>3. BuiltFromTexts'
  BY <1>2 DEF ExportsOwned, BuiltFromTexts
<1>4. ASSUME NEW n \in Symbols
      PROVE  /\ exports'[f][n] = IF Defines(t, n, TRUE) THEN CodeAddr(s, n) ELSE None
             /\ \A g \in Files : g # f => exports'[g][n] = exports[g][n]
             /\ exports'[Global][n] =
                  IF Defines(t, n, FALSE) THEN CodeAddr(s, n) ELSE exports[Global][n]
  BY <1>1, ScopesType DEF fill_out_text_exports
<1>5. OwnExports'
  <2>1. ASSUME NEW g \in Files, NEW n \in Symbols
        PROVE  exports'[g][n] = None
               \/ (codeseg'[g] # 0 /\ exports'[g][n] = CodeAddr(codeseg'[g], n))
    <3>1. CASE g = f
      <4>1. exports'[f][n] = CodeAddr(s, n) \/ exports'[f][n] = None
        BY <1>4
      <4> QED
        BY <4>1, <1>2, <3>1
    <3>2. CASE g # f
      <4>1. exports[g][n] = None \/ (codeseg[g] # 0 /\ exports[g][n] = CodeAddr(codeseg[g], n))
        BY DEF ExportsOwned, OwnExports
      <4>2. exports'[g][n] = exports[g][n] /\ codeseg'[g] = codeseg[g]
        BY <1>2, <1>4, <3>2
      <4> QED
        BY <4>1, <4>2
    <3> QED
      BY <3>1, <3>2
  <2> QED
    BY <2>1 DEF OwnExports
<1>6. ASSUME NEW n \in Symbols
      PROVE  exports'[Global][n] = None
             \/ \E g \in Files : /\ codeseg'[g] # 0 /\ Defines(built'[g], n, FALSE)
                                 /\ exports'[Global][n] = CodeAddr(codeseg'[g], n)
  <2>1. CASE Defines(t, n, FALSE)
    BY <1>2, <1>4, <2>1
  <2>2. CASE ~Defines(t, n, FALSE) /\ exports[Global][n] # None
    <3>1. PICK g \in Files : /\ codeseg[g] # 0 /\ Defines(built[g], n, FALSE)
                             /\ exports[Global][n] = CodeAddr(codeseg[g], n)
      BY <2>2 DEF ExportsOwned, GlobalExports
    <3>2. g # f
      BY <2>2, <3>1 DEF ExportsOwned, BuiltFromTexts, StableSymbols
    <3> QED
      BY <1>2, <1>4, <2>2, <3>1, <3>2
  <2>3. CASE ~Defines(t, n, FALSE) /\ exports[Global][n] = None
    BY <1>4, <2>3
  <2> QED
    BY <2>1, <2>2, <2>3
<1>7. GlobalExports'
  BY <1>6 DEF GlobalExports
<1> QED
  BY <1>3, <1>5, <1>7 DEF ExportsOwned

LEMMA ExportsStep ==
  ASSUME StableSymbols
  PROVE  IInv /\ ExportsOwned /\ [Next]_vars => ExportsOwned'
<1> SUFFICES ASSUME IInv, ExportsOwned, [Next]_vars PROVE ExportsOwned'
  OBVIOUS
<1>1. MemoryTypeOK
  BY TypeSplit DEF IInv
<1>2. ASSUME UNCHANGED <<tables, codeseg, built>> PROVE ExportsOwned'
  <2>1. exports' = exports /\ codeseg' = codeseg /\ built' = built
    BY <1>2 DEF tables
  <2> QED
    BY <2>1 DEF ExportsOwned, BuiltFromTexts, OwnExports, GlobalExports
<1>3. ASSUME NEW o \in Files \cup {AllFiles, NoSuchFile}, BeginUpdate(o) PROVE ExportsOwned'
  BY <1>2, <1>3 DEF BeginUpdate, mem
<1>4. CASE Compile
  <2>1. CASE SkipFile
    BY <1>2, <2>1 DEF SkipFile, mem
  <2>2. CASE CompileError
    BY <1>2, <2>2 DEF CompileError, mem
  <2>3. CASE CompileFile
    BY <1>1, <2>3, ExportsCodegen DEF CompileFile
  <2>4. CASE CheckstepAbort
    BY <1>1, <2>4, ExportsCodegen DEF CheckstepAbort
  <2>5. CASE EndCompile
    BY <1>2, <2>5 DEF EndCompile, mem
  <2> QED
    BY <1>4, <2>1, <2>2, <2>3, <2>4, <2>5 DEF Compile
<1>5. CASE Link
  <2>1. UNCHANGED <<tables, codeseg, built>>
    BY <1>5 DEF Link, LinkOpen, LinkFixup, LinkUndefined, LinkClose, LinkDone, mem
  <2> QED
    BY <1>2, <2>1
<1>6. CASE ProgramStores
  BY <1>2, <1>6 DEF ProgramStores
<1>7. CASE dyibicc_free
  <2>1. /\ exports' = [sc \in Scopes |-> [n \in Symbols |-> None]]
        /\ codeseg' = codeseg /\ built' = built
    BY <1>7 DEF dyibicc_free
  <2> QED
    BY <2>1, ScopesType DEF ExportsOwned, BuiltFromTexts, OwnExports, GlobalExports
<1>8. CASE UNCHANGED vars
  BY <1>2, <1>8 DEF vars, mem
<1> QED
  BY <1>3, <1>4, <1>5, <1>6, <1>7, <1>8 DEF Next

LEMMA TablesLive ==
  ASSUME IInv, ExportsOwned, NEW f \in Files, NEW n \in Symbols
  PROVE  Live(Resolve(f, n)) /\ Live(exports[Global][n])
<1>1. SegsOwned /\ ObjsOwned
  BY DEF IInv, MemoryInv
<1>2. \A g \in Files : codeseg[g] # 0 => Live(CodeAddr(codeseg[g], n))
  BY <1>1 DEF SegsOwned, Live, CodeAddr
<1>3. Live(None)
  BY DEF Live, None
<1>4. Live(exports[f][n]) /\ Live(exports[Global][n])
  BY <1>2, <1>3 DEF ExportsOwned, OwnExports, GlobalExports
<1>5. ASSUME NEW sc \in Scopes PROVE Live(DataIn(sc, n))
  <2>1. globalData[sc][n] # 0 => Object(sc, n, globalData[sc][n]) \in DOMAIN objs
    BY <1>1, ObjsNamed DEF ObjsOwned
  <2> QED
    BY <1>3, <2>1 DEF DataIn, Live, DataAddr
<1>6. Live(symbol_lookup(n))
  BY <1>3 DEF symbol_lookup, Live, HostAddr
<1> QED
  BY <1>3, <1>4, <1>5, <1>6, ScopesType, ResolveCases

\* If files keep their global functions, dyibicc_find_export never hands out an
\* address in unmapped code after a successful update.
THEOREM ExportsLiveTheorem == ASSUME StableSymbols PROVE Spec => []ExportsLive
<1>1. Init => ExportsOwned
  BY ExportsInit
<1>2. IInv /\ ExportsOwned /\ [Next]_vars => ExportsOwned'
  BY ExportsStep
<1>3. IInv /\ ExportsOwned => ExportsLive
  BY TablesLive, NumFilesType DEF ExportsLive, Files
<1> QED
  BY <1>1, <1>2, <1>3, Invariance, PTL DEF Spec

\* And no address in linked code dangles.
THEOREM TargetsLiveTheorem == ASSUME StableSymbols PROVE Spec => []TargetsLive
<1>1. Init => ExportsOwned
  BY ExportsInit
<1>2. IInv /\ ExportsOwned /\ [Next]_vars => ExportsOwned'
  BY ExportsStep
<1>3. ASSUME IInv, ExportsOwned PROVE TargetsLive
  <2>1. SUFFICES ASSUME linked, NEW f \in Files, codeseg[f] # 0, NEW n \in built[f].refs
                 PROVE  Live(segs[codeseg[f]].slot[n])
    BY DEF TargetsLive
  <2>2. n \in Symbols
    <3>1. IsText(built[f])
      BY <1>3 DEF IInv, TypeOK
    <3> QED
      BY <2>1, <3>1 DEF IsText
  <2>3. segs[codeseg[f]].slot[n] = Resolve(f, n)
    <3>1. Current(f)
      BY <1>3, <2>1 DEF IInv, LinkedStands
    <3> QED
      BY <2>1, <3>1 DEF Current
  <2> QED
    BY <1>3, <2>2, <2>3, TablesLive
<1> QED
  BY <1>1, <1>2, <1>3, Invariance, PTL DEF Spec

(***************************************************************************)
(* What the program stored in a named variable survives.                   *)
(***************************************************************************)
LEMMA CodegenKeepsNamed ==
  ASSUME MemoryInv, NEW f \in Files, NEW t \in Texts[f], codegen(f, t),
         NEW o \in DOMAIN objs, o[2] \in Names
  PROVE  /\ o \in DOMAIN objs' /\ objs'[o] = objs[o]
         /\ globalData'[o[1]][o[2]] = o[3]
<1>1. PICK sc \in Scopes, n \in Symbols :
        globalData[sc][n] # 0 /\ o = Object(sc, n, globalData[sc][n])
  BY ObjsNamed DEF MemoryInv, ObjsOwned
<1>2. n = o[2] /\ sc = o[1] /\ globalData[sc][n] = o[3] /\ n \notin Labels
  BY <1>1, ProjectAssumption DEF Object
<1>3. \A v \in Vars(t) : v.ro => v.name \in Labels
  BY CodegenPlaces
<1>4. o \notin Discarded(f, t)
  BY <1>2, <1>3 DEF Discarded, Object
<1>5. ~\E v \in Recreated(f, t) : ScopeOf(f, v) = sc /\ v.name = n
  BY <1>1, <1>2, <1>3 DEF Recreated
<1>6. o \in DOMAIN objs' /\ objs'[o] = objs[o]
  BY <1>4 DEF codegen, EmitObjects
<1>7. globalData'[sc][n] = globalData[sc][n]
  <2>1. globalData' = PutData(f, t, gen + 1)
    BY DEF codegen
  <2> QED
    BY <1>5, <2>1 DEF PutData
<1> QED
  BY <1>2, <1>6, <1>7

LEMMA StoresStep == IInv /\ [Next]_vars => [StoresKept]_vars
<1> DEFINE Kept(o) ==
             /\ o \in DOMAIN objs' /\ objs'[o].val = Stored
             /\ globalData'[o[1]][o[2]] = o[3]
           Resolved(o) ==
             /\ o \in DOMAIN objs' /\ globalData'[o[1]][o[2]] = o[3]
             /\ phase = "fix"
             /\ \E n \in Symbols :
                  DataFixup(o, n) \in fixups[cur] /\ objs'[o].val = Resolve(cur, n)
<1> SUFFICES ASSUME IInv, [Next]_vars, phase' # "freed",
                    NEW o \in DOMAIN objs, o[2] \in Names, objs[o].val = Stored
             PROVE  Kept(o) \/ Resolved(o)
  BY DEF StoresKept
<1>1. MemoryInv /\ ControlTypeOK /\ MemoryTypeOK
  BY TypeSplit DEF IInv
<1>2. globalData[o[1]][o[2]] = o[3]
  BY <1>1, ObjsNamed DEF MemoryInv, ObjsOwned, Object
<1>3. ASSUME UNCHANGED <<objs, globalData>>
      PROVE  Kept(o)
  BY <1>2, <1>3
<1>4. ASSUME NEW u \in Files \cup {AllFiles, NoSuchFile}, BeginUpdate(u)
      PROVE  UNCHANGED <<objs, globalData>>
  BY <1>4 DEF BeginUpdate, mem, tables
<1>5. CASE SkipFile \/ CompileError \/ EndCompile
  BY <1>3, <1>5 DEF SkipFile, CompileError, EndCompile, mem, tables
<1>6. CASE CompileFile \/ CheckstepAbort
  BY <1>1, <1>6, CodegenKeepsNamed DEF CompileFile, CheckstepAbort
<1>7. CASE LinkOpen \/ LinkUndefined \/ LinkClose \/ LinkDone
  BY <1>3, <1>7 DEF LinkOpen, LinkUndefined, LinkClose, LinkDone, mem, tables
<1>8. CASE LinkFixup
  <2>1. PICK fx \in todo :
          IF fx.kind = "code"
          THEN /\ segs' = [segs EXCEPT ![fx.at].slot[fx.name] = Resolve(cur, fx.name)]
               /\ UNCHANGED objs
          ELSE /\ objs' = [objs EXCEPT ![fx.at].val = Resolve(cur, fx.name)]
               /\ UNCHANGED segs
    BY <1>8 DEF LinkFixup
  <2>2. cur \in Files /\ fx \in fixups[cur] /\ globalData' = globalData
    BY <1>1, <1>8 DEF LinkFixup, IInv, LinkProgress, ControlTypeOK, tables
  <2>3. /\ DOMAIN objs' = DOMAIN objs
        /\ objs'[o].val = IF fx.kind # "code" /\ o = fx.at
                          THEN Resolve(cur, fx.name) ELSE objs[o].val
    BY <1>1, <2>1, <2>2, LinkFixupEffect
  <2>4. CASE fx.kind # "code" /\ o = fx.at
    <3>1. fx \in Fixups
      BY <1>1, <2>2 DEF MemoryTypeOK
    <3>2. fx = DataFixup(o, fx.name) /\ fx.name \in Symbols
      BY <2>4, <3>1 DEF Fixups, DataFixup
    <3>3. phase = "fix"
      BY <1>8 DEF LinkFixup
    <3> QED
      BY <1>2, <2>2, <2>3, <2>4, <3>2, <3>3
  <2>5. CASE ~(fx.kind # "code" /\ o = fx.at)
    BY <1>2, <2>2, <2>3, <2>5
  <2> QED
    BY <2>4, <2>5
<1>9. CASE ProgramStores
  <2>1. PICK p \in DOMAIN objs : objs' = [objs EXCEPT ![p].val = Stored]
    BY <1>9 DEF ProgramStores
  <2>2. objs[o] \in DataObjects
    BY <1>1 DEF MemoryTypeOK
  <2>3. o \in DOMAIN objs' /\ objs'[o].val = Stored
    BY <2>1, <2>2 DEF DataObjects
  <2>4. globalData' = globalData
    BY <1>9 DEF ProgramStores, tables
  <2> QED
    BY <1>2, <2>3, <2>4
<1>10. CASE dyibicc_free
  BY <1>10 DEF dyibicc_free
<1>11. CASE UNCHANGED vars
  BY <1>3, <1>11 DEF vars, mem, tables
<1> QED
  BY <1>3, <1>4, <1>5, <1>6, <1>7, <1>8, <1>9, <1>10, <1>11 DEF Next, Compile, Link

\* A named variable is never moved or made again, and a value stored in it is lost, if at
\* all, to the resolution of a fixup that the linker has for that variable.
THEOREM StoresSurviveTheorem == Spec => StoresSurvive
<1>1. IInv /\ [Next]_vars => [StoresKept]_vars
  BY StoresStep
<1> QED
  BY <1>1, Invariance, PTL DEF Spec, StoresSurvive
===============================================================================
