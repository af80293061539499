----------------------------- MODULE GlobalsProofs -----------------------------
(***************************************************************************)
(* The symbols of a translation unit are those C wants, for every one.     *)
(*                                                                         *)
(* The properties speak of the end, pc = "emit"; the invariant carries     *)
(* there what parse knew on the way.  Every object tells which declaration *)
(* it was made of (ObjectsMade), every declaration behind decl has its     *)
(* object (DeclarationsMade), and in a valid unit a name stands for the    *)
(* one function it can mean, with the linkage of its first declaration     *)
(* (FileScope).  A use is remembered (UsesOK), and only uses are (RefsOK,  *)
(* RootsOK); mark_live follows what is remembered (LiveOK).  scan_globals  *)
(* works on a list it is relinking: the witness S of ListOK is the set of  *)
(* what it has kept so far.                                                *)
(***************************************************************************)
EXTENDS StandardGlobals, SequenceTheorems, WellFoundedInduction, TLAPS

\* The declarations of which an object has been made.
Made == {k \in DOMAIN prog : k < decl \/ (k = decl /\ pc = "body")}

ObjectOK(obj) ==
  /\ obj.func => ~obj.init /\ ~obj.tentative
  /\ ~obj.func => ~obj.root /\ obj.refs = {} /\ ~obj.inline
  /\ obj.refs # {} => obj.func /\ obj.def
  /\ obj.tentative => obj.def /\ ~obj.init
  /\ obj.func /\ ~(obj.static /\ obj.inline) => obj.root
ObjectsOK == \A o \in Objects : ObjectOK(objs[o])

ScopeOK ==
  \A n \in Names :
    /\ scope[n] # 0 => objs[scope[n]].name = n
    /\ local[n] # 0 => objs[local[n]].name = n

BodyOK ==
  /\ pc = "body" =>
       /\ decl \in DOMAIN prog /\ owner # 0
       /\ item \in 1 .. Len(Decl.items) + 1
       /\ Decl.func => current = owner
       /\ ~Decl.func => /\ ~objs[owner].func /\ (objs[owner].init <=> Decl.def)
                        /\ local = NoScope
       /\ \A n \in LocalNames(decl, item) : find_var(n) # 0
  /\ pc = "parse" => local = NoScope
  /\ current # 0 =>
       /\ objs[current].func /\ objs[current].def
       /\ \E k \in Made : prog[k].func /\ prog[k].def
  /\ pc \notin {"parse", "body"} => decl = Len(prog) + 1

\* Where an object comes from.
FunctionOf(obj, k) == prog[k].func /\ prog[k].def /\ prog[k].name = obj.name
VariableOf(obj, k) ==
  /\ ~prog[k].func /\ prog[k].name = obj.name
  /\ (obj.init <=> prog[k].def) /\ (obj.tentative <=> Tentative(k))
  /\ (obj.def <=> "extern" \notin prog[k].spec) /\ (obj.static <=> "static" \in prog[k].spec)
ObjectsMade ==
  /\ \A o \in Objects :
       /\ objs[o].func /\ objs[o].def => \E k \in Made : FunctionOf(objs[o], k)
       /\ ~objs[o].func /\ (objs[o].def \/ objs[o].init) => \E k \in Made : VariableOf(objs[o], k)
  /\ \A o, p \in Objects :
       o # p /\ ~objs[o].func /\ ~objs[p].func /\ objs[o].def /\ objs[p].def /\ objs[o].name = objs[p].name =>
         \E j, k \in Made : j # k /\ VariableOf(objs[o], j) /\ VariableOf(objs[p], k)

\* What is made of a declaration.
DeclarationsMade ==
  \A k \in Made :
    /\ scope[prog[k].name] # 0
    /\ ~prog[k].func => \E o \in Objects : ~objs[o].func /\ VariableOf(objs[o], k)
    /\ prog[k].func /\ prog[k].def => \E o \in Objects : objs[o].func /\ objs[o].def /\ FunctionOf(objs[o], k)

\* In a valid unit the file scope has all functions, but prototypes in bodies.
StaticSpec(spec) == "static" \in spec \/ ("inline" \in spec /\ "extern" \notin spec)
FileScope ==
  /\ \A o \in Objects : objs[o].func => scope[objs[o].name] = o \/ (~objs[o].def /\ ~objs[o].static)
  /\ \A n \in Names :
       scope[n] # 0 =>
         /\ First(n) \in Made
         /\ objs[scope[n]].func <=> IsFunction(n)
         /\ objs[scope[n]].func => (objs[scope[n]].static <=> StaticSpec(prog[First(n)].spec))
  /\ \A o \in Objects : \A u \in objs[o].uses : ~objs[o].func /\ objs[u].func => scope[objs[u].name] = u
  /\ \A o \in Objects : ~objs[o].func => ~IsFunction(objs[o].name)

\* Uses, references, and roots.
UsesOK ==
  \A o \in Objects : \A u \in objs[o].uses :
    /\ objs[o].func /\ objs[u].func => objs[u].name \in objs[o].refs
    /\ ~objs[o].func => objs[o].init /\ \E k \in Made : ~prog[k].func /\ objs[u].name \in UsesIn(k)
RefsOK ==
  \A o \in Objects : \A n \in objs[o].refs :
    \E v \in Objects : /\ v = o \/ objs[v].init
                       /\ \E u \in objs[v].uses : objs[u].name = n
RootsOK ==
  \A o \in Objects : objs[o].func /\ objs[o].static /\ objs[o].inline /\ objs[o].root =>
    \E v \in Objects : objs[v].init /\ o \in objs[v].uses
RootsKept ==
  ~LateInitialiser /\ ~ForgottenRoot =>
    \A o \in Objects : \A u \in objs[o].uses : ~objs[o].func /\ objs[u].func => objs[u].root

\* What is live.
LiveOK ==
  /\ \A o \in live \union pending :
       objs[o].func /\ (objs[o].root \/ \E p \in live \ {o} : o \in Callees(p))
  /\ pc \in {"mark", "scan", "emit"} =>
       /\ \A o \in Objects : objs[o].root => o \in live \union pending
       /\ \A p \in live : Callees(p) \subseteq live \union pending
  /\ pc \in {"parse", "body"} => live = {} /\ pending = {}
  /\ pc \in {"scan", "emit"} => pending = {}

(***************************************************************************)
(* The list while it is scanned: S is what is kept, from first to cur; what *)
(* was dropped and what is to come is linked as it was.                    *)
(***************************************************************************)
Decided(S) ==
  \A o \in Objects : o > at =>
    IF o \in S
      THEN objs[o].tentative =>
             \A p \in Objects \ {o} : objs[p].def /\ ~objs[p].tentative => objs[p].name # objs[o].name
      ELSE objs[o].tentative /\ \E p \in Objects \ {o} : objs[p].def /\ objs[p].name = objs[o].name
LinkedIn(S) ==
  /\ S = {} => cur = 0 /\ first = 0
  /\ S # {} => cur \in S /\ first \in S
  /\ \A o \in S :
       /\ cur <= o /\ o <= first
       /\ o # cur => next[o] \in S /\ next[o] < o /\ \A p \in S : p < o => p <= next[o]
Scanning(S) ==
  /\ LinkedIn(S)
  /\ \A o \in S : at < o
  /\ \A o \in Objects : o \notin S \/ o = cur => next[o] = o - 1
  /\ Decided(S)
ListOK ==
  /\ pc \in {"parse", "body", "mark"} => cur = 0 /\ first = 0
  /\ pc \in {"parse", "body", "mark", "scan"} => head = Len(objs)
  /\ pc \in {"parse", "body", "mark"} => \A o \in Objects : next[o] = o - 1
  /\ pc = "scan" => \E S \in SUBSET Objects : Scanning(S)
  /\ pc = "emit" => at = 0 /\ Decided(Listed)

Parts ==
  /\ ObjectsOK /\ ScopeOK /\ BodyOK /\ ObjectsMade /\ DeclarationsMade
  /\ Valid => FileScope /\ RootsKept
  /\ UsesOK /\ RefsOK /\ RootsOK /\ LiveOK /\ ListOK

IInv ==
  /\ TypeOK
  /\ Valid => pc # "error"
  /\ pc # "error" => Parts

-------------------------------------------------------------------------------
(***************************************************************************)
(* Declarations and objects.                                               *)
(***************************************************************************)
LEMMA DeclTypes ==
  ASSUME TypeOK
  PROVE /\ prog \in Seq(Declarations) /\ Len(prog) \in Nat /\ DOMAIN prog = 1 .. Len(prog) /\ decl \in Nat
        /\ \A k \in DOMAIN prog :
             /\ prog[k].name \in Names /\ prog[k].func \in BOOLEAN /\ prog[k].def \in BOOLEAN
             /\ prog[k].items \in Seq(Items)
             /\ prog[k].def \/ prog[k].items = <<>>
             /\ \A i \in DOMAIN prog[k].items :
                  /\ prog[k].items[i][1] \in {"use", "proto", "extern"} /\ prog[k].items[i][2] \in Names
                  /\ prog[k].func \/ prog[k].items[i][1] = "use"
<1>1. /\ prog \in Seq(Declarations)
      /\ \A k \in DOMAIN prog :
           /\ prog[k].def \/ prog[k].items = <<>>
           /\ prog[k].func \/ \A i \in DOMAIN prog[k].items : prog[k].items[i][1] = "use"
  BY ProgramsAssumption DEF TypeOK
<1>2. Len(prog) \in Nat /\ DOMAIN prog = 1 .. Len(prog) /\ \A k \in DOMAIN prog : prog[k] \in Declarations
  BY <1>1
<1>3. decl \in Nat
  BY <1>2 DEF TypeOK
<1>4. ASSUME NEW k \in DOMAIN prog
      PROVE /\ prog[k].name \in Names /\ prog[k].func \in BOOLEAN /\ prog[k].def \in BOOLEAN
            /\ prog[k].items \in Seq(Items)
  BY <1>2 DEF Declarations
<1>5. ASSUME NEW k \in DOMAIN prog, NEW i \in DOMAIN prog[k].items
      PROVE prog[k].items[i][1] \in {"use", "proto", "extern"} /\ prog[k].items[i][2] \in Names
  BY <1>4 DEF Items
<1> QED
  BY <1>1, <1>2, <1>3, <1>4, <1>5

LEMMA ObjectTypes ==
  ASSUME TypeOK
  PROVE /\ Len(objs) \in Nat /\ Objects = 1 .. Len(objs)
        /\ \A o \in Objects :
             /\ objs[o] \in ObjType
             /\ objs[o].name \in Names /\ objs[o].func \in BOOLEAN /\ objs[o].def \in BOOLEAN
             /\ objs[o].static \in BOOLEAN /\ objs[o].inline \in BOOLEAN /\ objs[o].tentative \in BOOLEAN
             /\ objs[o].init \in BOOLEAN /\ objs[o].root \in BOOLEAN
             /\ objs[o].refs \subseteq Names /\ objs[o].uses \subseteq Objects
<1>1. Len(objs) \in Nat /\ Objects = 1 .. Len(objs) /\ \A o \in Objects : objs[o] \in ObjType
  BY DEF TypeOK, Objects
<1> QED
  BY <1>1 DEF TypeOK, ObjType

LEMMA FunctionFields ==
  ASSUME NEW d, d.name \in Names, d.def \in BOOLEAN
  PROVE LET new == NewFunction(d)
        IN  /\ new \in ObjType
            /\ new.name = d.name /\ new.func /\ (new.def <=> d.def)
            /\ (new.static <=> StaticSpec(d.spec)) /\ (new.inline <=> "inline" \in d.spec)
            /\ ~new.tentative /\ ~new.init /\ (new.root <=> ~(new.static /\ new.inline))
            /\ new.refs = {} /\ new.uses = {}
<1> DEFINE inline == "inline" \in d.spec
           static == "static" \in d.spec \/ ("inline" \in d.spec /\ "extern" \notin d.spec)
           root == ~(static /\ "inline" \in d.spec)
           new == NewFunction(d)
<1>2. static \in BOOLEAN /\ inline \in BOOLEAN /\ root \in BOOLEAN
  OBVIOUS
<1>3. new = [NewObject(d.name) EXCEPT
                          !.func = TRUE, !.def = d.def, !.static = static, !.inline = inline, !.root = root]
  BY DEF NewFunction
<1>4. (static <=> StaticSpec(d.spec)) /\ (inline <=> "inline" \in d.spec) /\ (root <=> ~(static /\ inline))
  BY DEF StaticSpec
<1> HIDE DEF static, inline, root, new
<1>5. /\ new \in ObjType
      /\ new.name = d.name /\ new.func /\ new.def = d.def /\ new.static = static /\ new.inline = inline
      /\ ~new.tentative /\ ~new.init /\ new.root = root /\ new.refs = {} /\ new.uses = {}
  BY <1>2, <1>3 DEF NewObject, ObjType
<1>6. /\ (new.static <=> StaticSpec(d.spec)) /\ (new.inline <=> "inline" \in d.spec)
      /\ (new.root <=> ~(new.static /\ new.inline))
  BY <1>4, <1>5, Zenon
<1> QED
  BY <1>5, <1>6 DEF new

LEMMA VariableFields ==
  ASSUME NEW d, d.name \in Names, d.def \in BOOLEAN
  PROVE LET new == NewVariable(d)
        IN  /\ new \in ObjType
            /\ new.name = d.name /\ ~new.func /\ (new.def <=> "extern" \notin d.spec)
            /\ (new.static <=> "static" \in d.spec) /\ ~new.inline
            /\ (new.tentative <=> ~d.def /\ "extern" \notin d.spec) /\ (new.init <=> d.def)
            /\ ~new.root /\ new.refs = {} /\ new.uses = {}
<1> DEFINE def == "extern" \notin d.spec
           static == "static" \in d.spec
           tentative == ~d.def /\ "extern" \notin d.spec
           new == NewVariable(d)
<1>2. def \in BOOLEAN /\ static \in BOOLEAN /\ tentative \in BOOLEAN
  OBVIOUS
<1>3. new = [NewObject(d.name) EXCEPT
               !.def = def, !.static = static, !.init = d.def, !.tentative = tentative]
  BY DEF NewVariable
<1>4. /\ (def <=> "extern" \notin d.spec) /\ (static <=> "static" \in d.spec)
      /\ (tentative <=> ~d.def /\ "extern" \notin d.spec)
  OBVIOUS
<1> HIDE DEF def, static, tentative, new
<1>5. /\ new \in ObjType
      /\ new.name = d.name /\ ~new.func /\ new.def = def /\ new.static = static /\ ~new.inline
      /\ new.tentative = tentative /\ new.init = d.def /\ ~new.root /\ new.refs = {} /\ new.uses = {}
  BY <1>2, <1>3 DEF NewObject, ObjType
<1>6. /\ (new.def <=> "extern" \notin d.spec) /\ (new.static <=> "static" \in d.spec)
      /\ (new.tentative <=> ~d.def /\ "extern" \notin d.spec)
  BY <1>4, <1>5, Zenon
<1> QED
  BY <1>5, <1>6 DEF new

LEMMA ExternFields ==
  ASSUME NEW n \in Names
  PROVE LET new == [NewObject(n) EXCEPT !.def = FALSE, !.static = FALSE]
        IN  /\ new \in ObjType
            /\ new.name = n /\ ~new.func /\ ~new.def /\ ~new.static /\ ~new.inline
            /\ ~new.tentative /\ ~new.init /\ ~new.root /\ new.refs = {} /\ new.uses = {}
BY DEF NewObject, ObjType

\* What has not changed in an object: all but def, root, refs and uses.
Fixed(old, new) ==
  /\ new.name = old.name /\ new.func = old.func /\ new.static = old.static /\ new.inline = old.inline
  /\ new.tentative = old.tentative /\ new.init = old.init

LEMMA RedeclaredFields ==
  ASSUME TypeOK, NEW o \in Objects, NEW d, d.def \in BOOLEAN
  PROVE LET new == Redeclared(o, d)
        IN  /\ new \in ObjType /\ Fixed(objs[o], new)
            /\ (new.def <=> objs[o].def \/ d.def) /\ (new.root <=> ~(objs[o].static /\ objs[o].inline))
            /\ new.refs = objs[o].refs /\ new.uses = objs[o].uses
<1>1. objs[o] \in ObjType
  BY ObjectTypes
<1> QED
  BY <1>1 DEF Redeclared, ObjType, Fixed

LEMMA UsedFields ==
  ASSUME TypeOK, owner # 0, NEW t \in Objects
  PROVE /\ Used(t) \in Seq(ObjType) /\ Len(Used(t)) = Len(objs)
        /\ \A o \in Objects :
             /\ Fixed(objs[o], Used(t)[o]) /\ Used(t)[o].def = objs[o].def
             /\ Used(t)[o].uses = IF o = owner THEN objs[o].uses \union {t} ELSE objs[o].uses
             /\ Used(t)[o].root <=> objs[o].root \/ (o = t /\ objs[t].func /\ current = 0)
             /\ Used(t)[o].refs = IF objs[t].func /\ current # 0 /\ o = current
                                    THEN objs[o].refs \union {objs[t].name} ELSE objs[o].refs
<1> DEFINE used == [objs EXCEPT ![owner].uses = @ \union {t}]
<1>1. /\ objs \in Seq(ObjType) /\ owner \in Objects /\ current \in Objects \union {0}
      /\ Len(objs) \in Nat /\ Objects = 1 .. Len(objs) /\ t \in Nat
  BY ObjectTypes, SMTT(30) DEF TypeOK
<1>2. /\ used \in Seq(ObjType) /\ Len(used) = Len(objs)
      /\ \A o \in Objects :
           /\ Fixed(objs[o], used[o]) /\ used[o].def = objs[o].def
           /\ used[o].uses = IF o = owner THEN objs[o].uses \union {t} ELSE objs[o].uses
           /\ used[o].root = objs[o].root /\ used[o].refs = objs[o].refs
  <2>1. ASSUME NEW o \in Objects
        PROVE  /\ used[o] \in ObjType
               /\ Fixed(objs[o], used[o]) /\ used[o].def = objs[o].def
               /\ used[o].uses = IF o = owner THEN objs[o].uses \union {t} ELSE objs[o].uses
               /\ used[o].root = objs[o].root /\ used[o].refs = objs[o].refs
    <3>1. objs[o] \in ObjType
      BY ObjectTypes
    <3> QED
      BY <1>1, <3>1 DEF ObjType, Fixed, Objects
  <2>2. used \in Seq(ObjType) /\ Len(used) = Len(objs)
    <3>1. DOMAIN used = 1 .. Len(objs)
      BY <1>1 DEF Objects
    <3>2. used \in [1 .. Len(objs) -> ObjType]
      <4>1. used = [o \in 1 .. Len(objs) |-> used[o]]
        BY <3>1
      <4> HIDE DEF used
      <4> QED
        BY <1>1, <2>1, <4>1
    <3> HIDE DEF used
    <3> QED
      BY <1>1, <3>2, SeqDef
  <2> QED
    BY <2>1, <2>2
<1> HIDE DEF used
<1>3. CASE ~objs[t].func
  <2>1. Used(t) = used
    BY <1>3 DEF Used, used
  <2> QED
    BY <1>1, <1>2, <1>3, <2>1, ObjectTypes
<1>4. CASE objs[t].func /\ current = 0
  <2>1. used[t] \in ObjType
    BY <1>1, <1>2
  <2> DEFINE root == [used[t] EXCEPT !.root = TRUE]
  <2>2. Used(t) = [used EXCEPT ![t] = root]
    BY <1>4 DEF Used, used
  <2>3. /\ root \in ObjType /\ Fixed(used[t], root)
        /\ root.def = used[t].def /\ root.uses = used[t].uses /\ root.root /\ root.refs = used[t].refs
    BY <2>1 DEF Fixed, ObjType
  <2> HIDE DEF root
  <2>4. Used(t) \in Seq(ObjType) /\ Len(Used(t)) = Len(objs)
    BY <1>1, <1>2, <2>2, <2>3
  <2>5. Used(t)[t] = root /\ \A o \in Objects \ {t} : Used(t)[o] = used[o]
    BY <1>1, <1>2, <2>2
  <2>6. /\ Fixed(objs[t], Used(t)[t]) /\ Used(t)[t].def = objs[t].def /\ Used(t)[t].root
        /\ Used(t)[t].uses = used[t].uses /\ Used(t)[t].refs = used[t].refs
    BY <1>2, <2>3, <2>5 DEF Fixed
  <2>7. ASSUME NEW o \in Objects
        PROVE  /\ Fixed(objs[o], Used(t)[o]) /\ Used(t)[o].def = objs[o].def
               /\ Used(t)[o].uses = used[o].uses /\ Used(t)[o].refs = used[o].refs
               /\ Used(t)[o].root <=> objs[o].root \/ o = t
    BY <1>2, <2>5, <2>6, ZenonT(40)
  <2> QED
    BY <1>2, <1>4, <2>4, <2>7
<1>5. CASE objs[t].func /\ current # 0
  <2>1. Used(t) = [used EXCEPT ![current].refs = @ \union {objs[t].name}]
    BY <1>5 DEF Used, used
  <2>2. objs[t].name \in Names
    BY ObjectTypes
  <2>3. current \in Objects /\ used[current] \in ObjType
    BY <1>1, <1>2, <1>5
  <2> DEFINE ref == [used[current] EXCEPT !.refs = @ \union {objs[t].name}]
  <2>4. Used(t) = [used EXCEPT ![current] = ref]
    BY <2>1
  <2>5. /\ ref \in ObjType /\ Fixed(used[current], ref)
        /\ ref.def = used[current].def /\ ref.uses = used[current].uses /\ ref.root = used[current].root
        /\ ref.refs = used[current].refs \union {objs[t].name}
    BY <2>2, <2>3 DEF Fixed, ObjType
  <2> HIDE DEF ref
  <2>6. Used(t) \in Seq(ObjType) /\ Len(Used(t)) = Len(objs)
    BY <1>1, <1>2, <2>3, <2>4, <2>5
  <2>7. Used(t)[current] = ref /\ \A o \in Objects \ {current} : Used(t)[o] = used[o]
    BY <1>1, <1>2, <2>3, <2>4
  <2>8. /\ Fixed(objs[current], Used(t)[current]) /\ Used(t)[current].def = objs[current].def
        /\ Used(t)[current].uses = used[current].uses /\ (Used(t)[current].root <=> objs[current].root)
        /\ Used(t)[current].refs = objs[current].refs \union {objs[t].name}
    BY <1>2, <2>3, <2>5, <2>7 DEF Fixed
  <2>9. ASSUME NEW o \in Objects
        PROVE  /\ Fixed(objs[o], Used(t)[o]) /\ Used(t)[o].def = objs[o].def
               /\ Used(t)[o].uses = used[o].uses /\ (Used(t)[o].root <=> objs[o].root)
               /\ Used(t)[o].refs = IF o = current THEN objs[o].refs \union {objs[t].name} ELSE objs[o].refs
    BY <1>2, <2>7, <2>8, ZenonT(40)
  <2> QED
    BY <1>2, <1>5, <2>6, <2>9
<1> QED
  BY <1>3, <1>4, <1>5

-------------------------------------------------------------------------------
(***************************************************************************)
(* The unit does not change.                                               *)
(***************************************************************************)
LEMMA SameUnit ==
  ASSUME prog' = prog
  PROVE /\ \A n \in Names : /\ Declared(n)' = Declared(n) /\ First(n)' = First(n)
                            /\ IsFunction(n)' <=> IsFunction(n)
                            /\ Defined(n)' <=> Defined(n)
        /\ \A k : /\ Tentative(k)' <=> Tentative(k)
                  /\ UsesIn(k)' = UsesIn(k)
                  /\ \A i : LocalNames(k, i)' = LocalNames(k, i)
        /\ LocalDecls' = LocalDecls
        /\ Valid' <=> Valid
        /\ LateInitialiser' <=> LateInitialiser
        /\ ForgottenRoot' <=> ForgottenRoot
<1>1. \A n \in Names : Declared(n)' = Declared(n)
  BY DEF Declared
<1>2. \A n \in Names : First(n)' = First(n) /\ (IsFunction(n)' <=> IsFunction(n)) /\ (Defined(n)' <=> Defined(n))
  BY <1>1 DEF First, IsFunction, Defined
<1>3. \A k : /\ Tentative(k)' <=> Tentative(k)
             /\ UsesIn(k)' = UsesIn(k)
             /\ \A i : LocalNames(k, i)' = LocalNames(k, i)
  BY DEF Tentative, UsesIn, LocalNames
<1>4. LocalDecls' = LocalDecls
  BY DEF LocalDecls
<1>5. Valid' <=> Valid
  BY DEF Valid, OneKind, OneLinkage, KnownUses, Declared, First, IsFunction, Defined, Internal, LocalDecls, LocalNames
<1>6. LateInitialiser' <=> LateInitialiser
  BY DEF LateInitialiser, UsesIn
<1>7. ForgottenRoot' <=> ForgottenRoot
  BY DEF ForgottenRoot, UsesIn, Declared, LocalDecls
<1> QED
  BY <1>1, <1>2, <1>3, <1>4, <1>5, <1>6, <1>7

-------------------------------------------------------------------------------
\* Smallest and largest numbers of a set.
LEMMA Least ==
  ASSUME NEW S \in SUBSET Nat, S # {}
  PROVE \E x \in S : \A y \in S : x <= y
<1> DEFINE R == OpToRel(<, Nat)
<1>1. \A x, y \in Nat : y < x => <<y, x>> \in R
  BY DEF OpToRel
<1>2. IsWellFoundedOn(R, Nat)
  BY NatLessThanWellFounded DEF R
<1> HIDE DEF R
<1>3. PICK x \in S : \A y \in S : ~(<<y, x>> \in R)
  BY <1>2, WFMin, Zenon
<1>4. ASSUME NEW y \in S PROVE x <= y
  <2>1. x \in Nat /\ y \in Nat
    OBVIOUS
  <2>2. ~(y < x)
    BY <1>1, <1>3, <2>1
  <2> QED
    BY <2>1, <2>2
<1> QED
  BY <1>4

LEMMA Greatest ==
  ASSUME NEW S \in SUBSET Nat, S # {}, NEW b \in Nat, \A x \in S : x <= b
  PROVE \E x \in S : \A y \in S : y <= x
<1> DEFINE D == {d \in Nat : b - d \in S}
<1>1. \A x \in S : b - x \in D
  BY b - 0 = b
<1>2. D \in SUBSET Nat /\ D # {}
  BY <1>1
<1>3. PICK d \in D : \A y \in D : d <= y
  BY <1>2, Least
<1>4. ASSUME NEW y \in S PROVE y <= b - d
  BY <1>1, <1>3
<1> QED
  BY <1>3, <1>4

LEMMA FirstOf ==
  ASSUME TypeOK, NEW n \in Names, NEW k \in Declared(n)
  PROVE /\ First(n) \in Declared(n) /\ Declared(n) \subseteq DOMAIN prog /\ Declared(n) \subseteq Nat
        /\ \A j \in Declared(n) : First(n) <= j
<1>1. Declared(n) \in SUBSET Nat /\ Declared(n) # {} /\ Declared(n) \subseteq DOMAIN prog
  BY DeclTypes DEF Declared
<1>2. \E f \in Declared(n) : \A j \in Declared(n) : f <= j
  BY <1>1, Least
<1> QED
  BY <1>1, <1>2 DEF First

-------------------------------------------------------------------------------
(***************************************************************************)
(* What a new object, a redeclaration and a use leave as it should be.     *)
(***************************************************************************)
LEMMA Appended ==
  ASSUME TypeOK, NEW obj \in ObjType, objs' = Append(objs, obj)
  PROVE /\ Objects' = Objects \union {Len(objs) + 1} /\ Len(objs) + 1 \notin Objects
        /\ \A o \in Objects : objs'[o] = objs[o]
        /\ objs'[Len(objs) + 1] = obj
        /\ objs' \in Seq(ObjType) /\ Len(objs') = Len(objs) + 1
<1>1. objs \in Seq(ObjType) /\ Len(objs) \in Nat /\ Objects = 1 .. Len(objs)
  BY ObjectTypes DEF TypeOK
<1> QED
  BY <1>1 DEF Objects

LEMMA SameOf ==
  ASSUME prog' = prog, NEW o
  PROVE \A k : /\ FunctionOf(objs[o], k)' <=> FunctionOf(objs'[o], k)
               /\ VariableOf(objs[o], k)' <=> VariableOf(objs'[o], k)
BY SameUnit DEF FunctionOf, VariableOf

LEMMA AppendKeeps ==
  ASSUME TypeOK, ObjectsOK, ObjectsMade, UsesOK, RefsOK, RootsOK,
         NEW obj \in ObjType, objs' = Append(objs, obj), prog' = prog, Made \subseteq Made',
         ObjectOK(obj), obj.uses = {}, obj.refs = {},
         ~(obj.func /\ obj.static /\ obj.inline /\ obj.root),
         obj.func /\ obj.def => \E k \in Made' : FunctionOf(obj, k),
         ~obj.func /\ (obj.def \/ obj.init) => \E k \in Made' \ Made : VariableOf(obj, k)
  PROVE ObjectsOK' /\ ObjectsMade' /\ UsesOK' /\ RefsOK' /\ RootsOK' /\ (RootsKept => RootsKept')
<1> DEFINE new == Len(objs) + 1
<1>1. /\ Objects' = Objects \union {new} /\ new \notin Objects
      /\ \A o \in Objects : objs'[o] = objs[o]
      /\ objs'[new] = obj
  BY Appended
<1>2. \A o \in Objects : objs[o].uses \subseteq Objects
  BY DEF TypeOK
<1> HIDE DEF new
<1>3. ObjectsOK'
  BY <1>1 DEF ObjectsOK, ObjectOK
<1>4. ObjectsMade'
  <2>1. ASSUME NEW o \in Objects'
        PROVE /\ objs'[o].func /\ objs'[o].def => \E k \in Made' : FunctionOf(objs'[o], k)
              /\ ~objs'[o].func /\ (objs'[o].def \/ objs'[o].init) => \E k \in Made' : VariableOf(objs'[o], k)
    BY <1>1 DEF ObjectsMade
  <2>2. ASSUME NEW o \in Objects', NEW p \in Objects', o # p,
               ~objs'[o].func, ~objs'[p].func, objs'[o].def, objs'[p].def, objs'[o].name = objs'[p].name
        PROVE \E j, k \in Made' : j # k /\ VariableOf(objs'[o], j) /\ VariableOf(objs'[p], k)
    <3>1. CASE o \in Objects /\ p \in Objects
      <4>1. objs'[o] = objs[o] /\ objs'[p] = objs[p]
        BY <1>1, <3>1
      <4>2. PICK j \in Made, k \in Made : j # k /\ VariableOf(objs[o], j) /\ VariableOf(objs[p], k)
        BY <2>2, <3>1, <4>1 DEF ObjectsMade
      <4>3. j \in Made' /\ k \in Made'
        BY <4>2
      <4> QED
        BY <4>1, <4>2, <4>3
    <3>2. CASE o = new
      <4>1. PICK j \in Made' \ Made : VariableOf(objs'[o], j)
        BY <1>1, <2>2, <3>2
      <4>2. PICK k \in Made : VariableOf(objs'[p], k)
        BY <1>1, <2>2, <3>2 DEF ObjectsMade
      <4> QED
        BY <4>1, <4>2
    <3>3. CASE p = new
      <4>1. PICK k \in Made' \ Made : VariableOf(objs'[p], k)
        BY <1>1, <2>2, <3>3
      <4>2. PICK j \in Made : VariableOf(objs'[o], j)
        BY <1>1, <2>2, <3>3 DEF ObjectsMade
      <4> QED
        BY <4>1, <4>2
    <3> QED
      BY <1>1, <3>1, <3>2, <3>3
  <2>3. \A o, k : /\ FunctionOf(objs[o], k)' <=> FunctionOf(objs'[o], k)
                  /\ VariableOf(objs[o], k)' <=> VariableOf(objs'[o], k)
    BY SameOf
  <2> QED
    BY <2>1, <2>2, <2>3 DEF ObjectsMade
<1>5. UsesOK'
  <2>1. ASSUME NEW o \in Objects', NEW u \in objs'[o].uses
        PROVE /\ objs'[o].func /\ objs'[u].func => objs'[u].name \in objs'[o].refs
              /\ ~objs'[o].func => objs'[o].init /\ \E k \in Made' : ~prog[k].func /\ objs'[u].name \in UsesIn(k)
    <3>1. o \in Objects /\ objs'[o] = objs[o] /\ u \in objs[o].uses
      BY <1>1
    <3>2. u \in Objects /\ objs'[u] = objs[u]
      BY <1>1, <1>2, <3>1
    <3> QED
      BY <3>1, <3>2 DEF UsesOK
  <2> QED
    BY <2>1, SameUnit, ZenonT(40) DEF UsesOK
<1>6. RefsOK'
  <2>1. ASSUME NEW o \in Objects', NEW n \in objs'[o].refs
        PROVE \E v \in Objects' : /\ v = o \/ objs'[v].init
                                  /\ \E u \in objs'[v].uses : objs'[u].name = n
    <3>1. o \in Objects /\ objs'[o] = objs[o] /\ n \in objs[o].refs
      BY <1>1
    <3>2. PICK v \in Objects : /\ v = o \/ objs[v].init
                               /\ \E u \in objs[v].uses : objs[u].name = n
      BY <3>1 DEF RefsOK
    <3>3. PICK u \in objs[v].uses : objs[u].name = n
      BY <3>2
    <3>4. v \in Objects' /\ objs'[v] = objs[v] /\ objs'[u] = objs[u]
      BY <1>1, <1>2, <3>2, <3>3
    <3> QED
      BY <3>2, <3>3, <3>4
  <2> QED
    BY <2>1 DEF RefsOK
<1>7. RootsOK'
  BY <1>1, ZenonT(40) DEF RootsOK
<1>8. RootsKept => RootsKept'
  BY <1>1, <1>2, SameUnit DEF RootsKept
<1> QED
  BY <1>3, <1>4, <1>5, <1>6, <1>7, <1>8

LEMMA RedeclareKeeps ==
  ASSUME TypeOK, ObjectsOK, ObjectsMade, UsesOK, RefsOK, RootsOK,
         NEW fn \in Objects, objs[fn].func, NEW d, d.def \in BOOLEAN,
         Objects' = Objects, objs'[fn] = Redeclared(fn, d), \A o \in Objects \ {fn} : objs'[o] = objs[o],
         prog' = prog, Made \subseteq Made',
         d.def => \E k \in Made' : FunctionOf(objs[fn], k),
         ~ForgottenRoot => \A k \in Made : ~prog[k].func => objs[fn].name \notin UsesIn(k)
  PROVE ObjectsOK' /\ ObjectsMade' /\ UsesOK' /\ RefsOK' /\ RootsOK' /\ (RootsKept => RootsKept')
<1>1. /\ Objects' = Objects
      /\ \A o \in Objects \ {fn} : objs'[o] = objs[o]
      /\ objs'[fn] = Redeclared(fn, d)
  OBVIOUS
<1>2. /\ Fixed(objs[fn], objs'[fn]) /\ (objs'[fn].def <=> objs[fn].def \/ d.def)
      /\ (objs'[fn].root <=> ~(objs[fn].static /\ objs[fn].inline))
      /\ objs'[fn].refs = objs[fn].refs /\ objs'[fn].uses = objs[fn].uses
  BY <1>1, RedeclaredFields
<1>3. /\ \A o \in Objects : /\ Fixed(objs[o], objs'[o])
                            /\ objs'[o].refs = objs[o].refs /\ objs'[o].uses = objs[o].uses
                            /\ ~objs[o].func => objs'[o] = objs[o]
      /\ \A o \in Objects : objs[o].uses \subseteq Objects
  BY <1>1, <1>2 DEF Fixed, TypeOK
<1>4. ObjectsOK'
  <2>1. ObjectOK(objs'[fn])
    BY <1>2 DEF ObjectsOK, ObjectOK, Fixed
  <2> QED
    BY <1>1, <2>1 DEF ObjectsOK, ObjectOK
<1>5. ObjectsMade'
  <2>1. ASSUME NEW o \in Objects', objs'[o].func, objs'[o].def
        PROVE \E k \in Made' : FunctionOf(objs'[o], k)
    <3>1. CASE o # fn
      BY <1>1, <2>1, <3>1 DEF ObjectsMade
    <3>2. CASE o = fn
      <4>1. \E k \in Made' : FunctionOf(objs[fn], k)
        BY <1>2, <2>1, <3>2 DEF ObjectsMade
      <4> QED
        BY <1>2, <3>2, <4>1 DEF FunctionOf, Fixed
    <3> QED
      BY <3>1, <3>2
  <2>2. ASSUME NEW o \in Objects', ~objs'[o].func
        PROVE o \in Objects /\ objs'[o] = objs[o]
    BY <1>1, <1>3, <2>2 DEF Fixed
  <2>3. \A o, k : /\ FunctionOf(objs[o], k)' <=> FunctionOf(objs'[o], k)
                  /\ VariableOf(objs[o], k)' <=> VariableOf(objs'[o], k)
    BY SameOf
  <2>4. ASSUME NEW o \in Objects', NEW p \in Objects', o # p,
               ~objs'[o].func, ~objs'[p].func, objs'[o].def, objs'[p].def, objs'[o].name = objs'[p].name
        PROVE \E j, k \in Made' : j # k /\ VariableOf(objs'[o], j) /\ VariableOf(objs'[p], k)
    BY <2>2, <2>4 DEF ObjectsMade
  <2>5. ASSUME NEW o \in Objects', ~objs'[o].func, objs'[o].def \/ objs'[o].init
        PROVE \E k \in Made' : VariableOf(objs'[o], k)
    BY <2>2, <2>5 DEF ObjectsMade
  <2>6. ASSUME NEW o \in Objects'
        PROVE /\ objs'[o].func /\ objs'[o].def => \E k \in Made' : FunctionOf(objs[o], k)'
              /\ ~objs'[o].func /\ (objs'[o].def \/ objs'[o].init) => \E k \in Made' : VariableOf(objs[o], k)'
    BY <2>1, <2>3, <2>5
  <2>7. ASSUME NEW o \in Objects', NEW p \in Objects', o # p,
               ~objs'[o].func, ~objs'[p].func, objs'[o].def, objs'[p].def, objs'[o].name = objs'[p].name
        PROVE \E j, k \in Made' : j # k /\ VariableOf(objs[o], j)' /\ VariableOf(objs[p], k)'
    BY <2>3, <2>4, <2>7
  <2> QED
    BY <2>6, <2>7 DEF ObjectsMade
<1>6. UsesOK'
  <2>1. ASSUME NEW o \in Objects', NEW u \in objs'[o].uses
        PROVE /\ objs'[o].func /\ objs'[u].func => objs'[u].name \in objs'[o].refs
              /\ ~objs'[o].func => objs'[o].init /\ \E k \in Made' : ~prog[k].func /\ objs'[u].name \in UsesIn(k)
    <3>1. o \in Objects /\ u \in objs[o].uses /\ u \in Objects
      BY <1>1, <1>3
    <3> QED
      BY <1>3, <3>1 DEF UsesOK, Fixed
  <2> QED
    BY <2>1, SameUnit DEF UsesOK
<1>7. RefsOK'
  <2>1. ASSUME NEW o \in Objects', NEW n \in objs'[o].refs
        PROVE \E v \in Objects' : /\ v = o \/ objs'[v].init
                                  /\ \E u \in objs'[v].uses : objs'[u].name = n
    <3>1. o \in Objects /\ n \in objs[o].refs
      BY <1>1, <1>3
    <3>2. PICK v \in Objects : /\ v = o \/ objs[v].init
                               /\ \E u \in objs[v].uses : objs[u].name = n
      BY <3>1 DEF RefsOK
    <3>3. PICK u \in objs[v].uses : objs[u].name = n
      BY <3>2
    <3>4. u \in Objects
      BY <1>3
    <3> QED
      BY <1>1, <1>3, <3>2, <3>3, <3>4 DEF Fixed
  <2> QED
    BY <2>1 DEF RefsOK
<1>8. RootsOK'
  <2>1. ASSUME NEW o \in Objects', objs'[o].func, objs'[o].static, objs'[o].inline, objs'[o].root
        PROVE \E v \in Objects' : objs'[v].init /\ o \in objs'[v].uses
    <3>1. o # fn
      BY <1>2, <2>1 DEF Fixed
    <3>2. PICK v \in Objects : objs[v].init /\ o \in objs[v].uses
      BY <1>1, <2>1, <3>1 DEF RootsOK
    <3> QED
      BY <1>1, <1>3, <3>2 DEF Fixed
  <2> QED
    BY <2>1 DEF RootsOK
<1>9. ASSUME RootsKept PROVE RootsKept'
  <2>1. ASSUME ~LateInitialiser, ~ForgottenRoot, NEW o \in Objects', NEW u \in objs'[o].uses, ~objs'[o].func, objs'[u].func
        PROVE objs'[u].root
    <3>1. o \in Objects /\ u \in objs[o].uses /\ u \in Objects /\ ~objs[o].func /\ objs[u].func
      BY <1>1, <1>3, <2>1 DEF Fixed
    <3>2. objs[u].root
      BY <1>9, <2>1, <3>1 DEF RootsKept
    <3>3. PICK k \in Made : ~prog[k].func /\ objs[u].name \in UsesIn(k)
      BY <3>1 DEF UsesOK
    <3>4. u # fn
      BY <2>1, <3>3
    <3> QED
      BY <1>1, <3>1, <3>2, <3>4
  <2> QED
    BY <2>1, SameUnit DEF RootsKept
<1> QED
  BY <1>4, <1>5, <1>6, <1>7, <1>8, <1>9

LEMMA UseKeeps ==
  ASSUME TypeOK, ObjectsOK, ObjectsMade, UsesOK, RefsOK, RootsOK, BodyOK,
         InBody("use"), NEW t \in Objects, objs[t].name = Item[2],
         objs' = Used(t), UNCHANGED <<prog, pc, decl>>
  PROVE ObjectsOK' /\ ObjectsMade' /\ UsesOK' /\ RefsOK' /\ RootsOK' /\ (RootsKept => RootsKept')
<1>1. /\ pc = "body" /\ decl \in DOMAIN prog /\ owner \in Objects /\ 0 \notin Objects
      /\ item \in DOMAIN Decl.items
      /\ Decl.func => current = owner
      /\ ~Decl.func => ~objs[owner].func /\ (objs[owner].init <=> Decl.def)
      /\ current # 0 => /\ current \in Objects /\ objs[current].func /\ objs[current].def
                        /\ \E k \in Made : prog[k].func /\ prog[k].def
  <2>1. DOMAIN Decl.items = 1 .. Len(Decl.items)
    BY DeclTypes DEF BodyOK, InBody, Decl
  <2>2. /\ 0 \notin Objects /\ \A o \in 0 .. Len(objs) : o = 0 \/ o \in Objects
    BY ObjectTypes
  <2>3. owner \in 0 .. Len(objs) /\ current \in 0 .. Len(objs) /\ item \in Nat
    BY DEF TypeOK
  <2> QED
    BY <2>1, <2>2, <2>3 DEF BodyOK, InBody
<1>2. /\ Objects' = Objects
      /\ \A o \in Objects : Fixed(objs[o], objs'[o]) /\ objs'[o].def = objs[o].def
      /\ \A o \in Objects \ {owner} : objs'[o].uses = objs[o].uses
      /\ objs'[owner].uses = objs[owner].uses \union {t}
      /\ \A o \in Objects : objs'[o].root <=> objs[o].root \/ (o = t /\ objs[t].func /\ current = 0)
      /\ \A o \in Objects \ {current} : objs'[o].refs = objs[o].refs
      /\ current # 0 => objs'[current].refs \subseteq objs[current].refs \union {objs[t].name}
      /\ current # 0 => objs[current].refs \subseteq objs'[current].refs
      /\ current # 0 /\ objs[t].func => objs[t].name \in objs'[current].refs
  <2>1. owner # 0
    BY <1>1, ObjectTypes
  <2>2. /\ Used(t) \in Seq(ObjType) /\ Len(Used(t)) = Len(objs)
        /\ \A o \in Objects :
             /\ Fixed(objs[o], Used(t)[o]) /\ Used(t)[o].def = objs[o].def
             /\ Used(t)[o].uses = IF o = owner THEN objs[o].uses \union {t} ELSE objs[o].uses
             /\ Used(t)[o].root <=> objs[o].root \/ (o = t /\ objs[t].func /\ current = 0)
             /\ Used(t)[o].refs = IF objs[t].func /\ current # 0 /\ o = current
                                    THEN objs[o].refs \union {objs[t].name} ELSE objs[o].refs
    BY <2>1, UsedFields
  <2>3. Objects' = Objects
    BY <2>2, ObjectTypes DEF Objects
  <2> QED
    BY <1>1, <2>2, <2>3
<1>3. Made' = Made /\ decl \in Made
  BY <1>1 DEF Made
<1>4. Decl.def /\ Item[2] \in UsesIn(decl)
  <2>1. Decl.def
    BY <1>1, DeclTypes DEF Decl
  <2>2. Item[1] = "use"
    BY DEF InBody
  <2> QED
    BY <1>1, <2>1, <2>2 DEF UsesIn, Item, Decl
<1>5. \A o \in Objects : objs[o].uses \subseteq Objects
  BY DEF TypeOK
<1>6. ObjectsOK'
  <2>1. ASSUME NEW o \in Objects PROVE ObjectOK(objs'[o])
    <3>1. ObjectOK(objs[o])
      BY DEF ObjectsOK
    <3>2. Fixed(objs[o], objs'[o]) /\ objs'[o].def = objs[o].def /\ (objs[o].root => objs'[o].root)
      BY <1>2
    <3>3. ~objs[o].func => objs'[o].refs = objs[o].refs /\ (objs'[o].root <=> objs[o].root)
      BY <1>1, <1>2
    <3>4. objs'[o].refs # {} => objs[o].func /\ objs[o].def
      BY <1>1, <1>2, <3>1 DEF ObjectOK
    <3> QED
      BY <3>1, <3>2, <3>3, <3>4 DEF ObjectOK, Fixed
  <2> QED
    BY <1>2, <2>1 DEF ObjectsOK, ObjectOK
<1>7. ObjectsMade'
  <2>1. \A o, k : /\ FunctionOf(objs[o], k)' <=> FunctionOf(objs'[o], k)
                  /\ VariableOf(objs[o], k)' <=> VariableOf(objs'[o], k)
    BY SameOf
  <2>2. \A o \in Objects : \A k : /\ FunctionOf(objs'[o], k) <=> FunctionOf(objs[o], k)
                                  /\ VariableOf(objs'[o], k) <=> VariableOf(objs[o], k)
    BY <1>2 DEF FunctionOf, VariableOf, Fixed
  <2>3. \A o \in Objects : /\ objs'[o].func = objs[o].func /\ objs'[o].def = objs[o].def
                           /\ objs'[o].init = objs[o].init /\ objs'[o].name = objs[o].name
    BY <1>2 DEF Fixed
  <2>4. ASSUME NEW o \in Objects'
        PROVE /\ objs'[o].func /\ objs'[o].def => \E k \in Made' : FunctionOf(objs'[o], k)
              /\ ~objs'[o].func /\ (objs'[o].def \/ objs'[o].init) => \E k \in Made' : VariableOf(objs'[o], k)
    BY <1>2, <1>3, <2>2, <2>3 DEF ObjectsMade
  <2>5. ASSUME NEW o \in Objects', NEW p \in Objects', o # p,
               ~objs'[o].func, ~objs'[p].func, objs'[o].def, objs'[p].def, objs'[o].name = objs'[p].name
        PROVE \E j, k \in Made' : j # k /\ VariableOf(objs'[o], j) /\ VariableOf(objs'[p], k)
    <3>1. \E j, k \in Made : j # k /\ VariableOf(objs[o], j) /\ VariableOf(objs[p], k)
      BY <1>2, <2>3, <2>5 DEF ObjectsMade
    <3> QED
      BY <1>2, <1>3, <2>2, <3>1
  <2> QED
    BY <2>1, <2>4, <2>5 DEF ObjectsMade
<1>8. UsesOK'
  <2>1. ASSUME NEW o \in Objects', NEW u \in objs'[o].uses
        PROVE /\ objs'[o].func /\ objs'[u].func => objs'[u].name \in objs'[o].refs
              /\ ~objs'[o].func => objs'[o].init /\ \E k \in Made' : ~prog[k].func /\ objs'[u].name \in UsesIn(k)
    <3>1. o \in Objects /\ u \in Objects
      BY <1>2, <1>5
    <3>2. CASE u \in objs[o].uses
      <4>1. objs'[u].name = objs[u].name /\ objs'[u].func = objs[u].func /\ objs'[o].func = objs[o].func
            /\ objs'[o].init = objs[o].init
        BY <1>2, <3>1 DEF Fixed
      <4>2. objs[o].refs \subseteq objs'[o].refs
        BY <1>1, <1>2, <3>1
      <4> QED
        BY <1>3, <3>1, <3>2, <4>1, <4>2 DEF UsesOK
    <3>3. CASE o = owner /\ u = t
      BY <1>1, <1>2, <1>3, <1>4, <3>1, <3>3 DEF Fixed, Decl
    <3> QED
      BY <1>2, <3>1, <3>2, <3>3
  <2> QED
    BY <2>1, SameUnit DEF UsesOK
<1>9. RefsOK'
  <2>1. ASSUME NEW o \in Objects', NEW n \in objs'[o].refs
        PROVE \E v \in Objects' : /\ v = o \/ objs'[v].init
                                  /\ \E u \in objs'[v].uses : objs'[u].name = n
    <3>1. CASE n \in objs[o].refs
      <4>1. PICK v \in Objects : /\ v = o \/ objs[v].init
                                 /\ \E u \in objs[v].uses : objs[u].name = n
        BY <1>2, <3>1 DEF RefsOK
      <4>2. PICK u \in objs[v].uses : objs[u].name = n
        BY <4>1
      <4>3. u \in Objects
        BY <1>5
      <4>4. u \in objs'[v].uses /\ objs'[u].name = n
        BY <1>2, <4>2, <4>3 DEF Fixed
      <4> QED
        BY <1>2, <4>1, <4>4 DEF Fixed
    <3>2. CASE n \notin objs[o].refs
      <4>1. o = current /\ current # 0 /\ n = objs[t].name
        BY <1>1, <1>2, <3>2
      <4>2. owner = o \/ objs'[owner].init
        BY <1>1, <1>2, <1>4, <4>1 DEF Fixed
      <4>3. t \in objs'[owner].uses /\ objs'[t].name = n
        BY <1>1, <1>2, <4>1 DEF Fixed
      <4> QED
        BY <1>1, <1>2, <4>2, <4>3
    <3> QED
      BY <3>1, <3>2
  <2> QED
    BY <2>1 DEF RefsOK
<1>10. RootsOK'
  <2>1. ASSUME NEW o \in Objects', objs'[o].func, objs'[o].static, objs'[o].inline, objs'[o].root
        PROVE \E v \in Objects' : objs'[v].init /\ o \in objs'[v].uses
    <3>1. CASE objs[o].root
      <4>1. PICK v \in Objects : objs[v].init /\ o \in objs[v].uses
        BY <1>2, <2>1, <3>1 DEF RootsOK, Fixed
      <4> QED
        BY <1>2, <4>1 DEF Fixed
    <3>2. CASE ~objs[o].root
      <4>1. o = t /\ current = 0
        BY <1>2, <2>1, <3>2
      <4>2. objs'[owner].init /\ t \in objs'[owner].uses
        BY <1>1, <1>2, <1>4, <4>1, ObjectTypes DEF Fixed
      <4> QED
        BY <1>1, <1>2, <4>1, <4>2
    <3> QED
      BY <3>1, <3>2
  <2> QED
    BY <2>1 DEF RootsOK
<1>11. ASSUME RootsKept PROVE RootsKept'
  <2>1. ASSUME ~LateInitialiser, ~ForgottenRoot, NEW o \in Objects', NEW u \in objs'[o].uses, ~objs'[o].func, objs'[u].func
        PROVE objs'[u].root
    <3>1. o \in Objects /\ u \in Objects /\ ~objs[o].func /\ objs[u].func
      BY <1>2, <1>5, <2>1 DEF Fixed
    <3>2. CASE u \in objs[o].uses
      BY <1>2, <1>11, <2>1, <3>1, <3>2 DEF RootsKept
    <3>3. CASE o = owner /\ u = t
      <4>1. ~Decl.func
        BY <1>1, <3>1, <3>3
      <4>2. ASSUME current # 0 PROVE FALSE
        <5>1. PICK k \in Made : prog[k].func /\ prog[k].def
          BY <1>1, <4>2
        <5>2. k < decl /\ k \in DOMAIN prog
          BY <1>1, <4>1, <5>1 DEF Made, Decl
        <5> QED
          BY <1>1, <1>4, <2>1, <4>1, <5>1, <5>2 DEF LateInitialiser, Decl
      <4> QED
        BY <1>2, <3>1, <3>3, <4>2
    <3> QED
      BY <1>2, <3>1, <3>2, <3>3
  <2> QED
    BY <2>1, SameUnit DEF RootsKept
<1> QED
  BY <1>6, <1>7, <1>8, <1>9, <1>10, <1>11

-------------------------------------------------------------------------------
(***************************************************************************)
(* The types stay.                                                         *)
(***************************************************************************)
LEMMA AppendTypes ==
  ASSUME TypeOK, NEW obj \in ObjType, obj.uses = {}, new_gvar(obj)
  PROVE /\ objs' \in Seq(ObjType) /\ \A o \in Objects' : objs'[o].uses \subseteq Objects'
        /\ Len(objs') = Len(objs) + 1 /\ 0 .. Len(objs) \subseteq 0 .. Len(objs') /\ Objects \subseteq Objects'
        /\ next' \in [Objects' -> 0 .. Len(objs')] /\ head' \in 0 .. Len(objs')
        /\ head' = Len(objs')
        /\ \A o \in Objects : next'[o] = next[o]
        /\ next'[Len(objs')] = head
<1> DEFINE new == Len(objs) + 1
<1>1. /\ Objects' = Objects \union {new} /\ new \notin Objects
      /\ \A o \in Objects : objs'[o] = objs[o]
      /\ objs'[new] = obj
      /\ objs' \in Seq(ObjType) /\ Len(objs') = new
  BY Appended DEF new_gvar
<1>2. Len(objs) \in Nat /\ Objects = 1 .. Len(objs)
  BY ObjectTypes
<1>3. next \in [1 .. Len(objs) -> 0 .. Len(objs)] /\ head \in 0 .. Len(objs)
  BY <1>2 DEF TypeOK
<1>4. next \in Seq(0 .. Len(objs)) /\ Len(next) = Len(objs)
  BY <1>2, <1>3, SeqDef
<1>5. next' = Append(next, head) /\ head' = new
  BY DEF new_gvar
<1>6. /\ DOMAIN next' = 1 .. new
      /\ \A o \in Objects : next'[o] = next[o]
      /\ next'[new] = head
  BY <1>2, <1>4, <1>5, <1>3
<1>7. next \in Seq(0 .. new) /\ head \in 0 .. new
  BY <1>2, <1>3, <1>4, SeqDef
<1>8. next' \in [Objects' -> 0 .. Len(objs')]
  <2>1. next' \in Seq(0 .. new) /\ Len(next') = new
    BY <1>4, <1>5, <1>7, AppendProperties
  <2>2. next' \in [1 .. new -> 0 .. new]
    BY <2>1, LenProperties
  <2> QED
    BY <1>1, <1>2, <2>2
<1>9. \A o \in Objects' : objs'[o].uses \subseteq Objects'
  BY <1>1 DEF TypeOK
<1> QED
  BY <1>1, <1>2, <1>5, <1>6, <1>8, <1>9

\* A state with the same objects and list.
LEMMA ReplaceTypes ==
  ASSUME TypeOK, objs' \in Seq(ObjType), Len(objs') = Len(objs),
         \A o \in Objects : objs'[o].uses \subseteq Objects, UNCHANGED <<next, head>>
  PROVE /\ Objects' = Objects /\ \A o \in Objects' : objs'[o].uses \subseteq Objects'
        /\ next' \in [Objects' -> 0 .. Len(objs')] /\ head' \in 0 .. Len(objs')
<1>1. Objects' = Objects
  BY ObjectTypes DEF Objects
<1> QED
  BY <1>1 DEF TypeOK

LEMMA FindFunc ==
  ASSUME TypeOK, ScopeOK, NEW n \in Names, find_func(n) # 0
  PROVE /\ find_func(n) = scope[n] /\ find_func(n) \in Objects
        /\ objs[find_func(n)].func /\ objs[find_func(n)].name = n
<1>1. find_func(n) = scope[n] /\ objs[scope[n]].func /\ scope[n] # 0
  BY DEF find_func
<1>2. scope[n] \in Objects
  BY <1>1, ObjectTypes DEF TypeOK
<1> QED
  BY <1>1, <1>2 DEF ScopeOK

LEMMA FindVar ==
  ASSUME TypeOK, ScopeOK, NEW n \in Names, find_var(n) # 0
  PROVE find_var(n) \in Objects /\ objs[find_var(n)].name = n
<1>1. find_var(n) \in 0 .. Len(objs)
  BY DEF find_var, TypeOK
<1>2. find_var(n) \in Objects
  BY <1>1, ObjectTypes
<1> QED
  BY <1>2 DEF find_var, ScopeOK

LEMMA InBodyItem ==
  ASSUME TypeOK, BodyOK, NEW kind, InBody(kind)
  PROVE /\ pc = "body" /\ decl \in DOMAIN prog /\ item \in DOMAIN Decl.items /\ item \in Nat
        /\ item <= Len(Decl.items) /\ Len(Decl.items) \in Nat
        /\ Item[1] = kind /\ Item[2] \in Names /\ Decl.def /\ Decl.name \in Names
        /\ kind # "use" => Decl.func
        /\ owner \in Objects
<1>1. pc = "body" /\ decl \in DOMAIN prog /\ item \in 1 .. Len(Decl.items) /\ owner # 0
  BY DEF InBody, BodyOK
<1>2. Decl.items \in Seq(Items) /\ Decl.items # <<>> /\ item \in DOMAIN Decl.items /\ Len(Decl.items) \in Nat
  BY <1>1, DeclTypes DEF Decl
<1>3. Decl.def /\ Decl.name \in Names /\ Item[2] \in Names /\ (Decl.func \/ Item[1] = "use")
  BY <1>1, <1>2, DeclTypes DEF Decl, Item
<1>4. owner \in Objects
  BY <1>1, ObjectTypes DEF TypeOK
<1> QED
  BY <1>1, <1>2, <1>3, <1>4 DEF InBody

PrototypeOf(n) == [func |-> TRUE, name |-> n, spec |-> {}, def |-> FALSE, items |-> <<>>]

-------------------------------------------------------------------------------
(***************************************************************************)
(* What stays when objects are added, defined, or used.                    *)
(***************************************************************************)
Evolves ==
  /\ Objects \subseteq Objects'
  /\ \A o \in Objects : /\ Fixed(objs[o], objs'[o]) /\ (objs[o].def => objs'[o].def)
                        /\ ~objs[o].func => objs'[o].def = objs[o].def

LEMMA DeclarationsKept ==
  ASSUME TypeOK, DeclarationsMade, prog' = prog, Evolves,
         \A n \in Names : scope[n] # 0 => scope'[n] # 0,
         \A k \in Made' \ Made :
           /\ scope'[prog[k].name] # 0
           /\ ~prog[k].func => \E o \in Objects' : ~objs'[o].func /\ VariableOf(objs'[o], k)
           /\ prog[k].func /\ prog[k].def => \E o \in Objects' : objs'[o].func /\ objs'[o].def /\ FunctionOf(objs'[o], k)
  PROVE DeclarationsMade'
<1>1. ASSUME NEW k \in Made, NEW o \in Objects
      PROVE /\ ~objs[o].func /\ VariableOf(objs[o], k) => ~objs'[o].func /\ VariableOf(objs'[o], k)
            /\ objs[o].func /\ objs[o].def /\ FunctionOf(objs[o], k) => objs'[o].func /\ objs'[o].def /\ FunctionOf(objs'[o], k)
  BY DEF Evolves, Fixed, VariableOf, FunctionOf
<1>2. ASSUME NEW k \in Made'
      PROVE /\ scope'[prog[k].name] # 0
            /\ ~prog[k].func => \E o \in Objects' : ~objs'[o].func /\ VariableOf(objs'[o], k)
            /\ prog[k].func /\ prog[k].def => \E o \in Objects' : objs'[o].func /\ objs'[o].def /\ FunctionOf(objs'[o], k)
  <2>1. CASE k \in Made
    <3>1. prog[k].name \in Names
      BY <2>1, DeclTypes DEF Made
    <3>2. /\ scope[prog[k].name] # 0
          /\ ~prog[k].func => \E o \in Objects : ~objs[o].func /\ VariableOf(objs[o], k)
          /\ prog[k].func /\ prog[k].def => \E o \in Objects : objs[o].func /\ objs[o].def /\ FunctionOf(objs[o], k)
      BY <2>1 DEF DeclarationsMade
    <3>3. Objects \subseteq Objects'
      BY DEF Evolves
    <3> QED
      BY <1>1, <2>1, <3>1, <3>2, <3>3
  <2> QED
    BY <2>1
<1>3. \A o, k : /\ FunctionOf(objs[o], k)' <=> FunctionOf(objs'[o], k)
                /\ VariableOf(objs[o], k)' <=> VariableOf(objs'[o], k)
  BY SameOf
<1> QED
  BY <1>2, <1>3 DEF DeclarationsMade

LEMMA NothingLive ==
  ASSUME LiveOK, pc \in {"parse", "body"}, pc' \in {"parse", "body"}, UNCHANGED <<live, pending>>
  PROVE LiveOK'
BY DEF LiveOK

LEMMA ListAppended ==
  ASSUME TypeOK, ListOK, pc \in {"parse", "body"}, pc' \in {"parse", "body"}, UNCHANGED <<cur, first>>,
         NEW obj \in ObjType, obj.uses = {}, new_gvar(obj)
  PROVE ListOK'
<1>1. Len(objs) \in Nat /\ Objects = 1 .. Len(objs) /\ head = Len(objs) /\ \A o \in Objects : next[o] = o - 1
  BY ObjectTypes DEF ListOK
<1>2. /\ Objects' = Objects \union {Len(objs) + 1} /\ Len(objs') = Len(objs) + 1
  BY Appended DEF new_gvar
<1>3. head' = Len(objs') /\ (\A o \in Objects : next'[o] = next[o]) /\ next'[Len(objs')] = head
  BY AppendTypes
<1>4. \A o \in Objects' : next'[o] = o - 1
  BY <1>1, <1>2, <1>3
<1> QED
  BY <1>3, <1>4 DEF ListOK

LEMMA ListKept ==
  ASSUME ListOK, pc \in {"parse", "body"}, pc' \in {"parse", "body"}, UNCHANGED <<cur, first, next, head>>,
         Len(objs') = Len(objs), Objects' = Objects
  PROVE ListOK'
BY DEF ListOK

\* The names in the bodies of declarations.
LEMMA LocalNamesNext ==
  ASSUME TypeOK, NEW k \in DOMAIN prog, NEW i \in Nat, i >= 1
  PROVE /\ LocalNames(k, 1) = {}
        /\ LocalNames(k, i + 1) \subseteq LocalNames(k, i) \union {prog[k].items[i][2]}
        /\ prog[k].items[i][1] = "use" => LocalNames(k, i + 1) = LocalNames(k, i)
        /\ LocalNames(k, i) \subseteq {prog[k].items[j][2] : j \in 1 .. i - 1}
BY DEF LocalNames

\* Functions keep their storage class, and the file scope its functions.
LEMMA FileScopeKept ==
  ASSUME TypeOK, FileScope, prog' = prog, Evolves, Objects' = Objects, UNCHANGED scope, Made \subseteq Made',
         \A o \in Objects : objs[o].func /\ ~objs[o].def /\ objs'[o].def => scope[objs[o].name] = o,
         \A o \in Objects : ~objs[o].func =>
           \A u \in objs'[o].uses \ objs[o].uses : objs[u].func => scope[objs[u].name] = u,
         \A o \in Objects : objs'[o].uses \subseteq Objects
  PROVE FileScope'
<1>1. \A o \in Objects : /\ objs'[o].func = objs[o].func /\ objs'[o].name = objs[o].name
                         /\ objs'[o].static = objs[o].static /\ (objs[o].def => objs'[o].def)
  BY DEF Evolves, Fixed
<1>2. ASSUME NEW o \in Objects', objs'[o].func
      PROVE scope'[objs'[o].name] = o \/ (~objs'[o].def /\ ~objs'[o].static)
  BY <1>1, <1>2 DEF FileScope
<1>3. ASSUME NEW n \in Names, scope'[n] # 0
      PROVE /\ First(n) \in Made'
            /\ objs'[scope'[n]].func <=> IsFunction(n)
            /\ objs'[scope'[n]].func => (objs'[scope'[n]].static <=> StaticSpec(prog[First(n)].spec))
  <2>1. scope[n] \in Objects
    BY <1>3, ObjectTypes, SMTT(30) DEF TypeOK
  <2> QED
    BY <1>1, <1>3, <2>1 DEF FileScope
<1>4. ASSUME NEW o \in Objects', NEW u \in objs'[o].uses, ~objs'[o].func, objs'[u].func
      PROVE scope'[objs'[u].name] = u
  <2>1. u \in Objects /\ ~objs[o].func /\ objs[u].func /\ objs'[u].name = objs[u].name
    BY <1>1, <1>4
  <2> QED
    BY <1>4, <2>1 DEF FileScope
<1>5. \A o \in Objects' : ~objs'[o].func => ~IsFunction(objs'[o].name)
  BY <1>1 DEF FileScope
<1>6. \A o \in Objects' : IsFunction(objs[o].name)' <=> IsFunction(objs'[o].name)
  BY DEF IsFunction, Declared
<1> QED
  BY <1>2, <1>3, <1>4, <1>5, <1>6, SameUnit DEF FileScope, StaticSpec

-------------------------------------------------------------------------------
(***************************************************************************)
(* The steps of a body.                                                    *)
(***************************************************************************)
LEMMA UseStep ==
  ASSUME IInv, Use
  PROVE IInv'
<1> DEFINE t == find_var(Item[2])
<1>0. TypeOK /\ Parts /\ pc = "body"
  BY DEF IInv, Use, InBody
<1>1. /\ decl \in DOMAIN prog /\ item \in Nat /\ item >= 1 /\ item <= Len(Decl.items) /\ Len(Decl.items) \in Nat
      /\ Item[1] = "use" /\ Item[2] \in Names /\ owner \in Objects /\ owner # 0
  BY <1>0, InBodyItem, ObjectTypes DEF Use, Parts
<1>2. t \in Objects /\ objs[t].name = Item[2]
  BY <1>0, <1>1, FindVar DEF Parts, Use
<1>3. objs' = Used(t) /\ item' = item + 1
      /\ UNCHANGED <<prog, pc, decl, scope, local, current, owner, next, head, live, pending, at, cur, first>>
  BY DEF Use
<1> HIDE DEF t
<1>4. ObjectsOK' /\ ObjectsMade' /\ UsesOK' /\ RefsOK' /\ RootsOK' /\ (RootsKept => RootsKept')
  BY <1>0, <1>2, <1>3, UseKeeps DEF Parts, Use
<1>5. /\ objs' \in Seq(ObjType) /\ Len(objs') = Len(objs) /\ Objects' = Objects
      /\ \A o \in Objects : Fixed(objs[o], objs'[o]) /\ objs'[o].def = objs[o].def
      /\ \A o \in Objects : objs'[o].uses \subseteq objs[o].uses \union {t}
      /\ \A o \in Objects \ {owner} : objs'[o].uses = objs[o].uses
  <2>1. /\ Used(t) \in Seq(ObjType) /\ Len(Used(t)) = Len(objs)
        /\ \A o \in Objects :
             /\ Fixed(objs[o], Used(t)[o]) /\ Used(t)[o].def = objs[o].def
             /\ Used(t)[o].uses = IF o = owner THEN objs[o].uses \union {t} ELSE objs[o].uses
    BY <1>0, <1>1, <1>2, UsedFields
  <2>2. Objects' = Objects
    BY <1>0, <1>3, <2>1, ObjectTypes DEF Objects
  <2> QED
    BY <1>3, <2>1, <2>2
<1>6. Made' = Made
  BY <1>3 DEF Made
<1>7. Evolves
  BY <1>5 DEF Evolves
<1>8. TypeOK'
  <2>1. \A o \in Objects : objs'[o].uses \subseteq Objects
    BY <1>0, <1>2, <1>5 DEF TypeOK
  <2>2. /\ \A o \in Objects' : objs'[o].uses \subseteq Objects'
        /\ next' \in [Objects' -> 0 .. Len(objs')] /\ head' \in 0 .. Len(objs')
    BY <1>0, <1>3, <1>5, <2>1, ReplaceTypes
  <2>3. item' \in Nat
    BY <1>1, <1>3
  <2> QED
    BY <1>0, <1>3, <1>5, <2>2, <2>3 DEF TypeOK
<1>9. ScopeOK'
  <2>1. \A n \in Names : (scope[n] # 0 => scope[n] \in Objects) /\ (local[n] # 0 => local[n] \in Objects)
    BY <1>0, ObjectTypes DEF TypeOK
  <2> QED
    BY <1>0, <1>3, <1>5, <2>1 DEF ScopeOK, Fixed, Parts
<1>10. BodyOK'
  <2>1. item' \in 1 .. Len(Decl'.items) + 1 /\ Decl' = Decl
    BY <1>1, <1>3 DEF Decl
  <2>2. LocalNames(decl, item + 1) = LocalNames(decl, item)
    BY <1>0, <1>1, LocalNamesNext DEF Item, Decl
  <2>3. \A n \in LocalNames(decl, item)' : find_var(n)' # 0
    BY <1>0, <1>3, <2>2, SameUnit DEF BodyOK, Parts, find_var, LocalNames
  <2>4. current # 0 => current \in Objects
    BY <1>0, ObjectTypes DEF TypeOK
  <2> QED
    BY <1>0, <1>1, <1>3, <1>5, <1>6, <2>1, <2>3, <2>4 DEF BodyOK, Parts, Fixed, Decl
<1>11. DeclarationsMade'
  BY <1>0, <1>3, <1>6, <1>7, DeclarationsKept DEF Parts
<1>12. Valid' => FileScope'
  <2>1. ASSUME Valid, NEW o \in Objects, ~objs[o].func, NEW u \in objs'[o].uses \ objs[o].uses
        PROVE scope[objs[u].name] = u
    <3>1. o = owner /\ u = t
      BY <1>5, <2>1
    <3>2. local = NoScope
      BY <1>0, <1>3, <2>1, <3>1 DEF BodyOK, Parts
    <3> QED
      BY <1>1, <1>2, <3>1, <3>2 DEF t, find_var, NoScope
  <2>2. \A o \in Objects : objs'[o].uses \subseteq Objects
    BY <1>0, <1>2, <1>5 DEF TypeOK
  <2> QED
    BY <1>0, <1>3, <1>5, <1>6, <1>7, <2>1, <2>2, FileScopeKept, SameUnit DEF Parts
<1>13. LiveOK' /\ ListOK'
  BY <1>0, <1>3, <1>5, NothingLive, ListKept DEF Parts
<1>14. Valid' => RootsKept'
  BY <1>0, <1>3, <1>4, SameUnit DEF Parts
<1> QED
  BY <1>0, <1>3, <1>4, <1>8, <1>9, <1>10, <1>11, <1>12, <1>13, <1>14 DEF IInv, Parts

LEMMA SameObjects ==
  ASSUME TypeOK, Parts, UNCHANGED <<prog, objs, scope>>, Made' = Made
  PROVE /\ ObjectsOK' /\ ObjectsMade' /\ DeclarationsMade' /\ UsesOK' /\ RefsOK' /\ RootsOK'
        /\ Valid' => FileScope' /\ RootsKept'
<1>1. Objects' = Objects /\ objs' = objs
  BY DEF Objects
<1>2. ObjectsOK' /\ RefsOK' /\ RootsOK'
  BY <1>1 DEF Parts, ObjectsOK, ObjectOK, RefsOK, RootsOK
<1>3. UsesOK'
  BY <1>1, SameUnit DEF Parts, UsesOK
<1>4. \A o, k : /\ FunctionOf(objs[o], k)' <=> FunctionOf(objs[o], k)
                /\ VariableOf(objs[o], k)' <=> VariableOf(objs[o], k)
  BY SameOf
<1>5. ObjectsMade'
  <2>1. ASSUME NEW o \in Objects'
        PROVE /\ objs'[o].func /\ objs'[o].def => \E k \in Made' : FunctionOf(objs[o], k)'
              /\ ~objs'[o].func /\ (objs'[o].def \/ objs'[o].init) => \E k \in Made' : VariableOf(objs[o], k)'
    BY <1>1, <1>4 DEF ObjectsMade, Parts
  <2>2. ASSUME NEW o \in Objects', NEW p \in Objects', o # p,
               ~objs'[o].func, ~objs'[p].func, objs'[o].def, objs'[p].def, objs'[o].name = objs'[p].name
        PROVE \E j, k \in Made' : j # k /\ VariableOf(objs[o], j)' /\ VariableOf(objs[p], k)'
    BY <1>1, <1>4, <2>2, ZenonT(40) DEF ObjectsMade, Parts
  <2> QED
    BY <2>1, <2>2 DEF ObjectsMade
<1>6. DeclarationsMade'
  BY <1>1, <1>4 DEF Parts, DeclarationsMade
<1>7. Evolves /\ \A o \in Objects : objs'[o].uses \subseteq Objects
  BY <1>1 DEF Evolves, Fixed, TypeOK
<1>8. Valid => FileScope'
  BY <1>1, <1>7, FileScopeKept DEF Parts
<1>9. Valid => RootsKept'
  BY <1>1, SameUnit DEF Parts, RootsKept
<1> QED
  BY <1>2, <1>3, <1>5, <1>6, <1>8, <1>9, SameUnit

LEMMA EndBodyStep ==
  ASSUME IInv, EndBody
  PROVE IInv'
<1>0. TypeOK /\ Parts /\ pc = "body" /\ decl \in DOMAIN prog /\ decl \in Nat /\ DOMAIN prog = 1 .. Len(prog) /\ Len(prog) \in Nat
  BY DeclTypes DEF IInv, EndBody, Parts, BodyOK
<1>1. Made' = Made
  BY <1>0 DEF Made, EndBody
<1>2. TypeOK'
  BY <1>0 DEF TypeOK, EndBody, NoScope, Objects
<1>3. /\ ObjectsOK' /\ ObjectsMade' /\ DeclarationsMade' /\ UsesOK' /\ RefsOK' /\ RootsOK'
      /\ Valid' => FileScope' /\ RootsKept'
  BY <1>0, <1>1, SameObjects DEF EndBody
<1>4. BodyOK'
  BY <1>0, <1>1 DEF BodyOK, EndBody, Parts
<1>5. ScopeOK'
  BY <1>0 DEF EndBody, Parts, ScopeOK, NoScope
<1>6. LiveOK' /\ ListOK'
  BY <1>0, NothingLive, ListKept DEF Parts, EndBody, Objects
<1> QED
  BY <1>2, <1>3, <1>4, <1>5, <1>6 DEF IInv, Parts, EndBody

Redeclares(fn, d) == objs' = [objs EXCEPT ![fn] = Redeclared(fn, d)]

LEMMA Redeclaring ==
  ASSUME TypeOK, NEW fn \in Objects, objs[fn].func, NEW d, d.def \in BOOLEAN, Redeclares(fn, d)
  PROVE /\ Objects' = Objects /\ Len(objs') = Len(objs) /\ objs' \in Seq(ObjType)
        /\ \A o \in Objects : /\ Fixed(objs[o], objs'[o]) /\ (objs[o].def => objs'[o].def)
                              /\ objs'[o].uses = objs[o].uses
                              /\ ~objs[o].func => objs'[o] = objs[o]
                              /\ o # fn => objs'[o] = objs[o]
        /\ objs'[fn] = Redeclared(fn, d)
        /\ objs'[fn].def <=> objs[fn].def \/ d.def
<1> DEFINE new == Redeclared(fn, d)
<1>1. /\ new \in ObjType /\ Fixed(objs[fn], new) /\ (new.def <=> objs[fn].def \/ d.def)
      /\ new.uses = objs[fn].uses
  BY RedeclaredFields
<1> HIDE DEF new
<1>2. objs \in Seq(ObjType) /\ Len(objs) \in Nat /\ Objects = 1 .. Len(objs) /\ objs' = [objs EXCEPT ![fn] = new]
  BY ObjectTypes DEF TypeOK, new, Redeclares
<1>3. objs' \in Seq(ObjType) /\ Len(objs') = Len(objs)
  BY <1>1, <1>2
<1>4. Objects' = Objects
  BY <1>2, <1>3 DEF Objects
<1>5. objs'[fn] = new /\ \A o \in Objects \ {fn} : objs'[o] = objs[o]
  BY <1>1, <1>2
<1>6. Fixed(objs[fn], objs'[fn]) /\ (objs[fn].def => objs'[fn].def) /\ objs'[fn].uses = objs[fn].uses
      /\ (objs'[fn].def <=> objs[fn].def \/ d.def)
  BY <1>1, <1>5
<1>7. ASSUME NEW o \in Objects
      PROVE /\ Fixed(objs[o], objs'[o]) /\ (objs[o].def => objs'[o].def)
            /\ objs'[o].uses = objs[o].uses
            /\ ~objs[o].func => objs'[o] = objs[o]
            /\ o # fn => objs'[o] = objs[o]
  <2>1. CASE o = fn
    BY <1>6, <2>1
  <2>2. CASE o # fn
    BY <1>5, <2>2 DEF Fixed
  <2> QED
    BY <2>1, <2>2
<1> QED
  BY <1>3, <1>4, <1>5, <1>6, <1>7 DEF new

LEMMA LocalDeclOf ==
  ASSUME decl \in DOMAIN prog, item \in DOMAIN Decl.items, Item[1] # "use"
  PROVE <<decl, Item[1], Item[2]>> \in LocalDecls
<1>1. <<decl, Item[1], Item[2]>> \in {<<decl, prog[decl].items[i][1], prog[decl].items[i][2]>> :
                                     i \in {i \in DOMAIN prog[decl].items : prog[decl].items[i][1] # "use"}}
  BY DEF Item, Decl
<1> QED
  BY <1>1 DEF LocalDecls

\* A name declared in a body: an object that is no definition.
LEMMA LocalAppend ==
  ASSUME IInv, NEW kind \in {"proto", "extern"}, InBody(kind),
         NEW obj \in ObjType, obj.name = Item[2], ~obj.def, ~obj.static, ~obj.init, ~obj.tentative, ~obj.inline,
         obj.root <=> obj.func, obj.func <=> kind = "proto", obj.refs = {}, obj.uses = {}, new_gvar(obj),
         local' = [local EXCEPT ![Item[2]] = Len(objs) + 1], item' = item + 1,
         UNCHANGED <<prog, pc, decl, scope, current, owner, live, pending, at, cur, first>>
  PROVE IInv'
<1>0. TypeOK /\ Parts /\ pc = "body"
  BY DEF IInv, InBody
<1>1. /\ decl \in DOMAIN prog /\ item \in Nat /\ item >= 1 /\ item <= Len(Decl.items) /\ Len(Decl.items) \in Nat
      /\ Item[2] \in Names /\ Decl.func /\ owner \in Objects
  BY <1>0, InBodyItem DEF Parts
<1> DEFINE new == Len(objs) + 1
<1>2. /\ Objects' = Objects \union {new} /\ new \notin Objects /\ Len(objs') = new /\ new # 0 /\ new \in Nat
      /\ \A o \in Objects : objs'[o] = objs[o]
      /\ objs'[new] = obj /\ objs' = Append(objs, obj)
  BY <1>0, Appended, ObjectTypes DEF new_gvar
<1>3. Made' = Made
  BY DEF Made
<1>4. ObjectOK(obj)
  BY DEF ObjectOK
<1>5. ObjectsOK' /\ ObjectsMade' /\ UsesOK' /\ RefsOK' /\ RootsOK' /\ (RootsKept => RootsKept')
  BY <1>0, <1>2, <1>3, <1>4, AppendKeeps DEF Parts
<1>6. Evolves
  BY <1>2 DEF Evolves, Fixed
<1>7. \A n \in Names : (scope[n] # 0 => scope[n] \in Objects) /\ (local[n] # 0 => local[n] \in Objects)
  BY <1>0, ObjectTypes DEF TypeOK
<1>8. \A n \in Names : local'[n] = IF n = Item[2] THEN new ELSE local[n]
  BY <1>0, <1>1 DEF TypeOK
<1> HIDE DEF new
<1>9. TypeOK'
  <2>1. /\ objs' \in Seq(ObjType) /\ \A o \in Objects' : objs'[o].uses \subseteq Objects'
        /\ 0 .. Len(objs) \subseteq 0 .. Len(objs') /\ Objects \subseteq Objects'
        /\ next' \in [Objects' -> 0 .. Len(objs')] /\ head' \in 0 .. Len(objs')
    BY <1>0, AppendTypes
  <2>2. local' \in [Names -> 0 .. Len(objs')]
    BY <1>0, <1>1, <1>2, <2>1 DEF TypeOK, new
  <2>3. scope' \in [Names -> 0 .. Len(objs')]
    BY <1>0, <2>1 DEF TypeOK
  <2>4. item' \in Nat
    BY <1>1
  <2>5. live' \subseteq Objects' /\ pending' \subseteq Objects'
    BY <1>0, <2>1 DEF TypeOK
  <2>6. {current', owner', head', at', cur', first'} \subseteq 0 .. Len(objs')
    BY <1>0, <2>1 DEF TypeOK
  <2>7. /\ prog' \in Programs /\ pc' \in {"parse", "body", "mark", "scan", "emit", "error"}
        /\ decl' \in 1 .. Len(prog') + 1
    BY <1>0 DEF TypeOK
  <2> QED
    BY <2>1, <2>2, <2>3, <2>4, <2>5, <2>6, <2>7, Zenon DEF TypeOK
<1>10. ScopeOK'
  <2>1. ASSUME NEW n \in Names
        PROVE /\ scope'[n] # 0 => objs'[scope'[n]].name = n
              /\ local'[n] # 0 => objs'[local'[n]].name = n
    <3>1. /\ scope[n] # 0 => objs[scope[n]].name = n
          /\ local[n] # 0 => objs[local[n]].name = n
      BY <1>0 DEF ScopeOK, Parts
    <3>2. local'[n] = IF n = Item[2] THEN new ELSE local[n]
      BY <1>8
    <3>3. scope' = scope
      OBVIOUS
    <3> QED
      BY <1>2, <1>7, <3>1, <3>2, <3>3
  <2> QED
    BY <2>1 DEF ScopeOK
<1>11. BodyOK'
  <2>1. item' \in 1 .. Len(Decl'.items) + 1 /\ Decl' = Decl
    BY <1>1 DEF Decl
  <2>2. LocalNames(decl, item + 1) \subseteq LocalNames(decl, item) \union {Item[2]}
    BY <1>0, <1>1, LocalNamesNext DEF Item, Decl
  <2>3. \A n \in LocalNames(decl, item) : find_var(n) # 0
    BY <1>0 DEF BodyOK, Parts
  <2>4. ASSUME NEW n \in LocalNames(decl, item + 1) PROVE find_var(n)' # 0
    <3>1. CASE n = Item[2]
      BY <1>1, <1>2, <1>8, <3>1 DEF find_var
    <3>2. CASE n # Item[2] /\ n \in LocalNames(decl, item)
      <4>1. local'[n] = local[n]
        BY <1>0, <3>2 DEF TypeOK
      <4> QED
        BY <2>3, <3>2, <4>1 DEF find_var
    <3> QED
      BY <2>2, <3>1, <3>2
  <2>5. current # 0 => current \in Objects
    BY <1>0, ObjectTypes DEF TypeOK
  <2>6. LocalNames(decl, item)' = LocalNames(decl, item + 1)
    BY DEF LocalNames
  <2> QED
    BY <1>0, <1>1, <1>2, <1>3, <2>1, <2>4, <2>5, <2>6 DEF BodyOK, Parts
<1>12. DeclarationsMade'
  BY <1>0, <1>3, <1>6, DeclarationsKept DEF Parts
<1>13. Valid' => FileScope'
  <2> SUFFICES ASSUME Valid PROVE FileScope'
    BY SameUnit
  <2>1. ASSUME NEW o \in Objects', objs'[o].func
        PROVE scope'[objs'[o].name] = o \/ (~objs'[o].def /\ ~objs'[o].static)
    BY <1>0, <1>2, <2>1 DEF FileScope, Parts
  <2>2. ASSUME NEW n \in Names, scope'[n] # 0
        PROVE /\ First(n) \in Made'
              /\ objs'[scope'[n]].func <=> IsFunction(n)
              /\ objs'[scope'[n]].func => (objs'[scope'[n]].static <=> StaticSpec(prog[First(n)].spec))
    BY <1>0, <1>2, <1>3, <1>7, <2>2 DEF FileScope, Parts
  <2>3. ASSUME NEW o \in Objects', NEW u \in objs'[o].uses, ~objs'[o].func, objs'[u].func
        PROVE scope'[objs'[u].name] = u
    <3>1. o \in Objects /\ u \in objs[o].uses /\ objs'[o] = objs[o]
      BY <1>2
    <3>2. u \in Objects /\ objs'[u] = objs[u]
      BY <1>0, <1>2, <3>1 DEF TypeOK
    <3> QED
      BY <1>0, <2>3, <3>1, <3>2 DEF FileScope, Parts
  <2>4. ASSUME NEW o \in Objects', ~objs'[o].func PROVE ~IsFunction(objs'[o].name)
    <3>1. CASE o \in Objects
      BY <1>0, <1>2, <2>4, <3>1 DEF FileScope, Parts
    <3>2. CASE o = new
      <4>1. kind = "extern" /\ Item[1] = "extern" /\ item \in DOMAIN Decl.items
        BY <1>0, <1>2, <2>4, <3>2, InBodyItem DEF Parts
      <4>2. <<decl, "extern", Item[2]>> \in LocalDecls
        BY <1>0, <1>1, <4>1, LocalDeclOf
      <4>3. OneKind(Item[2])
        BY <1>1 DEF Valid
      <4>4. ~IsFunction(Item[2])
        <5>1. CASE Declared(Item[2]) = {}
          BY <5>1 DEF IsFunction
        <5>2. CASE Declared(Item[2]) # {}
          BY <4>2, <4>3, <5>2 DEF OneKind
        <5> QED
          BY <5>1, <5>2
      <4> QED
        BY <1>2, <3>2, <4>4
    <3> QED
      BY <1>2, <3>1, <3>2
  <2>5. \A o \in Objects' : IsFunction(objs[o].name)' <=> IsFunction(objs'[o].name)
    BY DEF IsFunction, Declared
  <2> QED
    BY <2>1, <2>2, <2>3, <2>4, <2>5, SameUnit DEF FileScope, StaticSpec
<1>14. LiveOK' /\ ListOK'
  BY <1>0, NothingLive, ListAppended DEF Parts
<1>15. Valid' => RootsKept'
  BY <1>0, <1>5, SameUnit DEF Parts
<1> QED
  BY <1>0, <1>5, <1>9, <1>10, <1>11, <1>12, <1>13, <1>14, <1>15 DEF IInv, Parts

LEMMA LocalExternStep ==
  ASSUME IInv, LocalExtern
  PROVE IInv'
<1> DEFINE obj == [NewObject(Item[2]) EXCEPT !.def = FALSE, !.static = FALSE]
<1>1. InBody("extern") /\ Item[2] \in Names
  BY InBodyItem DEF LocalExtern, IInv, Parts, InBody
<1>2. /\ obj \in ObjType
      /\ obj.name = Item[2] /\ ~obj.func /\ ~obj.def /\ ~obj.static /\ ~obj.inline
      /\ ~obj.tentative /\ ~obj.init /\ ~obj.root /\ obj.refs = {} /\ obj.uses = {}
  BY <1>1, ExternFields
<1>3. /\ new_gvar(obj) /\ local' = [local EXCEPT ![Item[2]] = Len(objs) + 1] /\ item' = item + 1
      /\ UNCHANGED <<prog, pc, decl, scope, current, owner, live, pending, at, cur, first>>
  BY DEF LocalExtern
<1> HIDE DEF obj
<1> QED
  BY <1>1, <1>2, <1>3, LocalAppend

LEMMA LocalPrototypeStep ==
  ASSUME IInv, LocalPrototype
  PROVE IInv'
<1> DEFINE n == Item[2]
           d == PrototypeOf(n)
           fn == find_func(n)
<1>0. TypeOK /\ Parts /\ pc = "body" /\ InBody("proto")
  BY DEF IInv, LocalPrototype, InBody
<1>1. /\ decl \in DOMAIN prog /\ item \in Nat /\ item >= 1 /\ item <= Len(Decl.items) /\ Len(Decl.items) \in Nat
      /\ n \in Names /\ Decl.func /\ owner \in Objects /\ Item[1] = "proto"
      /\ item \in DOMAIN Decl.items
  BY <1>0, InBodyItem DEF Parts
<1>2. /\ item' = item + 1
      /\ UNCHANGED <<prog, pc, decl, scope, current, owner, live, pending, at, cur, first>>
      /\ fn # 0 => objs' = [objs EXCEPT ![fn] = Redeclared(fn, d)] /\ UNCHANGED <<local, next, head>>
      /\ fn = 0 => new_gvar(NewFunction(d)) /\ local' = [local EXCEPT ![n] = Len(objs) + 1]
  BY DEF LocalPrototype, PrototypeOf
<1>3. CASE fn = 0
  <2> DEFINE obj == NewFunction(d)
  <2>1. d.name = n /\ d.def = FALSE /\ d.spec = {}
    BY DEF PrototypeOf
  <2>2. /\ obj \in ObjType
        /\ obj.name = n /\ obj.func /\ ~obj.def /\ ~obj.static /\ ~obj.inline
        /\ ~obj.tentative /\ ~obj.init /\ obj.root /\ obj.refs = {} /\ obj.uses = {}
    <3> HIDE DEF d
    <3> QED
      BY <1>1, <2>1, FunctionFields DEF StaticSpec
  <2>3. new_gvar(obj) /\ local' = [local EXCEPT ![Item[2]] = Len(objs) + 1]
    BY <1>2, <1>3
  <2> HIDE DEF obj, d, fn
  <2> QED
    BY <1>0, <1>2, <2>2, <2>3, LocalAppend
<1>4. CASE fn # 0
  <2>1. fn = scope[n] /\ fn \in Objects /\ objs[fn].func /\ objs[fn].name = n
    BY <1>0, <1>1, <1>4, FindFunc DEF Parts
  <2>2. d.def = FALSE /\ d.def \in BOOLEAN
    BY DEF PrototypeOf
  <2> HIDE DEF d, fn
  <2>3. Made' = Made
    BY <1>2 DEF Made
  <2>4. ~ForgottenRoot => \A k \in Made : ~prog[k].func => objs[fn].name \notin UsesIn(k)
    <3>1. ASSUME NEW k \in Made, ~prog[k].func, n \in UsesIn(k) PROVE ForgottenRoot
      <4>1. k \in DOMAIN prog /\ k < decl
        BY <1>0, <1>1, <3>1 DEF Made, Decl
      <4>2. <<decl, "proto", n>> \in LocalDecls
        BY <1>1, LocalDeclOf
      <4>3. <<decl, "proto", n>>[3] = n /\ <<decl, "proto", n>>[1] = decl
        OBVIOUS
      <4> QED
        BY <3>1, <4>1, <4>2, <4>3 DEF ForgottenRoot
    <3> QED
      BY <2>1, <3>1
  <2>5. /\ Objects' = Objects /\ Len(objs') = Len(objs) /\ objs' \in Seq(ObjType)
        /\ \A o \in Objects : /\ Fixed(objs[o], objs'[o]) /\ (objs'[o].def <=> objs[o].def)
                              /\ objs'[o].uses = objs[o].uses
                              /\ ~objs[o].func => objs'[o] = objs[o]
                              /\ o # fn => objs'[o] = objs[o]
        /\ objs'[fn] = Redeclared(fn, d)
    BY <1>0, <1>2, <1>4, <2>1, <2>2, Redeclaring DEF Redeclares
  <2>6. ObjectsOK' /\ ObjectsMade' /\ UsesOK' /\ RefsOK' /\ RootsOK' /\ (RootsKept => RootsKept')
    <3>1. Made \subseteq Made' /\ prog' = prog
      BY <1>2, <2>3
    <3>2. ObjectsOK /\ ObjectsMade /\ UsesOK /\ RefsOK /\ RootsOK
      BY <1>0 DEF Parts
    <3>3. d.def => \E k \in Made' : FunctionOf(objs[fn], k)
      BY <2>2
    <3> QED
      BY <1>0, <2>1, <2>2, <2>4, <2>5, <3>1, <3>2, <3>3, RedeclareKeeps
  <2>7. Evolves
    BY <2>5 DEF Evolves
  <2>8. TypeOK'
    <3>1. /\ \A o \in Objects' : objs'[o].uses \subseteq Objects'
          /\ next' \in [Objects' -> 0 .. Len(objs')] /\ head' \in 0 .. Len(objs')
      BY <1>0, <1>2, <1>4, <2>5, ReplaceTypes DEF TypeOK
    <3>2. item' \in Nat
      BY <1>1, <1>2
    <3> QED
      BY <1>0, <1>2, <1>4, <2>5, <3>1, <3>2 DEF TypeOK
  <2>9. ScopeOK'
    <3>1. \A m \in Names : (scope[m] # 0 => scope[m] \in Objects) /\ (local[m] # 0 => local[m] \in Objects)
      BY <1>0, ObjectTypes DEF TypeOK
    <3> QED
      BY <1>0, <1>2, <1>4, <2>5, <3>1 DEF ScopeOK, Fixed, Parts
  <2>10. BodyOK'
    <3>1. item' \in 1 .. Len(Decl'.items) + 1 /\ Decl' = Decl
      BY <1>1, <1>2 DEF Decl
    <3>2. LocalNames(decl, item + 1) \subseteq LocalNames(decl, item) \union {n}
      BY <1>0, <1>1, LocalNamesNext DEF Item, Decl
    <3>3. \A m \in LocalNames(decl, item) : find_var(m) # 0
      BY <1>0 DEF BodyOK, Parts
    <3>4. find_var(n) # 0
      BY <1>4, <2>1 DEF find_var
    <3>5. \A m : find_var(m)' = find_var(m)
      BY <1>2, <1>4 DEF find_var
    <3>6. current # 0 => current \in Objects
      BY <1>0, ObjectTypes DEF TypeOK
    <3>7. \A m \in LocalNames(decl, item)' : find_var(m)' # 0
      BY <1>2, <3>2, <3>3, <3>4, <3>5, SameUnit DEF LocalNames
    <3> QED
      BY <1>0, <1>1, <1>2, <2>3, <2>5, <3>1, <3>6, <3>7 DEF BodyOK, Parts, Fixed
  <2>11. DeclarationsMade'
    BY <1>0, <1>2, <2>3, <2>7, DeclarationsKept DEF Parts
  <2>12. Valid' => FileScope'
    BY <1>0, <1>2, <2>3, <2>5, <2>7, FileScopeKept, SameUnit DEF Parts, TypeOK
  <2>13. LiveOK' /\ ListOK'
    BY <1>0, <1>2, <1>4, <2>5, NothingLive, ListKept DEF Parts
  <2>14. Valid' => RootsKept'
    BY <1>0, <1>2, <2>6, SameUnit DEF Parts
  <2> QED
    BY <1>0, <1>2, <2>6, <2>8, <2>9, <2>10, <2>11, <2>12, <2>13, <2>14 DEF IInv, Parts
<1> QED
  BY <1>3, <1>4
-------------------------------------------------------------------------------
(***************************************************************************)
(* The steps of parse at file scope.                                       *)
(***************************************************************************)
LEMMA AtDeclaration ==
  ASSUME TypeOK, pc = "parse", decl <= Len(prog)
  PROVE /\ decl \in DOMAIN prog /\ decl \in Nat /\ decl \notin Made /\ Made \subseteq DOMAIN prog
        /\ Decl.name \in Names /\ Decl.def \in BOOLEAN /\ Decl.func \in BOOLEAN
        /\ decl \in Declared(Decl.name)
        /\ First(Decl.name) \in DOMAIN prog /\ First(Decl.name) \in Made \union {decl}
        /\ First(Decl.name) \in Declared(Decl.name)
        /\ Decl.func => IsFunction(Decl.name)
        /\ Valid => (IsFunction(Decl.name) <=> Decl.func)
<1>1. DOMAIN prog = 1 .. Len(prog) /\ Len(prog) \in Nat /\ decl \in Nat /\ decl >= 1
  BY DeclTypes DEF TypeOK
<1>2. decl \in DOMAIN prog /\ decl \notin Made /\ Made = {k \in DOMAIN prog : k < decl}
  BY <1>1 DEF Made
<1>3. Decl.name \in Names /\ Decl.def \in BOOLEAN /\ Decl.func \in BOOLEAN
  BY <1>2, DeclTypes DEF Decl
<1>4. decl \in Declared(Decl.name)
  BY <1>2 DEF Declared, Decl
<1>5. First(Decl.name) \in DOMAIN prog /\ First(Decl.name) <= decl /\ First(Decl.name) \in Declared(Decl.name)
  BY <1>3, <1>4, FirstOf
<1>6. First(Decl.name) \in Made \union {decl}
  BY <1>1, <1>2, <1>5
<1>7. Decl.func => IsFunction(Decl.name)
  BY <1>4 DEF IsFunction, Decl
<1>8. Valid => (IsFunction(Decl.name) <=> Decl.func)
  BY <1>3, <1>4 DEF Valid, OneKind, IsFunction, Decl
<1> QED
  BY <1>1, <1>2, <1>3, <1>4, <1>5, <1>6, <1>7, <1>8

LEMMA MadeNext ==
  ASSUME TypeOK, pc = "parse", decl <= Len(prog), prog' = prog,
         \/ pc' = "body" /\ decl' = decl
         \/ pc' = "parse" /\ decl' = decl + 1
  PROVE Made' = Made \union {decl}
<1>1. DOMAIN prog = 1 .. Len(prog) /\ Len(prog) \in Nat /\ decl \in DOMAIN prog
  BY DeclTypes, AtDeclaration
<1> QED
  BY <1>1 DEF Made

\* An object for a declaration at file scope.
LEMMA NewDeclaration ==
  ASSUME IInv, pc = "parse", decl <= Len(prog),
         NEW obj \in ObjType, obj.name = Decl.name, ObjectOK(obj), obj.uses = {}, obj.refs = {},
         ~(obj.func /\ obj.static /\ obj.inline /\ obj.root), obj.func <=> Decl.func,
         obj.func => /\ find_func(Decl.name) = 0 /\ (obj.def <=> Decl.def)
                     /\ (obj.static <=> StaticSpec(Decl.spec)),
         ~obj.func => VariableOf(obj, decl),
         new_gvar(obj), scope' = [scope EXCEPT ![Decl.name] = Len(objs) + 1],
         local' = NoScope, item' = 1,
         \/ /\ pc' = "body" /\ decl' = decl /\ owner' = Len(objs) + 1 /\ (Decl.func => Decl.def)
            /\ current' = IF Decl.func THEN Len(objs) + 1 ELSE current
         \/ /\ pc' = "parse" /\ decl' = decl + 1 /\ Decl.func /\ ~Decl.def
            /\ UNCHANGED <<owner, current>>,
         UNCHANGED <<prog, live, pending, at, cur, first>>
  PROVE IInv'
<1>0. TypeOK /\ Parts
  BY DEF IInv
<1>1. /\ decl \in DOMAIN prog /\ decl \in Nat /\ decl \notin Made /\ Made \subseteq DOMAIN prog
      /\ Decl.name \in Names /\ Decl.def \in BOOLEAN /\ Decl.func \in BOOLEAN
      /\ First(Decl.name) \in Made \union {decl}
      /\ Decl.func => IsFunction(Decl.name)
      /\ Valid => (IsFunction(Decl.name) <=> Decl.func)
  BY <1>0, AtDeclaration
<1> DEFINE new == Len(objs) + 1
           n == Decl.name
<1>2. /\ Objects' = Objects \union {new} /\ new \notin Objects /\ Len(objs') = new /\ new # 0 /\ new \in Nat
      /\ \A o \in Objects : objs'[o] = objs[o]
      /\ objs'[new] = obj /\ objs' = Append(objs, obj)
  BY <1>0, Appended, ObjectTypes DEF new_gvar
<1>3. Made' = Made \union {decl}
  BY <1>0, MadeNext
<1>4. /\ obj.func /\ obj.def => \E k \in Made' : FunctionOf(obj, k)
      /\ ~obj.func /\ (obj.def \/ obj.init) => \E k \in Made' \ Made : VariableOf(obj, k)
  BY <1>1, <1>3 DEF FunctionOf, Decl
<1>5. ObjectsOK' /\ ObjectsMade' /\ UsesOK' /\ RefsOK' /\ RootsOK' /\ (RootsKept => RootsKept')
  BY <1>0, <1>2, <1>3, <1>4, AppendKeeps DEF Parts
<1>6. Evolves
  BY <1>2 DEF Evolves, Fixed
<1>7. \A m \in Names : scope[m] # 0 => scope[m] \in Objects
  BY <1>0, ObjectTypes, SMTT(30) DEF TypeOK
<1>8. \A m \in Names : scope'[m] = (IF m = n THEN new ELSE scope[m]) /\ local'[m] = 0
  BY <1>0, <1>1 DEF TypeOK, NoScope
<1>9. pc' \in {"parse", "body"}
  OBVIOUS
<1>10. TypeOK'
  <2>1. /\ objs' \in Seq(ObjType) /\ \A o \in Objects' : objs'[o].uses \subseteq Objects'
        /\ 0 .. Len(objs) \subseteq 0 .. Len(objs') /\ Objects \subseteq Objects'
        /\ next' \in [Objects' -> 0 .. Len(objs')] /\ head' \in 0 .. Len(objs')
    BY <1>0, AppendTypes
  <2>2. scope' \in [Names -> 0 .. Len(objs')] /\ local' \in [Names -> 0 .. Len(objs')]
    BY <1>0, <1>1, <1>2, <2>1 DEF TypeOK, NoScope
  <2>3. new \in 0 .. Len(objs')
    BY <1>2
  <2>4. owner' \in 0 .. Len(objs') /\ current' \in 0 .. Len(objs')
    BY <1>0, <2>1, <2>3 DEF TypeOK
  <2>5. {at', cur', first'} \subseteq 0 .. Len(objs') /\ live' \subseteq Objects' /\ pending' \subseteq Objects'
    BY <1>0, <2>1 DEF TypeOK
  <2>6. decl' \in 1 .. Len(prog') + 1
    BY <1>1, <1>0, DeclTypes
  <2>7. prog' \in Programs /\ item' \in Nat
    BY <1>0 DEF TypeOK
  <2> QED
    BY <1>9, <2>1, <2>2, <2>4, <2>5, <2>6, <2>7 DEF TypeOK
<1> HIDE DEF new, n
<1>11. ScopeOK'
  <2>1. ASSUME NEW m \in Names
        PROVE scope'[m] # 0 => objs'[scope'[m]].name = m
    <3>1. scope[m] # 0 => objs[scope[m]].name = m
      BY <1>0 DEF ScopeOK, Parts
    <3>2. CASE m = n
      <4>1. scope'[m] = new /\ obj.name = n
        BY <1>8, <3>2 DEF n
      <4> QED
        BY <1>2, <3>2, <4>1
    <3>3. CASE m # n
      <4>1. scope'[m] = scope[m]
        BY <1>8, <3>3
      <4> QED
        BY <1>2, <1>7, <3>1, <4>1
    <3> QED
      BY <3>2, <3>3
  <2> QED
    BY <1>8, <2>1 DEF ScopeOK
<1>12. BodyOK'
  <2>1. current # 0 => current \in Objects
    BY <1>0, ObjectTypes DEF TypeOK
  <2>2. current # 0 => /\ objs'[current].func /\ objs'[current].def
                       /\ \E k \in Made' : prog[k].func /\ prog[k].def
    BY <1>0, <1>2, <1>3, <2>1 DEF BodyOK, Parts
  <2>3. CASE pc' = "body"
    <3>1. decl' = decl /\ owner' = new /\ (Decl.func => Decl.def) /\ Decl' = Decl
          /\ current' = IF Decl.func THEN new ELSE current
      <4>1. decl' = decl /\ owner' = new /\ (Decl.func => Decl.def)
            /\ current' = IF Decl.func THEN new ELSE current
        BY <2>3 DEF new
      <4> QED
        BY <4>1 DEF Decl
    <3>2. LocalNames(decl, item)' = {}
      BY <1>0, <1>1, <3>1, LocalNamesNext DEF LocalNames
    <3>3. item' \in 1 .. Len(Decl'.items) + 1
      BY <1>1, <3>1, DeclTypes, <1>0 DEF Decl
    <3>4. ~Decl.func => ~objs'[owner'].func /\ (objs'[owner'].init <=> Decl'.def)
      BY <1>2, <3>1 DEF VariableOf, Decl
    <3>5. current' # 0 => /\ objs'[current'].func /\ objs'[current'].def
                          /\ \E k \in Made' : prog'[k].func /\ prog'[k].def
      BY <1>1, <1>2, <1>3, <2>2, <3>1 DEF Decl
    <3>6. Decl'.func => current' = owner'
      BY <3>1
    <3>7. decl' \in DOMAIN prog' /\ owner' # 0
      BY <1>1, <1>2, <3>1
    <3> QED
      BY <2>3, <3>1, <3>2, <3>3, <3>4, <3>5, <3>6, <3>7 DEF BodyOK
  <2>4. CASE pc' = "parse"
    <3>1. current' = current
      BY <2>4
    <3> QED
      BY <2>2, <2>4, <3>1 DEF BodyOK
  <2> QED
    BY <1>9, <2>3, <2>4
<1>13. DeclarationsMade'
  <2>1. ASSUME NEW k \in Made' \ Made
        PROVE /\ scope'[prog[k].name] # 0
              /\ ~prog[k].func => \E o \in Objects' : ~objs'[o].func /\ VariableOf(objs'[o], k)
              /\ prog[k].func /\ prog[k].def => \E o \in Objects' : objs'[o].func /\ objs'[o].def /\ FunctionOf(objs'[o], k)
    <3>1. k = decl /\ prog[k] = Decl
      BY <1>3 DEF Decl
    <3>2. new \in Objects'
      BY <1>2
    <3> QED
      BY <1>1, <1>2, <1>8, <3>1, <3>2 DEF FunctionOf, n
  <2>2. \A m \in Names : scope[m] # 0 => scope'[m] # 0
    BY <1>2, <1>8
  <2> QED
    BY <1>0, <1>6, <2>1, <2>2, DeclarationsKept DEF Parts
<1>14. Valid' => FileScope'
  <2> SUFFICES ASSUME Valid PROVE FileScope'
    BY SameUnit
  <2>0. FileScope
    BY <1>0 DEF Parts
  <2>1. ASSUME NEW o \in Objects, objs[o].func, scope[objs[o].name] = o PROVE objs[o].name # n
    <3>1. SUFFICES ASSUME objs[o].name = n PROVE FALSE
      OBVIOUS
    <3>2. scope[n] = o /\ o # 0 /\ n \in Names
      BY <1>0, <1>1, <2>1, <3>1, ObjectTypes DEF n
    <3>3. IsFunction(n)
      BY <2>0, <2>1, <3>2 DEF FileScope
    <3>4. obj.func /\ find_func(n) = 0
      BY <1>1, <3>3 DEF n
    <3> QED
      BY <2>1, <3>2, <3>4 DEF find_func
  <2>2. ASSUME NEW o \in Objects', objs'[o].func
        PROVE scope'[objs'[o].name] = o \/ (~objs'[o].def /\ ~objs'[o].static)
    <3>1. CASE o = new
      BY <1>1, <1>2, <1>8, <3>1 DEF n
    <3>2. CASE o \in Objects
      <4>1. objs'[o] = objs[o] /\ objs[o].name \in Names
        BY <1>0, <1>2, <3>2, ObjectTypes
      <4> QED
        BY <1>8, <2>0, <2>1, <2>2, <3>2, <4>1 DEF FileScope
    <3> QED
      BY <1>2, <3>1, <3>2
  <2>3. ASSUME NEW m \in Names, scope'[m] # 0
        PROVE /\ First(m) \in Made'
              /\ objs'[scope'[m]].func <=> IsFunction(m)
              /\ objs'[scope'[m]].func => (objs'[scope'[m]].static <=> StaticSpec(prog[First(m)].spec))
    <3>1. CASE m # n
      <4>1. scope'[m] = scope[m] /\ scope[m] # 0 /\ objs'[scope[m]] = objs[scope[m]]
        BY <1>2, <1>7, <1>8, <2>3, <3>1
      <4>2. /\ First(m) \in Made
            /\ objs[scope[m]].func <=> IsFunction(m)
            /\ objs[scope[m]].func => (objs[scope[m]].static <=> StaticSpec(prog[First(m)].spec))
        BY <2>0, <4>1 DEF FileScope
      <4> QED
        BY <1>3, <4>1, <4>2
    <3>2. CASE m = n
      <4>1. scope'[m] = new /\ objs'[scope'[m]] = obj
        BY <1>2, <1>8, <3>2
      <4>2. First(m) \in Made' /\ (obj.func <=> IsFunction(m))
        BY <1>1, <1>3, <3>2 DEF n
      <4>3. ASSUME obj.func PROVE First(m) = decl
        <5>1. SUFFICES ASSUME First(m) \in Made PROVE FALSE
          BY <1>1, <3>2 DEF n
        <5>2. prog[First(m)].name = m
          BY <1>0, <1>1, <3>2, AtDeclaration DEF Declared, n
        <5>3. scope[m] # 0
          BY <1>0, <5>1, <5>2 DEF DeclarationsMade, Parts
        <5>4. objs[scope[m]].func
          BY <2>0, <4>2, <4>3, <5>3 DEF FileScope
        <5> QED
          BY <3>2, <4>3, <5>3, <5>4 DEF find_func, n
      <4> QED
        BY <4>1, <4>2, <4>3 DEF Decl
    <3> QED
      BY <3>1, <3>2
  <2>4. ASSUME NEW o \in Objects', NEW u \in objs'[o].uses, ~objs'[o].func, objs'[u].func
        PROVE scope'[objs'[u].name] = u
    <3>1. o \in Objects /\ u \in objs[o].uses /\ objs'[o] = objs[o]
      BY <1>2
    <3>2. u \in Objects /\ objs'[u] = objs[u] /\ objs[u].name \in Names
      BY <1>0, <1>2, <3>1, ObjectTypes DEF TypeOK
    <3>3. scope[objs[u].name] = u
      BY <2>0, <2>4, <3>1, <3>2 DEF FileScope
    <3> QED
      BY <1>8, <2>1, <2>4, <3>2, <3>3
  <2>5. ASSUME NEW o \in Objects', ~objs'[o].func PROVE ~IsFunction(objs'[o].name)
    <3>1. CASE o \in Objects
      BY <1>2, <2>0, <2>5, <3>1 DEF FileScope
    <3>2. CASE o = new
      BY <1>1, <1>2, <2>5, <3>2 DEF n
    <3> QED
      BY <1>2, <3>1, <3>2
  <2>6. \A o \in Objects' : IsFunction(objs[o].name)' <=> IsFunction(objs'[o].name)
    BY DEF IsFunction, Declared
  <2> QED
    BY <2>2, <2>3, <2>4, <2>5, <2>6, SameUnit DEF FileScope, StaticSpec
<1>15. LiveOK' /\ ListOK'
  BY <1>0, <1>9, NothingLive, ListAppended DEF Parts
<1>16. Valid' => RootsKept'
  BY <1>0, <1>5, SameUnit DEF Parts
<1>17. pc' # "error"
  BY <1>9
<1> QED
  BY <1>5, <1>10, <1>11, <1>12, <1>13, <1>14, <1>15, <1>16, <1>17 DEF IInv, Parts

LEMMA GlobalVariableStep ==
  ASSUME IInv, GlobalVariable
  PROVE IInv'
<1> DEFINE obj == NewVariable(Decl)
<1>1. pc = "parse" /\ decl <= Len(prog) /\ ~Decl.func /\ TypeOK
  BY DEF GlobalVariable, IInv
<1>2. Decl.name \in Names /\ Decl.def \in BOOLEAN
  BY <1>1, AtDeclaration
<1>3. /\ obj \in ObjType
      /\ obj.name = Decl.name /\ ~obj.func /\ (obj.def <=> "extern" \notin Decl.spec)
      /\ (obj.static <=> "static" \in Decl.spec) /\ ~obj.inline
      /\ (obj.tentative <=> ~Decl.def /\ "extern" \notin Decl.spec) /\ (obj.init <=> Decl.def)
      /\ ~obj.root /\ obj.refs = {} /\ obj.uses = {}
  BY <1>2, VariableFields
<1>4. /\ new_gvar(obj) /\ scope' = [scope EXCEPT ![Decl.name] = Len(objs) + 1]
      /\ pc' = "body" /\ owner' = Len(objs) + 1
      /\ item' = 1 /\ local' = NoScope
      /\ UNCHANGED <<prog, decl, current, live, pending, at, cur, first>>
  BY DEF GlobalVariable
<1> HIDE DEF obj
<1>5. ObjectOK(obj) /\ VariableOf(obj, decl)
  BY <1>1, <1>3 DEF ObjectOK, VariableOf, Tentative, Decl
<1> QED
  BY <1>1, <1>3, <1>4, <1>5, NewDeclaration

LEMMA FunctionDeclStep ==
  ASSUME IInv, FunctionDecl
  PROVE IInv'
<1> DEFINE n == Decl.name
           fn == find_func(n)
<1>0. TypeOK /\ Parts /\ pc = "parse" /\ decl <= Len(prog) /\ Decl.func
  BY DEF IInv, FunctionDecl
<1>1. /\ decl \in DOMAIN prog /\ decl \in Nat /\ decl \notin Made /\ Made \subseteq DOMAIN prog
      /\ n \in Names /\ Decl.def \in BOOLEAN
      /\ decl \in Declared(n)
  BY <1>0, AtDeclaration
<1>2. /\ UNCHANGED <<prog, live, pending, at, cur, first>>
      /\ item' = 1 /\ local' = NoScope
  BY DEF FunctionDecl
<1>3. Made' = Made \union {decl}
  <2>1. \/ pc' = "body" /\ decl' = decl
        \/ pc' = "parse" /\ decl' = decl + 1
    BY <1>0, <1>1 DEF FunctionDecl
  <2> QED
    BY <1>0, <1>2, <2>1, MadeNext
<1>4. CASE fn = 0
  <2> DEFINE obj == NewFunction(Decl)
  <2>1. /\ obj \in ObjType
        /\ obj.name = n /\ obj.func /\ (obj.def <=> Decl.def)
        /\ (obj.static <=> StaticSpec(Decl.spec)) /\ (obj.inline <=> "inline" \in Decl.spec)
        /\ ~obj.tentative /\ ~obj.init /\ (obj.root <=> ~(obj.static /\ obj.inline))
        /\ obj.refs = {} /\ obj.uses = {}
    BY <1>1, FunctionFields
  <2>2. /\ new_gvar(obj) /\ scope' = [scope EXCEPT ![Decl.name] = Len(objs) + 1]
        /\ \/ /\ pc' = "body" /\ decl' = decl /\ owner' = Len(objs) + 1 /\ Decl.def
              /\ current' = Len(objs) + 1
           \/ /\ pc' = "parse" /\ decl' = decl + 1 /\ ~Decl.def /\ UNCHANGED <<owner, current>>
    BY <1>0, <1>4 DEF FunctionDecl
  <2> HIDE DEF obj
  <2>3. ObjectOK(obj) /\ ~(obj.func /\ obj.static /\ obj.inline /\ obj.root)
    BY <2>1 DEF ObjectOK
  <2> QED
    BY <1>0, <1>2, <1>4, <2>1, <2>2, <2>3, NewDeclaration
<1>5. CASE fn # 0
  <2>1. fn = scope[n] /\ fn \in Objects /\ objs[fn].func /\ objs[fn].name = n
    BY <1>0, <1>1, <1>5, FindFunc DEF Parts
  <2>2. /\ objs' = [objs EXCEPT ![fn] = Redeclared(fn, Decl)] /\ UNCHANGED <<next, head, scope>>
        /\ \/ pc' = "body" /\ decl' = decl /\ owner' = fn /\ Decl.def /\ current' = fn
           \/ pc' = "parse" /\ decl' = decl + 1 /\ ~Decl.def /\ UNCHANGED <<owner, current>>
    BY <1>0, <1>5 DEF FunctionDecl
  <2> HIDE DEF fn, n
  <2>3. /\ Objects' = Objects /\ Len(objs') = Len(objs) /\ objs' \in Seq(ObjType)
        /\ \A o \in Objects : /\ Fixed(objs[o], objs'[o]) /\ (objs[o].def => objs'[o].def)
                              /\ objs'[o].uses = objs[o].uses
                              /\ ~objs[o].func => objs'[o] = objs[o]
                              /\ o # fn => objs'[o] = objs[o]
        /\ objs'[fn] = Redeclared(fn, Decl)
        /\ objs'[fn].def <=> objs[fn].def \/ Decl.def
    <3>1. Redeclares(fn, Decl)
      BY <2>2 DEF Redeclares
    <3> QED
      BY <1>0, <1>1, <2>1, <3>1, Redeclaring
  <2>4. FunctionOf(objs[fn], decl) \/ ~Decl.def
    BY <1>0, <2>1 DEF FunctionOf, Decl, n
  <2>5. ObjectsOK' /\ ObjectsMade' /\ UsesOK' /\ RefsOK' /\ RootsOK' /\ (RootsKept => RootsKept')
    <3>1. Made \subseteq Made' /\ prog' = prog
      BY <1>2, <1>3
    <3>2. ObjectsOK /\ ObjectsMade /\ UsesOK /\ RefsOK /\ RootsOK
      BY <1>0 DEF Parts
    <3>3. Decl.def => \E k \in Made' : FunctionOf(objs[fn], k)
      BY <1>3, <2>4
    <3>4. ~ForgottenRoot => \A k \in Made : ~prog[k].func => objs[fn].name \notin UsesIn(k)
      <4>1. ASSUME NEW k \in Made, ~prog[k].func, n \in UsesIn(k) PROVE ForgottenRoot
        <5>1. k \in DOMAIN prog /\ k < decl
          BY <1>0, <1>1, <4>1 DEF Made
        <5> QED
          BY <1>1, <4>1, <5>1 DEF ForgottenRoot
      <4> QED
        BY <2>1, <4>1
    <3> QED
      BY <1>0, <1>1, <2>1, <2>3, <3>1, <3>2, <3>3, <3>4, RedeclareKeeps
  <2>6. Evolves
    BY <2>3 DEF Evolves, Fixed
  <2>7. pc' \in {"parse", "body"}
    BY <2>2
  <2>8. TypeOK'
    <3>1. /\ \A o \in Objects' : objs'[o].uses \subseteq Objects'
          /\ next' \in [Objects' -> 0 .. Len(objs')] /\ head' \in 0 .. Len(objs')
      BY <1>0, <2>2, <2>3, ReplaceTypes DEF TypeOK
    <3>2. fn \in 0 .. Len(objs')
      BY <1>0, <2>1, <2>3, ObjectTypes
    <3>3. decl' \in 1 .. Len(prog') + 1
      BY <1>0, <1>1, <1>2, <2>2, DeclTypes
    <3>4. local' \in [Names -> 0 .. Len(objs')] /\ scope' \in [Names -> 0 .. Len(objs')]
      BY <1>0, <1>2, <2>2, <2>3 DEF TypeOK, NoScope
    <3>5. owner' \in 0 .. Len(objs') /\ current' \in 0 .. Len(objs')
      BY <1>0, <2>2, <2>3, <3>2 DEF TypeOK
    <3>6. /\ {at', cur', first'} \subseteq 0 .. Len(objs') /\ live' \subseteq Objects' /\ pending' \subseteq Objects'
          /\ prog' \in Programs /\ item' \in Nat
      BY <1>0, <1>2, <2>3 DEF TypeOK
    <3> QED
      BY <2>3, <2>7, <3>1, <3>3, <3>4, <3>5, <3>6 DEF TypeOK
  <2>9. ScopeOK'
    <3>1. \A m \in Names : scope[m] # 0 => scope[m] \in Objects /\ objs[scope[m]].name = m
      BY <1>0, ObjectTypes DEF TypeOK, ScopeOK, Parts
    <3>2. \A m \in Names : scope'[m] # 0 => objs'[scope'[m]].name = m
      BY <2>2, <2>3, <3>1 DEF Fixed
    <3> QED
      BY <1>2, <3>2 DEF ScopeOK, NoScope
  <2>10. BodyOK'
    <3>1. current # 0 => current \in Objects
      BY <1>0, ObjectTypes DEF TypeOK
    <3>2. current # 0 => /\ objs'[current].func /\ objs'[current].def
                         /\ \E k \in Made' : prog[k].func /\ prog[k].def
      BY <1>0, <1>3, <2>3, <3>1 DEF BodyOK, Parts, Fixed
    <3>3. CASE pc' = "body"
      <4>1. decl' = decl /\ owner' = fn /\ Decl.def /\ current' = fn
        BY <2>2, <3>3
      <4>2. LocalNames(decl, item)' = {}
        BY <1>0, <1>1, <1>2, <4>1, LocalNamesNext DEF LocalNames
      <4>3. Decl' = Decl /\ item' \in 1 .. Len(Decl'.items) + 1
        BY <1>0, <1>1, <1>2, <4>1, DeclTypes DEF Decl
      <4>4. objs'[fn].func /\ objs'[fn].def
        BY <2>1, <2>3, <4>1 DEF Fixed
      <4>5. \E k \in Made' : prog[k].func /\ prog[k].def
        BY <1>0, <1>3, <4>1 DEF Decl
      <4>6. decl' \in DOMAIN prog' /\ owner' # 0
        BY <1>0, <1>1, <1>2, <2>1, <4>1, ObjectTypes
      <4> QED
        BY <1>0, <1>2, <3>3, <4>1, <4>2, <4>3, <4>4, <4>5, <4>6 DEF BodyOK
    <3>4. CASE pc' = "parse"
      <4>1. current' = current
        BY <2>2, <3>4
      <4> QED
        BY <1>2, <3>2, <3>4, <4>1 DEF BodyOK
    <3> QED
      BY <2>7, <3>3, <3>4
  <2>11. DeclarationsMade'
    <3>1. ASSUME NEW k \in Made' \ Made
          PROVE /\ scope'[prog[k].name] # 0
                /\ ~prog[k].func => \E o \in Objects' : ~objs'[o].func /\ VariableOf(objs'[o], k)
                /\ prog[k].func /\ prog[k].def => \E o \in Objects' : objs'[o].func /\ objs'[o].def /\ FunctionOf(objs'[o], k)
      <4>1. k = decl /\ prog[k] = Decl
        BY <1>3 DEF Decl
      <4>2. scope'[n] # 0
        BY <1>0, <2>1, <2>2, ObjectTypes
      <4>3. Decl.def => objs'[fn].func /\ objs'[fn].def /\ FunctionOf(objs'[fn], decl)
        BY <2>1, <2>3, <2>4 DEF Fixed, FunctionOf
      <4> QED
        BY <1>0, <2>1, <2>3, <4>1, <4>2, <4>3 DEF n
    <3> QED
      BY <1>0, <1>2, <2>2, <2>6, <3>1, DeclarationsKept DEF Parts
  <2>12. Valid' => FileScope'
    <3>1. Made \subseteq Made'
      BY <1>3
    <3>2. \A o \in Objects : objs[o].func /\ ~objs[o].def /\ objs'[o].def => scope[objs[o].name] = o
      BY <2>1, <2>3
    <3>3. \A o \in Objects : objs'[o].uses \subseteq Objects
      BY <1>0, <2>3 DEF TypeOK
    <3> QED
      BY <1>0, <1>2, <2>2, <2>3, <2>6, <3>1, <3>2, <3>3, FileScopeKept, SameUnit DEF Parts
  <2>13. LiveOK' /\ ListOK'
    BY <1>0, <1>2, <2>2, <2>3, <2>7, NothingLive, ListKept DEF Parts
  <2>14. Valid' => RootsKept'
    BY <1>0, <1>2, <2>5, SameUnit DEF Parts
  <2> QED
    BY <2>5, <2>7, <2>8, <2>9, <2>10, <2>11, <2>12, <2>13, <2>14 DEF IInv, Parts
<1> QED
  BY <1>4, <1>5

(***************************************************************************)
(* A valid unit meets no error.                                            *)
(***************************************************************************)
LEMMA FunctionConflictStep ==
  ASSUME IInv, FunctionConflict
  PROVE IInv'
<1> DEFINE n == Decl.name
           fn == find_func(n)
<1>0. TypeOK /\ Parts /\ pc = "parse" /\ decl <= Len(prog) /\ Decl.func /\ Conflict(fn, Decl)
  BY DEF IInv, FunctionConflict
<1>1. /\ decl \in DOMAIN prog /\ decl \notin Made /\ Made \subseteq DOMAIN prog /\ n \in Names
      /\ decl \in Declared(n) /\ First(n) \in Declared(n)
  BY <1>0, AtDeclaration
<1>2. fn = scope[n] /\ fn \in Objects /\ objs[fn].func /\ objs[fn].name = n /\ scope[n] # 0
  BY <1>0, <1>1, FindFunc DEF Parts, Conflict
<1>3. TypeOK'
  BY <1>0 DEF TypeOK, FunctionConflict, Error, Objects
<1>4. ASSUME Valid PROVE FALSE
  <2>1. CASE objs[fn].def /\ Decl.def
    <3>1. PICK k \in Made : FunctionOf(objs[fn], k)
      BY <1>0, <1>2, <2>1 DEF ObjectsMade, Parts
    <3>2. k \in Declared(n) /\ prog[k].def /\ prog[decl].def
      BY <1>1, <1>2, <2>1, <3>1 DEF FunctionOf, Declared, Decl
    <3>3. k = decl
      BY <1>1, <1>4, <3>2 DEF Valid
    <3> QED
      BY <1>1, <3>3
  <2>2. CASE ~objs[fn].static /\ "static" \in Decl.spec
    <3>1. OneLinkage(n)
      BY <1>1, <1>4 DEF Valid
    <3>2. "static" \in prog[First(n)].spec
      BY <1>1, <2>2, <3>1 DEF OneLinkage, Decl
    <3>3. objs[fn].static <=> StaticSpec(prog[First(n)].spec)
      BY <1>0, <1>1, <1>2, <1>4 DEF FileScope, Parts
    <3> QED
      BY <2>2, <3>2, <3>3 DEF StaticSpec
  <2> QED
    BY <1>0, <2>1, <2>2 DEF Conflict
<1>5. pc' = "error" /\ prog' = prog
  BY DEF FunctionConflict, Error
<1> QED
  BY <1>3, <1>4, <1>5, SameUnit DEF IInv

LEMMA UndeclaredStep ==
  ASSUME IInv, Undeclared
  PROVE IInv'
<1> DEFINE n == Item[2]
<1>0. TypeOK /\ Parts /\ InBody("use") /\ find_var(n) = 0
  BY DEF IInv, Undeclared, InBody
<1>1. /\ pc = "body" /\ decl \in DOMAIN prog /\ item \in DOMAIN Decl.items /\ Item[1] = "use" /\ n \in Names
  BY <1>0, InBodyItem DEF Parts
<1>2. TypeOK'
  BY <1>0 DEF TypeOK, Undeclared, Error, Objects
<1>3. ASSUME Valid PROVE FALSE
  <2>1. n \in LocalNames(decl, item) \union {prog[j].name : j \in 1 .. decl}
    BY <1>1, <1>3 DEF Valid, KnownUses, Item, Decl
  <2>2. n \notin LocalNames(decl, item)
    BY <1>0, <1>1 DEF BodyOK, Parts
  <2>3. PICK j \in 1 .. decl : prog[j].name = n
    BY <2>1, <2>2
  <2>4. j \in Made
    BY <1>0, <1>1, <2>3, DeclTypes DEF Made
  <2>5. scope[n] # 0
    BY <1>0, <2>3, <2>4 DEF DeclarationsMade, Parts
  <2> QED
    BY <1>0, <2>5, ObjectTypes DEF find_var
<1>4. pc' = "error" /\ prog' = prog
  BY DEF Undeclared, Error
<1> QED
  BY <1>2, <1>3, <1>4, SameUnit DEF IInv

-------------------------------------------------------------------------------
(***************************************************************************)
(* What is live.                                                           *)
(***************************************************************************)
LEMMA CalleesTypes ==
  ASSUME TypeOK, ScopeOK, NEW o \in Objects
  PROVE Callees(o) \subseteq Objects /\ \A x \in Callees(o) : objs[x].func
<1>1. ASSUME NEW x \in Callees(o) PROVE x \in Objects /\ objs[x].func
  <2>1. PICK n \in objs[o].refs : x = find_func(n) /\ x # 0
    BY DEF Callees
  <2>2. n \in Names
    BY ObjectTypes
  <2> QED
    BY <2>1, <2>2, FindFunc
<1> QED
  BY <1>1

\* The parts of the invariant that only parse changes.
LEMMA AfterParse ==
  ASSUME TypeOK, Parts, UNCHANGED <<prog, objs, scope, local, current, decl>>,
         pc # "body", pc' \notin {"parse", "body"}, decl' = Len(prog) + 1
  PROVE /\ ObjectsOK' /\ ObjectsMade' /\ DeclarationsMade' /\ UsesOK' /\ RefsOK' /\ RootsOK'
        /\ Valid' => FileScope' /\ RootsKept'
        /\ ScopeOK' /\ BodyOK'
<1>1. Made' = Made
  BY DEF Made
<1>2. ScopeOK'
  BY DEF ScopeOK, Parts
<1>3. BodyOK'
  BY <1>1 DEF BodyOK, Parts
<1> QED
  BY <1>1, <1>2, <1>3, SameObjects

LEMMA FinishParseStep ==
  ASSUME IInv, FinishParse
  PROVE IInv'
<1>0. TypeOK /\ Parts /\ pc = "parse" /\ decl > Len(prog) /\ live = {}
  BY DEF IInv, FinishParse, LiveOK, Parts
<1>1. decl = Len(prog) + 1
  BY <1>0, DeclTypes DEF TypeOK
<1>2. /\ pending' = {o \in Objects : objs[o].root} /\ pc' = "mark"
      /\ UNCHANGED <<prog, decl, item, objs, scope, local, current, owner, next, head,
                     live, at, cur, first>>
  BY DEF FinishParse
<1>3. Objects' = Objects
  BY <1>2 DEF Objects
<1>4. TypeOK'
  BY <1>0, <1>2, <1>3 DEF TypeOK
<1>5. LiveOK'
  BY <1>0, <1>2, <1>3 DEF LiveOK, ObjectsOK, ObjectOK, Parts
<1>6. ListOK'
  BY <1>0, <1>2, <1>3 DEF ListOK, Parts
<1> QED
  BY <1>0, <1>1, <1>2, <1>4, <1>5, <1>6, AfterParse DEF IInv, Parts

LEMMA MarkStep ==
  ASSUME IInv, mark_live
  PROVE IInv'
<1>0. TypeOK /\ Parts /\ pc = "mark" /\ decl = Len(prog) + 1
  BY DEF IInv, mark_live, BodyOK, Parts
<1>1. PICK o \in pending :
        /\ live' = live \union {o}
        /\ pending' = (pending \ {o}) \union Unmarked(o)
  BY DEF mark_live
<1>2. UNCHANGED <<prog, pc, decl, item, objs, scope, local, current, owner, next, head, at, cur, first>>
  BY DEF mark_live
<1>3. Objects' = Objects /\ o \in Objects /\ \A p : Callees(p)' = Callees(p)
  BY <1>0, <1>2 DEF Objects, TypeOK, Callees, find_func
<1>4. Callees(o) \subseteq Objects /\ \A x \in Callees(o) : objs[x].func
  BY <1>0, <1>3, CalleesTypes DEF Parts
<1>5. /\ Callees(o) \subseteq live' \union pending'
      /\ live \union pending \subseteq live' \union pending'
      /\ live' \union pending' \subseteq live \union pending \union (Callees(o) \ {o})
  BY <1>1 DEF Unmarked
<1>6. TypeOK'
  <2>1. live' \subseteq Objects' /\ pending' \subseteq Objects'
    BY <1>0, <1>1, <1>3, <1>4 DEF TypeOK, Unmarked
  <2> QED
    BY <1>0, <1>2, <1>3, <2>1 DEF TypeOK
<1>7. LiveOK'
  <2>0. LiveOK
    BY <1>0 DEF Parts
  <2>1. ASSUME NEW x \in live' \union pending'
        PROVE objs[x].func /\ (objs[x].root \/ \E p \in live' \ {x} : x \in Callees(p))
    <3>1. CASE x \in live \union pending
      BY <1>1, <2>0, <3>1 DEF LiveOK
    <3>2. CASE x \in Callees(o) \ {o}
      BY <1>1, <1>4, <3>2
    <3> QED
      BY <1>5, <3>1, <3>2
  <2>2. ASSUME NEW x \in Objects, objs[x].root PROVE x \in live' \union pending'
    BY <1>0, <1>5, <2>0, <2>2 DEF LiveOK
  <2>3. ASSUME NEW p \in live' PROVE Callees(p) \subseteq live' \union pending'
    <3>1. CASE p \in live
      BY <1>0, <1>5, <2>0, <3>1 DEF LiveOK
    <3>2. CASE p = o
      BY <1>5, <3>2
    <3> QED
      BY <1>1, <3>1, <3>2
  <2> QED
    BY <1>0, <1>2, <1>3, <2>1, <2>2, <2>3 DEF LiveOK
<1>8. ListOK'
  BY <1>0, <1>2, <1>3 DEF ListOK, Parts
<1> QED
  BY <1>0, <1>2, <1>6, <1>7, <1>8, AfterParse DEF IInv, Parts

LEMMA FinishMarkStep ==
  ASSUME IInv, FinishMark
  PROVE IInv'
<1>0. TypeOK /\ Parts /\ pc = "mark" /\ pending = {} /\ decl = Len(prog) + 1
  BY DEF IInv, FinishMark, BodyOK, Parts
<1>1. /\ pc' = "scan" /\ at' = head
      /\ UNCHANGED <<prog, decl, item, objs, scope, local, current, owner, next, head,
                     live, pending, cur, first>>
  BY DEF FinishMark
<1>2. Objects' = Objects /\ \A p : Callees(p)' = Callees(p)
  BY <1>1 DEF Objects, Callees, find_func
<1>3. TypeOK'
  BY <1>0, <1>1, <1>2 DEF TypeOK
<1>4. LiveOK'
  BY <1>0, <1>1, <1>2 DEF LiveOK, Parts
<1>5. ListOK'
  <2>1. /\ cur = 0 /\ first = 0 /\ head = Len(objs) /\ \A o \in Objects : next[o] = o - 1
        /\ Objects = 1 .. Len(objs) /\ Len(objs) \in Nat
    BY <1>0, ObjectTypes DEF ListOK, Parts
  <2>2. LinkedIn({})'
    BY <1>1, <2>1 DEF LinkedIn
  <2>3. Decided({})'
    BY <1>1, <1>2, <2>1 DEF Decided
  <2>4. Scanning({})'
    BY <1>1, <1>2, <2>1, <2>2, <2>3 DEF Scanning
  <2>5. \E S \in SUBSET Objects' : Scanning(S)'
    BY <2>4
  <2> QED
    BY <1>1, <2>1, <2>5 DEF ListOK
<1> QED
  BY <1>0, <1>1, <1>3, <1>4, <1>5, AfterParse DEF IInv, Parts

-------------------------------------------------------------------------------
(***************************************************************************)
(* The list while it is scanned.                                           *)
(***************************************************************************)
\* What is kept is found from first on.
LEMMA KeptNext ==
  ASSUME NEW S \in SUBSET Nat, LinkedIn(S), NEW x \in S, x # first
  PROVE \E y \in S : y # cur /\ x < y /\ next[y] = x
<1> DEFINE Above == {y \in S : x < y}
<1>1. \A o \in S : o \in Nat
  OBVIOUS
<1>2. cur \in S /\ first \in S
  <2>1. S # {}
    OBVIOUS
  <2> QED
    BY <2>1 DEF LinkedIn
<1>3. \A o \in S : /\ cur <= o /\ o <= first
                   /\ o # cur => next[o] \in S /\ next[o] < o /\ \A p \in S : p < o => p <= next[o]
  BY DEF LinkedIn
<1>4. first \in Nat /\ cur \in Nat /\ x \in Nat /\ cur <= x /\ x <= first
  BY <1>1, <1>2, <1>3
<1>5. Above \in SUBSET Nat /\ first \in Above
  <2>1. x < first
    BY <1>4
  <2> QED
    BY <1>1, <1>2, <2>1
<1>6. PICK y \in Above : \A z \in Above : y <= z
  BY <1>5, Least
<1>7. y \in S /\ x < y /\ y \in Nat
  BY <1>1, <1>6
<1>8. y # cur
  BY <1>4, <1>7
<1>9. next[y] \in S /\ next[y] < y /\ x <= next[y]
  BY <1>3, <1>7, <1>8
<1>10. next[y] \in Nat /\ (x < next[y] => y <= next[y])
  BY <1>1, <1>6, <1>9
<1>11. next[y] = x
  BY <1>4, <1>7, <1>9, <1>10
<1> QED
  BY <1>7, <1>8, <1>11

\* From the old head the list leads to what is kept, and to what is to come.
LEMMA OnList ==
  ASSUME TypeOK, head = Len(objs), NEW S \in SUBSET Objects, Scanning(S),
         NEW p \in Objects, p \in S \/ p <= at
  PROVE p \in Listed
<1>0. Len(objs) \in Nat /\ Objects = 1 .. Len(objs) /\ S \in SUBSET Nat /\ LinkedIn(S)
      /\ at \in Nat /\ \A o \in S : at < o
  BY ObjectTypes, SMTT(30) DEF TypeOK, Scanning
<1>1. SUFFICES ASSUME NEW T \in SUBSET Objects, FollowsNext(T), p \notin T PROVE FALSE
  BY DEF Listed
<1> DEFINE OnIt(x) == S = {} \/ x \in S \/ x < cur \/ first < x
           U == {x \in Objects : OnIt(x) /\ x \notin T}
<1>2. /\ S # {} => cur \in S /\ first \in S
      /\ \A o \in S : o \in Nat /\ cur <= o /\ o <= first
  <2>1. \A o \in S : o \in Nat
    BY <1>0
  <2> QED
    BY <1>0, <2>1 DEF LinkedIn
<1>3. OnIt(p)
  <2>1. CASE S # {} /\ p <= at
    <3>1. cur \in S
      BY <1>2, <2>1
    <3>2. cur \in Nat /\ at < cur
      BY <1>0, <1>2, <3>1
    <3>3. p \in Nat
      BY <1>0
    <3> QED
      BY <1>0, <2>1, <3>2, <3>3
  <2> QED
    BY <2>1
<1>4. U \in SUBSET Nat /\ U # {} /\ \A x \in U : x <= Len(objs)
  BY <1>0, <1>1, <1>3
<1>5. PICK x \in U : \A y \in U : y <= x
  BY <1>0, <1>4, Greatest
<1>6. x \in Objects /\ OnIt(x) /\ x \notin T /\ x \in Nat /\ x # 0
  BY <1>0, <1>5
<1>7. x # Len(objs)
  <2>1. head # 0 => head \in T
    BY <1>1 DEF FollowsNext
  <2> QED
    BY <1>6, <2>1
<1>8. x + 1 \in Objects
  BY <1>0, <1>6, <1>7
<1>9. \A y \in Objects : x < y /\ OnIt(y) => next[y] # x
  <2>1. ASSUME NEW y \in Objects, x < y, OnIt(y) PROVE y \in T
    <3>1. y \notin U
      BY <1>0, <1>5, <1>6, <2>1
    <3> QED
      BY <2>1, <3>1
  <2>2. \A y \in T : next[y] # 0 => next[y] \in T
    BY <1>1 DEF FollowsNext
  <2> QED
    BY <1>6, <2>1, <2>2
<1>10. \A o \in Objects : o \notin S \/ o = cur => next[o] = o - 1
  BY DEF Scanning
<1>11. CASE S = {} \/ first <= x
  <2>1. x + 1 \notin S /\ OnIt(x + 1)
    <3>1. CASE S = {}
      BY <3>1
    <3>2. CASE S # {} /\ first <= x
      <4>1. first \in Nat /\ first < x + 1
        <5>1. first \in Nat /\ first <= x
          BY <1>2, <3>2
        <5> QED
          BY <1>6, <5>1
      <4>2. ~(x + 1 <= first)
        BY <1>6, <4>1
      <4> QED
        BY <1>2, <4>1, <4>2
    <3> QED
      BY <1>11, <3>1, <3>2
  <2>2. next[x + 1] = x
    BY <1>6, <1>8, <1>10, <2>1
  <2> QED
    BY <1>6, <1>8, <1>9, <2>1, <2>2
<1>12. CASE S # {} /\ x < cur
  <2>1. cur \in Nat /\ first \in Nat
    BY <1>0, <1>2, <1>12
  <2>2. x + 1 = cur \/ (x + 1 < cur /\ x + 1 \notin S)
    BY <1>0, <1>2, <1>6, <1>12, <2>1
  <2>3. next[x + 1] = x /\ OnIt(x + 1)
    BY <1>2, <1>6, <1>8, <1>10, <1>12, <2>2
  <2> QED
    BY <1>6, <1>8, <1>9, <2>3
<1>13. CASE x \in S /\ x # first
  <2>1. PICK y \in S : x < y /\ next[y] = x
    BY <1>0, <1>13, KeptNext
  <2> QED
    BY <1>9, <2>1
<1>14. S # {} => first \in Nat
  BY <1>0, <1>2
<1> QED
  BY <1>6, <1>11, <1>12, <1>13, <1>14

LEMMA KeepStep ==
  ASSUME IInv, Keep
  PROVE IInv'
<1>0. TypeOK /\ Parts /\ pc = "scan" /\ at # 0 /\ ~Redundant(at) /\ decl = Len(prog) + 1
  BY DEF IInv, Keep, BodyOK, Parts
<1>1. /\ cur = 0 => first' = at /\ next' = next
      /\ cur # 0 => first' = first /\ next' = [next EXCEPT ![cur] = at]
      /\ cur' = at /\ at' = next[at]
      /\ UNCHANGED <<prog, pc, decl, item, objs, scope, local, current, owner, head, live, pending>>
  BY DEF Keep
<1>2. Objects' = Objects /\ \A p : Callees(p)' = Callees(p)
  BY <1>1 DEF Objects, Callees, find_func
<1>3. /\ Len(objs) \in Nat /\ Objects = 1 .. Len(objs) /\ at \in Objects /\ head = Len(objs)
      /\ cur \in 0 .. Len(objs) /\ next \in [Objects -> 0 .. Len(objs)]
      /\ cur # 0 => cur \in Objects
  BY <1>0, ObjectTypes DEF TypeOK, ListOK, Parts
<1>4. PICK S \in SUBSET Objects : Scanning(S)
  BY <1>0 DEF ListOK, Parts
<1>5. /\ LinkedIn(S) /\ (\A o \in S : at < o) /\ at \notin S
      /\ \A o \in Objects : o \notin S \/ o = cur => next[o] = o - 1
      /\ Decided(S)
  BY <1>3, <1>4 DEF Scanning
<1>6. /\ cur = 0 <=> S = {}
      /\ cur # 0 => cur \in S /\ first \in S /\ cur # at
  BY <1>3, <1>5 DEF LinkedIn
<1>7. at' = at - 1
  BY <1>1, <1>3, <1>5
<1>8. /\ next' \in [Objects -> 0 .. Len(objs)]
      /\ \A o \in Objects : o # cur => next'[o] = next[o]
      /\ cur # 0 => next'[cur] = at
  BY <1>1, <1>3, <1>6
<1>k. PICK K \in SUBSET Objects : K = S \union {at}
  BY <1>3
<1>9. TypeOK'
  <2>1. at' \in 0 .. Len(objs)
    BY <1>3, <1>7
  <2>2. first' \in 0 .. Len(objs)
    BY <1>0, <1>1, <1>3 DEF TypeOK
  <2> QED
    BY <1>0, <1>1, <1>2, <1>3, <1>8, <2>1, <2>2, SMTT(30) DEF TypeOK
<1>10. LiveOK'
  BY <1>0, <1>1, <1>2 DEF LiveOK, Parts
<1>11. K \in SUBSET Objects' /\ K # {}
  BY <1>2, <1>k
<1>12. LinkedIn(K)'
  <2>1. cur' \in K /\ first' \in K
    BY <1>k, <1>1, <1>6
  <2>2. ASSUME NEW o \in K PROVE cur' <= o /\ o <= first'
    <3>1. CASE o = at
      <4>1. S # {} => first' = first /\ first \in S /\ at < first
        BY <1>1, <1>5, <1>6
      <4>2. S = {} => first' = at
        BY <1>1, <1>6
      <4>3. at \in Nat /\ \A z \in S : z \in Nat
        BY <1>3
      <4> QED
        BY <1>1, <3>1, <4>1, <4>2, <4>3
    <3>2. CASE o \in S
      <4>1. first' = first
        BY <1>k, <1>1, <1>6, <3>2
      <4> QED
        BY <1>k, <1>1, <1>3, <1>5, <3>2, <4>1 DEF LinkedIn
    <3> QED
      BY <1>k, <3>1, <3>2
  <2>3. ASSUME NEW o \in K, o # cur'
        PROVE next'[o] \in K /\ next'[o] < o /\ \A p \in K : p < o => p <= next'[o]
    <3>1. o \in S /\ o \in Objects /\ cur # 0 /\ at < o
      BY <1>k, <1>1, <1>5, <1>6, <2>3
    <3>2. CASE o = cur
      <4>1. next'[o] = at
        BY <1>k, <1>8, <3>1, <3>2
      <4>2. \A p \in S : ~(p < o)
        BY <1>k, <1>3, <1>5, <3>2 DEF LinkedIn
      <4> QED
        BY <1>k, <1>3, <3>1, <4>1, <4>2
    <3>3. CASE o # cur
      <4>1. next'[o] = next[o]
        BY <1>k, <1>8, <3>1, <3>3
      <4>2. next[o] \in S /\ next[o] < o /\ \A p \in S : p < o => p <= next[o]
        BY <1>k, <1>5, <3>1, <3>3 DEF LinkedIn
      <4>3. at <= next[o]
        BY <1>k, <1>3, <1>5, <4>2
      <4> QED
        BY <1>k, <4>1, <4>2, <4>3
    <3> QED
      BY <1>k, <3>2, <3>3
  <2> QED
    BY <1>k, <1>11, <2>1, <2>2, <2>3 DEF LinkedIn
<1>13. Decided(K)'
  <2>1. \A p \in Objects \ {at} : objs[at].tentative /\ objs[p].def /\ ~objs[p].tentative => objs[p].name # objs[at].name
    <3>1. ASSUME NEW p \in Objects \ {at}, objs[p].def, ~objs[p].tentative PROVE p \in Listed
      <4>1. p \in S \/ p <= at
        BY <1>k, <1>3, <1>5, <3>1 DEF Decided
      <4> QED
        BY <1>k, <1>0, <1>3, <1>4, <4>1, OnList
    <3> QED
      BY <1>k, <1>0, <3>1 DEF Redundant
  <2>2. ASSUME NEW o \in Objects, o > at'
        PROVE IF o \in K
                THEN objs[o].tentative =>
                       \A p \in Objects \ {o} : objs[p].def /\ ~objs[p].tentative => objs[p].name # objs[o].name
                ELSE objs[o].tentative /\ \E p \in Objects \ {o} : objs[p].def /\ objs[p].name = objs[o].name
    <3>1. CASE o = at
      BY <1>k, <2>1, <3>1
    <3>2. CASE o > at
      BY <1>k, <1>3, <1>5, <3>2 DEF Decided
    <3> QED
      BY <1>k, <1>3, <1>7, <2>2, <3>1, <3>2
  <2> QED
    BY <1>k, <1>1, <1>2, <2>2 DEF Decided
<1>14. Scanning(K)'
  <2>1. \A o \in K : at' < o
    BY <1>k, <1>3, <1>5, <1>7
  <2>2. ASSUME NEW o \in Objects, o \notin K \/ o = at PROVE next'[o] = o - 1
    BY <1>k, <1>3, <1>5, <1>6, <1>8, <2>2
  <2> QED
    BY <1>k, <1>1, <1>2, <1>12, <1>13, <2>1, <2>2 DEF Scanning
<1>15. ListOK'
  <2>1. \E R \in SUBSET Objects' : Scanning(R)'
    BY <1>k, <1>11, <1>14
  <2> QED
    BY <1>k, <1>0, <1>1, <1>3, <2>1 DEF ListOK
<1> QED
  BY <1>k, <1>0, <1>1, <1>9, <1>10, <1>15, AfterParse DEF IInv, Parts

LEMMA DropStep ==
  ASSUME IInv, Drop
  PROVE IInv'
<1>0. TypeOK /\ Parts /\ pc = "scan" /\ at # 0 /\ Redundant(at) /\ decl = Len(prog) + 1
  BY DEF IInv, Drop, BodyOK, Parts
<1>1. /\ at' = next[at]
      /\ UNCHANGED <<prog, pc, decl, item, objs, scope, local, current, owner, next, head,
                     live, pending, cur, first>>
  BY DEF Drop
<1>2. Objects' = Objects /\ \A p : Callees(p)' = Callees(p)
  BY <1>1 DEF Objects, Callees, find_func
<1>3. /\ Len(objs) \in Nat /\ Objects = 1 .. Len(objs) /\ at \in Objects /\ head = Len(objs)
      /\ next \in [Objects -> 0 .. Len(objs)]
  BY <1>0, ObjectTypes DEF TypeOK, ListOK, Parts
<1>4. PICK S \in SUBSET Objects : Scanning(S)
  BY <1>0 DEF ListOK, Parts
<1>5. /\ LinkedIn(S) /\ (\A o \in S : at < o) /\ at \notin S
      /\ \A o \in Objects : o \notin S \/ o = cur => next[o] = o - 1
      /\ Decided(S)
  BY <1>3, <1>4 DEF Scanning
<1>6. at' = at - 1
  BY <1>1, <1>3, <1>5
<1>7. TypeOK'
  <2>1. at' \in 0 .. Len(objs)
    BY <1>3, <1>6
  <2> QED
    BY <1>0, <1>1, <1>2, <2>1 DEF TypeOK
<1>8. LiveOK'
  BY <1>0, <1>1, <1>2 DEF LiveOK, Parts
<1>9. Scanning(S)'
  <2>1. LinkedIn(S)'
    BY <1>1, <1>5 DEF LinkedIn
  <2>2. ASSUME NEW o \in Objects, o > at'
        PROVE IF o \in S
                THEN objs[o].tentative =>
                       \A p \in Objects \ {o} : objs[p].def /\ ~objs[p].tentative => objs[p].name # objs[o].name
                ELSE objs[o].tentative /\ \E p \in Objects \ {o} : objs[p].def /\ objs[p].name = objs[o].name
    <3>1. CASE o = at
      BY <1>0, <1>5, <3>1 DEF Redundant, Listed
    <3>2. CASE o > at
      BY <1>3, <1>5, <3>2 DEF Decided
    <3> QED
      BY <1>3, <1>6, <2>2, <3>1, <3>2
  <2>3. Decided(S)'
    BY <1>1, <1>2, <2>2 DEF Decided
  <2>4. \A o \in S : at' < o
    BY <1>3, <1>5, <1>6
  <2> QED
    BY <1>1, <1>2, <1>5, <2>1, <2>3, <2>4 DEF Scanning
<1>10. ListOK'
  <2>1. \E R \in SUBSET Objects' : Scanning(R)'
    BY <1>2, <1>9
  <2> QED
    BY <1>0, <1>1, <1>3, <2>1 DEF ListOK
<1> QED
  BY <1>0, <1>1, <1>7, <1>8, <1>10, AfterParse DEF IInv, Parts

LEMMA FinishScanStep ==
  ASSUME IInv, FinishScan
  PROVE IInv'
<1>0. TypeOK /\ Parts /\ pc = "scan" /\ at = 0 /\ decl = Len(prog) + 1
  BY DEF IInv, FinishScan, BodyOK, Parts
<1>1. /\ next' = [o \in Objects |-> IF o = cur THEN 0 ELSE next[o]]
      /\ head' = first
      /\ pc' = "emit"
      /\ UNCHANGED <<prog, decl, item, objs, scope, local, current, owner,
                     live, pending, at, cur, first>>
  BY DEF FinishScan
<1>2. Objects' = Objects /\ \A p : Callees(p)' = Callees(p)
  BY <1>1 DEF Objects, Callees, find_func
<1>3. /\ Len(objs) \in Nat /\ Objects = 1 .. Len(objs)
      /\ next \in [Objects -> 0 .. Len(objs)]
  BY <1>0, ObjectTypes DEF TypeOK
<1>4. PICK S \in SUBSET Objects : Scanning(S)
  BY <1>0 DEF ListOK, Parts
<1>5. LinkedIn(S) /\ Decided(S) /\ S \in SUBSET Nat
  BY <1>3, <1>4 DEF Scanning
<1>6. \A o \in Objects : next'[o] = IF o = cur THEN 0 ELSE next[o]
  BY <1>1
<1>7. TypeOK'
  <2>1. next' \in [Objects -> 0 .. Len(objs)]
    BY <1>1, <1>3
  <2> QED
    BY <1>0, <1>1, <1>2, <2>1 DEF TypeOK
<1>8. LiveOK'
  BY <1>0, <1>1, <1>2 DEF LiveOK, Parts
<1>9. FollowsNext(S)'
  <2>1. head' # 0 => head' \in S
    BY <1>1, <1>5 DEF LinkedIn
  <2>2. \A o \in S : next'[o] # 0 => next'[o] \in S
    BY <1>5, <1>6 DEF LinkedIn
  <2> QED
    BY <2>1, <2>2 DEF FollowsNext
<1>10. ASSUME NEW T \in SUBSET Objects, FollowsNext(T)' PROVE S \subseteq T
  <2> DEFINE U == S \ T
  <2>1. SUFFICES ASSUME U # {} PROVE FALSE
    OBVIOUS
  <2>2. U \in SUBSET Nat /\ \A x \in U : x <= Len(objs)
    BY <1>3, <1>5
  <2>3. PICK x \in U : \A y \in U : y <= x
    BY <1>3, <2>1, <2>2, Greatest
  <2>4. x \in S /\ x \notin T /\ x \in Nat /\ x # 0
    BY <1>3, <2>3
  <2>5. (head' # 0 => head' \in T) /\ \A y \in T : next'[y] # 0 => next'[y] \in T
    BY <1>10 DEF FollowsNext
  <2>6. CASE x = first
    BY <1>1, <2>4, <2>5, <2>6
  <2>7. CASE x # first
    <3>1. PICK y \in S : y # cur /\ x < y /\ next[y] = x
      BY <1>5, <2>4, <2>7, KeptNext
    <3>2. y \in T
      BY <1>5, <2>3, <2>4, <3>1
    <3>3. next'[y] = x
      BY <1>6, <3>1
    <3> QED
      BY <2>4, <2>5, <3>2, <3>3
  <2> QED
    BY <2>6, <2>7
<1>11. Listed' = S
  BY <1>2, <1>9, <1>10 DEF Listed
<1>12. Decided(Listed)'
  <2>1. \A o \in Objects : o > at =>
          IF o \in Listed'
            THEN objs[o].tentative =>
                   \A p \in Objects \ {o} : objs[p].def /\ ~objs[p].tentative => objs[p].name # objs[o].name
            ELSE objs[o].tentative /\ \E p \in Objects \ {o} : objs[p].def /\ objs[p].name = objs[o].name
    BY <1>5, <1>11 DEF Decided
  <2> QED
    BY <1>1, <1>2, <2>1 DEF Decided
<1>13. ListOK'
  BY <1>0, <1>1, <1>12 DEF ListOK
<1> QED
  BY <1>0, <1>1, <1>7, <1>8, <1>13, AfterParse DEF IInv, Parts

-------------------------------------------------------------------------------
LEMMA Initial ==
  Init => IInv
<1> SUFFICES ASSUME Init PROVE IInv
  OBVIOUS
<1>1. /\ prog \in Programs /\ pc = "parse" /\ decl = 1 /\ item = 1
      /\ objs = <<>> /\ scope = NoScope /\ local = NoScope
      /\ current = 0 /\ owner = 0 /\ next = <<>> /\ head = 0
      /\ live = {} /\ pending = {} /\ at = 0 /\ cur = 0 /\ first = 0
  BY DEF Init
<1>2. prog \in Seq(Declarations) /\ Len(prog) \in Nat /\ DOMAIN prog = 1 .. Len(prog)
  BY <1>1, ProgramsAssumption
<1>3. Objects = {} /\ Len(objs) = 0
  BY <1>1 DEF Objects
<1>4. Made = {}
  BY <1>1, <1>2 DEF Made
<1>5. TypeOK
  <2>1. objs \in Seq(ObjType)
    BY <1>1
  <2>2. next \in [Objects -> 0 .. Len(objs)]
    BY <1>1, <1>3
  <2>3. scope \in [Names -> 0 .. Len(objs)] /\ local \in [Names -> 0 .. Len(objs)]
    BY <1>1, <1>3 DEF NoScope
  <2> QED
    BY <1>1, <1>2, <1>3, <2>1, <2>2, <2>3 DEF TypeOK
<1>6. ObjectsOK /\ ObjectsMade /\ UsesOK /\ RefsOK /\ RootsOK /\ RootsKept /\ DeclarationsMade
  BY <1>3, <1>4 DEF ObjectsOK, ObjectsMade, UsesOK, RefsOK, RootsOK, RootsKept, DeclarationsMade
<1>7. ScopeOK /\ BodyOK /\ FileScope
  BY <1>1, <1>3 DEF ScopeOK, BodyOK, FileScope, NoScope
<1>8. LiveOK /\ ListOK
  BY <1>1, <1>3 DEF LiveOK, ListOK
<1> QED
  BY <1>1, <1>5, <1>6, <1>7, <1>8 DEF IInv, Parts

LEMMA Stutters ==
  ASSUME IInv, UNCHANGED vars
  PROVE IInv'
<1>1. UNCHANGED <<prog, pc, decl, item, objs, scope, local, current, owner,
                  next, head, live, pending, at, cur, first>>
  BY DEF vars
<1>2. Objects' = Objects /\ Made' = Made /\ (\A p : Callees(p)' = Callees(p)) /\ TypeOK
  BY <1>1 DEF Objects, Made, Callees, find_func, IInv
<1>3. TypeOK'
  BY <1>1, <1>2 DEF TypeOK
<1>4. ASSUME Parts PROVE Parts'
  <2>1. /\ ObjectsOK' /\ ObjectsMade' /\ DeclarationsMade' /\ UsesOK' /\ RefsOK' /\ RootsOK'
        /\ Valid' => FileScope' /\ RootsKept'
    BY <1>1, <1>2, <1>4, SameObjects
  <2>2. ScopeOK'
    BY <1>1, <1>4 DEF ScopeOK, Parts
  <2>3. BodyOK'
    <3>1. Decl' = Decl /\ (\A n : find_var(n)' = find_var(n)) /\ LocalNames(decl, item)' = LocalNames(decl, item)
      BY <1>1 DEF Decl, find_var, LocalNames
    <3> QED
      BY <1>1, <1>2, <1>4, <3>1 DEF BodyOK, Parts
  <2>4. LiveOK'
    BY <1>1, <1>2, <1>4 DEF LiveOK, Parts
  <2>5. ListOK'
    <3>1. Listed' = Listed
      BY <1>1, <1>2 DEF Listed, FollowsNext
    <3>2. \A S : (Decided(S)' <=> Decided(S)) /\ (LinkedIn(S)' <=> LinkedIn(S))
      BY <1>1, <1>2 DEF Decided, LinkedIn
    <3>3. \A S : Scanning(S)' <=> Scanning(S)
      BY <1>1, <1>2, <3>2 DEF Scanning
    <3>4. Decided(Listed)' <=> Decided(Listed)
      BY <1>1, <1>2, <3>1 DEF Decided
    <3> QED
      BY <1>1, <1>2, <1>4, <3>3, <3>4 DEF ListOK, Parts
  <2> QED
    BY <2>1, <2>2, <2>3, <2>4, <2>5 DEF Parts
<1> QED
  BY <1>1, <1>3, <1>4, SameUnit DEF IInv

(***************************************************************************)
(* The invariant holds in every state parse, mark_live and scan_globals    *)
(* reach: what an object says of itself comes from a declaration, the file *)
(* scope has the functions of the unit, what is used is remembered, what   *)
(* is remembered becomes live, and the list stays linked.                  *)
(***************************************************************************)
THEOREM Invariance == Spec => []IInv
<1>1. IInv /\ [Next]_vars => IInv'
  <2> SUFFICES ASSUME IInv, [Next]_vars PROVE IInv'
    OBVIOUS
  <2>1. CASE FunctionDecl
    BY <2>1, FunctionDeclStep
  <2>2. CASE FunctionConflict
    BY <2>2, FunctionConflictStep
  <2>3. CASE GlobalVariable
    BY <2>3, GlobalVariableStep
  <2>4. CASE Use
    BY <2>4, UseStep
  <2>5. CASE Undeclared
    BY <2>5, UndeclaredStep
  <2>6. CASE LocalPrototype
    BY <2>6, LocalPrototypeStep
  <2>7. CASE LocalExtern
    BY <2>7, LocalExternStep
  <2>8. CASE EndBody
    BY <2>8, EndBodyStep
  <2>9. CASE FinishParse
    BY <2>9, FinishParseStep
  <2>10. CASE mark_live
    BY <2>10, MarkStep
  <2>11. CASE FinishMark
    BY <2>11, FinishMarkStep
  <2>12. CASE Keep
    BY <2>12, KeepStep
  <2>13. CASE Drop
    BY <2>13, DropStep
  <2>14. CASE FinishScan
    BY <2>14, FinishScanStep
  <2>15. CASE UNCHANGED vars
    BY <2>15, Stutters
  <2> QED
    BY <2>1, <2>2, <2>3, <2>4, <2>5, <2>6, <2>7, <2>8, <2>9, <2>10, <2>11, <2>12, <2>13, <2>14, <2>15
       DEF Next, Step, Done
<1> QED
  BY <1>1, Initial, PTL DEF Spec

\* The types are kept.
THEOREM TypeCorrect == Spec => []TypeOK
<1>1. IInv => TypeOK
  BY DEF IInv
<1> QED
  BY <1>1, Invariance, PTL

-------------------------------------------------------------------------------
(***************************************************************************)
(* What holds when the symbols are emitted.                                *)
(***************************************************************************)
\* Functions, and all that is not tentative, are in the list.
LEMMA StaysListed ==
  ASSUME IInv, pc = "emit", NEW o \in Objects, ~objs[o].tentative
  PROVE o \in Listed
<1>1. at = 0 /\ Decided(Listed) /\ o > at
  BY ObjectTypes DEF IInv, Parts, ListOK
<1> QED
  BY <1>1 DEF Decided

LEMMA FunctionsListed ==
  ASSUME IInv, pc = "emit", NEW o \in Objects, objs[o].func
  PROVE o \in Listed
BY StaysListed DEF IInv, Parts, ObjectsOK, ObjectOK

LEMMA IdleLemma == IInv => NothingIdle
<1> SUFFICES ASSUME IInv, pc = "emit", NEW e \in Emitted, objs[e].func, objs[e].static, objs[e].inline
             PROVE \E o \in (Emitted \union {v \in Objects : objs[v].init}) \ {e} :
                     \E u \in objs[o].uses : objs[u].name = objs[e].name
  BY DEF NothingIdle
<1>0. TypeOK /\ Parts
  BY DEF IInv
<1>1. e \in Objects /\ e \in live /\ ~objs[e].init
  BY <1>0 DEF Emitted, Listed, Parts, ObjectsOK, ObjectOK
<1>2. objs[e].root \/ \E p \in live \ {e} : e \in Callees(p)
  BY <1>0, <1>1 DEF LiveOK, Parts
<1>3. CASE objs[e].root
  <2>1. PICK v \in Objects : objs[v].init /\ e \in objs[v].uses
    BY <1>0, <1>1, <1>3 DEF RootsOK, Parts
  <2> QED
    BY <1>1, <2>1
<1>4. CASE \E p \in live \ {e} : e \in Callees(p)
  <2>1. PICK p \in live \ {e} : e \in Callees(p)
    BY <1>4
  <2>2. PICK n \in objs[p].refs : e = find_func(n) /\ e # 0
    BY <2>1 DEF Callees
  <2>3. p \in Objects /\ n \in Names
    BY <1>0, <2>1, <2>2, ObjectTypes DEF TypeOK
  <2>4. objs[e].name = n
    BY <1>0, <2>2, <2>3, FindFunc DEF Parts
  <2>5. PICK v \in Objects : (v = p \/ objs[v].init) /\ \E u \in objs[v].uses : objs[u].name = n
    BY <1>0, <2>2, <2>3 DEF RefsOK, Parts
  <2>6. CASE objs[v].init
    BY <1>1, <2>4, <2>5, <2>6
  <2>7. CASE v = p
    <3>1. objs[p].func /\ objs[p].def
      BY <1>0, <2>2, <2>3 DEF Parts, ObjectsOK, ObjectOK
    <3>2. p \in Listed
      BY <2>3, <3>1, FunctionsListed
    <3>3. p \in Emitted
      BY <2>1, <3>1, <3>2 DEF Emitted
    <3> QED
      BY <2>1, <2>4, <2>5, <2>7, <3>3
  <2> QED
    BY <2>5, <2>6, <2>7
<1> QED
  BY <1>2, <1>3, <1>4

(***************************************************************************)
(* NothingIdle, for every unit, valid or not: a static inline function is  *)
(* live because an initialiser made it a root, or because a live function  *)
(* remembers its name; parse wrote that down where the name was used.      *)
(***************************************************************************)
THEOREM NoneIdle == Spec => []NothingIdle
BY Invariance, IdleLemma, PTL

\* At the end every declaration has been made, and objects tell of declarations.
LEMMA AtEnd ==
  ASSUME IInv, pc = "emit", Valid
  PROVE /\ Made = DOMAIN prog /\ TypeOK /\ Parts /\ FileScope /\ RootsKept
        /\ \A o \in Objects : objs[o].func /\ objs[o].def =>
             /\ IsFunction(objs[o].name) /\ Defined(objs[o].name) /\ Declared(objs[o].name) # {}
             /\ scope[objs[o].name] = o
        /\ \A o \in Objects : ~objs[o].func => ~IsFunction(objs[o].name)
        /\ \A o \in live : Callees(o) \subseteq live
        /\ \A o \in Objects : objs[o].root => o \in live
<1>1. TypeOK /\ Parts /\ FileScope /\ RootsKept /\ decl = Len(prog) + 1
  BY DEF IInv, Parts, BodyOK
<1>2. Made = DOMAIN prog
  BY <1>1, DeclTypes DEF Made
<1>3. ASSUME NEW o \in Objects, objs[o].func, objs[o].def
      PROVE /\ IsFunction(objs[o].name) /\ Defined(objs[o].name) /\ Declared(objs[o].name) # {}
            /\ scope[objs[o].name] = o
  <2>1. PICK k \in Made : FunctionOf(objs[o], k)
    BY <1>1, <1>3 DEF Parts, ObjectsMade
  <2>2. k \in Declared(objs[o].name) /\ prog[k].func /\ prog[k].def
    BY <1>2, <2>1 DEF FunctionOf, Declared
  <2> QED
    BY <1>1, <1>3, <2>2 DEF FileScope, IsFunction, Defined
<1>4. \A o \in Objects : ~objs[o].func => ~IsFunction(objs[o].name)
  BY <1>1 DEF FileScope
<1>5. pending = {} /\ (\A o \in live : Callees(o) \subseteq live) /\ \A o \in Objects : objs[o].root => o \in live
  BY <1>1 DEF LiveOK, Parts
<1> QED
  BY <1>1, <1>2, <1>3, <1>4, <1>5

\* All declarations of a variable that are not extern agree on its linkage.
LEMMA Linkage ==
  ASSUME TypeOK, Valid, NEW n \in Names, ~IsFunction(n), NEW k \in Declared(n), "extern" \notin prog[k].spec
  PROVE "static" \in prog[k].spec <=> Internal(n)
<1>1. OneLinkage(n) /\ First(n) \in Declared(n)
  BY FirstOf DEF Valid
<1>2. ASSUME "static" \in prog[k].spec PROVE "static" \in prog[First(n)].spec
  BY <1>1, <1>2 DEF OneLinkage
<1>3. ASSUME "static" \in prog[First(n)].spec PROVE "static" \in prog[k].spec
  BY <1>1, <1>3 DEF OneLinkage
<1> QED
  BY <1>2, <1>3 DEF Internal

LEMMA StorageLemma ==
  ASSUME IInv, Conforming, NEW n \in Names, HasStorage(n)
  PROVE \E o \in Emitted :
          /\ {p \in Emitted : objs[p].name = n} = {o}
          /\ objs[o].init = Defined(n)
          /\ objs[o].static = Internal(n)
<1>0. pc = "emit" /\ Valid /\ ~RepeatedTentative /\ ~ExternInitialised
  BY DEF Conforming, Departs
<1>1. /\ Made = DOMAIN prog /\ TypeOK /\ Parts
      /\ \A o \in Objects : objs[o].func /\ objs[o].def => IsFunction(objs[o].name)
  BY <1>0, AtEnd
<1>2. ~IsFunction(n) /\ Declared(n) \subseteq DOMAIN prog /\ \A k \in Declared(n) : ~prog[k].func /\ prog[k].name = n
  BY DEF HasStorage, IsFunction, Declared
\* The declaration that C takes for the definition.
<1>3. PICK k \in Declared(n) : /\ "extern" \notin prog[k].spec
                               /\ prog[k].def <=> Defined(n)
  <2>1. PICK j \in Declared(n) : prog[j].def \/ "extern" \notin prog[j].spec
    BY DEF HasStorage
  <2>2. \A i \in Declared(n) : prog[i].def => "extern" \notin prog[i].spec
    BY <1>0, <1>2 DEF ExternInitialised
  <2>3. CASE Defined(n)
    BY <2>2, <2>3 DEF Defined
  <2>4. CASE ~Defined(n)
    BY <2>1, <2>4 DEF Defined
  <2> QED
    BY <2>3, <2>4
<1>4. PICK o \in Objects : ~objs[o].func /\ VariableOf(objs[o], k)
  BY <1>1, <1>2, <1>3 DEF DeclarationsMade, Parts
<1>5. /\ objs[o].name = n /\ objs[o].def /\ (objs[o].init <=> Defined(n))
      /\ (objs[o].tentative <=> ~Defined(n)) /\ (objs[o].static <=> Internal(n))
  BY <1>0, <1>1, <1>2, <1>3, <1>4, Linkage DEF VariableOf, Tentative
<1>6. ASSUME NEW p \in Objects \ {o}, objs[p].def, objs[p].name = n
      PROVE Defined(n) /\ objs[p].tentative
  <2>1. ~objs[p].func
    BY <1>1, <1>2, <1>6
  <2>2. PICK i, j \in Made : i # j /\ VariableOf(objs[o], i) /\ VariableOf(objs[p], j)
    BY <1>1, <1>4, <1>5, <1>6, <2>1 DEF ObjectsMade, Parts
  <2>3. i \in Declared(n) /\ j \in Declared(n)
    BY <1>1, <1>5, <1>6, <2>2 DEF VariableOf, Declared
  <2>4. "extern" \notin prog[i].spec /\ "extern" \notin prog[j].spec
    BY <1>5, <1>6, <2>2 DEF VariableOf
  <2>5. (prog[i].def <=> Defined(n)) /\ (objs[p].tentative <=> ~prog[j].def)
    BY <1>2, <1>5, <2>2, <2>3, <2>4 DEF VariableOf, Tentative
  <2>6. ASSUME ~Defined(n) PROVE FALSE
    <3>1. Tentative(i) /\ Tentative(j)
      BY <1>2, <2>3, <2>4, <2>6 DEF Tentative, Defined
    <3> QED
      BY <1>0, <2>2, <2>3, <2>6, <3>1 DEF RepeatedTentative
  <2>7. ASSUME prog[j].def PROVE FALSE
    BY <1>0, <2>2, <2>3, <2>5, <2>6, <2>7 DEF Valid
  <2> QED
    BY <2>5, <2>6, <2>7
<1>7. o \in Listed
  <2>1. CASE Defined(n)
    BY <1>0, <1>5, <2>1, StaysListed
  <2>2. CASE ~Defined(n)
    <3>1. o > 0 /\ at = 0 /\ Decided(Listed)
      BY <1>0, <1>1, ObjectTypes DEF ListOK, Parts
    <3> QED
      BY <1>5, <1>6, <2>2, <3>1 DEF Decided
  <2> QED
    BY <2>1, <2>2
<1>8. o \in Emitted
  BY <1>4, <1>5, <1>7 DEF Emitted
<1>9. ASSUME NEW p \in Emitted, objs[p].name = n PROVE p = o
  <2>1. SUFFICES ASSUME p # o PROVE FALSE
    OBVIOUS
  <2>2. p \in Objects /\ p \in Listed /\ objs[p].def
    BY DEF Emitted, Listed
  <2>3. Defined(n) /\ objs[p].tentative
    BY <1>6, <1>9, <2>1, <2>2
  <2>4. p > 0 /\ at = 0 /\ Decided(Listed)
    BY <1>0, <1>1, <2>2, ObjectTypes DEF ListOK, Parts
  <2>5. \A q \in Objects \ {p} : objs[q].def /\ ~objs[q].tentative => objs[q].name # objs[p].name
    BY <2>2, <2>3, <2>4 DEF Decided
  <2> QED
    BY <1>5, <1>9, <2>1, <2>3, <2>5
<1>10. objs[o].init = Defined(n) /\ objs[o].static = Internal(n)
  <2>1. objs[o].init \in BOOLEAN /\ objs[o].static \in BOOLEAN
    BY <1>1, ObjectTypes
  <2>2. Defined(n) \in BOOLEAN /\ Internal(n) \in BOOLEAN
    BY DEF Defined, Internal
  <2> QED
    BY <1>5, <2>1, <2>2
<1>11. {p \in Emitted : objs[p].name = n} = {o}
  BY <1>5, <1>8, <1>9
<1> QED
  BY <1>8, <1>10, <1>11

(***************************************************************************)
(* OneStorage, for every unit: of the objects of a variable scan_globals   *)
(* keeps exactly the one with the initialiser, or the only tentative one.  *)
(***************************************************************************)
THEOREM StoredOnce == Spec => []OneStorage
<1>1. IInv => OneStorage
  BY StorageLemma DEF OneStorage
<1> QED
  BY <1>1, Invariance, PTL

\* A function that the unit defines is the one its name stands for.
LEMMA DefinedFunction ==
  ASSUME IInv, pc = "emit", Valid, NEW n \in Names, IsFunction(n), Defined(n)
  PROVE \E f \in Objects :
          /\ objs[f].func /\ objs[f].def /\ objs[f].name = n /\ scope[n] = f /\ f # 0
          /\ objs[f].static <=> StaticSpec(prog[First(n)].spec)
<1>1. Made = DOMAIN prog /\ TypeOK /\ Parts /\ FileScope
  BY AtEnd
<1>2. PICK k \in Declared(n) : prog[k].def
  BY DEF Defined
<1>3. k \in DOMAIN prog /\ prog[k].name = n
  BY <1>2 DEF Declared
<1>4. prog[k].func
  BY <1>2 DEF Valid, OneKind, IsFunction
<1>5. PICK f \in Objects : objs[f].func /\ objs[f].def /\ FunctionOf(objs[f], k)
  BY <1>1, <1>2, <1>3, <1>4 DEF DeclarationsMade, Parts
<1>6. objs[f].name = n
  BY <1>3, <1>5 DEF FunctionOf
<1>7. scope[n] = f /\ f # 0
  BY <1>1, <1>5, <1>6, ObjectTypes DEF FileScope
<1>8. objs[f].static <=> StaticSpec(prog[First(n)].spec)
  BY <1>1, <1>5, <1>7 DEF FileScope
<1> QED
  BY <1>5, <1>6, <1>7, <1>8

LEMMA ExportsLemma ==
  ASSUME IInv, Conforming
  PROVE {objs[o].name : o \in {o \in Emitted : ~objs[o].static}} = {n \in Names : External(n)}
<1>0. pc = "emit" /\ Valid /\ ~LateExternal
  BY DEF Conforming, Departs
<1>1. /\ Made = DOMAIN prog /\ TypeOK /\ Parts /\ FileScope
      /\ \A o \in Objects : objs[o].func /\ objs[o].def =>
           /\ IsFunction(objs[o].name) /\ Defined(objs[o].name) /\ Declared(objs[o].name) # {}
           /\ scope[objs[o].name] = o
      /\ \A o \in Objects : objs[o].root => o \in live
      /\ \A o \in Objects : ~objs[o].func => ~IsFunction(objs[o].name)
  BY <1>0, AtEnd
<1>2. ASSUME NEW o \in Emitted, ~objs[o].static
      PROVE objs[o].name \in Names /\ External(objs[o].name)
  <2> DEFINE n == objs[o].name
  <2>1. o \in Objects /\ objs[o].def /\ n \in Names
    BY <1>1, ObjectTypes DEF Emitted, Listed
  <2> HIDE DEF n
  <2>2. CASE objs[o].func
    <3>1. IsFunction(n) /\ Defined(n) /\ Declared(n) # {} /\ scope[n] = o /\ o # 0
      BY <1>1, <2>1, <2>2, ObjectTypes DEF n
    <3>2. ~StaticSpec(prog[First(n)].spec)
      BY <1>1, <1>2, <2>1, <2>2, <3>1 DEF FileScope
    <3>3. First(n) \in Declared(n)
      BY <1>1, <2>1, <3>1, FirstOf
    <3>4. /\ "static" \notin prog[First(n)].spec
          /\ "inline" \in prog[First(n)].spec => "extern" \in prog[First(n)].spec
      BY <3>2 DEF StaticSpec
    <3>5. prog[First(n)].spec \intersect {"inline", "extern"} # {"inline"}
      BY <3>4
    <3>6. External(n)
      BY <3>1, <3>3, <3>4, <3>5 DEF External, Internal
    <3> QED
      BY <2>1, <3>6 DEF n
  <2>3. CASE ~objs[o].func
    <3>1. ~IsFunction(n)
      BY <1>1, <2>1, <2>3 DEF n
    <3>2. PICK k \in Made : VariableOf(objs[o], k)
      BY <1>1, <2>1, <2>3 DEF ObjectsMade, Parts
    <3>3. k \in Declared(n) /\ "extern" \notin prog[k].spec /\ "static" \notin prog[k].spec
      BY <1>1, <1>2, <2>1, <3>2 DEF VariableOf, Declared, n
    <3>4. ~Internal(n)
      BY <1>0, <1>1, <2>1, <3>1, <3>3, Linkage
    <3>5. External(n)
      BY <3>1, <3>3, <3>4 DEF External
    <3> QED
      BY <2>1, <3>5 DEF n
  <2> QED
    BY <2>2, <2>3
<1>3. ASSUME NEW n \in Names, External(n)
      PROVE \E o \in Emitted : ~objs[o].static /\ objs[o].name = n
  <2>1. CASE IsFunction(n)
    <3>1. PICK f \in Objects : /\ objs[f].func /\ objs[f].def /\ objs[f].name = n
                               /\ objs[f].static <=> StaticSpec(prog[First(n)].spec)
      BY <1>0, <1>3, <2>1, DefinedFunction DEF External
    <3>2. "static" \notin prog[First(n)].spec
      BY <1>3 DEF External, Internal
    <3>3. prog[First(n)].spec \intersect {"inline", "extern"} # {"inline"}
      BY <1>0, <1>3, <2>1 DEF LateExternal
    <3>4. ~objs[f].static
      BY <3>1, <3>2, <3>3 DEF StaticSpec
    <3>5. objs[f].root
      BY <1>1, <3>1, <3>4 DEF Parts, ObjectsOK, ObjectOK
    <3>6. f \in Emitted
      BY <1>0, <1>1, <3>1, <3>5, FunctionsListed DEF Emitted
    <3> QED
      BY <3>1, <3>4, <3>6
  <2>2. CASE ~IsFunction(n)
    <3>1. HasStorage(n) /\ ~Internal(n)
      BY <1>3, <2>2 DEF External, HasStorage
    <3>2. PICK o \in Emitted : {p \in Emitted : objs[p].name = n} = {o} /\ objs[o].static = Internal(n)
      BY <3>1, StorageLemma
    <3> QED
      BY <3>1, <3>2
  <2> QED
    BY <2>1, <2>2
<1> QED
  BY <1>2, <1>3

(***************************************************************************)
(* ExportsAsC, for every unit: the errors of parse are for units that C    *)
(* rejects, and the table of exports has the external definitions.         *)
(***************************************************************************)
THEOREM Exports == Spec => []ExportsAsC
<1>1. IInv => ExportsAsC
  <2>1. IInv => (Valid => pc # "error")
    BY DEF IInv
  <2> QED
    BY <2>1, ExportsLemma DEF ExportsAsC
<1> QED
  BY <1>1, Invariance, PTL

LEMMA ReachLemma ==
  ASSUME IInv, Conforming
  PROVE Complete
<1>0. pc = "emit" /\ Valid /\ ~LateInitialiser /\ ~ForgottenRoot
  BY DEF Conforming, Departs
<1>1. /\ Made = DOMAIN prog /\ TypeOK /\ Parts /\ FileScope /\ RootsKept
      /\ \A o \in Objects : objs[o].func /\ objs[o].def =>
           /\ IsFunction(objs[o].name) /\ Defined(objs[o].name) /\ Declared(objs[o].name) # {}
           /\ scope[objs[o].name] = o
      /\ \A o \in live : Callees(o) \subseteq live
      /\ \A o \in Objects : objs[o].root => o \in live
      /\ \A o \in Objects : ~objs[o].func => ~IsFunction(objs[o].name)
  BY <1>0, AtEnd
<1>2. SUFFICES ASSUME NEW o \in Emitted, NEW u \in objs[o].uses, Declared(objs[u].name) # {},
                      IsFunction(objs[u].name) \/ HasStorage(objs[u].name),
                      IsFunction(objs[u].name) => Defined(objs[u].name)
               PROVE Reaches(o, u)
  BY DEF Complete
<1> DEFINE n == objs[u].name
<1>3. o \in Objects /\ u \in Objects /\ n \in Names /\ (objs[o].func => o \in live)
  BY <1>1, ObjectTypes DEF Emitted, Listed
<1>4. CASE ~IsFunction(n)
  <2>1. PICK e \in Emitted : {p \in Emitted : objs[p].name = n} = {e}
    BY <1>2, <1>3, <1>4, StorageLemma
  <2>2. ~(objs[u].func /\ objs[u].def)
    BY <1>1, <1>3, <1>4
  <2> QED
    BY <2>1, <2>2 DEF Reaches
<1>5. CASE IsFunction(n)
  <2>1. PICK f \in Objects : objs[f].func /\ objs[f].def /\ objs[f].name = n /\ scope[n] = f /\ f # 0
    BY <1>0, <1>2, <1>3, <1>5, DefinedFunction
  <2>2. objs[u].func
    BY <1>1, <1>3, <1>5
  <2>3. f \in live
    <3>1. CASE objs[o].func
      <4>1. n \in objs[o].refs
        BY <1>1, <1>3, <2>2, <3>1 DEF UsesOK, Parts
      <4>2. f \in Callees(o)
        BY <2>1, <4>1 DEF Callees, find_func
      <4> QED
        BY <1>1, <1>3, <3>1, <4>2
    <3>2. CASE ~objs[o].func
      <4>1. u = f
        BY <1>1, <1>3, <2>1, <2>2, <3>2 DEF FileScope
      <4>2. objs[u].root
        BY <1>0, <1>1, <1>3, <2>2, <3>2 DEF RootsKept
      <4> QED
        BY <1>1, <1>3, <4>1, <4>2
    <3> QED
      BY <3>1, <3>2
  <2>4. f \in Emitted
    BY <1>0, <2>1, <2>3, FunctionsListed DEF Emitted
  <2>5. objs[u].def => u = f
    BY <1>1, <1>3, <2>1, <2>2
  <2> QED
    BY <2>1, <2>4, <2>5 DEF Reaches
<1> QED
  BY <1>4, <1>5

(***************************************************************************)
(* ReferencesReach, for every unit: whatever an emitted object uses is     *)
(* emitted too, or is defined in another file.                             *)
(***************************************************************************)
THEOREM AllReach == Spec => []ReferencesReach
<1>1. IInv => ReferencesReach
  BY ReachLemma DEF ReferencesReach
<1> QED
  BY <1>1, Invariance, PTL
===============================================================================
