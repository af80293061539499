-------------------------------- MODULE Globals --------------------------------
(***************************************************************************)
(* The file-scope names of a translation unit: how parse makes objects of  *)
(* declarations, which functions are found to be live, and which           *)
(* tentative definitions are dropped; then which objects are emitted and   *)
(* whom the references in them reach.                                      *)
(*                                                                         *)
(* A declaration is known by its name, its specifiers and what its body    *)
(* or initialiser refers to.  A body may declare functions and extern      *)
(* variables in its own scope.  Objects are numbered in the order          *)
(* new_gvar makes them; it puts each at the head of the list globals.      *)
(***************************************************************************)
EXTENDS Integers, Sequences

CONSTANTS Names, Programs

(***************************************************************************)
(* A declaration: func or variable; the specifiers; whether it has a body  *)
(* or initialiser; and the items of that: a use of a name, the prototype   *)
(* of a function, an extern declaration of a variable.                     *)
(***************************************************************************)
Items == {"use", "proto", "extern"} \X Names
Declarations ==
  [func : BOOLEAN, name : Names, spec : SUBSET {"static", "extern", "inline"},
   def : BOOLEAN, items : Seq(Items)]

ASSUME ProgramsAssumption ==
  \A unit \in Programs :
    /\ unit \in Seq(Declarations)
    /\ \A k \in DOMAIN unit :
         /\ unit[k].def \/ unit[k].items = <<>>
         /\ unit[k].func \/ \A i \in DOMAIN unit[k].items : unit[k].items[i][1] = "use"

VARIABLES
  prog,     \* the translation unit
  pc,       \* "parse", "body", "mark", "scan", "emit", or "error"
  decl,     \* the declaration parsed now, or next
  item,     \* the item of its body or initialiser that is next
  objs,     \* the objects: what the code keeps of each, and the objects it uses
  scope,    \* the file scope: the object a name stands for, 0 if none
  local,    \* the scope of the body
  current,  \* C(current_fn)
  owner,    \* the object whose body or initialiser is parsed
  next,     \* the list globals: the object behind each
  head,     \* its first object
  live,     \* functions that are live
  pending,  \* functions mark_live is called for and has not marked
  at,       \* scan_globals: the object it looks at
  cur,      \* the last one it kept, 0 for the head of its new list
  first     \* the first one it kept

vars == <<prog, pc, decl, item, objs, scope, local, current, owner,
          next, head, live, pending, at, cur, first>>

NoScope == [n \in Names |-> 0]
Objects == DOMAIN objs
ObjType ==
  [name : Names, func : BOOLEAN, def : BOOLEAN, static : BOOLEAN, inline : BOOLEAN,
   tentative : BOOLEAN, init : BOOLEAN, root : BOOLEAN, refs : SUBSET Names,
   uses : SUBSET Nat]

TypeOK ==
  /\ prog \in Programs
  /\ pc \in {"parse", "body", "mark", "scan", "emit", "error"}
  /\ decl \in 1 .. Len(prog) + 1
  /\ item \in Nat
  /\ objs \in Seq(ObjType)
  /\ \A o \in Objects : objs[o].uses \subseteq Objects
  /\ scope \in [Names -> 0 .. Len(objs)] /\ local \in [Names -> 0 .. Len(objs)]
  /\ {current, owner, head, at, cur, first} \subseteq 0 .. Len(objs)
  /\ next \in [Objects -> 0 .. Len(objs)]
  /\ live \subseteq Objects /\ pending \subseteq Objects

Decl == prog[decl]
Item == Decl.items[item]

Init ==
  /\ prog \in Programs
  /\ pc = "parse" /\ decl = 1 /\ item = 1
  /\ objs = <<>> /\ scope = NoScope /\ local = NoScope
  /\ current = 0 /\ owner = 0
  /\ next = <<>> /\ head = 0
  /\ live = {} /\ pending = {} /\ at = 0 /\ cur = 0 /\ first = 0

-------------------------------------------------------------------------------
\* Objects and names.
NewObject(n) ==
  [name |-> n, func |-> FALSE, def |-> TRUE, static |-> TRUE, inline |-> FALSE,
   tentative |-> FALSE, init |-> FALSE, root |-> FALSE, refs |-> {}, uses |-> {}]

new_gvar(obj) ==
  /\ objs' = Append(objs, obj)
  /\ next' = Append(next, head)
  /\ head' = Len(objs) + 1

\* The function of that name in the outermost scope, 0 if there is none.
find_func(n) == IF scope[n] # 0 /\ objs[scope[n]].func THEN scope[n] ELSE 0

find_var(n) == IF local[n] # 0 THEN local[n] ELSE scope[n]

Error ==
  /\ pc' = "error"
  /\ UNCHANGED <<prog, decl, item, objs, scope, local, current, owner,
                 next, head, live, pending, at, cur, first>>

\* Mutant: a redeclared function takes the storage class of the redeclaration.
RedeclaredStatic(o, d) ==
  [objs[o] EXCEPT !.def = @ \/ d.def, !.static = "static" \in d.spec,
                  !.root = ~(objs[o].static /\ objs[o].inline)]

(***************************************************************************)
(* function(): the object of a redeclared function keeps its storage class *)
(* and becomes a definition; is_root is computed anew.                     *)
(***************************************************************************)
Redeclared(o, d) ==
  [objs[o] EXCEPT !.def = @ \/ d.def, !.root = ~(objs[o].static /\ objs[o].inline)]

\* Mutant: every function is a root.
AlwaysRoot(d) ==
  LET static == "static" \in d.spec \/ ("inline" \in d.spec /\ "extern" \notin d.spec)
  IN  [NewObject(d.name) EXCEPT
         !.func = TRUE, !.def = d.def, !.static = static,
         !.inline = "inline" \in d.spec, !.root = TRUE]

NewFunction(d) ==
  LET static == "static" \in d.spec \/ ("inline" \in d.spec /\ "extern" \notin d.spec)
  IN  [NewObject(d.name) EXCEPT
         !.func = TRUE, !.def = d.def, !.static = static,
         !.inline = "inline" \in d.spec, !.root = ~(static /\ "inline" \in d.spec)]

\* "redefinition", and "static declaration follows a non-static declaration".
Conflict(o, d) ==
  /\ o # 0
  /\ \/ objs[o].def /\ d.def
     \/ ~objs[o].static /\ "static" \in d.spec

FunctionDecl ==
  /\ pc = "parse" /\ decl <= Len(prog) /\ Decl.func
  /\ LET fn == find_func(Decl.name)
         obj == IF fn = 0 THEN Len(objs) + 1 ELSE fn
     IN  /\ ~Conflict(fn, Decl)
         /\ IF fn = 0
              THEN new_gvar(NewFunction(Decl)) /\ scope' = [scope EXCEPT ![Decl.name] = obj]
              ELSE /\ objs' = [objs EXCEPT ![fn] = Redeclared(fn, Decl)]
                   /\ UNCHANGED <<next, head, scope>>
         /\ IF Decl.def
              THEN pc' = "body" /\ owner' = obj /\ current' = obj /\ decl' = decl
              ELSE decl' = decl + 1 /\ UNCHANGED <<pc, owner, current>>
  /\ item' = 1 /\ local' = NoScope
  /\ UNCHANGED <<prog, live, pending, at, cur, first>>

FunctionConflict ==
  /\ pc = "parse" /\ decl <= Len(prog) /\ Decl.func
  /\ Conflict(find_func(Decl.name), Decl)
  /\ Error

(***************************************************************************)
(* global_variable() makes an object of every declaration, and the name    *)
(* stands for the last one.                                                *)
(***************************************************************************)
NewVariable(d) ==
  [NewObject(d.name) EXCEPT
     !.def = "extern" \notin d.spec, !.static = "static" \in d.spec,
     !.init = d.def, !.tentative = ~d.def /\ "extern" \notin d.spec]

GlobalVariable ==
  /\ pc = "parse" /\ decl <= Len(prog) /\ ~Decl.func
  /\ new_gvar(NewVariable(Decl))
  /\ scope' = [scope EXCEPT ![Decl.name] = Len(objs) + 1]
  /\ pc' = "body" /\ owner' = Len(objs) + 1
  /\ item' = 1 /\ local' = NoScope
  /\ UNCHANGED <<prog, decl, current, live, pending, at, cur, first>>

(***************************************************************************)
(* The body or initialiser.  A function that is used is remembered in the  *)
(* function parsed now, by name; if there is none it is a root.            *)
(***************************************************************************)
Used(t) ==
  LET used == [objs EXCEPT ![owner].uses = @ \union {t}]
  IN  IF ~objs[t].func THEN used
      ELSE IF current = 0 THEN [used EXCEPT ![t].root = TRUE]
      ELSE [used EXCEPT ![current].refs = @ \union {objs[t].name}]

InBody(kind) == pc = "body" /\ item <= Len(Decl.items) /\ Item[1] = kind

Use ==
  /\ InBody("use") /\ find_var(Item[2]) # 0
  /\ objs' = Used(find_var(Item[2]))
  /\ item' = item + 1
  /\ UNCHANGED <<prog, pc, decl, scope, local, current, owner, next, head,
                 live, pending, at, cur, first>>

Undeclared ==
  /\ InBody("use") /\ find_var(Item[2]) = 0
  /\ Error

\* function() again: the prototype of what is known at file scope, or a new name.
LocalPrototype ==
  /\ InBody("proto")
  /\ LET n == Item[2]
         d == [func |-> TRUE, name |-> n, spec |-> {}, def |-> FALSE, items |-> <<>>]
     IN  IF find_func(n) # 0
           THEN /\ objs' = [objs EXCEPT ![find_func(n)] = Redeclared(find_func(n), d)]
                /\ UNCHANGED <<local, next, head>>
           ELSE /\ new_gvar(NewFunction(d))
                /\ local' = [local EXCEPT ![n] = Len(objs) + 1]
  /\ item' = item + 1
  /\ UNCHANGED <<prog, pc, decl, scope, current, owner, live, pending, at, cur, first>>

LocalExtern ==
  /\ InBody("extern")
  /\ new_gvar([NewObject(Item[2]) EXCEPT !.def = FALSE, !.static = FALSE])
  /\ local' = [local EXCEPT ![Item[2]] = Len(objs) + 1]
  /\ item' = item + 1
  /\ UNCHANGED <<prog, pc, decl, scope, current, owner, live, pending, at, cur, first>>

\* The function stays the current one.
EndBody ==
  /\ pc = "body" /\ item > Len(Decl.items)
  /\ pc' = "parse" /\ decl' = decl + 1
  /\ local' = NoScope /\ owner' = 0
  /\ UNCHANGED <<prog, item, objs, scope, current, next, head, live, pending, at, cur, first>>

-------------------------------------------------------------------------------
(***************************************************************************)
(* The end of parse: everything a root refers to, directly or not, is      *)
(* live.  References are names, looked up in the file scope as it is now.  *)
(***************************************************************************)
FinishParse ==
  /\ pc = "parse" /\ decl > Len(prog)
  /\ pending' = {o \in Objects : objs[o].root}
  /\ pc' = "mark"
  /\ UNCHANGED <<prog, decl, item, objs, scope, local, current, owner, next, head,
                 live, at, cur, first>>

\* Mutant: what a function refers to is live, but not what that refers to.
RootCallees(o) ==
  IF objs[o].root THEN {find_func(n) : n \in objs[o].refs} \ {0} ELSE {}

Callees(o) == {find_func(n) : n \in objs[o].refs} \ {0}

\* Mutant: a function that is live already is marked again.
AllCallees(o) == Callees(o)

\* What is live already is not marked again: functions may call each other.
Unmarked(o) == Callees(o) \ (live \union {o})

mark_live ==
  /\ pc = "mark"
  /\ \E o \in pending :
       /\ live' = live \union {o}
       /\ pending' = (pending \ {o}) \union Unmarked(o)
  /\ UNCHANGED <<prog, pc, decl, item, objs, scope, local, current, owner, next, head,
                 at, cur, first>>

FinishMark ==
  /\ pc = "mark" /\ pending = {}
  /\ pc' = "scan" /\ at' = head
  /\ UNCHANGED <<prog, decl, item, objs, scope, local, current, owner, next, head,
                 live, pending, cur, first>>

(***************************************************************************)
(* scan_globals relinks the list while it looks for another definition in  *)
(* it: from the old head, along what was relinked so far.                  *)
(***************************************************************************)
FollowsNext(S) == (head # 0 => head \in S) /\ \A o \in S : next[o] # 0 => next[o] \in S
Listed == {o \in Objects : \A S \in SUBSET Objects : FollowsNext(S) => o \in S}

\* Mutant: any other declaration makes a tentative definition redundant.
RedundantDeclaration(o) ==
  /\ objs[o].tentative
  /\ \E p \in Listed \ {o} : objs[p].name = objs[o].name

Redundant(o) ==
  /\ objs[o].tentative
  /\ \E p \in Listed \ {o} : objs[p].def /\ objs[p].name = objs[o].name

Keep ==
  /\ pc = "scan" /\ at # 0 /\ ~Redundant(at)
  /\ IF cur = 0 THEN first' = at /\ next' = next
                ELSE first' = first /\ next' = [next EXCEPT ![cur] = at]
  /\ cur' = at /\ at' = next[at]
  /\ UNCHANGED <<prog, pc, decl, item, objs, scope, local, current, owner, head, live, pending>>

Drop ==
  /\ pc = "scan" /\ at # 0 /\ Redundant(at)
  /\ at' = next[at]
  /\ UNCHANGED <<prog, pc, decl, item, objs, scope, local, current, owner, next, head,
                 live, pending, cur, first>>

FinishScan ==
  /\ pc = "scan" /\ at = 0
  /\ next' = [o \in Objects |-> IF o = cur THEN 0 ELSE next[o]]
  /\ head' = first
  /\ pc' = "emit"
  /\ UNCHANGED <<prog, decl, item, objs, scope, local, current, owner,
                 live, pending, at, cur, first>>

Done == pc \in {"emit", "error"} /\ UNCHANGED vars

Step ==
  \/ FunctionDecl \/ FunctionConflict \/ GlobalVariable
  \/ Use \/ Undeclared \/ LocalPrototype \/ LocalExtern \/ EndBody
  \/ FinishParse \/ mark_live \/ FinishMark \/ Keep \/ Drop \/ FinishScan
Next == Step \/ Done
Spec == Init /\ [][Next]_vars /\ WF_vars(Step)

-------------------------------------------------------------------------------
(***************************************************************************)
(* emit_data and emit_text: the objects that get storage or code.  A call  *)
(* of a function defined here goes to its label; any other reference is a  *)
(* name that link_all_files looks up.                                      *)
(***************************************************************************)
Emitted == {o \in Listed : objs[o].def /\ (objs[o].func => o \in live)}

Reaches(o, u) ==
  IF objs[o].func /\ objs[u].func /\ objs[u].def
    THEN u \in Emitted
    ELSE \E e \in Emitted : objs[e].name = objs[u].name
===============================================================================
