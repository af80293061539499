-------------------------------- MODULE Reflect --------------------------------
(***************************************************************************)
(* _ReflectTypeOf(T): the parser asks get_reflect_type for a descriptor of *)
(* T, which the compiled code then holds the address of.  Descriptors are  *)
(* shared through user_context->reflect_types, which maps a mangled name   *)
(* to a descriptor and, like the descriptors, is kept from one             *)
(* dyibicc_update to the next.  A struct is entered in the map before its  *)
(* members are asked for, every other type after its parts; types are      *)
(* recursive through struct members, and a kind that is not supported ends *)
(* the whole update with a longjmp, wherever the recursion stands.         *)
(*                                                                         *)
(* A type is known here by its kind, its parts and its mangled name.  The  *)
(* name of a struct is its tag alone: a struct whose declaration was       *)
(* changed, or another one of the same tag, has the same name.             *)
(***************************************************************************)
EXTENDS Integers, Sequences

CONSTANTS
  Types,       \* the types a program, or its later versions, asks to reflect
  Kind,        \* "builtin"; "derived": pointer, array, function; "struct"; "todo"
  Parts,       \* base type; or return type and parameters; or members
  Mangled,     \* build_reflect_mangled_name
  Unmangled,   \* the name of a type whose mangling ends in ABORT("todo")
  None

(***************************************************************************)
(* Mangling goes into base, return and parameter types but not into the    *)
(* members of a struct.                                                    *)
(***************************************************************************)
ASSUME TypeAssumption ==
  /\ Kind \in [Types -> {"builtin", "derived", "struct", "todo"}]
  /\ Parts \in [Types -> Seq(Types)]
  /\ DOMAIN Mangled = Types
  /\ None \notin Types
  /\ \A t \in Types :
       /\ Kind[t] = "builtin" => Parts[t] = <<>>
       /\ Mangled[t] = Unmangled <=>
            \/ Kind[t] = "todo"
            \/ /\ Kind[t] = "derived"
               /\ \E k \in DOMAIN Parts[t] : Mangled[Parts[t][k]] = Unmangled

Names == {Mangled[t] : t \in Types} \ {Unmangled}

VARIABLES
  reflectTypes,  \* user_context->reflect_types: a descriptor, 0 if absent
  descs,         \* the descriptors allocated in AL_UserContext; a part 0 is NULL
  asked,         \* the argument of the get_reflect_type just called, or None
  stack,         \* its callers: the type, its descriptor if there is one, the
                 \* parts it has so far
  handed,        \* what _ReflectTypeOf put into code: a type and a descriptor
  broken         \* history: descriptors being filled in when an ABORT struck

vars == <<reflectTypes, descs, asked, stack, handed, broken>>

Top == stack[Len(stack)]
Callers == SubSeq(stack, 1, Len(stack) - 1)
Nulls(t) == [k \in DOMAIN Parts[t] |-> 0]

-------------------------------------------------------------------------------
Init ==
  /\ reflectTypes = [n \in Names |-> 0]
  /\ descs = <<>> /\ asked = None /\ stack = <<>>
  /\ handed = {} /\ broken = {}

\* primary(): the expression _ReflectTypeOf(t).
ReflectTypeOf(t) ==
  /\ asked = None /\ stack = <<>>
  /\ asked' = t
  /\ UNCHANGED <<reflectTypes, descs, stack, handed, broken>>

\* ABORT("todo"): dyibicc_update returns false; the context keeps what there is.
Abort ==
  /\ asked # None /\ Mangled[asked] = Unmangled
  /\ broken' = broken \cup ({stack[k].desc : k \in DOMAIN stack} \ {0})
  /\ asked' = None /\ stack' = <<>>
  /\ UNCHANGED <<reflectTypes, descs, handed>>

\* Mutants: the part goes one slot too early; or nowhere.
ReturnOneOff(t, d, callers, ds) ==
  IF callers = <<>>
  THEN /\ handed' = handed \cup {<<t, d>>} /\ stack' = callers /\ descs' = ds
  ELSE LET f == callers[Len(callers)]
       IN  /\ stack' = [callers EXCEPT ![Len(callers)].parts = Append(@, d)]
           /\ descs' = IF f.desc = 0 \/ f.parts = <<>> THEN ds
                       ELSE [ds EXCEPT ![f.desc].parts[Len(f.parts)] = d]
           /\ UNCHANGED handed

ReturnNothing(t, d, callers, ds) ==
  /\ handed' = IF callers = <<>> THEN handed \cup {<<t, d>>} ELSE handed
  /\ stack' = callers /\ descs' = ds

\* get_reflect_type returns descriptor d for t to the last of callers, or to
\* primary().  A struct's descriptor is filled in member by member.
Return(t, d, callers, ds) ==
  IF callers = <<>>
  THEN /\ handed' = handed \cup {<<t, d>>} /\ stack' = callers /\ descs' = ds
  ELSE LET f == callers[Len(callers)]
       IN  /\ stack' = [callers EXCEPT ![Len(callers)].parts = Append(@, d)]
           /\ descs' = IF f.desc = 0 THEN ds
                       ELSE [ds EXCEPT ![f.desc].parts[Len(f.parts) + 1] = d]
           /\ UNCHANGED handed

\* if (prev) return prev
Known ==
  /\ asked # None /\ Mangled[asked] # Unmangled /\ reflectTypes[Mangled[asked]] # 0
  /\ Return(asked, reflectTypes[Mangled[asked]], stack, descs)
  /\ asked' = None
  /\ UNCHANGED <<reflectTypes, broken>>

Absent == asked # None /\ Mangled[asked] # Unmangled /\ reflectTypes[Mangled[asked]] = 0

\* A struct: its descriptor is allocated and entered, the members are still to come.
BeginStruct ==
  /\ Absent /\ Kind[asked] = "struct"
  /\ descs' = Append(descs, [ty |-> asked, parts |-> Nulls(asked)])
  /\ reflectTypes' = [reflectTypes EXCEPT ![Mangled[asked]] = Len(descs) + 1]
  /\ stack' = Append(stack, [ty |-> asked, desc |-> Len(descs) + 1, parts |-> <<>>])
  /\ asked' = None
  /\ UNCHANGED <<handed, broken>>

\* Any other type: it is built up in a local variable.
BeginOther ==
  /\ Absent /\ Kind[asked] # "struct"
  /\ stack' = Append(stack, [ty |-> asked, desc |-> 0, parts |-> <<>>])
  /\ asked' = None
  /\ UNCHANGED <<reflectTypes, descs, handed, broken>>

\* The recursive call for the next part.
AskPart ==
  /\ asked = None /\ stack # <<>>
  /\ Len(Top.parts) < Len(Parts[Top.ty])
  /\ asked' = Parts[Top.ty][Len(Top.parts) + 1]
  /\ UNCHANGED <<reflectTypes, descs, stack, handed, broken>>

Complete == asked = None /\ stack # <<>> /\ Len(Top.parts) = Len(Parts[Top.ty])

\* A struct is entered once more.
FinishStruct ==
  /\ Complete /\ Top.desc # 0
  /\ reflectTypes' = [reflectTypes EXCEPT ![Mangled[Top.ty]] = Top.desc]
  /\ Return(Top.ty, Top.desc, Callers, descs)
  /\ UNCHANGED <<asked, broken>>

\* Mutant: the descriptor is not entered in the map.
FinishOtherUnshared ==
  /\ Complete /\ Top.desc = 0
  /\ Return(Top.ty, Len(descs) + 1, Callers,
            Append(descs, [ty |-> Top.ty, parts |-> Top.parts]))
  /\ UNCHANGED <<reflectTypes, asked, broken>>

\* Any other type is copied into AL_UserContext and entered.
FinishOther ==
  /\ Complete /\ Top.desc = 0
  /\ reflectTypes' = [reflectTypes EXCEPT ![Mangled[Top.ty]] = Len(descs) + 1]
  /\ Return(Top.ty, Len(descs) + 1, Callers,
            Append(descs, [ty |-> Top.ty, parts |-> Top.parts]))
  /\ UNCHANGED <<asked, broken>>

get_reflect_type ==
  Abort \/ Known \/ BeginStruct \/ BeginOther \/ AskPart \/ FinishStruct \/ FinishOther

Next == (\E t \in Types : ReflectTypeOf(t)) \/ get_reflect_type

\* get_reflect_type is a call: once entered it runs on.
Spec == Init /\ [][Next]_vars /\ WF_vars(get_reflect_type)

-------------------------------------------------------------------------------
NameOf(d) == Mangled[descs[d].ty]

\* A descriptor is entered under its own name, and each part it has is a descriptor
\* with the name of that part's type: nothing is returned to the wrong caller.  A part
\* that is NULL is one still to be filled in, or an ABORT struck before it was.
PartsNamed ==
  /\ \A n \in Names : reflectTypes[n] # 0 => NameOf(reflectTypes[n]) = n
  /\ \A d \in DOMAIN descs :
       LET t == descs[d].ty
       IN  /\ DOMAIN descs[d].parts = DOMAIN Parts[t]
           /\ \A k \in DOMAIN Parts[t] :
                IF descs[d].parts[k] # 0 THEN NameOf(descs[d].parts[k]) = Mangled[Parts[t][k]]
                ELSE d \in broken \cup {stack[j].desc : j \in DOMAIN stack}

\* Once code holds the descriptor of a type, whatever asks for that type later gets the
\* same one, in this update or another: _ReflectTypeOf, so that programs may compare
\* descriptors by address, and each member or other part filled in from then on.  An
\* entry that the recursion made twice, the outer over the inner, was made before.
HeldIsShared ==
  \A h \in handed :
    /\ \A g \in handed' : g[1] = h[1] => g[2] = h[2]
    /\ \A d \in DOMAIN descs' : \A k \in DOMAIN descs'[d].parts :
         \/ Parts[descs'[d].ty][k] # h[1]
         \/ descs'[d].parts[k] \in {0, h[2]}
         \/ d \in DOMAIN descs /\ descs'[d].parts[k] = descs[d].parts[k]

OneDescriptor == [][HeldIsShared]_vars

\* Every _ReflectTypeOf comes to an end, also of types that contain themselves.
ReflectReturns == (asked # None) ~> (asked = None /\ stack = <<>>)

-------------------------------------------------------------------------------
(***************************************************************************)
(* What test/reflect.c asserts of the descriptors and does not always hold. *)
(***************************************************************************)

\* The descriptor of a member is the one _ReflectTypeOf gives for the member's type.
PartsShared ==
  asked = None /\ stack = <<>> =>
    \A d \in DOMAIN descs : \A k \in DOMAIN descs[d].parts :
      descs[d].parts[k] \in {0, reflectTypes[Mangled[Parts[descs[d].ty][k]]]}

\* Every member of a descriptor that code holds has a type.
HandedComplete ==
  \A h \in handed : \A k \in DOMAIN descs[h[2]].parts : descs[h[2]].parts[k] # 0

\* Code holds a descriptor of the type it asked for, not of one that had its name.
HandedCurrent == \A h \in handed : Parts[descs[h[2]].ty] = Parts[h[1]]
===============================================================================
