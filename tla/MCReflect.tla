------------------------------- MODULE MCReflect -------------------------------
(***************************************************************************)
(* A struct with a pointer to itself, as in test/reflect.c; before an edit *)
(* and after it; and one with a union in it.                               *)
(***************************************************************************)
EXTENDS Reflect, TLC

TypeTable ==
  "int"     :> <<"builtin", <<>>, "i">> @@
  "union"   :> <<"todo", <<>>, "?">> @@
  "union*"  :> <<"derived", <<"union">>, "?">> @@
  \* struct Node { int v; struct Node* next; };
  "Node"    :> <<"struct", <<"int", "Node*">>, "4Node">> @@
  "Node*"   :> <<"derived", <<"Node">>, "P4Node">> @@
  "visit"   :> <<"derived", <<"int", "Node*", "Node">>, "FiP4Node4NodeE">> @@
  \* struct Node { struct Node* next; };
  "Node'"   :> <<"struct", <<"Node'*">>, "4Node">> @@
  "Node'*"  :> <<"derived", <<"Node'">>, "P4Node">> @@
  \* struct Var { struct Node* owner; union U u; int tag; };
  "Var"     :> <<"struct", <<"Node*", "union", "int">>, "3Var">> @@
  "Var*"    :> <<"derived", <<"Var">>, "P3Var">>

AllTypes == DOMAIN TypeTable
Column(c) == [t \in AllTypes |-> TypeTable[t][c]]
Kinds == Column(1)
PartsOf == Column(2)
MangledNames == Column(3)
===============================================================================
