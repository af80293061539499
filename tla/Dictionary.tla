------------------------------ MODULE Dictionary ------------------------------
(***************************************************************************)
(* What hashmap.c promises its callers, one call after the other: what was *)
(* last put for a key is what hashmap_get answers, NULL if nothing was or  *)
(* if it was deleted since.  The call is a variable of this specification: *)
(* an answer is the answer to that call and no other.                      *)
(***************************************************************************)
CONSTANTS Keys, Values, NULL

VARIABLES
  dict,
  call,      \* the call under way, or NoCall
  result     \* what hashmap_get answered last

Calls ==
  [op : {"put"}, key : Keys, val : Values]
  \cup [op : {"get", "delete"}, key : Keys, val : {NULL}]
  \cup [op : {"clear"}, key : {NULL}, val : {NULL}]

NoCall == [op |-> "none", key |-> NULL, val |-> NULL]

Init ==
  /\ dict = [k \in Keys |-> NULL]
  /\ call = NoCall /\ result = NULL

Ask ==
  /\ call = NoCall /\ call' \in Calls
  /\ UNCHANGED <<dict, result>>

hashmap_put ==
  /\ call.op = "put"
  /\ dict' = [dict EXCEPT ![call.key] = call.val]
  /\ UNCHANGED result

hashmap_get ==
  /\ call.op = "get"
  /\ result' = dict[call.key]
  /\ UNCHANGED dict

hashmap_delete ==
  /\ call.op = "delete"
  /\ dict' = [dict EXCEPT ![call.key] = NULL]
  /\ UNCHANGED result

hashmap_clear ==
  /\ call.op = "clear"
  /\ dict' = [k \in Keys |-> NULL]
  /\ UNCHANGED result

Answer ==
  /\ hashmap_put \/ hashmap_get \/ hashmap_delete \/ hashmap_clear
  /\ call' = NoCall

Next == Ask \/ Answer

vars == <<dict, call, result>>

Spec == Init /\ [][Next]_vars
===============================================================================
