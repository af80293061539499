------------------------------- MODULE MCHashMap -------------------------------
(***************************************************************************)
(* Two keys that collide in the table of four buckets and no longer do in  *)
(* the table of eight it grows to, where tombstones make their chains meet *)
(* again.                                                                  *)
(***************************************************************************)
EXTENDS HashMap, TLC

CONSTANTS k1, k2

Collisions == k1 :> 3 @@ k2 :> 7
===============================================================================
