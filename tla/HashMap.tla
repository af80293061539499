-------------------------------- MODULE HashMap --------------------------------
(***************************************************************************)
(* The open-addressing hash table of hashmap.c, with the lifetime          *)
(* AL_Manual that the symbol tables of the context use: the table owns the *)
(* keys, each a copy the caller made for it.  Deleting leaves a tombstone, *)
(* which counts as used until a rehash drops it; a rehash copies the live  *)
(* entries one by one into a new table, larger if need be.                 *)
(*                                                                         *)
(* The loops of rehash and the copying are steps of their own, so that     *)
(* what holds half-way can be stated.  Probing a chain is one step.        *)
(* The host asks, in a step of its own, and the table answers: the call    *)
(* under way and the last answer are variables, so that an answer can be   *)
(* held against what was asked.                                            *)
(*                                                                         *)
(* Macros are the entries the compiler deletes, in a table of AL_Compile,   *)
(* which does not free keys; hashmap.c handles deletion in a table of      *)
(* AL_Manual too, and so does the model, where the two meet.               *)
(***************************************************************************)
EXTENDS Integers, FiniteSets

CONSTANTS
  Keys, Values,
  Hash,              \* fnv_hash, whatever it computes
  INIT_SIZE, HIGH_WATERMARK, LOW_WATERMARK,
  NULL, TOMBSTONE

(***************************************************************************)
(* 16, 70 and 50 in the code.  An insertion is made below the high         *)
(* watermark and must leave a bucket free, or a later probe has no end:    *)
(* the smallest table must have a whole bucket above the watermark.        *)
(***************************************************************************)
ASSUME SizeAssumption ==
  /\ INIT_SIZE \in Nat /\ HIGH_WATERMARK \in Nat /\ LOW_WATERMARK \in Nat
  /\ 0 < LOW_WATERMARK /\ LOW_WATERMARK <= HIGH_WATERMARK /\ HIGH_WATERMARK < 100
  /\ INIT_SIZE * (100 - HIGH_WATERMARK) >= 100

ASSUME KeyAssumption ==
  /\ IsFiniteSet(Keys)
  /\ Hash \in [Keys -> Nat]
  /\ NULL \notin Keys \cup Values /\ TOMBSTONE \notin Keys /\ NULL # TOMBSTONE

VARIABLES
  pc,        \* "idle"; the call under way; or where hashmap_put stands: "grow",
             \* "move", "insert"
  call,      \* the call under way and its arguments
  result,    \* what hashmap_get answered last
  buckets, capacity, used,      \* *map
  nkeys, i,                     \* locals of rehash
  buckets2, capacity2, used2,   \* map2 of rehash
  copies     \* how many copies of each key are allocated

map == <<buckets, capacity, used>>
map2 == <<buckets2, capacity2, used2>>
vars == <<pc, call, result, map, nkeys, i, map2, copies>>

Entry == [key : Keys \cup {NULL, TOMBSTONE}, val : Values \cup {NULL}]
bumpcalloc(n) == [x \in 0 .. n - 1 |-> [key |-> NULL, val |-> NULL]]
NoMap == bumpcalloc(0)

IsKey(ent) == ent.key \notin {NULL, TOMBSTONE}
LiveSlots(b) == {x \in DOMAIN b : IsKey(b[x])}

-------------------------------------------------------------------------------
\* The j-th bucket of the chain of key k in a table of c buckets.
Slot(c, k, j) == (Hash[k] + j) % c

\* Where a probe for k can stop: at its entry or at a bucket never used.
Stops(b, c, k) == {j \in 0 .. c - 1 : b[Slot(c, k, j)].key \in {k, NULL}}

First(S) == CHOOSE j \in S : \A m \in S : j <= m

Probe(b, c, k) == Slot(c, k, First(Stops(b, c, k)))

HasEntry(b, c, k) == c # 0 /\ Stops(b, c, k) # {} /\ b[Probe(b, c, k)].key = k

get_entry(b, c, k) == IF HasEntry(b, c, k) THEN {Probe(b, c, k)} ELSE {}

hashmap_get(k) ==
  IF get_entry(buckets, capacity, k) = {} THEN NULL
  ELSE buckets[Probe(buckets, capacity, k)].val

\* Mutant: a tombstone on the way is reused, though the key may be further down.
PutReuses(b, c, k, v) ==
  LET reusable == {j \in 0 .. c - 1 : b[Slot(c, k, j)].key \in {k, NULL, TOMBSTONE}}
  IN  [b EXCEPT ![Slot(c, k, First(reusable))] = [key |-> k, val |-> v]]

Put2(b, c, k, v) == [b EXCEPT ![Probe(b, c, k)] = [key |-> k, val |-> v]]
Fresh(b, c, k) == b[Probe(b, c, k)].key = NULL

CountKeys == Cardinality(LiveSlots(buckets))

\* What a caller sees of the table.
Dict == INSTANCE Dictionary WITH dict <- [k \in Keys |-> hashmap_get(k)]

AboveHigh(u, c) == (u * 100) \div c >= HIGH_WATERMARK

-------------------------------------------------------------------------------
Init ==
  /\ pc = "idle" /\ call = Dict!NoCall /\ result = NULL
  /\ buckets = NoMap /\ capacity = 0 /\ used = 0
  /\ nkeys = 0 /\ i = 0
  /\ buckets2 = NoMap /\ capacity2 = 0 /\ used2 = 0
  /\ copies = [k \in Keys |-> 0]

\* hashmap_get, hashmap_delete or one of the functions that clear is called.
Ask ==
  /\ pc = "idle"
  /\ call' \in {c \in Dict!Calls : c.op # "put"}
  /\ pc' = call'.op
  /\ UNCHANGED <<result, map, nkeys, i, map2, copies>>

Return ==
  /\ pc' = "idle" /\ call' = Dict!NoCall
  /\ UNCHANGED <<nkeys, i, map2>>

\* hashmap_put(map, strdup(k), v) up to where the probe starts.
hashmap_put(k, v) ==
  /\ pc = "idle"
  /\ call' = [op |-> "put", key |-> k, val |-> v]
  /\ copies' = [copies EXCEPT ![k] = @ + 1]
  /\ UNCHANGED result
  /\ \/ /\ capacity = 0
        /\ buckets' = bumpcalloc(INIT_SIZE) /\ capacity' = INIT_SIZE
        /\ pc' = "insert"
        /\ UNCHANGED <<used, nkeys, i, map2>>
     \/ /\ capacity # 0 /\ AboveHigh(used, capacity)
        /\ nkeys' = CountKeys /\ capacity2' = capacity
        /\ pc' = "grow"
        /\ UNCHANGED <<map, i, buckets2, used2>>
     \/ /\ capacity # 0 /\ ~AboveHigh(used, capacity)
        /\ pc' = "insert"
        /\ UNCHANGED <<map, nkeys, i, map2>>

\* rehash: while ((nkeys * 100) / cap >= LOW_WATERMARK) cap = cap * 2
Crowded == (nkeys * 100) \div capacity2 >= LOW_WATERMARK

\* Mutant: the capacity is not doubled in the loop.
DoubleNothing ==
  /\ pc = "grow" /\ Crowded
  /\ UNCHANGED vars

Double ==
  /\ pc = "grow" /\ Crowded
  /\ capacity2' = capacity2 * 2
  /\ UNCHANGED <<pc, call, result, map, nkeys, i, buckets2, used2, copies>>

NewTable ==
  /\ pc = "grow" /\ ~Crowded
  /\ buckets2' = bumpcalloc(capacity2) /\ used2' = 0 /\ i' = 0
  /\ pc' = "move"
  /\ UNCHANGED <<call, result, map, nkeys, capacity2, copies>>

\* One bucket of the old table; a tombstone is left behind.
MoveEntry ==
  /\ pc = "move" /\ i < capacity
  /\ IF IsKey(buckets[i])
     THEN /\ Stops(buckets2, capacity2, buckets[i].key) # {}
          /\ buckets2' = Put2(buckets2, capacity2, buckets[i].key, buckets[i].val)
          /\ used2' = IF Fresh(buckets2, capacity2, buckets[i].key) THEN used2 + 1 ELSE used2
          /\ copies' = IF Fresh(buckets2, capacity2, buckets[i].key) THEN copies
                       ELSE [copies EXCEPT ![buckets[i].key] = @ - 1]
     ELSE UNCHANGED <<buckets2, used2, copies>>
  /\ i' = i + 1
  /\ UNCHANGED <<pc, call, result, map, nkeys, capacity2>>

MoveDone ==
  /\ pc = "move" /\ i = capacity
  /\ buckets' = buckets2 /\ capacity' = capacity2 /\ used' = used2
  /\ pc' = "insert"
  /\ buckets2' = NoMap /\ capacity2' = 0 /\ used2' = 0 /\ nkeys' = 0 /\ i' = 0
  /\ UNCHANGED <<call, result, copies>>

\* The probe of get_or_insert_entry; an entry that matches frees its key for the new
\* copy.  Where a probe has no end the code is at unreachable(), the model at a
\* deadlock.
Insert ==
  /\ pc = "insert"
  /\ LET k == call.key
     IN  /\ Stops(buckets, capacity, k) # {}
         /\ buckets' = Put2(buckets, capacity, k, call.val)
         /\ used' = IF Fresh(buckets, capacity, k) THEN used + 1 ELSE used
         /\ copies' = IF Fresh(buckets, capacity, k) THEN copies
                      ELSE [copies EXCEPT ![k] = @ - 1]
  /\ UNCHANGED <<result, capacity>>
  /\ Return

Get ==
  /\ pc = "get"
  /\ result' = hashmap_get(call.key)
  /\ UNCHANGED <<map, copies>>
  /\ Return

\* Mutants: deleting does not free the key; deleting gives the bucket back.
BuryLeaks(x) ==
  /\ buckets' = [buckets EXCEPT ![x].key = TOMBSTONE]
  /\ UNCHANGED <<copies, used>>

BuryUncounts(x) ==
  /\ buckets' = [buckets EXCEPT ![x].key = TOMBSTONE]
  /\ copies' = [copies EXCEPT ![call.key] = @ - 1]
  /\ used' = used - 1

Bury(x) ==
  /\ buckets' = [buckets EXCEPT ![x].key = TOMBSTONE]
  /\ copies' = [copies EXCEPT ![call.key] = @ - 1]
  /\ UNCHANGED used

hashmap_delete ==
  /\ pc = "delete"
  /\ \/ \E x \in get_entry(buckets, capacity, call.key) : Bury(x)
     \/ /\ get_entry(buckets, capacity, call.key) = {}
        /\ UNCHANGED <<buckets, copies, used>>
  /\ UNCHANGED <<result, capacity>>
  /\ Return

hashmap_clear ==
  /\ pc = "clear"
  /\ copies' = [k \in Keys |->
                  copies[k] - Cardinality({x \in LiveSlots(buckets) : buckets[x].key = k})]
  /\ buckets' = NoMap /\ capacity' = 0 /\ used' = 0
  /\ UNCHANGED result
  /\ Return

Rehash == Double \/ NewTable \/ MoveEntry \/ MoveDone

Next ==
  \/ Ask
  \/ \E k \in Keys, v \in Values : hashmap_put(k, v)
  \/ Rehash
  \/ Insert
  \/ Get
  \/ hashmap_delete
  \/ hashmap_clear

\* A call, once begun, runs on.
Spec == Init /\ [][Next]_vars
        /\ WF_vars(Rehash \/ Insert \/ Get \/ hashmap_delete \/ hashmap_clear)

-------------------------------------------------------------------------------
\* Every field holds what its C declaration says.
TypeOK ==
  /\ pc \in {"idle", "grow", "move", "insert", "get", "delete", "clear"}
  /\ call \in Dict!Calls \cup {Dict!NoCall} /\ result \in Values \cup {NULL}
  /\ capacity \in Nat /\ used \in Nat /\ nkeys \in Nat /\ i \in Nat
  /\ capacity2 \in Nat /\ used2 \in Nat
  /\ buckets \in [0 .. capacity - 1 -> Entry]
  /\ pc = "move" => buckets2 \in [0 .. capacity2 - 1 -> Entry]
  /\ copies \in [Keys -> Int]

\* used counts the buckets that are not NULL, and one is left: every probe stops, of
\* the table and of the half-filled new one.  unreachable() is not reached, copying
\* never rehashes the new table, and assert(map2.used == nkeys) holds.
ProbesEnd ==
  /\ capacity # 0 =>
       /\ used = Cardinality({x \in DOMAIN buckets : buckets[x].key # NULL})
       /\ \A k \in Keys : Stops(buckets, capacity, k) # {}
  /\ pc = "move" =>
       /\ \A k \in Keys : Stops(buckets2, capacity2, k) # {}
       /\ IF i = capacity THEN used2 = nkeys ELSE ~AboveHigh(used2, capacity2)

\* The table owns one copy of each key in it, a put under way one of its key, and
\* no other copy is allocated: no key is leaked, freed twice or used after its free.
KeysOwned ==
  \A k \in Keys :
    copies[k] = Cardinality({x \in LiveSlots(buckets) : buckets[x].key = k})
                + (IF call.op = "put" /\ call.key = k THEN 1 ELSE 0)

\* Every call returns, hashmap_put too: doubling the capacity comes to an end.
PutReturns == pc # "idle" ~> pc = "idle"

\* hashmap.c is a dictionary, whatever collides and whenever it is rehashed: each call
\* changes what is found for its own key as it was asked to and for no other, and
\* hashmap_get answers what was last put.
Implements == Dict!Spec
===============================================================================
