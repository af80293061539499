----------------------------- MODULE HashMapProofs -----------------------------
(***************************************************************************)
(* The hash table is a dictionary, its probes end and it frees each key    *)
(* once: for any keys, any hash function and any watermarks that leave a   *)
(* bucket free.  The invariant says that every entry is found where it is, *)
(* which two entries of one key, or a free bucket before an entry on its   *)
(* chain, would contradict; and that a rehash under way has copied the     *)
(* entries before i and no other.                                          *)
(***************************************************************************)
EXTENDS HashMap, FiniteSetTheorems, TLAPS

(***************************************************************************)
(* Tables: where probes stop, what putting and deleting an entry leave of  *)
(* the others, how full a table below the watermarks is.                   *)
(***************************************************************************)

\* The numbers of a set that is not empty have a least one.
LEMMA Least == ASSUME NEW S \in SUBSET Nat, S # {}
  PROVE First(S) \in S /\ \A m \in S : First(S) <= m
<1> DEFINE R == OpToRel(<, Nat)
<1>1. IsWellFoundedOn(R, Nat)
  BY NatLessThanWellFounded
<1>2. \E x \in S : \A y \in S : ~ (<<y, x>> \in R)
  <2> HIDE DEF R
  <2> QED BY <1>1, WFMin
<1>3. \A x \in S, y \in S : ~ (<<y, x>> \in R) => x <= y
  BY DEF OpToRel
<1>4. \E x \in S : \A m \in S : x <= m
  <2> HIDE DEF R
  <2> QED BY <1>2, <1>3
<1> QED
  BY <1>4 DEF First

\* What is taken away besides the least number does not change it.
LEMMA LeastStays ==
  ASSUME NEW S \in SUBSET Nat, S # {}, NEW T \in SUBSET S, First(S) \in T
  PROVE First(T) = First(S)
<1>1. T \in SUBSET Nat /\ T # {}
  OBVIOUS
<1>2. First(T) \in T /\ First(T) <= First(S)
  BY <1>1, Least
<1>3. First(S) <= First(T)
  BY <1>2, Least
<1>4. First(S) \in Nat /\ First(T) \in Nat
  BY <1>2
<1> QED
  BY ONLY <1>2, <1>3, <1>4

\* A table b of c buckets; each of its entries is found where it is.
UsedSlots(b) == {x \in DOMAIN b : b[x].key # NULL}
Table(b, c) == c \in Nat /\ b \in [0 .. c - 1 -> Entry]
Placed(b, c) == \A x \in LiveSlots(b) : get_entry(b, c, b[x].key) = {x}

LEMMA KeysAreKeys == /\ NULL \notin Keys /\ TOMBSTONE \notin Keys /\ NULL # TOMBSTONE
                     /\ \A k \in Keys : Hash[k] \in Nat
BY KeyAssumption

LEMMA SlotInTable ==
  ASSUME NEW c \in Nat, c > 0, NEW k \in Keys, NEW j \in Nat
  PROVE Slot(c, k, j) \in 0 .. c - 1
<1>1. Hash[k] + j \in Nat
  BY KeysAreKeys
<1> QED
  BY <1>1 DEF Slot

\* A probe stops, at the entry of its key or at a bucket never used.
LEMMA ProbeStops ==
  ASSUME NEW b, NEW c \in Nat, c > 0, NEW k \in Keys, Stops(b, c, k) # {}
  PROVE /\ First(Stops(b, c, k)) \in Stops(b, c, k)
        /\ Stops(b, c, k) \in SUBSET Nat
        /\ Probe(b, c, k) \in 0 .. c - 1
        /\ b[Probe(b, c, k)].key \in {k, NULL}
<1>1. Stops(b, c, k) \in SUBSET Nat
  BY DEF Stops
<1>2. First(Stops(b, c, k)) \in Stops(b, c, k)
  BY <1>1, Least
<1>3. First(Stops(b, c, k)) \in Nat
  BY <1>1, <1>2
<1>4. Probe(b, c, k) \in 0 .. c - 1
  BY <1>3, SlotInTable DEF Probe
<1> QED
  BY <1>1, <1>2, <1>4 DEF Probe, Stops

\* A chain comes to every bucket.
LEMMA Wraps == ASSUME NEW h \in Nat, NEW c \in Nat, c > 0, NEW x \in 0 .. c - 1
  PROVE \E j \in 0 .. c - 1 : (h + j) % c = x
<1> DEFINE r == h % c
           q == h \div c
<1>1. r \in 0 .. c - 1 /\ q \in Int /\ h = c * q + r
  OBVIOUS
<1> HIDE DEF r, q
<1>2. CASE x >= r
  <2>1. h + (x - r) = c * q + x
    BY <1>1
  <2>2. (c * q + x) % c = x
    BY <1>1
  <2>3. x - r \in 0 .. c - 1
    BY <1>1, <1>2
  <2> QED BY ONLY <2>1, <2>2, <2>3
<1>3. CASE x < r
  <2>1. h + (x - r + c) = c * (q + 1) + x
    BY <1>1
  <2>2. (c * (q + 1) + x) % c = x
    BY <1>1
  <2>3. x - r + c \in 0 .. c - 1
    BY <1>1, <1>3
  <2> QED BY ONLY <2>1, <2>2, <2>3
<1> QED
  BY <1>2, <1>3, <1>1
LEMMA RoomStops ==
  ASSUME NEW b, NEW c \in Nat, c > 0, NEW k \in Keys, NEW x \in 0 .. c - 1, b[x].key = NULL
  PROVE Stops(b, c, k) # {}
<1>1. \E j \in 0 .. c - 1 : Slot(c, k, j) = x
  BY KeysAreKeys, Wraps DEF Slot
<1> QED
  BY <1>1 DEF Stops

\* A probe finds a key exactly if some entry has it, and that entry.
LEMMA FindsEntry ==
  ASSUME NEW b, NEW c, Table(b, c), Placed(b, c), NEW k \in Keys
  PROVE /\ HasEntry(b, c, k) <=> \E x \in LiveSlots(b) : b[x].key = k
        /\ \A x \in LiveSlots(b) : b[x].key = k => x = Probe(b, c, k)
        /\ HasEntry(b, c, k) => Probe(b, c, k) \in LiveSlots(b) /\ b[Probe(b, c, k)].key = k
<1>1. ASSUME NEW x \in LiveSlots(b), b[x].key = k
      PROVE HasEntry(b, c, k) /\ x = Probe(b, c, k)
  BY <1>1 DEF Placed, get_entry
<1>2. ASSUME HasEntry(b, c, k)
      PROVE Probe(b, c, k) \in LiveSlots(b) /\ b[Probe(b, c, k)].key = k
  <2>1. c \in Nat /\ c > 0 /\ Stops(b, c, k) # {} /\ b[Probe(b, c, k)].key = k
    BY <1>2 DEF HasEntry, Table
  <2>2. Probe(b, c, k) \in DOMAIN b
    BY <2>1, ProbeStops DEF Table
  <2> QED
    BY <2>1, <2>2, KeysAreKeys DEF LiveSlots, IsKey
<1> QED
  BY <1>1, <1>2

\* Where a probe stops depends on the keys alone.
LEMMA SameKeys ==
  ASSUME NEW b, NEW d, NEW c \in Nat, c > 0, NEW k \in Keys,
         \A x \in 0 .. c - 1 : b[x].key \in {k, NULL} <=> d[x].key \in {k, NULL}
  PROVE Stops(d, c, k) = Stops(b, c, k) /\ Probe(d, c, k) = Probe(b, c, k)
<1>1. Stops(d, c, k) = Stops(b, c, k)
  BY SlotInTable DEF Stops
<1> QED
  BY <1>1 DEF Probe

\* Putting an entry where the probe for its key stops: the others are found where they
\* were.
LEMMA PutPlaced ==
  ASSUME NEW b, NEW c, Table(b, c), c > 0, Placed(b, c),
         NEW k \in Keys, NEW v \in Values \cup {NULL}, Stops(b, c, k) # {}
  PROVE LET d == Put2(b, c, k, v)
            p == Probe(b, c, k)
        IN  /\ Table(d, c) /\ Placed(d, c)
            /\ p \in 0 .. c - 1
            /\ d[p] = [key |-> k, val |-> v]
            /\ \A x \in 0 .. c - 1 : x # p => d[x] = b[x]
<1> DEFINE d == Put2(b, c, k, v)
           p == Probe(b, c, k)
<1>1. p \in 0 .. c - 1 /\ b[p].key \in {k, NULL}
  BY ProbeStops DEF Table
<1>2. Table(d, c)
  BY <1>1 DEF Table, Put2, Entry
<1>3. d[p] = [key |-> k, val |-> v] /\ \A x \in 0 .. c - 1 : x # p => d[x] = b[x]
  BY <1>1 DEF Table, Put2
<1> HIDE DEF d
<1>4. Stops(d, c, k) = Stops(b, c, k) /\ Probe(d, c, k) = p
  <2>1. \A x \in 0 .. c - 1 : b[x].key \in {k, NULL} <=> d[x].key \in {k, NULL}
    BY <1>1, <1>3
  <2> QED
    BY <2>1, SameKeys DEF Table
<1>5. ASSUME NEW x \in LiveSlots(d) PROVE get_entry(d, c, d[x].key) = {x}
  <2>1. x \in 0 .. c - 1 /\ IsKey(d[x]) /\ d[x].key \in Keys
    BY <1>2 DEF LiveSlots, Table, Entry, IsKey
  <2>2. CASE x = p
    BY <1>3, <1>4, <2>1, <2>2 DEF get_entry, HasEntry
  <2>3. CASE x # p
    <3> DEFINE l == d[x].key
    <3>1. d[x] = b[x] /\ x \in LiveSlots(b) /\ l \in Keys
      BY <2>1, <2>3, <1>3 DEF LiveSlots, Table
    <3> HIDE DEF l
    <3>2. HasEntry(b, c, l) /\ Probe(b, c, l) = x /\ b[x].key = l
      BY <3>1, FindsEntry DEF Placed, get_entry, l
    <3>3. l # k
      BY <3>2, <2>3
    <3>4. Stops(b, c, l) # {} /\ Stops(b, c, l) \in SUBSET Nat
          /\ First(Stops(b, c, l)) \in Stops(b, c, l)
      BY <3>1, <3>2, ProbeStops DEF HasEntry, Table
    <3>5. Stops(d, c, l) \in SUBSET Stops(b, c, l)
      <4>1. \A y \in 0 .. c - 1 : d[y].key \in {l, NULL} => b[y].key \in {l, NULL}
        BY <1>3, <3>3, KeysAreKeys
      <4>2. c \in Nat /\ l \in Keys
        BY <3>1 DEF Table
      <4>3. \A j \in 0 .. c - 1 : Slot(c, l, j) \in 0 .. c - 1
        BY ONLY <4>2, c > 0, SlotInTable
      <4> QED
        BY ONLY <4>1, <4>3 DEF Stops
    <3>6. First(Stops(b, c, l)) \in Stops(d, c, l)
      BY <3>2, <3>4, <2>1, <3>1 DEF Stops, Probe, l
    <3>7. First(Stops(d, c, l)) = First(Stops(b, c, l))
      BY <3>4, <3>5, <3>6, LeastStays
    <3>8. Probe(d, c, l) = x
      BY <3>2, <3>7 DEF Probe
    <3>9. HasEntry(d, c, l)
      BY <3>6, <3>8 DEF HasEntry, l, Table
    <3> QED
      BY <3>8, <3>9 DEF get_entry, l
  <2> QED
    BY <2>2, <2>3
<1>6. Placed(d, c)
  BY <1>5 DEF Placed
<1> QED
  BY <1>1, <1>2, <1>3, <1>6 DEF d

\* A tombstone is no end of a chain, so the others are found as before.
LEMMA DeletePlaced ==
  ASSUME NEW b, NEW c, Table(b, c), Placed(b, c), NEW y \in LiveSlots(b)
  PROVE LET d == [b EXCEPT ![y].key = TOMBSTONE]
        IN  /\ Table(d, c) /\ Placed(d, c)
            /\ d[y].key = TOMBSTONE
            /\ \A x \in 0 .. c - 1 : x # y => d[x] = b[x]
<1> DEFINE d == [b EXCEPT ![y].key = TOMBSTONE]
<1>1. y \in 0 .. c - 1 /\ b[y].key \in Keys
  BY DEF LiveSlots, Table, Entry, IsKey
<1>2. Table(d, c)
  BY <1>1 DEF Table, Entry
<1>3. d[y].key = TOMBSTONE /\ \A x \in 0 .. c - 1 : x # y => d[x] = b[x]
  BY <1>1 DEF Table, Entry
<1> HIDE DEF d
<1>4. ASSUME NEW x \in LiveSlots(d) PROVE get_entry(d, c, d[x].key) = {x}
  <2>1. x \in 0 .. c - 1 /\ x # y /\ d[x] = b[x] /\ x \in LiveSlots(b) /\ d[x].key \in Keys
    BY <1>2, <1>3 DEF LiveSlots, Table, Entry, IsKey
  <2> DEFINE l == d[x].key
  <2>2. l # b[y].key
    BY <2>1, FindsEntry
  <2>3. \A z \in 0 .. c - 1 : b[z].key \in {l, NULL} <=> d[z].key \in {l, NULL}
    BY <1>1, <1>3, <2>1, <2>2, KeysAreKeys
  <2>4. Stops(d, c, l) = Stops(b, c, l) /\ Probe(d, c, l) = Probe(b, c, l)
    <3>1. c \in Nat /\ c > 0 /\ l \in Keys
      BY <2>1 DEF Table
    <3> HIDE DEF l
    <3> QED
      BY <3>1, <2>3, SameKeys
  <2> QED
    BY <2>1, <2>4, FindsEntry DEF get_entry, HasEntry
<1> QED
  BY <1>2, <1>3, <1>4 DEF d, Placed

\* A table that has not as many used buckets as buckets has one that is free.
LEMMA RoomByCount ==
  ASSUME NEW b, NEW c, Table(b, c)
  PROVE /\ IsFiniteSet(UsedSlots(b)) /\ IsFiniteSet(LiveSlots(b))
        /\ Cardinality(UsedSlots(b)) \in Nat /\ Cardinality(LiveSlots(b)) \in Nat
        /\ Cardinality(UsedSlots(b)) < c => \E x \in 0 .. c - 1 : b[x].key = NULL
<1>1. IsFiniteSet(0 .. c - 1) /\ Cardinality(0 .. c - 1) = c
  BY FS_Interval DEF Table
<1>2. UsedSlots(b) \in SUBSET (0 .. c - 1) /\ LiveSlots(b) \in SUBSET (0 .. c - 1)
  BY DEF Table, UsedSlots, LiveSlots
<1>3. IsFiniteSet(UsedSlots(b)) /\ IsFiniteSet(LiveSlots(b))
  BY <1>1, <1>2, FS_Subset
<1>4. Cardinality(UsedSlots(b)) \in Nat /\ Cardinality(LiveSlots(b)) \in Nat
  BY <1>3, FS_CardinalityType
<1>5. ASSUME Cardinality(UsedSlots(b)) < c PROVE \E x \in 0 .. c - 1 : b[x].key = NULL
  <2>1. UsedSlots(b) # 0 .. c - 1
    BY <1>1, <1>4, <1>5
  <2> QED
    BY <2>1, <1>2 DEF UsedSlots, Table
<1> QED
  BY <1>3, <1>4, <1>5

-------------------------------------------------------------------------------
(***************************************************************************)
(* Watermarks.                                                             *)
(***************************************************************************)
LEMMA Watermark ==
  ASSUME NEW a \in Nat, NEW c \in Nat, c > 0, NEW h \in Nat
  PROVE a \div c >= h <=> a >= h * c
<1> DEFINE q == a \div c
<1>1. q \in Nat /\ c * q <= a /\ a < c * q + c
  OBVIOUS
<1> HIDE DEF q
<1>2. CASE q >= h
  <2>1. c * q >= c * h
    BY <1>1, <1>2
  <2> QED
    BY <2>1, <1>1, <1>2 DEF q
<1>3. CASE q < h
  <2>1. c * h >= c * (q + 1)
    BY <1>1, <1>3
  <2>2. c * (q + 1) = c * q + c
    BY <1>1
  <2> QED
    BY <2>1, <2>2, <1>1, <1>3 DEF q
<1> QED
  BY <1>1, <1>2, <1>3

\* A table of at least the least size, filled below the watermark, has two buckets free.
LEMMA BelowWatermark ==
  ASSUME NEW u \in Nat, NEW c \in Nat, c >= INIT_SIZE, u * 100 < HIGH_WATERMARK * c
  PROVE u + 1 < c
<1>1. /\ INIT_SIZE \in Nat /\ HIGH_WATERMARK \in Nat /\ HIGH_WATERMARK < 100
      /\ INIT_SIZE * (100 - HIGH_WATERMARK) >= 100
  BY SizeAssumption
<1>2. c * (100 - HIGH_WATERMARK) >= INIT_SIZE * (100 - HIGH_WATERMARK)
  BY <1>1
<1>3. c * (100 - HIGH_WATERMARK) = c * 100 - HIGH_WATERMARK * c
  BY <1>1
<1>4. c * 100 - HIGH_WATERMARK * c >= 100
  BY <1>1, <1>2, <1>3
<1>5. HIGH_WATERMARK * c \in Nat
  BY <1>1
<1> QED
  BY <1>4, <1>5

LEMMA LowerWatermark ==
  ASSUME NEW u \in Nat, NEW c \in Nat, u * 100 < LOW_WATERMARK * c
  PROVE u * 100 < HIGH_WATERMARK * c /\ u < c
<1>1. LOW_WATERMARK \in Nat /\ HIGH_WATERMARK \in Nat
      /\ LOW_WATERMARK <= HIGH_WATERMARK /\ HIGH_WATERMARK < 100
  BY SizeAssumption
<1>2. LOW_WATERMARK * c <= HIGH_WATERMARK * c /\ HIGH_WATERMARK * c <= 100 * c
  BY <1>1
<1>3. LOW_WATERMARK * c \in Nat /\ HIGH_WATERMARK * c \in Nat
  BY <1>1
<1> QED
  BY <1>2, <1>3

LEMMA SizePositive == INIT_SIZE \in Nat /\ INIT_SIZE > 0
BY SizeAssumption

-------------------------------------------------------------------------------
(***************************************************************************)
(* What is in a table.                                                     *)
(***************************************************************************)
Found(b, c, k) == IF get_entry(b, c, k) = {} THEN NULL ELSE b[Probe(b, c, k)].val

LEMMA Entries ==
  ASSUME NEW b, NEW c, Table(b, c), Placed(b, c), NEW k \in Keys
  PROVE /\ {x \in LiveSlots(b) : b[x].key = k} = get_entry(b, c, k)
        /\ Cardinality(get_entry(b, c, k)) = IF HasEntry(b, c, k) THEN 1 ELSE 0
        /\ (get_entry(b, c, k) = {}) <=> ~HasEntry(b, c, k)
<1>1. {x \in LiveSlots(b) : b[x].key = k} = get_entry(b, c, k)
  BY FindsEntry DEF get_entry
<1>2. CASE HasEntry(b, c, k)
  BY <1>1, <1>2, FS_Singleton DEF get_entry
<1>3. CASE ~HasEntry(b, c, k)
  BY <1>1, <1>3, FS_EmptySet DEF get_entry
<1> QED
  BY <1>2, <1>3

\* Two tables with the same entries find the same.
LEMMA SameEntries ==
  ASSUME NEW b, NEW c, Table(b, c), Placed(b, c),
         NEW d, NEW e, Table(d, e), Placed(d, e), NEW k \in Keys,
         \A x \in LiveSlots(b) : \E y \in LiveSlots(d) : d[y] = b[x],
         \A y \in LiveSlots(d) : \E x \in LiveSlots(b) : b[x] = d[y]
  PROVE /\ HasEntry(b, c, k) <=> HasEntry(d, e, k)
        /\ Found(b, c, k) = Found(d, e, k)
<1>1. HasEntry(b, c, k) <=> HasEntry(d, e, k)
  BY FindsEntry
<1>2. ASSUME HasEntry(b, c, k) PROVE b[Probe(b, c, k)] = d[Probe(d, e, k)]
  <2>1. PICK y \in LiveSlots(d) : d[y] = b[Probe(b, c, k)]
    BY <1>2, FindsEntry
  <2>2. d[y].key = k
    BY <1>2, <2>1, FindsEntry
  <2> QED
    BY <2>1, <2>2, FindsEntry
<1> QED
  BY <1>1, <1>2, Entries DEF Found

LEMMA PutFound ==
  ASSUME NEW b, NEW c, Table(b, c), c > 0, Placed(b, c),
         NEW k \in Keys, NEW v \in Values \cup {NULL}, Stops(b, c, k) # {}, NEW l \in Keys
  PROVE LET d == Put2(b, c, k, v)
        IN  /\ HasEntry(d, c, l) <=> l = k \/ HasEntry(b, c, l)
            /\ Found(d, c, l) = IF l = k THEN v ELSE Found(b, c, l)
<1> DEFINE d == Put2(b, c, k, v)
           p == Probe(b, c, k)
<1>1. /\ Table(d, c) /\ Placed(d, c) /\ p \in 0 .. c - 1
      /\ d[p] = [key |-> k, val |-> v] /\ \A x \in 0 .. c - 1 : x # p => d[x] = b[x]
  BY PutPlaced
<1>2. b[p].key \in {k, NULL}
  BY ProbeStops DEF Table
<1> HIDE DEF d, p
<1>3. CASE l = k
  <2>1. p \in LiveSlots(d) /\ d[p].key = k
    BY <1>1, KeysAreKeys DEF LiveSlots, Table, IsKey
  <2>2. HasEntry(d, c, k) /\ p = Probe(d, c, k)
    BY <2>1, <1>1, FindsEntry
  <2> QED
    BY <1>1, <1>3, <2>2, Entries DEF Found, d
<1>4. CASE l # k
  <2>1. \A x \in DOMAIN d : d[x].key = l => x # p
    BY <1>1, <1>4
  <2>2. \A x \in DOMAIN b : b[x].key = l => x # p
    BY <1>2, <1>4, KeysAreKeys
  <2>3. DOMAIN b = 0 .. c - 1 /\ DOMAIN d = 0 .. c - 1
    BY <1>1 DEF Table
  <2>4. HasEntry(d, c, l) <=> HasEntry(b, c, l)
    <3>1. (\E x \in LiveSlots(d) : d[x].key = l) <=> (\E x \in LiveSlots(b) : b[x].key = l)
      BY <1>1, <2>1, <2>2, <2>3 DEF LiveSlots
    <3> QED
      BY <3>1, <1>1, FindsEntry
  <2>5. ASSUME HasEntry(b, c, l) PROVE b[Probe(b, c, l)] = d[Probe(d, c, l)]
    <3> DEFINE x == Probe(b, c, l)
    <3>1. x \in LiveSlots(b) /\ b[x].key = l
      BY <2>5, FindsEntry
    <3> HIDE DEF x
    <3>2. d[x] = b[x] /\ x \in LiveSlots(d)
      BY <3>1, <2>2, <2>3, <1>1 DEF LiveSlots
    <3> QED
      BY <3>1, <3>2, <1>1, FindsEntry DEF x
  <2> QED
    BY <1>1, <1>4, <2>4, <2>5, Entries DEF Found, d
<1> QED
  BY <1>3, <1>4

LEMMA DeleteFound ==
  ASSUME NEW b, NEW c, Table(b, c), Placed(b, c), NEW y \in LiveSlots(b), NEW l \in Keys
  PROVE LET d == [b EXCEPT ![y].key = TOMBSTONE]
        IN  /\ HasEntry(d, c, l) <=> l # b[y].key /\ HasEntry(b, c, l)
            /\ Found(d, c, l) = IF l = b[y].key THEN NULL ELSE Found(b, c, l)
<1> DEFINE d == [b EXCEPT ![y].key = TOMBSTONE]
<1>1. /\ Table(d, c) /\ Placed(d, c) /\ d[y].key = TOMBSTONE
      /\ \A x \in 0 .. c - 1 : x # y => d[x] = b[x]
  BY DeletePlaced
<1>2. DOMAIN b = 0 .. c - 1 /\ DOMAIN d = 0 .. c - 1
  BY <1>1 DEF Table
<1> HIDE DEF d
<1>3. \A x \in LiveSlots(d) : x # y
  BY <1>1 DEF LiveSlots, IsKey
<1>4. CASE l = b[y].key
  <2>1. \A x \in LiveSlots(b) : b[x].key = l => x = y
    BY <1>4, FindsEntry
  <2>2. \A x \in LiveSlots(d) : d[x].key # l
    BY <2>1, <1>1, <1>2, <1>3 DEF LiveSlots
  <2>3. ~HasEntry(d, c, l)
    BY <2>2, <1>1, FindsEntry
  <2>4. Found(d, c, l) = NULL
    BY <2>3, <1>1, Entries DEF Found
  <2> QED
    BY <2>3, <2>4, <1>4 DEF d
<1>5. CASE l # b[y].key
  <2>1. HasEntry(d, c, l) <=> HasEntry(b, c, l)
    <3>1. (\E x \in LiveSlots(d) : d[x].key = l) <=> (\E x \in LiveSlots(b) : b[x].key = l)
      BY <1>1, <1>2, <1>3, <1>5 DEF LiveSlots
    <3> QED
      BY <3>1, <1>1, FindsEntry
  <2>2. ASSUME HasEntry(b, c, l) PROVE b[Probe(b, c, l)] = d[Probe(d, c, l)]
    <3> DEFINE x == Probe(b, c, l)
    <3>1. x \in LiveSlots(b) /\ b[x].key = l
      BY <2>2, FindsEntry
    <3> HIDE DEF x
    <3>2. d[x] = b[x] /\ x \in LiveSlots(d)
      BY <3>1, <1>2, <1>1, <1>5 DEF LiveSlots
    <3> QED
      BY <3>1, <3>2, <1>1, FindsEntry DEF x
  <2>3. Found(d, c, l) = Found(b, c, l)
    BY <1>1, <2>1, <2>2, Entries DEF Found
  <2> QED
    BY <2>1, <2>3, <1>5 DEF d
<1> QED
  BY <1>4, <1>5

\* A new entry takes a bucket that was never used, an old one keeps its own.
LEMMA PutUsed ==
  ASSUME NEW b, NEW c, Table(b, c), c > 0, Placed(b, c),
         NEW k \in Keys, NEW v \in Values \cup {NULL}, Stops(b, c, k) # {}
  PROVE LET d == Put2(b, c, k, v)
            p == Probe(b, c, k)
        IN  /\ UsedSlots(d) = UsedSlots(b) \cup {p}
            /\ LiveSlots(d) = LiveSlots(b) \cup {p}
            /\ Cardinality(UsedSlots(d)) = IF Fresh(b, c, k) THEN Cardinality(UsedSlots(b)) + 1
                                           ELSE Cardinality(UsedSlots(b))
            /\ Fresh(b, c, k) <=> ~HasEntry(b, c, k)
<1> DEFINE d == Put2(b, c, k, v)
           p == Probe(b, c, k)
<1>1. /\ Table(d, c) /\ p \in 0 .. c - 1
      /\ d[p] = [key |-> k, val |-> v] /\ \A x \in 0 .. c - 1 : x # p => d[x] = b[x]
  BY PutPlaced
<1>2. b[p].key \in {k, NULL}
  BY ProbeStops DEF Table
<1>3. DOMAIN b = 0 .. c - 1 /\ DOMAIN d = 0 .. c - 1
  BY <1>1 DEF Table
<1>4. Fresh(b, c, k) <=> b[p].key = NULL
  BY DEF Fresh
<1>5. HasEntry(b, c, k) <=> b[p].key = k
  BY DEF HasEntry
<1> HIDE DEF d, p
<1>6. UsedSlots(d) = UsedSlots(b) \cup {p}
  BY <1>1, <1>3, KeysAreKeys DEF UsedSlots
<1>7. LiveSlots(d) = LiveSlots(b) \cup {p}
  BY <1>1, <1>3, KeysAreKeys DEF LiveSlots, IsKey
<1>8. p \in UsedSlots(b) <=> b[p].key # NULL
  BY <1>1, <1>3 DEF UsedSlots
<1>9. Cardinality(UsedSlots(d)) = IF b[p].key = NULL THEN Cardinality(UsedSlots(b)) + 1
                                  ELSE Cardinality(UsedSlots(b))
  <2>1. IsFiniteSet(UsedSlots(b))
    BY RoomByCount
  <2> QED
    BY <2>1, <1>6, <1>8, FS_AddElement
<1> QED
  BY <1>2, <1>4, <1>5, <1>6, <1>7, <1>9, KeysAreKeys DEF d, p

-------------------------------------------------------------------------------
\* The entries that rehash has copied.
Below(n) == {x \in LiveSlots(buckets) : x < n}

\* Every entry is found where it is, and a bucket is free.
TableInv ==
  /\ Placed(buckets, capacity)
  /\ used = Cardinality(UsedSlots(buckets))
  /\ capacity = 0 => used = 0
  /\ capacity # 0 => capacity >= INIT_SIZE /\ used < capacity

\* pc and the call under way, and what hashmap_put knows of the table where it stands.
PutInv ==
  /\ pc = "idle" => call = Dict!NoCall
  /\ pc \in {"get", "delete", "clear"} => call \in Dict!Calls /\ call.op = pc
  /\ pc \in {"grow", "move", "insert"} =>
       /\ call.op = "put" /\ call.key \in Keys /\ call.val \in Values
       /\ capacity # 0
  /\ pc \in {"grow", "move"} =>
       nkeys = Cardinality(LiveSlots(buckets)) /\ capacity2 >= capacity
  /\ pc = "insert" => used * 100 < HIGH_WATERMARK * capacity

\* The new table has the entries copied so far, no other, and room for the rest.
MoveInv ==
  pc = "move" =>
    /\ i <= capacity
    /\ nkeys * 100 < LOW_WATERMARK * capacity2
    /\ Placed(buckets2, capacity2)
    /\ UsedSlots(buckets2) = LiveSlots(buckets2)
    /\ used2 = Cardinality(UsedSlots(buckets2))
    /\ used2 = Cardinality(Below(i))
    /\ \A x \in Below(i) : \E y \in LiveSlots(buckets2) : buckets2[y] = buckets[x]
    /\ \A y \in LiveSlots(buckets2) : \E x \in Below(i) : buckets[x] = buckets2[y]

IInv == TypeOK /\ TableInv /\ PutInv /\ MoveInv /\ KeysOwned

\* buckets and buckets2 are tables of their capacities.
OldTable == Table(buckets, capacity)
NewOne == Table(buckets2, capacity2)

LEMMA TypeIsTable == TypeOK => Table(buckets, capacity) /\ (pc = "move" => Table(buckets2, capacity2))
BY DEF TypeOK, Table

\* Copies are counted by what is found.
LEMMA CopiesCounted ==
  ASSUME Table(buckets, capacity), Placed(buckets, capacity)
  PROVE KeysOwned <=>
          \A k \in Keys : copies[k] = (IF HasEntry(buckets, capacity, k) THEN 1 ELSE 0)
                                      + (IF call.op = "put" /\ call.key = k THEN 1 ELSE 0)
<1>1. ASSUME NEW k \in Keys
      PROVE Cardinality({x \in LiveSlots(buckets) : buckets[x].key = k})
              = IF HasEntry(buckets, capacity, k) THEN 1 ELSE 0
  <2>1. {x \in LiveSlots(buckets) : buckets[x].key = k} = get_entry(buckets, capacity, k)
    BY Entries
  <2> QED
    BY <2>1, Entries
<1> QED
  BY <1>1 DEF KeysOwned

LEMMA CopiesCountedNext ==
  ASSUME Table(buckets', capacity'), Placed(buckets', capacity')
  PROVE KeysOwned' <=>
          \A k \in Keys : copies'[k] = (IF HasEntry(buckets', capacity', k) THEN 1 ELSE 0)
                                      + (IF call'.op = "put" /\ call'.key = k THEN 1 ELSE 0)
<1>1. ASSUME NEW k \in Keys
      PROVE Cardinality({x \in LiveSlots(buckets') : buckets'[x].key = k})
              = IF HasEntry(buckets', capacity', k) THEN 1 ELSE 0
  <2>1. {x \in LiveSlots(buckets') : buckets'[x].key = k} = get_entry(buckets', capacity', k)
    BY Entries
  <2> QED
    BY <2>1, Entries
<1> QED
  BY <1>1 DEF KeysOwned, LiveSlots, IsKey

\* A call that is not a put owns no copy.
LEMMA CallKinds ==
  /\ Dict!NoCall.op = "none"
  /\ \A k \in Keys, v \in Values : [op |-> "put", key |-> k, val |-> v] \in Dict!Calls
  /\ \A c \in Dict!Calls : c.op \in {"put", "get", "delete", "clear"}
  /\ \A c \in Dict!Calls : c.op = "put" => c.key \in Keys /\ c.val \in Values
  /\ \A c \in Dict!Calls : c.op \in {"get", "delete"} => c.key \in Keys
BY DEF Dict!Calls, Dict!NoCall

LEMMA NoTable ==
  /\ Table(NoMap, 0) /\ Placed(NoMap, 0) /\ UsedSlots(NoMap) = {} /\ LiveSlots(NoMap) = {}
  /\ Cardinality(UsedSlots(NoMap)) = 0 /\ Cardinality(LiveSlots(NoMap)) = 0
  /\ \A k : ~HasEntry(NoMap, 0, k)
<1>1. DOMAIN NoMap = {}
  BY DEF NoMap, bumpcalloc
<1>2. Table(NoMap, 0)
  BY <1>1 DEF Table, NoMap, bumpcalloc
<1>3. UsedSlots(NoMap) = {} /\ LiveSlots(NoMap) = {}
  BY <1>1 DEF UsedSlots, LiveSlots
<1> QED
  BY <1>2, <1>3, FS_EmptySet DEF Placed, HasEntry

LEMMA EmptyTable ==
  ASSUME NEW c \in Nat
  PROVE LET b == bumpcalloc(c)
        IN  /\ Table(b, c) /\ Placed(b, c) /\ UsedSlots(b) = {} /\ LiveSlots(b) = {}
            /\ Cardinality(UsedSlots(b)) = 0
            /\ \A k \in Keys : ~HasEntry(b, c, k)
            /\ \A x \in 0 .. c - 1 : b[x].key = NULL
<1> DEFINE b == bumpcalloc(c)
<1>1. Table(b, c) /\ \A x \in 0 .. c - 1 : b[x].key = NULL
  BY DEF Table, bumpcalloc, Entry
<1>2. UsedSlots(b) = {} /\ LiveSlots(b) = {}
  BY DEF UsedSlots, LiveSlots, IsKey, bumpcalloc
<1> HIDE DEF b
<1>3. Placed(b, c)
  BY <1>2 DEF Placed
<1>4. \A k \in Keys : ~HasEntry(b, c, k)
  BY <1>1, <1>2, <1>3, FindsEntry
<1> QED
  BY <1>1, <1>2, <1>3, <1>4, FS_EmptySet DEF b

LEMMA InitIInv == Init => IInv
<1> SUFFICES ASSUME Init PROVE IInv
  OBVIOUS
<1> USE DEF Init
<1>1. TypeOK
  BY NoTable DEF TypeOK, Table
<1>2. TableInv
  BY NoTable DEF TableInv
<1>3. PutInv /\ MoveInv
  BY DEF PutInv, MoveInv
<1>4. KeysOwned
  BY NoTable, CopiesCounted, CallKinds
<1> QED
  BY <1>1, <1>2, <1>3, <1>4 DEF IInv

-------------------------------------------------------------------------------
(***************************************************************************)
(* One lemma per action.                                                   *)
(***************************************************************************)
\* Where the table is as it was, so is what is said of it alone.
LEMMA SameTable ==
  ASSUME TableInv, map' = map
  PROVE TableInv'
BY DEF TableInv, map, Placed, get_entry, HasEntry, Probe, Stops, UsedSlots, LiveSlots, IsKey

LEMMA PutStep ==
  ASSUME IInv, NEW k \in Keys, NEW v \in Values, hashmap_put(k, v)
  PROVE IInv'
<1> USE DEF hashmap_put
<1>1. Table(buckets, capacity) /\ Placed(buckets, capacity)
  BY TypeIsTable DEF IInv, TableInv
<1>2. \A l \in Keys : copies'[l] = (IF HasEntry(buckets, capacity, l) THEN 1 ELSE 0)
                                   + (IF k = l THEN 1 ELSE 0)
  <2>1. \A l \in Keys : copies[l] = IF HasEntry(buckets, capacity, l) THEN 1 ELSE 0
    BY <1>1, CopiesCounted, CallKinds DEF IInv, PutInv
  <2>2. copies' = [copies EXCEPT ![k] = @ + 1] /\ copies \in [Keys -> Int]
    BY DEF IInv, TypeOK
  <2> QED
    BY <2>1, <2>2
<1>3. /\ call' \in Dict!Calls /\ call'.op = "put" /\ call'.key = k /\ call'.val = v
      /\ result' = result /\ pc = "idle"
  BY CallKinds
<1>4. copies' \in [Keys -> Int]
  BY DEF IInv, TypeOK
<1>5. CASE capacity = 0
  <2>1. /\ buckets' = bumpcalloc(INIT_SIZE) /\ capacity' = INIT_SIZE
        /\ pc' = "insert" /\ UNCHANGED <<used, nkeys, i, map2>>
    BY <1>5
  <2>2. /\ Table(buckets', capacity') /\ Placed(buckets', capacity')
        /\ Cardinality(UsedSlots(buckets')) = 0
        /\ \A l \in Keys : ~HasEntry(buckets', capacity', l)
    BY <2>1, EmptyTable, SizePositive
  <2>3. TypeOK'
    BY <2>1, <2>2, <1>3, <1>4, SizePositive DEF IInv, TypeOK, Table, map2
  <2>4. TableInv' /\ PutInv' /\ MoveInv'
    <3>1. used' = 0 /\ capacity' > 0
      BY <2>1, <1>5, SizePositive DEF IInv, TableInv
    <3>2. HIGH_WATERMARK * capacity' > 0
      BY <2>1, SizePositive, SizeAssumption
    <3>3. TableInv'
      BY <3>1, <2>1, <2>2, SizePositive DEF TableInv
    <3>4. PutInv'
      BY <3>1, <3>2, <2>1, <1>3 DEF PutInv
    <3> QED
      BY <3>3, <3>4, <2>1 DEF MoveInv
  <2>5. KeysOwned'
    <3>1. \A l \in Keys : ~HasEntry(buckets, capacity, l)
      BY <1>5 DEF HasEntry
    <3> QED
      BY <3>1, <2>1, <2>2, <1>2, <1>3, CopiesCountedNext
  <2> QED
    BY <2>3, <2>4, <2>5 DEF IInv
<1>6. ASSUME capacity # 0, map' = map PROVE TableInv' /\ (pc' # "idle" => KeysOwned')
  <2>1. TableInv'
    BY <1>6, SameTable DEF IInv
  <2>2. buckets' = buckets /\ capacity' = capacity
    BY <1>6 DEF map
  <2>3. Table(buckets', capacity') /\ Placed(buckets', capacity')
    BY <2>2, <1>1
  <2>4. ASSUME pc' # "idle" PROVE KeysOwned'
    BY <2>2, <2>3, <2>4, <1>2, <1>3, CopiesCountedNext
  <2> QED
    BY <2>1, <2>4
<1>7. CASE capacity # 0 /\ AboveHigh(used, capacity)
  <2>1. /\ nkeys' = CountKeys /\ capacity2' = capacity
        /\ pc' = "grow" /\ UNCHANGED <<map, i, buckets2, used2>>
    BY <1>7
  <2>2. CountKeys = Cardinality(LiveSlots(buckets)) /\ CountKeys \in Nat
    BY <1>1, RoomByCount DEF CountKeys
  <2>3. TypeOK'
    BY <2>1, <2>2, <1>3, <1>4 DEF IInv, TypeOK, map
  <2>4. PutInv' /\ MoveInv'
    BY <2>1, <2>2, <1>3, <1>7 DEF PutInv, MoveInv, map, LiveSlots, IsKey, IInv, TypeOK
  <2> QED
    BY <1>6, <1>7, <2>1, <2>3, <2>4 DEF IInv
<1>8. CASE capacity # 0 /\ ~AboveHigh(used, capacity)
  <2>1. pc' = "insert" /\ UNCHANGED <<map, nkeys, i, map2>>
    BY <1>8
  <2>2. TypeOK'
    BY <2>1, <1>3, <1>4 DEF IInv, TypeOK, map, map2
  <2>3. used * 100 < HIGH_WATERMARK * capacity
    <3>1. used \in Nat /\ capacity \in Nat /\ capacity > 0 /\ HIGH_WATERMARK \in Nat
      BY <1>8, SizeAssumption DEF IInv, TypeOK
    <3>2. ~((used * 100) \div capacity >= HIGH_WATERMARK)
      BY <1>8 DEF AboveHigh
    <3>3. ~(used * 100 >= HIGH_WATERMARK * capacity)
      BY <3>1, <3>2, Watermark
    <3>4. HIGH_WATERMARK * capacity \in Nat
      BY <3>1
    <3> QED
      BY <3>1, <3>3, <3>4
  <2>4. PutInv' /\ MoveInv'
    BY <2>1, <2>3, <1>3, <1>8 DEF PutInv, MoveInv, map
  <2> QED
    BY <1>6, <1>8, <2>1, <2>2, <2>4 DEF IInv
<1> QED
  BY <1>5, <1>7, <1>8

LEMMA DoubleStep == ASSUME IInv, Double PROVE IInv'
<1> USE DEF Double, map
<1>1. TypeOK'
  BY DEF IInv, TypeOK
<1>2. TableInv'
  BY SameTable DEF IInv, map
<1>3. PutInv' /\ MoveInv'
  BY DEF IInv, TypeOK, PutInv, MoveInv, LiveSlots, IsKey
<1>4. KeysOwned'
  BY DEF IInv, KeysOwned, LiveSlots, IsKey
<1> QED
  BY <1>1, <1>2, <1>3, <1>4 DEF IInv

LEMMA NewTableStep == ASSUME IInv, NewTable PROVE IInv'
<1> USE DEF NewTable
<1> DEFINE c == capacity2
<1>1. /\ Table(buckets2', capacity2') /\ Placed(buckets2', capacity2')
      /\ LiveSlots(buckets2') = {} /\ UsedSlots(buckets2') = {}
      /\ Cardinality(UsedSlots(buckets2')) = 0
  BY EmptyTable DEF IInv, TypeOK
<1>2. TypeOK'
  BY <1>1 DEF IInv, TypeOK, map, Table
<1>3. TableInv'
  BY SameTable DEF IInv
<1>4. PutInv'
  BY DEF IInv, PutInv, map, LiveSlots, IsKey
<1>5. Below(i)' = {} /\ Cardinality({}) = 0
  <2>1. LiveSlots(buckets)' \in SUBSET Nat
    BY <1>2 DEF TypeOK, LiveSlots
  <2> QED
    BY <2>1, FS_EmptySet DEF Below
<1>6. nkeys' * 100 < LOW_WATERMARK * capacity2'
  <2>1. nkeys \in Nat /\ capacity2 \in Nat /\ capacity2 > 0 /\ LOW_WATERMARK \in Nat
    BY SizePositive, SizeAssumption DEF IInv, TypeOK, TableInv, PutInv
  <2>2. ~((nkeys * 100) \div capacity2 >= LOW_WATERMARK)
    BY DEF Crowded
  <2>3. ~(nkeys * 100 >= LOW_WATERMARK * capacity2)
    BY <2>1, <2>2, Watermark
  <2>4. LOW_WATERMARK * capacity2 \in Nat
    BY <2>1
  <2> QED
    BY <2>1, <2>3, <2>4
<1>7. MoveInv'
  <2>1. i' = 0 /\ used2' = 0 /\ capacity' \in Nat
    BY <1>2 DEF TypeOK
  <2>2. i' <= capacity' /\ used2' = Cardinality(UsedSlots(buckets2')) /\ used2' = Cardinality(Below(i)')
    BY ONLY <2>1, <1>1, <1>5
  <2> HIDE DEF NewTable
  <2> QED
    BY <2>2, <1>1, <1>5, <1>6 DEF MoveInv
<1>8. KeysOwned'
  BY DEF IInv, KeysOwned, LiveSlots, IsKey, map
<1> QED
  BY <1>2, <1>3, <1>4, <1>7, <1>8 DEF IInv

LEMMA MoveEntryStep == ASSUME IInv, MoveEntry PROVE IInv'
<1> USE DEF MoveEntry
<1>1. /\ OldTable /\ NewOne /\ Placed(buckets, capacity) /\ Placed(buckets2, capacity2)
      /\ pc = "move" /\ i \in Nat /\ i < capacity /\ capacity \in Nat /\ capacity2 \in Nat
      /\ DOMAIN buckets = 0 .. capacity - 1
  BY TypeIsTable DEF IInv, TypeOK, TableInv, MoveInv, OldTable, NewOne
<1>2. /\ i' = i + 1 /\ pc' = pc /\ call' = call /\ result' = result
      /\ nkeys' = nkeys /\ capacity2' = capacity2
      /\ buckets' = buckets /\ capacity' = capacity /\ used' = used
  BY DEF map
<1>3. TableInv'
  BY <1>2, SameTable DEF IInv, map
<1>4. PutInv'
  BY <1>1, <1>2 DEF IInv, PutInv, LiveSlots, IsKey
<1>5. Below(i)' = IF IsKey(buckets[i]) THEN Below(i) \cup {i} ELSE Below(i)
  BY <1>1, <1>2 DEF Below, LiveSlots, IsKey
<1>6. CASE ~IsKey(buckets[i])
  <2>1. buckets2' = buckets2 /\ used2' = used2 /\ copies' = copies
    BY <1>6
  <2>2. TypeOK'
    BY <2>1, <1>1, <1>2 DEF IInv, TypeOK
  <2>3. Below(i)' = Below(i)
    BY <1>5, <1>6
  <2>4. MoveInv'
    BY <2>1, <2>3, <1>1, <1>2 DEF IInv, MoveInv
  <2>5. KeysOwned'
    BY <2>1, <1>2 DEF IInv, KeysOwned, LiveSlots, IsKey
  <2> QED
    BY <2>2, <2>4, <2>5, <1>3, <1>4 DEF IInv
<1>7. CASE IsKey(buckets[i])
  <2> DEFINE k == buckets[i].key
             v == buckets[i].val
             p == Probe(buckets2, capacity2, k)
             d == Put2(buckets2, capacity2, k, v)
  <2>1. k \in Keys /\ v \in Values \cup {NULL}
    BY <1>1, <1>7 DEF OldTable, Table, Entry, IsKey
  <2>2. i \in LiveSlots(buckets) /\ buckets[i] = [key |-> k, val |-> v]
    BY <1>1, <1>7 DEF LiveSlots, OldTable, Table, Entry
  <2>3. capacity2 > 0 /\ Stops(buckets2, capacity2, k) # {}
    BY <1>1, <1>7 DEF IInv, PutInv
  <2>4. /\ buckets2' = d
        /\ used2' = IF Fresh(buckets2, capacity2, k) THEN used2 + 1 ELSE used2
        /\ copies' = IF Fresh(buckets2, capacity2, k) THEN copies
                     ELSE [copies EXCEPT ![k] = @ - 1]
    BY <1>7
  <2> HIDE DEF k, v, p
  <2>5. ~HasEntry(buckets2, capacity2, k)
    <3> SUFFICES ASSUME HasEntry(buckets2, capacity2, k) PROVE FALSE
      OBVIOUS
    <3>1. PICK y \in LiveSlots(buckets2) : buckets2[y].key = k
      BY <1>1, <2>1, FindsEntry DEF NewOne
    <3>2. PICK x \in Below(i) : buckets[x] = buckets2[y]
      BY <1>1, <3>1 DEF IInv, MoveInv
    <3>3. x \in LiveSlots(buckets) /\ x < i /\ buckets[x].key = k
      BY <3>1, <3>2 DEF Below
    <3>4. x = i
      BY <1>1, <2>1, <2>2, <3>3, FindsEntry DEF OldTable
    <3> QED
      BY <3>3, <3>4, <1>1
  <2>6. /\ Table(d, capacity2) /\ Placed(d, capacity2) /\ p \in 0 .. capacity2 - 1
        /\ d[p] = [key |-> k, val |-> v]
        /\ \A x \in 0 .. capacity2 - 1 : x # p => d[x] = buckets2[x]
    BY <1>1, <2>1, <2>3, PutPlaced DEF NewOne, p
  <2>7. /\ UsedSlots(d) = UsedSlots(buckets2) \cup {p}
        /\ LiveSlots(d) = LiveSlots(buckets2) \cup {p}
        /\ Cardinality(UsedSlots(d)) = Cardinality(UsedSlots(buckets2)) + 1
        /\ Fresh(buckets2, capacity2, k)
    BY <1>1, <2>1, <2>3, <2>5, PutUsed DEF NewOne, p
  <2>8. p \notin LiveSlots(buckets2)
    BY <2>7, KeysAreKeys DEF Fresh, p, LiveSlots, IsKey
  <2> HIDE DEF d
  <2>9. used2' = used2 + 1 /\ copies' = copies /\ used2 \in Nat
    BY <2>4, <2>7 DEF IInv, TypeOK
  <2>10. TypeOK'
    BY <2>4, <2>6, <2>9, <1>1, <1>2 DEF IInv, TypeOK, Table
  <2>11. KeysOwned'
    BY <2>9, <1>2 DEF IInv, KeysOwned, LiveSlots, IsKey
  <2>12. Cardinality(Below(i)') = Cardinality(Below(i)) + 1
    <3>1. IsFiniteSet(Below(i)) /\ i \notin Below(i)
      BY <1>1, RoomByCount, FS_Subset DEF Below, OldTable
    <3> QED
      BY <3>1, <1>5, <1>7, FS_AddElement
  <2>13. \A x \in Below(i)' : \E y \in LiveSlots(d) : d[y] = buckets[x]
    <3>1. ASSUME NEW x \in Below(i) PROVE \E y \in LiveSlots(d) : d[y] = buckets[x]
      <4>1. PICK y \in LiveSlots(buckets2) : buckets2[y] = buckets[x]
        BY <1>1 DEF IInv, MoveInv
      <4>2. y # p /\ y \in 0 .. capacity2 - 1 /\ y \in LiveSlots(d)
        BY <2>7, <2>8, <1>1 DEF LiveSlots, NewOne, Table
      <4> QED
        BY <4>1, <4>2, <2>6
    <3> QED
      BY <3>1, <1>5, <1>7, <2>2, <2>6, <2>7
  <2>14. \A y \in LiveSlots(d) : \E x \in Below(i)' : buckets[x] = d[y]
    <3>1. ASSUME NEW y \in LiveSlots(buckets2) PROVE \E x \in Below(i)' : buckets[x] = d[y]
      <4>1. PICK x \in Below(i) : buckets[x] = buckets2[y]
        BY <1>1 DEF IInv, MoveInv
      <4>2. y # p /\ y \in 0 .. capacity2 - 1
        BY <2>8, <1>1 DEF LiveSlots, NewOne, Table
      <4> QED
        BY <4>1, <4>2, <2>6, <1>5
    <3> QED
      BY <3>1, <1>5, <1>7, <2>2, <2>6, <2>7
  <2>15. MoveInv'
    <3>1. UsedSlots(d) = LiveSlots(d) /\ used2' = Cardinality(UsedSlots(d))
          /\ used2' = Cardinality(Below(i)') /\ nkeys * 100 < LOW_WATERMARK * capacity2
      BY <2>7, <2>9, <2>12, <1>1 DEF IInv, MoveInv
    <3>2. i' <= capacity
      BY <1>1, <1>2
    <3> QED
      BY <3>1, <3>2, <2>4, <2>6, <2>13, <2>14, <1>2 DEF MoveInv
  <2> QED
    BY <2>10, <2>11, <2>15, <1>3, <1>4 DEF IInv
<1> QED
  BY <1>6, <1>7

LEMMA MoveDoneStep == ASSUME IInv, MoveDone PROVE IInv'
<1> USE DEF MoveDone
<1>1. /\ OldTable /\ NewOne /\ Placed(buckets, capacity) /\ Placed(buckets2, capacity2)
      /\ pc = "move" /\ i = capacity /\ capacity \in Nat /\ capacity # 0 /\ capacity2 >= capacity
  BY TypeIsTable DEF IInv, TypeOK, TableInv, PutInv, MoveInv, OldTable, NewOne
<1>2. /\ buckets' = buckets2 /\ capacity' = capacity2 /\ used' = used2 /\ pc' = "insert"
      /\ call' = call /\ result' = result /\ copies' = copies
  OBVIOUS
<1>3. Below(i) = LiveSlots(buckets)
  BY <1>1 DEF Below, LiveSlots, OldTable, Table
<1>4. used2 = nkeys /\ used2 \in Nat /\ capacity2 \in Nat
  BY <1>1, <1>3 DEF IInv, TypeOK, PutInv, MoveInv
<1>5. used2 * 100 < HIGH_WATERMARK * capacity2 /\ used2 < capacity2
  BY <1>1, <1>4, LowerWatermark DEF IInv, MoveInv
<1>6. TypeOK'
  <2>1. buckets2 \in [0 .. capacity2 - 1 -> Entry]
    BY <1>1 DEF NewOne, Table
  <2> QED
    BY <2>1, <1>2, <1>4 DEF IInv, TypeOK
<1>7. TableInv'
  <2>1. capacity \in Nat /\ capacity >= INIT_SIZE
    BY <1>1 DEF IInv, TableInv, OldTable, Table
  <2>2. Placed(buckets', capacity') /\ used' = Cardinality(UsedSlots(buckets'))
    BY <1>1, <1>2 DEF IInv, MoveInv
  <2>3. capacity' >= INIT_SIZE /\ used' < capacity' /\ capacity' # 0
    BY <2>1, <1>1, <1>2, <1>4, <1>5, SizePositive
  <2> QED
    BY <2>2, <2>3 DEF TableInv
<1>8. PutInv' /\ MoveInv'
  BY <1>1, <1>2, <1>4, <1>5 DEF IInv, PutInv, MoveInv
<1>9. KeysOwned'
  <2>1. \A k \in Keys : HasEntry(buckets, capacity, k) <=> HasEntry(buckets2, capacity2, k)
    BY <1>1, <1>3, SameEntries DEF IInv, MoveInv, OldTable, NewOne
  <2>2. Table(buckets', capacity') /\ Placed(buckets', capacity')
    BY <1>1, <1>2 DEF NewOne
  <2> QED
    BY <2>1, <2>2, <1>1, <1>2, CopiesCounted, CopiesCountedNext DEF IInv, OldTable
<1> QED
  BY <1>6, <1>7, <1>8, <1>9 DEF IInv

LEMMA InsertStep == ASSUME IInv, Insert PROVE IInv'
<1> DEFINE k == call.key
           v == call.val
           p == Probe(buckets, capacity, k)
<1>1. /\ Table(buckets, capacity) /\ Placed(buckets, capacity) /\ capacity # 0 /\ pc = "insert"
      /\ capacity \in Nat /\ capacity > 0 /\ used \in Nat
      /\ call.op = "put" /\ k \in Keys /\ v \in Values /\ Stops(buckets, capacity, k) # {}
  BY TypeIsTable DEF IInv, TypeOK, TableInv, PutInv, Insert
<1>2. /\ buckets' = Put2(buckets, capacity, k, v)
      /\ used' = IF Fresh(buckets, capacity, k) THEN used + 1 ELSE used
      /\ copies' = IF Fresh(buckets, capacity, k) THEN copies ELSE [copies EXCEPT ![k] = @ - 1]
      /\ pc' = "idle" /\ call' = Dict!NoCall /\ result' = result
      /\ capacity' = capacity /\ nkeys' = nkeys /\ i' = i /\ map2' = map2
  BY DEF Insert, Return
<1> HIDE DEF k, v
<1>3. Table(buckets', capacity') /\ Placed(buckets', capacity')
  BY <1>1, <1>2, PutPlaced
<1>4. /\ used' = Cardinality(UsedSlots(buckets'))
      /\ Fresh(buckets, capacity, k) <=> ~HasEntry(buckets, capacity, k)
  BY <1>1, <1>2, PutUsed DEF IInv, TableInv
<1>5. used + 1 < capacity
  BY <1>1, BelowWatermark DEF IInv, TableInv, PutInv
<1>6. TypeOK'
  <2>1. copies' \in [Keys -> Int]
    BY <1>1, <1>2 DEF IInv, TypeOK
  <2> QED
    BY <2>1, <1>1, <1>2, <1>3 DEF IInv, TypeOK, Table, map2
<1>7. TableInv'
  BY <1>1, <1>2, <1>3, <1>4, <1>5 DEF IInv, TableInv
<1>8. PutInv' /\ MoveInv'
  BY <1>2 DEF PutInv, MoveInv
<1>9. KeysOwned'
  <2>1. \A l \in Keys : HasEntry(buckets', capacity', l) <=> l = k \/ HasEntry(buckets, capacity, l)
    BY <1>1, <1>2, PutFound
  <2>2. \A l \in Keys : copies[l] = (IF HasEntry(buckets, capacity, l) THEN 1 ELSE 0)
                                    + (IF k = l THEN 1 ELSE 0)
    BY <1>1, CopiesCounted DEF IInv, k
  <2>3. copies \in [Keys -> Int]
    BY DEF IInv, TypeOK
  <2>4. \A l \in Keys : copies'[l] = IF HasEntry(buckets', capacity', l) THEN 1 ELSE 0
    BY <2>1, <2>2, <2>3, <1>1, <1>2, <1>4
  <2> QED
    BY <2>4, <1>2, <1>3, CallKinds, CopiesCountedNext
<1> QED
  BY <1>6, <1>7, <1>8, <1>9 DEF IInv

\* A call that leaves the table alone.
LEMMA OtherStep ==
  ASSUME IInv, map' = map, map2' = map2, nkeys' = nkeys, i' = i, copies' = copies,
         result' \in Values \cup {NULL}, call.op # "put", call'.op # "put",
         \/ pc' = "idle" /\ call' = Dict!NoCall
         \/ pc' \in {"get", "delete", "clear"} /\ call' \in Dict!Calls /\ call'.op = pc'
  PROVE IInv'
<1> USE DEF map, map2
<1>1. TypeOK'
  BY DEF IInv, TypeOK
<1>2. TableInv'
  BY SameTable DEF IInv
<1>3. PutInv' /\ MoveInv'
  BY DEF PutInv, MoveInv
<1>4. KeysOwned'
  BY DEF IInv, KeysOwned, LiveSlots, IsKey
<1> QED
  BY <1>1, <1>2, <1>3, <1>4 DEF IInv

LEMMA AskStep == ASSUME IInv, Ask PROVE IInv'
<1>1. /\ call.op = "none" /\ call' \in Dict!Calls /\ call'.op # "put" /\ pc' = call'.op
      /\ result' \in Values \cup {NULL}
  BY CallKinds DEF IInv, TypeOK, PutInv, Ask
<1>2. call'.op \in {"get", "delete", "clear"}
  BY <1>1, CallKinds
<1> QED
  BY <1>1, <1>2, OtherStep DEF Ask

LEMMA GetStep == ASSUME IInv, Get PROVE IInv'
<1>1. call.op = "get" /\ call.key \in Keys /\ call'.op = "none" /\ pc' = "idle"
  BY CallKinds DEF IInv, PutInv, Get, Return
<1>2. result' \in Values \cup {NULL}
  <2>1. Table(buckets, capacity) /\ Placed(buckets, capacity)
    BY TypeIsTable DEF IInv, TableInv
  <2>2. CASE ~HasEntry(buckets, capacity, call.key)
    BY <2>2 DEF Get, hashmap_get, get_entry
  <2>3. CASE HasEntry(buckets, capacity, call.key)
    <3>1. Probe(buckets, capacity, call.key) \in DOMAIN buckets
      BY <2>1, <2>3, <1>1, FindsEntry DEF LiveSlots
    <3> QED
      BY <2>1, <3>1 DEF Get, hashmap_get, Table, Entry
  <2> QED
    BY <2>2, <2>3
<1> QED
  BY <1>1, <1>2, OtherStep DEF Get, Return

\* What Return leaves, after a call that was not a put.
LEMMA Returned ==
  ASSUME IInv, Return, pc \in {"delete", "clear"}
  PROVE /\ pc' = "idle" /\ call' = Dict!NoCall /\ call.op = pc
        /\ call.op # "put" /\ call'.op # "put"
        /\ nkeys' = nkeys /\ i' = i /\ map2' = map2
BY CallKinds DEF IInv, PutInv, Return

LEMMA DeleteStep == ASSUME IInv, hashmap_delete PROVE IInv'
<1> DEFINE k == call.key
<1>1. /\ Table(buckets, capacity) /\ Placed(buckets, capacity) /\ pc = "delete" /\ used \in Nat
      /\ k \in Keys
  BY TypeIsTable, CallKinds DEF IInv, TableInv, TypeOK, PutInv, hashmap_delete
<1>3. /\ pc' = "idle" /\ call' = Dict!NoCall /\ call.op # "put" /\ call'.op # "put"
      /\ result' = result /\ capacity' = capacity /\ used' = used
      /\ nkeys' = nkeys /\ i' = i /\ map2' = map2
  BY Returned DEF hashmap_delete, Bury
<1>0. CASE get_entry(buckets, capacity, k) = {}
  <2>1. map' = map /\ copies' = copies
    BY <1>0, <1>3 DEF hashmap_delete, map
  <2>2. result' \in Values \cup {NULL}
    BY <1>3 DEF IInv, TypeOK
  <2> QED
    BY <2>1, <2>2, <1>3, OtherStep
<1> SUFFICES ASSUME get_entry(buckets, capacity, k) # {} PROVE IInv'
  BY <1>0
<1>2. PICK y \in get_entry(buckets, capacity, k) :
        /\ buckets' = [buckets EXCEPT ![y].key = TOMBSTONE]
        /\ copies' = [copies EXCEPT ![k] = @ - 1]
  BY DEF hashmap_delete, Bury
<1> HIDE DEF k
<1>4. y \in LiveSlots(buckets) /\ buckets[y].key = k /\ HasEntry(buckets, capacity, k)
  BY <1>1, <1>2, FindsEntry DEF get_entry
<1>5. /\ Table(buckets', capacity') /\ Placed(buckets', capacity')
      /\ buckets'[y].key = TOMBSTONE /\ \A x \in 0 .. capacity - 1 : x # y => buckets'[x] = buckets[x]
  <2> DEFINE d == [buckets EXCEPT ![y].key = TOMBSTONE]
  <2>1. /\ Table(d, capacity) /\ Placed(d, capacity)
        /\ d[y].key = TOMBSTONE /\ \A x \in 0 .. capacity - 1 : x # y => d[x] = buckets[x]
    BY <1>1, <1>4, DeletePlaced
  <2> HIDE DEF d
  <2>2. buckets' = d /\ capacity' = capacity
    BY <1>2, <1>3 DEF d
  <2> QED
    BY <2>1, <2>2
<1>6. UsedSlots(buckets') = UsedSlots(buckets)
  <2>1. buckets[y].key # NULL /\ DOMAIN buckets = 0 .. capacity - 1 /\ DOMAIN buckets' = DOMAIN buckets
    BY <1>1, <1>3, <1>4, <1>5 DEF Table, LiveSlots, IsKey
  <2> QED
    BY <2>1, <1>5, KeysAreKeys DEF UsedSlots
<1>7. TypeOK'
  <2>1. copies' \in [Keys -> Int]
    BY <1>1, <1>2 DEF IInv, TypeOK
  <2> QED
    BY <2>1, <1>1, <1>3, <1>5 DEF IInv, TypeOK, Table, map2
<1>8. TableInv' /\ PutInv' /\ MoveInv'
  BY <1>1, <1>3, <1>5, <1>6 DEF IInv, TableInv, PutInv, MoveInv
<1>9. KeysOwned'
  <2>1. \A l \in Keys : HasEntry(buckets', capacity', l) <=> l # k /\ HasEntry(buckets, capacity, l)
    BY <1>1, <1>2, <1>3, <1>4, DeleteFound
  <2>2. \A l \in Keys : copies[l] = IF HasEntry(buckets, capacity, l) THEN 1 ELSE 0
    BY <1>1, <1>3, CopiesCounted DEF IInv
  <2>3. copies \in [Keys -> Int]
    BY DEF IInv, TypeOK
  <2>4. \A l \in Keys : copies'[l] = IF HasEntry(buckets', capacity', l) THEN 1 ELSE 0
    <3>1. copies' = [copies EXCEPT ![k] = copies[k] - 1]
      BY <1>2
    <3>2. copies'[k] = copies[k] - 1 /\ \A l \in Keys : l # k => copies'[l] = copies[l]
      BY <2>3, <3>1, <1>1
    <3>3. copies'[k] = 0
      BY <2>2, <3>2, <1>1, <1>4
    <3> QED
      BY ONLY <2>1, <2>2, <3>2, <3>3
  <2> QED
    BY <2>4, <1>1, <1>3, <1>5, CopiesCountedNext
<1> QED
  BY <1>7, <1>8, <1>9 DEF IInv

LEMMA ClearStep == ASSUME IInv, hashmap_clear PROVE IInv'
<1>1. /\ buckets' = NoMap /\ capacity' = 0 /\ used' = 0 /\ result' = result
      /\ pc' = "idle" /\ call' = Dict!NoCall /\ call.op # "put" /\ call'.op # "put"
      /\ nkeys' = nkeys /\ i' = i /\ map2' = map2
  BY Returned DEF hashmap_clear
<1>2. Table(buckets, capacity) /\ Placed(buckets, capacity)
  BY TypeIsTable DEF IInv, TableInv
<1>3. Table(buckets', capacity') /\ Placed(buckets', capacity')
  BY <1>1, NoTable
<1>4. copies' = [k \in Keys |-> 0]
  <2>1. ASSUME NEW k \in Keys
        PROVE copies[k] = Cardinality({x \in LiveSlots(buckets) : buckets[x].key = k})
    <3>1. {x \in LiveSlots(buckets) : buckets[x].key = k} = get_entry(buckets, capacity, k)
      BY <1>2, Entries
    <3>2. copies[k] = IF HasEntry(buckets, capacity, k) THEN 1 ELSE 0
      BY <1>1, <1>2, CopiesCounted DEF IInv
    <3> QED
      BY <3>1, <3>2, <1>2, Entries
  <2>2. copies \in [Keys -> Int]
    BY DEF IInv, TypeOK
  <2> QED
    BY <2>1, <2>2 DEF hashmap_clear
<1>5. TypeOK'
  BY <1>1, <1>3, <1>4 DEF IInv, TypeOK, Table, map2
<1>6. TableInv' /\ PutInv' /\ MoveInv'
  BY <1>1, <1>3, NoTable DEF IInv, TableInv, PutInv, MoveInv
<1>7. KeysOwned'
  BY <1>1, <1>3, <1>4, NoTable, CopiesCountedNext
<1> QED
  BY <1>5, <1>6, <1>7 DEF IInv

LEMMA NextIInv == IInv /\ [Next]_vars => IInv'
<1> SUFFICES ASSUME IInv, [Next]_vars PROVE IInv'
  OBVIOUS
<1>1. CASE Next
  BY <1>1, AskStep, PutStep, DoubleStep, NewTableStep, MoveEntryStep, MoveDoneStep,
     InsertStep, GetStep, DeleteStep, ClearStep DEF Next, Rehash
<1>2. CASE UNCHANGED vars
  <2> USE <1>2 DEF vars, map, map2
  <2>1. TypeOK' /\ KeysOwned'
    BY DEF IInv, TypeOK, KeysOwned, LiveSlots, IsKey
  <2>2. TableInv'
    BY SameTable DEF IInv
  <2>3. PutInv' /\ MoveInv'
    BY DEF IInv, PutInv, MoveInv, Below, LiveSlots, IsKey
  <2> QED
    BY <2>1, <2>2, <2>3 DEF IInv
<1> QED
  BY <1>1, <1>2

LEMMA IInvProbesEnd == IInv => ProbesEnd
<1> SUFFICES ASSUME IInv PROVE ProbesEnd
  OBVIOUS
<1>1. ASSUME capacity # 0
      PROVE /\ used = Cardinality({x \in DOMAIN buckets : buckets[x].key # NULL})
            /\ \A k \in Keys : Stops(buckets, capacity, k) # {}
  <2>1. Table(buckets, capacity) /\ capacity \in Nat /\ capacity > 0
    BY <1>1, TypeIsTable DEF IInv, TypeOK
  <2>2. used = Cardinality(UsedSlots(buckets)) /\ used < capacity
    BY <1>1 DEF IInv, TableInv
  <2>3. \E x \in 0 .. capacity - 1 : buckets[x].key = NULL
    BY <2>1, <2>2, RoomByCount
  <2> QED
    BY <2>1, <2>2, <2>3, RoomStops DEF UsedSlots
<1>2. ASSUME pc = "move"
      PROVE /\ \A k \in Keys : Stops(buckets2, capacity2, k) # {}
            /\ IF i = capacity THEN used2 = nkeys ELSE ~AboveHigh(used2, capacity2)
  <2>1. /\ Table(buckets, capacity) /\ Table(buckets2, capacity2)
        /\ used2 \in Nat /\ nkeys \in Nat /\ capacity2 \in Nat
    BY <1>2, TypeIsTable DEF IInv, TypeOK
  <2>2. Below(i) \in SUBSET LiveSlots(buckets)
    BY DEF Below
  <2>3. used2 <= nkeys
    BY <1>2, <2>1, <2>2, RoomByCount, FS_Subset DEF IInv, PutInv, MoveInv
  <2>4. used2 * 100 < LOW_WATERMARK * capacity2
    BY <1>2, <2>1, <2>3, SizeAssumption DEF IInv, MoveInv
  <2>5. used2 * 100 < HIGH_WATERMARK * capacity2 /\ used2 < capacity2 /\ capacity2 > 0
    BY <2>1, <2>4, LowerWatermark
  <2>6. \E x \in 0 .. capacity2 - 1 : buckets2[x].key = NULL
    BY <1>2, <2>1, <2>5, RoomByCount, ZenonT(40) DEF IInv, MoveInv
  <2>7. ~AboveHigh(used2, capacity2)
    <3>1. HIGH_WATERMARK \in Nat /\ used2 * 100 \in Nat
      BY <2>1, SizeAssumption
    <3>2. HIGH_WATERMARK * capacity2 \in Nat
      BY <2>1, <3>1
    <3>3. ~(used2 * 100 >= HIGH_WATERMARK * capacity2)
      BY <2>5, <3>1, <3>2
    <3> QED
      BY <2>1, <2>5, <3>1, <3>3, Watermark DEF AboveHigh
  <2>8. ASSUME i = capacity PROVE used2 = nkeys
    <3>1. Below(i) = LiveSlots(buckets)
      BY <2>1, <2>8 DEF Below, LiveSlots, Table
    <3> QED
      BY <1>2, <3>1 DEF IInv, PutInv, MoveInv
  <2> QED
    BY <2>1, <2>5, <2>6, <2>7, <2>8, RoomStops
<1> QED
  BY <1>1, <1>2 DEF ProbesEnd

\* hashmap_put, wherever it stands, and the other calls keep the invariant.
THEOREM Invariance == Spec => []IInv
BY InitIInv, NextIInv, PTL DEF Spec

\* Every field holds what its C declaration says.
THEOREM TypeCorrect == Spec => []TypeOK
<1>1. IInv => TypeOK
  BY DEF IInv
<1> QED
  BY <1>1, Invariance, PTL

\* Every probe stops, whatever the hash function and however full the table: neither
\* unreachable() nor the assertion of rehash is reached.
THEOREM ProbesEndTheorem == Spec => []ProbesEnd
BY IInvProbesEnd, Invariance, PTL

\* No key is leaked, freed twice or used after its free.
THEOREM KeysOwnedTheorem == Spec => []KeysOwned
<1>1. IInv => KeysOwned
  BY DEF IInv
<1> QED
  BY <1>1, Invariance, PTL

-------------------------------------------------------------------------------
(***************************************************************************)
(* The refinement.                                                         *)
(***************************************************************************)
dict == [k \in Keys |-> hashmap_get(k)]

LEMMA DictIsFound == dict = [k \in Keys |-> Found(buckets, capacity, k)]
BY DEF dict, hashmap_get, Found

LEMMA DictIsFoundNext == dict' = [k \in Keys |-> Found(buckets', capacity', k)]
BY DEF dict, hashmap_get, Found

\* What is not found is NULL.
LEMMA FoundNothing ==
  ASSUME NEW b, NEW c, Table(b, c), Placed(b, c), NEW k \in Keys, ~HasEntry(b, c, k)
  PROVE Found(b, c, k) = NULL
BY Entries DEF Found

LEMMA InitDict == Init => Dict!Init
<1> SUFFICES ASSUME Init PROVE \A k \in Keys : Found(buckets, capacity, k) = NULL
  BY DictIsFound DEF Dict!Init, dict, Init
<1> QED
  BY NoTable, FoundNothing DEF Init

LEMMA PutDict ==
  ASSUME IInv, NEW k \in Keys, NEW v \in Values, hashmap_put(k, v)
  PROVE dict' = dict
<1>1. CASE capacity = 0
  <2>1. \A l \in Keys : Found(buckets, capacity, l) = NULL
    BY <1>1 DEF Found, get_entry, HasEntry
  <2>2. buckets' = bumpcalloc(INIT_SIZE) /\ capacity' = INIT_SIZE
    BY <1>1 DEF hashmap_put
  <2>3. \A l \in Keys : Found(buckets', capacity', l) = NULL
    BY <2>2, SizePositive, EmptyTable, FoundNothing
  <2> QED
    BY <2>1, <2>3, DictIsFound, DictIsFoundNext
<1>2. CASE capacity # 0
  BY <1>2, DictIsFound, DictIsFoundNext DEF hashmap_put, map
<1> QED
  BY <1>1, <1>2

LEMMA MoveDoneDict == ASSUME IInv, MoveDone PROVE dict' = dict
<1>1. /\ Table(buckets, capacity) /\ Table(buckets2, capacity2)
      /\ Placed(buckets, capacity) /\ Placed(buckets2, capacity2)
  BY TypeIsTable DEF IInv, TableInv, MoveInv, MoveDone
<1>2. Below(i) = LiveSlots(buckets)
  BY <1>1 DEF Below, LiveSlots, Table, MoveDone
<1>3. \A k \in Keys : Found(buckets, capacity, k) = Found(buckets2, capacity2, k)
  BY <1>1, <1>2, SameEntries DEF IInv, MoveInv, MoveDone
<1> QED
  BY <1>3, DictIsFound, DictIsFoundNext DEF MoveDone

LEMMA InsertDict == ASSUME IInv, Insert PROVE Dict!hashmap_put
<1> DEFINE k == call.key
           v == call.val
<1>1. /\ Table(buckets, capacity) /\ Placed(buckets, capacity) /\ capacity > 0
      /\ call.op = "put" /\ k \in Keys /\ v \in Values /\ Stops(buckets, capacity, k) # {}
      /\ buckets' = Put2(buckets, capacity, k, v) /\ capacity' = capacity
      /\ result' = result
  BY TypeIsTable DEF IInv, TypeOK, TableInv, PutInv, Insert
<1> HIDE DEF k, v
<1>2. \A l \in Keys : Found(buckets', capacity', l) = IF l = k THEN v ELSE Found(buckets, capacity, l)
  BY <1>1, PutFound
<1>3. dict' = [dict EXCEPT ![k] = v]
  BY <1>1, <1>2, DictIsFound, DictIsFoundNext
<1> QED
  BY <1>1, <1>3 DEF Dict!hashmap_put, dict, k, v

LEMMA GetDict == ASSUME IInv, Get PROVE Dict!hashmap_get
<1>1. call.op = "get" /\ call.key \in Keys
  BY CallKinds DEF IInv, PutInv, Get
<1>2. dict' = dict
  BY DictIsFound, DictIsFoundNext DEF Get, map
<1> QED
  BY <1>1, <1>2 DEF Dict!hashmap_get, dict, Get

LEMMA DeleteDict == ASSUME IInv, hashmap_delete PROVE Dict!hashmap_delete
<1> DEFINE k == call.key
<1>1. /\ call.op = "delete" /\ k \in Keys /\ capacity' = capacity /\ result' = result
      /\ Table(buckets, capacity) /\ Placed(buckets, capacity)
  BY TypeIsTable, CallKinds DEF IInv, PutInv, TableInv, hashmap_delete
<1> HIDE DEF k
<1>2. \A l \in Keys : Found(buckets', capacity', l) = IF l = k THEN NULL ELSE Found(buckets, capacity, l)
  <2>1. CASE get_entry(buckets, capacity, k) = {}
    <3>1. buckets' = buckets
      BY <2>1 DEF hashmap_delete, k
    <3>2. Found(buckets, capacity, k) = NULL
      BY <2>1 DEF Found
    <3> QED
      BY <3>1, <3>2, <1>1
  <2>2. CASE get_entry(buckets, capacity, k) # {}
    <3>1. PICK y \in get_entry(buckets, capacity, k) :
            buckets' = [buckets EXCEPT ![y].key = TOMBSTONE]
      BY <2>2 DEF hashmap_delete, Bury, k
    <3>2. y \in LiveSlots(buckets) /\ buckets[y].key = k
      BY <3>1, <1>1, FindsEntry DEF get_entry
    <3> DEFINE d == [buckets EXCEPT ![y].key = TOMBSTONE]
    <3>3. \A l \in Keys : Found(d, capacity, l)
                            = IF l = k THEN NULL ELSE Found(buckets, capacity, l)
      BY <1>1, <3>2, DeleteFound
    <3>4. buckets' = d
      BY <3>1
    <3> HIDE DEF d
    <3> QED
      BY <3>3, <3>4, <1>1
  <2> QED
    BY <2>1, <2>2
<1>3. dict' = [dict EXCEPT ![k] = NULL]
  BY <1>1, <1>2, DictIsFound, DictIsFoundNext
<1> QED
  BY <1>1, <1>3 DEF Dict!hashmap_delete, dict, k

LEMMA ClearDict == ASSUME IInv, hashmap_clear PROVE Dict!hashmap_clear
<1>1. \A k \in Keys : Found(buckets', capacity', k) = NULL
  BY NoTable, FoundNothing DEF hashmap_clear
<1>2. dict' = [k \in Keys |-> NULL]
  BY <1>1, DictIsFoundNext
<1>3. call.op = "clear" /\ result' = result
  BY DEF IInv, PutInv, hashmap_clear
<1> QED
  BY <1>2, <1>3 DEF Dict!hashmap_clear, dict

\* Where a call is made, nothing else is seen to change.
LEMMA AskDict ==
  ASSUME IInv, Ask \/ \E k \in Keys, v \in Values : hashmap_put(k, v)
  PROVE Dict!Ask
<1>1. CASE Ask
  <2>1. dict' = dict
    BY <1>1, DictIsFound, DictIsFoundNext DEF Ask, map
  <2> QED
    BY <1>1, <2>1 DEF Ask, Dict!Ask, dict, IInv, PutInv
<1>2. ASSUME NEW k \in Keys, NEW v \in Values, hashmap_put(k, v) PROVE Dict!Ask
  <2>1. dict' = dict
    BY <1>2, PutDict
  <2>2. call' \in Dict!Calls /\ result' = result /\ call = Dict!NoCall
    BY <1>2, CallKinds DEF hashmap_put, IInv, PutInv
  <2> QED
    BY <2>1, <2>2 DEF Dict!Ask, dict
<1> QED
  BY <1>1, <1>2

LEMMA NextDict == IInv /\ [Next]_vars => [Dict!Next]_(Dict!vars)
<1> SUFFICES ASSUME IInv, [Next]_vars PROVE [Dict!Next]_(Dict!vars)
  OBVIOUS
<1>1. ASSUME Ask \/ \E k \in Keys, v \in Values : hashmap_put(k, v) PROVE Dict!Next
  BY <1>1, AskDict DEF Dict!Next
<1>2. ASSUME Double \/ NewTable \/ MoveEntry \/ MoveDone \/ UNCHANGED vars
      PROVE UNCHANGED Dict!vars
  <2>1. call' = call /\ result' = result
    BY <1>2 DEF Double, NewTable, MoveEntry, MoveDone, vars
  <2>2. dict' = dict
    <3>1. CASE MoveDone
      BY <3>1, MoveDoneDict
    <3>2. CASE Double \/ NewTable \/ MoveEntry \/ UNCHANGED vars
      BY <3>2, DictIsFound, DictIsFoundNext DEF Double, NewTable, MoveEntry, vars, map
    <3> QED
      BY <1>2, <3>1, <3>2
  <2> QED
    BY <2>1, <2>2 DEF Dict!vars, dict
<1>3. ASSUME Insert \/ Get \/ hashmap_delete \/ hashmap_clear PROVE Dict!Next
  <2>1. call' = Dict!NoCall
    BY <1>3 DEF Insert, Get, hashmap_delete, hashmap_clear, Return
  <2> QED
    BY <1>3, <2>1, InsertDict, GetDict, DeleteDict, ClearDict DEF Dict!Next, Dict!Answer
<1> QED
  BY <1>1, <1>2, <1>3 DEF Next, Rehash

\* hashmap.c is a dictionary, whatever the hash function, the sizes and the watermarks:
\* each call, and no other, changes what is found, for its own key and as it says.
THEOREM ImplementsTheorem == Spec => Implements
BY InitDict, NextDict, Invariance, PTL DEF Spec, Implements, Dict!Spec
================================================================================
