----------------------------- MODULE ReflectProofs -----------------------------
(***************************************************************************)
(* get_reflect_type builds what it was asked for, and gives one descriptor *)
(* of a type that code holds: for any types, recursive ones too, and an    *)
(* ABORT wherever it strikes.  The invariant follows the recursion.  Each call waits for a   *)
(* part of the type above it on the stack (Nested), so that what is        *)
(* returned has the name its caller asked for.  A type that is no struct   *)
(* is entered only once it is built, and may then replace an entry of its  *)
(* name, made further up the recursion: never one that code holds, nor     *)
(* that of a struct under way (MapOK).                                     *)
(***************************************************************************)
EXTENDS Reflect, SequenceTheorems, TLAPS

\* What descs and stack hold.
Desc == [ty : Types, parts : Seq(Nat)]
Frame == [ty : Types, desc : Nat, parts : Seq(Nat)]

\* Descriptor d is one for type t, as far as its name says.
Named(d, t, ds) == d \in DOMAIN ds /\ Mangled[ds[d].ty] = Mangled[t]

\* The call of frame f waits for the descriptor of t.
Awaits(f, t) == Len(f.parts) < Len(Parts[f.ty]) /\ t = Parts[f.ty][Len(f.parts) + 1]

\* A call under way has no more parts than its type, and a descriptor if it is a struct.
FrameTypes(st) ==
  \A j \in DOMAIN st :
    /\ Mangled[st[j].ty] # Unmangled
    /\ Len(st[j].parts) <= Len(Parts[st[j].ty])
    /\ (st[j].desc # 0) <=> (Kind[st[j].ty] = "struct")

TypeInv ==
  /\ descs \in Seq(Desc) /\ stack \in Seq(Frame)
  /\ asked \in Types \cup {None}
  /\ reflectTypes \in [Names -> Nat]
  /\ handed \in SUBSET (Types \X Nat)
  /\ broken \in SUBSET Nat

\* A frame has parts of the right name, which its descriptor has too.
FramesOK(st, ds) ==
  \A j \in DOMAIN st :
    /\ \A k \in DOMAIN st[j].parts : Named(st[j].parts[k], Parts[st[j].ty][k], ds)
    /\ st[j].desc # 0 =>
         /\ st[j].desc \in DOMAIN ds /\ ds[st[j].desc].ty = st[j].ty
         /\ \A k \in DOMAIN st[j].parts : ds[st[j].desc].parts[k] = st[j].parts[k]

\* Each waits for the one above it; no two fill in the same descriptor; and a
\* struct was known by its name to those above it.
Nested(st) ==
  /\ \A j \in 1 .. Len(st) - 1 : Awaits(st[j], st[j + 1].ty)
  /\ \A j, m \in DOMAIN st : st[j].desc = st[m].desc /\ st[j].desc # 0 => j = m
  /\ \A j, m \in DOMAIN st :
       j < m /\ st[j].desc # 0 /\ st[m].desc = 0 => Mangled[st[j].ty] # Mangled[st[m].ty]

\* The parts a descriptor has are of the right name; it lacks some only if it is open.
DescsOK(ds, open) ==
  \A d \in DOMAIN ds :
    /\ DOMAIN ds[d].parts = DOMAIN Parts[ds[d].ty]
    /\ \A k \in DOMAIN Parts[ds[d].ty] :
         IF ds[d].parts[k] # 0 THEN Named(ds[d].parts[k], Parts[ds[d].ty][k], ds)
         ELSE d \in open
OpenOf(st) == {st[j].desc : j \in DOMAIN st}

\* An entry of the map has its name; that of a struct under way stays, that of another
\* type has not been handed out.
MapOK ==
  /\ \A n \in Names : reflectTypes[n] # 0 => reflectTypes[n] \in DOMAIN descs /\ NameOf(reflectTypes[n]) = n
  /\ \A j \in DOMAIN stack :
       IF stack[j].desc # 0 THEN reflectTypes[Mangled[stack[j].ty]] = stack[j].desc
       ELSE \A h \in handed : Mangled[h[1]] # Mangled[stack[j].ty]

HandedOK ==
  \A h \in handed : Mangled[h[1]] \in Names /\ h[2] # 0 /\ reflectTypes[Mangled[h[1]]] = h[2]

IInv ==
  /\ TypeInv
  /\ FrameTypes(stack) /\ FramesOK(stack, descs) /\ Nested(stack)
  /\ DescsOK(descs, broken \cup OpenOf(stack))
  /\ MapOK /\ HandedOK
  /\ asked # None /\ stack # <<>> => Awaits(Top, asked)

\* TypeAssumption, for one type.
LEMMA TypeFacts ==
  ASSUME NEW t \in Types
  PROVE /\ Parts[t] \in Seq(Types) /\ None \notin Types
        /\ Mangled[t] # Unmangled => Mangled[t] \in Names
        /\ Kind[t] = "struct" => Mangled[t] # Unmangled
BY TypeAssumption DEF Names

LEMMA InitIInv == Init => IInv
BY DEF Init, IInv, TypeInv, FrameTypes, FramesOK, Nested, DescsOK, OpenOf, MapOK, HandedOK

LEMMA AskStep == ASSUME IInv, NEW t \in Types, ReflectTypeOf(t) PROVE IInv'
BY TypeFacts DEF IInv, ReflectTypeOf, TypeInv, MapOK, HandedOK, NameOf, Names, Top

LEMMA AskPartStep == ASSUME IInv, AskPart PROVE IInv'
<1>1. UNCHANGED <<reflectTypes, descs, stack, handed, broken>> /\ stack # <<>>
  BY DEF AskPart
<1>2. Len(stack) \in DOMAIN stack /\ Top \in Frame
  BY <1>1 DEF IInv, TypeInv, Top
<1>3. asked' \in Types /\ Awaits(Top, asked')
  <2>1. Parts[Top.ty] \in Seq(Types) /\ Len(Top.parts) \in Nat /\ Len(Top.parts) < Len(Parts[Top.ty])
    BY <1>2, TypeFacts DEF Frame, AskPart
  <2>2. asked' = Parts[Top.ty][Len(Top.parts) + 1]
    BY DEF AskPart
  <2> QED
    BY <2>1, <2>2 DEF Awaits
<1> QED
  BY <1>1, <1>3 DEF IInv, TypeInv, MapOK, HandedOK, NameOf, Names, Top

\* Filling in a part leaves the type of every descriptor.
LEMMA NamedStays ==
  ASSUME NEW ds, NEW es, DOMAIN ds = DOMAIN es, \A x \in DOMAIN ds : es[x].ty = ds[x].ty,
         NEW d, NEW t
  PROVE Named(d, t, ds) <=> Named(d, t, es)
BY DEF Named

\* Append, element by element.
LEMMA AppendFacts ==
  ASSUME NEW S, NEW s \in Seq(S), NEW d \in S
  PROVE LET q == Append(s, d)
            m == Len(s) + 1
        IN  /\ q \in Seq(S) /\ DOMAIN q = 1 .. m /\ q[m] = d /\ Len(q) = m
            /\ \A k \in DOMAIN s : q[k] = s[k] /\ k # m
            /\ \A k \in DOMAIN q : k = m \/ k \in DOMAIN s
OBVIOUS

\* The descriptor of t reaches the caller that awaits it, and what is said of stack and
\* descriptors holds again.
LEMMA ReturnStep ==
  ASSUME NEW t \in Types, NEW d, NEW callers \in Seq(Frame), NEW ds \in Seq(Desc), NEW open,
         FrameTypes(callers), FramesOK(callers, ds), Nested(callers),
         DescsOK(ds, open \cup OpenOf(callers)), Named(d, t, ds),
         callers # <<>> => Awaits(callers[Len(callers)], t),
         Return(t, d, callers, ds)
  PROVE /\ descs' \in Seq(Desc) /\ stack' \in Seq(Frame)
        /\ FrameTypes(stack') /\ FramesOK(stack', descs') /\ Nested(stack')
        /\ DescsOK(descs', open \cup OpenOf(stack'))
        /\ DOMAIN descs' = DOMAIN ds /\ \A x \in DOMAIN ds : descs'[x].ty = ds[x].ty
        /\ DOMAIN stack' = DOMAIN callers
        /\ \A j \in DOMAIN callers : stack'[j].ty = callers[j].ty /\ stack'[j].desc = callers[j].desc
        /\ handed' = IF callers = <<>> THEN handed \cup {<<t, d>>} ELSE handed
<1>1. CASE callers = <<>>
  BY <1>1 DEF Return
<1>2. CASE callers # <<>>
  <2> DEFINE n == Len(callers)
             f == callers[n]
             m == Len(f.parts) + 1
             g == [f EXCEPT !.parts = Append(f.parts, d)]
  <2>1. n \in Nat /\ n \in DOMAIN callers /\ DOMAIN callers = 1 .. n /\ f \in Frame
    BY <1>2
  <2>2. stack' = [callers EXCEPT ![n] = g] /\ handed' = handed
    BY <1>2 DEF Return
  <2>3. descs' = IF f.desc = 0 THEN ds ELSE [ds EXCEPT ![f.desc].parts[m] = d]
    BY <1>2 DEF Return
  <2>4. d \in Nat \ {0} /\ d \in DOMAIN ds /\ Mangled[ds[d].ty] = Mangled[t]
    BY DEF Named
  <2>5. /\ f.ty \in Types /\ f.desc \in Nat /\ f.parts \in Seq(Nat) /\ Parts[f.ty] \in Seq(Types)
        /\ Mangled[f.ty] # Unmangled
        /\ (f.desc # 0) <=> (Kind[f.ty] = "struct")
    BY <2>1, TypeFacts DEF Frame, FrameTypes
  <2>6. m \in DOMAIN Parts[f.ty] /\ t = Parts[f.ty][m] /\ m <= Len(Parts[f.ty])
    BY <1>2, <2>5 DEF Awaits
  <2>7. /\ g \in Frame /\ g.ty = f.ty /\ g.desc = f.desc
        /\ DOMAIN g.parts = 1 .. m /\ g.parts[m] = d /\ Len(g.parts) = m
        /\ \A k \in DOMAIN f.parts : g.parts[k] = f.parts[k] /\ k # m
        /\ \A k \in DOMAIN g.parts : k = m \/ k \in DOMAIN f.parts
    <3> DEFINE q == Append(f.parts, d)
    <3>1. /\ q \in Seq(Nat) /\ DOMAIN q = 1 .. m /\ q[m] = d /\ Len(q) = m
          /\ \A k \in DOMAIN f.parts : q[k] = f.parts[k] /\ k # m
          /\ \A k \in DOMAIN q : k = m \/ k \in DOMAIN f.parts
      <4> HIDE DEF f
      <4>1. f.parts \in Seq(Nat) /\ d \in Nat
        BY <2>4, <2>5
      <4> QED
        BY ONLY <4>1, AppendFacts DEF q, m
    <3> HIDE DEF q
    <3>2. g \in Frame /\ g.ty = f.ty /\ g.desc = f.desc /\ g.parts = q
      BY <2>1, <3>1 DEF Frame, q
    <3> QED
      BY <3>1, <3>2
  <2> HIDE DEF g, f, n, m
  <2>8. /\ stack' \in Seq(Frame) /\ DOMAIN stack' = DOMAIN callers /\ stack'[n] = g
        /\ \A j \in DOMAIN callers : j # n => stack'[j] = callers[j]
        /\ Len(stack') = n
    BY <2>1, <2>2, <2>7 DEF n
  <2>9. /\ descs' \in Seq(Desc) /\ DOMAIN descs' = DOMAIN ds
        /\ \A x \in DOMAIN ds : descs'[x].ty = ds[x].ty
        /\ \A x \in DOMAIN ds : x # f.desc => descs'[x] = ds[x]
        /\ f.desc # 0 => /\ DOMAIN descs'[f.desc].parts = DOMAIN ds[f.desc].parts
                         /\ descs'[f.desc].parts[m] = d
                         /\ \A k \in DOMAIN ds[f.desc].parts : k # m =>
                              descs'[f.desc].parts[k] = ds[f.desc].parts[k]
    <3>1. CASE f.desc = 0
      BY <2>3, <3>1
    <3>2. CASE f.desc # 0
      <4>1. f.desc \in DOMAIN ds /\ ds[f.desc].ty = f.ty
        BY <2>1, <3>2 DEF FramesOK, f
      <4>2. DOMAIN ds[f.desc].parts = DOMAIN Parts[f.ty] /\ ds[f.desc] \in Desc
        BY <4>1 DEF DescsOK
      <4> DEFINE q == [ds[f.desc].parts EXCEPT ![m] = d]
                 e == [ds[f.desc] EXCEPT !.parts = q]
      <4>3. ds[f.desc].parts \in Seq(Nat) /\ m \in DOMAIN ds[f.desc].parts
        BY <4>2, <2>6 DEF Desc
      <4>4. /\ q \in Seq(Nat) /\ DOMAIN q = DOMAIN ds[f.desc].parts /\ q[m] = d
            /\ \A k \in DOMAIN q : k # m => q[k] = ds[f.desc].parts[k]
        BY <4>3, <2>4, SMTT(30)
      <4>5. e \in Desc /\ e.ty = ds[f.desc].ty /\ e.parts = q
        BY <4>2, <4>4 DEF Desc
      <4>6. descs' = [ds EXCEPT ![f.desc] = e]
        BY <2>3, <3>2
      <4> HIDE DEF q, e
      <4> QED
        BY <4>1, <4>4, <4>5, <4>6, SMTT(30)
    <3> QED
      BY <3>1, <3>2
  <2>10. \A j \in DOMAIN callers : stack'[j].ty = callers[j].ty /\ stack'[j].desc = callers[j].desc
    BY <2>7, <2>8 DEF f
  <2>11. FrameTypes(stack')
    <3>1. ASSUME NEW j \in DOMAIN callers
          PROVE  /\ Mangled[stack'[j].ty] # Unmangled
                 /\ Len(stack'[j].parts) <= Len(Parts[stack'[j].ty])
                 /\ (stack'[j].desc # 0) <=> (Kind[stack'[j].ty] = "struct")
      <4>1. CASE j = n
        BY <4>1, <2>5, <2>6, <2>7, <2>8
      <4>2. CASE j # n
        BY <4>2, <2>8 DEF FrameTypes
      <4> QED
        BY <4>1, <4>2
    <3> QED
      BY ONLY <3>1, <2>8 DEF FrameTypes
  <2>12. Nested(stack')
    <3>1. \A j \in 1 .. Len(stack') - 1 : Awaits(stack'[j], stack'[j + 1].ty)
      BY <2>1, <2>8, <2>10 DEF Nested, n
    <3>2. \A j, q \in DOMAIN stack' : stack'[j].desc = stack'[q].desc /\ stack'[j].desc # 0 => j = q
      BY <2>8, <2>10 DEF Nested
    <3>3. \A j, q \in DOMAIN stack' :
            j < q /\ stack'[j].desc # 0 /\ stack'[q].desc = 0
              => Mangled[stack'[j].ty] # Mangled[stack'[q].ty]
      <4> SUFFICES ASSUME NEW j \in DOMAIN callers, NEW q \in DOMAIN callers, j < q,
                          stack'[j].desc # 0, stack'[q].desc = 0
            PROVE Mangled[stack'[j].ty] # Mangled[stack'[q].ty]
        BY <2>8
      <4>1. Mangled[callers[j].ty] # Mangled[callers[q].ty]
        BY <2>10 DEF Nested
      <4> QED
        BY <4>1, <2>10
    <3> QED
      BY ONLY <3>1, <3>2, <3>3 DEF Nested
  <2>13. FramesOK(stack', descs')
    <3> SUFFICES ASSUME NEW j \in DOMAIN callers
          PROVE /\ \A k \in DOMAIN stack'[j].parts :
                     Named(stack'[j].parts[k], Parts[stack'[j].ty][k], descs')
                /\ stack'[j].desc # 0 =>
                     /\ stack'[j].desc \in DOMAIN descs' /\ descs'[stack'[j].desc].ty = stack'[j].ty
                     /\ \A k \in DOMAIN stack'[j].parts :
                          descs'[stack'[j].desc].parts[k] = stack'[j].parts[k]
      BY <2>8 DEF FramesOK
    <3>1. CASE j = n
      <4>1. \A k \in DOMAIN f.parts : Named(f.parts[k], Parts[f.ty][k], descs')
        BY <2>1, <2>9, NamedStays DEF FramesOK, f
      <4>2. Named(d, Parts[f.ty][m], descs')
        BY <2>6, <2>9, NamedStays
      <4>3. ASSUME f.desc # 0
            PROVE /\ f.desc \in DOMAIN descs' /\ descs'[f.desc].ty = f.ty
                  /\ \A k \in DOMAIN g.parts : descs'[f.desc].parts[k] = g.parts[k]
        <5>1. f.desc \in DOMAIN ds /\ ds[f.desc].ty = f.ty
              /\ \A k \in DOMAIN f.parts : ds[f.desc].parts[k] = f.parts[k]
          BY <2>1, <4>3 DEF FramesOK, f
        <5>2. DOMAIN ds[f.desc].parts = DOMAIN Parts[f.ty]
          BY <5>1 DEF DescsOK
        <5>3. \A k \in DOMAIN f.parts : k \in DOMAIN Parts[f.ty]
          BY <2>5, <2>6, SMTT(30) DEF m
        <5> QED
          BY <4>3, <5>1, <5>2, <5>3, <2>7, <2>9
      <4> QED
        BY <3>1, <4>1, <4>2, <4>3, <2>7, <2>8, ZenonT(40)
    <3>2. CASE j # n
      <4>1. stack'[j] = callers[j]
        BY <3>2, <2>8
      <4>2. callers[j].desc # 0 => callers[j].desc # f.desc
        BY <3>2, <2>1 DEF Nested, f
      <4>3. \A k \in DOMAIN callers[j].parts : Named(callers[j].parts[k], Parts[callers[j].ty][k], descs')
        BY <2>9, NamedStays DEF FramesOK
      <4> QED
        BY <4>1, <4>2, <4>3, <2>9 DEF FramesOK
    <3> QED
      BY <3>1, <3>2
  <2>14. OpenOf(stack') = OpenOf(callers)
    BY <2>8, <2>10 DEF OpenOf
  <2>15. DescsOK(descs', open \cup OpenOf(callers))
    <3> SUFFICES ASSUME NEW x \in DOMAIN ds
          PROVE /\ DOMAIN descs'[x].parts = DOMAIN Parts[ds[x].ty]
                /\ \A k \in DOMAIN Parts[ds[x].ty] :
                     IF descs'[x].parts[k] # 0
                     THEN Named(descs'[x].parts[k], Parts[ds[x].ty][k], descs')
                     ELSE x \in open \cup OpenOf(callers)
      BY <2>9 DEF DescsOK
    <3>1. /\ DOMAIN ds[x].parts = DOMAIN Parts[ds[x].ty]
          /\ \A k \in DOMAIN Parts[ds[x].ty] :
               IF ds[x].parts[k] # 0 THEN Named(ds[x].parts[k], Parts[ds[x].ty][k], descs')
               ELSE x \in open \cup OpenOf(callers)
      BY <2>9, NamedStays DEF DescsOK
    <3>2. CASE x # f.desc
      BY <3>1, <3>2, <2>9
    <3>3. CASE x = f.desc
      <4>1. f.desc # 0 /\ ds[x].ty = f.ty
        BY <3>3, <2>1 DEF FramesOK, f
      <4>2. Named(d, Parts[f.ty][m], descs')
        BY <2>6, <2>9, NamedStays
      <4> QED
        BY <3>1, <3>3, <4>1, <4>2, <2>4, <2>9
    <3> QED
      BY <3>2, <3>3
  <2> QED
    BY <1>2, <2>2, <2>8, <2>9, <2>10, <2>11, <2>12, <2>13, <2>14, <2>15
<1> QED
  BY <1>1, <1>2

-------------------------------------------------------------------------------
(***************************************************************************)
(* One lemma per action.                                                   *)
(***************************************************************************)
\* A new descriptor leaves the names of the others.
LEMMA NewDesc ==
  ASSUME NEW ds \in Seq(Desc), NEW x \in Desc
  PROVE LET es == Append(ds, x)
            n == Len(ds) + 1
        IN  /\ es \in Seq(Desc) /\ n \in DOMAIN es /\ n \notin DOMAIN ds /\ es[n] = x
            /\ DOMAIN es = DOMAIN ds \cup {n} /\ \A y \in DOMAIN ds : es[y] = ds[y]
            /\ \A d, t : Named(d, t, ds) => Named(d, t, es)
<1> DEFINE es == Append(ds, x)
           n == Len(ds) + 1
<1>1. /\ es \in Seq(Desc) /\ n \in DOMAIN es /\ n \notin DOMAIN ds /\ es[n] = x
      /\ DOMAIN es = DOMAIN ds \cup {n} /\ \A y \in DOMAIN ds : es[y] = ds[y]
  OBVIOUS
<1> HIDE DEF es, n
<1>2. \A d, t : Named(d, t, ds) => Named(d, t, es)
  BY <1>1 DEF Named
<1> QED
  BY <1>1, <1>2 DEF es, n

\* The callers are the frames before the last.
LEMMA Front ==
  ASSUME stack \in Seq(Frame), stack # <<>>
  PROVE /\ Callers \in Seq(Frame) /\ Len(Callers) = Len(stack) - 1
        /\ DOMAIN Callers = 1 .. Len(stack) - 1 /\ DOMAIN stack = 1 .. Len(stack)
        /\ \A j \in DOMAIN Callers : Callers[j] = stack[j]
        /\ Len(stack) \in Nat \ {0} /\ Top \in Frame /\ Top = stack[Len(stack)]
        /\ \A j \in DOMAIN stack : j = Len(stack) \/ j \in DOMAIN Callers
BY SMTT(30) DEF Callers, Top

\* Every frame is of a type that has a name, every descriptor in one a number.
LEMMA FrameFacts ==
  ASSUME IInv, NEW j \in DOMAIN stack
  PROVE /\ stack[j] \in Frame /\ stack[j].desc \in Nat /\ stack[j].parts \in Seq(Nat)
        /\ stack[j].ty \in Types /\ Parts[stack[j].ty] \in Seq(Types)
        /\ Mangled[stack[j].ty] # Unmangled /\ Mangled[stack[j].ty] \in Names
<1>1. stack[j] \in Frame
  BY DEF IInv, TypeInv
<1>2. stack[j].desc \in Nat /\ stack[j].parts \in Seq(Nat) /\ stack[j].ty \in Types
  BY <1>1 DEF Frame
<1>3. Mangled[stack[j].ty] # Unmangled
  BY DEF IInv, FrameTypes
<1> QED
  BY <1>1, <1>2, <1>3, TypeFacts

LEMMA AbortStep == ASSUME IInv, Abort PROVE IInv'
<1>1. /\ asked' = None /\ stack' = <<>> /\ UNCHANGED <<reflectTypes, descs, handed>>
      /\ broken' = broken \cup (OpenOf(stack) \ {0})
  BY DEF Abort, OpenOf
<1>2. OpenOf(stack) \subseteq Nat
  BY FrameFacts DEF OpenOf
<1>3. TypeInv'
  <2>1. broken' \in SUBSET Nat
    BY <1>1, <1>2 DEF IInv, TypeInv
  <2> QED
    BY <2>1, <1>1 DEF IInv, TypeInv
<1>4. DescsOK(descs, broken')
  <2>1. \A d \in DOMAIN descs : d # 0
    BY DEF IInv, TypeInv
  <2> QED
    BY <2>1, <1>1 DEF IInv, DescsOK
<1> QED
  BY <1>1, <1>3, <1>4 DEF IInv, FrameTypes, FramesOK, Nested, DescsOK, OpenOf, MapOK, HandedOK,
                         NameOf, Names

LEMMA KnownStep == ASSUME IInv, Known PROVE IInv'
<1> DEFINE t == asked
           d == reflectTypes[Mangled[asked]]
<1>1. /\ t \in Types /\ Mangled[t] \in Names /\ Mangled[t] # Unmangled /\ d # 0
      /\ d \in DOMAIN descs /\ Mangled[descs[d].ty] = Mangled[t]
      /\ asked' = None /\ reflectTypes' = reflectTypes /\ broken' = broken
      /\ Return(t, d, stack, descs)
  BY TypeFacts DEF Known, IInv, TypeInv, MapOK, NameOf
<1>2. d \in Nat
  BY <1>1 DEF IInv, TypeInv
<1> HIDE DEF t, d
<1>3. /\ descs' \in Seq(Desc) /\ stack' \in Seq(Frame)
      /\ FrameTypes(stack') /\ FramesOK(stack', descs') /\ Nested(stack')
      /\ DescsOK(descs', broken \cup OpenOf(stack'))
      /\ DOMAIN descs' = DOMAIN descs /\ \A x \in DOMAIN descs : descs'[x].ty = descs[x].ty
      /\ DOMAIN stack' = DOMAIN stack
      /\ \A j \in DOMAIN stack : stack'[j].ty = stack[j].ty /\ stack'[j].desc = stack[j].desc
      /\ handed' = IF stack = <<>> THEN handed \cup {<<t, d>>} ELSE handed
  <2>1. stack # <<>> => Awaits(stack[Len(stack)], t)
    BY <1>1, TypeFacts DEF IInv, Top, t
  <2> QED
    BY <1>1, <2>1, ReturnStep DEF IInv, TypeInv, Named
<1>4. TypeInv'
  BY <1>1, <1>2, <1>3 DEF IInv, TypeInv, Names
<1>5. HandedOK'
  BY <1>1, <1>3 DEF IInv, HandedOK, Names, d, t
<1>6. MapOK'
  BY <1>1, <1>3 DEF IInv, MapOK, NameOf, Names
<1> QED
  BY <1>1, <1>3, <1>4, <1>5, <1>6 DEF IInv

\* One more call.
LEMMA PushNested ==
  ASSUME NEW f \in Frame, stack \in Seq(Frame), Nested(stack),
         stack # <<>> => Awaits(Top, f.ty),
         f.desc # 0 => \A j \in DOMAIN stack : stack[j].desc # f.desc,
         f.desc = 0 => \A j \in DOMAIN stack : stack[j].desc # 0 => Mangled[stack[j].ty] # Mangled[f.ty]
  PROVE Nested(Append(stack, f))
<1> DEFINE st == Append(stack, f)
           m == Len(stack) + 1
<1>1. /\ DOMAIN st = 1 .. m /\ st[m] = f /\ Len(st) = m
      /\ DOMAIN stack = 1 .. m - 1 /\ m \in Nat \ {0} /\ Len(stack) = m - 1
      /\ \A j \in DOMAIN stack : st[j] = stack[j]
  OBVIOUS
<1> HIDE DEF st, m
<1>2. ASSUME NEW j \in 1 .. m - 1 PROVE Awaits(st[j], st[j + 1].ty)
  <2>1. CASE j = m - 1
    <3>1. stack # <<>> /\ j \in DOMAIN stack /\ j + 1 = m
      BY <2>1, <1>1
    <3> QED
      BY <2>1, <3>1, <1>1 DEF Top
  <2>2. CASE j < m - 1
    <3>1. j \in DOMAIN stack /\ j + 1 \in DOMAIN stack /\ j \in 1 .. Len(stack) - 1
      BY <2>2, <1>1
    <3> QED
      BY <3>1, <1>1 DEF Nested
  <2> QED
    BY <2>1, <2>2, <1>1
<1>3. \A j \in 1 .. m : (j = m /\ st[j] = f) \/ (j \in DOMAIN stack /\ st[j] = stack[j] /\ j < m)
  BY <1>1
<1>4. /\ \A j, k \in DOMAIN stack : stack[j].desc = stack[k].desc /\ stack[j].desc # 0 => j = k
      /\ \A j, k \in DOMAIN stack :
           j < k /\ stack[j].desc # 0 /\ stack[k].desc = 0 => Mangled[stack[j].ty] # Mangled[stack[k].ty]
  BY DEF Nested
<1>5. ASSUME NEW j \in 1 .. m, NEW k \in 1 .. m, st[j].desc = st[k].desc, st[j].desc # 0
      PROVE j = k
  BY <1>3, <1>4, <1>5
<1>6. ASSUME NEW j \in 1 .. m, NEW k \in 1 .. m, j < k, st[j].desc # 0, st[k].desc = 0
      PROVE Mangled[st[j].ty] # Mangled[st[k].ty]
  <2>1. j \in DOMAIN stack /\ st[j] = stack[j]
    BY <1>1, <1>3, <1>6
  <2>2. CASE k = m
    BY <2>1, <2>2, <1>1, <1>6
  <2>3. CASE k # m
    BY <2>1, <2>3, <1>3, <1>4, <1>6
  <2> QED
    BY <2>2, <2>3
<1>7. Nested(st)
  BY <1>1, <1>2, <1>5, <1>6 DEF Nested
<1> QED
  BY <1>7 DEF st

LEMMA BeginStructStep == ASSUME IInv, BeginStruct PROVE IInv'
<1> DEFINE t == asked
           n == Len(descs) + 1
           x == [ty |-> t, parts |-> Nulls(t)]
           f == [ty |-> t, desc |-> n, parts |-> <<>>]
<1>1. /\ t \in Types /\ Mangled[t] \in Names /\ Mangled[t] # Unmangled /\ Kind[t] = "struct"
      /\ reflectTypes[Mangled[t]] = 0
      /\ asked' = None /\ broken' = broken /\ handed' = handed
      /\ descs' = Append(descs, x) /\ stack' = Append(stack, f)
      /\ reflectTypes' = [reflectTypes EXCEPT ![Mangled[t]] = n]
  BY TypeFacts DEF BeginStruct, Absent, IInv, TypeInv
<1>2. /\ Parts[t] \in Seq(Types) /\ x \in Desc /\ DOMAIN x.parts = DOMAIN Parts[t]
      /\ \A k \in DOMAIN x.parts : x.parts[k] = 0
  <2>1. Parts[t] \in Seq(Types)
    BY <1>1, TypeFacts
  <2>2. Nulls(t) \in Seq(Nat)
    BY <2>1 DEF Nulls
  <2> QED
    BY <1>1, <2>1, <2>2 DEF Desc, Nulls
<1>3. /\ descs \in Seq(Desc) /\ stack \in Seq(Frame) /\ n \in Nat \ {0} /\ f \in Frame
  BY <1>1 DEF IInv, TypeInv, Frame
<1>4. /\ descs' \in Seq(Desc) /\ n \in DOMAIN descs' /\ n \notin DOMAIN descs /\ descs'[n] = x
      /\ DOMAIN descs' = DOMAIN descs \cup {n} /\ \A y \in DOMAIN descs : descs'[y] = descs[y]
      /\ \A d, u : Named(d, u, descs) => Named(d, u, descs')
  BY <1>1, <1>2, <1>3, NewDesc
<1> DEFINE m == Len(stack) + 1
<1>5. /\ stack' \in Seq(Frame) /\ DOMAIN stack' = 1 .. m /\ stack'[m] = f /\ Len(stack') = m
      /\ DOMAIN stack = 1 .. m - 1 /\ m \in Nat \ {0}
      /\ \A j \in DOMAIN stack : stack'[j] = stack[j] /\ j # m
      /\ \A j \in DOMAIN stack' : j = m \/ j \in DOMAIN stack
  BY <1>1, <1>3
<1>6. f.ty = t /\ f.desc = n /\ f.parts = <<>> /\ x.ty = t
  OBVIOUS
<1> HIDE DEF t, n, x, f
<1> HIDE DEF m
<1>7. TypeInv'
  BY <1>1, <1>3, <1>4, <1>5 DEF IInv, TypeInv, Names
<1>8. FrameTypes(stack')
  <2>1. Len(<<>>) = 0 /\ Len(Parts[t]) \in Nat
    BY <1>2
  <2> QED
    BY <2>1, <1>1, <1>3, <1>5, <1>6 DEF IInv, FrameTypes
<1>9. \A j \in DOMAIN stack : stack[j].desc # n
  BY <1>3, <1>4 DEF IInv, FramesOK
<1>10. FramesOK(stack', descs')
  BY <1>4, <1>5, <1>6 DEF IInv, FramesOK
<1>11. \A j \in DOMAIN stack : stack[j].desc # 0 => Mangled[stack[j].ty] # Mangled[t]
  BY <1>1 DEF IInv, MapOK
<1>12. Nested(stack')
  <2>1. stack # <<>> => Awaits(Top, f.ty)
    BY <1>1, <1>6, TypeFacts DEF IInv, t
  <2> QED
    BY <2>1, <1>1, <1>3, <1>6, <1>9, PushNested DEF IInv
<1>13. DescsOK(descs', broken' \cup OpenOf(stack'))
  <2>1. n \in OpenOf(stack') /\ OpenOf(stack) \subseteq OpenOf(stack')
    <3>1. m \in DOMAIN stack' /\ stack'[m].desc = n
      BY <1>5, <1>6
    <3>2. \A j \in DOMAIN stack : j \in DOMAIN stack' /\ stack'[j].desc = stack[j].desc
      BY <1>5
    <3> QED
      BY ONLY <3>1, <3>2 DEF OpenOf
  <2> QED
    BY <2>1, <1>1, <1>2, <1>4, <1>6 DEF IInv, DescsOK
<1>14. HandedOK'
  BY <1>1 DEF IInv, HandedOK, TypeInv, Names
<1>15. MapOK'
  <2>1. \A a \in Names : reflectTypes'[a] = IF a = Mangled[t] THEN n ELSE reflectTypes[a]
    BY <1>1 DEF IInv, TypeInv
  <2>2. ASSUME NEW a \in Names, reflectTypes'[a] # 0
        PROVE reflectTypes'[a] \in DOMAIN descs' /\ Mangled[descs'[reflectTypes'[a]].ty] = a
    BY <2>1, <2>2, <1>4, <1>6 DEF IInv, MapOK, NameOf
  <2>3. ASSUME NEW j \in DOMAIN stack'
        PROVE IF stack'[j].desc # 0 THEN reflectTypes'[Mangled[stack'[j].ty]] = stack'[j].desc
              ELSE \A h \in handed' : Mangled[h[1]] # Mangled[stack'[j].ty]
    <3>1. CASE j = m
      BY <3>1, <2>1, <1>1, <1>3, <1>5, <1>6
    <3>2. CASE j # m
      <4>1. j \in DOMAIN stack /\ stack'[j] = stack[j]
        BY <3>2, <1>5
      <4>2. Mangled[stack[j].ty] \in Names
        BY <4>1, FrameFacts
      <4> QED
        BY <4>1, <4>2, <2>1, <1>1, <1>11 DEF IInv, MapOK
    <3> QED
      BY <3>1, <3>2
  <2> QED
    BY <2>2, <2>3 DEF MapOK, NameOf, Names
<1> QED
  BY <1>1, <1>7, <1>8, <1>10, <1>12, <1>13, <1>14, <1>15 DEF IInv

LEMMA BeginOtherStep == ASSUME IInv, BeginOther PROVE IInv'
<1> DEFINE t == asked
           f == [ty |-> t, desc |-> 0, parts |-> <<>>]
           m == Len(stack) + 1
<1>1. /\ t \in Types /\ Mangled[t] \in Names /\ Mangled[t] # Unmangled /\ Kind[t] # "struct"
      /\ reflectTypes[Mangled[t]] = 0
      /\ asked' = None /\ UNCHANGED <<reflectTypes, descs, handed, broken>>
      /\ stack' = Append(stack, f)
  BY TypeFacts DEF BeginOther, Absent, IInv, TypeInv
<1>2. Parts[t] \in Seq(Types)
  BY <1>1, TypeFacts
<1>3. stack \in Seq(Frame) /\ f \in Frame
  BY <1>1 DEF IInv, TypeInv, Frame
<1>4. /\ stack' \in Seq(Frame) /\ DOMAIN stack' = 1 .. m /\ stack'[m] = f /\ Len(stack') = m
      /\ m \in Nat \ {0}
      /\ \A j \in DOMAIN stack : stack'[j] = stack[j] /\ j \in DOMAIN stack'
      /\ \A j \in DOMAIN stack' : j = m \/ j \in DOMAIN stack
  BY <1>1, <1>3
<1>5. f.ty = t /\ f.desc = 0 /\ f.parts = <<>>
  OBVIOUS
<1> HIDE DEF t, f
<1> HIDE DEF m
<1>6. TypeInv'
  BY <1>1, <1>4 DEF IInv, TypeInv
<1>7. FrameTypes(stack')
  <2>1. Len(<<>>) = 0 /\ Len(Parts[t]) \in Nat
    BY <1>2
  <2> QED
    BY <2>1, <1>1, <1>4, <1>5 DEF IInv, FrameTypes
<1>8. FramesOK(stack', descs')
  BY <1>1, <1>4, <1>5 DEF IInv, FramesOK
<1>9. \A j \in DOMAIN stack : stack[j].desc # 0 => Mangled[stack[j].ty] # Mangled[t]
  BY <1>1 DEF IInv, MapOK
<1>10. Nested(stack')
  <2>1. stack # <<>> => Awaits(Top, f.ty)
    BY <1>1, <1>5, TypeFacts DEF IInv, t
  <2> QED
    BY <2>1, <1>1, <1>3, <1>5, <1>9, PushNested DEF IInv
<1>11. DescsOK(descs', broken' \cup OpenOf(stack'))
  <2>1. OpenOf(stack) \subseteq OpenOf(stack')
    BY <1>4 DEF OpenOf
  <2> QED
    BY <2>1, <1>1 DEF IInv, DescsOK
<1>12. HandedOK'
  BY <1>1 DEF IInv, HandedOK
<1>13. MapOK'
  <2>1. \A h \in handed : Mangled[h[1]] # Mangled[t]
    BY <1>1 DEF IInv, HandedOK
  <2>2. ASSUME NEW j \in DOMAIN stack'
        PROVE IF stack'[j].desc # 0 THEN reflectTypes'[Mangled[stack'[j].ty]] = stack'[j].desc
              ELSE \A h \in handed' : Mangled[h[1]] # Mangled[stack'[j].ty]
    BY <2>1, <1>1, <1>4, <1>5 DEF IInv, MapOK
  <2> QED
    BY <2>2, <1>1 DEF IInv, MapOK, NameOf
<1> QED
  BY <1>1, <1>6, <1>7, <1>8, <1>10, <1>11, <1>12, <1>13 DEF IInv

\* Without its last frame the stack is as it was.
LEMMA PopFrames ==
  ASSUME IInv, stack # <<>>
  PROVE /\ FrameTypes(Callers) /\ FramesOK(Callers, descs) /\ Nested(Callers)
        /\ Callers # <<>> => Awaits(Callers[Len(Callers)], Top.ty)
        /\ OpenOf(stack) = OpenOf(Callers) \cup {Top.desc}
<1>1. stack \in Seq(Frame)
  BY DEF IInv, TypeInv
<1>2. /\ Callers \in Seq(Frame) /\ Len(Callers) = Len(stack) - 1
      /\ DOMAIN Callers = 1 .. Len(stack) - 1 /\ DOMAIN stack = 1 .. Len(stack)
      /\ \A j \in DOMAIN Callers : Callers[j] = stack[j]
      /\ Len(stack) \in Nat \ {0} /\ Top = stack[Len(stack)]
      /\ \A j \in DOMAIN stack : j = Len(stack) \/ j \in DOMAIN Callers
  BY <1>1, Front
<1>3. \A j \in DOMAIN Callers : j \in DOMAIN stack
  BY <1>2
<1>4. FrameTypes(Callers) /\ FramesOK(Callers, descs)
  BY <1>2, <1>3, SMTT(30) DEF IInv, FrameTypes, FramesOK
<1>5. Nested(Callers)
  <2>1. \A j \in 1 .. Len(Callers) - 1 : Awaits(Callers[j], Callers[j + 1].ty)
    BY <1>2 DEF IInv, Nested
  <2> QED
    BY <2>1, <1>2, <1>3 DEF IInv, Nested
<1>6. Callers # <<>> => Awaits(Callers[Len(Callers)], Top.ty)
  <2> SUFFICES ASSUME Callers # <<>> PROVE Awaits(Callers[Len(Callers)], Top.ty)
    OBVIOUS
  <2> DEFINE n == Len(Callers)
  <2>1. n \in DOMAIN Callers /\ n \in 1 .. Len(stack) - 1 /\ n + 1 = Len(stack)
    BY <1>2
  <2> HIDE DEF n
  <2>2. Awaits(stack[n], stack[n + 1].ty)
    BY <2>1 DEF IInv, Nested
  <2> QED
    BY <2>1, <2>2, <1>2 DEF n
<1>7. OpenOf(stack) = OpenOf(Callers) \cup {Top.desc}
  <2>1. Len(stack) \in DOMAIN stack
    BY <1>2
  <2> QED
    BY <2>1, <1>2, <1>3 DEF OpenOf
<1> QED
  BY <1>4, <1>5, <1>6, <1>7

\* What is said of the map and of handed once a frame is gone and what it returned is
\* passed on; reflectTypes may have got entry d for t.
LEMMA PassedOn ==
  ASSUME IInv, stack # <<>>,
         NEW d \in Nat \ {0},
         reflectTypes' = [reflectTypes EXCEPT ![Mangled[Top.ty]] = d],
         DOMAIN descs \subseteq DOMAIN descs', d \in DOMAIN descs',
         \A x \in DOMAIN descs : descs'[x].ty = descs[x].ty,
         Mangled[descs'[d].ty] = Mangled[Top.ty],
         DOMAIN stack' = DOMAIN Callers,
         \A j \in DOMAIN Callers : stack'[j].ty = Callers[j].ty /\ stack'[j].desc = Callers[j].desc,
         handed' = IF Callers = <<>> THEN handed \cup {<<Top.ty, d>>} ELSE handed,
         \/ d = Top.desc
         \/ Top.desc = 0
  PROVE MapOK' /\ HandedOK'
<1> DEFINE t == Top.ty
           name == Mangled[t]
<1>1. /\ DOMAIN Callers = 1 .. Len(stack) - 1 /\ DOMAIN stack = 1 .. Len(stack)
      /\ \A j \in DOMAIN Callers : Callers[j] = stack[j]
      /\ Len(stack) \in Nat \ {0} /\ Len(stack) \in DOMAIN stack /\ Top = stack[Len(stack)]
      /\ Callers \in Seq(Frame)
  BY Front DEF IInv, TypeInv
<1>2. t \in Types /\ name # Unmangled /\ name \in Names
  BY <1>1, FrameFacts
<1>3. \A a \in Names : reflectTypes'[a] = IF a = name THEN d ELSE reflectTypes[a]
  BY <1>2 DEF IInv, TypeInv
<1>4. Top.desc # 0 => reflectTypes[name] = Top.desc
  BY <1>1 DEF IInv, MapOK
<1>5. Top.desc = 0 => \A h \in handed : Mangled[h[1]] # name
  BY <1>1 DEF IInv, MapOK
<1> HIDE DEF t, name
<1>6. ASSUME NEW a \in Names, reflectTypes'[a] # 0
      PROVE reflectTypes'[a] \in DOMAIN descs' /\ Mangled[descs'[reflectTypes'[a]].ty] = a
  <2>1. CASE a = name
    BY <2>1, <1>3 DEF name, t
  <2>2. CASE a # name
    BY <2>2, <1>3, <1>6 DEF IInv, MapOK, NameOf
  <2> QED
    BY <2>1, <2>2
<1>7. ASSUME NEW j \in DOMAIN Callers
      PROVE IF stack'[j].desc # 0 THEN reflectTypes'[Mangled[stack'[j].ty]] = stack'[j].desc
            ELSE \A h \in handed' : Mangled[h[1]] # Mangled[stack'[j].ty]
  <2>1. j \in DOMAIN stack /\ j < Len(stack) /\ Callers # <<>>
        /\ stack'[j].ty = stack[j].ty /\ stack'[j].desc = stack[j].desc
    BY <1>1
  <2>2. Mangled[stack[j].ty] \in Names
    BY <2>1, FrameFacts
  <2>3. CASE stack[j].desc = 0
    BY <2>1, <2>3 DEF IInv, MapOK
  <2>4. CASE stack[j].desc # 0
    <3>1. reflectTypes[Mangled[stack[j].ty]] = stack[j].desc
      BY <2>1, <2>4 DEF IInv, MapOK
    <3>2. ASSUME Mangled[stack[j].ty] = name PROVE stack[j].desc = d
      <4>1. Top.desc # 0
        BY <1>1, <2>1, <2>4, <3>2 DEF IInv, Nested, name, t
      <4> QED
        BY <4>1, <1>4, <3>1, <3>2
    <3> QED
      BY <3>1, <3>2, <2>1, <2>2, <2>4, <1>3
  <2> QED
    BY <2>3, <2>4
<1>8. MapOK'
  BY <1>6, <1>7 DEF MapOK, NameOf
<1>9. HandedOK'
  <2>1. ASSUME NEW h \in handed
        PROVE Mangled[h[1]] \in Names /\ h[2] # 0 /\ reflectTypes'[Mangled[h[1]]] = h[2]
    <3>1. Mangled[h[1]] \in Names /\ h[2] # 0 /\ reflectTypes[Mangled[h[1]]] = h[2]
      BY DEF IInv, HandedOK
    <3> QED
      BY <3>1, <1>3, <1>4, <1>5
  <2>2. Mangled[Top.ty] \in Names /\ d # 0 /\ reflectTypes'[Mangled[Top.ty]] = d
    BY <1>2, <1>3 DEF name, t
  <2> QED
    BY <2>1, <2>2 DEF HandedOK
<1> QED
  BY <1>8, <1>9

LEMMA FinishStructStep == ASSUME IInv, FinishStruct PROVE IInv'
<1> DEFINE t == Top.ty
           d == Top.desc
<1>1. /\ stack # <<>> /\ asked = None /\ asked' = None /\ broken' = broken /\ d # 0
      /\ Len(Top.parts) = Len(Parts[t])
      /\ reflectTypes' = [reflectTypes EXCEPT ![Mangled[t]] = d]
      /\ Return(t, d, Callers, descs)
  BY DEF FinishStruct, Complete
<1>2. /\ Callers \in Seq(Frame) /\ Len(stack) \in DOMAIN stack /\ Top = stack[Len(stack)]
      /\ DOMAIN Callers = 1 .. Len(stack) - 1
  BY <1>1, Front DEF IInv, TypeInv
<1>3. /\ Top \in Frame /\ t \in Types /\ d \in Nat \ {0} /\ Top.parts \in Seq(Nat)
      /\ Parts[t] \in Seq(Types)
  BY <1>1, <1>2, FrameFacts
<1>4. /\ d \in DOMAIN descs /\ descs[d].ty = t
      /\ \A k \in DOMAIN Top.parts : descs[d].parts[k] = Top.parts[k] /\ Top.parts[k] \in DOMAIN descs
  BY <1>1, <1>2 DEF IInv, FramesOK, Named
<1> HIDE DEF t, d
<1>5. DescsOK(descs, broken \cup OpenOf(Callers))
  <2>1. \A k \in DOMAIN Parts[t] : descs[d].parts[k] # 0
    <3>1. DOMAIN Parts[t] = DOMAIN Top.parts
      BY <1>1, <1>3
    <3>2. \A x \in DOMAIN descs : x # 0
      BY DEF IInv, TypeInv
    <3> QED
      BY <3>1, <3>2, <1>4
  <2>2. OpenOf(stack) = OpenOf(Callers) \cup {d}
    BY <1>1, PopFrames DEF d
  <2> QED
    BY <2>1, <2>2, <1>4 DEF IInv, DescsOK
<1>6. /\ descs' \in Seq(Desc) /\ stack' \in Seq(Frame)
      /\ FrameTypes(stack') /\ FramesOK(stack', descs') /\ Nested(stack')
      /\ DescsOK(descs', broken \cup OpenOf(stack'))
      /\ DOMAIN descs' = DOMAIN descs /\ \A x \in DOMAIN descs : descs'[x].ty = descs[x].ty
      /\ DOMAIN stack' = DOMAIN Callers
      /\ \A j \in DOMAIN Callers : stack'[j].ty = Callers[j].ty /\ stack'[j].desc = Callers[j].desc
      /\ handed' = IF Callers = <<>> THEN handed \cup {<<t, d>>} ELSE handed
  <2>1. descs \in Seq(Desc) /\ Named(d, t, descs)
    BY <1>4 DEF IInv, TypeInv, Named
  <2>2. /\ FrameTypes(Callers) /\ FramesOK(Callers, descs) /\ Nested(Callers)
        /\ Callers # <<>> => Awaits(Callers[Len(Callers)], t)
    BY <1>1, PopFrames DEF t
  <2> QED
    <3>1. t \in Types /\ Callers \in Seq(Frame) /\ Return(t, d, Callers, descs)
      BY <1>1, <1>2, <1>3
    <3> QED
      BY ONLY <3>1, <2>1, <2>2, <1>5, ReturnStep
<1>7. MapOK' /\ HandedOK'
  BY <1>1, <1>3, <1>4, <1>6, PassedOn DEF t, d
<1>8. TypeInv'
  <2>1. reflectTypes' \in [Names -> Nat]
    BY <1>1, <1>3 DEF IInv, TypeInv
  <2>2. handed' \in SUBSET (Types \X Nat)
    BY <1>3, <1>6 DEF IInv, TypeInv
  <2> QED
    BY <2>1, <2>2, <1>1, <1>6 DEF IInv, TypeInv
<1> QED
  BY <1>1, <1>6, <1>7, <1>8 DEF IInv

LEMMA FinishOtherStep == ASSUME IInv, FinishOther PROVE IInv'
<1> DEFINE t == Top.ty
           d == Len(descs) + 1
           x == [ty |-> t, parts |-> Top.parts]
           ds == Append(descs, x)
<1>1. /\ stack # <<>> /\ asked = None /\ asked' = None /\ broken' = broken /\ Top.desc = 0
      /\ Len(Top.parts) = Len(Parts[t])
      /\ reflectTypes' = [reflectTypes EXCEPT ![Mangled[t]] = d]
      /\ Return(t, d, Callers, ds)
  BY DEF FinishOther, Complete
<1>2. /\ Callers \in Seq(Frame) /\ Len(stack) \in DOMAIN stack /\ Top = stack[Len(stack)]
      /\ DOMAIN Callers = 1 .. Len(stack) - 1
      /\ \A j \in DOMAIN Callers : Callers[j] = stack[j] /\ j \in DOMAIN stack
  BY <1>1, Front DEF IInv, TypeInv
<1>3. /\ t \in Types /\ Top.parts \in Seq(Nat) /\ Parts[t] \in Seq(Types) /\ x \in Desc
  BY <1>1, <1>2, FrameFacts DEF Desc
<1>4. descs \in Seq(Desc) /\ d \in Nat \ {0}
  BY DEF IInv, TypeInv
<1>5. /\ ds \in Seq(Desc) /\ d \in DOMAIN ds /\ d \notin DOMAIN descs /\ ds[d] = x
      /\ DOMAIN ds = DOMAIN descs \cup {d} /\ \A y \in DOMAIN descs : ds[y] = descs[y]
      /\ \A c, u : Named(c, u, descs) => Named(c, u, ds)
  BY <1>3, <1>4, NewDesc
<1>6. x.ty = t /\ x.parts = Top.parts
  OBVIOUS
<1>7. \A k \in DOMAIN Top.parts : Named(Top.parts[k], Parts[t][k], descs)
  BY <1>2 DEF IInv, FramesOK
<1> HIDE DEF t, d, x, ds
<1>8. FramesOK(Callers, ds)
  <2>1. FramesOK(Callers, descs)
    BY <1>1, PopFrames
  <2> QED
    BY <2>1, <1>5 DEF FramesOK
<1>9. DescsOK(ds, broken \cup OpenOf(Callers))
  <2>1. OpenOf(stack) = OpenOf(Callers) \cup {0}
    BY <1>1, PopFrames
  <2>2. ASSUME NEW y \in DOMAIN descs
        PROVE /\ DOMAIN ds[y].parts = DOMAIN Parts[ds[y].ty]
              /\ \A k \in DOMAIN Parts[ds[y].ty] :
                   IF ds[y].parts[k] # 0 THEN Named(ds[y].parts[k], Parts[ds[y].ty][k], ds)
                   ELSE y \in broken \cup OpenOf(Callers)
    <3>1. y # 0
      BY DEF IInv, TypeInv
    <3> QED
      BY <3>1, <2>1, <1>5 DEF IInv, DescsOK
  <2>3. DOMAIN Parts[t] = DOMAIN Top.parts
    BY <1>1, <1>3
  <2>4. \A k \in DOMAIN Top.parts : Top.parts[k] # 0 /\ Named(Top.parts[k], Parts[t][k], ds)
    <3>1. \A y \in DOMAIN descs : y # 0
      BY DEF IInv, TypeInv
    <3> QED
      BY <3>1, <1>5, <1>7 DEF Named
  <2> QED
    BY <2>2, <2>3, <2>4, <1>5, <1>6 DEF DescsOK
<1>10. /\ descs' \in Seq(Desc) /\ stack' \in Seq(Frame)
       /\ FrameTypes(stack') /\ FramesOK(stack', descs') /\ Nested(stack')
       /\ DescsOK(descs', broken \cup OpenOf(stack'))
       /\ DOMAIN descs' = DOMAIN ds /\ \A y \in DOMAIN ds : descs'[y].ty = ds[y].ty
       /\ DOMAIN stack' = DOMAIN Callers
       /\ \A j \in DOMAIN Callers : stack'[j].ty = Callers[j].ty /\ stack'[j].desc = Callers[j].desc
       /\ handed' = IF Callers = <<>> THEN handed \cup {<<t, d>>} ELSE handed
  <2>1. Named(d, t, ds)
    BY <1>5, <1>6 DEF Named
  <2>2. /\ FrameTypes(Callers) /\ Nested(Callers)
        /\ Callers # <<>> => Awaits(Callers[Len(Callers)], t)
    BY <1>1, PopFrames DEF t
  <2> QED
    <3>1. t \in Types /\ Callers \in Seq(Frame) /\ ds \in Seq(Desc) /\ Return(t, d, Callers, ds)
      BY <1>1, <1>2, <1>3, <1>5
    <3> QED
      BY ONLY <3>1, <2>1, <2>2, <1>8, <1>9, ReturnStep
<1>11. MapOK' /\ HandedOK'
  <2>1. Mangled[descs'[d].ty] = Mangled[t] /\ d \in DOMAIN descs'
    BY <1>5, <1>6, <1>10
  <2>2. \A y \in DOMAIN descs : y \in DOMAIN descs' /\ descs'[y].ty = descs[y].ty
    BY <1>5, <1>10
  <2> QED
    BY <2>1, <2>2, <1>1, <1>4, <1>10, PassedOn DEF t
<1>12. TypeInv'
  <2>1. reflectTypes' \in [Names -> Nat]
    BY <1>1, <1>4 DEF IInv, TypeInv
  <2>2. handed' \in SUBSET (Types \X Nat)
    BY <1>3, <1>4, <1>10 DEF IInv, TypeInv
  <2> QED
    BY <2>1, <2>2, <1>1, <1>10 DEF IInv, TypeInv
<1> QED
  BY <1>1, <1>10, <1>11, <1>12 DEF IInv

LEMMA NextIInv == IInv /\ [Next]_vars => IInv'
<1> SUFFICES ASSUME IInv, [Next]_vars PROVE IInv'
  OBVIOUS
<1>1. CASE Next
  BY <1>1, AskStep, AbortStep, KnownStep, BeginStructStep, BeginOtherStep, AskPartStep,
     FinishStructStep, FinishOtherStep DEF Next, get_reflect_type
<1>2. CASE UNCHANGED vars
  BY <1>2 DEF vars, IInv, TypeInv, MapOK, HandedOK, NameOf, Top
<1> QED
  BY <1>1, <1>2

-------------------------------------------------------------------------------
\* Every step of get_reflect_type keeps the invariant, wherever the recursion stands.
THEOREM Invariance == Spec => []IInv
BY InitIInv, NextIInv, PTL DEF Spec

\* Nothing is returned to the wrong caller: a part has the name of its type, and one
\* that is NULL is still to be filled in, or an ABORT struck.
THEOREM PartsNamedTheorem == Spec => []PartsNamed
<1>1. IInv => PartsNamed
  BY DEF IInv, DescsOK, OpenOf, MapOK, PartsNamed, NameOf, Named
<1> QED
  BY <1>1, Invariance, PTL

-------------------------------------------------------------------------------
(***************************************************************************)
(* One descriptor.  handed grows only when the recursion has ended, so the *)
(* parts that a call under way collects for a type that code holds are all *)
(* the one that code holds.                                                *)
(***************************************************************************)
PartsHanded ==
  \A h \in handed : \A j \in DOMAIN stack : \A k \in DOMAIN stack[j].parts :
    Mangled[Parts[stack[j].ty][k]] = Mangled[h[1]] => stack[j].parts[k] = h[2]

\* What get_reflect_type is about to return for t is the one that code holds of t.
IsHanded(t, d) == \A h \in handed : Mangled[h[1]] = Mangled[t] => h[2] = d

\* A descriptor made or filled in by this step gets, for each part, the one code holds.
NewParts ==
  \A h \in handed : \A d \in DOMAIN descs' : \A k \in DOMAIN descs'[d].parts :
    \/ Mangled[Parts[descs'[d].ty][k]] # Mangled[h[1]]
    \/ descs'[d].parts[k] \in {0, h[2]}
    \/ d \in DOMAIN descs /\ descs'[d].parts[k] = descs[d].parts[k]

SameHanded == \A h \in handed, g \in handed' : Mangled[g[1]] = Mangled[h[1]] => g[2] = h[2]

\* While descriptors stay as they are and nothing is handed out.
LEMMA QuietStep ==
  ASSUME IInv, handed' = handed, descs' = descs
  PROVE NewParts /\ SameHanded
BY DEF IInv, HandedOK, NewParts, SameHanded

\* The calls under way when the last has gone have the parts they had.
LEMMA ReturnHanded ==
  ASSUME IInv, NEW t \in Types, NEW d \in Nat, NEW callers \in Seq(Frame),
         NEW ds \in Seq(Desc), DOMAIN callers \subseteq DOMAIN stack,
         \A j \in DOMAIN callers : callers[j] = stack[j],
         callers # <<>> => Awaits(callers[Len(callers)], t),
         FramesOK(callers, ds),
         \A e \in DOMAIN ds : \A k \in DOMAIN ds[e].parts : \A h \in handed :
           \/ Mangled[Parts[ds[e].ty][k]] # Mangled[h[1]]
           \/ ds[e].parts[k] \in {0, h[2]}
           \/ e \in DOMAIN descs /\ ds[e] = descs[e],
         PartsHanded, IsHanded(t, d), Return(t, d, callers, ds)
  PROVE PartsHanded' /\ NewParts /\ SameHanded
<1>1. CASE callers = <<>>
  <2>1. handed' = handed \cup {<<t, d>>} /\ stack' = <<>> /\ descs' = ds
    BY <1>1 DEF Return
  <2>2. PartsHanded'
    BY <2>1 DEF PartsHanded
  <2>3. SameHanded
    BY <2>1 DEF SameHanded, IsHanded, IInv, HandedOK
  <2>4. NewParts
    BY <2>1 DEF NewParts
  <2> QED
    BY <2>2, <2>3, <2>4
<1>2. CASE callers # <<>>
  <2> DEFINE n == Len(callers)
             f == callers[n]
             m == Len(f.parts) + 1
             q == Append(f.parts, d)
  <2>1. n \in Nat /\ n \in DOMAIN callers /\ DOMAIN callers = 1 .. n /\ f \in Frame
    BY <1>2
  <2>2. f.parts \in Seq(Nat) /\ f.ty \in Types /\ Parts[f.ty] \in Seq(Types)
    BY <2>1, TypeFacts DEF Frame
  <2>3. /\ DOMAIN q = 1 .. m /\ q[m] = d /\ DOMAIN f.parts = 1 .. m - 1 /\ m \in Nat
        /\ \A k \in DOMAIN f.parts : q[k] = f.parts[k]
        /\ \A k \in DOMAIN q : k = m \/ k \in DOMAIN f.parts
    <3> HIDE DEF f
    <3> QED
      BY ONLY <2>2, d \in Nat, AppendFacts DEF q, m
  <2>4. t = Parts[f.ty][m]
    BY <1>2 DEF Awaits
  <2>5. /\ handed' = handed /\ stack' = [callers EXCEPT ![n].parts = q]
        /\ descs' = IF f.desc = 0 THEN ds ELSE [ds EXCEPT ![f.desc].parts[m] = d]
    BY <1>2 DEF Return
  <2> HIDE DEF q, m
  <2>6. /\ DOMAIN stack' = DOMAIN callers
        /\ \A j \in DOMAIN callers :
             /\ stack'[j].ty = callers[j].ty
             /\ stack'[j].parts = IF j = n THEN q ELSE callers[j].parts
    BY <2>1, <2>5 DEF Frame
  <2>7. PartsHanded'
    <3>1. SUFFICES ASSUME NEW h \in handed, NEW j \in DOMAIN callers,
                          NEW k \in DOMAIN stack'[j].parts,
                          Mangled[Parts[callers[j].ty][k]] = Mangled[h[1]]
                   PROVE  stack'[j].parts[k] = h[2]
      BY <2>5, <2>6 DEF PartsHanded
    <3>2. CASE k \in DOMAIN callers[j].parts
      <4>1. callers[j].parts[k] = h[2]
        BY <3>1, <3>2 DEF PartsHanded
      <4> QED
        BY <4>1, <3>2, <2>3, <2>6
    <3>3. CASE k \notin DOMAIN callers[j].parts
      BY <3>1, <3>3, <2>3, <2>4, <2>6 DEF IsHanded
    <3> QED
      BY <3>2, <3>3
  <2>8. SameHanded
    BY <2>5 DEF SameHanded, IInv, HandedOK
  <2>9. NewParts
    <3>1. CASE f.desc = 0
      BY <2>5, <3>1 DEF NewParts
    <3>2. CASE f.desc # 0
      <4>1. f.desc \in DOMAIN ds /\ ds[f.desc].ty = f.ty
        BY <2>1, <3>2 DEF FramesOK
      <4>2. /\ DOMAIN descs' = DOMAIN ds
            /\ \A e \in DOMAIN ds :
                 /\ descs'[e].ty = ds[e].ty /\ DOMAIN descs'[e].parts = DOMAIN ds[e].parts
                 /\ e # f.desc => descs'[e] = ds[e]
                 /\ \A k \in DOMAIN ds[e].parts :
                      descs'[e].parts[k] = IF e = f.desc /\ k = m THEN d ELSE ds[e].parts[k]
        <5> DEFINE p == ds[f.desc].parts
                   r == [p EXCEPT ![m] = d]
                   x == [ds[f.desc] EXCEPT !.parts = r]
        <5>1. ds[f.desc] \in Desc /\ p \in Seq(Nat)
          <6>1. \A e \in DOMAIN ds : ds[e] \in Desc
            BY ONLY ds \in Seq(Desc)
          <6> QED
            BY <4>1, <6>1 DEF Desc
        <5>2. DOMAIN r = DOMAIN p /\ \A k \in DOMAIN p : r[k] = IF k = m THEN d ELSE p[k]
          BY <5>1
        <5>3. x.ty = ds[f.desc].ty /\ x.parts = r
          BY <5>1 DEF Desc
        <5>4. descs' = [ds EXCEPT ![f.desc] = x]
          BY <2>5, <3>2
        <5> HIDE DEF r, x
        <5>5. DOMAIN descs' = DOMAIN ds /\ descs'[f.desc] = x
              /\ \A e \in DOMAIN ds : e # f.desc => descs'[e] = ds[e]
          BY <4>1, <5>4
        <5> QED
          BY <5>2, <5>3, <5>5
      <4>3. SUFFICES ASSUME NEW h \in handed, NEW e \in DOMAIN ds, NEW k \in DOMAIN ds[e].parts
                     PROVE  \/ Mangled[Parts[ds[e].ty][k]] # Mangled[h[1]]
                            \/ descs'[e].parts[k] \in {0, h[2]}
                            \/ e \in DOMAIN descs /\ descs'[e].parts[k] = descs[e].parts[k]
        BY <4>2 DEF NewParts
      <4>4. CASE e = f.desc /\ k = m
        BY <4>1, <4>2, <4>4, <2>4 DEF IsHanded
      <4>5. CASE ~(e = f.desc /\ k = m)
        BY <4>2, <4>5
      <4> QED
        BY <4>4, <4>5
    <3> QED
      BY <3>1, <3>2
  <2> QED
    BY <2>7, <2>8, <2>9
<1> QED
  BY <1>1, <1>2

LEMMA HandedStep ==
  ASSUME IInv, PartsHanded, [Next]_vars PROVE PartsHanded' /\ NewParts /\ SameHanded
<1>1. ASSUME handed' = handed, descs' = descs, stack' = stack \/ stack' = <<>>
      PROVE  PartsHanded' /\ NewParts /\ SameHanded
  BY <1>1, QuietStep DEF PartsHanded
<1>10. ASSUME NEW f, f.parts = <<>>, handed' = handed, stack' = Append(stack, f)
       PROVE  PartsHanded'
  <2>1. stack \in Seq(Frame)
    BY DEF IInv, TypeInv
  <2>2. \A j \in DOMAIN stack' : stack'[j] = f \/ (j \in DOMAIN stack /\ stack'[j] = stack[j])
    BY <1>10, <2>1
  <2> QED
    BY <1>10, <2>2 DEF PartsHanded
<1>2. CASE UNCHANGED vars
  BY <1>1, <1>2 DEF vars
<1>3. CASE \E t \in Types : ReflectTypeOf(t)
  BY <1>1, <1>3 DEF ReflectTypeOf
<1>4. CASE Abort \/ AskPart
  BY <1>1, <1>4 DEF Abort, AskPart
<1>5. CASE Known
  <2>1. /\ asked \in Types /\ Mangled[asked] \in Names
        /\ reflectTypes[Mangled[asked]] \in DOMAIN descs
        /\ Return(asked, reflectTypes[Mangled[asked]], stack, descs)
    BY <1>5, TypeFacts DEF Known, IInv, TypeInv, MapOK
  <2>2. reflectTypes[Mangled[asked]] \in Nat /\ IsHanded(asked, reflectTypes[Mangled[asked]])
    BY <2>1 DEF IInv, TypeInv, HandedOK, IsHanded
  <2>3. stack # <<>> => Awaits(stack[Len(stack)], asked)
    BY <2>1, TypeFacts DEF IInv, Top
  <2>4. /\ stack \in Seq(Frame) /\ descs \in Seq(Desc) /\ FramesOK(stack, descs)
        /\ DescsOK(descs, broken \cup OpenOf(stack))
    BY DEF IInv, TypeInv
  <2> QED
    BY <2>1, <2>2, <2>3, <2>4, ReturnHanded
<1>6. CASE BeginStruct
  <2> DEFINE x == [ty |-> asked, parts |-> Nulls(asked)]
  <2>1. descs \in Seq(Desc) /\ asked \in Types /\ Parts[asked] \in Seq(Types)
    BY <1>6, TypeFacts DEF BeginStruct, Absent, IInv, TypeInv
  <2>2. x \in Desc
    BY <2>1 DEF Desc, Nulls
  <2>3. /\ descs' = Append(descs, x) /\ handed' = handed
        /\ stack' = Append(stack, [ty |-> asked, desc |-> Len(descs) + 1, parts |-> <<>>])
    BY <1>6 DEF BeginStruct
  <2>4. PartsHanded'
    BY <2>3, <1>10
  <2>5. SameHanded
    BY <2>3 DEF SameHanded, IInv, HandedOK
  <2>6. \A d \in DOMAIN descs' : (d \in DOMAIN descs /\ descs'[d] = descs[d]) \/ descs'[d] = x
    BY <2>1, <2>2, <2>3
  <2>7. \A k \in DOMAIN x.parts : x.parts[k] = 0
    BY DEF Nulls
  <2> QED
    BY <2>4, <2>5, <2>6, <2>7 DEF NewParts
<1>7. CASE BeginOther
  <2>1. /\ descs' = descs /\ handed' = handed
        /\ stack' = Append(stack, [ty |-> asked, desc |-> 0, parts |-> <<>>])
    BY <1>7 DEF BeginOther
  <2>2. PartsHanded'
    BY <2>1, <1>10
  <2> QED
    BY <2>1, <2>2, QuietStep
<1>8. CASE FinishStruct
  <2>1. /\ stack # <<>> /\ Top.desc # 0 /\ Return(Top.ty, Top.desc, Callers, descs)
    BY <1>8 DEF FinishStruct, Complete
  <2>2. /\ Callers \in Seq(Frame) /\ Len(stack) \in DOMAIN stack /\ Top = stack[Len(stack)]
        /\ DOMAIN Callers \subseteq DOMAIN stack /\ \A j \in DOMAIN Callers : Callers[j] = stack[j]
    BY <2>1, Front DEF IInv, TypeInv
  <2>3. Top.ty \in Types /\ Top.desc \in Nat /\ Mangled[Top.ty] \in Names
    BY <2>2, FrameFacts
  <2>4. IsHanded(Top.ty, Top.desc)
    BY <2>1, <2>2 DEF IInv, MapOK, HandedOK, IsHanded
  <2>5. FramesOK(Callers, descs) /\ (Callers # <<>> => Awaits(Callers[Len(Callers)], Top.ty))
    BY <2>1, PopFrames
  <2>6. descs \in Seq(Desc) /\ DescsOK(descs, broken \cup OpenOf(stack))
    BY DEF IInv, TypeInv
  <2> QED
    BY <2>1, <2>2, <2>3, <2>4, <2>5, <2>6, ReturnHanded
<1>9. CASE FinishOther
  <2> DEFINE t == Top.ty
             d == Len(descs) + 1
             x == [ty |-> t, parts |-> Top.parts]
             ds == Append(descs, x)
  <2>1. stack # <<>> /\ Top.desc = 0 /\ Return(t, d, Callers, ds)
    BY <1>9 DEF FinishOther, Complete
  <2>2. /\ Callers \in Seq(Frame) /\ Len(stack) \in DOMAIN stack /\ Top = stack[Len(stack)]
        /\ DOMAIN Callers \subseteq DOMAIN stack /\ \A j \in DOMAIN Callers : Callers[j] = stack[j]
    BY <2>1, Front DEF IInv, TypeInv
  <2>3. t \in Types /\ Top.parts \in Seq(Nat) /\ x \in Desc /\ descs \in Seq(Desc) /\ d \in Nat
    BY <2>2, FrameFacts DEF Desc, IInv, TypeInv
  <2>4. /\ ds \in Seq(Desc) /\ DOMAIN ds = DOMAIN descs \cup {d} /\ ds[d] = x
        /\ \A e \in DOMAIN descs : ds[e] = descs[e]
        /\ \A c, u : Named(c, u, descs) => Named(c, u, ds)
    BY <2>3, NewDesc
  <2>5. IsHanded(t, d)
    BY <2>1, <2>2 DEF IInv, MapOK, IsHanded
  <2>6. \A k \in DOMAIN Top.parts : \A h \in handed :
          Mangled[Parts[t][k]] = Mangled[h[1]] => Top.parts[k] = h[2]
    BY <2>2 DEF PartsHanded
  <2>7. /\ FramesOK(Callers, descs) /\ (Callers # <<>> => Awaits(Callers[Len(Callers)], t))
        /\ d \notin DOMAIN descs /\ \A e \in DOMAIN descs : e # d
    BY <2>1, <2>3, PopFrames
  <2>8. x.ty = t /\ x.parts = Top.parts
    OBVIOUS
  <2> HIDE DEF t, d, x, ds
  <2>9. /\ FramesOK(Callers, ds)
        /\ \A e \in DOMAIN ds : \A k \in DOMAIN ds[e].parts : \A h \in handed :
             \/ Mangled[Parts[ds[e].ty][k]] # Mangled[h[1]]
             \/ ds[e].parts[k] \in {0, h[2]}
             \/ e \in DOMAIN descs /\ ds[e] = descs[e]
    <3>1. FramesOK(Callers, ds)
      BY <2>4, <2>7 DEF FramesOK
    <3> QED
      BY <3>1, <2>4, <2>6, <2>8
  <2> QED
    BY <2>1, <2>2, <2>3, <2>4, <2>5, <2>7, <2>9, ReturnHanded
<1> QED
  BY <1>2, <1>3, <1>4, <1>5, <1>6, <1>7, <1>8, <1>9 DEF Next, get_reflect_type

\* What code holds of a type is what every later _ReflectTypeOf and every part filled
\* in later gets, whatever was asked for before, in whichever update.
THEOREM OneDescriptorTheorem == Spec => OneDescriptor
<1>1. Init => PartsHanded
  BY DEF Init, PartsHanded
<1>2. IInv /\ PartsHanded /\ [Next]_vars => PartsHanded' /\ [HeldIsShared]_vars
  <2>1. NewParts /\ SameHanded => HeldIsShared
    BY DEF NewParts, SameHanded, HeldIsShared
  <2> QED
    BY <2>1, HandedStep
<1> QED
  BY <1>1, <1>2, Invariance, PTL DEF Spec, OneDescriptor

================================================================================
