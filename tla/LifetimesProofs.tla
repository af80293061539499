---------------------------- MODULE LifetimesProofs ----------------------------
(***************************************************************************)
(* What a call maps and allocates is given back, for projects of any       *)
(* number of files and along every path an error takes.                    *)
(***************************************************************************)
EXTENDS Lifetimes, TLAPS

Updating == Working \union {"files", "compiled", "link"}

\* Where the call stands decides which heaps have a base.
HeapsKnown ==
  /\ pc \in {"idle", "files"} /\ context = "host" => mapped \intersect Scratch = {}
  /\ pc \in {"idle", "environment", "link"} => "compile" \notin mapped
  /\ pc \in Updating \union {"idle"} => "temp" \notin mapped
  /\ pc \in Working \union {"compiled", "files"} => "link" \notin mapped
  /\ pc \in Working \union {"compiled"} => "compile" \in mapped
  /\ pc = "environment" => "user" \notin mapped
  /\ context = "null" => "user" \notin mapped

\* A context is there while an update runs, and the handler is armed then.
ContextKnown ==
  /\ pc \in Updating => context = "host" /\ landing = "armed"
  /\ pc = "raised" /\ landing = "armed" => context = "host"
  /\ pc = "idle" => context # "temporary" /\ landing # "armed"
  /\ pc = "environment" => context = "temporary" /\ landing # "armed"
  /\ pc \in Working => file \in Files

\* So is the state of the handle: it dangles only where nothing can raise an
\* error on Unix.
HandleKnown ==
  /\ pc = "front" => dynasm = "null"
  /\ pc \in Working \ {"front"} => dynasm = "live"
  /\ pc \in {"idle", "environment", "files", "compiled", "link"} => dynasm # "live"
  /\ pc \in Working => compiler # "released"
  /\ pc = "link" => linker = "null"

OnUnix ==
  ~Windows =>
    /\ twice = {}
    /\ \A f \in Files : codeseg[f] # "released"
    /\ pc = "raised" => dynasm # "released" /\ landing = "armed"

IInv == TypeOK /\ lost = {} /\ HeapsKnown /\ ContextKnown /\ HandleKnown /\ OnUnix

USE DEF Files, Heaps, Scratch, Places, Pointer, Working, Updating, world, Windows

LEMMA InitIInv == Init => IInv
<1> SUFFICES ASSUME Init PROVE IInv
  OBVIOUS
<1> USE DEF Init
<1>1. TypeOK
  BY NumFilesAssumption DEF TypeOK
<1> QED
  BY <1>1 DEF IInv, HeapsKnown, ContextKnown, HandleKnown, OnUnix

LEMMA ParseArgumentsStep == ASSUME IInv, ParseArguments PROVE IInv'
<1> USE DEF IInv, TypeOK, ParseArguments, alloc_init
<1>1. TypeOK'
  OBVIOUS
<1>2. lost' = {} /\ HeapsKnown'
  BY DEF HeapsKnown, ContextKnown, HandleKnown
<1>3. ContextKnown' /\ HandleKnown'
  BY DEF HeapsKnown, ContextKnown, HandleKnown
<1>4. OnUnix'
  BY DEF ContextKnown, HandleKnown, OnUnix
<1> QED
  BY ONLY <1>1, <1>2, <1>3, <1>4 DEF IInv

LEMMA SetEnvironmentStep == ASSUME IInv, SetEnvironment PROVE IInv'
<1> USE DEF IInv, TypeOK, SetEnvironment, alloc_init, alloc_init_fails
<1>1. TypeOK'
  OBVIOUS
<1>2. lost' = {} /\ HeapsKnown'
  BY DEF HeapsKnown, ContextKnown, HandleKnown
<1>3. ContextKnown' /\ HandleKnown'
  BY DEF HeapsKnown, ContextKnown, HandleKnown
<1>4. OnUnix'
  BY DEF ContextKnown, HandleKnown, OnUnix
<1> QED
  BY ONLY <1>1, <1>2, <1>3, <1>4 DEF IInv

LEMMA EnvironmentFailsStep == ASSUME IInv, EnvironmentFails PROVE IInv'
<1> USE DEF IInv, TypeOK, EnvironmentFails
<1>1. TypeOK'
  OBVIOUS
<1>2. lost' = {} /\ HeapsKnown'
  BY DEF HeapsKnown, ContextKnown, HandleKnown
<1>3. ContextKnown' /\ HandleKnown'
  BY DEF HeapsKnown, ContextKnown, HandleKnown
<1>4. OnUnix'
  BY DEF ContextKnown, HandleKnown, OnUnix
<1> QED
  BY ONLY <1>1, <1>2, <1>3, <1>4 DEF IInv

LEMMA FinishEnvironmentStep == ASSUME IInv, FinishEnvironment PROVE IInv'
<1> USE DEF IInv, TypeOK, FinishEnvironment, Dangling
<1>1. TypeOK'
  OBVIOUS
<1>2. lost' = {} /\ HeapsKnown'
  BY DEF HeapsKnown, ContextKnown, HandleKnown
<1>3. ContextKnown' /\ HandleKnown'
  BY DEF HeapsKnown, ContextKnown, HandleKnown
<1>4. OnUnix'
  BY DEF ContextKnown, HandleKnown, OnUnix
<1> QED
  BY ONLY <1>1, <1>2, <1>3, <1>4 DEF IInv

LEMMA FreeStep == ASSUME IInv, Free PROVE IInv'
<1> USE DEF IInv, TypeOK, Free, alloc_reset, Dangling
<1>1. TypeOK'
  OBVIOUS
<1>2. lost' = {} /\ HeapsKnown'
  BY DEF HeapsKnown, ContextKnown, HandleKnown
<1>3. ContextKnown' /\ HandleKnown'
  BY DEF HeapsKnown, ContextKnown, HandleKnown
<1>4. OnUnix'
  BY DEF ContextKnown, HandleKnown, OnUnix
<1> QED
  BY ONLY <1>1, <1>2, <1>3, <1>4 DEF IInv

LEMMA UpdateStep == ASSUME IInv, Update PROVE IInv'
<1> USE DEF IInv, TypeOK, Update
<1>1. TypeOK'
  BY ZenonT(40)
<1>2. lost' = {} /\ HeapsKnown'
  BY DEF HeapsKnown, ContextKnown, HandleKnown
<1>3. ContextKnown' /\ HandleKnown'
  BY DEF HeapsKnown, ContextKnown, HandleKnown
<1>4. OnUnix'
  BY DEF ContextKnown, HandleKnown, OnUnix
<1> QED
  BY ONLY <1>1, <1>2, <1>3, <1>4 DEF IInv

LEMMA NextFileStep == ASSUME IInv, NextFile PROVE IInv'
<1> USE DEF IInv, TypeOK, NextFile, alloc_init, alloc_init_fails
<1>1. TypeOK'
  <2>1. file' \in Files /\ todo' \in SUBSET Files
    OBVIOUS
  <2>2. file' \in 0 .. NumFiles
    BY ONLY <2>1, NumFilesAssumption DEF Files
  <2> QED
    BY <2>1, <2>2
<1>2. lost' = {} /\ HeapsKnown'
  BY DEF HeapsKnown, ContextKnown, HandleKnown
<1>3. ContextKnown' /\ HandleKnown'
  BY DEF HeapsKnown, ContextKnown, HandleKnown
<1>4. OnUnix'
  BY DEF ContextKnown, HandleKnown, OnUnix
<1> QED
  BY ONLY <1>1, <1>2, <1>3, <1>4 DEF IInv

LEMMA FrontEndStep == ASSUME IInv, FrontEnd PROVE IInv'
<1> USE DEF IInv, TypeOK, FrontEnd
<1>1. TypeOK'
  OBVIOUS
<1>2. lost' = {} /\ HeapsKnown'
  BY DEF HeapsKnown, ContextKnown, HandleKnown
<1>3. ContextKnown' /\ HandleKnown'
  BY DEF HeapsKnown, ContextKnown, HandleKnown
<1>4. OnUnix'
  BY DEF ContextKnown, HandleKnown, OnUnix
<1> QED
  BY ONLY <1>1, <1>2, <1>3, <1>4 DEF IInv

LEMMA ParseStep == ASSUME IInv, Parse PROVE IInv'
<1>1. TypeOK'
  BY DEF IInv, TypeOK, Parse
<1>2. lost' = {} /\ HeapsKnown'
  BY DEF IInv, TypeOK, Parse, HeapsKnown, ContextKnown, HandleKnown
<1>3. ContextKnown' /\ HandleKnown'
  BY DEF IInv, TypeOK, Parse, HeapsKnown, ContextKnown, HandleKnown
<1>4. OnUnix'
  BY DEF IInv, TypeOK, Parse, ContextKnown, HandleKnown, OnUnix
<1> QED
  BY <1>1, <1>2, <1>3, <1>4 DEF IInv

LEMMA PlaceStep == ASSUME IInv, Place PROVE IInv'
<1> USE DEF IInv, TypeOK, Place, Dangling
<1>1. TypeOK'
  BY ZenonT(40)
<1>2. lost' = {} /\ HeapsKnown'
  BY DEF HeapsKnown, ContextKnown, HandleKnown
<1>3. ContextKnown' /\ HandleKnown'
  BY DEF HeapsKnown, ContextKnown, HandleKnown
<1>4. OnUnix'
  BY DEF ContextKnown, HandleKnown, OnUnix
<1> QED
  BY ONLY <1>1, <1>2, <1>3, <1>4 DEF IInv

LEMMA EncodeStep == ASSUME IInv, Encode PROVE IInv'
<1> USE DEF IInv, TypeOK, Encode, codegen_free, Dangling
<1>1. TypeOK'
  BY DEF ContextKnown
<1>2. lost' = {} /\ HeapsKnown'
  BY DEF HeapsKnown, ContextKnown, HandleKnown
<1>3. ContextKnown' /\ HandleKnown'
  BY DEF HeapsKnown, ContextKnown, HandleKnown
<1>4. OnUnix'
  BY DEF ContextKnown, HandleKnown, OnUnix
<1> QED
  BY ONLY <1>1, <1>2, <1>3, <1>4 DEF IInv

LEMMA FinishFileStep == ASSUME IInv, FinishFile PROVE IInv'
<1> USE DEF IInv, TypeOK, FinishFile, alloc_reset, Dangling
<1>1. TypeOK'
  OBVIOUS
<1>2. lost' = {} /\ HeapsKnown'
  BY DEF HeapsKnown, ContextKnown, HandleKnown
<1>3. ContextKnown' /\ HandleKnown'
  BY DEF HeapsKnown, ContextKnown, HandleKnown
<1>4. OnUnix'
  BY DEF ContextKnown, HandleKnown, OnUnix
<1> QED
  BY ONLY <1>1, <1>2, <1>3, <1>4 DEF IInv

LEMMA StartLinkStep == ASSUME IInv, StartLink PROVE IInv'
<1> USE DEF IInv, TypeOK, StartLink, alloc_init, alloc_init_fails
<1>1. TypeOK'
  BY ZenonT(40)
<1>2. lost' = {} /\ HeapsKnown'
  BY DEF HeapsKnown, ContextKnown, HandleKnown
<1>3. ContextKnown' /\ HandleKnown'
  BY DEF HeapsKnown, ContextKnown, HandleKnown
<1>4. OnUnix'
  BY DEF ContextKnown, HandleKnown, OnUnix
<1> QED
  BY ONLY <1>1, <1>2, <1>3, <1>4 DEF IInv

LEMMA LinkStep == ASSUME IInv, Link PROVE IInv'
<1> USE DEF IInv, TypeOK, Link, Dangling
<1>1. TypeOK'
  OBVIOUS
<1>2. lost' = {} /\ HeapsKnown'
  BY DEF HeapsKnown, ContextKnown, HandleKnown
<1>3. ContextKnown' /\ HandleKnown'
  BY DEF HeapsKnown, ContextKnown, HandleKnown
<1>4. OnUnix'
  BY DEF ContextKnown, HandleKnown, OnUnix
<1> QED
  BY ONLY <1>1, <1>2, <1>3, <1>4 DEF IInv

LEMMA RecoverStep == ASSUME IInv, Recover PROVE IInv'
<1> USE DEF IInv, TypeOK, Recover, codegen_free
<1>1. TypeOK'
  OBVIOUS
<1>2. lost' = {} /\ HeapsKnown'
  BY DEF HeapsKnown, ContextKnown, HandleKnown
<1>3. ContextKnown' /\ HandleKnown'
  BY DEF HeapsKnown, ContextKnown, HandleKnown
<1>4. OnUnix'
  BY DEF ContextKnown, HandleKnown, OnUnix
<1> QED
  BY ONLY <1>1, <1>2, <1>3, <1>4 DEF IInv

LEMMA WildJumpStep == ASSUME IInv, WildJump PROVE IInv'
<1> USE DEF IInv, TypeOK, WildJump
<1>1. TypeOK'
  OBVIOUS
<1>2. lost' = {} /\ HeapsKnown'
  BY DEF HeapsKnown, ContextKnown, HandleKnown
<1>3. ContextKnown' /\ HandleKnown'
  BY DEF HeapsKnown, ContextKnown, HandleKnown
<1>4. OnUnix'
  BY DEF ContextKnown, HandleKnown, OnUnix
<1> QED
  BY ONLY <1>1, <1>2, <1>3, <1>4 DEF IInv

LEMMA StepIInv == IInv /\ [Next]_vars => IInv'
<1> SUFFICES ASSUME IInv, [Next]_vars PROVE IInv'
  OBVIOUS
<1>1. CASE ParseArguments
  BY <1>1, ParseArgumentsStep
<1>2. CASE SetEnvironment
  BY <1>2, SetEnvironmentStep
<1>3. CASE EnvironmentFails
  BY <1>3, EnvironmentFailsStep
<1>4. CASE FinishEnvironment
  BY <1>4, FinishEnvironmentStep
<1>5. CASE Free
  BY <1>5, FreeStep
<1>6. CASE Update
  BY <1>6, UpdateStep
<1>7. CASE NextFile
  BY <1>7, NextFileStep
<1>8. CASE FrontEnd
  BY <1>8, FrontEndStep
<1>9. CASE Parse
  BY <1>9, ParseStep
<1>10. CASE Place
  BY <1>10, PlaceStep
<1>11. CASE Encode
  BY <1>11, EncodeStep
<1>12. CASE FinishFile
  BY <1>12, FinishFileStep
<1>13. CASE StartLink
  BY <1>13, StartLinkStep
<1>14. CASE Link
  BY <1>14, LinkStep
<1>15. CASE Recover
  BY <1>15, RecoverStep
<1>16. CASE WildJump
  BY <1>16, WildJumpStep
<1>17. CASE UNCHANGED vars
  BY <1>17 DEF vars, IInv, TypeOK, HeapsKnown, ContextKnown, HandleKnown, OnUnix
<1> QED
  BY <1>1, <1>2, <1>3, <1>4, <1>5, <1>6, <1>7, <1>8, <1>9, <1>10, <1>11, <1>12, <1>13, <1>14, <1>15, <1>16, <1>17 DEF Next, Call, Work

(***************************************************************************)
(* IInv holds in every behaviour, for any number of files.                 *)
(***************************************************************************)
THEOREM Invariance == Spec => []IInv
<1> QED
  BY InitIInv, StepIInv, PTL DEF Spec

(***************************************************************************)
(* Type correctness, whatever the host calls and whatever fails.           *)
(***************************************************************************)
THEOREM TypeCorrect == Spec => []TypeOK
<1>1. IInv => TypeOK
  BY DEF IInv
<1> QED
  BY <1>1, Invariance, PTL

(***************************************************************************)
(* On Unix nothing is released twice: an error strikes only where the      *)
(* handle in compiler_state is cleared or alive (OnUnix), so the handler   *)
(* finds no handle that codegen released (codegen_free).                   *)
(***************************************************************************)
THEOREM UnixReleases == Spec => []UnixReleasesOnce
<1>1. IInv => UnixReleasesOnce
  BY DEF IInv, OnUnix, UnixReleasesOnce, ReleasedOnce
<1> QED
  BY <1>1, Invariance, PTL

(***************************************************************************)
(* Between calls no heap is mapped and no DynASM state alive but what the  *)
(* context owns, on every platform and after every error (the handler of   *)
(* dyibicc_update).  Nothing is said of code segments.                     *)
(***************************************************************************)
THEOREM NothingIsLeft == Spec => []NothingLeft
<1>1. IInv => NothingLeft
  BY DEF IInv, HeapsKnown, HandleKnown, NothingLeft
<1> QED
  BY <1>1, Invariance, PTL

(***************************************************************************)
(* The compiler and the linker never meet state of an earlier update       *)
(* (alloc_init clears it).                                                 *)
(***************************************************************************)
THEOREM StateIsOwn == Spec => []OwnState
<1>1. IInv => OwnState
  BY DEF IInv, HeapsKnown, HandleKnown, OwnState
<1> QED
  BY <1>1, Invariance, PTL
===============================================================================
