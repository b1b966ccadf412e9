------------------------ MODULE LibraryLoader_proofs ------------------------
(***************************************************************************)
(* Proofs about LibraryLoader, for any number of threads, any paths and    *)
(* any file system: the initial load happens once, an accepted explicit    *)
(* request got its own file, and the double-checked lock implements the    *)
(* atomic cell of OnceLibrary.                                             *)
(***************************************************************************)
EXTENDS LibraryLoader, Integers, TLAPS

(* What an attempt may produce is a library, and for an explicit request   *)
(* the file that its path opens (load_explicit).                           *)
LEMMA LoadableFacts ==
    ASSUME NEW c \in Requests, NEW l \in Loadable(c)
    PROVE  /\ l \in Libraries
           /\ l.asked = c
           /\ c # Discover => l.file = DlFile[c]
<1>1. CASE c = Discover
  BY <1>1, SourceAssumption DEF Loadable, LoadAuto, Libraries, Requests
<1>2. CASE c # Discover
  <2>1. c \in Paths
    BY <1>2 DEF Requests
  <2>2. PICK f \in {DlFile[c]} \ {NoFile} :
          l = [source |-> IF Canon[c] = NoFile THEN c ELSE Canon[c],
               file |-> f, asked |-> c]
    BY <1>2 DEF Loadable, LoadExplicit
  <2>3. f \in Files /\ f = DlFile[c]
    BY <2>1, <2>2, SourceAssumption
  <2>4. (IF Canon[c] = NoFile THEN c ELSE Canon[c]) \in Files \union Paths
    BY <2>1, SourceAssumption
  <2>. QED
    BY <1>2, <2>2, <2>3, <2>4 DEF Libraries
<1>. QED
  BY <1>1, <1>2

(* What an acceptance by check_source says about a library that came from  *)
(* a successful load: its file is the one the request's path opens, unless *)
(* that path or the one of the load is ambiguous.                          *)
LEMMA AcceptedFile ==
    ASSUME NEW c \in Paths, NEW l \in Libraries, WellSourced(l),
           CheckSource(c, l) = "ok"
    PROVE  l.file = DlFile[c] \/ Ambiguous(c) \/ Ambiguous(l.asked)
<1>1. Canon[c] # NoFile /\ Canon[c] = l.source /\ l.source # Unknown
  BY SourceAssumption DEF CheckSource, SourceMatches
<1>2. Canon[c] \in Files /\ (DlFile[c] = Canon[c] \/ Ambiguous(c))
  BY <1>1, SourceAssumption DEF Ambiguous
<1>3. l.source = l.file \/ Ambiguous(l.asked)
  BY <1>1, <1>2 DEF WellSourced
<1>. QED
  BY <1>1, <1>2, <1>3

(* What a refusal by check_source says about such a library.               *)
LEMMA RefusedFile ==
    ASSUME NEW c \in Requests, NEW l \in Libraries, WellSourced(l),
           CheckSource(c, l) = "conflict"
    PROVE  l.source \in Files /\ Canon[c] # NoFile =>
             l.file # DlFile[c] \/ Ambiguous(c) \/ Ambiguous(l.asked)
<1>. SUFFICES ASSUME l.source \in Files, Canon[c] # NoFile,
                     ~Ambiguous(c), ~Ambiguous(l.asked)
              PROVE  l.file # DlFile[c]
  OBVIOUS
<1>1. c \in Paths /\ ~SourceMatches(l, c)
  BY DEF CheckSource, Requests
<1>2. Canon[c] # l.source
  BY <1>1, SourceAssumption DEF SourceMatches
<1>3. DlFile[c] = Canon[c]
  BY <1>1 DEF Ambiguous
<1>4. l.source = l.file
  BY DEF WellSourced
<1>. QED
  BY <1>2, <1>3, <1>4

(* A library from a load is well sourced.                                  *)
LEMMA LoadableWellSourced ==
    ASSUME NEW c \in Requests, NEW l \in Loadable(c)
    PROVE  WellSourced(l)
<1>1. CASE c = Discover
  BY <1>1, SourceAssumption DEF Loadable, LoadAuto, WellSourced
<1>2. CASE c # Discover
  <2>1. c \in Paths
    BY <1>2 DEF Requests
  <2>2. PICK f \in {DlFile[c]} \ {NoFile} :
          l = [source |-> IF Canon[c] = NoFile THEN c ELSE Canon[c],
               file |-> f, asked |-> c]
    BY <1>2 DEF Loadable, LoadExplicit
  <2>3. CASE Canon[c] = NoFile
    BY <2>1, <2>2, <2>3, SourceAssumption DEF WellSourced
  <2>4. CASE Canon[c] # NoFile
    BY <2>1, <2>2, <2>4, SourceAssumption DEF WellSourced, Ambiguous
  <2>. QED
    BY <2>3, <2>4
<1>. QED
  BY <1>1, <1>2

LEMMA CheckSourceType ==
    ASSUME NEW c, NEW l
    PROVE  CheckSource(c, l) \in {"ok", "conflict"}
BY DEF CheckSource
-----------------------------------------------------------------------------
(* Type correctness of every step of library().                            *)
THEOREM TypeCorrect == Spec => []TypeOK
<1>1. Init => TypeOK
  BY DEF Init, TypeOK, Requests, Locations, Results
<1>2. TypeOK /\ [Next]_vars => TypeOK'
  <2> SUFFICES ASSUME TypeOK, [Next]_vars
               PROVE  TypeOK'
    OBVIOUS
  <2> USE DEF TypeOK, Locations, Results, Goto, Answer
  <2>1. ASSUME NEW t \in Threads, Call(t)
        PROVE  TypeOK'
    BY <2>1 DEF Call
  <2>2. ASSUME NEW t \in Threads, Lookup(t)
        PROVE  TypeOK'
    BY <2>2, CheckSourceType DEF Lookup
  <2>3. ASSUME NEW t \in Threads, Acquire(t)
        PROVE  TypeOK'
    BY <2>3 DEF Acquire
  <2>4. ASSUME NEW t \in Threads, Recheck(t)
        PROVE  TypeOK'
    BY <2>4, CheckSourceType DEF Recheck
  <2>5. ASSUME NEW t \in Threads, Load(t)
        PROVE  TypeOK'
    <3>1. arg[t] \in Requests
      OBVIOUS
    <3>. QED
      BY <2>5, <3>1, LoadableFacts DEF Load
  <2>6. ASSUME NEW t \in Threads, Resolve(t)
        PROVE  TypeOK'
    BY <2>6 DEF Resolve
  <2>7. ASSUME NEW t \in Threads, Publish(t)
        PROVE  TypeOK'
    BY <2>7 DEF Publish
  <2>8. ASSUME NEW t \in Threads, Unlock(t)
        PROVE  TypeOK'
    BY <2>8 DEF Unlock
  <2>9. CASE UNCHANGED vars
    BY <2>9 DEF vars
  <2>. QED
    BY <2>1, <2>2, <2>3, <2>4, <2>5, <2>6, <2>7, <2>8, <2>9 DEF Next, Run
<1>. QED
  BY <1>1, <1>2, PTL DEF Spec
-----------------------------------------------------------------------------
(* The inductive invariant.  LockInv is what makes the second look at      *)
(* YAC_LIB conclusive: only the holder of INIT_LOCK can publish, so the    *)
(* cell is still empty when the load that follows the look is published.   *)
LEMMA Inductive == Spec => []IInv
<1>1. Init => IInv
  BY LoaderAssumption, SourceAssumption
  DEF Init, IInv, TypeOK, LockInv, CallInv, SourceInv, LoadsOnce, OkMeansMyFile,
      RefusedRightly, InLock, Loading, Requests, Locations, Results
<1>2. IInv /\ TypeOK' /\ [Next]_vars => IInv'
  <2> SUFFICES ASSUME IInv, TypeOK', [Next]_vars
               PROVE  IInv'
    OBVIOUS
  <2> USE LoaderAssumption
      DEF IInv, TypeOK, LockInv, CallInv, LoadsOnce, InLock, Loading,
          Goto, Answer, Locations, Results
  <2>1. ASSUME NEW t \in Threads, Call(t)
        PROVE  IInv'
    BY <2>1 DEF Call, SourceInv, OkMeansMyFile, RefusedRightly, Misled
  <2>2. ASSUME NEW t \in Threads, lib # NoLib, lib' = lib, arg' = arg,
               result' = [result EXCEPT ![t] = CheckSource(arg[t], lib)]
        PROVE  OkMeansMyFile' /\ RefusedRightly'
    <3>a. RefusedRightly'
      <4> SUFFICES ASSUME NEW u \in Threads, result'[u] = "conflict"
                   PROVE  lib.source \in Files /\ Canon[arg[u]] # NoFile =>
                            lib.file # DlFile[arg[u]] \/ Misled(u)
        BY <2>2 DEF RefusedRightly, Misled
      <4>1. CASE u = t
        BY <2>2, <4>1, RefusedFile DEF SourceInv, Misled
      <4>2. CASE u # t
        BY <2>2, <4>2 DEF RefusedRightly
      <4>. QED
        BY <4>1, <4>2
    <3> SUFFICES ASSUME NEW u \in Threads, result'[u] = "ok", arg[u] # Discover
                 PROVE  lib.file = DlFile[arg[u]] \/ Misled(u)
      BY <2>2, <3>a DEF OkMeansMyFile, Misled
    <3>1. CASE u = t
      <4>1. arg[t] \in Paths /\ lib \in Libraries /\ WellSourced(lib)
        BY <2>2, <3>1 DEF Requests, SourceInv
      <4>2. CheckSource(arg[t], lib) = "ok"
        BY <2>2, <3>1
      <4>. QED
        BY <3>1, <4>1, <4>2, AcceptedFile DEF Misled
    <3>2. CASE u # t
      BY <2>2, <3>2 DEF OkMeansMyFile
    <3>. QED
      BY <3>1, <3>2
  <2>3. ASSUME NEW t \in Threads, Lookup(t)
        PROVE  IInv'
    <3>1. CASE lib # NoLib
      BY <2>2, <2>3, <3>1, CheckSourceType DEF Lookup, SourceInv
    <3>2. CASE lib = NoLib
      BY <2>3, <3>2 DEF Lookup, SourceInv, OkMeansMyFile, RefusedRightly, Misled
    <3>. QED
      BY <3>1, <3>2
  <2>4. ASSUME NEW t \in Threads, Acquire(t)
        PROVE  IInv'
    BY <2>4 DEF Acquire, SourceInv, OkMeansMyFile, RefusedRightly, Misled
  <2>5. ASSUME NEW t \in Threads, Recheck(t)
        PROVE  IInv'
    <3>1. CASE lib # NoLib
      BY <2>2, <2>5, <3>1, CheckSourceType DEF Recheck, SourceInv
    <3>2. CASE lib = NoLib
      BY <2>5, <3>2 DEF Recheck, SourceInv, OkMeansMyFile, RefusedRightly, Misled
    <3>. QED
      BY <3>1, <3>2
  <2>6. ASSUME NEW t \in Threads, Load(t)
        PROVE  IInv'
    BY <2>6 DEF Load, SourceInv, OkMeansMyFile, RefusedRightly, Misled
  <2>7. ASSUME NEW t \in Threads, Resolve(t)
        PROVE  IInv'
    BY <2>7 DEF Resolve, SourceInv, OkMeansMyFile, RefusedRightly, Misled
  <2>8. ASSUME NEW t \in Threads, Publish(t)
        PROVE  IInv'
    <3>1. lib = NoLib /\ lib' = loaded[t] /\ arg[t] \in Requests
      BY <2>8 DEF Publish
    <3>2. loaded[t] \in Loadable(arg[t])
      BY <2>8 DEF Publish
    <3>3. SourceInv'
      BY <3>1, <3>2, LoadableWellSourced DEF SourceInv
    <3>4. OkMeansMyFile'
      BY <2>8, <3>1, <3>2, LoadableFacts DEF Publish, OkMeansMyFile, Misled
    <3>5. RefusedRightly'
      BY <2>8, <3>1 DEF Publish, RefusedRightly, Misled
    <3>. QED
      BY <2>8, <3>1, <3>3, <3>4, <3>5 DEF Publish
  <2>9. ASSUME NEW t \in Threads, Unlock(t)
        PROVE  IInv'
    BY <2>9 DEF Unlock, SourceInv, OkMeansMyFile, RefusedRightly, Misled
  <2>10. CASE UNCHANGED vars
    BY <2>10 DEF vars, SourceInv, OkMeansMyFile, RefusedRightly, Misled
  <2>. QED
    BY <2>1, <2>3, <2>4, <2>5, <2>6, <2>7, <2>8, <2>9, <2>10 DEF Next, Run
<1>. QED
  BY <1>1, <1>2, TypeCorrect, PTL DEF Spec

(* INIT_LOCK and the re-check make the initial load happen once, and the   *)
(* expect() on YAC_LIB.set never fires (library.rs:19, 38-40).             *)
THEOREM InitialLoadOnce == Spec => []LoadsOnce
<1>1. IInv => LoadsOnce
  BY DEF IInv
<1>. QED
  BY <1>1, Inductive, PTL

(* No caller that named a path is given another caller's library, whatever *)
(* the file system holds, as long as neither its path nor the one that was *)
(* loaded is one file to dlopen and another to canonicalize.               *)
THEOREM AcceptedRequests == Spec => []OkMeansMyFile
<1>1. IInv => OkMeansMyFile
  BY DEF IInv
<1>. QED
  BY <1>1, Inductive, PTL

(* No caller is refused the file that is loaded, as far as the driver can  *)
(* tell files apart: both paths canonicalise and neither is ambiguous.     *)
THEOREM RefusedRequests == Spec => []RefusedRightly
<1>1. IInv => RefusedRightly
  BY DEF IInv
<1>. QED
  BY <1>1, Inductive, PTL
-----------------------------------------------------------------------------
(* The two modules share the pure part of the loader.                      *)
LEMMA SameSource ==
    /\ Once!Requests = Requests
    /\ \A c : Once!Loadable(c) = Loadable(c)
    /\ \A c, l : Once!CheckSource(c, l) = CheckSource(c, l)
<1>1. Once!Requests = Requests
  BY DEF Once!Requests, Requests
<1>2. ASSUME NEW c
      PROVE  Once!Loadable(c) = Loadable(c)
  BY DEF Once!Loadable, Loadable, Once!LoadAuto, LoadAuto,
         Once!LoadExplicit, LoadExplicit
<1>3. ASSUME NEW c, NEW l
      PROVE  Once!CheckSource(c, l) = CheckSource(c, l)
  BY DEF Once!CheckSource, CheckSource, Once!SourceMatches, SourceMatches
<1>. QED
  BY <1>1, <1>2, <1>3

(* The double-checked lock implements the atomic cell: the look that finds *)
(* a library is the abstract observation, the publication is the abstract  *)
(* fill, an error is the abstract failure, and every other step stutters.  *)
THEOREM ImplementsOnce == Spec => OnceSpec
<1>1. Init => Once!Init
  BY DEF Init, Once!Init
<1>2. IInv /\ [Next]_vars => [Once!Next]_(Once!vars)
  <2> SUFFICES ASSUME IInv, Next
               PROVE  Once!Next \/ UNCHANGED Once!vars
    BY DEF vars, Once!vars
  <2> USE DEF IInv, TypeOK, CallInv, Goto, Answer, Locations, Once!vars
  <2>1. ASSUME NEW t \in Threads, Call(t)
        PROVE  Once!Call(t)
    BY <2>1, SameSource DEF Call, Once!Call
  <2>2. ASSUME NEW t \in Threads, Lookup(t)
        PROVE  Once!Observe(t) \/ UNCHANGED Once!vars
    BY <2>2, SameSource DEF Lookup, Once!Observe, Once!Answer
  <2>3. ASSUME NEW t \in Threads, Recheck(t)
        PROVE  Once!Observe(t) \/ UNCHANGED Once!vars
    BY <2>3, SameSource DEF Recheck, Once!Observe, Once!Answer
  <2>4. ASSUME NEW t \in Threads, Load(t) \/ Resolve(t)
        PROVE  Once!Fail(t) \/ UNCHANGED Once!vars
    BY <2>4 DEF Load, Resolve, LoadsOnce, Loading, Once!Fail, Once!Answer
  <2>5. ASSUME NEW t \in Threads, Publish(t)
        PROVE  Once!Fill(t)
    BY <2>5, SameSource DEF Publish, LoadsOnce, Loading, Once!Fill, Once!Answer
  <2>6. ASSUME NEW t \in Threads, Acquire(t) \/ Unlock(t)
        PROVE  UNCHANGED Once!vars
    BY <2>6 DEF Acquire, Unlock
  <2>. QED
    BY <2>1, <2>2, <2>3, <2>4, <2>5, <2>6 DEF Next, Run, Once!Next
<1>. QED
  BY <1>1, <1>2, Inductive, PTL DEF Spec, OnceSpec, Once!Spec

(* YAC_LIB hands out &'static references: a library that was published     *)
(* stays the library, which is a promise of the atomic cell already.       *)
LibraryForGood == [][lib # NoLib => lib' = lib]_lib

(* library(): no caller, whatever path it names, ever replaces the         *)
(* library. It follows from ImplementsOnce and the specification of the    *)
(* cell alone.                                                             *)
THEOREM PublishedForGood == Spec => LibraryForGood
<1>1. [Once!Next]_(Once!vars) => [lib # NoLib => lib' = lib]_lib
  BY DEF Once!Next, Once!vars, Once!Call, Once!Fill, Once!Fail, Once!Observe
<1>2. Once!Spec => [][lib # NoLib => lib' = lib]_lib
  BY <1>1, PTL DEF Once!Spec
<1>. QED
  BY <1>2, ImplementsOnce, PTL DEF OnceSpec, LibraryForGood
-----------------------------------------------------------------------------
(* Waiting.  CallsReturn needs fairness; this is what it rests on.         *)

(* The lock is never left behind, by an error, an early return or the      *)
(* panic of the expect(): whoever holds it is on the way to release it,    *)
(* and nobody else is past it.                                             *)
LockHeldInside ==
    /\ lock # Free => InLock(lock)
    /\ \A t \in Threads : InLock(t) => lock = t

(* library.rs:28: the lock is held exactly by the one thread between       *)
(* lock() and the end of its scope, on every path out of it.               *)
THEOREM LockNeverLeaks == Spec => []LockHeldInside
<1>1. IInv => LockHeldInside
  BY DEF IInv, TypeOK, LockInv, LockHeldInside
<1>. QED
  BY <1>1, Inductive, PTL

(* The most steps a call of library() can still take.                      *)
Remaining(t) ==
    IF pc[t] = "idle" THEN 0
    ELSE IF pc[t] = "unlock" THEN 1
    ELSE IF pc[t] = "publish" THEN 2
    ELSE IF pc[t] = "resolve" THEN 3
    ELSE IF pc[t] = "load" THEN 4
    ELSE IF pc[t] = "recheck" THEN 5
    ELSE IF pc[t] = "lock" THEN 6
    ELSE 7

(* Each step of a call in library() brings it nearer to its return, and no *)
(* step of another thread takes it back: a call takes at most seven steps, *)
(* and can only be kept waiting at INIT_LOCK, whose holder has at most     *)
(* five to take.                                                           *)
CallShortens ==
    \A t \in Threads :
        pc[t] # "idle" =>
            \/ pc'[t] = pc[t]
            \/ Remaining(t) \in 1..7 /\ Remaining(t)' \in 0..6 /\ Remaining(t)' < Remaining(t)

(* library(): a call takes at most seven steps of its own, in every        *)
(* interleaving of the threads.                                            *)
THEOREM CallsShorten == Spec => [][CallShortens]_vars
<1>1. ASSUME TypeOK, Next PROVE CallShortens
  <2>. SUFFICES ASSUME NEW t \in Threads, pc[t] # "idle", pc'[t] # pc[t]
                PROVE  /\ Remaining(t) \in 1..7 /\ Remaining(t)' \in 0..6
                       /\ Remaining(t)' < Remaining(t)
    BY DEF CallShortens
  <2>1. PICK u \in Threads : Call(u) \/ Run(u)
    BY <1>1 DEF Next
  <2>2. u = t /\ Run(t)
    BY <1>1, <2>1 DEF TypeOK, Call, Run, Goto, Lookup, Acquire, Recheck, Load, Resolve,
                      Publish, Unlock
  <2>3. \/ pc[t] = "lookup" /\ pc'[t] \in {"idle", "lock"}
        \/ pc[t] = "lock" /\ pc'[t] = "recheck"
        \/ pc[t] = "recheck" /\ pc'[t] \in {"unlock", "load"}
        \/ pc[t] = "load" /\ pc'[t] \in {"resolve", "unlock"}
        \/ pc[t] = "resolve" /\ pc'[t] \in {"publish", "unlock"}
        \/ pc[t] = "publish" /\ pc'[t] = "unlock"
        \/ pc[t] = "unlock" /\ pc'[t] = "idle"
    BY <1>1, <2>2 DEF TypeOK, Run, Goto, Lookup, Acquire, Recheck, Load, Resolve, Publish, Unlock
  <2>. QED
    BY <2>3 DEF Remaining
<1>. QED
  BY <1>1, TypeCorrect, PTL DEF Spec
=============================================================================
