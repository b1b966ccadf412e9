--------------------------- MODULE LibraryLoader ---------------------------
(***************************************************************************)
(* library::library(custom), called by any number of threads: a lock-free  *)
(* look at the YAC_LIB cell, then INIT_LOCK, a second look, the load, the  *)
(* resolution of the symbols, and the publication of the result.           *)
(* INIT_LOCK recovers from poisoning, so acquiring it only waits for the   *)
(* lock to be free.                                                        *)
(***************************************************************************)
EXTENDS LibrarySource

CONSTANTS Threads, NoLib, Free

ASSUME LoaderAssumption ==
    /\ NoLib \notin Libraries
    /\ Free \notin Threads

VARIABLES
    lib,       \* YAC_LIB: a library or NoLib
    lock,      \* INIT_LOCK: the thread that holds it, or Free
    pc,        \* where each thread is in library()
    arg,       \* custom, per thread
    loaded,    \* the local `loaded`, per thread (NoLib outside the load)
    result     \* what each thread's last call returned

vars == <<lib, lock, pc, arg, loaded, result>>

Locations == {"idle", "lookup", "lock", "recheck", "load", "resolve",
              "publish", "unlock"}
Results == {"none", "pending", "ok", "conflict", "failed", "panic"}

TypeOK ==
    /\ lib \in Libraries \union {NoLib}
    /\ lock \in Threads \union {Free}
    /\ pc \in [Threads -> Locations]
    /\ arg \in [Threads -> Requests]
    /\ loaded \in [Threads -> Libraries \union {NoLib}]
    /\ result \in [Threads -> Results]

Init ==
    /\ lib = NoLib
    /\ lock = Free
    /\ pc = [t \in Threads |-> "idle"]
    /\ arg = [t \in Threads |-> Discover]
    /\ loaded = [t \in Threads |-> NoLib]
    /\ result = [t \in Threads |-> "none"]

Goto(t, from, to) == pc[t] = from /\ pc' = [pc EXCEPT ![t] = to]

Answer(t, r) == result' = [result EXCEPT ![t] = r]

(* load_library (Discover), load_library_with_path (a path) and the first      *)
(* connect all enter here.                                                 *)
Call(t) ==
    /\ Goto(t, "idle", "lookup")
    /\ \E c \in Requests : arg' = [arg EXCEPT ![t] = c]
    /\ Answer(t, "pending")
    /\ UNCHANGED <<lib, lock, loaded>>

(* Mutant: the fast path returns the library whatever was asked for.       *)
LookupUnchecked(t) ==
    /\ \/ /\ lib # NoLib
          /\ Goto(t, "lookup", "idle")
          /\ Answer(t, "ok")
       \/ /\ lib = NoLib
          /\ Goto(t, "lookup", "lock")
          /\ UNCHANGED result
    /\ UNCHANGED <<lib, lock, arg, loaded>>

(* YAC_LIB.get() without the lock.                                         *)
Lookup(t) ==
    /\ \/ /\ lib # NoLib
          /\ Goto(t, "lookup", "idle")
          /\ Answer(t, CheckSource(arg[t], lib))
       \/ /\ lib = NoLib
          /\ Goto(t, "lookup", "lock")
          /\ UNCHANGED result
    /\ UNCHANGED <<lib, lock, arg, loaded>>

Acquire(t) ==
    /\ Goto(t, "lock", "recheck")
    /\ lock = Free
    /\ lock' = t
    /\ UNCHANGED <<lib, arg, loaded, result>>

(* Mutant: no second look at the cell.                                     *)
RecheckNothing(t) ==
    /\ Goto(t, "recheck", "load")
    /\ UNCHANGED <<lib, lock, arg, loaded, result>>

(* Mutant: the early return under the lock leaves it held.                 *)
RecheckKeepsLock(t) ==
    /\ \/ /\ lib # NoLib
          /\ Goto(t, "recheck", "idle")
          /\ Answer(t, CheckSource(arg[t], lib))
       \/ /\ lib = NoLib
          /\ Goto(t, "recheck", "load")
          /\ UNCHANGED result
    /\ UNCHANGED <<lib, lock, arg, loaded>>

(* YAC_LIB.get() again, under the lock.                                    *)
Recheck(t) ==
    /\ \/ /\ lib # NoLib
          /\ Goto(t, "recheck", "unlock")
          /\ Answer(t, CheckSource(arg[t], lib))
       \/ /\ lib = NoLib
          /\ Goto(t, "recheck", "load")
          /\ UNCHANGED result
    /\ UNCHANGED <<lib, lock, arg, loaded>>

(* load_explicit or load_auto, and `?` on its error.                       *)
Load(t) ==
    /\ \/ /\ Goto(t, "load", "resolve")
          /\ \E l \in Loadable(arg[t]) : loaded' = [loaded EXCEPT ![t] = l]
          /\ UNCHANGED result
       \/ /\ Goto(t, "load", "unlock")
          /\ Answer(t, "failed")
          /\ UNCHANGED loaded
    /\ UNCHANGED <<lib, lock, arg>>

(* YacLib::from_loaded: a missing symbol drops the library just opened.    *)
Resolve(t) ==
    /\ \/ /\ Goto(t, "resolve", "publish")
          /\ UNCHANGED <<loaded, result>>
       \/ /\ Goto(t, "resolve", "unlock")
          /\ loaded' = [loaded EXCEPT ![t] = NoLib]
          /\ Answer(t, "failed")
    /\ UNCHANGED <<lib, lock, arg>>

(* YAC_LIB.set(lib).expect(..): a cell that is already full panics.        *)
Publish(t) ==
    /\ Goto(t, "publish", "unlock")
    /\ lib' = IF lib = NoLib THEN loaded[t] ELSE lib
    /\ Answer(t, IF lib = NoLib THEN "ok" ELSE "panic")
    /\ loaded' = [loaded EXCEPT ![t] = NoLib]
    /\ UNCHANGED <<lock, arg>>

(* The guard is dropped on every way out.                                  *)
Unlock(t) ==
    /\ Goto(t, "unlock", "idle")
    /\ lock' = Free
    /\ UNCHANGED <<lib, arg, loaded, result>>

Run(t) == \/ Lookup(t) \/ Acquire(t) \/ Recheck(t) \/ Load(t)
          \/ Resolve(t) \/ Publish(t) \/ Unlock(t)

Next == \E t \in Threads : Call(t) \/ Run(t)

Spec == Init /\ [][Next]_vars

(* A thread inside library() keeps running.  INIT_LOCK is not fair: a      *)
(* waiting thread is only served if the lock stays free.                   *)
FairSpec == Spec /\ \A t \in Threads : WF_vars(Run(t))

-----------------------------------------------------------------------------
InLock(t) == pc[t] \in {"recheck", "load", "resolve", "publish", "unlock"}
Loading(t) == pc[t] \in {"load", "resolve", "publish"}

(* The initial load is serialised and never repeated: no two threads are   *)
(* inside it, none is once a library is published, and the expect() on     *)
(* YAC_LIB.set cannot fire.                                                *)
LoadsOnce ==
    /\ \A t, u \in Threads : Loading(t) /\ Loading(u) => t = u
    /\ \A t \in Threads : Loading(t) => lib = NoLib
    /\ \A t \in Threads : result[t] # "panic"

(* Whether a path or the one the library was loaded by misleads the driver *)
(* about which file is meant.                                              *)
Misled(t) == Ambiguous(arg[t]) \/ Ambiguous(lib.asked)

(* A caller that named a path and was told Ok has the file its path opens, *)
(* whoever loaded it, and never another caller's library, unless a name    *)
(* without a directory is one file to dlopen and another to canonicalize.  *)
OkMeansMyFile ==
    \A t \in Threads :
        result[t] = "ok" /\ arg[t] # Discover =>
            lib # NoLib /\ (lib.file = DlFile[arg[t]] \/ Misled(t))

(* A caller that named a path and was refused does ask for another file,   *)
(* whenever the driver could know: the path canonicalises, so did the one  *)
(* the library was loaded from, and neither is ambiguous.                  *)
RefusedRightly ==
    \A t \in Threads :
        result[t] = "conflict" =>
            /\ lib # NoLib
            /\ lib.source \in Files /\ Canon[arg[t]] # NoFile =>
                 lib.file # DlFile[arg[t]] \/ Misled(t)

(* The inductive invariant behind the three: the lock is held by exactly the    *)
(* threads inside the critical section, a pending call is one between      *)
(* Call and its answer, and a library being loaded is the caller's own.    *)
LockInv ==
    \A t \in Threads : InLock(t) <=> lock = t

CallInv ==
    \A t \in Threads :
        /\ result[t] = "pending" <=> pc[t] \notin {"idle", "unlock"}
        /\ pc[t] \in {"resolve", "publish"} => loaded[t] \in Loadable(arg[t])

(* A library with a known source is the file that source names, unless the *)
(* path it was loaded by is ambiguous.                                     *)
WellSourced(l) == l.source \in Files => l.source = l.file \/ Ambiguous(l.asked)

SourceInv == lib # NoLib => WellSourced(lib)

IInv ==
    /\ TypeOK /\ LockInv /\ CallInv /\ SourceInv
    /\ LoadsOnce /\ OkMeansMyFile /\ RefusedRightly

(* library() behaves as one atomic operation on the cell: the lock, the    *)
(* places in the call and the library being loaded are hidden.             *)
Once == INSTANCE OnceLibrary
        WITH Threads <- Threads,
             NoLib <- NoLib,
             lib <- lib,
             arg <- arg,
             result <- result
OnceSpec == Once!Spec

(* Once some thread has published a library, every call already inside     *)
(* library() returns, although INIT_LOCK makes no promise of fairness.     *)
CallsReturn ==
    \A t \in Threads : (lib # NoLib /\ pc[t] # "idle") ~> pc[t] = "idle"
=============================================================================
