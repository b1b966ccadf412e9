---------------------------- MODULE OnceLibrary ----------------------------
(***************************************************************************)
(* What the loader promises its callers: one process-wide library cell     *)
(* that every call consults in a single instant.  A call that finds the    *)
(* cell empty either fills it or fails and leaves it empty; a call that    *)
(* finds it full is judged against its source and never touches it.        *)
(* No lock, no fast path and no intermediate states.                       *)
(***************************************************************************)
EXTENDS LibrarySource

CONSTANTS Threads, NoLib

VARIABLES lib, arg, result

vars == <<lib, arg, result>>

Init ==
    /\ lib = NoLib
    /\ arg = [t \in Threads |-> Discover]
    /\ result = [t \in Threads |-> "none"]

Call(t) ==
    /\ result[t] # "pending"
    /\ \E c \in Requests : arg' = [arg EXCEPT ![t] = c]
    /\ result' = [result EXCEPT ![t] = "pending"]
    /\ UNCHANGED lib

Answer(t, r) ==
    /\ result[t] = "pending"
    /\ result' = [result EXCEPT ![t] = r]
    /\ UNCHANGED arg

(* The first successful attempt fills the cell.                            *)
Fill(t) ==
    /\ lib = NoLib
    /\ lib' \in Loadable(arg[t])
    /\ Answer(t, "ok")

(* A failed attempt leaves the cell empty, so that a later call retries.   *)
Fail(t) ==
    /\ lib = NoLib
    /\ Answer(t, "failed")
    /\ UNCHANGED lib

(* Any other call sees the library of the first one.                       *)
Observe(t) ==
    /\ lib # NoLib
    /\ Answer(t, CheckSource(arg[t], lib))
    /\ UNCHANGED lib

Next == \E t \in Threads : Call(t) \/ Fill(t) \/ Fail(t) \/ Observe(t)

Spec == Init /\ [][Next]_vars
=============================================================================
