-------------------------- MODULE TransactionGuard --------------------------
(***************************************************************************)
(* Connection::transaction and the Transaction guard over the connection's *)
(* one native transaction: how work done inside and outside guards is      *)
(* committed or discarded, and what happens to the auto-commit mode.       *)
(*                                                                         *)
(* The server side is external: it keeps one transaction per session, an   *)
(* auto-committed statement commits everything that is pending, changing   *)
(* the mode commits nothing (conn.rs:139), and a commit that reports an    *)
(* error may still have happened, may have discarded the work, or may have *)
(* left it pending.  Reading or setting the mode panics when the client    *)
(* reports an error (attr.rs:170, 217), the mode being as it was; an       *)
(* application that catches the panic goes on with the connection.         *)
(***************************************************************************)
EXTENDS Naturals

CONSTANTS
    Work,       \* statements that change data, each executed once
    Guards,     \* transaction guards, each used once
    NoGuard     \* "no guard": work done directly on the connection

ASSUME GuardAssumption == NoGuard \notin Guards

VARIABLES
    autoCommit,  \* the native auto-commit attribute
    guard,       \* the guard that borrows the connection, or NoGuard
    restore,     \* Transaction.restore_auto_commit of that guard
    pending, committed, discarded,  \* the server's view of executed work
    requested,   \* history: the mode the application asked for
    lost,        \* history: giving the mode back panicked; not set since
    owner,       \* history: the guard each work item was executed under
    outcome      \* history: what the native call that ended each guard returned

native == <<pending, committed, discarded>>
history == <<requested, lost, owner, outcome>>
vars == <<autoCommit, guard, restore, native, history>>

Outcomes == {"unused", "open", "committed", "commitFailed", "rolledBack",
             "rollbackFailed", "dropped", "dropFailed"}

Executed == pending \union committed \union discarded
WorkOf(g) == {w \in Executed : owner[w] = g}

TypeOK ==
    /\ autoCommit \in BOOLEAN
    /\ guard \in Guards \union {NoGuard}
    /\ restore \in BOOLEAN
    /\ pending \subseteq Work
    /\ committed \subseteq Work
    /\ discarded \subseteq Work
    /\ requested \in BOOLEAN
    /\ lost \in BOOLEAN
    /\ owner \in [Work -> Guards \union {NoGuard}]
    /\ outcome \in [Guards -> Outcomes]
    \* A work item is in one place.
    /\ pending \intersect committed = {}
    /\ (pending \union committed) \intersect discarded = {}

(* ConnectionBuilder::connect sets the mode; manual commit by default.     *)
Init ==
    /\ autoCommit \in BOOLEAN
    /\ guard = NoGuard
    /\ restore = FALSE
    /\ pending = {} /\ committed = {} /\ discarded = {}
    /\ requested = autoCommit
    /\ lost = FALSE
    /\ owner = [w \in Work |-> NoGuard]
    /\ outcome = [g \in Guards |-> "unused"]

-----------------------------------------------------------------------------
(* The native calls and their outcomes.                                    *)

CommitSucceeds ==
    /\ committed' = committed \union pending
    /\ pending' = {}
    /\ UNCHANGED discarded

RollbackSucceeds ==
    /\ discarded' = discarded \union pending
    /\ pending' = {}
    /\ UNCHANGED committed

(* yacCommit or yacRollback returned an error.                             *)
CommitFails == UNCHANGED native \/ CommitSucceeds \/ RollbackSucceeds
RollbackFails == UNCHANGED native \/ RollbackSucceeds

(* A statement that changes data, by any of the execute methods, on the    *)
(* connection or through the guard's delegates.  A failed statement        *)
(* changes nothing.                                                        *)
Execute(w) ==
    /\ w \notin Executed
    /\ owner' = [owner EXCEPT ![w] = guard]
    /\ IF autoCommit
         THEN /\ committed' = committed \union pending \union {w}
              /\ pending' = {}
         ELSE /\ pending' = pending \union {w}
              /\ UNCHANGED committed
    /\ UNCHANGED <<autoCommit, guard, restore, discarded, requested, lost, outcome>>

-----------------------------------------------------------------------------
(* Operations on the connection, possible only while no guard borrows it.  *)

(* A panic changes nothing.                                                *)
SetAutoCommit(enabled) ==
    /\ guard = NoGuard
    /\ \/ /\ autoCommit' = enabled
          /\ requested' = enabled
          /\ lost' = FALSE
          /\ UNCHANGED <<guard, restore, native, owner, outcome>>
       \/ UNCHANGED vars

ConnectionCommit ==
    /\ guard = NoGuard
    /\ CommitSucceeds \/ CommitFails
    /\ UNCHANGED <<autoCommit, guard, restore, history>>

ConnectionRollback ==
    /\ guard = NoGuard
    /\ RollbackSucceeds \/ RollbackFails
    /\ UNCHANGED <<autoCommit, guard, restore, history>>

(* Mutant: the transaction starts with auto-commit left on.                *)
BeginAutoCommitted(g) ==
    /\ guard = NoGuard
    /\ outcome[g] = "unused"
    /\ guard' = g
    /\ restore' = autoCommit
    /\ outcome' = [outcome EXCEPT ![g] = "open"]
    /\ UNCHANGED <<autoCommit, native, requested, lost, owner>>

(* Connection::transaction; when reading the mode or switching it off      *)
(* panics there is no guard and nothing has changed.                       *)
Begin(g) ==
    /\ guard = NoGuard
    /\ outcome[g] = "unused"
    /\ \/ /\ guard' = g
          /\ restore' = autoCommit
          /\ autoCommit' = FALSE
          /\ outcome' = [outcome EXCEPT ![g] = "open"]
          /\ UNCHANGED <<native, requested, lost, owner>>
       \/ UNCHANGED vars

-----------------------------------------------------------------------------
(* Operations that consume the guard.                                      *)

(* The end of finish() and of Drop: set_auto_commit(true) if the guard had *)
(* switched it off.  When that panics, the unwinding drops a guard that    *)
(* finish() has completed already, so nothing tries again; in a Drop that  *)
(* is itself part of an unwinding the process ends.                        *)
RestoreMode ==
    /\ guard' = NoGuard
    /\ restore' = FALSE
    /\ \/ autoCommit' = (autoCommit \/ restore) /\ UNCHANGED lost
       \/ restore /\ lost' = TRUE /\ UNCHANGED autoCommit

Ended(how) == outcome' = [outcome EXCEPT ![guard] = how]

(* Transaction::commit: whatever yacCommit returned, the guard is          *)
(* completed, so that its Drop does nothing, and the mode is restored.     *)
Commit ==
    /\ guard # NoGuard
    /\ \/ CommitSucceeds /\ Ended("committed")
       \/ CommitFails /\ Ended("commitFailed")
    /\ RestoreMode
    /\ UNCHANGED <<requested, owner>>

(* Mutant: rollback() leaves the rollback to the drop of the guard, which  *)
(* does nothing, as the guard is completed.                                *)
RollbackLeftToDrop ==
    /\ guard # NoGuard
    /\ Ended("rolledBack")
    /\ RestoreMode
    /\ UNCHANGED <<native, requested, owner>>

(* Transaction::rollback *)
Rollback ==
    /\ guard # NoGuard
    /\ \/ RollbackSucceeds /\ Ended("rolledBack")
       \/ RollbackFails /\ Ended("rollbackFailed")
    /\ RestoreMode
    /\ UNCHANGED <<requested, owner>>

(* Mutant: dropping the guard rolls back but leaves manual commit.         *)
DropKeepsMode ==
    /\ guard # NoGuard
    /\ \/ RollbackSucceeds /\ Ended("dropped")
       \/ RollbackFails /\ Ended("dropFailed")
    /\ guard' = NoGuard
    /\ restore' = FALSE
    /\ UNCHANGED <<autoCommit, requested, lost, owner>>

(* Mutant: dropping the guard restores the mode but does not roll back.    *)
DropKeepsWork ==
    /\ guard # NoGuard
    /\ Ended("dropped")
    /\ RestoreMode
    /\ UNCHANGED <<native, requested, owner>>

(* Drop of a guard that was not completed, also during unwinding.          *)
Drop ==
    /\ guard # NoGuard
    /\ \/ RollbackSucceeds /\ Ended("dropped")
       \/ RollbackFails /\ Ended("dropFailed")
    /\ RestoreMode
    /\ UNCHANGED <<requested, owner>>

Next ==
    \/ \E w \in Work : Execute(w)
    \/ \E enabled \in BOOLEAN : SetAutoCommit(enabled)
    \/ ConnectionCommit
    \/ ConnectionRollback
    \/ \E g \in Guards : Begin(g)
    \/ Commit
    \/ Rollback
    \/ Drop

Spec == Init /\ [][Next]_vars

-----------------------------------------------------------------------------
(* The guard borrows the mode and gives it back: with no guard alive the   *)
(* connection is in the mode the application last asked for, whatever the  *)
(* previous guards' commits and rollbacks returned, and it is not exactly  *)
(* where set_auto_commit(true) panicked at the end of a guard and the      *)
(* application has not set the mode since; while a guard is alive          *)
(* auto-commit is off.                                                     *)
ModeRestored ==
    IF guard = NoGuard THEN autoCommit = (requested /\ ~lost)
                       ELSE ~autoCommit /\ restore = (requested /\ ~lost)

(* A guard's work moves as a unit: nothing of it is committed or discarded *)
(* while the guard is open, and afterwards all of it has the same fate.    *)
AllOrNothing ==
    \A g \in Guards :
        /\ outcome[g] = "open" => WorkOf(g) \subseteq pending
        /\ \/ WorkOf(g) \subseteq pending
           \/ WorkOf(g) \subseteq committed
           \/ WorkOf(g) \subseteq discarded

(* Ok from commit() means committed; Ok from rollback(), or a drop whose   *)
(* rollback went through, means that no later statement ever commits it.   *)
OutcomeKept ==
    \A g \in Guards :
        /\ outcome[g] = "committed" => WorkOf(g) \subseteq committed
        /\ outcome[g] \in {"rolledBack", "dropped"} => WorkOf(g) \subseteq discarded

(* Transaction::finish: the work of a guard that has ended is still        *)
(* pending, for a later statement or commit() to commit, only where the    *)
(* native commit or rollback that ended the guard returned an error.       *)
LeftPendingAfterFailure ==
    \A g \in Guards :
        g # guard /\ WorkOf(g) \intersect pending # {} =>
            outcome[g] \in {"commitFailed", "rollbackFailed", "dropFailed"}

(* Each open guard is the one that borrows the connection, and a guard     *)
(* that was never opened has no work.                                      *)
GuardInv ==
    /\ guard = NoGuard => ~restore
    /\ \A g \in Guards : outcome[g] = "open" <=> guard = g
    /\ \A g \in Guards : outcome[g] = "unused" => WorkOf(g) = {}

IInv == TypeOK /\ GuardInv /\ ModeRestored /\ AllOrNothing /\ OutcomeKept

(* transaction.rs:18, "Unless it is explicitly committed or rolled back,   *)
(* dropping this guard attempts to roll back the current connection        *)
(* transaction": work of a guard that was not committed is not left        *)
(* pending for a later auto-committed statement unless a rollback was      *)
(* tried and failed.                                                       *)
NotLeftPending ==
    \A g \in Guards :
        outcome[g] = "commitFailed" /\ guard = NoGuard /\ autoCommit =>
            WorkOf(g) \intersect pending = {}
=============================================================================
