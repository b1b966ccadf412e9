---------------------- MODULE TransactionGuard_proofs ----------------------
(***************************************************************************)
(* Proofs about TransactionGuard for any number of guards and any amount   *)
(* of work, whatever the commits and rollbacks of the server return.       *)
(***************************************************************************)
EXTENDS TransactionGuard, TLAPS

(* A native commit or rollback, failed or not, moves pending work as a     *)
(* whole: these are its only three effects.                                *)
LEMMA NativeEffects ==
    ASSUME TypeOK, CommitSucceeds \/ CommitFails \/ RollbackSucceeds \/ RollbackFails
    PROVE  \/ UNCHANGED native
           \/ /\ committed' = committed \union pending /\ pending' = {}
              /\ discarded' = discarded
           \/ /\ discarded' = discarded \union pending /\ pending' = {}
              /\ committed' = committed
BY DEF CommitSucceeds, CommitFails, RollbackSucceeds, RollbackFails, native

(* Type correctness, with the server's three sets kept disjoint.           *)
THEOREM TypeCorrect == Spec => []TypeOK
<1>1. Init => TypeOK
  BY DEF Init, TypeOK, Outcomes
<1>2. TypeOK /\ [Next]_vars => TypeOK'
  <2> SUFFICES ASSUME TypeOK, [Next]_vars
               PROVE  TypeOK'
    OBVIOUS
  <2> USE DEF TypeOK
  <2>1. ASSUME NEW w \in Work, Execute(w)
        PROVE  TypeOK'
    BY <2>1 DEF Execute, Executed
  <2>2. ASSUME NEW enabled \in BOOLEAN, SetAutoCommit(enabled)
        PROVE  TypeOK'
    BY <2>2 DEF SetAutoCommit, native, vars, history
  <2>3. CASE ConnectionCommit \/ ConnectionRollback
    BY <2>3, NativeEffects DEF ConnectionCommit, ConnectionRollback, history, native
  <2>4. ASSUME NEW g \in Guards, Begin(g)
        PROVE  TypeOK'
    BY <2>4 DEF Begin, Outcomes, native, vars, history
  <2>5. CASE Commit \/ Rollback \/ Drop
    BY <2>5, NativeEffects
    DEF Commit, Rollback, Drop, RestoreMode, Ended, Outcomes, native
  <2>6. CASE UNCHANGED vars
    BY <2>6 DEF vars, native, history
  <2>. QED
    BY <2>1, <2>2, <2>3, <2>4, <2>5, <2>6 DEF Next
<1>. QED
  BY <1>1, <1>2, PTL DEF Spec

(* The ways a guard ends, whatever the server answers: all of its work     *)
(* keeps one place, and the mode comes back.                               *)
LEMMA GuardEnds ==
    ASSUME IInv, TypeOK', Commit \/ Rollback \/ Drop
    PROVE  IInv'
<1> USE DEF IInv
<1>1. PICK how \in Outcomes \ {"open", "unused"} :
        /\ Ended(how)
        /\ how = "committed" => CommitSucceeds
        /\ how \in {"rolledBack", "dropped"} => RollbackSucceeds
  BY DEF Commit, Rollback, Drop, Outcomes
<1>2. guard # NoGuard /\ RestoreMode /\ UNCHANGED <<requested, owner>>
  BY DEF Commit, Rollback, Drop
<1>3. \/ UNCHANGED native
      \/ /\ committed' = committed \union pending /\ pending' = {}
         /\ discarded' = discarded
      \/ /\ discarded' = discarded \union pending /\ pending' = {}
         /\ committed' = committed
  BY NativeEffects DEF Commit, Rollback, Drop
<1>4. \A g : WorkOf(g)' = WorkOf(g)
  BY <1>2, <1>3 DEF WorkOf, Executed, native
<1>5. outcome[guard] = "open" /\ WorkOf(guard) \subseteq pending
  BY <1>2 DEF GuardInv, AllOrNothing, TypeOK
<1>6. outcome' = [outcome EXCEPT ![guard] = how] /\ guard \in Guards
  BY <1>1, <1>2 DEF Ended, TypeOK
<1>7. GuardInv'
  BY <1>1, <1>2, <1>4, <1>6, GuardAssumption DEF GuardInv, RestoreMode, TypeOK
<1>8. ModeRestored'
  BY <1>2, GuardAssumption DEF ModeRestored, RestoreMode, TypeOK
<1>9. AllOrNothing'
  <2>1. \A g \in Guards : outcome'[g] # "open"
    BY <1>1, <1>2, <1>6, <1>7 DEF GuardInv, RestoreMode, TypeOK
  <2>. QED
    BY <1>3, <1>4, <2>1 DEF AllOrNothing, native
<1>10. OutcomeKept'
  <2> SUFFICES ASSUME NEW g \in Guards
               PROVE  /\ outcome'[g] = "committed" => WorkOf(g) \subseteq committed'
                      /\ outcome'[g] \in {"rolledBack", "dropped"} =>
                            WorkOf(g) \subseteq discarded'
    BY <1>4 DEF OutcomeKept
  <2>1. CASE g = guard
    BY <1>1, <1>5, <1>6, <2>1 DEF TypeOK, CommitSucceeds, RollbackSucceeds
  <2>2. CASE g # guard
    <3>1. outcome'[g] = outcome[g]
      BY <1>6, <2>2 DEF TypeOK
    <3>. QED
      BY <1>3, <3>1 DEF OutcomeKept, native
  <2>. QED
    BY <2>1, <2>2
<1>. QED
  BY <1>7, <1>8, <1>9, <1>10

(* The inductive invariant.  Auto-commit off while a guard is open keeps   *)
(* the guard's work pending, and pending work only ever moves as a whole.  *)
LEMMA Inductive == Spec => []IInv
<1>1. Init => IInv
  <2>1. Init => TypeOK
    BY DEF Init, TypeOK, Outcomes
  <2>2. Init => ModeRestored
    <3>. SUFFICES ASSUME Init
                  PROVE  autoCommit = (requested /\ ~lost)
      BY DEF Init, ModeRestored
    <3>1. autoCommit \in BOOLEAN /\ requested = autoCommit /\ ~lost
      BY DEF Init
    <3>2. CASE autoCommit
      BY <3>1, <3>2
    <3>3. CASE ~autoCommit
      BY <3>1, <3>3
    <3>. QED
      BY <3>2, <3>3
  <2>3. Init => GuardInv /\ AllOrNothing /\ OutcomeKept
    BY GuardAssumption
    DEF Init, GuardInv, AllOrNothing, OutcomeKept, WorkOf, Executed
  <2>. QED
    BY <2>1, <2>2, <2>3 DEF IInv
<1>2. IInv /\ TypeOK' /\ [Next]_vars => IInv'
  <2> SUFFICES ASSUME IInv, TypeOK', [Next]_vars
               PROVE  IInv'
    OBVIOUS
  <2> USE GuardAssumption
      DEF IInv, TypeOK, GuardInv, ModeRestored, AllOrNothing, OutcomeKept,
          WorkOf, Executed
  <2>1. ASSUME NEW w \in Work, Execute(w)
        PROVE  IInv'
    BY <2>1 DEF Execute
  <2>2. ASSUME NEW enabled \in BOOLEAN, SetAutoCommit(enabled)
        PROVE  IInv'
    BY <2>2 DEF SetAutoCommit, native, vars, history
  <2>3. CASE ConnectionCommit \/ ConnectionRollback
    BY <2>3, NativeEffects DEF ConnectionCommit, ConnectionRollback, history, native
  <2>4. ASSUME NEW g \in Guards, Begin(g)
        PROVE  IInv'
    BY <2>4 DEF Begin, Outcomes, native, vars, history
  <2>5. CASE Commit \/ Rollback \/ Drop
    BY <2>5, GuardEnds
  <2>8. CASE UNCHANGED vars
    BY <2>8 DEF vars, native, history
  <2>. QED
    BY <2>1, <2>2, <2>3, <2>4, <2>5, <2>8 DEF Next
<1>. QED
  BY <1>1, <1>2, TypeCorrect, PTL DEF Spec

(* Guards give the auto-commit mode back on every path but the panic of    *)
(* the setter itself, whichever guards panicked before.                    *)
THEOREM ModeIsRestored == Spec => []ModeRestored
<1>1. IInv => ModeRestored
  BY DEF IInv
<1>. QED
  BY <1>1, Inductive, PTL

(* A guard's work is committed, discarded or left pending as a unit.       *)
THEOREM Atomicity == Spec => []AllOrNothing
<1>1. IInv => AllOrNothing
  BY DEF IInv
<1>. QED
  BY <1>1, Inductive, PTL

(* What commit(), rollback() and a drop that worked said stays true.       *)
THEOREM OutcomesAreFinal == Spec => []OutcomeKept
<1>1. IInv => OutcomeKept
  BY DEF IInv
<1>. QED
  BY <1>1, Inductive, PTL
-----------------------------------------------------------------------------
(* What a guard that has ended can leave behind.                           *)

(* Transaction::finish: the work of a guard that has ended is still        *)
(* pending only where its commit or its rollback returned an error.        *)
THEOREM OnlyFailuresLeaveWork == Spec => []LeftPendingAfterFailure
<1>1. IInv => LeftPendingAfterFailure
  <2>. SUFFICES ASSUME IInv, NEW g \in Guards, g # guard, NEW w \in WorkOf(g) \intersect pending
                PROVE  outcome[g] \in {"commitFailed", "rollbackFailed", "dropFailed"}
    BY DEF LeftPendingAfterFailure
  <2>1. w \notin committed /\ w \notin discarded /\ outcome[g] \in Outcomes
    BY DEF IInv, TypeOK
  <2>2. outcome[g] \notin {"open", "unused"}
    BY DEF IInv, GuardInv
  <2>3. outcome[g] \notin {"committed", "rolledBack", "dropped"}
    BY <2>1 DEF IInv, OutcomeKept
  <2>. QED
    BY <2>1, <2>2, <2>3 DEF Outcomes
<1>. QED
  BY <1>1, Inductive, PTL

(* What has been decided stays decided: committed work is never discarded, *)
(* discarded work never committed, the work of a guard stays its own, and  *)
(* an ended guard is not opened or ended again.                            *)
FateKept ==
    [][/\ committed \subseteq committed' /\ discarded \subseteq discarded'
       /\ pending \subseteq pending' \union committed' \union discarded'
       /\ \A w \in Executed : w \in Executed' /\ owner'[w] = owner[w]
       /\ \A g \in Guards : outcome[g] \notin {"unused", "open"} =>
            outcome'[g] = outcome[g]]_vars

(* No step of the connection, of a guard or of the server's answers takes  *)
(* back what became of a statement or of a guard before.                   *)
THEOREM FateIsFinal == Spec => FateKept
<1>. DEFINE Kept ==
       /\ committed \subseteq committed' /\ discarded \subseteq discarded'
       /\ pending \subseteq pending' \union committed' \union discarded'
       /\ \A w \in Executed : w \in Executed' /\ owner'[w] = owner[w]
       /\ \A g \in Guards : outcome[g] \notin {"unused", "open"} => outcome'[g] = outcome[g]
<1>1. ASSUME IInv, Next
      PROVE  Kept
  <2>. USE DEF IInv, TypeOK, Executed
  <2>1. ASSUME NEW w \in Work, Execute(w)
        PROVE  Kept
    BY <1>1, <2>1 DEF Execute
  <2>2. ASSUME NEW enabled \in BOOLEAN, SetAutoCommit(enabled)
        PROVE  Kept
    BY <1>1, <2>2 DEF SetAutoCommit, native, vars, history
  <2>3. CASE ConnectionCommit \/ ConnectionRollback
    BY <1>1, <2>3, NativeEffects DEF ConnectionCommit, ConnectionRollback, history, native
  <2>4. ASSUME NEW g \in Guards, Begin(g)
        PROVE  Kept
    BY <1>1, <2>4 DEF Begin, native, vars, history
  <2>5. CASE Commit \/ Rollback \/ Drop
    <3>1. PICK how \in Outcomes : Ended(how)
      BY <2>5 DEF Commit, Rollback, Drop, Outcomes
    <3>2. guard \in Guards /\ outcome[guard] = "open"
      BY <1>1, <2>5 DEF Commit, Rollback, Drop, GuardInv
    <3>3. \A g \in Guards : outcome[g] \notin {"unused", "open"} => outcome'[g] = outcome[g]
      BY <1>1, <3>1, <3>2 DEF Ended
    <3>4. owner' = owner
      BY <2>5 DEF Commit, Rollback, Drop
    <3>. QED
      BY <1>1, <2>5, <3>3, <3>4, NativeEffects DEF Commit, Rollback, Drop, native
  <2>. QED
    BY <1>1, <2>1, <2>2, <2>3, <2>4, <2>5 DEF Next
<1>. QED
  BY <1>1, Inductive, PTL DEF Spec, FateKept
=============================================================================
