------------------------- MODULE ResultStream_proofs ------------------------
(***************************************************************************)
(* For any columns, descriptors, rows and failures: every LOB descriptor   *)
(* has one owner, every fetch meets a clean binding, and what a row shows  *)
(* and what it gave away stay the row's.                                   *)
(***************************************************************************)
EXTENDS ResultStream, FiniteSetTheorems, TLAPS

USE StreamAssumption DEF Ticks, Closed, NoRow

(* Steps that leave the descriptors alone.                                 *)
LEMMA DescriptorsKept ==
    ASSUME DescriptorsOwned, LobsSurvive, UNCHANGED descVars
    PROVE  DescriptorsOwned' /\ LobsSurvive'
BY DEF DescriptorsOwned, LobsSurvive, Slots, descVars

-----------------------------------------------------------------------------
(* Statements and queries.                                                 *)
LEMMA PrepareKeeps ==
    ASSUME IInv, Prepare
    PROVE  IInv'
<1>1. TypeOK'
  BY DEF IInv, TypeOK, streamVars, nativeVars, descVars, Prepare
<1>2. CallInv'
  BY DEF IInv, CallInv, streamVars, nativeVars, Prepare
<1>3. StreamInv'
  BY DEF IInv, StreamInv, streamVars, nativeVars, descVars, Prepare
<1>4. DescriptorsOwned' /\ LobsSurvive'
  BY DescriptorsKept DEF IInv, Prepare
<1>5. RowCoherent'
  BY DEF IInv, RowCoherent, streamVars, descVars, Prepare
<1>. QED  BY <1>1, <1>2, <1>3, <1>4, <1>5 DEF IInv

LEMMA DropStatementKeeps ==
    ASSUME IInv, DropStatement
    PROVE  IInv'
<1>1. TypeOK'
  BY DEF IInv, TypeOK, Memory, streamVars, descVars, DropStatement,
         FreeStatement
<1>2. CallInv'
  BY DEF IInv, CallInv, streamVars, DropStatement, FreeStatement
<1>3. StreamInv'
  BY DEF IInv, StreamInv, streamVars, descVars, DropStatement,
         FreeStatement
<1>4. DescriptorsOwned' /\ LobsSurvive'
  BY DescriptorsKept DEF IInv, DropStatement
<1>5. RowCoherent'
  BY DEF IInv, RowCoherent, streamVars, descVars, DropStatement,
         FreeStatement
<1>. QED  BY <1>1, <1>2, <1>3, <1>4, <1>5 DEF IInv

LEMMA OpenKeeps ==
    ASSUME IInv, NEW access \in {"Owned", "Borrowed"}, stmt \in {"none", "Ready"},
           OpenStream(access)
    PROVE  IInv'
<1>1. TypeOK'
  <2>1. /\ stmt' \in {"Active"} /\ rs' \in {"Owned", "Borrowed"}
        /\ UNCHANGED <<call, tick, cache, value, temp, user, promised>>
        /\ cursor' \in 0..MaxRows
        /\ bound' \in [Columns -> Memory]
    BY DEF OpenStream, Memory
  <2>2. slot' \in [LocCols -> Desc \union {NoDesc}]
    BY DEF OpenStream
  <2>3. alloc' \subseteq Desc /\ temp' \subseteq alloc'
    BY DEF OpenStream, IInv, TypeOK
  <2>4. eof' = FALSE /\ pending' = {} /\ loaded' = {} /\ row' = NoRow
    BY DEF OpenStream
  <2>5. /\ call' \in Calls /\ tick' \in Ticks /\ row' \in Ticks
        /\ cache' \in [JsonCols -> Ticks]
        /\ value' \in [Desc -> Ticks] /\ promised' \in [Desc -> Ticks]
        /\ user' \subseteq Desc
    BY <2>1, <2>4 DEF IInv, TypeOK, StreamAssumption
  <2>. QED  BY <2>1, <2>2, <2>3, <2>4, <2>5 DEF TypeOK
<1>2. CallInv'
  BY DEF IInv, CallInv, OpenStream
<1>3. StreamInv'
  BY DEF IInv, TypeOK, StreamInv, LocCols, OpenStream
<1>4. DescriptorsOwned'
  BY DEF IInv, CallInv, StreamInv, DescriptorsOwned, Slots, OpenStream
<1>5. LobsSurvive'
  BY DEF IInv, DescriptorsOwned, LobsSurvive, Slots, OpenStream
<1>6. RowCoherent'
  BY DEF IInv, RowCoherent, OpenStream
<1>. QED  BY <1>1, <1>2, <1>3, <1>4, <1>5, <1>6 DEF IInv

LEMMA QueryFailsKeeps ==
    ASSUME IInv, NEW failed \in Columns, QueryFails(failed)
    PROVE  IInv'
<1>1. TypeOK'
  BY DEF IInv, TypeOK, Calls, Memory, streamVars, descVars, QueryFails
<1>2. CallInv'
  BY DEF IInv, CallInv, streamVars, QueryFails, EnsureReady
<1>3. StreamInv'
  BY DEF IInv, CallInv, StreamInv, streamVars, descVars, QueryFails,
         EnsureReady
<1>4. DescriptorsOwned' /\ LobsSurvive'
  BY DescriptorsKept DEF IInv, QueryFails
<1>5. RowCoherent'
  BY DEF IInv, RowCoherent, streamVars, descVars, QueryFails
<1>. QED  BY <1>1, <1>2, <1>3, <1>4, <1>5 DEF IInv

-----------------------------------------------------------------------------
(* Fetching a row.                                                         *)
LEMMA BeginFetchKeeps ==
    ASSUME IInv, BeginFetch
    PROVE  IInv'
<1>1. TypeOK'
  BY DEF IInv, TypeOK, Calls, nativeVars, descVars, BeginFetch
<1>2. CallInv'
  BY DEF IInv, CallInv, BeginFetch
<1>3. StreamInv'
  BY DEF IInv, StreamInv, nativeVars, descVars, BeginFetch
<1>4. DescriptorsOwned' /\ LobsSurvive'
  BY DescriptorsKept DEF IInv, BeginFetch
<1>5. RowCoherent'
  BY DEF IInv, RowCoherent, BeginFetch
<1>. QED  BY <1>1, <1>2, <1>3, <1>4, <1>5 DEF IInv

LEMMA RebindKeeps ==
    ASSUME IInv, NEW c \in LocCols, Rebind(c)
    PROVE  IInv'
<1>1. TypeOK'
  BY DEF IInv, TypeOK, CallInv, StreamInv, Columns, Calls, nativeVars,
         Rebind, RebindNext, RefreshSlot
<1>2. CallInv'
  BY DEF IInv, CallInv, Rebind, RebindNext, RefreshSlot
<1>3. StreamInv'
  BY DEF IInv, TypeOK, CallInv, StreamInv, LocCols, nativeVars, Rebind,
         RebindNext, RefreshSlot
<1>4. DescriptorsOwned'
  BY DEF IInv, TypeOK, DescriptorsOwned, Slots, Rebind, RefreshSlot
<1>5. LobsSurvive'
  BY DEF IInv, TypeOK, DescriptorsOwned, LobsSurvive, Slots, Rebind,
         RefreshSlot
<1>6. RowCoherent'
  BY DEF IInv, StreamInv, RowCoherent, Rebind, RebindNext, RefreshSlot
<1>. QED  BY <1>1, <1>2, <1>3, <1>4, <1>5, <1>6 DEF IInv

LEMMA RebindFailsKeeps ==
    ASSUME IInv, NEW c \in LocCols, RebindFails(c)
    PROVE  IInv'
<1>1. TypeOK'
  BY DEF IInv, TypeOK, Calls, nativeVars, RebindFails, RefreshSlot
<1>2. CallInv'
  BY DEF IInv, CallInv, RebindFails, RebindNext, RefreshSlot
<1>3. StreamInv'
  BY DEF IInv, TypeOK, CallInv, StreamInv, LocCols, nativeVars,
         RebindFails, RebindNext, RefreshSlot
<1>4. DescriptorsOwned'
  BY DEF IInv, TypeOK, DescriptorsOwned, Slots, RebindFails, RefreshSlot
<1>5. LobsSurvive'
  BY DEF IInv, TypeOK, DescriptorsOwned, LobsSurvive, Slots, RebindFails,
         RefreshSlot
<1>6. RowCoherent'
  BY DEF IInv, StreamInv, RowCoherent, RebindFails, RebindNext, RefreshSlot
<1>. QED  BY <1>1, <1>2, <1>3, <1>4, <1>5, <1>6 DEF IInv

LEMMA FetchRowKeeps ==
    ASSUME IInv, FetchRow
    PROVE  IInv'
<1>1. TypeOK'
  BY DEF IInv, TypeOK, CallInv, StreamInv, DescriptorsOwned, Calls,
         FetchRow, Deliver
<1>2. CallInv'
  BY DEF IInv, CallInv, FetchRow, Deliver
<1>3. StreamInv'
  BY DEF IInv, TypeOK, CallInv, StreamInv, FetchRow, Deliver
<1>4. DescriptorsOwned'
  BY DEF IInv, DescriptorsOwned, Slots, FetchRow, Deliver
<1>5. LobsSurvive'
  BY DEF IInv, TypeOK, LobsSurvive, Slots, FetchRow, Deliver
<1>6. RowCoherent'
  BY DEF IInv, TypeOK, CallInv, StreamInv, RowCoherent, Slots, LocCols,
         FetchRow, Deliver
<1>. QED  BY <1>1, <1>2, <1>3, <1>4, <1>5, <1>6 DEF IInv

LEMMA FetchEndKeeps ==
    ASSUME IInv, FetchEnd
    PROVE  IInv'
<1>1. TypeOK'
  BY DEF IInv, TypeOK, Calls, descVars, FetchEnd
<1>2. CallInv'
  BY DEF IInv, CallInv, FetchEnd
<1>3. StreamInv'
  BY DEF IInv, TypeOK, StreamInv, descVars, FetchEnd
<1>4. DescriptorsOwned' /\ LobsSurvive'
  BY DescriptorsKept DEF IInv, FetchEnd
<1>5. RowCoherent'
  BY DEF IInv, RowCoherent, descVars, FetchEnd
<1>. QED  BY <1>1, <1>2, <1>3, <1>4, <1>5 DEF IInv

LEMMA FetchFailsKeeps ==
    ASSUME IInv, FetchFails
    PROVE  IInv'
<1>1. TypeOK'
  BY DEF IInv, TypeOK, Calls, streamVars, nativeVars, descVars, FetchFails
<1>2. CallInv'
  BY DEF IInv, CallInv, streamVars, FetchFails
<1>3. StreamInv'
  BY DEF IInv, StreamInv, streamVars, nativeVars, descVars, FetchFails
<1>4. DescriptorsOwned' /\ LobsSurvive'
  BY DescriptorsKept DEF IInv, FetchFails
<1>5. RowCoherent'
  BY DEF IInv, RowCoherent, streamVars, descVars, FetchFails
<1>. QED  BY <1>1, <1>2, <1>3, <1>4, <1>5 DEF IInv

-----------------------------------------------------------------------------
(* Reading the row.                                                        *)
LEMMA ReadJsonKeeps ==
    ASSUME IInv, NEW c \in JsonCols, ReadJson(c)
    PROVE  IInv'
<1>1. TypeOK'
  BY DEF IInv, TypeOK, StreamInv, LocCols, nativeVars, descVars, ReadJson
<1>2. CallInv'
  BY DEF IInv, CallInv, nativeVars, ReadJson
<1>3. StreamInv'
  BY DEF IInv, StreamInv, nativeVars, descVars, ReadJson
<1>4. DescriptorsOwned' /\ LobsSurvive'
  BY DescriptorsKept DEF IInv, ReadJson
<1>5. RowCoherent'
  BY DEF IInv, TypeOK, StreamInv, RowCoherent, LocCols, descVars, ReadJson
<1>. QED  BY <1>1, <1>2, <1>3, <1>4, <1>5 DEF IInv

LEMMA ReadLobKeeps ==
    ASSUME IInv, NEW c \in LobCols, ReadLob(c)
    PROVE  IInv'
<1>1. TypeOK'
  BY DEF IInv, TypeOK, LocCols, streamVars, nativeVars, ReadLob
<1>2. CallInv'
  BY DEF IInv, CallInv, streamVars, nativeVars, ReadLob
<1>3. StreamInv'
  BY DEF IInv, StreamInv, streamVars, nativeVars, ReadLob
<1>4. DescriptorsOwned'
  BY DEF IInv, DescriptorsOwned, Slots, LocCols, ReadLob
<1>5. LobsSurvive'
  BY DEF IInv, TypeOK, DescriptorsOwned, LobsSurvive, RowCoherent, Slots,
         LocCols, ReadLob
<1>6. RowCoherent'
  BY DEF IInv, RowCoherent, streamVars, ReadLob
<1>. QED  BY <1>1, <1>2, <1>3, <1>4, <1>5, <1>6 DEF IInv

LEMMA DropLobKeeps ==
    ASSUME IInv, NEW d \in Desc, DropLob(d)
    PROVE  IInv'
<1>1. TypeOK'
  BY DEF IInv, TypeOK, streamVars, nativeVars, DropLob
<1>2. CallInv'
  BY DEF IInv, CallInv, streamVars, nativeVars, DropLob
<1>3. StreamInv'
  BY DEF IInv, StreamInv, streamVars, nativeVars, DropLob
<1>4. DescriptorsOwned'
  BY DEF IInv, DescriptorsOwned, LobsSurvive, Slots, DropLob
<1>5. LobsSurvive'
  BY DEF IInv, LobsSurvive, Slots, DropLob
<1>6. RowCoherent'
  BY DEF IInv, RowCoherent, streamVars, DropLob
<1>. QED  BY <1>1, <1>2, <1>3, <1>4, <1>5, <1>6 DEF IInv

-----------------------------------------------------------------------------
(* The end of a result set.                                                *)
LEMMA CloseOwnedKeeps ==
    ASSUME IInv, CloseOwned
    PROVE  IInv'
<1>1. TypeOK'
  <2>1. /\ stmt' = "none" /\ cursor' = Closed /\ rs' = "none" /\ eof' = FALSE
        /\ pending' = {} /\ loaded' = {} /\ row' = NoRow
        /\ UNCHANGED <<call, tick, cache, value, user, promised>>
    BY DEF CloseOwned, FreeStatement, DropColumns
  <2>2. bound' \in [Columns -> Memory]
    BY DEF CloseOwned, FreeStatement, Memory
  <2>3. slot' \in [LocCols -> Desc \union {NoDesc}]
    BY DEF CloseOwned, DropColumns
  <2>4. alloc' \subseteq Desc /\ temp' \subseteq alloc'
    BY DEF CloseOwned, DropColumns, IInv, TypeOK
  <2>5. /\ call' \in Calls /\ tick' \in Ticks /\ row' \in Ticks
        /\ cache' \in [JsonCols -> Ticks]
        /\ value' \in [Desc -> Ticks] /\ promised' \in [Desc -> Ticks]
        /\ user' \subseteq Desc
    BY <2>1 DEF IInv, TypeOK, StreamAssumption
  <2>. QED  BY <2>1, <2>2, <2>3, <2>4, <2>5 DEF TypeOK
<1>2. CallInv'
  BY DEF IInv, CallInv, CloseOwned, FreeStatement, DropColumns
<1>3. StreamInv'
  BY DEF IInv, StreamInv, CloseOwned, FreeStatement, DropColumns
<1>4. DescriptorsOwned'
  BY DEF IInv, DescriptorsOwned, LobsSurvive, Slots, CloseOwned,
         FreeStatement, DropColumns
<1>5. LobsSurvive'
  BY DEF IInv, LobsSurvive, Slots, CloseOwned, FreeStatement, DropColumns
<1>6. RowCoherent'
  BY DEF IInv, RowCoherent, CloseOwned, FreeStatement, DropColumns
<1>. QED  BY <1>1, <1>2, <1>3, <1>4, <1>5, <1>6 DEF IInv

LEMMA CloseBorrowedKeeps ==
    ASSUME IInv, CloseBorrowed
    PROVE  IInv'
<1>1. TypeOK'
  BY DEF IInv, TypeOK, Calls, nativeVars, descVars, CloseBorrowed
<1>2. CallInv'
  BY DEF IInv, CallInv, CloseBorrowed
<1>3. StreamInv'
  BY DEF IInv, StreamInv, nativeVars, descVars, CloseBorrowed
<1>4. DescriptorsOwned' /\ LobsSurvive'
  BY DescriptorsKept DEF IInv, CloseBorrowed
<1>5. RowCoherent'
  BY DEF IInv, RowCoherent, CloseBorrowed
<1>. QED  BY <1>1, <1>2, <1>3, <1>4, <1>5 DEF IInv

LEMMA DrainRowKeeps ==
    ASSUME IInv, DrainRow
    PROVE  IInv'
<1>1. TypeOK'
  BY DEF IInv, TypeOK, DescriptorsOwned, streamVars, DrainRow, Deliver
<1>2. CallInv'
  BY DEF IInv, CallInv, streamVars, DrainRow, Deliver
<1>3. StreamInv'
  BY DEF IInv, TypeOK, CallInv, StreamInv, streamVars, DrainRow, Draining,
         Deliver
<1>4. DescriptorsOwned'
  BY DEF IInv, DescriptorsOwned, Slots, DrainRow, Deliver
<1>5. LobsSurvive'
  BY DEF IInv, TypeOK, LobsSurvive, Slots, DrainRow, Deliver
<1>6. RowCoherent'
  BY DEF IInv, StreamInv, RowCoherent, streamVars, DrainRow, Draining,
         Deliver
<1>. QED  BY <1>1, <1>2, <1>3, <1>4, <1>5, <1>6 DEF IInv

LEMMA DrainEndsKeeps ==
    ASSUME IInv, NEW state \in {"Ready", "Poisoned"}, DrainEnds(state),
           cursor' \in {Closed} \union 0..MaxRows, state = "Ready" => cursor' = Closed
    PROVE  IInv'
<1>1. TypeOK'
  BY DEF IInv, TypeOK, StreamInv, Calls, Memory, DrainEnds, Draining,
         DropColumns
<1>2. CallInv'
  BY DEF IInv, CallInv, DrainEnds, DropColumns
<1>3. StreamInv'
  BY DEF IInv, StreamInv, DrainEnds, DropColumns
<1>4. DescriptorsOwned'
  BY DEF IInv, DescriptorsOwned, LobsSurvive, Slots, DrainEnds, DropColumns
<1>5. LobsSurvive'
  BY DEF IInv, LobsSurvive, Slots, DrainEnds, DropColumns
<1>6. RowCoherent'
  BY DEF IInv, RowCoherent, DrainEnds, DropColumns
<1>. QED  BY <1>1, <1>2, <1>3, <1>4, <1>5, <1>6 DEF IInv

-----------------------------------------------------------------------------
(* IInv holds at the start, and every step keeps it.                       *)
LEMMA Initially == Init => IInv
<1>. SUFFICES ASSUME Init PROVE IInv
  OBVIOUS
<1>1. TypeOK
  <2>1. /\ call \in Calls /\ tick \in Ticks /\ row \in Ticks
        /\ cache \in [JsonCols -> Ticks]
        /\ value \in [Desc -> Ticks] /\ promised \in [Desc -> Ticks]
    BY DEF Init, Calls, StreamAssumption
  <2>2. /\ bound \in [Columns -> Memory]
        /\ slot \in [LocCols -> Desc \union {NoDesc}]
    BY DEF Init, Memory
  <2>. QED  BY <2>1, <2>2 DEF Init, TypeOK
<1>2. CallInv /\ StreamInv
  BY DEF Init, CallInv, StreamInv
<1>3. DescriptorsOwned /\ LobsSurvive /\ RowCoherent
  BY DEF Init, DescriptorsOwned, LobsSurvive, RowCoherent, Slots
<1>. QED  BY <1>1, <1>2, <1>3 DEF IInv

LEMMA Inductive == IInv /\ [Next]_vars => IInv'
<1>. SUFFICES ASSUME IInv, [Next]_vars PROVE IInv'
  OBVIOUS
<1>1. CASE Prepare \/ DropStatement
  BY <1>1, PrepareKeeps, DropStatementKeeps
<1>2. CASE QueryOwned
  BY <1>2, OpenKeeps DEF QueryOwned
<1>3. CASE QueryBorrowed
  BY <1>3, OpenKeeps DEF QueryBorrowed, EnsureReady
<1>4. ASSUME NEW failed \in Columns, QueryFails(failed) PROVE IInv'
  BY <1>4, QueryFailsKeeps
<1>5. CASE BeginFetch
  BY <1>5, BeginFetchKeeps
<1>6. ASSUME NEW c \in JsonCols, ReadJson(c) PROVE IInv'
  BY <1>6, ReadJsonKeeps
<1>7. ASSUME NEW c \in LobCols, ReadLob(c) PROVE IInv'
  BY <1>7, ReadLobKeeps
<1>8. ASSUME NEW d \in Desc, DropLob(d) PROVE IInv'
  BY <1>8, DropLobKeeps
<1>9. CASE CloseOwned \/ CloseBorrowed
  BY <1>9, CloseOwnedKeeps, CloseBorrowedKeeps
<1>10. ASSUME NEW c \in LocCols, Rebind(c) \/ RebindFails(c) PROVE IInv'
  BY <1>10, RebindKeeps, RebindFailsKeeps
<1>11. CASE FetchRow \/ FetchEnd \/ FetchFails
  BY <1>11, FetchRowKeeps, FetchEndKeeps, FetchFailsKeeps
<1>12. CASE DrainRow
  BY <1>12, DrainRowKeeps
<1>13. CASE Drained
  BY <1>13, DrainEndsKeeps DEF Drained
<1>14. CASE DrainFails
  BY <1>14, DrainEndsKeeps DEF DrainFails, IInv, TypeOK
<1>15. CASE UNCHANGED vars
  <2>1. UNCHANGED <<stmt, call, bound>> /\ UNCHANGED streamVars
        /\ UNCHANGED nativeVars /\ UNCHANGED descVars
    BY <1>15 DEF vars
  <2>2. TypeOK' /\ CallInv' /\ StreamInv' /\ RowCoherent'
    BY <2>1 DEF IInv, TypeOK, CallInv, StreamInv, RowCoherent, streamVars,
                nativeVars, descVars
  <2>3. DescriptorsOwned' /\ LobsSurvive'
    BY <2>1, DescriptorsKept DEF IInv
  <2>. QED  BY <2>2, <2>3 DEF IInv
<1>. QED
  BY <1>1, <1>2, <1>3, <1>4, <1>5, <1>6, <1>7, <1>8, <1>9, <1>10, <1>11, <1>12,
     <1>13, <1>14, <1>15
  DEF Next, Progress, Failure

LEMMA Invariance == Spec => []IInv
BY Initially, Inductive, PTL DEF Spec

-----------------------------------------------------------------------------
(* Every variable keeps its type.                                          *)
THEOREM TypeCorrect == Spec => []TypeOK
<1>1. IInv => TypeOK
  BY DEF IInv
<1>. QED  BY <1>1, Invariance, PTL

(* When ResultSet::fetch reaches the client every column is bound to live  *)
(* memory and every locator is fresh, however the columns were used and    *)
(* whichever rebinds failed before.                                        *)
THEOREM FetchesAreReady == Spec => []FetchReady
<1>1. IInv => FetchReady
  <2>. SUFFICES ASSUME IInv, call = "fetch" PROVE FetchReady
    BY DEF FetchReady
  <2>1. rs # "none" /\ pending = {}
    BY DEF IInv, CallInv, StreamInv
  <2>2. \A c \in Columns : bound[c] = "live"
    BY <2>1 DEF IInv, StreamInv
  <2>3. \A c \in LocCols : slot[c] \notin temp \union {NoDesc} /\ c \notin loaded
    BY <2>1 DEF IInv, StreamInv
  <2>4. \A c \in LocCols : slot[c] \in alloc \ (user \union temp)
    BY <2>3 DEF IInv, DescriptorsOwned, LobsSurvive, Slots
  <2>5. loaded = {}
    BY <2>3 DEF IInv, TypeOK, LocCols
  <2>. QED  BY <2>2, <2>4, <2>5 DEF FetchReady
<1>. QED  BY <1>1, Invariance, PTL

(* The locators and the JSON bytes of the current row come from one fetch. *)
THEOREM RowsAreCoherent == Spec => []RowCoherent
<1>1. IInv => RowCoherent
  BY DEF IInv
<1>. QED  BY <1>1, Invariance, PTL

(* A LOB moved to the application stays the LOB of its row.                *)
THEOREM TransferredLobsSurvive == Spec => []LobsSurvive
<1>1. IInv => LobsSurvive
  BY DEF IInv
<1>. QED  BY <1>1, Invariance, PTL

(* Every LOB descriptor is owned by one column or by the application.      *)
THEOREM OneOwner == Spec => []DescriptorsOwned
<1>1. IInv => DescriptorsOwned
  BY DEF IInv
<1>. QED  BY <1>1, Invariance, PTL

(* Between calls the statement's state tells of its cursor and result set. *)
THEOREM StatesMatch == Spec => []StateMatches
<1>1. IInv => StateMatches
  BY DEF IInv, CallInv, StateMatches
<1>. QED  BY <1>1, Invariance, PTL

(* ensure_ready and finish_result keep a poisoned statement from ever      *)
(* being executed again.                                                   *)
THEOREM PoisonedStays == Spec => PoisonedForGood
<1>. DEFINE Stays == stmt = "Poisoned" => stmt' \in {"Poisoned", "none"}
<1>1. IInv /\ [Next]_vars => [Stays]_vars
  <2>. SUFFICES ASSUME IInv, Next, stmt = "Poisoned"
                PROVE  stmt' \in {"Poisoned", "none"}
    OBVIOUS
  <2>1. call = "idle" /\ rs = "none"
    BY DEF IInv, CallInv
  <2>2. ~QueryBorrowed /\ ~QueryOwned /\ ~Prepare
    BY DEF QueryBorrowed, QueryOwned, Prepare, EnsureReady
  <2>3. \A failed \in Columns : ~QueryFails(failed)
    BY DEF QueryFails, EnsureReady
  <2>4. ~DrainRow /\ ~Drained /\ ~DrainFails
    BY <2>1 DEF DrainRow, Drained, DrainFails, DrainEnds, Draining
  <2>5. DropStatement => stmt' = "none"
    BY DEF DropStatement, FreeStatement
  <2>6. ~CloseOwned /\ ~CloseBorrowed /\ ~BeginFetch
    BY <2>1 DEF CloseOwned, CloseBorrowed, BeginFetch
  <2>7. \A c \in LocCols : ~Rebind(c) /\ ~RebindFails(c)
    BY <2>1 DEF Rebind, RebindFails, RebindNext
  <2>8. ~FetchRow /\ ~FetchEnd /\ ~FetchFails
    BY <2>1 DEF FetchRow, FetchEnd, FetchFails
  <2>9. \A c \in JsonCols : ReadJson(c) => UNCHANGED stmt
    BY DEF ReadJson
  <2>10. \A c \in LobCols : ReadLob(c) => UNCHANGED stmt
    BY DEF ReadLob
  <2>11. \A d \in Desc : DropLob(d) => UNCHANGED stmt
    BY DEF DropLob
  <2>. QED  BY <2>2, <2>3, <2>4, <2>5, <2>6, <2>7, <2>8, <2>9, <2>10, <2>11
            DEF Next, Progress, Failure
<1>. QED  BY <1>1, Invariance, PTL DEF Spec, PoisonedForGood
-----------------------------------------------------------------------------
(* What the application holds, and the storage the client writes to.       *)

KeepsHeldLobs ==
    \A d \in user \intersect user' :
        d \in alloc' /\ (d \in temp => d \in temp') /\ value'[d] = value[d]

(* A step that leaves the temporary LOBs outside the columns alone, and    *)
(* takes no other descriptor back.                                         *)
LEMMA HeldKept ==
    ASSUME IInv, IInv', UNCHANGED value, temp \ Slots \subseteq temp'
    PROVE  KeepsHeldLobs
BY DEF IInv, LobsSurvive, DescriptorsOwned, KeepsHeldLobs

(* take_lob moves a descriptor to the application.  From then on until the *)
(* application drops the LOB, no fetch, rebind, drain or drop of the       *)
(* driver frees the descriptor or the temporary LOB behind it, or makes it *)
(* refer to another row.                                                   *)
HeldLobsKept == [][KeepsHeldLobs]_vars

(* result_set/mod.rs, take_lob: a LOB in the hands of the application     *)
(* keeps its descriptor and what it refers to, until it is dropped there.  *)
THEOREM HeldLobsAreKept == Spec => HeldLobsKept
<1>1. ASSUME IInv, IInv', Next PROVE KeepsHeldLobs
  <2>1. \A d \in user : d \in Desc /\ d \notin Slots
    BY <1>1 DEF IInv, TypeOK, LobsSurvive
  <2>2. CASE \/ Prepare \/ DropStatement \/ BeginFetch \/ CloseBorrowed
             \/ FetchEnd \/ FetchFails
             \/ \E failed \in Columns : QueryFails(failed)
             \/ \E c \in JsonCols : ReadJson(c)
    <3>1. UNCHANGED <<value, temp>>
      BY <2>2 DEF Prepare, DropStatement, BeginFetch, CloseBorrowed, FetchEnd, FetchFails,
                  QueryFails, ReadJson, descVars
    <3>. QED  BY <1>1, <3>1, HeldKept
  <2>3. CASE QueryOwned \/ QueryBorrowed
    <3>1. UNCHANGED <<value, temp>>
      BY <2>3 DEF QueryOwned, QueryBorrowed, OpenStream
    <3>. QED  BY <1>1, <3>1, HeldKept
  <2>4. CASE \E c \in LobCols : ReadLob(c)
    <3>1. UNCHANGED <<value, temp>>
      BY <2>4 DEF ReadLob
    <3>. QED  BY <1>1, <3>1, HeldKept
  <2>5. CASE \E e \in Desc : DropLob(e)
    <3>1. PICK e \in Desc : /\ user' = user \ {e} /\ alloc' = alloc \ {e}
                            /\ temp' = temp \ {e} /\ value' = value
      BY <2>5 DEF DropLob
    <3>. QED  BY <1>1, <3>1 DEF IInv, DescriptorsOwned, KeepsHeldLobs
  <2>6. CASE CloseOwned \/ Drained \/ DrainFails
    <3>1. temp' = temp \ Slots /\ UNCHANGED value
      BY <2>6 DEF CloseOwned, Drained, DrainFails, DrainEnds, DropColumns
    <3>. QED  BY <1>1, <3>1, HeldKept
  <2>7. CASE \E c \in LocCols : Rebind(c) \/ RebindFails(c)
    <3>1. PICK c \in LocCols : Rebind(c) \/ RebindFails(c)
      BY <2>7
    <3>2. temp \ Slots \subseteq temp' /\ UNCHANGED value
      BY <3>1 DEF Rebind, RebindFails, RefreshSlot, Slots
    <3>. QED  BY <1>1, <3>2, HeldKept
  <2>8. CASE FetchRow \/ DrainRow
    <3>1. PICK tag : Deliver(tag)
      BY <2>8 DEF FetchRow, DrainRow
    <3>2. (\A d \in user : value'[d] = value[d]) /\ temp \ Slots \subseteq temp' /\ UNCHANGED <<user, alloc>>
      BY <2>1, <3>1 DEF Deliver
    <3>. QED  BY <1>1, <2>1, <3>2 DEF IInv, DescriptorsOwned, KeepsHeldLobs
  <2>. QED
    BY <1>1, <2>2, <2>3, <2>4, <2>5, <2>6, <2>7, <2>8 DEF Next, Progress, Failure
<1>2. ASSUME IInv, IInv', UNCHANGED vars PROVE KeepsHeldLobs
  BY <1>2, HeldKept DEF vars, descVars
<1>. QED  BY <1>1, <1>2, Inductive, Invariance, PTL DEF Spec, HeldLobsKept

(* The client writes fetched values to storage that was dropped in one     *)
(* situation only, the finish_result on behalf of a query that failed      *)
(* before it had a result set: wherever the row goes to the application or *)
(* a result set is drained, all columns are bound to live storage.         *)
THEOREM OnlyRecoveryFetchesAstray == Spec => [](FetchIntoLiveStorage \/ call = "recover")
<1>1. IInv => FetchIntoLiveStorage \/ call = "recover"
  BY DEF IInv, CallInv, StreamInv, FetchIntoLiveStorage
<1>. QED  BY <1>1, Invariance, PTL

-----------------------------------------------------------------------------
(* The loops.  CallsReturn needs fairness; this is what it rests on.       *)

(* The most steps that the call in progress can still take: a turn of      *)
(* rebind_columns for each pending column and the fetch, or a turn of      *)
(* finish_result for each row and its end.                                 *)
Remaining ==
    IF call = "idle" THEN 0
    ELSE IF call = "rebind" THEN Cardinality(pending) + 1
    ELSE IF call = "fetch" THEN 1
    ELSE cursor + 2

Shortens == Remaining \in Nat /\ Remaining' \in Nat /\ Remaining' < Remaining

LEMMA RemainingBounds ==
    ASSUME IsFiniteSet(LocCols), IInv
    PROVE  /\ IsFiniteSet(pending) /\ Cardinality(pending) \in Nat
           /\ Remaining \in Nat
           /\ call # "idle" => Remaining > 0
<1>1. pending \subseteq LocCols /\ cursor \in {-1} \union 0..MaxRows /\ call \in Calls
  BY DEF IInv, TypeOK
<1>2. IsFiniteSet(pending) /\ Cardinality(pending) \in Nat
  BY <1>1, FS_Subset, FS_CardinalityType
<1>. QED  BY <1>1, <1>2 DEF Remaining, Calls

(* Each step of a call in progress, failure or not, shortens what the call *)
(* has left, so a fetch takes no more native calls than there are locator  *)
(* columns to rebind and one, and a drain no more than rows and one.       *)
THEOREM CallsShorten ==
    ASSUME IsFiniteSet(LocCols)
    PROVE  Spec => [][call # "idle" => Shortens]_vars
<1>1. ASSUME IInv, Next, call # "idle" PROVE Shortens
  <2>0. Remaining \in Nat /\ Remaining > 0 /\ Cardinality(pending) \in Nat /\ IsFiniteSet(pending)
    BY <1>1, RemainingBounds
  <2>1. CASE call' = "idle"
    BY <2>0, <2>1 DEF Shortens, Remaining
  <2>2. ASSUME NEW c \in LocCols, Rebind(c) PROVE Shortens
    <3>1. c \in pending /\ pending' = pending \ {c} /\ call = "rebind"
          /\ call' = IF pending' = {} THEN "fetch" ELSE "rebind"
      BY <2>2 DEF Rebind, RebindNext
    <3>2. Cardinality(pending') = Cardinality(pending) - 1 /\ Cardinality(pending') \in Nat
      BY <2>0, <3>1, FS_RemoveElement, FS_CardinalityType
    <3>. QED  BY <2>0, <3>1, <3>2 DEF Shortens, Remaining
  <2>3. CASE DrainRow
    <3>1. call \in {"drain", "recover"} /\ call' = call /\ cursor > 0 /\ cursor' = cursor - 1
      BY <2>3 DEF DrainRow, Draining, Deliver
    <3>2. cursor \in Int
      BY <1>1 DEF IInv, TypeOK
    <3>. QED  BY <3>1, <3>2 DEF Shortens, Remaining
  <2>4. CASE FetchRow \/ FetchEnd \/ FetchFails \/ Drained \/ DrainFails
             \/ \E c \in LocCols : RebindFails(c)
    BY <2>1, <2>4 DEF FetchRow, FetchEnd, FetchFails, Drained, DrainFails, DrainEnds, RebindFails
  <2>5. stmt = "Active"
    BY <1>1 DEF IInv, CallInv
  <2>6. ~Prepare /\ ~QueryOwned /\ ~QueryBorrowed /\ \A failed \in Columns : ~QueryFails(failed)
    BY <2>5 DEF Prepare, QueryOwned, QueryBorrowed, QueryFails, EnsureReady
  <2>7. ~DropStatement /\ ~BeginFetch /\ ~CloseOwned /\ ~CloseBorrowed
    BY <1>1 DEF DropStatement, BeginFetch, CloseOwned, CloseBorrowed
  <2>8. /\ \A c \in JsonCols : ~ReadJson(c)
        /\ \A c \in LobCols : ~ReadLob(c)
        /\ \A d \in Desc : ~DropLob(d)
    BY <1>1 DEF ReadJson, ReadLob, DropLob
  <2>. QED  BY <1>1, <2>2, <2>3, <2>4, <2>6, <2>7, <2>8 DEF Next, Progress, Failure
<1>. QED  BY <1>1, Invariance, PTL DEF Spec
-----------------------------------------------------------------------------
(* The refinement: each step of a statement is a step of the stream of     *)
(* rows that the application sees, or is hidden from it.                   *)

(* Steps that change neither the rows nor the LOBs in hand.                *)
LEMMA Hidden ==
    ASSUME Phase' = Phase, Left' = Left, tick' = tick, row' = row, Taken' = Taken,
           Lobs' = Lobs
    PROVE  UNCHANGED Rows!vars
BY DEF Rows!vars

LEMMA SameLobs ==
    ASSUME user' = user, \A d \in user : value'[d] = value[d]
    PROVE  Lobs' = Lobs
BY DEF Lobs

LEMMA NoRowNothingTaken ==
    /\ row = NoRow => Taken = {}
    /\ row' = NoRow => Taken' = {}
BY DEF Taken

LEMMA OpenRefines ==
    ASSUME IInv, NEW access \in {"Owned", "Borrowed"}, stmt \in {"none", "Ready"},
           OpenStream(access)
    PROVE  Rows!Open
<1>1. rs = "none" /\ rs' = access /\ eof' = FALSE /\ row' = NoRow
  BY DEF IInv, CallInv, OpenStream
<1>2. call # "drain" /\ call' = call
  BY <1>1 DEF IInv, CallInv, OpenStream
<1>3. Phase = "closed" /\ Phase' = "open"
  BY <1>1, <1>2 DEF Phase
<1>4. Left' \in 0..MaxRows
  BY <1>3 DEF Left, OpenStream
<1>5. tick' = tick /\ Lobs' = Lobs
  BY SameLobs DEF OpenStream
<1>. QED  BY <1>1, <1>3, <1>4, <1>5, NoRowNothingTaken
          DEF Rows!Open, Rows!NoRowInHand, Rows!NoRow

(* A query that fails, or a statement made or dropped, is no stream.       *)
LEMMA NoStreamHidden ==
    ASSUME IInv,
           \/ Prepare \/ DropStatement
           \/ \E failed \in Columns : QueryFails(failed)
    PROVE  UNCHANGED Rows!vars
<1>1. rs = "none" /\ row = NoRow
  BY DEF IInv, CallInv, StreamInv, Prepare, DropStatement, QueryFails, EnsureReady
<1>2. UNCHANGED <<rs, eof, row, tick, user, value, slot>>
  BY DEF Prepare, DropStatement, QueryFails, streamVars, nativeVars, descVars
<1>3. Phase = "closed" /\ Phase' = "closed"
  BY <1>1, <1>2 DEF Phase
<1>4. Left' = Left
  BY <1>3 DEF Left
<1>5. Lobs' = Lobs
  BY <1>2, SameLobs
<1>. QED  BY <1>1, <1>2, <1>3, <1>4, <1>5, Hidden, NoRowNothingTaken

LEMMA BeginFetchRefines ==
    ASSUME IInv, BeginFetch
    PROVE  Rows!Advance
<1>1. Phase = "open" /\ Phase' = "open" /\ row' = NoRow
  BY DEF BeginFetch, Phase
<1>2. Left' = Left /\ tick' = tick /\ Lobs' = Lobs
  BY <1>1, SameLobs DEF BeginFetch, Left, nativeVars, descVars
<1>. QED  BY <1>1, <1>2, NoRowNothingTaken
          DEF Rows!Advance, Rows!NoRowInHand, Rows!NoRow

(* Inside a fetch there is no row in hand, so what happens to the columns  *)
(* is nobody's business.                                                   *)
LEMMA InFetchHidden ==
    ASSUME IInv,
           \/ \E c \in LocCols : Rebind(c) \/ RebindFails(c)
           \/ FetchFails
    PROVE  UNCHANGED Rows!vars
<1>1. call \in {"rebind", "fetch"} /\ call' \in {"rebind", "fetch", "idle"} /\ row = NoRow
  BY DEF IInv, CallInv, StreamInv, Rebind, RebindFails, RebindNext, FetchFails
<1>2. UNCHANGED <<rs, eof, cursor, tick, row, user, value>>
  BY DEF Rebind, RebindFails, FetchFails, streamVars, nativeVars, descVars
<1>3. Phase' = Phase /\ Left' = Left
  BY <1>1, <1>2 DEF Phase, Left
<1>4. Lobs' = Lobs
  BY <1>2, SameLobs
<1>. QED  BY <1>1, <1>2, <1>3, <1>4, Hidden, NoRowNothingTaken

(* A row of a fetch goes to the columns' descriptors, none of which is     *)
(* with the application.                                                   *)
LEMMA DeliverKeepsLobs ==
    ASSUME IInv, NEW tag, Deliver(tag)
    PROVE  Lobs' = Lobs
BY SameLobs DEF IInv, TypeOK, LobsSurvive, Deliver

LEMMA FetchRowRefines ==
    ASSUME IInv, FetchRow
    PROVE  Rows!Row
<1>1. rs # "none" /\ eof' = eof /\ rs' = rs /\ call = "fetch" /\ call' = "idle"
  BY DEF IInv, CallInv, FetchRow
<1>2. eof = FALSE
  BY <1>1 DEF IInv, StreamInv, TypeOK, FetchRow
<1>3. Phase = "open" /\ Phase' = "open"
  BY <1>1, <1>2 DEF Phase
<1>4. cursor > 0 /\ cursor' = cursor - 1
  BY DEF FetchRow, Deliver
<1>5. Left > 0 /\ Left' = Left - 1
  BY <1>3, <1>4 DEF Left
<1>6. Lobs' = Lobs
  BY DeliverKeepsLobs DEF FetchRow
<1>7. Taken' = {}
  <2>1. \A c \in LobCols : slot'[c] # NoDesc
    BY <1>1 DEF IInv, StreamInv, FetchRow, Deliver, LocCols
  <2>. QED  BY <2>1 DEF Taken
<1>. QED  BY <1>3, <1>5, <1>6, <1>7 DEF FetchRow, Rows!Row

LEMMA FetchEndRefines ==
    ASSUME IInv, FetchEnd
    PROVE  Rows!End
<1>1. rs # "none" /\ rs' = rs /\ call = "fetch" /\ call' = "idle" /\ row = NoRow /\ row' = NoRow
  BY DEF IInv, CallInv, StreamInv, FetchEnd
<1>2. eof = FALSE /\ eof' = TRUE
  BY <1>1 DEF IInv, StreamInv, TypeOK, FetchEnd
<1>3. Phase = "open" /\ Phase' = "ended"
  BY <1>1, <1>2 DEF Phase
<1>4. Left = 0 /\ Left' = 0
  BY <1>3 DEF Left, FetchEnd
<1>5. Lobs' = Lobs /\ tick' = tick
  BY SameLobs DEF FetchEnd, descVars
<1>. QED  BY <1>1, <1>3, <1>4, <1>5, NoRowNothingTaken
          DEF Rows!End, Rows!NoRowInHand, Rows!NoRow

LEMMA ReadLobRefines ==
    ASSUME IInv, NEW c \in LobCols, ReadLob(c)
    PROVE  Rows!TakeLob(c)
<1>. DEFINE d == slot[c]
<1>1. UNCHANGED <<rs, eof, call, cursor, tick, row, value>>
  BY DEF ReadLob, streamVars, nativeVars
<1>2. Phase' = Phase /\ Left' = Left
  BY <1>1 DEF Phase, Left
<1>3. row # NoRow /\ c \in LocCols /\ d # NoDesc
  BY DEF ReadLob, LocCols
<1>4. d \in Desc /\ d \in Slots
  BY <1>3 DEF IInv, TypeOK, Slots
<1>5. d \notin user /\ value[d] = row
  BY <1>3, <1>4 DEF IInv, LobsSurvive, RowCoherent
<1>6. Lobs' = Lobs \union {[desc |-> d, of |-> row]}
  <2>1. user' = user \union {d} /\ value' = value
    BY DEF ReadLob
  <2>. QED  BY <1>5, <2>1 DEF Lobs
<1>7. \A l \in Lobs : l.desc # d
  BY <1>5 DEF Lobs
<1>8. c \notin Taken /\ Taken' = Taken \union {c}
  <2>1. slot' = [slot EXCEPT ![c] = NoDesc] /\ slot \in [LocCols -> Desc \union {NoDesc}]
    BY DEF ReadLob, IInv, TypeOK
  <2>2. LobCols \subseteq LocCols
    BY DEF LocCols
  <2>. QED  BY <1>1, <1>3, <2>1, <2>2 DEF Taken
<1>. QED  BY <1>1, <1>2, <1>3, <1>4, <1>6, <1>7, <1>8 DEF Rows!TakeLob, Rows!NoRow

LEMMA ReadJsonHidden ==
    ASSUME NEW c \in JsonCols, ReadJson(c)
    PROVE  UNCHANGED Rows!vars
<1>1. UNCHANGED <<rs, eof, call, cursor, tick, row, slot, user, value>>
  BY DEF ReadJson, nativeVars, descVars
<1>. QED  BY <1>1, Hidden, SameLobs DEF Phase, Left, Taken

LEMMA DropLobRefines ==
    ASSUME IInv, NEW d \in Desc, DropLob(d)
    PROVE  \E l \in Lobs : Rows!DropLob(l)
<1>. DEFINE l == [desc |-> d, of |-> value[d]]
<1>1. UNCHANGED <<rs, eof, call, cursor, tick, row, slot, value>>
  BY DEF DropLob, streamVars, nativeVars
<1>2. Phase' = Phase /\ Left' = Left /\ Taken' = Taken
  BY <1>1 DEF Phase, Left, Taken
<1>3. l \in Lobs /\ Lobs' = Lobs \ {l}
  BY <1>1 DEF Lobs, DropLob
<1>. QED  BY <1>1, <1>2, <1>3 DEF Rows!DropLob

LEMMA CloseRefines ==
    ASSUME IInv, CloseOwned \/ CloseBorrowed
    PROVE  Rows!Close
<1>1. rs # "none" /\ call = "idle" /\ row' = NoRow /\ tick' = tick
  BY DEF CloseOwned, CloseBorrowed, DropColumns, nativeVars
<1>2. rs' = "none" \/ call' = "drain"
  BY DEF CloseOwned, CloseBorrowed, DropColumns
<1>3. Phase # "closed" /\ Phase' = "closed"
  BY <1>1, <1>2 DEF Phase
<1>4. Left' = 0
  BY <1>3 DEF Left
<1>5. Lobs' = Lobs
  BY SameLobs DEF CloseOwned, CloseBorrowed, DropColumns, descVars
<1>. QED  BY <1>1, <1>3, <1>4, <1>5, NoRowNothingTaken
          DEF Rows!Close, Rows!NoRowInHand, Rows!NoRow

LEMMA DrainHidden ==
    ASSUME IInv, DrainRow \/ Drained \/ DrainFails
    PROVE  UNCHANGED Rows!vars
<1>1. Draining /\ row = NoRow /\ Phase = "closed"
  BY DEF DrainRow, Drained, DrainFails, DrainEnds, Draining, IInv, CallInv, StreamInv, Phase
<1>2. row' = NoRow /\ tick' = tick
  BY <1>1 DEF DrainRow, Drained, DrainFails, DrainEnds, DropColumns, streamVars
<1>3. Phase' = "closed"
  <2>1. CASE DrainRow
    BY <1>1, <2>1 DEF DrainRow, Phase, streamVars
  <2>2. CASE Drained \/ DrainFails
    BY <2>2 DEF Drained, DrainFails, DrainEnds, DropColumns, Phase
  <2>. QED  BY <2>1, <2>2
<1>4. Left' = Left
  BY <1>1, <1>3 DEF Left
<1>5. Lobs' = Lobs
  BY SameLobs, DeliverKeepsLobs DEF DrainRow, Drained, DrainFails, DrainEnds, DropColumns
<1>. QED  BY <1>1, <1>2, <1>3, <1>4, <1>5, Hidden, NoRowNothingTaken

(* For any columns, rows and failures, ResultSet::fetch, finish and drop   *)
(* implement the stream of rows that RowStream describes.                  *)
THEOREM ImplementsRowStream == Spec => RowStreamSpec
<1>1. Init => Rows!Init
  <2>. SUFFICES ASSUME Init PROVE Rows!Init
    OBVIOUS
  <2>1. Phase = "closed" /\ Left = 0 /\ Taken = {} /\ Lobs = {}
    BY DEF Init, Phase, Left, Taken, Lobs
  <2>. QED  BY <2>1 DEF Init, Rows!Init, Rows!NoRow
<1>2. IInv /\ [Next]_vars => [Rows!Next]_(Rows!vars)
  <2>. SUFFICES ASSUME IInv, [Next]_vars
                PROVE  Rows!Next \/ UNCHANGED Rows!vars
    OBVIOUS
  <2>1. CASE QueryOwned \/ QueryBorrowed
    BY <2>1, OpenRefines DEF QueryOwned, QueryBorrowed, EnsureReady, Rows!Next
  <2>2. CASE Prepare \/ DropStatement \/ \E failed \in Columns : QueryFails(failed)
    BY <2>2, NoStreamHidden
  <2>3. CASE BeginFetch
    BY <2>3, BeginFetchRefines DEF Rows!Next
  <2>4. CASE FetchRow
    BY <2>4, FetchRowRefines DEF Rows!Next
  <2>5. CASE FetchEnd
    BY <2>5, FetchEndRefines DEF Rows!Next
  <2>6. ASSUME NEW c \in JsonCols, ReadJson(c)
        PROVE  UNCHANGED Rows!vars
    BY <2>6, ReadJsonHidden
  <2>7. ASSUME NEW c \in LobCols, ReadLob(c)
        PROVE  Rows!Next
    BY <2>7, ReadLobRefines DEF Rows!Next
  <2>8. ASSUME NEW d \in Desc, DropLob(d)
        PROVE  Rows!Next
    BY <2>8, DropLobRefines DEF Rows!Next
  <2>9. CASE CloseOwned \/ CloseBorrowed
    BY <2>9, CloseRefines DEF Rows!Next
  <2>10. CASE DrainRow \/ Drained \/ DrainFails
    BY <2>10, DrainHidden
  <2>11. CASE FetchFails \/ \E c \in LocCols : Rebind(c) \/ RebindFails(c)
    BY <2>11, InFetchHidden
  <2>12. CASE UNCHANGED vars
    BY <2>12, Hidden, SameLobs
    DEF vars, streamVars, nativeVars, descVars, Phase, Left, Taken
  <2>. QED  BY <2>1, <2>2, <2>3, <2>4, <2>5, <2>6, <2>7, <2>8, <2>9, <2>10, <2>11, <2>12
            DEF Next, Progress, Failure
<1>. QED  BY <1>1, <1>2, Invariance, PTL DEF Spec, RowStreamSpec, Rows!Spec
=============================================================================
