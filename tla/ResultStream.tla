---------------------------- MODULE ResultStream ----------------------------
(***************************************************************************)
(* A Statement and the ResultSet that streams its rows (stmt.rs,           *)
(* result_set/mod.rs): the statement's Ready/Active/Poisoned state against *)
(* the native cursor, the memory the native client is bound to, the LOB    *)
(* descriptors that move from the result set to the application, and the   *)
(* JSON cache of the current row.                                          *)
(*                                                                         *)
(* Everything here is synchronous on one thread; what interleaves is the   *)
(* application's calls with the failures of the native ones.  A call that  *)
(* loops over native calls is a sequence of steps, `call` saying where it  *)
(* is, so that it may fail between any two.                                *)
(*                                                                         *)
(* External: yacFetch writes the next row to the memory bound to each      *)
(* column, through the descriptor that a locator column's slot points to,  *)
(* and may make it a server-side temporary LOB; a failing call of the      *)
(* client changes nothing.                                                 *)
(***************************************************************************)
EXTENDS Integers, FiniteSets

CONSTANTS
    Plain,      \* columns with a buffer of their own (scalars, text, binary)
    LobCols,    \* BLOB, CLOB and NCLOB columns, numbered by position
    JsonCols,   \* JSON columns, numbered by position
    Desc,       \* native LOB descriptors
    NoDesc,     \* the empty slot of a transferred column
    MaxRows,    \* bound: rows of a query
    MaxTick     \* bound: rows the streams of a behaviour may deliver

LocCols == LobCols \union JsonCols
Columns == Plain \union LocCols

ASSUME StreamAssumption ==
    /\ Columns \subseteq Nat
    /\ Plain \intersect LocCols = {}
    /\ LobCols \intersect JsonCols = {}
    /\ NoDesc \notin Desc
    /\ MaxRows \in Nat
    /\ MaxTick \in Nat

VARIABLES
    stmt,     \* "none" or StatementState
    rs,       \* ResultSet.statement: "none", "Owned" or "Borrowed"
    eof,      \* ResultSet.eof
    call,     \* the call in progress, see Calls
    cursor,   \* rows left in the native cursor, Closed when there is none
    bound,    \* column -> the memory the native statement is bound to
    slot,     \* locator column -> its descriptor (Lob.locator)
    pending,  \* ResultSet.pending_rebinds
    loaded,   \* JSON columns whose bytes are cached (the Cell<bool>)
    cache,    \* JSON column -> the row its cached bytes came from
    value,    \* descriptor -> the row whose LOB it refers to
    alloc,    \* descriptors allocated in the native client
    temp,     \* descriptors that hold a server-side temporary LOB
    user,     \* descriptors transferred to the application
    promised, \* history: descriptor -> the row it was transferred from
    tick,     \* history: rows delivered so far; the number names the row
    row       \* history: the row the application holds, NoRow if none

streamVars == <<rs, eof, pending, loaded, cache, row>>
nativeVars == <<cursor, tick>>
descVars == <<slot, value, alloc, temp, user, promised>>
vars == <<stmt, call, bound, streamVars, nativeVars, descVars>>

Closed == -1
NoRow == 0
Ticks == 0..MaxTick

(* "rebind" and "fetch" are inside ResultSet::fetch, "drain" is inside     *)
(* finish_result on behalf of a result set, "recover" on behalf of a query *)
(* that failed before it had one.                                          *)
Calls == {"idle", "rebind", "fetch", "drain", "recover"}

(* Memory bound to a column: none yet, a buffer of the current columns, or *)
(* one that has been dropped.                                              *)
Memory == {"none", "live", "dropped"}

TypeOK ==
    /\ stmt \in {"none", "Ready", "Active", "Poisoned"}
    /\ rs \in {"none", "Owned", "Borrowed"}
    /\ eof \in BOOLEAN
    /\ call \in Calls
    /\ cursor \in {Closed} \union 0..MaxRows
    /\ bound \in [Columns -> Memory]
    /\ slot \in [LocCols -> Desc \union {NoDesc}]
    /\ pending \subseteq LocCols
    /\ loaded \subseteq JsonCols
    /\ cache \in [JsonCols -> Ticks]
    /\ value \in [Desc -> Ticks]
    /\ alloc \subseteq Desc
    /\ temp \subseteq alloc
    /\ user \subseteq Desc
    /\ promised \in [Desc -> Ticks]
    /\ tick \in Ticks
    /\ row \in Ticks

Init ==
    /\ stmt = "none" /\ rs = "none" /\ eof = FALSE /\ call = "idle"
    /\ cursor = Closed
    /\ bound = [c \in Columns |-> "none"]
    /\ slot = [c \in LocCols |-> NoDesc]
    /\ pending = {} /\ loaded = {}
    /\ cache = [c \in JsonCols |-> NoRow]
    /\ value = [d \in Desc |-> NoRow]
    /\ alloc = {} /\ temp = {} /\ user = {}
    /\ promised = [d \in Desc |-> NoRow]
    /\ tick = 0 /\ row = NoRow

(* The descriptors of the current columns.                                 *)
Slots == {slot[c] : c \in LocCols} \ {NoDesc}

-----------------------------------------------------------------------------
(* Statements and queries.                                                 *)

(* Connection::prepare *)
Prepare ==
    /\ stmt = "none"
    /\ stmt' = "Ready"
    /\ UNCHANGED <<call, bound, streamVars, nativeVars, descVars>>

(* Statement::finish and Drop: yacFreeHandle ends cursor and bindings.     *)
FreeStatement ==
    /\ stmt' = "none"
    /\ cursor' = Closed
    /\ bound' = [c \in Columns |-> "none"]

DropStatement ==
    /\ stmt # "none" /\ rs = "none" /\ call = "idle"
    /\ FreeStatement
    /\ UNCHANGED <<call, tick, streamVars, descVars>>

(* bind_columns: every column bound to fresh storage, every locator column *)
(* to a fresh descriptor, and ResultSet's initial state.                   *)
OpenStream(access) ==
    /\ stmt' = "Active"
    /\ cursor' \in {n \in 0..MaxRows : tick + n <= MaxTick}
    /\ bound' = [c \in Columns |-> "live"]
    /\ slot' \in [LocCols -> Desc \ alloc]
    /\ \A c, e \in LocCols : slot'[c] = slot'[e] => c = e
    /\ alloc' = alloc \union {slot'[c] : c \in LocCols}
    /\ rs' = access
    /\ eof' = FALSE
    /\ pending' = {} /\ loaded' = {} /\ row' = NoRow
    /\ UNCHANGED <<call, tick, cache, value, temp, user, promised>>

(* Connection::query, query_with and query_named_with.  When they fail the *)
(* statement is dropped with everything it had.                            *)
QueryOwned ==
    /\ stmt = "none"
    /\ OpenStream("Owned")

(* Mutant: only a statement with an open stream is refused.                *)
EnsureNotActive == stmt \in {"Ready", "Poisoned"}

(* ensure_ready *)
EnsureReady == stmt = "Ready"

(* Statement::query and query_named on a prepared statement.  A failure    *)
(* before the native execute changes nothing.                              *)
QueryBorrowed ==
    /\ EnsureReady /\ call = "idle"
    /\ OpenStream("Borrowed")

(* The query runs, but decoding an output parameter, the schema or the     *)
(* binding of column `failed` fails: the columns bound before it are       *)
(* dropped and the stream is drained.                                      *)
QueryFails(failed) ==
    /\ EnsureReady /\ call = "idle"
    /\ stmt' = "Active"
    /\ cursor' \in 0..MaxRows
    /\ bound' = [c \in Columns |-> IF c < failed THEN "dropped" ELSE bound[c]]
    /\ call' = "recover"
    /\ UNCHANGED <<tick, streamVars, descVars>>

-----------------------------------------------------------------------------
(* ResultSet::fetch.  The application has given up its row.                *)

BeginFetch ==
    /\ rs # "none" /\ ~eof /\ call = "idle"
    /\ call' = IF pending = {} THEN "fetch" ELSE "rebind"
    /\ row' = NoRow
    /\ UNCHANGED <<stmt, bound, rs, eof, pending, loaded, cache, nativeVars, descVars>>

(* Mutant: a descriptor that is still here is reused without a cleanup.    *)
RefreshSlotUncleaned(c) ==
    /\ IF slot[c] = NoDesc
         THEN \E d \in Desc \ alloc :
                /\ slot' = [slot EXCEPT ![c] = d]
                /\ alloc' = alloc \union {d}
         ELSE UNCHANGED <<slot, alloc>>
    /\ loaded' = loaded \ {c}
    /\ UNCHANGED temp

(* rebind_lob_column and rebind_json_column up to their bind_column: a     *)
(* locator that is still here is cleaned up and reused, a transferred one  *)
(* is replaced, and the JSON cache is dropped.                             *)
RefreshSlot(c) ==
    /\ IF slot[c] = NoDesc
         THEN \E d \in Desc \ alloc :
                /\ slot' = [slot EXCEPT ![c] = d]
                /\ alloc' = alloc \union {d}
                /\ UNCHANGED temp
         ELSE /\ temp' = temp \ {slot[c]}
              /\ UNCHANGED <<slot, alloc>>
    /\ loaded' = loaded \ {c}

RebindNext(c) ==
    /\ call = "rebind"
    /\ c \in pending
    /\ \A e \in pending : c <= e

Rebind(c) ==
    /\ RebindNext(c)
    /\ RefreshSlot(c)
    /\ bound' = [bound EXCEPT ![c] = "live"]
    /\ pending' = pending \ {c}
    /\ call' = IF pending' = {} THEN "fetch" ELSE "rebind"
    /\ UNCHANGED <<stmt, rs, eof, cache, row, nativeVars, value, user, promised>>

(* The cleanup, the allocation or the bind of a column fails: this and     *)
(* later columns stay pending for the next fetch.                          *)
RebindFails(c) ==
    /\ RebindNext(c)
    /\ RefreshSlot(c) \/ UNCHANGED <<slot, alloc, temp, loaded>>
    /\ call' = "idle"
    /\ UNCHANGED <<stmt, bound, rs, eof, pending, cache, row, nativeVars, value,
                   user, promised>>

(* yacFetch writes a row through the current descriptors.                  *)
Deliver(tag) ==
    /\ cursor > 0
    /\ cursor' = cursor - 1
    /\ value' = [d \in Desc |-> IF d \in Slots THEN tag ELSE value[d]]
    /\ \E t \in SUBSET Slots : temp' = (temp \ Slots) \union t
    /\ UNCHANGED <<slot, alloc, user, promised>>

FetchRow ==
    /\ call = "fetch"
    /\ Deliver(tick + 1)
    /\ tick' = tick + 1
    /\ row' = tick + 1
    /\ pending' = LocCols
    /\ call' = "idle"
    /\ UNCHANGED <<stmt, bound, rs, eof, loaded, cache>>

FetchEnd ==
    /\ call = "fetch"
    /\ cursor = 0
    /\ cursor' = Closed
    /\ eof' = TRUE
    /\ call' = "idle"
    /\ UNCHANGED <<stmt, bound, rs, pending, loaded, cache, row, tick, descVars>>

(* Mutant: a count of rows other than one is taken for the end.            *)
FetchFailsAtEnd ==
    /\ call = "fetch"
    /\ call' = "idle"
    /\ eof' = TRUE
    /\ UNCHANGED <<stmt, bound, rs, pending, loaded, cache, row, nativeVars, descVars>>

(* yacFetch fails, or reports more than one row.                           *)
FetchFails ==
    /\ call = "fetch"
    /\ call' = "idle"
    /\ UNCHANGED <<stmt, bound, streamVars, nativeVars, descVars>>

-----------------------------------------------------------------------------
(* Row::get on the current row.                                            *)

(* Mutant: the flag is set although the bytes could not be read.           *)
ReadJsonFlagFirst(c) ==
    /\ row # NoRow /\ call = "idle"
    /\ c \notin loaded
    /\ loaded' = loaded \union {c}
    /\ cache' \in {cache, [cache EXCEPT ![c] = value[slot[c]]]}
    /\ UNCHANGED <<stmt, call, bound, rs, eof, pending, row, nativeVars, descVars>>

(* as_yason: the first read of a row loads the bytes; a failed load clears *)
(* them again.                                                             *)
ReadJson(c) ==
    /\ row # NoRow /\ call = "idle"
    /\ c \notin loaded
    /\ loaded' = loaded \union {c}
    /\ cache' = [cache EXCEPT ![c] = value[slot[c]]]
    /\ UNCHANGED <<stmt, call, bound, rs, eof, pending, row, nativeVars, descVars>>

(* Mutant: the descriptor is copied, not moved, to the application.        *)
ReadLobCopied(c) ==
    /\ row # NoRow /\ call = "idle"
    /\ slot[c] # NoDesc
    /\ user' = user \union {slot[c]}
    /\ promised' = [promised EXCEPT ![slot[c]] = row]
    /\ UNCHANGED <<stmt, call, bound, streamVars, nativeVars, slot, value, alloc, temp>>

(* take_lob; a second read of the column is ColumnValueTransferred.        *)
ReadLob(c) ==
    /\ row # NoRow /\ call = "idle"
    /\ slot[c] # NoDesc
    /\ slot' = [slot EXCEPT ![c] = NoDesc]
    /\ user' = user \union {slot[c]}
    /\ promised' = [promised EXCEPT ![slot[c]] = row]
    /\ UNCHANGED <<stmt, call, bound, streamVars, nativeVars, value, alloc, temp>>

(* Mutant: the descriptor is freed, the temporary LOB is not.              *)
DropLobKeepsTemp(d) ==
    /\ d \in user /\ call = "idle"
    /\ user' = user \ {d}
    /\ alloc' = alloc \ {d}
    /\ UNCHANGED <<stmt, call, bound, streamVars, nativeVars, slot, value, temp, promised>>

(* Lob::drop, or finish and drop, of a transferred LOB: the temporary is   *)
(* freed best-effort, the descriptor always.                               *)
DropLob(d) ==
    /\ d \in user /\ call = "idle"
    /\ user' = user \ {d}
    /\ alloc' = alloc \ {d}
    /\ temp' = temp \ {d}
    /\ UNCHANGED <<stmt, call, bound, streamVars, nativeVars, slot, value, promised>>

-----------------------------------------------------------------------------
(* ResultSet::finish and Drop.                                             *)

(* Mutant: the columns are dropped without freeing their descriptors.      *)
DropColumnsLeaking ==
    /\ rs' = "none" /\ eof' = FALSE
    /\ pending' = {} /\ loaded' = {} /\ row' = NoRow
    /\ slot' = [c \in LocCols |-> NoDesc]
    /\ UNCHANGED <<alloc, temp, cache, value, user, promised>>

DropColumns ==
    /\ rs' = "none" /\ eof' = FALSE
    /\ pending' = {} /\ loaded' = {} /\ row' = NoRow
    /\ slot' = [c \in LocCols |-> NoDesc]
    /\ alloc' = alloc \ Slots
    /\ temp' = temp \ Slots
    /\ UNCHANGED <<cache, value, user, promised>>

CloseOwned ==
    /\ rs = "Owned" /\ call = "idle"
    /\ FreeStatement
    /\ DropColumns
    /\ UNCHANGED <<call, tick>>

CloseBorrowed ==
    /\ rs = "Borrowed" /\ call = "idle"
    /\ call' = "drain"
    /\ row' = NoRow
    /\ UNCHANGED <<stmt, bound, rs, eof, pending, loaded, cache, nativeVars, descVars>>

Draining == call \in {"drain", "recover"}

(* One turn of finish_result's loop; nobody sees the row.                  *)
DrainRow ==
    /\ Draining
    /\ Deliver(NoRow)
    /\ UNCHANGED <<stmt, call, bound, streamVars, tick>>

(* finish_result returns, and the columns of the result set are dropped.   *)
DrainEnds(state) ==
    /\ Draining
    /\ stmt' = state
    /\ call' = "idle"
    /\ DropColumns
    /\ bound' = [c \in Columns |-> IF bound[c] = "live" THEN "dropped" ELSE bound[c]]
    /\ UNCHANGED tick

(* Mutant: the loop does not stop at the row count 0.                      *)
DrainedWhenClosed ==
    /\ cursor < 0
    /\ DrainEnds("Ready")
    /\ cursor' = Closed

Drained ==
    /\ cursor <= 0
    /\ DrainEnds("Ready")
    /\ cursor' = Closed

(* Mutant: a failed drain leaves the statement reusable.                   *)
DrainFailsReady ==
    /\ DrainEnds("Ready")
    /\ UNCHANGED cursor

DrainFails ==
    /\ DrainEnds("Poisoned")
    /\ UNCHANGED cursor

-----------------------------------------------------------------------------
(* The steps inside a call of the driver, and the application's calls.     *)
Progress ==
    \/ \E c \in LocCols : Rebind(c)
    \/ FetchRow \/ FetchEnd
    \/ DrainRow \/ Drained

Failure ==
    \/ \E c \in LocCols : RebindFails(c)
    \/ FetchFails \/ DrainFails

Next ==
    \/ Prepare \/ DropStatement
    \/ QueryOwned \/ QueryBorrowed
    \/ \E failed \in Columns : QueryFails(failed)
    \/ BeginFetch
    \/ \E c \in JsonCols : ReadJson(c)
    \/ \E c \in LobCols : ReadLob(c)
    \/ \E d \in Desc : DropLob(d)
    \/ CloseOwned \/ CloseBorrowed
    \/ Progress \/ Failure

Spec == Init /\ [][Next]_vars

(* A call of the driver runs to its end: the loops are over native calls,  *)
(* which return.  None of them has to fail for that.                       *)
FairSpec == Spec /\ WF_vars(Progress)

-----------------------------------------------------------------------------
(* Whenever ResultSet::fetch reaches the client, every column is bound to  *)
(* memory of this result set, every locator column has a descriptor that   *)
(* is nobody else's and holds no temporary LOB that the row would replace, *)
(* and no JSON cache survives from the previous row.                       *)
FetchReady ==
    call = "fetch" =>
        /\ \A c \in Columns : bound[c] = "live"
        /\ \A c \in LocCols : slot[c] \in alloc \ (user \union temp)
        /\ loaded = {}

(* What the application reads from a row is that row: the locators in the  *)
(* columns and the cached JSON bytes were written by the same fetch.       *)
RowCoherent ==
    row # NoRow =>
        /\ \A c \in LocCols : slot[c] # NoDesc => value[slot[c]] = row
        /\ \A c \in loaded : cache[c] = row

(* A transferred LOB keeps referring to the row it was read from, through  *)
(* later fetches, drains, and the end of result set and statement.         *)
LobsSurvive ==
    \A d \in user : d \notin Slots /\ value[d] = promised[d]

(* Every native descriptor has exactly one owner, so each is freed once    *)
(* and none is lost.                                                       *)
DescriptorsOwned ==
    /\ alloc = Slots \union user
    /\ \A c, e \in LocCols : slot[c] = slot[e] /\ slot[c] # NoDesc => c = e

(* Between calls the statement's state says whether a result stream is     *)
(* open: Ready means no native cursor is left open and no result set       *)
(* exists, Active that one does, Poisoned that none ever will again.       *)
StateMatches ==
    call = "idle" =>
        /\ stmt = "Ready" => cursor = Closed
        /\ stmt = "Active" <=> rs # "none"

(* How the statement's state, the call in progress and the result set go   *)
(* together at every step, which StateMatches says between calls.          *)
CallInv ==
    /\ stmt = "Active" <=> rs # "none" \/ call = "recover"
    /\ stmt # "Active" => call = "idle"
    /\ stmt \in {"none", "Ready"} => cursor = Closed
    /\ call = "recover" => rs = "none"
    /\ call \in {"rebind", "fetch", "drain"} => rs # "none"

(* What a result set keeps true of its columns between any two steps: only *)
(* a pending column may lack a descriptor, hold a temporary LOB or have a  *)
(* cache, which is how a fetch comes to be ready.                          *)
StreamInv ==
    /\ rs = "none" => row = NoRow /\ \A c \in LocCols : slot[c] = NoDesc
    /\ rs # "none" =>
         /\ \A c \in Columns : bound[c] = "live"
         /\ \A c \in JsonCols : slot[c] # NoDesc
         /\ cursor + tick <= MaxTick
         /\ call # "drain" =>
              \A c \in LocCols \ pending : slot[c] \notin temp \union {NoDesc} /\ c \notin loaded
    /\ row # NoRow => call = "idle" /\ pending = LocCols
    /\ call = "fetch" => pending = {}
    /\ call \in {"rebind", "fetch"} => eof = FALSE

IInv == TypeOK /\ CallInv /\ StreamInv /\ DescriptorsOwned /\ LobsSurvive /\ RowCoherent

(* A statement whose cleanup failed is never executed again.               *)
PoisonedForGood ==
    [][stmt = "Poisoned" => stmt' \in {"Poisoned", "none"}]_vars

(* The application sees a stream of rows: the rebinds, the drains, and the *)
(* cursor behind them are hidden.  While a result set is being drained it  *)
(* is closed for the application.  A taken LOB is what its descriptor      *)
(* refers to now, not what was promised when it was taken.                 *)
Phase ==
    IF rs = "none" \/ call = "drain" THEN "closed"
    ELSE IF eof THEN "ended" ELSE "open"

Left == IF Phase = "open" THEN cursor ELSE 0
Taken == IF row = NoRow THEN {} ELSE {c \in LobCols : slot[c] = NoDesc}
Lobs == {[desc |-> d, of |-> value[d]] : d \in user}

Rows == INSTANCE RowStream
        WITH LobCols <- LobCols,
             Desc <- Desc,
             MaxRows <- MaxRows,
             phase <- Phase,
             left <- Left,
             last <- tick,
             row <- row,
             taken <- Taken,
             lobs <- Lobs

(* Whatever fails and whenever columns are rebound or drained, the rows of *)
(* a query arrive one by one and each once, None comes after the last and  *)
(* not instead of an error, and a taken LOB is that of its row.            *)
RowStreamSpec == Rows!Spec

(* Every fetch and every drain returns, whether or not a native call fails. *)
CallsReturn == call # "idle" ~> call = "idle"

(* binding.rs:9-13: the client writes a fetched value into the storage     *)
(* bound to its column.  No fetch, of finish_result either, leaves the     *)
(* client with rows to write and a column whose storage was dropped.       *)
FetchIntoLiveStorage ==
    call \in {"fetch", "drain", "recover"} /\ cursor > 0 =>
        \A c \in Columns : bound[c] # "dropped"
=============================================================================
