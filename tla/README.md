# Verification of yashandb-rust

yashandb-rust is a synchronous Rust driver for YashanDB.  It loads the C client
library (YACLI) at run time and wraps its handles in safe types.  This directory
holds TLA+ models of the parts of the driver where state, ordering and failure
matter, the TLC configurations that check them, and proofs that hold for every
value of the constants.

Paths below are relative to the crate: `stmt.rs:270` is line 270 of
`src/stmt.rs`.

## 1. The system

### 1.1 Components

| Component | State it keeps | Operations |
| --- | --- | --- |
| Library loader (`library.rs`, `load.rs`, `ffi/mod.rs`) | `YAC_LIB`, a once-cell with the loaded library and its source path; `INIT_LOCK` | `load_library`, `load_library_with_path`, `library(None)` from every connect |
| Connection (`conn.rs`, `ffi/conn.rs`, `ffi/attr.rs`) | environment and connection handle, the native session, its attributes | `ConnectionBuilder::connect`, `ConnectGuard`, `Drop`, auto-commit, commit, rollback, LOB factories, execute and query entry points, `query_one_map`, `query_opt_map` |
| Transaction (`transaction.rs`) | the exclusive borrow of the connection, `completed`, `restore_auto_commit` | `commit`, `rollback`, `Drop`, delegates to the connection |
| Statement (`stmt.rs`, `ffi/stmt.rs`) | the native statement, `StatementState` (Ready, Active, Poisoned) | prepare, execute, query (each positional or named), `finish_result`, `finish`, `Drop` |
| Result set (`result_set/mod.rs`, `result_set/binding.rs`) | column buffers the client writes to, locators, JSON caches, `eof`, `pending_rebinds` | `fetch`, rebinding, `Row::get`, `finish`, `Drop` |
| LOBs (`lob.rs`, `ffi/lob.rs`) | a locator descriptor and perhaps a temporary LOB on the server; it passes between the application, parameters and columns | creation, length, chunked and positioned reads, writes, truncate, `finish`, `Drop` |
| Parameters (`param/`) | `BindParam`: target, native form or buffer, indicator | conversions, `binding`, `complete` |
| Rows, columns, conversions (`result_set/convert.rs`, `result_set/index.rs`, `column.rs`) | none | lookup by index or name, decoding of one value |
| Value types (`types.rs`), errors (`error.rs`, `ffi/diag.rs`), C declarations (`ffi/raw.rs`) | none | layout conversions, messages |

### 1.2 How they interact

* A connect calls `library(None)`; after the first success every component
  calls the client through the one published `YacLib`.
* Statements, result sets, LOBs and transactions borrow the connection, so the
  compiler sees to it that it outlives them.  A `Transaction` borrows it
  exclusively.
* A `ResultSet` owns its statement (queries on a connection) or borrows it
  (queries on a prepared statement).  The native statement holds raw addresses
  of column buffers and of bound parameters; these addresses outlive the Rust
  borrow they came from.
* `Row::get` may move a LOB locator out of its column to the application.  The
  client's binding of that column still points at the old locator, so the column
  must be rebound before the next fetch.

### 1.3 What is hard

Threads meet only in the loader.  Everything else is single-threaded, and hard
for other reasons: native calls fail between any two steps of a sequence;
destructors have to finish what an early return left; native state (bindings,
cursor, pending work) survives the Rust objects it refers to; state read in one
call is used in a later one.  `PROJECT.json` lists the hazards line by line.

### 1.4 What correct means, per component

* Loader: one load however many threads race; an accepted path is the file that
  is loaded; a failed attempt publishes nothing and can be retried; nobody is
  left behind the lock.
* Connection: no handle or session leaks or is freed twice or too early,
  whichever step fails; the server sees the attributes in the right order.
* Transaction: the work of a guard has one fate, the reported one; the guard
  gives the auto-commit mode back.
* Statement and result set: a fetch only meets memory of this result set; a row
  is the product of one fetch; a LOB moved out of a row stays that row's; every
  descriptor has one owner; the state says whether a cursor is open.
* LOB reads: the pieces fit together; Ok means everything.
* LOB handles: every descriptor has one holder and every temporary LOB one
  locator, whatever fails on the way; a JSON input is sent once.
* Single-row queries: what is returned tells how many rows there were; the first
  error is the one reported; nothing stays open.
* Row access: the four type tables agree; a value comes out exactly where the
  documentation says that one does.
* Parameters: the native call only sees memory of this call; Ok means every
  target holds the server's answer.

## 2. Modules

| Module | Models | Proofs |
| --- | --- | --- |
| `LibrarySource` | which file a request loads, the source that is remembered, `source_matches` | |
| `LibraryLoader` | `library()` by any number of threads, step by step | `LibraryLoader_proofs` |
| `OnceLibrary` | the abstract once-cell the loader promises | |
| `TransactionGuard` | auto-commit, commit, rollback and the guard over the server's transaction | `TransactionGuard_proofs` |
| `ConnectionSetup` | `connect`, `ConnectGuard`, `Drop for Connection` | `ConnectionSetup_proofs` |
| `RowStream` | the abstract stream of rows a result set promises | |
| `ResultStream` | statement state, cursor, bindings, locators and JSON cache of one statement; implements `RowStream` | `ResultStream_proofs` |
| `RowAccess` | `Row::get`: lookup by position or name, the four type tables, the outcome of a read | |
| `SingleRow` | `query_one_map` and `query_opt_map`, over the actions of `RowStream`, with the reads of `RowAccess` | `SingleRow_proofs` |
| `LobTransfer` | chunked and positioned reads | `LobTransfer_proofs` |
| `LobHandle` | descriptors and temporary LOBs in variables and parameters, over several calls | `LobHandle_proofs` |
| `ParamBinding` | calls with parameters, and parameters used for several calls | `ParamBinding_proofs` |

`MC<module>` instantiates a module for TLC.  `PROJECT.json` maps each definition
to the lines it stands for; what follows is how state and actions correspond.

**LibraryLoader.**  `loaded` is `YAC_LIB`, `lock` is `INIT_LOCK`; each thread has
a place in `library()`: fast path (`Lookup`), lock (`Acquire`), second look
(`Recheck`), opening the file (`Load`), symbols (`Resolve`), `YAC_LIB.set`
(`Publish`), the drop of the guard (`Unlock`), the return (`Answer`).  A thread
may call again, so retries after a failure and later requests are part of it.
`LibrarySource` separates a path from the file it resolves to, and resolves it in
two ways that need not agree: `dlopen` takes a name without a directory from its
search path (`DlFile`), `canonicalize` takes it from the working directory
(`Canon`).  Nothing is assumed of how the two are related; a path that
canonicalises to another file than the one it opens is `Ambiguous`, and a library
keeps the request it was loaded for (`asked`) as history.
`OnceLibrary` has one atomic step per outcome; `LibraryLoader` implements it
under the mapping given by its `INSTANCE`.

**TransactionGuard.**  The server's transaction is three sets of work items:
pending, committed, discarded.  `Commit`, `Rollback` and `Drop` are the whole of
`finish()` and of the destructor, with the restoring of the mode.  A native commit that
reports an error may have happened, may have discarded the work or may have left
it pending.  Reading or setting the mode ends in an `expect` (`attr.rs:168-171`,
`215-219`) and may panic: in `transaction()` there is then no guard and nothing
has changed; at the end of a guard the mode is not given back, and since
`finish()` has marked the guard completed nothing tries again.  `lost` remembers
that until the application sets the mode.  `outcome` is what the native commit or
rollback returned, also where a panic follows it.  Statements are data changes; SQL that ends a transaction by itself
(DDL, textual COMMIT) is outside the model.

**ConnectionSetup.**  One variable per field of `ConnectGuard`, and the native
side: allocated handles, each connection handle's environment, the attributes
set on it, live sessions.  Each native call on the way up is an action, `Fail`
leaves any of them that the code can leave, and the way down is the three parts
of the guard's `Drop`, which an open connection shares.

**ResultStream.**  `call` says which loop of the driver is running: the rebinds
of a fetch, the native fetch, the drain of a finished result set, the drain after
a query that failed half way.  `bound` tells whether the memory the native
statement points at is still there.  `slot`, `alloc`, `temp` and `user` follow
each LOB descriptor from a column to the application to its release; `value`
and `promised` are the rows it refers to and was read from.  Columns without a
buffer (unsupported types) are never bound and are left out.

`RowStream` knows no statement, cursor, binding or call of several steps: a query
opens a stream, rows come one by one, the end comes after the last one, a LOB is
taken out of the row in hand and stays that row's.  `ResultStream` implements it
under this mapping: `Phase` is open from the query until `fetch` returns `None`
or the result set is finished or dropped, `Left` is the cursor while it is open,
`Taken` are the LOB columns of the row in hand without a descriptor, and `Lobs`
pairs each of the application's descriptors with the row it refers to.  The end
of a failed query and the draining of `finish_result` are stutters.

**RowAccess and SingleRow.**  `DataTypeInfo` (`Statement::column_info`),
`Storage` (`bind_columns`), `Conversions` (the `FromColumn` implementations and
the storage their `as_*` method expects) are the four tables, kept apart as in
the code; `ReadColumn` is what `Row::get` makes of them, with "unreachable" for
an `unreachable!`.  `SingleRow` is the closure of `query_one_map` or
`query_opt_map` and the release after it: `operation` is what the closure
returned, `result` what the caller gets, `errors` is a history of what went wrong.
The mapping function is any sequence of reads and then a value or an error.

**LobHandle.**  `handle` says which descriptor a variable of the application or a
`BindParam` holds, `temp` the temporary LOB it refers to, `live` those on the
server.  Nearly every operation is a `Swap`: a holder drops what it has, releasing
its temporary or failing to, and takes something else or nothing.  `Move` is the
completion of a nullable LOB, which hands the parameter's locator to the target.
The parameters still to be bound, or to be completed, are a set, so every argument
order is covered.  `stranded` (every release failed), `replaced` (yacExecute
overwrote the locator) and `failed` (the parameter was in a failed call) are
history: they say when a temporary may be lost.

**LobTransfer.**  A LOB is the sequence of the sizes of its units, a read is the
list of positions appended to the output.  Turns of the loops are actions, a
native read may return less than it could (`curt` remembers it), and arithmetic
in `u64` wraps as in a release build (`Word`).

**ParamBinding.**  A value is its size, or `Null`.  Each `BindParam` is a record
with its target, its buffer, the capacity asked for and the room there is.
`bound` is what the native statement remembers, also when the `BindParam` is
gone.  The kinds group the driver's types by how binding and completion treat
them.

### Assumptions about what is not in the source

* A client call that fails changes nothing, except where an action says
  otherwise (commit, rollback).
* Attribute getters and setters that the code unwraps with `expect` panic when
  they fail, on the way up (`ConnectionSetup`) as around a guard
  (`TransactionGuard`); the panic unwinds and drops `ConnectGuard` like an early
  return.  The application may catch it and go on with the connection.
* The files, the search path and the working directory do not change while the
  program runs.
* Guards are dropped, not leaked with `mem::forget`.
* Nothing panics while `INIT_LOCK` is held; the code recovers from a poisoned
  lock anyway.
* `execute` is used for SQL without a result set, as `conn.rs:241` asks.
* `yacExecute` writes the locators of its outputs, perhaps also when it then
  fails, and does not release what a locator referred to before.
* `yacLobFreeTemporary` may fail; an append to a LOB writes everything or fails.
* The client writes a fetched locator through the descriptor bound at that time,
  and a text value no further than the room it was told.

## 3. Checks

| Run | Question | States |
| --- | --- | --- |
| `loader` | three threads, discovery and five paths, two files: `LoadsOnce`, `OkMeansMyFile`, `RefusedRightly`, refinement `OnceSpec`, `CallsReturn` | 226,498 |
| `guard` | two guards, three work items, any failures and panics: `ModeRestored`, `AllOrNothing`, `OutcomeKept`, `LeftPendingAfterFailure` | 8,264 |
| `guard_failed_commit` | finding: `NotLeftPending` fails | |
| `setup` | two connections at once, three builder configurations, failures everywhere: `HandlesOwned`, `ChildrenFirst`, `ConfiguredFirst`, `AttemptsEnd` | 41,125 |
| `stream` | one plain, one LOB and one JSON column, streams of up to two rows: `FetchReady`, `RowCoherent`, `LobsSurvive`, `DescriptorsOwned`, `StateMatches`, `PoisonedForGood`, refinement `RowStreamSpec`, `CallsReturn` | 470,742 |
| `stream_recover` | finding: `FetchIntoLiveStorage` fails | |
| `rows` | single-row queries of one column of any type, or two columns of one name or of two, two rows: `RowsCounted`, `FirstErrorTold`, `ReleasedOnReturn`, `TakenNotNull`, `ReadsDocumented` | 42,057 |
| `handles` | one variable, two parameters of seven kinds, two calls, any failures: `DescriptorsHeld`, `TemporariesAccounted`, `JsonSentOnce`, `CleanUnlessFailed`, `OkMeansThisCall` | 681,049 |
| `lob` | every LOB of up to four units of every width: `Contiguous`, `CompleteRead`, `PositionedRead`, `TransfersEnd` | 89,878 |
| `params` | two placeholders, two `BindParam`s of five kinds, positional and named calls: `BoundToThisCall`, `OkMeansDelivered`, `TextFits` | 583,474 |
| `params_null`, `params_reuse` | findings: `NullRejected`, `CapacityKept` fail | |

`setup` and `stream` also check their module's `TypeOK`, which there says something
of its own (no session without its handle, no temporary without a descriptor).
The `TypeOK` of every module is proved (`TypeCorrect`).

### Bounds and why they are enough

* `loader`: three threads let one load, one wait at the lock and one be on the
  fast path; the five paths are a canonical file, the same file by bare name,
  another file, a bare name that is one file to `dlopen` and the other in the
  working directory, and none.
* `guard`: two guards and three items give work before, inside and after a
  guard, and one guard after another.
* `setup`: connections share only the pool of handles; two show any mix-up of
  ownership, and four handles let both be complete.
* `stream`: two rows give a first fetch, a fetch after a rebind and the end;
  four descriptors leave two for the columns and two with the application.
  `MaxTick` bounds the rows over all streams of a behaviour; a statement that is
  queried again gets what remains.
* `lob`: four units read in chunks of 0, 1, 3, 5 and 9 bytes give chunks that are
  empty, smaller than a character, not a multiple of one, and larger than the
  LOB.  `SizeMax` 11 and `Word` 16 are small enough that requests are refused as
  too large, and that a product wraps below the limit.
* `rows`: one column of each type meets every target; two columns show that a name
  finds the first of its columns, and that a LOB taken from one leaves the other.
  Two rows are what `query_one_map` has to tell from one.
* `handles`: two parameters are what a call needs to fail at one of them with the
  other bound or completed, two calls what the reuse of a parameter needs, and the
  variable is the target that both may want.  Three descriptors and two temporaries
  let a parameter make a new LOB while the old one is still held.
* `params`: one parameter more and one less than the SQL has are among the calls,
  as are an unknown name and the same name twice.  `MaxSize` 2 gives a value that
  fits and one that does not.  Of the eight kinds the run leaves out "native"
  (finding 3, `params_null`), "nullable" (it behaves as "jsonNullable" whose value
  can always be read) and "json" (it rejects NULL as "fixed" does and its reads
  fail as those of "jsonNullable" do); the proofs cover all eight.

`params`, `guard`, `handles` and `rows` use symmetry among parameters, variables,
guards, work items, descriptors and temporaries; they check no liveness.

### Fairness

Liveness assumes only that a call into the driver that is not blocked goes on,
because every native call returns: weak fairness of a thread's own steps
(`loader`), of each connection's steps (`setup`), and of the steps inside a call
(`stream`, `lob`).  No native call is required to succeed or to fail.
`INIT_LOCK` is not assumed fair, so a thread may lose it to others for as long as
their loads fail; `CallsReturn` of the loader is about calls made once a library
is published.

## 4. Proofs

All theorems hold for any number of threads, paths, connections, handles,
guards, work items, columns, rows, descriptors, temporaries, placeholders and
parameters, and LOBs, chunks and values of any size, under the `ASSUME`s of the
modules, which TLC evaluates in every run.  Every invariant and every refinement
that a passing run checks is proved, and so is its one action property.

### 4.1 Invariants and refinements

* **LibraryLoader**: `TypeCorrect`, `InitialLoadOnce`, `AcceptedRequests`,
  `RefusedRequests`, `ImplementsOnce`.  `LoadsOnce` is not inductive: that a
  thread about to publish finds the cell empty follows from what it saw under the
  lock and from nobody else having written since.  `IInv` adds that exactly the
  threads between `Acquire` and `Unlock` hold the lock (`LockInv`), what each
  place in the call knows of the cell (`CallInv`) and that the remembered source
  is a source of the loaded file unless it was loaded by an ambiguous path
  (`SourceInv`).  `AcceptedRequests` and `RefusedRequests` hold for any file
  system; their exception is `Misled`, a request or a load by an ambiguous path
  (section 5).  The refinement proof maps each
  step to one of the once-cell or to a stutter.
* **TransactionGuard**: `TypeCorrect`, `ModeIsRestored`, `Atomicity`,
  `OutcomesAreFinal`, `OnlyFailuresLeaveWork`.  `IInv` adds which guard is open and
  that an unused guard has no work (`GuardInv`).  `ModeIsRestored` is an equality:
  between guards the mode is the one the application asked for, unless giving it
  back panicked (`lost`), and then it is not.
* **ConnectionSetup**: `TypeCorrect`, `NothingLeaks`, `FreedInOrder`,
  `Configured`.  `OwnershipInv` adds what each step knows of the guard's fields
  (`GuardInv`): without it a step could overwrite a handle that is still held.
  `ConfigInv` says which attributes each step has behind it; that one connection's
  attributes are not another's rests on the ownership proved before.
* **ResultStream**: `TypeCorrect`, `FetchesAreReady`, `RowsAreCoherent`,
  `TransferredLobsSurvive`, `OneOwner`, `StatesMatch`, `PoisonedStays`,
  `ImplementsRowStream`.  `IInv` adds what each place in a call knows of the
  statement and of the result set (`CallInv`), and that only a column awaiting its
  rebind may lack a descriptor, while none of the others holds a stale cache or a
  temporary (`StreamInv`).  `FetchReady` needs both: `fetch` skips every column
  that is not pending.  The refinement of `RowStream` needs `IInv` too: that a
  fetch delivers a new row with nothing taken out of it, that a LOB handed over
  has a descriptor nobody else has, and that a drain does not change the LOBs in
  hand, are what the invariant says.
* **SingleRow**: `TypeCorrect`, `OkMeansOneRow`, `FirstErrorReturned`,
  `Released`, `OnlyLobsTaken`, `ReadsAsDocumented`, `UsesRowStream`.  `Progressed`
  says, for each place in the call, how many rows have come and whether an error
  has happened.  `ReadsAsDocumented` (the property `ReadsDocumented`) needs types
  only: it composes the tables of `RowAccess`, one lemma per table, into the
  documented one.  `ReadColumn` is a chain of `IF`s for the proof's sake too:
  overlapping arms of a `CASE` have no order in TLA+, those of the code have.
* **LobHandle**: `TypeCorrect`, `OneHolder`, `NoTemporaryForgotten`, `JsonOnce`,
  `CleanAfterOk`, `AnswerOfThisCall`.  Every step changes locators in one of four
  ways: not at all, by one `Swap`, by one `Move`, or by what `yacExecute` writes
  (`LobStep`), and the proofs of the first two invariants are about these four.
  `Shape` adds what parameters borrow (outputs exclusively, so that no two
  of a call write to one locator) and how far the call is; `TempInv` that what was
  lost is still on the server; `JsonInv`, `CleanInv` and `AnswerInv` say of the
  bound or completed part of a call what the properties say of the whole.
* **LobTransfer**: `TypeCorrect`, `ReadsAreContiguous`, `OkMeansWhole`,
  `OkMeansAllAsked`.  `IInv`
  adds that the next read starts where the output ends (`OffsetInv`).
  `OkMeansWhole` (the property `CompleteRead`) adds that a chunk of text is one
  character at least and that its room does not wrap (`ChunkInv`): then a read
  that returns nothing before the end was curt.  `OkMeansAllAsked` (the property
  `PositionedRead`) rests on n units taking at most n times the ratio
  (`BytesBound`), and excepts the requests whose product wraps.  The size in bytes of a run of
  units is a recursive function; the lemmas on it argue by its least
  counterexample.
* **ParamBinding**: `TypeCorrect`, `BoundForThisCall`, `TextStaysInMemory`,
  `OkMeansAnswered`.  The driver never compares the names of a call with those of
  the SQL; it compares their number, and the client refuses a name it does not
  know.  `EveryNameOnce` shows that this is enough: an injection of a finite set
  into itself is onto.  `IInv` adds that the parameters before `pos` are bound
  (`CallInv`), and that the native statement points at memory that was made and is
  no larger than asked for (`MemoryInv`).  `OkMeansAnswered` (the property
  `OkMeansDelivered`) is about every kind but "native", for which it is false
  (finding 3).  `RoomInv` relates a parameter's buffer to what was asked for, and
  `OutcomeInv` says that a parameter still to be completed is rejected or
  completes to the server's answer.

### 4.2 How far the findings go

Four properties fail (section 5).  For each, a theorem says how far, for all
constants: what still holds, with the one exception that the finding is about.

* `OnlyFailuresLeaveWork`: work of a guard that is gone is pending only if its
  commit, rollback or rolling-back drop returned an error (finding 1).
* `OnlyRecoveryFetchesAstray`: every fetch but those of the drain after a query
  that could not bind its columns writes to memory that is alive (finding 2).
* `OnlyNativeNullUnseen`: whatever the kinds of the parameters, the NULL of a
  "native" target is the only answer a call returns Ok without having delivered
  (finding 3); `OkMeansAnswered` and `NullNotOk` are the properties without that
  kind.
* `CapacityWholeOrNone` and `SpentForGood`: a nullable text is bound with its
  whole capacity or none, and one that has received a value is bound with none
  by every later call, until it is dropped (finding 4).

### 4.3 What a step may never do

Action properties that relate a step to the state before it:

* `PoisonedStays`: see `PoisonedForGood`.
* `FateIsFinal`: committed work stays committed, discarded work stays discarded,
  none is lost sight of, and an ended guard keeps its outcome.
* `OpenIsUndisturbed`: an open connection keeps its handles, its session and its
  attributes, whatever other attempts do and wherever they fail.  It rests on
  `HandlesOwned`: a handle has one connection.
* `HeldLobsAreKept`: from `take_lob` on, until the application drops the LOB, no
  fetch, rebind, drain or drop of the driver frees the descriptor or the
  temporary LOB behind it, or makes it refer to another row.
* `OthersAreUntouched`: a call writes to no `BindParam` that was not passed to it,
  though an earlier call may have left the native statement pointing at it.  This
  is `EveryNameOnce` again: each placeholder is bound anew.
* `OtherLobsAreKept` and `OnlyTheseAreLost`: a call leaves every `Blob` and `Clob`
  but its outputs the same LOB, and a temporary LOB is written over only where an
  output or a parameter of a failed call still held it.
* `LockNeverLeaks` (an invariant) and `PublishedForGood`: `INIT_LOCK` is held by
  the thread inside its scope and nobody else, and the library is never replaced.

`PublishedForGood` and the invariant `StreamKeepsLobs` (LOBs in hand are of
delivered rows, have handles of their own, and those of a row are no more than
were taken from it) are proved of the abstract specifications `OnceLibrary` and
`RowStream` alone, and the refinements carry them over to the loader and to the
single-row queries.

### 4.4 What liveness rests on

Liveness itself is out of TLAPS's reach.  What can be proved is that no call can
go round in circles: each of these theorems gives a natural number (`Remaining`)
that every step of a call makes smaller, its failures included.

* `CallsShorten` of `LibraryLoader`: at most seven steps; only `INIT_LOCK` can
  keep a thread waiting, and its holder has five to take.
* `AttemptsShorten`: at most fourteen steps of connect or teardown, four of
  unwinding; steps of other connections do not lengthen it.
* `CallsShorten` of `ResultStream`: a fetch makes one native call for each pending
  column and one for the row, a drain one for each row left and one to end.  It assumes
  `IsFiniteSet(LocCols)`: a query has finitely many columns (the other theorems do
  without).
* `TransfersShorten`: a loop takes one turn per unit of the LOB and one to end,
  because a read that returns nothing ends it.
* `CallsAreBounded`: n parameters take n binds, one native call, n completions
  and one count of rows.

What `CallsReturn`, `AttemptsEnd` and `TransfersEnd` add is that a step which can
be taken is taken, and that there is one; TLC checks that, and only that, without
a proof behind it (`ENABLED` and fairness are not provable here).

## 5. Findings

Each is a run in which TLC violates a statement of the code or its docs.

1. `transaction.rs:18-19` promises a rollback attempt unless the transaction was
   committed or rolled back; after a failed `commit()` none is made, and with
   auto-commit restored a later statement commits the work.
2. When binding the columns of a query on a prepared statement fails, the stream
   is drained into column buffers that are already gone (`result_set/mod.rs:92`).
3. A NULL for a `Number` or `Timestamp` output is not rejected
   (`param/output.rs:142`), as `output.rs:221` says for non-optional targets, and
   the target gets an earlier value.
4. A nullable text parameter that is used again is bound with capacity 0,
   whatever `capacity` asked for (`param/output.rs:164`).

Observations without a run of their own:

* `ffi/mod.rs:143` says that `source_matches` is true of the file the library was
  loaded from, and `library.rs:72-73` that another file is refused.  For a name
  without a directory `dlopen` (`load.rs:112`) searches, while `canonicalize`
  (`load.rs:114`) looks in the working directory.  With a file of that name in
  both, the source remembered is the file that was not loaded: a later request for
  that file is told Ok, one for the file that is loaded is refused.  This is the
  path `local` of the `loader` run, and `Misled` in `OkMeansMyFile` and
  `RefusedRightly` is the exact exception; without it TLC finds the violation in
  ten states.
* Giving back auto-commit at the end of a guard may panic after the guard counts
  as completed (`transaction.rs:216-219`); a connection that is used on is then in
  manual commit, and stays so until the application sets the mode.  `attr.rs:166`
  says that the setter cannot fail.  `ModeRestored` has this as its exact exception.
* `library.rs:72` calls `load_library_with_path` idempotent for the same file; a
  library found by its bare name has no source, and a later request for that very
  file is refused.  `RefusedRightly` states exactly when a request is refused.
* `max_chars * ratio` wraps in a release build before it is compared with
  `isize::MAX` (`lob.rs:376`), where a debug build panics.  Then a request that is
  too large is not refused and reads less than it could, in the extreme nothing,
  with Ok.  `Contiguous` holds all the same, `PositionedRead` excepts exactly these
  requests, and the chunks of a complete read do not wrap.
* A native read that returns less than it could ends `read_to_end` with Ok
  (`lob.rs:250`).  Whether the client does that cannot be read from the source;
  `CompleteRead` and `PositionedRead` are about clients that do not.
* `result_set/mod.rs:843-845` says that `get` returns an error for text that is not
  valid UTF-8; for text columns `as_text` (591-592) does not look, trusting the
  client.  `ReadsDocumented` is about types and NULL and leaves the bytes out.
* A call that fails in or after `yacExecute` leaves a locator in a JSON or
  nullable LOB parameter; `get_or_insert` keeps it (`param/output.rs:97`) and the
  next call writes over the temporary LOB it may hold.  `CleanUnlessFailed` shows
  that only a failed call can lead there.
* The client writes the code of a column's type straight into a `YacType`
  (`ffi/stmt.rs:238`); a code the enum does not have is no value of it.
* `lib.rs:198` says that transferred columns are rebound before the next fetch,
  while the drain of `finish_result` (`stmt.rs:277`) fetches without rebinding.
  `LobsSurvive` shows that transferred LOBs are not disturbed by it; what the
  client does with a column whose locator was moved away is not visible in the
  source.

## 6. Not modelled

* Decoding of fixed-size values, the layout conversions of value types, error
  messages, C declarations: copies, pure functions or formatting.
* Writes and truncation of LOBs: one native call each.
* Preloading of the client library's dependencies: its outcome is ignored.
* Attribute getters.
* `execute` of SQL that returns rows, and DDL inside a transaction: documented
  as not to be done, and the server's part cannot be read from the source.
* Several statements of one connection together.  The borrow of the connection
  lets neither a guard be opened nor the connection be closed while a statement,
  a result set or a LOB made from it is alive; and what `commit()` on the
  connection does to an open cursor is the server's.

## 7. Plan

Done: the components of section 2, in the order in which their failure would
hurt most: loader, transactions, result streams, connection setup, LOB reads,
parameters, then LOB handles, the abstract row stream, single-row queries and row
access, then the proofs of section 4.  Possible next steps:

1. A lemma that a name finds the first of its columns for every schema
   (`Resolved`), and a variant for the single-row queries.
2. `LobHandle` and `ResultStream` over one pool of descriptors, to follow a LOB
   from a row into a parameter.
3. The conversions of `types.rs` (`Number`, `Date`, `Timestamp`, intervals)
   against reference definitions, once the ranges that `sqldatetime` gives these
   types can be read.
