----------------------------- MODULE SingleRow -----------------------------
(***************************************************************************)
(* Connection::query_one_map and query_opt_map (conn.rs): run a query, map *)
(* its first row with a function of the application, look for a second     *)
(* one, release the statement and only then return.  The function reads    *)
(* columns with Row::get (RowAccess).                                      *)
(*                                                                         *)
(* The rows come from the abstract RowStream, which ResultStream is shown  *)
(* to implement; whatever fails inside a fetch is one error here.          *)
(***************************************************************************)
EXTENDS RowAccess

CONSTANTS
    Schemas,    \* the columns a query may have
    Names,      \* column names to ask for
    Desc,       \* the handles of taken LOBs
    MaxRows,    \* bound: rows of a query
    MaxCols,    \* bound: columns of a query
    MaxFetched  \* bound: rows delivered

ASSUME BoundsAssumption == MaxRows \in Nat /\ MaxCols \in Nat /\ MaxFetched \in Nat

ASSUME SchemaAssumption ==
    /\ \A s \in Schemas : s \in Seq([name : Names, yac : YacTypes]) /\ Len(s) <= MaxCols
    /\ Names \intersect Nat = {}

VARIABLES
    phase, left, last, row, taken, lobs, \* those of RowStream
    columns,    \* the columns of the query
    nulls,      \* the columns of the row in hand that are NULL
    statement,  \* whether a native statement is allocated
    call,       \* where the call in progress is
    opt,        \* it is query_opt_map
    operation,  \* what its closure returned, "none" before
    result,     \* what the latest call returned
    total,      \* history: rows that the query had
    errors      \* history: what went wrong in the call, in order

streamVars == <<phase, left, last, row, taken, lobs>>
vars == <<streamVars, columns, nulls, statement, call, opt, operation, result, total,
          errors>>

Stream == INSTANCE RowStream WITH LobCols <- 1..MaxCols

Calls == {"idle", "query", "first", "map", "second", "release"}
Failures == {"query", "fetch", "map", "RowNotFound", "TooManyRows", "release"}
Results == {"none", "value"} \union Failures

Init ==
    /\ Stream!Init
    /\ columns = <<>> /\ nulls = {} /\ statement = FALSE
    /\ call = "idle" /\ opt = FALSE /\ operation = "none" /\ result = "none"
    /\ total = 0 /\ errors = <<>>

-----------------------------------------------------------------------------
Return(r) ==
    /\ call' = "idle"
    /\ result' = r

Start ==
    /\ call = "idle"
    /\ call' = "query"
    /\ opt' \in BOOLEAN
    /\ operation' = "none" /\ result' = "none"
    /\ total' = 0 /\ errors' = <<>>
    /\ UNCHANGED <<streamVars, columns, nulls, statement>>

(* Connection::query makes a statement and a result set,                   *)
Query ==
    /\ call = "query" /\ last < MaxFetched
    /\ Stream!Open
    /\ columns' \in Schemas
    /\ statement' = TRUE
    /\ total' = left'
    /\ call' = "first"
    /\ UNCHANGED <<nulls, opt, operation, result, errors>>

(* or fails, which drops the statement.                                    *)
QueryFails ==
    /\ call = "query"
    /\ Return("query")
    /\ errors' = <<"query">>
    /\ UNCHANGED <<streamVars, columns, nulls, statement, opt, operation, total>>

(* The closure returns r, and rows.finish() is what comes next.            *)
Conclude(r) ==
    /\ operation' = r
    /\ call' = "release"
    /\ errors' = IF r \in Failures THEN Append(errors, r) ELSE errors

FirstRow ==
    /\ call = "first"
    /\ Stream!Row
    /\ nulls' \in SUBSET DOMAIN columns
    /\ call' = "map"
    /\ UNCHANGED <<columns, statement, opt, operation, result, total, errors>>

NoRow ==
    /\ call = "first"
    /\ Stream!End
    /\ Conclude(IF opt THEN "none" ELSE "RowNotFound")
    /\ UNCHANGED <<columns, nulls, statement, opt, result, total>>

FetchFails ==
    /\ call \in {"first", "second"}
    /\ Stream!Advance
    /\ Conclude("fetch")
    /\ UNCHANGED <<columns, nulls, statement, opt, result, total>>

(* What Row::get answers for the column i.                                 *)
Answer(i, target, optional) ==
    ReadColumn(DataTypeInfo(columns[i].yac), i \in nulls, i \in taken, target, optional)

TakesLob(i, target, optional) ==
    Answer(i, target, optional) = "value" /\ Reads(target) = "Lob"

(* Row::get in the mapping function; only the value of a LOB column leaves *)
(* the row changed.                                                        *)
Get(index, target, optional) ==
    /\ call = "map"
    /\ \E i \in Resolved(columns, index, Names) :
         IF TakesLob(i, target, optional) THEN Stream!TakeLob(i) ELSE UNCHANGED streamVars
    /\ UNCHANGED <<columns, nulls, statement, call, opt, operation, result, total, errors>>

(* The mapping function returns a value or an error of its choice, after   *)
(* as many reads as it likes.                                              *)
Map ==
    /\ call = "map"
    /\ call' = "second"
    /\ UNCHANGED <<streamVars, columns, nulls, statement, opt, operation, result, total,
                   errors>>

MapFails ==
    /\ call = "map"
    /\ Conclude("map")
    /\ UNCHANGED <<streamVars, columns, nulls, statement, opt, result, total>>

(* Mutant: the look for a second row is forgotten.                         *)
SecondRowUnseen ==
    /\ call = "second"
    /\ Stream!Row
    /\ Conclude("value")
    /\ UNCHANGED <<columns, nulls, statement, opt, result, total>>

SecondRow ==
    /\ call = "second"
    /\ Stream!Row
    /\ Conclude("TooManyRows")
    /\ UNCHANGED <<columns, nulls, statement, opt, result, total>>

NoSecondRow ==
    /\ call = "second"
    /\ Stream!End
    /\ Conclude("value")
    /\ UNCHANGED <<columns, nulls, statement, opt, result, total>>

(* Mutant: the error of the release is what the caller hears of.           *)
FinishResultLast(op, released) == IF released THEN op ELSE "release"

(* The function finish_result.                                             *)
FinishResult(op, released) == IF op \notin Failures /\ ~released THEN "release" ELSE op

(* Mutant: after an error the result set is left as it is.                 *)
ReleaseOnSuccess ==
    /\ call = "release"
    /\ Stream!Close
    /\ statement' = (operation \in Failures)
    /\ Return(operation)
    /\ UNCHANGED <<columns, nulls, opt, operation, total, errors>>

(* ResultSet::finish frees the statement; finish_result chooses an error.  *)
Release ==
    /\ call = "release"
    /\ Stream!Close
    /\ statement' = FALSE
    /\ \E released \in BOOLEAN :
         /\ errors' = IF released THEN errors ELSE Append(errors, "release")
         /\ Return(FinishResult(operation, released))
    /\ UNCHANGED <<columns, nulls, opt, operation, total>>

(* The application is done with a LOB that a mapping function took.        *)
DropLob(l) ==
    /\ Stream!DropLob(l)
    /\ UNCHANGED <<columns, nulls, statement, call, opt, operation, result, total,
                   errors>>

Next ==
    \/ Start \/ Query \/ QueryFails
    \/ FirstRow \/ NoRow \/ FetchFails
    \/ \E index \in (0..MaxCols) \union Names, target \in Targets, optional \in BOOLEAN :
         Get(index, target, optional)
    \/ Map \/ MapFails
    \/ SecondRow \/ NoSecondRow
    \/ Release
    \/ \E l \in lobs : DropLob(l)

Spec == Init /\ [][Next]_vars

-----------------------------------------------------------------------------
TypeOK ==
    /\ phase \in {"closed", "open", "ended"}
    /\ left \in 0..MaxRows /\ last \in Nat /\ row \in Nat
    /\ taken \subseteq 1..MaxCols
    /\ lobs \subseteq [desc : Desc, of : Nat]
    /\ columns \in Schemas \union {<<>>}
    /\ nulls \subseteq 1..MaxCols
    /\ statement \in BOOLEAN
    /\ call \in Calls
    /\ opt \in BOOLEAN
    /\ operation \in Results /\ result \in Results
    /\ total \in 0..MaxRows
    /\ errors \in Seq(Failures)

(* conn.rs:336, "must return exactly one row", and 363, "zero or one row": *)
(* what a call returns tells how many rows there were, whatever the        *)
(* mapping function did with the first.                                    *)
RowsCounted ==
    call = "idle" =>
        /\ result = "value" => total = 1
        /\ result = "TooManyRows" => total > 1
        /\ result = "RowNotFound" => total = 0 /\ ~opt
        /\ result = "none" => total = 0

(* conn.rs:343, "If query, fetch, or mapping fails, that error is returned *)
(* even when release also fails": the caller hears of the first error, and *)
(* of none only if there was none.                                         *)
FirstErrorTold ==
    call = "idle" =>
        IF errors = <<>> THEN result \notin Failures ELSE result = Head(errors)

(* conn.rs:343, "The result set is released before this method returns",   *)
(* on every path out of it.                                                *)
ReleasedOnReturn == call = "idle" => ~statement /\ phase = "closed" /\ row = Stream!NoRow

(* A mapping function takes LOBs only out of LOB columns of its row that   *)
(* are not NULL; asking for an Option of a NULL one transfers nothing.     *)
TakenNotNull ==
    \A i \in taken :
        /\ i \in DOMAIN columns \ nulls
        /\ columns[i].yac \in {"Blob", "Clob", "NClob"}

(* The mapping that result_set/mod.rs:813-832 documents.                   *)
Documented ==
    {<<"Bool", "bool">>, <<"TinyInt", "i8">>, <<"SmallInt", "i16">>, <<"Integer", "i32">>,
     <<"BigInt", "i64">>, <<"Float", "f32">>, <<"Double", "f64">>, <<"Number", "Number">>,
     <<"Date", "Date">>, <<"ShortTime", "Time">>, <<"Timestamp", "Timestamp">>,
     <<"YmInterval", "IntervalYM">>, <<"DsInterval", "IntervalDS">>,
     <<"Json", "YasonBuf">>, <<"Json", "&Yason">>,
     <<"Binary", "Vec<u8>">>, <<"Binary", "&[u8]">>, <<"Blob", "Blob">>,
     <<"Clob", "Clob">>, <<"NClob", "Clob">>}
      \union {"Char", "VarChar", "NChar", "NVarChar"} \X {"String", "&str"}

(* Row::get, across the four tables: no reader meets a storage that is not *)
(* its own; a value comes out exactly for the documented pairs of types,   *)
(* unless it is NULL or a LOB that was taken before; a column whose type   *)
(* is not documented is unsupported whatever is asked of it; and an Option *)
(* of any target is None for a NULL, also one of another type.             *)
ReadsDocumented ==
    call = "map" =>
        \A i \in DOMAIN columns, target \in Targets, optional \in BOOLEAN :
            LET answer == Answer(i, target, optional)
                known == \E pair \in Documented : pair[1] = columns[i].yac
            IN  /\ answer \in {"value", "transferred"} <=>
                     <<columns[i].yac, target>> \in Documented /\ i \notin nulls
                /\ answer = "transferred" => i \in taken
                /\ answer = "unsupported" <=> ~known
                /\ known /\ i \in nulls => answer = IF optional THEN "none" ELSE "null"
=============================================================================
