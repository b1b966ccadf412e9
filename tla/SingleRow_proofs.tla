-------------------------- MODULE SingleRow_proofs --------------------------
(***************************************************************************)
(* Proofs about SingleRow, for any schemas, any number of rows and any     *)
(* mapping function.                                                       *)
(***************************************************************************)
EXTENDS SingleRow, SequenceTheorems, FiniteSetTheorems, TLAPS

-----------------------------------------------------------------------------
(* Row::get.                                                               *)

(* A resolved index is a column of the result set.                         *)
LEMMA ResolvedColumn ==
    ASSUME NEW cols \in Seq([name : Names, yac : YacTypes]), NEW index,
           NEW i \in Resolved(cols, index, Names)
    PROVE  i \in 1..Len(cols) /\ cols[i].yac \in YacTypes
<1>1. i \in DOMAIN cols
  BY DEF Resolved, Named
<1>2. DOMAIN cols = 1..Len(cols)
  BY LenProperties
<1>3. cols[i] \in [name : Names, yac : YacTypes]
  BY <1>1, <1>2, ElementOfSeq
<1>. QED
  BY <1>1, <1>2, <1>3

(* The columns of the query in hand.                                       *)
LEMMA ColumnsFacts ==
    ASSUME columns \in Schemas \union {<<>>}
    PROVE  /\ columns \in Seq([name : Names, yac : YacTypes])
           /\ Len(columns) \in Nat /\ Len(columns) <= MaxCols
           /\ DOMAIN columns = 1..Len(columns)
<1>1. CASE columns \in Schemas
  BY <1>1, SchemaAssumption, LenProperties
<1>2. CASE columns = <<>>
  BY <1>2, EmptySeq, BoundsAssumption
<1>. QED
  BY <1>1, <1>2

(* A LOB comes out of a LOB column that is not NULL.                       *)
LEMMA LobRead ==
    ASSUME NEW yac \in YacTypes, NEW isNull \in BOOLEAN, NEW isTaken \in BOOLEAN,
           NEW target \in Targets, NEW optional \in BOOLEAN,
           ReadColumn(DataTypeInfo(yac), isNull, isTaken, target, optional) = "value",
           Reads(target) = "Lob"
    PROVE  ~isNull /\ yac \in {"Blob", "Clob", "NClob"}
<1>1. ~isNull
  BY DEF ReadColumn
<1>2. Storage(DataTypeInfo(yac)) = "Lob"
  BY <1>1 DEF ReadColumn
<1>3. DataTypeInfo(yac) # "Lob"
  BY DEF DataTypeInfo, Renamed, SameName
<1>4. DataTypeInfo(yac) \in {"Blob", "Clob", "Nclob"}
  BY <1>2, <1>3, Zenon DEF Storage, Characters
<1>. QED
  BY <1>1, <1>4 DEF DataTypeInfo, Renamed, SameName

-----------------------------------------------------------------------------
(* Every variable keeps its type.                                          *)
LEMMA TypeInit == Init => TypeOK
<1> SUFFICES ASSUME Init PROVE TypeOK
  OBVIOUS
<1>1. errors \in Seq(Failures)
  BY EmptySeq DEF Init
<1>2. lobs \subseteq [desc : Desc, of : Nat] /\ columns \in Schemas \union {<<>>}
  BY DEF Init, Stream!Init
<1>3. phase \in {"closed", "open", "ended"} /\ left \in 0..MaxRows /\ last \in Nat /\ row \in Nat
  BY BoundsAssumption DEF Init, Stream!Init, Stream!NoRow
<1>4. call \in Calls /\ operation \in Results /\ result \in Results
  BY DEF Init, Calls, Results
<1>5. taken \subseteq 1..MaxCols /\ nulls \subseteq 1..MaxCols /\ total \in 0..MaxRows
  BY BoundsAssumption DEF Init, Stream!Init
<1>6. statement \in BOOLEAN /\ opt \in BOOLEAN
  BY DEF Init
<1>. QED
  BY <1>1, <1>2, <1>3, <1>4, <1>5, <1>6 DEF TypeOK

(* Every step keeps the types.                                            *)
LEMMA TypeStep == TypeOK /\ [Next]_vars => TypeOK'
<1> SUFFICES ASSUME TypeOK, [Next]_vars PROVE TypeOK'
  OBVIOUS
<1> USE BoundsAssumption DEF TypeOK, Calls, Results, Failures, Stream!NoRowInHand,
        Stream!NoRow
<1>1. CASE Start
  BY <1>1 DEF Start, streamVars
<1>2. CASE Query
  BY <1>2 DEF Query, Stream!Open
<1>3. CASE QueryFails
  BY <1>3 DEF QueryFails, streamVars, Return
<1>4. CASE FirstRow
  <2>1. DOMAIN columns \subseteq 1..MaxCols
    BY ColumnsFacts
  <2>. QED
    BY <1>4, <2>1 DEF FirstRow, Stream!Row
<1>5. CASE NoRow
  BY <1>5 DEF NoRow, Stream!End, Conclude
<1>6. CASE FetchFails
  BY <1>6 DEF FetchFails, Stream!Advance, Conclude
<1>7. ASSUME NEW index \in (0..MaxCols) \union Names, NEW target \in Targets,
             NEW optional \in BOOLEAN, Get(index, target, optional)
      PROVE  TypeOK'
  <2>1. PICK i \in Resolved(columns, index, Names) :
          IF TakesLob(i, target, optional) THEN Stream!TakeLob(i) ELSE UNCHANGED streamVars
    BY <1>7 DEF Get
  <2>2. i \in 1..MaxCols
    BY ResolvedColumn, ColumnsFacts
  <2>3. CASE Stream!TakeLob(i)
    <3>1. PICK d \in Desc : lobs' = lobs \union {[desc |-> d, of |-> row]}
      BY <2>3 DEF Stream!TakeLob
    <3>2. [desc |-> d, of |-> row] \in [desc : Desc, of : Nat]
      OBVIOUS
    <3>3. lobs' \subseteq [desc : Desc, of : Nat]
      BY <3>1, <3>2
    <3>. QED
      BY <1>7, <2>2, <2>3, <3>3 DEF Get, Stream!TakeLob
  <2>4. CASE UNCHANGED streamVars
    BY <1>7, <2>4 DEF Get, streamVars
  <2>. QED
    BY <2>1, <2>3, <2>4
<1>8. CASE Map
  BY <1>8 DEF Map, streamVars
<1>9. CASE MapFails
  BY <1>9 DEF MapFails, streamVars, Conclude
<1>10. CASE SecondRow
  BY <1>10 DEF SecondRow, Stream!Row, Conclude
<1>11. CASE NoSecondRow
  BY <1>11 DEF NoSecondRow, Stream!End, Conclude
<1>12. CASE Release
  <2>1. PICK released \in BOOLEAN :
          /\ errors' = IF released THEN errors ELSE Append(errors, "release")
          /\ Return(FinishResult(operation, released))
    BY <1>12 DEF Release
  <2>2. errors' \in Seq(Failures)
    BY <2>1, AppendProperties
  <2>3. result' \in Results /\ call' \in Calls
    BY <2>1 DEF Return, FinishResult
  <2>4. Stream!Close /\ statement' = FALSE
    BY <1>12 DEF Release
  <2>5. UNCHANGED <<columns, nulls, opt, operation, total>>
    BY <1>12 DEF Release
  <2>6. phase' = "closed" /\ left' = 0 /\ row' = 0 /\ taken' = {} /\ UNCHANGED <<last, lobs>>
    BY <2>4 DEF Stream!Close
  <2>7. phase' \in {"closed", "open", "ended"} /\ left' \in 0..MaxRows /\ last' \in Nat /\ row' \in Nat
    BY <2>6
  <2>8. taken' \subseteq 1..MaxCols /\ lobs' \subseteq [desc : Desc, of : Nat]
    BY <2>6
  <2>9. columns' \in Schemas \union {<<>>} /\ nulls' \subseteq 1..MaxCols /\ total' \in 0..MaxRows
    BY <2>5
  <2>10. statement' \in BOOLEAN /\ opt' \in BOOLEAN /\ operation' \in Results
    BY <2>4, <2>5
  <2>. QED
    BY <2>2, <2>3, <2>7, <2>8, <2>9, <2>10
<1>13. ASSUME NEW l \in lobs, DropLob(l)
       PROVE  TypeOK'
  BY <1>13 DEF DropLob, Stream!DropLob
<1>14. CASE UNCHANGED vars
  BY <1>14 DEF vars, streamVars
<1>. QED
  BY <1>1, <1>2, <1>3, <1>4, <1>5, <1>6, <1>7, <1>8, <1>9, <1>10, <1>11, <1>12, <1>13,
     <1>14 DEF Next

(* Every variable of a single-row query keeps its type.                    *)
THEOREM TypeCorrect == Spec => []TypeOK
BY TypeInit, TypeStep, PTL DEF Spec

-----------------------------------------------------------------------------
(* What a call has done when it is somewhere: the counting of rows against *)
(* `total`, and the errors so far.                                         *)

Closed == ~statement /\ phase = "closed" /\ row = Stream!NoRow

Counted(r) ==
    /\ r = "value" => total = 1
    /\ r = "TooManyRows" => total > 1
    /\ r = "RowNotFound" => total = 0 /\ ~opt
    /\ r = "none" => total = 0

Progressed ==
    /\ call \in {"idle", "query"} => Closed
    /\ call \in {"query", "first", "map", "second"} => errors = <<>>
    /\ call \in {"first", "map", "second"} => phase = "open"
    /\ call = "first" => total = left
    /\ call \in {"map", "second"} => total = left + 1
    /\ call = "release" =>
         /\ phase # "closed"
         /\ Counted(operation)
         /\ operation \notin {"query", "release"}
         /\ errors = IF operation \in Failures THEN <<operation>> ELSE <<>>

CallInv == TypeOK /\ Progressed /\ RowsCounted /\ FirstErrorTold

(* What finish_result makes of an operation and a release.                 *)
LEMMA FinishResultFacts ==
    ASSUME NEW op \in Results, op # "release", NEW released \in BOOLEAN
    PROVE  LET r == FinishResult(op, released)
               before == IF op \in Failures THEN <<op>> ELSE <<>>
               after == IF released THEN before ELSE Append(before, "release")
           IN  /\ r = op \/ r = "release"
               /\ IF after = <<>> THEN r \notin Failures ELSE r = Head(after)
<1>1. CASE op \in Failures
  <2>1. FinishResult(op, released) = op
    BY <1>1 DEF FinishResult
  <2>2. <<op>> # <<>> /\ Head(<<op>>) = op
    OBVIOUS
  <2>3. Append(<<op>>, "release") # <<>> /\ Head(Append(<<op>>, "release")) = op
    OBVIOUS
  <2>. QED
    BY <1>1, <2>1, <2>2, <2>3
<1>2. CASE op \notin Failures /\ released
  BY <1>2 DEF FinishResult
<1>3. CASE op \notin Failures /\ ~released
  <2>1. FinishResult(op, released) = "release" /\ "release" \in Failures
    BY <1>3 DEF FinishResult, Failures
  <2>2. Append(<<>>, "release") # <<>> /\ Head(Append(<<>>, "release")) = "release"
    OBVIOUS
  <2>. QED
    BY <1>3, <2>1, <2>2
<1>. QED
  BY <1>1, <1>2, <1>3

LEMMA CallInit == Init => CallInv
<1> SUFFICES ASSUME Init PROVE CallInv
  OBVIOUS
<1>1. Progressed
  BY DEF Init, Stream!Init, Stream!NoRow, Progressed, Closed
<1>2. RowsCounted
  BY DEF Init, RowsCounted
<1>3. FirstErrorTold
  BY DEF Init, FirstErrorTold, Failures
<1>. QED
  BY <1>1, <1>2, <1>3, TypeInit DEF CallInv

LEMMA CallStep == CallInv /\ [Next]_vars => CallInv'
<1> SUFFICES ASSUME CallInv, [Next]_vars PROVE CallInv'
  OBVIOUS
<1>a. TypeOK'
  BY TypeStep DEF CallInv
<1> SUFFICES (Progressed /\ RowsCounted /\ FirstErrorTold)'
  BY <1>a DEF CallInv
<1>b. /\ left \in Nat /\ total \in Nat /\ opt \in BOOLEAN /\ operation \in Results
      /\ Progressed /\ RowsCounted /\ FirstErrorTold
  BY BoundsAssumption DEF CallInv, TypeOK
<1> USE <1>b DEF Progressed, RowsCounted, FirstErrorTold, Counted, Closed,
        Stream!NoRow, Stream!NoRowInHand
<1>1. CASE Start
  BY <1>1 DEF Start, streamVars
<1>2. CASE Query
  BY <1>2 DEF Query, Stream!Open
<1>3. CASE QueryFails
  <2>1. <<"query">> # <<>> /\ Head(<<"query">>) = "query"
    OBVIOUS
  <2>. QED
    BY <1>3, <2>1 DEF QueryFails, streamVars, Return
<1>4. CASE FirstRow
  BY <1>4 DEF FirstRow, Stream!Row
<1>5. CASE NoRow
  <2>1. errors = <<>> /\ Append(errors, "RowNotFound") = <<"RowNotFound">>
    BY <1>5 DEF NoRow
  <2>. QED
    BY <1>5, <2>1 DEF NoRow, Stream!End, Conclude, Failures
<1>6. CASE FetchFails
  <2>1. call \in {"first", "second"} /\ UNCHANGED <<total, opt, result>> /\ Conclude("fetch")
    BY <1>6 DEF FetchFails
  <2>2. errors = <<>>
    BY <2>1
  <2>3. Append(<<>>, "fetch") = <<"fetch">>
    OBVIOUS
  <2>4. operation' = "fetch" /\ call' = "release" /\ errors' = <<"fetch">>
    BY <2>1, <2>2, <2>3 DEF Conclude, Failures
  <2>5. phase' # "closed"
    BY <1>6 DEF FetchFails, Stream!Advance
  <2>. QED
    BY <2>4, <2>5 DEF Failures
<1>7. ASSUME NEW index \in (0..MaxCols) \union Names, NEW target \in Targets,
             NEW optional \in BOOLEAN, Get(index, target, optional)
      PROVE  (Progressed /\ RowsCounted /\ FirstErrorTold)'
  <2>1. UNCHANGED <<phase, left>>
    BY <1>7 DEF Get, Stream!TakeLob, streamVars
  <2>. QED
    BY <1>7, <2>1 DEF Get
<1>8. CASE Map
  BY <1>8 DEF Map, streamVars
<1>9. CASE MapFails
  <2>1. errors = <<>> /\ Append(errors, "map") = <<"map">>
    BY <1>9 DEF MapFails
  <2>. QED
    BY <1>9, <2>1 DEF MapFails, streamVars, Conclude, Failures
<1>10. CASE SecondRow
  <2>1. errors = <<>> /\ Append(errors, "TooManyRows") = <<"TooManyRows">>
    BY <1>10 DEF SecondRow
  <2>. QED
    BY <1>10, <2>1 DEF SecondRow, Stream!Row, Conclude, Failures
<1>11. CASE NoSecondRow
  BY <1>11 DEF NoSecondRow, Stream!End, Conclude, Failures
<1>12. CASE Release
  <2>1. PICK released \in BOOLEAN :
          /\ errors' = IF released THEN errors ELSE Append(errors, "release")
          /\ Return(FinishResult(operation, released))
    BY <1>12 DEF Release
  <2>2. /\ operation # "release"
        /\ errors = IF operation \in Failures THEN <<operation>> ELSE <<>>
    BY <1>12 DEF Release
  <2>3. /\ result' = operation \/ result' = "release"
        /\ IF errors' = <<>> THEN result' \notin Failures ELSE result' = Head(errors')
    BY <2>1, <2>2, FinishResultFacts DEF Return
  <2>4. FirstErrorTold'
    BY <2>3
  <2>5. Counted(operation) /\ UNCHANGED <<total, opt>>
    BY <1>12 DEF Release
  <2>6. RowsCounted'
    BY <2>3, <2>5
  <2>7. Progressed'
    BY <1>12, <2>1 DEF Release, Stream!Close, Return
  <2>. QED
    BY <2>4, <2>6, <2>7
<1>13. ASSUME NEW l \in lobs, DropLob(l)
       PROVE  (Progressed /\ RowsCounted /\ FirstErrorTold)'
  BY <1>13 DEF DropLob, Stream!DropLob
<1>14. CASE UNCHANGED vars
  BY <1>14 DEF vars, streamVars
<1>. QED
  BY <1>1, <1>2, <1>3, <1>4, <1>5, <1>6, <1>7, <1>8, <1>9, <1>10, <1>11, <1>12, <1>13,
     <1>14 DEF Next

(* A call that returns a value found exactly one row, one that returns     *)
(* None or RowNotFound none, and one that returns TooManyRows several.     *)
THEOREM OkMeansOneRow == Spec => []RowsCounted
<1>1. CallInv => RowsCounted
  BY DEF CallInv
<1>. QED
  BY CallInit, CallStep, <1>1, PTL DEF Spec

(* The caller hears of the first thing that went wrong.                    *)
THEOREM FirstErrorReturned == Spec => []FirstErrorTold
<1>1. CallInv => FirstErrorTold
  BY DEF CallInv
<1>. QED
  BY CallInit, CallStep, <1>1, PTL DEF Spec

(* Nothing is left open on any path out of a call.                         *)
THEOREM Released == Spec => []ReleasedOnReturn
<1>1. CallInv => ReleasedOnReturn
  BY DEF CallInv, Progressed, Closed, ReleasedOnReturn
<1>. QED
  BY CallInit, CallStep, <1>1, PTL DEF Spec

-----------------------------------------------------------------------------
(* LOBs leave a row only where there are some.                             *)

LEMMA TakenStep == TypeOK /\ TakenNotNull /\ [Next]_vars => TakenNotNull'
<1> SUFFICES ASSUME TypeOK, TakenNotNull, [Next]_vars PROVE TakenNotNull'
  OBVIOUS
<1>a. ASSUME taken' = {} PROVE TakenNotNull'
  BY <1>a DEF TakenNotNull
<1>b. ASSUME UNCHANGED <<taken, columns, nulls>> PROVE TakenNotNull'
  BY <1>b DEF TakenNotNull
<1> USE DEF Stream!NoRowInHand
<1>1. CASE Start
  BY <1>1, <1>b DEF Start, streamVars
<1>2. CASE Query
  BY <1>2, <1>a DEF Query, Stream!Open
<1>3. CASE QueryFails
  BY <1>3, <1>b DEF QueryFails, streamVars
<1>4. CASE FirstRow
  BY <1>4, <1>a DEF FirstRow, Stream!Row
<1>5. CASE NoRow
  BY <1>5, <1>a DEF NoRow, Stream!End
<1>6. CASE FetchFails
  BY <1>6, <1>a DEF FetchFails, Stream!Advance
<1>7. ASSUME NEW index \in (0..MaxCols) \union Names, NEW target \in Targets,
             NEW optional \in BOOLEAN, Get(index, target, optional)
      PROVE  TakenNotNull'
  <2>1. PICK i \in Resolved(columns, index, Names) :
          IF TakesLob(i, target, optional) THEN Stream!TakeLob(i) ELSE UNCHANGED streamVars
    BY <1>7 DEF Get
  <2>2. UNCHANGED <<columns, nulls>>
    BY <1>7 DEF Get
  <2>3. CASE ~TakesLob(i, target, optional)
    BY <2>1, <2>2, <2>3, <1>b DEF streamVars
  <2>4. CASE TakesLob(i, target, optional)
    <3>1. columns \in Schemas \union {<<>>}
      BY DEF TypeOK
    <3>2. i \in DOMAIN columns /\ columns[i].yac \in YacTypes
      BY <3>1, ColumnsFacts, ResolvedColumn
    <3>3. i \notin nulls /\ columns[i].yac \in {"Blob", "Clob", "NClob"}
      <4>1. (i \in nulls) \in BOOLEAN /\ (i \in taken) \in BOOLEAN
        OBVIOUS
      <4>2. ReadColumn(DataTypeInfo(columns[i].yac), i \in nulls, i \in taken, target, optional) = "value"
        BY <2>4 DEF TakesLob, Answer
      <4>3. Reads(target) = "Lob"
        BY <2>4 DEF TakesLob
      <4>. QED
        BY <3>2, <4>1, <4>2, <4>3, LobRead, Zenon
    <3>4. taken' = taken \union {i}
      BY <2>1, <2>4 DEF Stream!TakeLob
    <3>. QED
      BY <2>2, <3>2, <3>3, <3>4 DEF TakenNotNull
  <2>. QED
    BY <2>3, <2>4
<1>8. CASE Map
  BY <1>8, <1>b DEF Map, streamVars
<1>9. CASE MapFails
  BY <1>9, <1>b DEF MapFails, streamVars
<1>10. CASE SecondRow
  BY <1>10, <1>a DEF SecondRow, Stream!Row
<1>11. CASE NoSecondRow
  BY <1>11, <1>a DEF NoSecondRow, Stream!End
<1>12. CASE Release
  BY <1>12, <1>a DEF Release, Stream!Close
<1>13. ASSUME NEW l \in lobs, DropLob(l)
       PROVE  TakenNotNull'
  BY <1>13, <1>b DEF DropLob, Stream!DropLob
<1>14. CASE UNCHANGED vars
  BY <1>14, <1>b DEF vars, streamVars
<1>. QED
  BY <1>1, <1>2, <1>3, <1>4, <1>5, <1>6, <1>7, <1>8, <1>9, <1>10, <1>11, <1>12, <1>13,
     <1>14 DEF Next

(* Whatever a mapping function asks for, of any schema, it takes LOBs only *)
(* out of LOB columns that are not NULL.                                   *)
THEOREM OnlyLobsTaken == Spec => []TakenNotNull
<1>1. Init => TakenNotNull
  BY DEF Init, Stream!Init, TakenNotNull
<1>. QED
  BY <1>1, TypeInit, TypeStep, TakenStep, PTL DEF Spec
-----------------------------------------------------------------------------
(* The four tables of Row::get.                                            *)

(* The target names its conversion, so Reads has no choice.                *)
LEMMA OneConversion ==
    ASSUME NEW c \in Conversions, NEW d \in Conversions, c.target = d.target
    PROVE  c = d
BY DEF Conversions, Scalar

(* convert.rs against bind_columns: every type that a target matches is    *)
(* bound to the storage that the target's reader expects.                  *)
LEMMA ConversionStorage ==
    ASSUME NEW c \in Conversions, NEW info \in c.infos
    PROVE  Storage(info) = c.reads /\ Storage(info) # "Unsupported"
BY DEF Conversions, Scalar, Storage, Characters

(* Hence the reader's `unreachable!` is.                                   *)
LEMMA MatchesReads ==
    ASSUME NEW target \in Targets, NEW info, Matches(target, info)
    PROVE  Storage(info) = Reads(target) /\ Storage(info) # "Unsupported"
<1>1. PICK c \in Conversions : c.target = target /\ info \in c.infos
  BY DEF Matches
<1>2. c = CHOOSE d \in Conversions : d.target = target
  BY <1>1, OneConversion
<1>. QED
  BY <1>1, <1>2, ConversionStorage DEF Reads

(* The documented pairs are conversions,                                   *)
LEMMA DocumentedMatches ==
    ASSUME NEW pair \in Documented
    PROVE  /\ Matches(pair[2], DataTypeInfo(pair[1]))
BY DEF Documented, Matches, Conversions, Scalar, DataTypeInfo, Renamed, SameName, Characters

(* (what column_info makes of a type, one line per name)                   *)
LEMMA SameInfo ==
    ASSUME NEW yac \in YacTypes
    PROVE  \/ yac \in SameName /\ DataTypeInfo(yac) = yac
           \/ yac = "ShortTime" /\ DataTypeInfo(yac) = "Time"
           \/ yac = "YmInterval" /\ DataTypeInfo(yac) = "IntervalYM"
           \/ yac = "DsInterval" /\ DataTypeInfo(yac) = "IntervalDS"
           \/ yac = "NClob" /\ DataTypeInfo(yac) = "Nclob"
           \/ DataTypeInfo(yac) = "Other"
BY DEF DataTypeInfo, Renamed, YacTypes, SameName

(* and there is no conversion that is not documented.                      *)
LEMMA MatchesDocumented ==
    ASSUME NEW yac \in YacTypes, NEW target \in Targets, Matches(target, DataTypeInfo(yac))
    PROVE  <<yac, target>> \in Documented
<1>1. PICK c \in Conversions : c.target = target /\ DataTypeInfo(yac) \in c.infos
  BY DEF Matches
<1>2. CASE c.infos = Characters
  <2>1. target \in {"String", "&str"}
    BY <1>1, <1>2 DEF Conversions, Scalar, Characters
  <2>2. yac \in {"Char", "VarChar", "NChar", "NVarChar"}
    BY <1>1, <1>2, SameInfo DEF Characters
  <2>. QED
    BY <2>1, <2>2 DEF Documented
<1>3. CASE c.infos # Characters
  <2>. DEFINE info == DataTypeInfo(yac)
  <2>1. <<info, target>> \in
          {<<"Bool", "bool">>, <<"TinyInt", "i8">>, <<"SmallInt", "i16">>,
           <<"Integer", "i32">>, <<"BigInt", "i64">>, <<"Float", "f32">>,
           <<"Double", "f64">>, <<"Number", "Number">>, <<"Date", "Date">>,
           <<"Time", "Time">>, <<"Timestamp", "Timestamp">>,
           <<"IntervalYM", "IntervalYM">>, <<"IntervalDS", "IntervalDS">>,
           <<"Json", "YasonBuf">>, <<"Json", "&Yason">>,
           <<"Binary", "Vec<u8>">>, <<"Binary", "&[u8]">>,
           <<"Blob", "Blob">>, <<"Clob", "Clob">>, <<"Nclob", "Clob">>}
    <3>. HIDE DEF info
    <3>1. info \in c.infos
      BY <1>1 DEF info
    <3>. QED
      BY <1>1, <1>3, <3>1 DEF Conversions, Scalar
  <2>2. \/ yac = "ShortTime" /\ info = "Time"
        \/ yac = "YmInterval" /\ info = "IntervalYM"
        \/ yac = "DsInterval" /\ info = "IntervalDS"
        \/ yac = "NClob" /\ info = "Nclob"
        \/ yac = info /\ info \notin {"Time", "IntervalYM", "IntervalDS", "Nclob"}
        \/ info = "Other"
    BY SameInfo DEF SameName
  <2>. HIDE DEF info
  <2>. QED
    BY <2>1, <2>2 DEF Documented
<1>. QED
  BY <1>2, <1>3

(* bind_columns refuses exactly the types without a documented target.     *)
LEMMA SupportedDocumented ==
    ASSUME NEW yac \in YacTypes
    PROVE  Storage(DataTypeInfo(yac)) = "Unsupported"
             <=> ~ \E pair \in Documented : pair[1] = yac
<1>. DEFINE without == Foreign \union {"TimestampLtz", "TimestampTz"}
<1>1. CASE yac \in without
  <2>1. Storage(DataTypeInfo(yac)) = "Unsupported"
    <3>1. DataTypeInfo(yac) \in {"Other", "TimestampLtz", "TimestampTz"}
      BY <1>1 DEF Foreign, SameName, Renamed, DataTypeInfo
    <3>. QED
      BY <3>1 DEF Storage, Characters
  <2>2. \A pair \in Documented : pair[1] # yac
    BY <1>1 DEF Documented, Foreign
  <2>. QED
    BY <2>1, <2>2
<1>2. CASE yac \notin without
  <2>1. PICK pair \in Documented : pair[1] = yac
    <3>. DEFINE type == [Char |-> "String", VarChar |-> "String", NChar |-> "String",
                         NVarChar |-> "String", ShortTime |-> "Time",
                         YmInterval |-> "IntervalYM", DsInterval |-> "IntervalDS",
                         NClob |-> "Clob", Bool |-> "bool", TinyInt |-> "i8",
                         SmallInt |-> "i16", Integer |-> "i32", BigInt |-> "i64",
                         Float |-> "f32", Double |-> "f64", Number |-> "Number",
                         Date |-> "Date", Timestamp |-> "Timestamp",
                         Binary |-> "Vec<u8>", Json |-> "YasonBuf", Blob |-> "Blob",
                         Clob |-> "Clob"]
    <3>1. yac \in DOMAIN type
      BY <1>2 DEF YacTypes, SameName, Foreign, Renamed
    <3>2. <<yac, type[yac]>> \in Documented
      BY <3>1 DEF Documented
    <3>. QED
      BY <3>2
  <2>2. Matches(pair[2], DataTypeInfo(yac))
    BY <2>1, DocumentedMatches
  <2>3. Storage(DataTypeInfo(yac)) # "Unsupported"
    BY <2>2, MatchesReads DEF Matches, Targets
  <2>. QED
    BY <2>1, <2>3
<1>. QED
  BY <1>1, <1>2

(* What Row::get answers for any type, target, NULL and taken LOB.         *)
LEMMA AnswerDocumented ==
    ASSUME NEW yac \in YacTypes, NEW isNull \in BOOLEAN, NEW isTaken \in BOOLEAN,
           NEW target \in Targets, NEW optional \in BOOLEAN
    PROVE  LET answer == ReadColumn(DataTypeInfo(yac), isNull, isTaken, target, optional)
               known == \E pair \in Documented : pair[1] = yac
           IN  /\ answer \in {"value", "transferred"} <=>
                    <<yac, target>> \in Documented /\ ~isNull
               /\ answer = "transferred" => isTaken
               /\ answer = "unsupported" <=> ~known
               /\ known /\ isNull => answer = IF optional THEN "none" ELSE "null"
               /\ answer # "unreachable"
<1>. DEFINE info == DataTypeInfo(yac)
            known == \E pair \in Documented : pair[1] = yac
<1>1. Storage(info) = "Unsupported" <=> ~known
  BY SupportedDocumented
<1>2. Matches(target, info) <=> <<yac, target>> \in Documented
  BY MatchesDocumented, DocumentedMatches
<1>3. Matches(target, info) => Storage(info) = Reads(target) /\ Storage(info) # "Unsupported"
  BY MatchesReads
<1>. HIDE DEF info, known
<1>4. /\ ReadColumn(info, isNull, isTaken, target, optional) \in {"value", "transferred"} <=>
            <<yac, target>> \in Documented /\ ~isNull
      /\ ReadColumn(info, isNull, isTaken, target, optional) = "transferred" => isTaken
      /\ ReadColumn(info, isNull, isTaken, target, optional) = "unsupported" <=> ~known
      /\ known /\ isNull => ReadColumn(info, isNull, isTaken, target, optional) = IF optional THEN "none" ELSE "null"
      /\ ReadColumn(info, isNull, isTaken, target, optional) # "unreachable"
  <2>. DEFINE answer == ReadColumn(info, isNull, isTaken, target, optional)
  <2>1. CASE ~known
    <3>1. answer = "unsupported"
      BY <1>1, <2>1 DEF ReadColumn
    <3>. QED
      BY <1>1, <1>2, <1>3, <2>1, <3>1
  <2>2. CASE known /\ isNull
    <3>1. answer = IF optional THEN "none" ELSE "null"
      BY <1>1, <2>2 DEF ReadColumn
    <3>. QED
      BY <2>2, <3>1
  <2>3. CASE known /\ ~isNull /\ ~Matches(target, info)
    <3>1. answer = "mismatch"
      BY <1>1, <2>3 DEF ReadColumn
    <3>. QED
      BY <1>2, <2>3, <3>1
  <2>4. CASE known /\ ~isNull /\ Matches(target, info)
    <3>1. answer = IF Storage(info) = "Lob" /\ isTaken THEN "transferred" ELSE "value"
      BY <1>1, <1>3, <2>4 DEF ReadColumn
    <3>. QED
      BY <1>2, <2>4, <3>1
  <2>. QED
    BY <2>1, <2>2, <2>3, <2>4
<1>. QED
  BY <1>4 DEF info, known

(* For every schema, row, target and Option, Row::get gives a value out    *)
(* exactly where the documentation of ResultSet says so, and no reader     *)
(* meets a storage that is not its own.                                    *)
THEOREM ReadsAsDocumented == Spec => []ReadsDocumented
<1>1. TypeOK => ReadsDocumented
  <2>. SUFFICES ASSUME TypeOK, NEW i \in DOMAIN columns, NEW target \in Targets,
                       NEW optional \in BOOLEAN
                PROVE  LET answer == Answer(i, target, optional)
                           known == \E pair \in Documented : pair[1] = columns[i].yac
                       IN  /\ answer \in {"value", "transferred"} <=>
                                <<columns[i].yac, target>> \in Documented /\ i \notin nulls
                           /\ answer = "transferred" => i \in taken
                           /\ answer = "unsupported" <=> ~known
                           /\ known /\ i \in nulls =>
                                answer = IF optional THEN "none" ELSE "null"
    BY DEF ReadsDocumented
  <2>1. columns[i] \in [name : Names, yac : YacTypes]
    BY ColumnsFacts, ElementOfSeq DEF TypeOK
  <2>. DEFINE yac == columns[i].yac
              isNull == i \in nulls
              isTaken == i \in taken
              answer == ReadColumn(DataTypeInfo(yac), isNull, isTaken, target, optional)
              known == \E pair \in Documented : pair[1] = yac
  <2>2. yac \in YacTypes /\ isNull \in BOOLEAN /\ isTaken \in BOOLEAN
    BY <2>1
  <2>3. /\ answer \in {"value", "transferred"} <=>
             <<yac, target>> \in Documented /\ ~isNull
        /\ answer = "transferred" => isTaken
        /\ answer = "unsupported" <=> ~known
        /\ known /\ isNull => answer = IF optional THEN "none" ELSE "null"
    <3>. HIDE DEF yac, isNull, isTaken
    <3>. QED
      BY <2>2, AnswerDocumented
  <2>. QED
    BY <2>3 DEF Answer
<1>. QED
  BY <1>1, TypeInit, TypeStep, PTL DEF Spec
-----------------------------------------------------------------------------
(* The rows that a call sees are those of a stream.                        *)

(* What query_one_map and query_opt_map do with their result set is what   *)
(* an application may do with one, so what RowStream promises, and         *)
(* ResultStream is shown to implement, is all that they lean on.           *)
THEOREM UsesRowStream == Spec => Stream!Spec
<1>1. Init => Stream!Init
  BY DEF Init
<1>2. TypeOK /\ [Next]_vars => [Stream!Next]_(Stream!vars)
  <2>. SUFFICES ASSUME TypeOK, [Next]_vars
                PROVE  Stream!Next \/ UNCHANGED streamVars
    BY DEF Stream!vars, streamVars
  <2>1. CASE Start \/ QueryFails \/ Map \/ MapFails
    BY <2>1 DEF Start, QueryFails, Map, MapFails
  <2>2. CASE Query \/ FirstRow \/ NoRow \/ FetchFails \/ SecondRow \/ NoSecondRow \/ Release
    BY <2>2 DEF Query, FirstRow, NoRow, FetchFails, SecondRow, NoSecondRow, Release,
                Stream!Next
  <2>3. ASSUME NEW index \in (0..MaxCols) \union Names, NEW target \in Targets,
               NEW optional \in BOOLEAN, Get(index, target, optional)
        PROVE  Stream!Next \/ UNCHANGED streamVars
    <3>1. PICK i \in Resolved(columns, index, Names) :
            IF TakesLob(i, target, optional) THEN Stream!TakeLob(i) ELSE UNCHANGED streamVars
      BY <2>3 DEF Get
    <3>2. i \in 1..MaxCols
      BY ResolvedColumn, ColumnsFacts, BoundsAssumption DEF TypeOK
    <3>. QED
      BY <3>1, <3>2 DEF Stream!Next
  <2>4. ASSUME NEW l \in lobs, DropLob(l)
        PROVE  Stream!Next \/ UNCHANGED streamVars
    BY <2>4 DEF DropLob, Stream!Next
  <2>5. CASE UNCHANGED vars
    BY <2>5 DEF vars
  <2>. QED
    BY <2>1, <2>2, <2>3, <2>4, <2>5 DEF Next
<1>. QED
  BY <1>1, <1>2, TypeInit, TypeStep, PTL DEF Spec, Stream!Spec

(* Of the stream alone: the row in hand is the latest one of an open       *)
(* result set, no two LOBs in hand share a handle, each belongs to a row   *)
(* that was delivered, and a row has given away no more than its columns.  *)
OfRow == {l \in lobs : l.of = row}

LobsFollowRows ==
    /\ phase \in {"closed", "open", "ended"} /\ left \in Nat /\ last \in Nat
    /\ row \in {Stream!NoRow, last}
    /\ row # Stream!NoRow => phase = "open"
    /\ row = Stream!NoRow => taken = {}
    /\ \A l \in lobs : l.of \in 1..last
    /\ \A l, m \in lobs : l.desc = m.desc => l = m
    /\ IsFiniteSet(lobs) /\ IsFiniteSet(taken)
    /\ Cardinality(OfRow) <= Cardinality(taken)

LEMMA NoLobsYet ==
    ASSUME LobsFollowRows, NEW r, r = 0 \/ r = last + 1
    PROVE  {l \in lobs : l.of = r} = {}
BY DEF LobsFollowRows

LEMMA LobsFollowStep == LobsFollowRows /\ [Stream!Next]_(Stream!vars) => LobsFollowRows'
<1>. SUFFICES ASSUME LobsFollowRows, [Stream!Next]_(Stream!vars)
              PROVE  LobsFollowRows'
  OBVIOUS
<1>. USE BoundsAssumption DEF Stream!NoRow, Stream!NoRowInHand
<1>a. IsFiniteSet({}) /\ Cardinality({}) = 0
  BY FS_EmptySet
<1>1. CASE Stream!Open \/ Stream!Advance \/ Stream!End \/ Stream!Close
  <2>1. lobs' = lobs /\ last' = last /\ row' = 0 /\ taken' = {}
    BY <1>1 DEF Stream!Open, Stream!Advance, Stream!End, Stream!Close
  <2>2. OfRow' = {}
    BY <2>1, NoLobsYet DEF OfRow
  <2>3. phase' \in {"closed", "open", "ended"} /\ left' \in Nat
    BY <1>1 DEF Stream!Open, Stream!Advance, Stream!End, Stream!Close, LobsFollowRows
  <2>. QED
    BY <1>a, <2>1, <2>2, <2>3 DEF LobsFollowRows
<1>2. CASE Stream!Row
  <2>1. OfRow' = {}
    BY <1>2, NoLobsYet DEF OfRow, Stream!Row
  <2>. QED
    BY <1>2, <1>a, <2>1 DEF LobsFollowRows, Stream!Row
<1>3. ASSUME NEW c, Stream!TakeLob(c)
      PROVE  LobsFollowRows'
  <2>1. PICK d \in Desc : /\ \A l \in lobs : l.desc # d
                          /\ lobs' = lobs \union {[desc |-> d, of |-> row]}
    BY <1>3 DEF Stream!TakeLob
  <2>. DEFINE new == [desc |-> d, of |-> row]
  <2>2. row # 0 /\ c \notin taken /\ taken' = taken \union {c}
        /\ UNCHANGED <<phase, left, last, row>>
    BY <1>3 DEF Stream!TakeLob
  <2>3. OfRow' = OfRow \union {new}
    BY <2>1, <2>2 DEF OfRow
  <2>4. IsFiniteSet(OfRow) /\ new \notin OfRow
    BY <2>1, FS_Subset DEF OfRow, LobsFollowRows
  <2>5. /\ IsFiniteSet(taken') /\ Cardinality(taken') = Cardinality(taken) + 1
        /\ Cardinality(taken) \in Nat
    BY <2>2, FS_AddElement, FS_CardinalityType DEF LobsFollowRows
  <2>6. Cardinality(OfRow') = Cardinality(OfRow) + 1 /\ Cardinality(OfRow) \in Nat
    BY <2>3, <2>4, FS_AddElement, FS_CardinalityType
  <2>7. IsFiniteSet(lobs')
    BY <2>1, FS_AddElement DEF LobsFollowRows
  <2>8. Cardinality(OfRow') <= Cardinality(taken')
    BY <2>5, <2>6 DEF LobsFollowRows
  <2>9. new.desc = d /\ new.of = row /\ row \in 1..last
    BY <2>2 DEF LobsFollowRows
  <2>10. (\A l \in lobs' : l.of \in 1..last') /\ (\A l, m \in lobs' : l.desc = m.desc => l = m)
    BY <2>1, <2>2, <2>9 DEF LobsFollowRows
  <2>. QED
    BY <2>2, <2>5, <2>7, <2>8, <2>10 DEF LobsFollowRows
<1>4. ASSUME NEW l \in lobs, Stream!DropLob(l)
      PROVE  LobsFollowRows'
  <2>1. lobs' = lobs \ {l} /\ UNCHANGED <<phase, left, last, row, taken>>
    BY <1>4 DEF Stream!DropLob
  <2>2. IsFiniteSet(OfRow) /\ IsFiniteSet(lobs')
    BY <2>1, FS_Subset DEF OfRow, LobsFollowRows
  <2>3. OfRow' \subseteq OfRow
    BY <2>1 DEF OfRow
  <2>4. /\ Cardinality(OfRow') <= Cardinality(OfRow)
        /\ Cardinality(OfRow') \in Nat /\ Cardinality(OfRow) \in Nat
        /\ Cardinality(taken) \in Nat
    BY <2>2, <2>3, FS_Subset, FS_CardinalityType DEF LobsFollowRows
  <2>5. Cardinality(OfRow') <= Cardinality(taken')
    BY <2>1, <2>4 DEF LobsFollowRows
  <2>. QED
    BY <2>1, <2>2, <2>5 DEF LobsFollowRows
<1>5. CASE UNCHANGED Stream!vars
  BY <1>5 DEF LobsFollowRows, OfRow, Stream!vars
<1>. QED
  BY <1>1, <1>2, <1>3, <1>4, <1>5 DEF Stream!Next

(* Every stream of rows keeps its LOBs apart: a LOB in hand is of a row    *)
(* that was delivered, under a handle of its own, and Row::get gives no    *)
(* more LOBs of a row away than there are columns it took one from.        *)
THEOREM StreamKeepsLobs == Spec => []LobsFollowRows
<1>1. Stream!Init => LobsFollowRows
  <2>1. Stream!Init => OfRow = {}
    BY DEF OfRow, Stream!Init
  <2>. QED
    BY FS_EmptySet, <2>1 DEF Stream!Init, Stream!NoRow, LobsFollowRows, OfRow
<1>. QED
  BY <1>1, LobsFollowStep, UsesRowStream, PTL DEF Stream!Spec
=============================================================================
