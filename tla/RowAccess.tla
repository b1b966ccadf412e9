----------------------------- MODULE RowAccess -----------------------------
(***************************************************************************)
(* Row::get: how a column of a row becomes a Rust value (result_set/).     *)
(* Four tables have to fit together, each in a place of its own: the type  *)
(* that the client reports becomes a DataTypeInfo (stmt.rs), that one      *)
(* chooses the storage that is bound (bind_columns), a Rust type asks for  *)
(* some DataTypeInfos (convert.rs), and its reader expects one storage.    *)
(* Where they do not, the reader is `unreachable!`.                        *)
(*                                                                         *)
(* A column is [name |-> n, yac |-> t]; NULLs and taken LOBs are sets of   *)
(* positions, counted from 1.                                              *)
(***************************************************************************)
EXTENDS Integers, Sequences

(* Types that the client can report and Statement::column_info knows.      *)
SameName == {"Bool", "TinyInt", "SmallInt", "Integer", "BigInt", "Float", "Double",
             "Number", "Date", "Timestamp", "TimestampLtz", "TimestampTz",
             "Char", "NChar", "VarChar", "NVarChar", "Binary", "Json", "Blob", "Clob"}

(* The other members of YacType.                                           *)
Foreign == {"Unknown", "UTinyInt", "USmallInt", "UInteger", "UBigInt", "Bit", "RowId",
            "Cursor", "Xml", "NumericFloat"}

(* Those that are called otherwise in the crate.                           *)
Renamed == [ShortTime |-> "Time", YmInterval |-> "IntervalYM", DsInterval |-> "IntervalDS",
            NClob |-> "Nclob"]

YacTypes == SameName \union DOMAIN Renamed \union Foreign

(* Statement::column_info.                                                 *)
DataTypeInfo(yac) ==
    IF yac \in SameName THEN yac
    ELSE IF yac \in DOMAIN Renamed THEN Renamed[yac] ELSE "Other"

Characters == {"Char", "NChar", "VarChar", "NVarChar"}

(* The variant of ColumnBinding that bind_columns makes for a type.        *)
Storage(info) ==
    CASE info \in Characters -> "Text"
      [] info \in {"Blob", "Clob", "Nclob"} -> "Lob"
      [] info = "Time" -> "ShortTime"
      [] info \in {"TimestampLtz", "TimestampTz", "Other"} -> "Unsupported"
      [] OTHER -> info

(* The targets of FromColumn: the types they match, and the storage that   *)
(* their as_* method expects.                                              *)
Scalar(target, info) == [target |-> target, infos |-> {info}, reads |-> info]

Conversions ==
    {Scalar("bool", "Bool"), Scalar("i8", "TinyInt"), Scalar("i16", "SmallInt"),
     Scalar("i32", "Integer"), Scalar("i64", "BigInt"), Scalar("f32", "Float"),
     Scalar("f64", "Double"), Scalar("Number", "Number"), Scalar("Date", "Date"),
     Scalar("Timestamp", "Timestamp"), Scalar("IntervalYM", "IntervalYM"),
     Scalar("IntervalDS", "IntervalDS"),
     Scalar("&[u8]", "Binary"), Scalar("Vec<u8>", "Binary"),
     Scalar("&Yason", "Json"), Scalar("YasonBuf", "Json"),
     [target |-> "Time", infos |-> {"Time"}, reads |-> "ShortTime"],
     [target |-> "&str", infos |-> Characters, reads |-> "Text"],
     [target |-> "String", infos |-> Characters, reads |-> "Text"],
     [target |-> "Blob", infos |-> {"Blob"}, reads |-> "Lob"],
     [target |-> "Clob", infos |-> {"Clob", "Nclob"}, reads |-> "Lob"]}

Targets == {c.target : c \in Conversions}

(* Mutant: an NCLOB is not what a Clob is for.                             *)
MatchesClobOnly(target, info) ==
    \E c \in Conversions : c.target = target /\ info \in c.infos \ {"Nclob"}

Matches(target, info) == \E c \in Conversions : c.target = target /\ info \in c.infos

Reads(target) == (CHOOSE c \in Conversions : c.target = target).reads

-----------------------------------------------------------------------------
(* Resolving an index.                                                     *)

Named(columns, name) == {i \in DOMAIN columns : columns[i].name = name}

(* ColumnIndex::index: the column at a position that counts from 0, or the *)
(* first one of a name; none if there is no such column.                   *)
Resolved(columns, index, names) ==
    IF index \in names
      THEN {i \in Named(columns, index) : \A j \in Named(columns, index) : i <= j}
      ELSE {i \in DOMAIN columns : i = index + 1}

-----------------------------------------------------------------------------
(* Reading a column.                                                       *)

(* Mutant: the LOB of a NULL column is handed out like any other.          *)
ReadColumnBlind(info, isNull, isTaken, target, optional) ==
    IF Storage(info) = "Unsupported" THEN "unsupported"
    ELSE IF isNull /\ Storage(info) # "Lob" THEN IF optional THEN "none" ELSE "null"
    ELSE IF ~Matches(target, info) THEN "mismatch"
    ELSE IF Storage(info) # Reads(target) THEN "unreachable"
    ELSE IF Storage(info) = "Lob" /\ isTaken THEN "transferred" ELSE "value"

(* Row::column, Column::read or read_optional, and the reader, each check  *)
(* an early return that comes before the next; where the value is JSON,    *)
(* reading it from the server may still fail.                              *)
ReadColumn(info, isNull, isTaken, target, optional) ==
    IF Storage(info) = "Unsupported" THEN "unsupported"
    ELSE IF isNull THEN IF optional THEN "none" ELSE "null"
    ELSE IF ~Matches(target, info) THEN "mismatch"
    ELSE IF Storage(info) # Reads(target) THEN "unreachable"
    ELSE IF Storage(info) = "Lob" /\ isTaken THEN "transferred" ELSE "value"
=============================================================================
