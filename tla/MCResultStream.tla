--------------------------- MODULE MCResultStream ---------------------------
(***************************************************************************)
(* A query with a plain column, a LOB column and a JSON column.            *)
(***************************************************************************)
EXTENDS ResultStream
=============================================================================
