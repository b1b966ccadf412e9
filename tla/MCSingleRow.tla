---------------------------- MODULE MCSingleRow ----------------------------
(***************************************************************************)
(* Queries with one column of any type, and queries with two columns, of   *)
(* one name or of two, where the values of LOBs are moved out.             *)
(***************************************************************************)
EXTENDS SingleRow, TLC

CONSTANTS A, B

Column(n, t) == [name |-> n, yac |-> t]

MCSchemas ==
    {<<Column(A, t)>> : t \in YacTypes}
      \union {<<Column(A, t), Column(n, u)>> :
                t \in {"Blob", "Json", "TimestampTz"}, n \in {A, B}, u \in {"NClob", "Integer"}}

Symmetry == Permutations(Desc)
=============================================================================
