--------------------------- MODULE MCParamBinding ---------------------------
(* SQL with two placeholders, and two BindParams to pass for them.         *)
EXTENDS ParamBinding, TLC

Symmetry == Permutations(Params)
=============================================================================
