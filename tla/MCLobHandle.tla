---------------------------- MODULE MCLobHandle ----------------------------
(* A variable of the application and two parameters, used for two calls.   *)
EXTENDS LobHandle, TLC

Symmetry == Permutations(Desc) \union Permutations(Temps)
              \union Permutations(Vars) \union Permutations(Params)
=============================================================================
