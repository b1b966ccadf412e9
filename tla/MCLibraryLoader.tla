-------------------------- MODULE MCLibraryLoader --------------------------
(***************************************************************************)
(* An instance of LibraryLoader: the library installed on the default      *)
(* search path (f1) and another in the per-user directory (f2).  A request *)
(* names f1 by its path or by its bare file name, f2 by a path, or nothing *)
(* that exists.  The bare name `local` is searched for as f1 too, but f2   *)
(* is the file of that name in the working directory.                      *)
(***************************************************************************)
EXTENDS LibraryLoader, TLC

CONSTANTS path1, bare1, path2, local, missing, f1, f2

MCPaths == {path1, bare1, path2, local, missing}
MCFiles == {f1, f2}
MCCanon ==
    path1 :> f1 @@ bare1 :> NoFile @@ path2 :> f2 @@ local :> f2 @@ missing :> NoFile
MCDlFile ==
    path1 :> f1 @@ bare1 :> f1 @@ path2 :> f2 @@ local :> f1 @@ missing :> NoFile
MCBareFile == f1
MCUserFile == f2
=============================================================================
