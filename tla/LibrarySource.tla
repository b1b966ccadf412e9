--------------------------- MODULE LibrarySource ---------------------------
(***************************************************************************)
(* The pure part of the client-library loader: which file a request would  *)
(* load, which source the driver remembers for it, and when a later        *)
(* explicit request is accepted (load.rs, ffi/mod.rs, library.rs).         *)
(*                                                                         *)
(* A path is what the application writes; a file is what the file system   *)
(* resolves it to.  Several paths may name one file (symbolic links).  A   *)
(* path is resolved in two ways that need not agree: dlopen takes a name   *)
(* without a directory from the default search path (load.rs:75, 112),     *)
(* fs::canonicalize takes it from the working directory (load.rs:114,      *)
(* ffi/mod.rs:149).  Neither changes while the program runs.               *)
(***************************************************************************)

CONSTANTS
    Paths,      \* explicit paths an application passes
    Files,      \* files that are client libraries
    Discover,   \* the request without a path (custom = None)
    NoFile,     \* "resolves to nothing"
    Unknown,    \* the source of a library found by its bare name
    Canon,      \* path -> file that fs::canonicalize returns, or NoFile
    DlFile,     \* path -> file that dlopen(path) opens, or NoFile
    BareFile,   \* file that dlopen(MAIN_LIB_NAME) opens, or NoFile
    UserFile    \* file in the per-user directory, or NoFile

ASSUME SourceAssumption ==
    /\ Discover \notin Paths
    /\ NoFile \notin Files \union Paths
    /\ Unknown \notin Files \union Paths
    /\ Paths \intersect Files = {}
    /\ Canon \in [Paths -> Files \union {NoFile}]
    /\ DlFile \in [Paths -> Files \union {NoFile}]
    /\ {BareFile, UserFile} \subseteq Files \union {NoFile}

Requests == Paths \union {Discover}

(* A request that is one file to canonicalize and another, or none, to     *)
(* dlopen: the name of a file in the working directory, without a `./`.    *)
Ambiguous(r) == r \in Paths /\ Canon[r] # NoFile /\ DlFile[r] # Canon[r]

(* ffi::YacLib: the source it remembers, and (not remembered by the code)  *)
(* the file that was really opened and the request it was opened for.      *)
Libraries ==
    [source : Files \union Paths \union {Unknown}, file : Files, asked : Requests]

(* load_auto: the bare name first, whose file stays unknown to the driver, *)
(* then the per-user directory.                                            *)
LoadAuto ==
    {[source |-> Unknown, file |-> f, asked |-> Discover] : f \in {BareFile} \ {NoFile}}
      \union {[source |-> f, file |-> f, asked |-> Discover] : f \in {UserFile} \ {NoFile}}

(* load_explicit: dlopen finds the file, and the source is what the path   *)
(* canonicalises to, or the path as given when that fails.                 *)
LoadExplicit(p) ==
    {[source |-> IF Canon[p] = NoFile THEN p ELSE Canon[p], file |-> f, asked |-> p] :
        f \in {DlFile[p]} \ {NoFile}}

(* The libraries an attempt for a request may produce; it may also fail.   *)
Loadable(custom) == IF custom = Discover THEN LoadAuto ELSE LoadExplicit(custom)

(* Mutant: a library of unknown source is assumed to be the one asked for. *)
SourceMatchesUnknown(lib, p) ==
    lib.source = Unknown \/ (Canon[p] # NoFile /\ Canon[p] = lib.source)

(* Mutant: the path is compared as it was written.                         *)
SourceMatchesVerbatim(lib, p) == lib.source = p

(* YacLib::source_matches *)
SourceMatches(lib, p) ==
    /\ lib.source # Unknown
    /\ Canon[p] # NoFile
    /\ Canon[p] = lib.source

(* check_source: the verdict on a request when a library is loaded.        *)
CheckSource(custom, lib) ==
    IF custom # Discover /\ ~SourceMatches(lib, custom) THEN "conflict" ELSE "ok"
=============================================================================
