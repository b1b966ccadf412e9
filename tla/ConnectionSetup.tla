-------------------------- MODULE ConnectionSetup --------------------------
(***************************************************************************)
(* ConnectionBuilder::connect and Drop for Connection (conn.rs,            *)
(* ffi/conn.rs, ffi/attr.rs): the environment and connection handles of    *)
(* each connection, the session of the server behind them, and the         *)
(* attributes set on the way.  Every step of the way up may fail, by an    *)
(* Err or by the panic of an expect(), and ConnectGuard takes back what    *)
(* was built; an established connection is taken down the same way.        *)
(*                                                                         *)
(* External: the client allocates any handle that is not in use, a failing *)
(* call changes nothing, and a failing yacConnect leaves no session.       *)
(***************************************************************************)
EXTENDS FiniteSets

CONSTANTS
    Conns,      \* connections, in the hands of any threads
    Handles,    \* native handles
    NoHandle,   \* None
    OptionSets  \* configurations of the builder: sets of Options

(* What the builder may set.  "badPacket" stands for a packet size outside *)
(* [64 KiB, 32 MiB]; the auto-commit mode is set by every configuration.   *)
PreOptions == {"loginTimeout", "packetSize", "badPacket", "heartbeat"}
Options == PreOptions \union {"isolation"}

ASSUME SetupAssumption ==
    /\ NoHandle \notin Handles
    /\ OptionSets \subseteq SUBSET Options

VARIABLES
    step,       \* where each connection is
    opts,       \* its builder's options
    env, dbc,   \* ConnectGuard.env and dbc, then ConnectionHandle
    connected,  \* ConnectGuard.connected; true of an open connection
    envs, dbcs, \* handles allocated in the native client
    parent,     \* connection handle -> environment it was allocated under
    attrs,      \* connection handle -> the attributes set on it
    sessions    \* connection handles with a session in the server

guardVars == <<env, dbc, connected>>
nativeVars == <<envs, dbcs, parent, attrs, sessions>>
vars == <<step, opts, guardVars, nativeVars>>

Steps == {"ended", "env", "envAttrs", "dbc", "loginTimeout", "packetSize",
          "autoCommit", "heartbeat", "connect", "isolation", "handover",
          "open", "unwind"}

Attributes == {"loginTimeout", "packetSize", "autoCommit", "heartbeat", "isolation"}

TypeOK ==
    /\ step \in [Conns -> Steps]
    /\ opts \in [Conns -> SUBSET Options]
    /\ env \in [Conns -> Handles \union {NoHandle}]
    /\ dbc \in [Conns -> Handles \union {NoHandle}]
    /\ connected \in [Conns -> BOOLEAN]
    /\ envs \subseteq Handles
    /\ dbcs \subseteq Handles
    /\ envs \intersect dbcs = {}
    /\ parent \in [Handles -> Handles \union {NoHandle}]
    /\ attrs \in [Handles -> SUBSET Attributes]
    /\ sessions \subseteq Handles
    /\ \A c \in Conns : connected[c] => dbc[c] # NoHandle

Init ==
    /\ step = [c \in Conns |-> "ended"]
    /\ opts = [c \in Conns |-> {}]
    /\ env = [c \in Conns |-> NoHandle]
    /\ dbc = [c \in Conns |-> NoHandle]
    /\ connected = [c \in Conns |-> FALSE]
    /\ envs = {} /\ dbcs = {} /\ sessions = {}
    /\ parent = [h \in Handles |-> NoHandle]
    /\ attrs = [h \in Handles |-> {}]

Goto(c, from, to) == step[c] = from /\ step' = [step EXCEPT ![c] = to]

Unused == Handles \ (envs \union dbcs)

-----------------------------------------------------------------------------
(* The way up.                                                             *)

(* connect, with a new ConnectGuard, once library(None) has returned the   *)
(* library; when it has not, nothing was built.                            *)
Start(c) ==
    /\ Goto(c, "ended", "env")
    /\ \E o \in OptionSets : opts' = [opts EXCEPT ![c] = o]
    /\ UNCHANGED <<guardVars, nativeVars>>

AllocEnv(c) ==
    /\ Goto(c, "env", "envAttrs")
    /\ \E h \in Unused :
         /\ env' = [env EXCEPT ![c] = h]
         /\ envs' = envs \union {h}
    /\ UNCHANGED <<opts, dbc, connected, dbcs, parent, attrs, sessions>>

SetEnvAttrs(c) ==
    /\ Goto(c, "envAttrs", "dbc")
    /\ UNCHANGED <<opts, guardVars, nativeVars>>

AllocDbc(c) ==
    /\ Goto(c, "dbc", "loginTimeout")
    /\ \E h \in Unused :
         /\ dbc' = [dbc EXCEPT ![c] = h]
         /\ dbcs' = dbcs \union {h}
         /\ parent' = [parent EXCEPT ![h] = env[c]]
    /\ UNCHANGED <<opts, env, connected, envs, attrs, sessions>>

(* yacSetConnAttr, only for an option that is present.                     *)
SetAttr(c, attribute, present) ==
    /\ attrs' = IF present
                  THEN [attrs EXCEPT ![dbc[c]] = @ \union {attribute}]
                  ELSE attrs
    /\ UNCHANGED <<opts, guardVars, envs, dbcs, parent, sessions>>

SetLoginTimeout(c) ==
    /\ Goto(c, "loginTimeout", "packetSize")
    /\ SetAttr(c, "loginTimeout", "loginTimeout" \in opts[c])

SetPacketSize(c) ==
    /\ Goto(c, "packetSize", "autoCommit")
    /\ "badPacket" \notin opts[c]
    /\ SetAttr(c, "packetSize", "packetSize" \in opts[c])

SetAutoCommit(c) ==
    /\ Goto(c, "autoCommit", "heartbeat")
    /\ SetAttr(c, "autoCommit", TRUE)

SetHeartbeat(c) ==
    /\ Goto(c, "heartbeat", "connect")
    /\ SetAttr(c, "heartbeat", "heartbeat" \in opts[c])

(* Mutant: connect before the remaining attributes.                        *)
ConnectEarly(c) ==
    /\ \/ Goto(c, "connect", "isolation")
       \/ Goto(c, "autoCommit", "isolation")
    /\ sessions' = sessions \union {dbc[c]}
    /\ connected' = [connected EXCEPT ![c] = TRUE]
    /\ UNCHANGED <<opts, env, dbc, envs, dbcs, parent, attrs>>

(* yacConnect, and mark_connected.                                         *)
Connect(c) ==
    /\ Goto(c, "connect", "isolation")
    /\ sessions' = sessions \union {dbc[c]}
    /\ connected' = [connected EXCEPT ![c] = TRUE]
    /\ UNCHANGED <<opts, env, dbc, envs, dbcs, parent, attrs>>

SetIsolation(c) ==
    /\ Goto(c, "isolation", "handover")
    /\ SetAttr(c, "isolation", "isolation" \in opts[c])

(* into_handles: the handles move to the Connection.                       *)
Handover(c) ==
    /\ Goto(c, "handover", "open")
    /\ UNCHANGED <<opts, guardVars, nativeVars>>

(* Any of the steps fails: alloc_env, alloc_dbc, the login timeout, connect*)
(* and the isolation level by an Err, the packet size by an Err when it is *)
(* out of range, the other attributes by a panic.                          *)
MayFail(c) ==
    \/ step[c] \in {"env", "envAttrs", "dbc", "autoCommit", "connect"}
    \/ step[c] = "loginTimeout" /\ "loginTimeout" \in opts[c]
    \/ step[c] = "packetSize" /\ opts[c] \intersect {"packetSize", "badPacket"} # {}
    \/ step[c] = "heartbeat" /\ "heartbeat" \in opts[c]
    \/ step[c] = "isolation" /\ "isolation" \in opts[c]

(* Mutant: a failure ends the call without dropping the guard.             *)
FailForgetful(c) ==
    /\ MayFail(c)
    /\ step' = [step EXCEPT ![c] = "ended"]
    /\ env' = [env EXCEPT ![c] = NoHandle]
    /\ dbc' = [dbc EXCEPT ![c] = NoHandle]
    /\ connected' = [connected EXCEPT ![c] = FALSE]
    /\ UNCHANGED <<opts, nativeVars>>

Fail(c) ==
    /\ MayFail(c)
    /\ step' = [step EXCEPT ![c] = "unwind"]
    /\ UNCHANGED <<opts, guardVars, nativeVars>>

-----------------------------------------------------------------------------
(* The way down.                                                           *)

(* Drop for Connection, which nothing borrows any more.                    *)
Close(c) ==
    /\ Goto(c, "open", "unwind")
    /\ UNCHANGED <<opts, guardVars, nativeVars>>

Disconnect(c) ==
    /\ step[c] = "unwind"
    /\ dbc[c] # NoHandle /\ connected[c]
    /\ sessions' = sessions \ {dbc[c]}
    /\ connected' = [connected EXCEPT ![c] = FALSE]
    /\ UNCHANGED <<step, opts, env, dbc, envs, dbcs, parent, attrs>>

(* Mutant: the session is not disconnected before its handle is freed.     *)
FreeDbcAlive(c) ==
    /\ step[c] = "unwind"
    /\ dbc[c] # NoHandle
    /\ dbcs' = dbcs \ {dbc[c]}
    /\ dbc' = [dbc EXCEPT ![c] = NoHandle]
    /\ parent' = [parent EXCEPT ![dbc[c]] = NoHandle]
    /\ attrs' = [attrs EXCEPT ![dbc[c]] = {}]
    /\ UNCHANGED <<step, opts, env, connected, envs, sessions>>

(* Mutant: the handle is freed but not taken out of the guard.             *)
FreeDbcNotTaken(c) ==
    /\ step[c] = "unwind"
    /\ dbc[c] # NoHandle /\ ~connected[c]
    /\ dbcs' = dbcs \ {dbc[c]}
    /\ UNCHANGED <<step, opts, env, dbc, connected, envs, parent, attrs, sessions>>

FreeDbc(c) ==
    /\ step[c] = "unwind"
    /\ dbc[c] # NoHandle /\ ~connected[c]
    /\ dbcs' = dbcs \ {dbc[c]}
    /\ dbc' = [dbc EXCEPT ![c] = NoHandle]
    /\ parent' = [parent EXCEPT ![dbc[c]] = NoHandle]
    /\ attrs' = [attrs EXCEPT ![dbc[c]] = {}]
    /\ UNCHANGED <<step, opts, env, connected, envs, sessions>>

(* Mutant: the environment is freed first.                                 *)
FreeEnvFirst(c) ==
    /\ step[c] = "unwind"
    /\ env[c] # NoHandle
    /\ envs' = envs \ {env[c]}
    /\ env' = [env EXCEPT ![c] = NoHandle]
    /\ UNCHANGED <<step, opts, dbc, connected, dbcs, parent, attrs, sessions>>

FreeEnv(c) ==
    /\ step[c] = "unwind"
    /\ dbc[c] = NoHandle /\ env[c] # NoHandle
    /\ envs' = envs \ {env[c]}
    /\ env' = [env EXCEPT ![c] = NoHandle]
    /\ UNCHANGED <<step, opts, dbc, connected, dbcs, parent, attrs, sessions>>

End(c) ==
    /\ Goto(c, "unwind", "ended")
    /\ dbc[c] = NoHandle /\ env[c] = NoHandle
    /\ opts' = [opts EXCEPT ![c] = {}]
    /\ UNCHANGED <<guardVars, nativeVars>>

Up(c) ==
    \/ AllocEnv(c) \/ SetEnvAttrs(c) \/ AllocDbc(c) \/ SetLoginTimeout(c)
    \/ SetPacketSize(c) \/ SetAutoCommit(c) \/ SetHeartbeat(c)
    \/ Connect(c) \/ SetIsolation(c) \/ Handover(c) \/ Fail(c)

Down(c) == Disconnect(c) \/ FreeDbc(c) \/ FreeEnv(c) \/ End(c)

Next == \E c \in Conns : Start(c) \/ Close(c) \/ Up(c) \/ Down(c)

Spec == Init /\ [][Next]_vars

(* connect() and drop() run to their end: every native call returns.       *)
FairSpec == Spec /\ \A c \in Conns : WF_vars(Up(c) \/ Down(c))

-----------------------------------------------------------------------------
(* Every handle and every session the client holds belongs to exactly one  *)
(* connection that will free it, however far that one got: none leaks when *)
(* connect fails or panics, and none is freed twice.                       *)
HandlesOwned ==
    /\ envs = {env[c] : c \in Conns} \ {NoHandle}
    /\ dbcs = {dbc[c] : c \in Conns} \ {NoHandle}
    /\ sessions = {dbc[c] : c \in {k \in Conns : connected[k]}}
    /\ \A c, k \in Conns :
         /\ env[c] = env[k] /\ env[c] # NoHandle => c = k
         /\ dbc[c] = dbc[k] /\ dbc[c] # NoHandle => c = k

(* A handle is freed after everything that hangs off it: a connection      *)
(* handle never while its session is alive, an environment never while it  *)
(* has a connection handle.                                                *)
ChildrenFirst ==
    /\ sessions \subseteq dbcs
    /\ \A h \in dbcs : parent[h] \in envs

(* A session is never opened on a half-configured handle: the server sees  *)
(* every attribute that must precede the login, and the application gets   *)
(* a connection only when all that it asked for has been set.              *)
ConfiguredFirst ==
    \A c \in Conns :
        /\ connected[c] =>
             (opts[c] \intersect PreOptions) \union {"autoCommit"} \subseteq attrs[dbc[c]]
        /\ step[c] = "open" =>
             connected[c] /\ attrs[dbc[c]] = opts[c] \union {"autoCommit"}

(* What each step knows about the guard: the inductive part of the above.  *)
NoneYet == {"ended", "env"}
EnvOnly == {"envAttrs", "dbc"}
Live == {"isolation", "handover", "open"}

GuardInv ==
    \A c \in Conns :
        /\ step[c] \in NoneYet => env[c] = NoHandle
        /\ step[c] \in NoneYet \union EnvOnly => dbc[c] = NoHandle
        /\ step[c] \in EnvOnly => env[c] # NoHandle
        /\ step[c] \notin NoneYet \union EnvOnly \union {"unwind"} => dbc[c] # NoHandle
        /\ step[c] \in Live => connected[c]
        /\ connected[c] => step[c] \in Live \union {"unwind"}
        /\ dbc[c] # NoHandle => env[c] # NoHandle /\ parent[dbc[c]] = env[c]

OwnershipInv == TypeOK /\ GuardInv /\ HandlesOwned /\ ChildrenFirst

(* An attempt to connect ends: with an open connection or with every       *)
(* handle given back.                                                      *)
AttemptsEnd ==
    \A c \in Conns :
        step[c] = "env" ~>
            step[c] = "open" \/ (step[c] = "ended" /\ env[c] = NoHandle)
=============================================================================
