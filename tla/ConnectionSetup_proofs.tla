----------------------- MODULE ConnectionSetup_proofs -----------------------
(***************************************************************************)
(* No handle and no session leaks, is freed twice or is freed before what  *)
(* hangs off it, for any number of connections set up and taken down       *)
(* concurrently, whichever step of each of them fails.                     *)
(***************************************************************************)
EXTENDS ConnectionSetup, Integers, TLAPS

USE SetupAssumption

(* What a step of a connection must agree with, apart from the parent.     *)
Agrees(c, s) ==
    /\ s \in NoneYet => env[c] = NoHandle
    /\ s \in NoneYet \union EnvOnly => dbc[c] = NoHandle
    /\ s \in EnvOnly => env[c] # NoHandle
    /\ s \notin NoneYet \union EnvOnly \union {"unwind"} => dbc[c] # NoHandle
    /\ s \in Live => connected[c]
    /\ connected[c] => s \in Live \union {"unwind"}

(* The steps that change neither the guard nor what is allocated.          *)
LEMMA MoveKeeps ==
    ASSUME OwnershipInv, NEW c \in Conns, NEW s \in Steps,
           step' = [step EXCEPT ![c] = s], Agrees(c, s),
           opts' \in [Conns -> SUBSET Options],
           attrs' \in [Handles -> SUBSET Attributes],
           UNCHANGED <<guardVars, envs, dbcs, parent, sessions>>
    PROVE  OwnershipInv'
<1>1. TypeOK'
  BY DEF OwnershipInv, TypeOK, guardVars
<1>2. GuardInv'
  BY DEF OwnershipInv, TypeOK, GuardInv, guardVars, Agrees
<1>3. HandlesOwned' /\ ChildrenFirst'
  BY DEF OwnershipInv, HandlesOwned, ChildrenFirst, guardVars
<1>. QED  BY <1>1, <1>2, <1>3 DEF OwnershipInv

LEMMA SetAttrKeeps ==
    ASSUME OwnershipInv, NEW c \in Conns, NEW from \in Steps, NEW to \in Steps,
           NEW attribute \in Attributes, NEW present,
           Goto(c, from, to), SetAttr(c, attribute, present), Agrees(c, to)
    PROVE  OwnershipInv'
<1>1. attrs' \in [Handles -> SUBSET Attributes]
  BY DEF SetAttr, OwnershipInv, TypeOK
<1>2. opts' \in [Conns -> SUBSET Options]
  BY DEF SetAttr, OwnershipInv, TypeOK
<1>. QED  BY <1>1, <1>2, MoveKeeps DEF SetAttr, Goto

LEMMA Initially == Init => OwnershipInv
<1>. SUFFICES ASSUME Init PROVE OwnershipInv
  OBVIOUS
<1>1. TypeOK
  BY DEF Init, TypeOK, Steps
<1>2. GuardInv
  BY DEF Init, GuardInv, NoneYet, EnvOnly, Live
<1>3. HandlesOwned /\ ChildrenFirst
  BY DEF Init, HandlesOwned, ChildrenFirst
<1>. QED  BY <1>1, <1>2, <1>3 DEF OwnershipInv

LEMMA AllocEnvKeeps ==
    ASSUME OwnershipInv, NEW c \in Conns, AllocEnv(c)
    PROVE  OwnershipInv'
<1>1. PICK h \in Unused : env' = [env EXCEPT ![c] = h] /\ envs' = envs \union {h}
  BY DEF AllocEnv
<1>2. /\ h \in Handles /\ h \notin envs /\ h \notin dbcs /\ h # NoHandle
      /\ step[c] = "env" /\ step' = [step EXCEPT ![c] = "envAttrs"]
      /\ UNCHANGED <<opts, dbc, connected, dbcs, parent, attrs, sessions>>
  BY <1>1 DEF AllocEnv, Goto, Unused
<1>3. TypeOK'
  BY <1>1, <1>2 DEF OwnershipInv, TypeOK, Steps
<1>4. env[c] = NoHandle /\ dbc[c] = NoHandle
  BY <1>2 DEF OwnershipInv, GuardInv, NoneYet
<1>5. GuardInv'
  BY <1>1, <1>2, <1>4 DEF OwnershipInv, TypeOK, GuardInv, NoneYet, EnvOnly, Live
<1>6. \A k \in Conns : env[k] # h
  BY <1>2 DEF OwnershipInv, HandlesOwned
<1>7. envs' = {env'[k] : k \in Conns} \ {NoHandle}
  BY <1>1, <1>2, <1>4 DEF OwnershipInv, TypeOK, HandlesOwned
<1>8. \A k, j \in Conns : env'[k] = env'[j] /\ env'[k] # NoHandle => k = j
  BY <1>1, <1>6 DEF OwnershipInv, TypeOK, HandlesOwned
<1>9. HandlesOwned'
  BY <1>2, <1>7, <1>8 DEF OwnershipInv, HandlesOwned
<1>10. ChildrenFirst'
  BY <1>1, <1>2 DEF OwnershipInv, ChildrenFirst
<1>. QED  BY <1>3, <1>5, <1>9, <1>10 DEF OwnershipInv

LEMMA AllocDbcKeeps ==
    ASSUME OwnershipInv, NEW c \in Conns, AllocDbc(c)
    PROVE  OwnershipInv'
<1>1. PICK h \in Unused :
        /\ dbc' = [dbc EXCEPT ![c] = h]
        /\ dbcs' = dbcs \union {h}
        /\ parent' = [parent EXCEPT ![h] = env[c]]
  BY DEF AllocDbc
<1>2. /\ h \in Handles /\ h \notin envs /\ h \notin dbcs /\ h # NoHandle
      /\ step[c] = "dbc" /\ step' = [step EXCEPT ![c] = "loginTimeout"]
      /\ UNCHANGED <<opts, env, connected, envs, attrs, sessions>>
  BY <1>1 DEF AllocDbc, Goto, Unused
<1>3. env[c] # NoHandle /\ dbc[c] = NoHandle /\ ~connected[c]
  BY <1>2 DEF OwnershipInv, TypeOK, GuardInv, EnvOnly, Live
<1>4. TypeOK'
  BY <1>1, <1>2, <1>3 DEF OwnershipInv, TypeOK, Steps
<1>5. \A k \in Conns : dbc[k] # h
  BY <1>2 DEF OwnershipInv, HandlesOwned
<1>6. GuardInv'
  BY <1>1, <1>2, <1>3, <1>5 DEF OwnershipInv, TypeOK, GuardInv, NoneYet, EnvOnly, Live
<1>7. dbcs' = {dbc'[k] : k \in Conns} \ {NoHandle}
  BY <1>1, <1>2, <1>3 DEF OwnershipInv, TypeOK, HandlesOwned
<1>8. sessions' = {dbc'[k] : k \in {j \in Conns : connected'[j]}}
  BY <1>1, <1>2, <1>3 DEF OwnershipInv, TypeOK, HandlesOwned
<1>9. \A k, j \in Conns : dbc'[k] = dbc'[j] /\ dbc'[k] # NoHandle => k = j
  BY <1>1, <1>5 DEF OwnershipInv, TypeOK, HandlesOwned
<1>10. HandlesOwned'
  BY <1>2, <1>7, <1>8, <1>9 DEF OwnershipInv, HandlesOwned
<1>11. env[c] \in envs
  BY <1>3 DEF OwnershipInv, HandlesOwned
<1>12. ChildrenFirst'
  BY <1>1, <1>2, <1>11 DEF OwnershipInv, TypeOK, ChildrenFirst
<1>. QED  BY <1>4, <1>6, <1>10, <1>12 DEF OwnershipInv

LEMMA ConnectKeeps ==
    ASSUME OwnershipInv, NEW c \in Conns, Connect(c)
    PROVE  OwnershipInv'
<1>1. /\ step[c] = "connect" /\ step' = [step EXCEPT ![c] = "isolation"]
      /\ sessions' = sessions \union {dbc[c]}
      /\ connected' = [connected EXCEPT ![c] = TRUE]
      /\ UNCHANGED <<opts, env, dbc, envs, dbcs, parent, attrs>>
  BY DEF Connect, Goto
<1>2. dbc[c] # NoHandle
  BY <1>1 DEF OwnershipInv, GuardInv, NoneYet, EnvOnly
<1>3. dbc[c] \in dbcs /\ dbc[c] \in Handles
  BY <1>2 DEF OwnershipInv, TypeOK, HandlesOwned
<1>4. TypeOK'
  BY <1>1, <1>2, <1>3 DEF OwnershipInv, TypeOK, Steps
<1>5. GuardInv'
  BY <1>1, <1>2 DEF OwnershipInv, TypeOK, GuardInv, NoneYet, EnvOnly, Live
<1>6. sessions' = {dbc'[k] : k \in {j \in Conns : connected'[j]}}
  BY <1>1 DEF OwnershipInv, TypeOK, HandlesOwned
<1>7. HandlesOwned'
  BY <1>1, <1>6 DEF OwnershipInv, HandlesOwned
<1>8. ChildrenFirst'
  BY <1>1, <1>3 DEF OwnershipInv, ChildrenFirst
<1>. QED  BY <1>4, <1>5, <1>7, <1>8 DEF OwnershipInv

LEMMA DisconnectKeeps ==
    ASSUME OwnershipInv, NEW c \in Conns, Disconnect(c)
    PROVE  OwnershipInv'
<1>1. /\ step[c] = "unwind" /\ dbc[c] # NoHandle /\ connected[c]
      /\ sessions' = sessions \ {dbc[c]}
      /\ connected' = [connected EXCEPT ![c] = FALSE]
      /\ UNCHANGED <<step, opts, env, dbc, envs, dbcs, parent, attrs>>
  BY DEF Disconnect
<1>2. TypeOK'
  BY <1>1 DEF OwnershipInv, TypeOK
<1>3. GuardInv'
  BY <1>1 DEF OwnershipInv, TypeOK, GuardInv, NoneYet, EnvOnly, Live
<1>4. \A k \in Conns : dbc[k] = dbc[c] => k = c
  BY <1>1 DEF OwnershipInv, HandlesOwned
<1>5. sessions' = {dbc'[k] : k \in {j \in Conns : connected'[j]}}
  BY <1>1, <1>4 DEF OwnershipInv, TypeOK, HandlesOwned
<1>6. HandlesOwned'
  BY <1>1, <1>5 DEF OwnershipInv, HandlesOwned
<1>7. ChildrenFirst'
  BY <1>1 DEF OwnershipInv, ChildrenFirst
<1>. QED  BY <1>2, <1>3, <1>6, <1>7 DEF OwnershipInv

LEMMA FreeDbcKeeps ==
    ASSUME OwnershipInv, NEW c \in Conns, FreeDbc(c)
    PROVE  OwnershipInv'
<1>1. /\ step[c] = "unwind" /\ dbc[c] # NoHandle /\ ~connected[c]
      /\ dbcs' = dbcs \ {dbc[c]}
      /\ dbc' = [dbc EXCEPT ![c] = NoHandle]
      /\ parent' = [parent EXCEPT ![dbc[c]] = NoHandle]
      /\ attrs' = [attrs EXCEPT ![dbc[c]] = {}]
      /\ UNCHANGED <<step, opts, env, connected, envs, sessions>>
  BY DEF FreeDbc
<1>2. TypeOK'
  BY <1>1 DEF OwnershipInv, TypeOK
<1>3. \A k \in Conns : dbc[k] = dbc[c] => k = c
  BY <1>1 DEF OwnershipInv, HandlesOwned
<1>4. GuardInv'
  BY <1>1, <1>3 DEF OwnershipInv, TypeOK, GuardInv, NoneYet, EnvOnly, Live
<1>5. dbcs' = {dbc'[k] : k \in Conns} \ {NoHandle}
  BY <1>1, <1>3 DEF OwnershipInv, TypeOK, HandlesOwned
<1>6. sessions' = {dbc'[k] : k \in {j \in Conns : connected'[j]}}
  BY <1>1 DEF OwnershipInv, TypeOK, HandlesOwned
<1>7. \A k, j \in Conns : dbc'[k] = dbc'[j] /\ dbc'[k] # NoHandle => k = j
  BY <1>1 DEF OwnershipInv, TypeOK, HandlesOwned
<1>8. HandlesOwned'
  BY <1>1, <1>5, <1>6, <1>7 DEF OwnershipInv, HandlesOwned
<1>9. dbc[c] \notin sessions
  BY <1>1, <1>3 DEF OwnershipInv, HandlesOwned
<1>10. ChildrenFirst'
  BY <1>1, <1>9 DEF OwnershipInv, TypeOK, ChildrenFirst
<1>. QED  BY <1>2, <1>4, <1>8, <1>10 DEF OwnershipInv

LEMMA FreeEnvKeeps ==
    ASSUME OwnershipInv, NEW c \in Conns, FreeEnv(c)
    PROVE  OwnershipInv'
<1>1. /\ step[c] = "unwind" /\ dbc[c] = NoHandle /\ env[c] # NoHandle
      /\ envs' = envs \ {env[c]}
      /\ env' = [env EXCEPT ![c] = NoHandle]
      /\ UNCHANGED <<step, opts, dbc, connected, dbcs, parent, attrs, sessions>>
  BY DEF FreeEnv
<1>2. TypeOK'
  BY <1>1 DEF OwnershipInv, TypeOK
<1>3. GuardInv'
  BY <1>1 DEF OwnershipInv, TypeOK, GuardInv, NoneYet, EnvOnly, Live
<1>4. \A k \in Conns : env[k] = env[c] => k = c
  BY <1>1 DEF OwnershipInv, HandlesOwned
<1>5. envs' = {env'[k] : k \in Conns} \ {NoHandle}
  BY <1>1, <1>4 DEF OwnershipInv, TypeOK, HandlesOwned
<1>6. \A k, j \in Conns : env'[k] = env'[j] /\ env'[k] # NoHandle => k = j
  BY <1>1 DEF OwnershipInv, TypeOK, HandlesOwned
<1>7. HandlesOwned'
  BY <1>1, <1>5, <1>6 DEF OwnershipInv, HandlesOwned
<1>8. ASSUME NEW h \in dbcs PROVE parent[h] \in envs \ {env[c]}
  <2>1. PICK k \in Conns : dbc[k] = h /\ h # NoHandle
    BY DEF OwnershipInv, HandlesOwned
  <2>2. k # c /\ parent[h] = env[k] /\ env[k] # NoHandle
    BY <1>1, <2>1 DEF OwnershipInv, GuardInv
  <2>. QED  BY <1>4, <2>2 DEF OwnershipInv, HandlesOwned
<1>9. ChildrenFirst'
  BY <1>1, <1>8 DEF OwnershipInv, ChildrenFirst
<1>. QED  BY <1>2, <1>3, <1>7, <1>9 DEF OwnershipInv

(* One step of a connection at a time.                                     *)
LEMMA Inductive == OwnershipInv /\ [Next]_vars => OwnershipInv'
<1>. SUFFICES ASSUME OwnershipInv, [Next]_vars PROVE OwnershipInv'
  OBVIOUS
<1>. USE DEF NoneYet, EnvOnly, Live
<1>0. TypeOK /\ GuardInv
  BY DEF OwnershipInv
<1>1. ASSUME NEW c \in Conns, Start(c) PROVE OwnershipInv'
  <2>1. opts' \in [Conns -> SUBSET Options]
    BY <1>0, <1>1 DEF Start, TypeOK
  <2>. QED  BY <1>0, <1>1, <2>1, MoveKeeps
    DEF Start, TypeOK, GuardInv, Steps, Goto, Agrees, nativeVars
<1>2. ASSUME NEW c \in Conns, Close(c) PROVE OwnershipInv'
  BY <1>0, <1>2, MoveKeeps
    DEF Close, TypeOK, GuardInv, Steps, Goto, Agrees, nativeVars
<1>3. ASSUME NEW c \in Conns, SetEnvAttrs(c) PROVE OwnershipInv'
  BY <1>0, <1>3, MoveKeeps
    DEF SetEnvAttrs, TypeOK, GuardInv, Steps, Goto, Agrees, nativeVars
<1>4. ASSUME NEW c \in Conns, SetLoginTimeout(c) PROVE OwnershipInv'
  <2>1. Goto(c, "loginTimeout", "packetSize") /\ SetAttr(c, "loginTimeout", "loginTimeout" \in opts[c])
    BY <1>4 DEF SetLoginTimeout
  <2>2. Agrees(c, "packetSize")
    BY <1>0, <2>1 DEF GuardInv, Goto, Agrees
  <2>. QED  BY <2>1, <2>2, SetAttrKeeps DEF Steps, Attributes
<1>5. ASSUME NEW c \in Conns, SetPacketSize(c) PROVE OwnershipInv'
  <2>1. Goto(c, "packetSize", "autoCommit") /\ SetAttr(c, "packetSize", "packetSize" \in opts[c])
    BY <1>5 DEF SetPacketSize
  <2>2. Agrees(c, "autoCommit")
    BY <1>0, <2>1 DEF GuardInv, Goto, Agrees
  <2>. QED  BY <2>1, <2>2, SetAttrKeeps DEF Steps, Attributes
<1>6. ASSUME NEW c \in Conns, SetAutoCommit(c) PROVE OwnershipInv'
  <2>1. Goto(c, "autoCommit", "heartbeat") /\ SetAttr(c, "autoCommit", TRUE)
    BY <1>6 DEF SetAutoCommit
  <2>2. Agrees(c, "heartbeat")
    BY <1>0, <2>1 DEF GuardInv, Goto, Agrees
  <2>. QED  BY <2>1, <2>2, SetAttrKeeps DEF Steps, Attributes
<1>7. ASSUME NEW c \in Conns, SetHeartbeat(c) PROVE OwnershipInv'
  <2>1. Goto(c, "heartbeat", "connect") /\ SetAttr(c, "heartbeat", "heartbeat" \in opts[c])
    BY <1>7 DEF SetHeartbeat
  <2>2. Agrees(c, "connect")
    BY <1>0, <2>1 DEF GuardInv, Goto, Agrees
  <2>. QED  BY <2>1, <2>2, SetAttrKeeps DEF Steps, Attributes
<1>8. ASSUME NEW c \in Conns, SetIsolation(c) PROVE OwnershipInv'
  <2>1. Goto(c, "isolation", "handover") /\ SetAttr(c, "isolation", "isolation" \in opts[c])
    BY <1>8 DEF SetIsolation
  <2>2. Agrees(c, "handover")
    BY <1>0, <2>1 DEF GuardInv, Goto, Agrees
  <2>. QED  BY <2>1, <2>2, SetAttrKeeps DEF Steps, Attributes
<1>9. ASSUME NEW c \in Conns, Handover(c) PROVE OwnershipInv'
  BY <1>0, <1>9, MoveKeeps
    DEF Handover, TypeOK, GuardInv, Steps, Goto, Agrees, nativeVars
<1>10. ASSUME NEW c \in Conns, Fail(c) PROVE OwnershipInv'
  BY <1>0, <1>10, MoveKeeps
    DEF Fail, TypeOK, GuardInv, Steps, Goto, Agrees, nativeVars
<1>11. ASSUME NEW c \in Conns, End(c) PROVE OwnershipInv'
  <2>1. opts' \in [Conns -> SUBSET Options]
    BY <1>0, <1>11 DEF End, TypeOK
  <2>. QED  BY <1>0, <1>11, <2>1, MoveKeeps
    DEF End, TypeOK, GuardInv, Steps, Goto, Agrees, nativeVars
<1>12. CASE UNCHANGED vars
  <2>. USE <1>12 DEF vars, guardVars, nativeVars
  <2>1. TypeOK' /\ GuardInv'
    BY <1>0 DEF TypeOK, GuardInv
  <2>2. HandlesOwned' /\ ChildrenFirst'
    BY DEF OwnershipInv, HandlesOwned, ChildrenFirst
  <2>. QED  BY <2>1, <2>2 DEF OwnershipInv
<1>13. ASSUME NEW c \in Conns, Up(c) PROVE OwnershipInv'
  BY <1>3, <1>4, <1>5, <1>6, <1>7, <1>8, <1>9, <1>10, <1>13,
     AllocEnvKeeps, AllocDbcKeeps, ConnectKeeps DEF Up
<1>14. ASSUME NEW c \in Conns, Down(c) PROVE OwnershipInv'
  BY <1>11, <1>14, DisconnectKeeps, FreeDbcKeeps, FreeEnvKeeps DEF Down
<1>15. CASE Next
  <2>1. PICK c \in Conns : Start(c) \/ Close(c) \/ Up(c) \/ Down(c)
    BY <1>15 DEF Next
  <2>. QED  BY <1>1, <1>2, <1>13, <1>14, <2>1
<1>. QED  BY <1>12, <1>15

(* Every variable keeps its type.                                          *)
THEOREM TypeCorrect == Spec => []TypeOK
<1>1. OwnershipInv => TypeOK
  BY DEF OwnershipInv
<1>. QED  BY <1>1, Initially, Inductive, PTL DEF Spec

(* Every handle and session has exactly one connection to free it.         *)
THEOREM NothingLeaks == Spec => []HandlesOwned
<1>1. OwnershipInv => HandlesOwned
  BY DEF OwnershipInv
<1>. QED  BY <1>1, Initially, Inductive, PTL DEF Spec

(* Sessions end before their handles, and those before their environment.  *)
THEOREM FreedInOrder == Spec => []ChildrenFirst
<1>1. OwnershipInv => ChildrenFirst
  BY DEF OwnershipInv
<1>. QED  BY <1>1, Initially, Inductive, PTL DEF Spec

-----------------------------------------------------------------------------
(* What is set on a connection handle.                                     *)

(* The steps that come after the one that sets an attribute.               *)
Past(attribute) ==
    LET after == [loginTimeout |-> {"packetSize", "autoCommit", "heartbeat", "connect"},
                  packetSize |-> {"autoCommit", "heartbeat", "connect"},
                  autoCommit |-> {"heartbeat", "connect"},
                  heartbeat |-> {"connect"},
                  isolation |-> {}]
    IN  after[attribute] \union {"handover", "open"}
          \union (IF attribute = "isolation" THEN {} ELSE {"isolation"})

Requested(c) == opts[c] \union {"autoCommit"}

Expected(c) == {a \in Attributes : step[c] \in Past(a) /\ a \in Requested(c)}

Configuring == Steps \ (NoneYet \union EnvOnly \union {"unwind"})

(* Strengthening of ConfiguredFirst: exactly what the steps so far have    *)
(* set, and nothing on a handle that is not in use.                        *)
ConfigInv ==
    /\ \A h \in Handles \ dbcs : attrs[h] = {}
    /\ \A c \in Conns :
         /\ step[c] \in Configuring => attrs[dbc[c]] = Expected(c)
         /\ step[c] \in Past("packetSize") => "badPacket" \notin opts[c]
         /\ connected[c] =>
              (opts[c] \intersect PreOptions) \union {"autoCommit"} \subseteq attrs[dbc[c]]

LEMMA OwnHandle ==
    ASSUME OwnershipInv, NEW c \in Conns, dbc[c] # NoHandle
    PROVE  dbc[c] \in dbcs /\ \A k \in Conns : k # c => dbc[k] # dbc[c]
BY DEF OwnershipInv, HandlesOwned

(* A connection that stays where it is, on a handle that is not touched.   *)
LEMMA OthersConfigured ==
    ASSUME ConfigInv, NEW k \in Conns,
           step'[k] = step[k], opts'[k] = opts[k], dbc'[k] = dbc[k],
           connected'[k] = connected[k],
           dbc[k] # NoHandle => attrs'[dbc[k]] = attrs[dbc[k]],
           OwnershipInv
    PROVE  /\ step'[k] \in Configuring => attrs'[dbc'[k]] = Expected(k)'
           /\ step'[k] \in Past("packetSize") => "badPacket" \notin opts'[k]
           /\ connected'[k] =>
                (opts'[k] \intersect PreOptions) \union {"autoCommit"} \subseteq attrs'[dbc'[k]]
<1>1. (step[k] \in Configuring \/ connected[k]) => dbc[k] # NoHandle
  BY DEF OwnershipInv, GuardInv, TypeOK, Configuring
<1>2. Expected(k)' = Expected(k)
  BY DEF Expected, Requested
<1>. QED
  BY <1>1, <1>2 DEF ConfigInv

(* A step that moves c on without setting anything.                        *)
LEMMA MoveConfigures ==
    ASSUME OwnershipInv, ConfigInv, NEW c \in Conns, NEW s \in Steps,
           step' = [step EXCEPT ![c] = s],
           \A k \in Conns : k # c => opts'[k] = opts[k],
           UNCHANGED <<guardVars, dbcs, attrs>>,
           s \in Configuring => attrs[dbc[c]] = Expected(c)',
           s \in Past("packetSize") => "badPacket" \notin opts'[c],
           connected[c] =>
             (opts'[c] \intersect PreOptions) \union {"autoCommit"} \subseteq attrs[dbc[c]]
    PROVE  ConfigInv'
<1>1. step'[c] = s /\ \A k \in Conns : k # c => step'[k] = step[k]
  BY DEF OwnershipInv, TypeOK
<1>2. ASSUME NEW k \in Conns, k # c
      PROVE  /\ step'[k] \in Configuring => attrs'[dbc'[k]] = Expected(k)'
             /\ step'[k] \in Past("packetSize") => "badPacket" \notin opts'[k]
             /\ connected'[k] =>
                  (opts'[k] \intersect PreOptions) \union {"autoCommit"} \subseteq attrs'[dbc'[k]]
  <2>1. step'[k] = step[k] /\ opts'[k] = opts[k]
    BY <1>1, <1>2
  <2>. QED
    BY <2>1, OthersConfigured DEF guardVars
<1>. QED
  BY <1>1, <1>2 DEF ConfigInv, guardVars

(* A step that sets an attribute.                                          *)
LEMMA SetAttrConfigures ==
    ASSUME OwnershipInv, ConfigInv, NEW c \in Conns, NEW from \in Configuring,
           NEW to \in Configuring, NEW attribute \in Attributes,
           Goto(c, from, to), SetAttr(c, attribute, attribute \in Requested(c)),
           \A a \in Attributes : to \in Past(a) <=> from \in Past(a) \/ a = attribute,
           to \in Past("packetSize") => "badPacket" \notin opts[c]
    PROVE  ConfigInv'
<1>0. /\ step[c] = from /\ step' = [step EXCEPT ![c] = to]
      /\ UNCHANGED <<opts, env, dbc, connected, dbcs>>
      /\ attrs' = IF attribute \in Requested(c)
                    THEN [attrs EXCEPT ![dbc[c]] = @ \union {attribute}] ELSE attrs
  BY DEF Goto, SetAttr, guardVars
<1>1. step'[c] = to /\ \A k \in Conns : k # c => step'[k] = step[k]
  BY <1>0 DEF OwnershipInv, TypeOK
<1>2. dbc[c] # NoHandle /\ dbc[c] \in Handles
  BY <1>0 DEF OwnershipInv, TypeOK, GuardInv, Configuring
<1>3. dbc[c] \in dbcs /\ \A k \in Conns : k # c => dbc[k] # dbc[c]
  BY <1>2, OwnHandle
<1>4. /\ attrs'[dbc[c]] = attrs[dbc[c]] \union ({attribute} \intersect Requested(c))
      /\ \A h \in Handles : h # dbc[c] => attrs'[h] = attrs[h]
  BY <1>0, <1>2 DEF OwnershipInv, TypeOK
<1>5. attrs[dbc[c]] = Expected(c)
  BY <1>0 DEF ConfigInv
<1>6. Expected(c)' = {a \in Attributes : to \in Past(a) /\ a \in Requested(c)}
  BY <1>0, <1>1 DEF Expected, Requested
<1>7. Expected(c)' = Expected(c) \union ({attribute} \intersect Requested(c))
  BY <1>0, <1>6 DEF Expected
<1>8. ASSUME NEW k \in Conns, k # c
      PROVE  /\ step'[k] \in Configuring => attrs'[dbc'[k]] = Expected(k)'
             /\ step'[k] \in Past("packetSize") => "badPacket" \notin opts'[k]
             /\ connected'[k] =>
                  (opts'[k] \intersect PreOptions) \union {"autoCommit"} \subseteq attrs'[dbc'[k]]
  <2>1. dbc[k] # NoHandle => attrs'[dbc[k]] = attrs[dbc[k]]
    BY <1>3, <1>4, <1>8 DEF OwnershipInv, TypeOK
  <2>2. step'[k] = step[k]
    BY <1>1, <1>8
  <2>. QED
    BY <1>0, <2>1, <2>2, OthersConfigured
<1>9. \A h \in Handles \ dbcs' : attrs'[h] = {}
  BY <1>0, <1>3, <1>4 DEF ConfigInv
<1>10. /\ step'[c] \in Configuring => attrs'[dbc'[c]] = Expected(c)'
       /\ step'[c] \in Past("packetSize") => "badPacket" \notin opts'[c]
       /\ connected'[c] =>
            (opts'[c] \intersect PreOptions) \union {"autoCommit"} \subseteq attrs'[dbc'[c]]
  BY <1>0, <1>1, <1>4, <1>5, <1>7 DEF ConfigInv
<1>. QED
  BY <1>8, <1>9, <1>10 DEF ConfigInv

LEMMA ConfigInductive == OwnershipInv /\ ConfigInv /\ [Next]_vars => ConfigInv'
<1> SUFFICES ASSUME OwnershipInv, ConfigInv, [Next]_vars PROVE ConfigInv'
  OBVIOUS
<1>0. TypeOK /\ GuardInv
  BY DEF OwnershipInv
<1> USE DEF NoneYet, EnvOnly, Configuring, Steps
<1>a. \A c \in Conns : step[c] \in NoneYet \union EnvOnly => ~connected[c] /\ dbc[c] = NoHandle
  BY <1>0 DEF GuardInv, Live
<1>1. ASSUME NEW c \in Conns, Start(c) PROVE ConfigInv'
  <2>1. PICK o \in OptionSets : opts' = [opts EXCEPT ![c] = o]
    BY <1>1 DEF Start
  <2>2. \A k \in Conns : k # c => opts'[k] = opts[k]
    BY <1>0, <2>1 DEF TypeOK
  <2>3. ~connected[c] /\ "env" \notin Configuring /\ "env" \notin Past("packetSize")
    BY <1>1, <1>a DEF Start, Goto, Past
  <2>. QED
    BY <1>1, <2>2, <2>3, MoveConfigures DEF Start, Goto, nativeVars
<1>2. ASSUME NEW c \in Conns, AllocEnv(c) PROVE ConfigInv'
  <2>1. /\ step[c] = "env" /\ step' = [step EXCEPT ![c] = "envAttrs"]
        /\ UNCHANGED <<opts, dbc, connected, dbcs, attrs>>
    BY <1>2 DEF AllocEnv, Goto
  <2>2. \A k \in Conns : step'[k] = IF k = c THEN "envAttrs" ELSE step[k]
    BY <1>0, <2>1 DEF TypeOK
  <2>3. ~connected[c] /\ "envAttrs" \notin Past("packetSize")
    BY <1>a, <2>1 DEF Past
  <2>4. \A k \in Conns : k # c => Expected(k)' = Expected(k)
    BY <2>1, <2>2 DEF Expected, Requested
  <2>. QED
    BY <2>1, <2>2, <2>3, <2>4 DEF ConfigInv
<1>3. ASSUME NEW c \in Conns, SetEnvAttrs(c) PROVE ConfigInv'
  <2>1. ~connected[c] /\ "dbc" \notin Configuring /\ "dbc" \notin Past("packetSize")
    BY <1>3, <1>a DEF SetEnvAttrs, Goto, Past
  <2>. QED
    BY <1>3, <2>1, MoveConfigures DEF SetEnvAttrs, Goto, nativeVars
<1>4. ASSUME NEW c \in Conns, AllocDbc(c) PROVE ConfigInv'
  <2>1. PICK h \in Unused : dbc' = [dbc EXCEPT ![c] = h] /\ dbcs' = dbcs \union {h}
    BY <1>4 DEF AllocDbc
  <2>2. /\ step[c] = "dbc" /\ step' = [step EXCEPT ![c] = "loginTimeout"]
        /\ UNCHANGED <<opts, connected, attrs>>
    BY <1>4 DEF AllocDbc, Goto
  <2>3. h \in Handles /\ attrs[h] = {}
    BY <2>1 DEF Unused, ConfigInv
  <2>4. \A k \in Conns : /\ step'[k] = (IF k = c THEN "loginTimeout" ELSE step[k])
                         /\ dbc'[k] = (IF k = c THEN h ELSE dbc[k])
    BY <1>0, <2>1, <2>2 DEF TypeOK
  <2>5. Expected(c)' = {} /\ "loginTimeout" \notin Past("packetSize")
    BY <2>4 DEF Expected, Past, Attributes
  <2>6. ~connected[c]
    BY <1>a, <2>2
  <2>8. \A g \in Handles \ dbcs' : attrs'[g] = {}
    BY <2>1, <2>2 DEF ConfigInv
  <2>9. \A k \in Conns :
          /\ step'[k] \in Configuring => attrs'[dbc'[k]] = Expected(k)'
          /\ step'[k] \in Past("packetSize") => "badPacket" \notin opts'[k]
          /\ connected'[k] =>
               (opts'[k] \intersect PreOptions) \union {"autoCommit"} \subseteq attrs'[dbc'[k]]
    <3>1. ASSUME NEW k \in Conns, k = c
          PROVE  /\ step'[k] \in Configuring => attrs'[dbc'[k]] = Expected(k)'
                 /\ step'[k] \notin Past("packetSize") /\ ~connected'[k]
      BY <2>2, <2>3, <2>4, <2>5, <2>6, <3>1
    <3>2. ASSUME NEW k \in Conns, k # c
          PROVE  /\ step'[k] \in Configuring => attrs'[dbc'[k]] = Expected(k)'
                 /\ step'[k] \in Past("packetSize") => "badPacket" \notin opts'[k]
                 /\ connected'[k] =>
                      (opts'[k] \intersect PreOptions) \union {"autoCommit"} \subseteq attrs'[dbc'[k]]
      BY <2>2, <2>4, <3>2, OthersConfigured
    <3>. QED
      BY <3>1, <3>2
  <2>. QED
    BY <2>8, <2>9 DEF ConfigInv
<1>b. ASSUME NEW c \in Conns PROVE "autoCommit" \in Requested(c)
             /\ \A a \in Attributes \ {"autoCommit"} : a \in opts[c] <=> a \in Requested(c)
  BY DEF Requested
<1>5. ASSUME NEW c \in Conns, SetLoginTimeout(c) PROVE ConfigInv'
  <2>1. "loginTimeout" \in Attributes \ {"autoCommit"}
    BY DEF Attributes
  <2>2. \A a \in Attributes : "packetSize" \in Past(a) <=> "loginTimeout" \in Past(a) \/ a = "loginTimeout"
    BY DEF Attributes, Past
  <2>3. ("loginTimeout" \in opts[c]) = ("loginTimeout" \in Requested(c))
    BY <1>b, <2>1
  <2>4. SetAttr(c, "loginTimeout", "loginTimeout" \in Requested(c)) /\ Goto(c, "loginTimeout", "packetSize")
    BY <1>5, <2>3 DEF SetLoginTimeout
  <2>5. "packetSize" \notin Past("packetSize")
    BY DEF Past
  <2>. QED
    BY <2>1, <2>2, <2>4, <2>5, SetAttrConfigures
<1>6. ASSUME NEW c \in Conns, SetPacketSize(c) PROVE ConfigInv'
  <2>1. "packetSize" \in Attributes \ {"autoCommit"}
    BY DEF Attributes
  <2>2. \A a \in Attributes : "autoCommit" \in Past(a) <=> "packetSize" \in Past(a) \/ a = "packetSize"
    BY DEF Attributes, Past
  <2>3. ("packetSize" \in opts[c]) = ("packetSize" \in Requested(c))
    BY <1>b, <2>1
  <2>4. /\ SetAttr(c, "packetSize", "packetSize" \in Requested(c)) /\ Goto(c, "packetSize", "autoCommit")
        /\ "badPacket" \notin opts[c]
    BY <1>6, <2>3 DEF SetPacketSize
  <2>. QED
    BY <2>1, <2>2, <2>4, SetAttrConfigures
<1>7. ASSUME NEW c \in Conns, SetAutoCommit(c) PROVE ConfigInv'
  <2>1. "autoCommit" \in Attributes
    BY DEF Attributes
  <2>2. \A a \in Attributes : "heartbeat" \in Past(a) <=> "autoCommit" \in Past(a) \/ a = "autoCommit"
    BY DEF Attributes, Past
  <2>3. ("autoCommit" \in Requested(c)) = TRUE
    BY <1>b
  <2>4. SetAttr(c, "autoCommit", "autoCommit" \in Requested(c)) /\ Goto(c, "autoCommit", "heartbeat")
    BY <1>7, <2>3 DEF SetAutoCommit
  <2>5. "badPacket" \notin opts[c]
    BY <2>4 DEF Goto, Past, ConfigInv
  <2>. QED
    BY <2>1, <2>2, <2>4, <2>5, SetAttrConfigures
<1>8. ASSUME NEW c \in Conns, SetHeartbeat(c) PROVE ConfigInv'
  <2>1. "heartbeat" \in Attributes \ {"autoCommit"}
    BY DEF Attributes
  <2>2. \A a \in Attributes : "connect" \in Past(a) <=> "heartbeat" \in Past(a) \/ a = "heartbeat"
    BY DEF Attributes, Past
  <2>3. ("heartbeat" \in opts[c]) = ("heartbeat" \in Requested(c))
    BY <1>b, <2>1
  <2>4. SetAttr(c, "heartbeat", "heartbeat" \in Requested(c)) /\ Goto(c, "heartbeat", "connect")
    BY <1>8, <2>3 DEF SetHeartbeat
  <2>5. "badPacket" \notin opts[c]
    BY <2>4 DEF Goto, Past, ConfigInv
  <2>. QED
    BY <2>1, <2>2, <2>4, <2>5, SetAttrConfigures
<1>9. ASSUME NEW c \in Conns, Connect(c) PROVE ConfigInv'
  <2>1. /\ step[c] = "connect" /\ step' = [step EXCEPT ![c] = "isolation"]
        /\ connected' = [connected EXCEPT ![c] = TRUE]
        /\ UNCHANGED <<opts, dbc, dbcs, attrs>>
    BY <1>9 DEF Connect, Goto
  <2>2. \A k \in Conns : /\ step'[k] = (IF k = c THEN "isolation" ELSE step[k])
                         /\ connected'[k] = (IF k = c THEN TRUE ELSE connected[k])
    BY <1>0, <2>1 DEF TypeOK
  <2>3. Expected(c)' = Expected(c) /\ "badPacket" \notin opts[c] /\ attrs[dbc[c]] = Expected(c)
    <3>1. \A a \in Attributes : "isolation" \in Past(a) <=> "connect" \in Past(a)
      BY DEF Attributes, Past
    <3>2. "connect" \in Past("packetSize")
      BY DEF Past
    <3>. QED
      BY <2>1, <2>2, <3>1, <3>2 DEF Expected, Requested, ConfigInv
  <2>4. (opts[c] \intersect PreOptions) \union {"autoCommit"} \subseteq Expected(c)
    BY <2>1, <2>3 DEF Expected, Requested, PreOptions, Past, Attributes
  <2>5. \A k \in Conns : k # c => Expected(k)' = Expected(k)
    BY <2>1, <2>2 DEF Expected, Requested
  <2>. QED
    BY <2>1, <2>2, <2>3, <2>4, <2>5 DEF ConfigInv
<1>10. ASSUME NEW c \in Conns, SetIsolation(c) PROVE ConfigInv'
  <2>1. "isolation" \in Attributes \ {"autoCommit"}
    BY DEF Attributes
  <2>2. \A a \in Attributes : "handover" \in Past(a) <=> "isolation" \in Past(a) \/ a = "isolation"
    BY DEF Attributes, Past
  <2>3. ("isolation" \in opts[c]) = ("isolation" \in Requested(c))
    BY <1>b, <2>1
  <2>4. SetAttr(c, "isolation", "isolation" \in Requested(c)) /\ Goto(c, "isolation", "handover")
    BY <1>10, <2>3 DEF SetIsolation
  <2>5. "badPacket" \notin opts[c]
    BY <2>4 DEF Goto, Past, ConfigInv
  <2>. QED
    BY <2>1, <2>2, <2>4, <2>5, SetAttrConfigures
<1>11. ASSUME NEW c \in Conns, Handover(c) PROVE ConfigInv'
  <2>1. step[c] = "handover" /\ step' = [step EXCEPT ![c] = "open"]
        /\ UNCHANGED <<opts, guardVars, dbcs, attrs>>
    BY <1>11 DEF Handover, Goto, nativeVars
  <2>2. step'[c] = "open"
    BY <1>0, <2>1 DEF TypeOK
  <2>3. \A a \in Attributes : "open" \in Past(a) <=> "handover" \in Past(a)
    BY DEF Past
  <2>4. Expected(c)' = Expected(c)
    BY <2>1, <2>2, <2>3 DEF Expected, Requested
  <2>5. "badPacket" \notin opts[c]
    BY <2>1 DEF Past, ConfigInv
  <2>6. attrs[dbc[c]] = Expected(c) /\ (connected[c] =>
          (opts[c] \intersect PreOptions) \union {"autoCommit"} \subseteq attrs[dbc[c]])
    BY <2>1 DEF ConfigInv
  <2>. QED
    BY <2>1, <2>4, <2>5, <2>6, MoveConfigures
<1>c. ASSUME NEW c \in Conns, step' = [step EXCEPT ![c] = "unwind"],
             UNCHANGED <<opts, guardVars, dbcs, attrs>>
      PROVE  ConfigInv'
  <2>1. "unwind" \notin Configuring /\ "unwind" \notin Past("packetSize")
    BY DEF Past
  <2>2. connected[c] =>
          (opts[c] \intersect PreOptions) \union {"autoCommit"} \subseteq attrs[dbc[c]]
    BY DEF ConfigInv
  <2>. QED
    BY <1>c, <2>1, <2>2, MoveConfigures
<1>12. ASSUME NEW c \in Conns, Fail(c) \/ Close(c) PROVE ConfigInv'
  BY <1>12, <1>c DEF Fail, Close, Goto, nativeVars
<1>13. ASSUME NEW c \in Conns, Disconnect(c) PROVE ConfigInv'
  <2>1. /\ connected' = [connected EXCEPT ![c] = FALSE]
        /\ UNCHANGED <<step, opts, dbc, dbcs, attrs>>
    BY <1>13 DEF Disconnect
  <2>2. \A k \in Conns : connected'[k] => connected[k]
    BY <1>0, <2>1 DEF TypeOK
  <2>3. \A k \in Conns : Expected(k)' = Expected(k)
    BY <2>1 DEF Expected, Requested
  <2>. QED
    BY <2>1, <2>2, <2>3 DEF ConfigInv
<1>14. ASSUME NEW c \in Conns, FreeDbc(c) PROVE ConfigInv'
  <2>1. /\ step[c] = "unwind" /\ dbc[c] # NoHandle /\ ~connected[c]
        /\ dbcs' = dbcs \ {dbc[c]}
        /\ dbc' = [dbc EXCEPT ![c] = NoHandle]
        /\ attrs' = [attrs EXCEPT ![dbc[c]] = {}]
        /\ UNCHANGED <<step, opts, connected>>
    BY <1>14 DEF FreeDbc
  <2>2. \A k \in Conns : k # c => dbc[k] # dbc[c] /\ dbc'[k] = dbc[k]
    BY <1>0, <2>1, OwnHandle DEF TypeOK
  <2>3. \A h \in Handles : attrs'[h] = IF h = dbc[c] THEN {} ELSE attrs[h]
    BY <1>0, <2>1 DEF TypeOK
  <2>4. ASSUME NEW k \in Conns, k # c
        PROVE  /\ step'[k] \in Configuring => attrs'[dbc'[k]] = Expected(k)'
               /\ step'[k] \in Past("packetSize") => "badPacket" \notin opts'[k]
               /\ connected'[k] =>
                    (opts'[k] \intersect PreOptions) \union {"autoCommit"} \subseteq attrs'[dbc'[k]]
    <3>1. dbc[k] # NoHandle => attrs'[dbc[k]] = attrs[dbc[k]]
      BY <1>0, <2>2, <2>3, <2>4 DEF TypeOK
    <3>. QED
      BY <2>1, <2>2, <2>4, <3>1, OthersConfigured
  <2>5. "unwind" \notin Configuring /\ "unwind" \notin Past("packetSize")
    BY DEF Past
  <2>6. \A h \in Handles \ dbcs' : attrs'[h] = {}
    BY <2>1, <2>3 DEF ConfigInv
  <2>. QED
    BY <2>1, <2>4, <2>5, <2>6 DEF ConfigInv
<1>15. ASSUME NEW c \in Conns, FreeEnv(c) PROVE ConfigInv'
  <2>1. UNCHANGED <<step, opts, dbc, connected, dbcs, attrs>>
    BY <1>15 DEF FreeEnv
  <2>. QED
    BY <2>1 DEF ConfigInv, Expected, Requested
<1>16. ASSUME NEW c \in Conns, End(c) PROVE ConfigInv'
  <2>1. /\ step' = [step EXCEPT ![c] = "ended"] /\ opts' = [opts EXCEPT ![c] = {}]
        /\ UNCHANGED <<guardVars, dbcs, attrs>> /\ dbc[c] = NoHandle
    BY <1>16 DEF End, Goto, nativeVars
  <2>2. ~connected[c] /\ "ended" \notin Configuring /\ "ended" \notin Past("packetSize")
    BY <1>0, <2>1 DEF TypeOK, Past
  <2>3. \A k \in Conns : k # c => opts'[k] = opts[k]
    BY <1>0, <2>1 DEF TypeOK
  <2>. QED
    BY <2>1, <2>2, <2>3, MoveConfigures
<1>17. CASE UNCHANGED vars
  BY <1>17 DEF vars, guardVars, nativeVars, ConfigInv, Expected, Requested
<1>18. CASE Next
  <2>1. PICK c \in Conns : Start(c) \/ Close(c) \/ Up(c) \/ Down(c)
    BY <1>18 DEF Next
  <2>. QED
    BY <1>1, <1>2, <1>3, <1>4, <1>5, <1>6, <1>7, <1>8, <1>9, <1>10, <1>11, <1>12, <1>13,
       <1>14, <1>15, <1>16, <2>1 DEF Up, Down
<1>. QED
  BY <1>17, <1>18

(* No session is opened on a half-configured handle, and an open           *)
(* connection has all that its builder asked for.                          *)
THEOREM Configured == Spec => []ConfiguredFirst
<1>1. Init => ConfigInv
  BY DEF Init, ConfigInv, Configuring, NoneYet, Past
<1>2. OwnershipInv /\ ConfigInv => ConfiguredFirst
  <2> SUFFICES ASSUME OwnershipInv, ConfigInv, NEW c \in Conns, step[c] = "open"
               PROVE  connected[c] /\ attrs[dbc[c]] = opts[c] \union {"autoCommit"}
    BY DEF ConfiguredFirst, ConfigInv
  <2>1. connected[c]
    BY DEF OwnershipInv, GuardInv, Live
  <2>2. attrs[dbc[c]] = Expected(c) /\ "badPacket" \notin opts[c]
    BY DEF ConfigInv, Configuring, Steps, NoneYet, EnvOnly, Past
  <2>3. opts[c] \subseteq Attributes
    BY <2>2 DEF OwnershipInv, TypeOK, Options, PreOptions, Attributes
  <2>4. \A a \in Attributes : "open" \in Past(a)
    BY DEF Past
  <2>5. Expected(c) = opts[c] \union {"autoCommit"}
    BY <2>3, <2>4 DEF Expected, Requested, Attributes
  <2>. QED
    BY <2>1, <2>2, <2>5
<1>. QED
  BY <1>1, <1>2, Initially, Inductive, ConfigInductive, PTL DEF Spec
-----------------------------------------------------------------------------
(* Connections do not disturb each other.                                  *)

LEMMA OpenStays ==
    ASSUME OwnershipInv, [Next]_vars, NEW k \in Conns,
           step[k] = "open", step'[k] = "open"
    PROVE  UNCHANGED <<opts[k], env[k], dbc[k], connected[k]>>
<1>0. TypeOK
  BY DEF OwnershipInv
<1>1. CASE UNCHANGED vars
  BY <1>1 DEF vars, guardVars
<1>2. ASSUME NEW c \in Conns, Start(c) \/ Close(c) \/ Up(c) \/ Down(c)
      PROVE  UNCHANGED <<opts[k], env[k], dbc[k], connected[k]>>
  <2>1. CASE Start(c) \/ Close(c) \/ End(c)
    <3>1. c # k
      BY <1>0, <2>1 DEF Start, Close, End, Goto, TypeOK
    <3>. QED  BY <1>0, <2>1, <3>1 DEF Start, Close, End, guardVars, TypeOK
  <2>2. CASE AllocEnv(c) \/ AllocDbc(c) \/ Connect(c)
    <3>1. c # k
      BY <2>2 DEF AllocEnv, AllocDbc, Connect, Goto
    <3>. QED  BY <1>0, <2>2, <3>1 DEF AllocEnv, AllocDbc, Connect, TypeOK
  <2>3. CASE Disconnect(c) \/ FreeDbc(c) \/ FreeEnv(c)
    <3>1. c # k
      BY <2>3 DEF Disconnect, FreeDbc, FreeEnv
    <3>. QED  BY <1>0, <2>3, <3>1 DEF Disconnect, FreeDbc, FreeEnv, TypeOK
  <2>4. CASE \/ SetEnvAttrs(c) \/ SetLoginTimeout(c) \/ SetPacketSize(c) \/ SetAutoCommit(c)
             \/ SetHeartbeat(c) \/ SetIsolation(c) \/ Handover(c) \/ Fail(c)
    BY <2>4 DEF SetEnvAttrs, SetLoginTimeout, SetPacketSize, SetAutoCommit, SetHeartbeat,
                SetIsolation, Handover, Fail, SetAttr, guardVars
  <2>. QED  BY <1>2, <2>1, <2>2, <2>3, <2>4 DEF Up, Down
<1>. QED  BY <1>1, <1>2 DEF Next

(* As long as a connection stays open, whatever other connections set,     *)
(* build up, fail at or take down (conn.rs, ConnectGuard and both Drops),  *)
(* it has the same handles, they are allocated, its session lives, and its *)
(* attributes are what they were.                                          *)
KeepsOpen ==
    \A k \in Conns :
        step[k] = "open" /\ step'[k] = "open" =>
            /\ UNCHANGED <<env[k], dbc[k], attrs[dbc[k]]>>
            /\ env'[k] \in envs' /\ dbc'[k] \in dbcs' /\ dbc'[k] \in sessions'

OpenUndisturbed == [][KeepsOpen]_vars

(* conn.rs: an open connection keeps its handles, its session and its      *)
(* attributes, whatever other connections do and whichever of their steps  *)
(* fail.                                                                   *)
THEOREM OpenIsUndisturbed == Spec => OpenUndisturbed
<1>1. Init => ConfigInv
  BY DEF Init, ConfigInv, Configuring, NoneYet, Past
<1>2. ASSUME OwnershipInv, OwnershipInv', ConfigInv, ConfigInv', [Next]_vars
      PROVE  [KeepsOpen]_vars
  <2>. SUFFICES ASSUME NEW k \in Conns, step[k] = "open", step'[k] = "open"
                PROVE  /\ UNCHANGED <<env[k], dbc[k], attrs[dbc[k]]>>
                       /\ env'[k] \in envs' /\ dbc'[k] \in dbcs' /\ dbc'[k] \in sessions'
    BY DEF KeepsOpen
  <2>1. UNCHANGED <<opts[k], env[k], dbc[k], connected[k]>>
    BY <1>2, OpenStays
  <2>2. attrs[dbc[k]] = Expected(k) /\ attrs'[dbc'[k]] = Expected(k)'
    BY <1>2 DEF ConfigInv, Configuring, Steps, NoneYet, EnvOnly
  <2>3. Expected(k)' = Expected(k)
    BY <2>1 DEF Expected, Requested
  <2>4. connected'[k] /\ dbc'[k] # NoHandle /\ env'[k] # NoHandle
    BY <1>2 DEF OwnershipInv, GuardInv, Live, NoneYet, EnvOnly
  <2>5. env'[k] \in envs' /\ dbc'[k] \in dbcs' /\ dbc'[k] \in sessions'
    BY <1>2, <2>4 DEF OwnershipInv, HandlesOwned
  <2>. QED  BY <2>1, <2>2, <2>3, <2>5
<1>. QED
  BY <1>1, <1>2, Initially, Inductive, ConfigInductive, PTL DEF Spec, OpenUndisturbed

-----------------------------------------------------------------------------
(* Setup and teardown.  AttemptsEnd needs fairness; this is what it rests  *)
(* on.                                                                     *)

(* What a guard still has to take back.                                    *)
Holding(c) ==
    (IF connected[c] THEN 1 ELSE 0) + (IF dbc[c] # NoHandle THEN 1 ELSE 0)
        + (IF env[c] # NoHandle THEN 1 ELSE 0)

(* The most steps that connect() or drop() of a connection can still take, *)
(* a failure and its unwinding included.                                   *)
Remaining(c) ==
    IF step[c] \in {"ended", "open"} THEN 0
    ELSE IF step[c] = "unwind" THEN Holding(c) + 1
    ELSE IF step[c] = "handover" THEN 5
    ELSE IF step[c] = "isolation" THEN 6
    ELSE IF step[c] = "connect" THEN 7
    ELSE IF step[c] = "heartbeat" THEN 8
    ELSE IF step[c] = "autoCommit" THEN 9
    ELSE IF step[c] = "packetSize" THEN 10
    ELSE IF step[c] = "loginTimeout" THEN 11
    ELSE IF step[c] = "dbc" THEN 12
    ELSE IF step[c] = "envAttrs" THEN 13
    ELSE 14

Shortens(c) == Remaining(c) \in Nat /\ Remaining(c)' \in Nat /\ Remaining(c)' < Remaining(c)

Apart(c) == UNCHANGED <<step[c], env[c], dbc[c], connected[c]>>

LEMMA StepShortens ==
    ASSUME OwnershipInv, NEW c \in Conns, Up(c) \/ Down(c)
    PROVE  Shortens(c) /\ \A k \in Conns : k # c => Apart(k)
<1>0. TypeOK
  BY DEF OwnershipInv
<1>1. \A k \in Conns : k # c => Apart(k)
  <2>1. CASE Up(c)
    BY <1>0, <2>1 DEF TypeOK, Apart, Up, AllocEnv, SetEnvAttrs, AllocDbc, SetLoginTimeout,
       SetPacketSize, SetAutoCommit, SetHeartbeat, Connect, SetIsolation, Handover, Fail,
       SetAttr, Goto, guardVars
  <2>2. CASE Down(c)
    BY <1>0, <2>2 DEF TypeOK, Apart, Down, Disconnect, FreeDbc, FreeEnv, End, Goto, guardVars
  <2>. QED  BY <2>1, <2>2
<1>2. Holding(c) \in 0..3
  BY DEF Holding
<1>3. CASE Fail(c)
  <2>1. step[c] \notin {"ended", "open", "unwind"} /\ step'[c] = "unwind"
        /\ Holding(c)' = Holding(c)
    BY <1>0, <1>3 DEF TypeOK, Fail, MayFail, Holding, guardVars
  <2>. HIDE DEF Holding
  <2>. QED  BY <1>1, <1>2, <2>1 DEF Shortens, Remaining
<1>4. CASE Down(c)
  <2>1. CASE End(c)
    BY <1>0, <1>1, <1>2, <2>1 DEF TypeOK, End, Goto, Shortens, Remaining
  <2>2. CASE Disconnect(c) \/ FreeDbc(c) \/ FreeEnv(c)
    <3>1. step[c] = "unwind" /\ step' = step /\ Holding(c)' = Holding(c) - 1
      BY <1>0, <2>2 DEF TypeOK, Disconnect, FreeDbc, FreeEnv, Holding
    <3>2. Holding(c)' \in 0..3
      BY DEF Holding
    <3>. QED  BY <1>1, <1>2, <3>1, <3>2 DEF Shortens, Remaining
  <2>. QED  BY <1>4, <2>1, <2>2 DEF Down
<1>5. CASE Up(c) /\ ~Fail(c)
  <2>1. \/ step[c] = "env" /\ step'[c] = "envAttrs"
        \/ step[c] = "envAttrs" /\ step'[c] = "dbc"
        \/ step[c] = "dbc" /\ step'[c] = "loginTimeout"
        \/ step[c] = "loginTimeout" /\ step'[c] = "packetSize"
        \/ step[c] = "packetSize" /\ step'[c] = "autoCommit"
        \/ step[c] = "autoCommit" /\ step'[c] = "heartbeat"
        \/ step[c] = "heartbeat" /\ step'[c] = "connect"
        \/ step[c] = "connect" /\ step'[c] = "isolation"
        \/ step[c] = "isolation" /\ step'[c] = "handover"
        \/ step[c] = "handover" /\ step'[c] = "open"
    BY <1>0, <1>5 DEF TypeOK, Up, AllocEnv, SetEnvAttrs, AllocDbc, SetLoginTimeout,
       SetPacketSize, SetAutoCommit, SetHeartbeat, Connect, SetIsolation, Handover, Goto
  <2>. QED  BY <1>1, <2>1 DEF Shortens, Remaining
<1>. QED  BY <1>3, <1>4, <1>5

(* Every step of a connect() or drop() under way, a failure included,      *)
(* brings that call nearer to its end, and a step of another connection    *)
(* leaves it where it is: an attempt has at most fourteen steps, of which  *)
(* ConnectGuard's unwinding is at most four.                               *)
AttemptShortens ==
    \A c \in Conns : step[c] \notin {"ended", "open"} => Shortens(c) \/ Apart(c)

(* ConnectionBuilder::connect, ConnectGuard and Connection::drop: every    *)
(* attempt and every teardown ends after a bounded number of its own       *)
(* steps.                                                                  *)
THEOREM AttemptsShorten == Spec => [][AttemptShortens]_vars
<1>1. ASSUME OwnershipInv, Next PROVE AttemptShortens
  <2>. SUFFICES ASSUME NEW c \in Conns, step[c] \notin {"ended", "open"}
                PROVE  Shortens(c) \/ Apart(c)
    BY DEF AttemptShortens
  <2>1. PICK k \in Conns : Start(k) \/ Close(k) \/ Up(k) \/ Down(k)
    BY <1>1 DEF Next
  <2>2. CASE Up(k) \/ Down(k)
    BY <1>1, <2>2, StepShortens
  <2>3. CASE Start(k) \/ Close(k)
    <3>1. k # c
      BY <2>3 DEF Start, Close, Goto
    <3>. QED  BY <1>1, <2>3, <3>1 DEF Start, Close, Goto, Apart, OwnershipInv, TypeOK, guardVars
  <2>. QED  BY <2>1, <2>2, <2>3
<1>. QED  BY <1>1, Initially, Inductive, PTL DEF Spec
=============================================================================
