----------------------------- MODULE LobHandle -----------------------------
(***************************************************************************)
(* The life of LOBs outside a result set (lob.rs, param/): a client-side   *)
(* descriptor that must be freed once, and perhaps a temporary LOB on the  *)
(* server that must be released through it.  Blob and Clob values belong   *)
(* to the application, to a JSON input parameter for as long as a call may *)
(* need them, or to an output parameter until its completion hands them    *)
(* over.                                                                   *)
(*                                                                         *)
(* The parameters of a call are bound and completed in the order of its    *)
(* argument list; any order of any list is an order of `todo`.             *)
(*                                                                         *)
(* External: yacExecute writes to the locators of its outputs, also when   *)
(* it then fails, each NULL, a stored LOB or a temporary one, and does not *)
(* release what a locator referred to before; yacLobFreeTemporary may fail.*)
(***************************************************************************)
EXTENDS Integers, FiniteSets

CONSTANTS
    Vars,     \* the application's Blob and Clob variables, or Option of these
    Params,   \* BindParams
    Kinds,    \* the kinds of parameters an application makes
    Desc,     \* LOB descriptors of the client
    Temps,    \* temporary LOBs of the server
    NoDesc, NoTemp, NoVar,
    MaxCalls  \* bound: calls with parameters

JsonOutputs == {"jsonOut", "jsonNullable"}
LobOutputs == {"lobOut", "lobNullable"}
AllKinds == {"jsonIn", "jsonNullIn", "lobIn"} \union JsonOutputs \union LobOutputs
Holders == Vars \union Params

ASSUME HandleAssumption ==
    /\ Vars \intersect Params = {}
    /\ Kinds \subseteq AllKinds
    /\ NoDesc \notin Desc
    /\ NoTemp \notin Temps
    /\ NoVar \notin Vars
    /\ MaxCalls \in Nat

VARIABLES
    handle,   \* the descriptor in a variable or BindParam (Lob.locator)
    kind,     \* the kind of a BindParam, "gone" before and after its life
    target,   \* the variable it borrows
    alloc,    \* descriptors allocated in the client
    temp,     \* descriptor -> the temporary LOB it refers to
    live,     \* temporary LOBs on the server
    phase,    \* what the call in progress does
    args,     \* the parameters of the call in progress
    todo,     \* those it has still to bind or to complete
    null,     \* its outputs that the server made NULL
    calls,    \* history: calls that reached the server
    origin,   \* history: descriptor -> the call that wrote its locator
    got,      \* history: JSON output -> the call its target's bytes are from
    written,  \* history: temporary LOB -> JSON values appended to it
    failed,   \* history: parameters that were in a failed call
    stranded, \* history: temporaries every release of which failed
    replaced  \* history: temporaries whose locator yacExecute overwrote

paramVars == <<kind, target>>
callVars == <<phase, args, todo, null, calls, failed>>
lobVars == <<handle, alloc, temp, live, stranded, origin>>
vars == <<lobVars, paramVars, callVars, got, written, replaced>>

Phases == {"idle", "bind", "execute", "complete"}

TypeOK ==
    /\ handle \in [Holders -> Desc \union {NoDesc}]
    /\ kind \in [Params -> Kinds \union {"gone"}]
    /\ target \in [Params -> Vars \union {NoVar}]
    /\ alloc \subseteq Desc
    /\ temp \in [Desc -> Temps \union {NoTemp}]
    /\ live \subseteq Temps
    /\ phase \in Phases
    /\ todo \subseteq args /\ args \subseteq Params
    /\ null \subseteq Params
    /\ calls \in 0..MaxCalls
    /\ origin \in [Desc -> 0..MaxCalls]
    /\ got \in [Params -> 0..MaxCalls]
    /\ written \in [Temps -> Nat]
    /\ failed \subseteq Params
    /\ stranded \subseteq Temps
    /\ replaced \subseteq Temps

Init ==
    /\ handle = [x \in Holders |-> NoDesc]
    /\ kind = [p \in Params |-> "gone"]
    /\ target = [p \in Params |-> NoVar]
    /\ alloc = {} /\ live = {} /\ args = {} /\ todo = {} /\ null = {}
    /\ temp = [d \in Desc |-> NoTemp]
    /\ phase = "idle" /\ calls = 0
    /\ origin = [d \in Desc |-> 0]
    /\ got = [p \in Params |-> 0]
    /\ written = [t \in Temps |-> 0]
    /\ failed = {} /\ stranded = {} /\ replaced = {}

-----------------------------------------------------------------------------
(* Handles.                                                                *)

TempOf(d) == IF d = NoDesc THEN NoTemp ELSE temp[d]

(* The temporary LOB in a holder, NoTemp if there is none.                 *)
Held(x) == TempOf(handle[x])

(* yacLobCreateTemporary2 makes one that was not there before.             *)
Fresh == Temps \ live

(* Mutant: Drop leaves when the release of the temporary fails.            *)
SwapUnlessFailed(x, n, t, freed, stray) ==
    /\ handle' = [handle EXCEPT ![x] = n]
    /\ alloc' = (IF freed THEN alloc \ {handle[x]} ELSE alloc) \union ({n} \ {NoDesc})
    /\ temp' = [d \in Desc |-> IF d = n THEN t
                               ELSE IF d = handle[x] THEN NoTemp ELSE temp[d]]
    /\ live' = (IF freed THEN live \ {Held(x)} ELSE live) \union (({t} \union stray) \ {NoTemp})
    /\ stranded' = stranded \union (((IF freed THEN {} ELSE {Held(x)}) \union stray) \ {NoTemp})
    /\ origin' = [d \in Desc |-> IF d = n THEN 0 ELSE origin[d]]

(* Mutant: Drop frees the descriptor only.                                 *)
SwapDescriptorOnly(x, n, t, freed, stray) ==
    /\ handle' = [handle EXCEPT ![x] = n]
    /\ alloc' = (alloc \ {handle[x]}) \union ({n} \ {NoDesc})
    /\ temp' = [d \in Desc |-> IF d = n THEN t
                               ELSE IF d = handle[x] THEN NoTemp ELSE temp[d]]
    /\ live' = live \union (({t} \union stray) \ {NoTemp})
    /\ stranded' = stranded \union (stray \ {NoTemp})
    /\ origin' = [d \in Desc |-> IF d = n THEN 0 ELSE origin[d]]

(* A holder drops what it has and holds the new descriptor n instead.      *)
(* Drop for Blob or Clob and then Drop for Lob each try to release a       *)
(* temporary, as long as is_temporary says that there is one; afterwards   *)
(* the descriptor is freed in any case.  `stray` are temporaries that a    *)
(* failed step of the same call made and could not release.                *)
Swap(x, n, t, freed, stray) ==
    /\ handle' = [handle EXCEPT ![x] = n]
    /\ alloc' = (alloc \ {handle[x]}) \union ({n} \ {NoDesc})
    /\ temp' = [d \in Desc |-> IF d = n THEN t
                               ELSE IF d = handle[x] THEN NoTemp ELSE temp[d]]
    /\ live' = (IF freed THEN live \ {Held(x)} ELSE live) \union (({t} \union stray) \ {NoTemp})
    /\ stranded' = stranded \union (((IF freed THEN {} ELSE {Held(x)}) \union stray) \ {NoTemp})
    /\ origin' = [d \in Desc |-> IF d = n THEN 0 ELSE origin[d]]

Discard(x) == \E freed \in BOOLEAN : Swap(x, NoDesc, NoTemp, freed, {})

(* The descriptor in x replaces the one in y, which is dropped.            *)
Move(x, y, freed) ==
    /\ handle' = [handle EXCEPT ![y] = handle[x], ![x] = NoDesc]
    /\ alloc' = alloc \ {handle[y]}
    /\ temp' = [d \in Desc |-> IF d = handle[y] THEN NoTemp ELSE temp[d]]
    /\ live' = IF freed THEN live \ {Held(y)} ELSE live
    /\ stranded' = stranded \union (IF freed THEN {} ELSE {Held(y)} \ {NoTemp})
    /\ UNCHANGED origin

Borrowed(v) == \E p \in Params : kind[p] # "gone" /\ target[p] = v

MutablyBorrowed(v) == \E p \in Params : kind[p] \in LobOutputs /\ target[p] = v

(* Connection::temporary_blob and temporary_clob.  When they fail, the     *)
(* descriptor they had is dropped.                                         *)
NewTemporary(v) ==
    /\ phase = "idle" /\ ~Borrowed(v) /\ handle[v] = NoDesc
    /\ \E n \in Desc \ alloc, t \in Fresh :
         /\ Swap(v, n, t, TRUE, {})
         /\ written' = [written EXCEPT ![t] = 0]
    /\ UNCHANGED <<paramVars, callVars, got, replaced>>

(* Connection::output_blob and output_clob: a descriptor, nothing else.    *)
NewOutput(v) ==
    /\ phase = "idle" /\ ~Borrowed(v) /\ handle[v] = NoDesc
    /\ \E n \in Desc \ alloc : Swap(v, n, NoTemp, TRUE, {})
    /\ UNCHANGED <<paramVars, callVars, got, written, replaced>>

(* The variable is dropped, or finish() reports the first attempt to       *)
(* release its temporary and the drop makes the two others.                *)
DropVar(v) ==
    /\ phase = "idle" /\ ~Borrowed(v) /\ handle[v] # NoDesc
    /\ Discard(v)
    /\ UNCHANGED <<paramVars, callVars, got, written, replaced>>

-----------------------------------------------------------------------------
(* Parameters.                                                             *)

(* input() borrows a LOB, output() a LOB or an Option exclusively; JSON    *)
(* parameters borrow no LOB.                                               *)
MayBorrow(k, v) ==
    CASE k = "lobIn" -> v \in Vars /\ handle[v] # NoDesc /\ ~MutablyBorrowed(v)
      [] k = "lobOut" -> v \in Vars /\ handle[v] # NoDesc /\ ~Borrowed(v)
      [] k = "lobNullable" -> v \in Vars /\ ~Borrowed(v)
      [] OTHER -> v = NoVar

NewParam(p, k, v) ==
    /\ phase = "idle" /\ kind[p] = "gone" /\ MayBorrow(k, v)
    /\ kind' = [kind EXCEPT ![p] = k]
    /\ target' = [target EXCEPT ![p] = v]
    /\ got' = [got EXCEPT ![p] = 0]
    /\ failed' = failed \ {p}
    /\ UNCHANGED <<lobVars, phase, args, todo, null, calls, written, replaced>>

(* A BindParam ends; what it borrowed is the application's again.          *)
DropParam(p) ==
    /\ phase = "idle" /\ kind[p] # "gone"
    /\ Discard(p)
    /\ kind' = [kind EXCEPT ![p] = "gone"]
    /\ target' = [target EXCEPT ![p] = NoVar]
    /\ UNCHANGED <<callVars, got, written, replaced>>

-----------------------------------------------------------------------------
(* One call of execute_with, execute_named_with and the like.              *)

StartCall(list) ==
    /\ phase = "idle" /\ calls < MaxCalls
    /\ \A p \in list : kind[p] # "gone"
    /\ phase' = "bind"
    /\ args' = list /\ todo' = list
    /\ UNCHANGED <<lobVars, paramVars, null, calls, failed, got, written, replaced>>

(* Mutant: the LOB of an earlier call is kept and appended to.             *)
BindJsonKept(p) ==
    /\ kind[p] = "jsonIn"
    /\ IF Held(p) # NoTemp
         THEN /\ written' = [written EXCEPT ![Held(p)] = @ + 1]
              /\ UNCHANGED lobVars
         ELSE \E n \in Desc \ alloc, t \in Fresh :
                /\ Swap(p, n, t, TRUE, {})
                /\ written' = [written EXCEPT ![t] = 1]

(* Input::native_value for JSON: the LOB of an earlier call is dropped, a  *)
(* temporary one is made and the value is appended to it.                  *)
BindJson(p) ==
    /\ kind[p] = "jsonIn"
    /\ \E n \in Desc \ (alloc \ {handle[p]}), t \in Fresh, freed \in BOOLEAN :
         /\ Swap(p, n, t, freed, {})
         /\ written' = [written EXCEPT ![t] = 1]

(* Output::native_value for JSON and nullable LOBs: a descriptor is made   *)
(* each time, and dropped at once if an earlier call left a locator, which *)
(* get_or_insert keeps.                                                    *)
BindOutput(p) ==
    /\ kind[p] \in JsonOutputs \union {"lobNullable"}
    /\ IF handle[p] = NoDesc
         THEN \E n \in Desc \ alloc : Swap(p, n, NoTemp, TRUE, {})
         ELSE UNCHANGED lobVars
    /\ UNCHANGED written

(* A borrowed LOB is bound as it is, a NULL without any.                   *)
BindBorrowed(p) ==
    /\ kind[p] \in {"lobIn", "lobOut", "jsonNullIn"}
    /\ UNCHANGED <<lobVars, written>>

Bind(p) == BindJson(p) \/ BindOutput(p) \/ BindBorrowed(p)

BindNext(p) ==
    /\ phase = "bind" /\ p \in todo
    /\ Bind(p)
    /\ phase' = IF todo = {p} THEN "execute" ELSE "bind"
    /\ todo' = todo \ {p}
    /\ UNCHANGED <<paramVars, args, null, calls, failed, got, replaced>>

(* An error ends the call; the parameters are the application's again.     *)
CallFails ==
    /\ phase' = "idle"
    /\ args' = {} /\ todo' = {} /\ null' = {}
    /\ failed' = failed \union args
    /\ UNCHANGED paramVars

(* The native bind fails after native_value; or native_value does: the new *)
(* descriptor, the temporary LOB, or the append, which drops them both.    *)
BindFails(p) ==
    /\ phase = "bind" /\ p \in todo
    /\ \/ Bind(p)
       \/ /\ kind[p] = "jsonIn"
          /\ \E freed \in BOOLEAN, stray \in {{}} \union {{t} : t \in Fresh} :
               Swap(p, NoDesc, NoTemp, freed, stray)
          /\ UNCHANGED written
       \/ kind[p] # "jsonIn" /\ UNCHANGED <<lobVars, written>>
    /\ CallFails
    /\ UNCHANGED <<calls, got, replaced>>

-----------------------------------------------------------------------------
(* The locator that an output writes to: its own or its target's.          *)
Locator(p) == handle[IF kind[p] = "lobOut" THEN target[p] ELSE p]

Outputs == {p \in args : kind[p] \in JsonOutputs \union LobOutputs}

(* yacExecute writes NULL, or a LOB, to each output in `done`, a temporary *)
(* one where `made` says which.                                            *)
Write(done, nulls, made) ==
    LET new == {Locator(p) : p \in done \ nulls}
        TempFor(d) == IF \E p \in DOMAIN made : Locator(p) = d
                        THEN made[CHOOSE p \in DOMAIN made : Locator(p) = d] ELSE NoTemp
    IN  /\ temp' = [d \in Desc |-> IF d \in new THEN TempFor(d) ELSE temp[d]]
        /\ origin' = [d \in Desc |-> IF d \in new THEN calls + 1 ELSE origin[d]]
        /\ live' = live \union {made[p] : p \in DOMAIN made}
        /\ replaced' = replaced \union ({temp[d] : d \in new} \ {NoTemp})
        /\ written' = [t \in Temps |-> IF \E p \in DOMAIN made : made[p] = t
                                         THEN 0 ELSE written[t]]
        /\ UNCHANGED <<handle, alloc, stranded>>

Writes(done, nulls) ==
    \E which \in SUBSET (done \ nulls) :
        \E made \in [which -> Fresh] :
            /\ \A p, q \in which : made[p] = made[q] => p = q
            /\ Write(done, nulls, made)

Execute ==
    /\ phase = "execute"
    /\ \E nulls \in SUBSET Outputs : Writes(Outputs, nulls) /\ null' = nulls
    /\ calls' = calls + 1
    /\ phase' = "complete"
    /\ todo' = args
    /\ UNCHANGED <<paramVars, args, failed, got>>

ExecuteFails ==
    /\ phase = "execute"
    /\ \E done \in SUBSET Outputs : \E nulls \in SUBSET done : Writes(done, nulls)
    /\ calls' = calls + 1
    /\ CallFails
    /\ UNCHANGED <<got>>

(* Mutant: the LOB of the value just read is kept with the parameter.      *)
CompleteJsonKeeps(p) ==
    /\ kind[p] \in JsonOutputs
    /\ p \in null => kind[p] = "jsonNullable"
    /\ got' = [got EXCEPT ![p] = IF p \in null THEN 0 ELSE origin[handle[p]]]
    /\ UNCHANGED lobVars

(* Output::complete for JSON: the value is read and its LOB dropped.       *)
CompleteJson(p) ==
    /\ kind[p] \in JsonOutputs
    /\ p \in null => kind[p] = "jsonNullable"
    /\ got' = [got EXCEPT ![p] = IF p \in null THEN 0 ELSE origin[handle[p]]]
    /\ Discard(p)

(* Mutant: a NULL leaves the target as it was.                             *)
CompleteNullableKeepsTarget(p) ==
    /\ kind[p] = "lobNullable"
    /\ IF p \in null
         THEN UNCHANGED lobVars
         ELSE \E freed \in BOOLEAN : Move(p, target[p], freed)
    /\ UNCHANGED got

(* Output::complete for a nullable LOB: what the target had is dropped.  A *)
(* NULL leaves the locator with the parameter, otherwise it moves.         *)
CompleteNullable(p) ==
    /\ kind[p] = "lobNullable"
    /\ IF p \in null
         THEN Discard(target[p])
         ELSE \E freed \in BOOLEAN : Move(p, target[p], freed)
    /\ UNCHANGED got

(* Inputs, and a LOB that was written in place and is not NULL.            *)
CompleteInPlace(p) ==
    /\ kind[p] \in {"lobIn", "jsonIn", "jsonNullIn", "lobOut"}
    /\ kind[p] = "lobOut" => p \notin null
    /\ UNCHANGED <<lobVars, got>>

CompleteNext(p) ==
    /\ phase = "complete" /\ p \in todo
    /\ CompleteJson(p) \/ CompleteNullable(p) \/ CompleteInPlace(p)
    /\ todo' = todo \ {p}
    /\ UNCHANGED <<paramVars, phase, args, null, calls, failed, written, replaced>>

(* A NULL that the target cannot hold, an indicator that makes no sense, a *)
(* JSON value that cannot be read, or the count of rows.                   *)
CompleteFails ==
    /\ phase = "complete"
    /\ todo # {} => \E p \in todo : kind[p] \in JsonOutputs \union LobOutputs
    /\ CallFails
    /\ UNCHANGED <<lobVars, calls, got, written, replaced>>

Return ==
    /\ phase = "complete" /\ todo = {}
    /\ phase' = "idle"
    /\ args' = {} /\ null' = {}
    /\ UNCHANGED <<lobVars, paramVars, todo, calls, failed, got, written, replaced>>

-----------------------------------------------------------------------------
Next ==
    \/ \E v \in Vars : NewTemporary(v) \/ NewOutput(v) \/ DropVar(v)
    \/ \E p \in Params, k \in Kinds, v \in Vars \union {NoVar} : NewParam(p, k, v)
    \/ \E p \in Params : DropParam(p)
    \/ \E list \in SUBSET Params \ {{}} : StartCall(list)
    \/ \E p \in Params : BindNext(p) \/ BindFails(p) \/ CompleteNext(p)
    \/ Execute \/ ExecuteFails \/ CompleteFails \/ Return

Spec == Init /\ [][Next]_vars

-----------------------------------------------------------------------------
(* Every descriptor is in one place, whatever failed on the way there, so  *)
(* that its owner's drop frees it and nobody else's does.                  *)
DescriptorsHeld ==
    /\ alloc = {handle[x] : x \in Holders} \ {NoDesc}
    /\ \A x, y \in Holders : handle[x] = handle[y] /\ handle[x] # NoDesc => x = y

(* No temporary LOB is forgotten on the server: one locator refers to it,  *)
(* unless every release failed or yacExecute wrote over the locator.  And  *)
(* no locator refers to a temporary that is gone.                          *)
TemporariesAccounted ==
    /\ \A t \in live \ (stranded \union replaced) : \E d \in alloc : temp[d] = t
    /\ \A d \in alloc : temp[d] # NoTemp => temp[d] \in live \ (stranded \union replaced)
    /\ \A d, e \in alloc : temp[d] = temp[e] /\ temp[d] # NoTemp => d = e

(* The server gets a JSON input in a LOB of its own that holds the value   *)
(* once, however often the parameter was used and whatever failed before.  *)
JsonSentOnce ==
    phase = "execute" =>
        \A p \in args :
            kind[p] = "jsonIn" => Held(p) \in live /\ written[Held(p)] = 1

(* A parameter's locator goes into a call with a temporary LOB in it, and  *)
(* yacExecute may write over it, only if an earlier call with the          *)
(* parameter failed; after an Ok it may be used again.                     *)
CleanUnlessFailed ==
    phase = "execute" =>
        \A p \in args :
            kind[p] \in JsonOutputs \union {"lobNullable"} /\ Held(p) # NoTemp =>
                p \in failed

(* When a call returns Ok, every target holds what this call wrote for it, *)
(* None for a NULL, and not what an earlier call left in the parameter.    *)
OkMeansThisCall ==
    phase = "complete" =>
        \A p \in args \ todo :
            /\ kind[p] \in JsonOutputs => got[p] = IF p \in null THEN 0 ELSE calls
            /\ kind[p] = "lobNullable" =>
                 IF p \in null THEN handle[target[p]] = NoDesc
                 ELSE handle[target[p]] # NoDesc /\ origin[handle[target[p]]] = calls
            /\ kind[p] = "lobOut" => p \notin null /\ origin[handle[target[p]]] = calls
=============================================================================
