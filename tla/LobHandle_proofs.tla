--------------------------- MODULE LobHandle_proofs ---------------------------
(***************************************************************************)
(* Proofs about LobHandle, for any variables, parameters, descriptors and  *)
(* temporary LOBs.                                                         *)
(*                                                                         *)
(* Every step changes the locators in one of four ways, LobStep; each      *)
(* invariant about them is shown for these.                                *)
(***************************************************************************)
EXTENDS LobHandle, TLAPS

LobTypes ==
    /\ handle \in [Holders -> Desc \union {NoDesc}]
    /\ alloc \subseteq Desc
    /\ temp \in [Desc -> Temps \union {NoTemp}]
    /\ live \subseteq Temps
    /\ origin \in [Desc -> 0..MaxCalls]
    /\ stranded \subseteq Temps

ParamTypes ==
    /\ kind \in [Params -> Kinds \union {"gone"}]
    /\ target \in [Params -> Vars \union {NoVar}]

CallTypes ==
    /\ phase \in Phases
    /\ todo \subseteq args /\ args \subseteq Params
    /\ null \subseteq Params
    /\ calls \in 0..MaxCalls
    /\ failed \subseteq Params

OtherTypes ==
    /\ got \in [Params -> 0..MaxCalls]
    /\ written \in [Temps -> Nat]
    /\ replaced \subseteq Temps

(* What parameters borrow: outputs exclusively, and a LOB that is there.   *)
Borrows ==
    /\ \A p \in Params : kind[p] \in LobOutputs \union {"lobIn"} => target[p] \in Vars
    /\ \A p, q \in Params :
         kind[p] \in LobOutputs /\ kind[q] # "gone" /\ target[q] = target[p] => p = q
    /\ \A p \in Params : kind[p] = "lobOut" => handle[target[p]] # NoDesc

(* How far the call in progress is: what is bound has its descriptor.      *)
Progressed ==
    /\ \A p \in args : kind[p] # "gone"
    /\ phase = "idle" => args = {}
    /\ phase = "execute" => todo = {} /\ calls < MaxCalls
    /\ phase = "bind" => calls < MaxCalls
    /\ phase \in {"bind", "execute"} =>
         \A p \in args \ todo :
             kind[p] \in JsonOutputs \union {"lobNullable"} => handle[p] # NoDesc
    /\ phase = "complete" =>
         \A p \in todo :
             kind[p] \in JsonOutputs \union {"lobNullable"} => handle[p] # NoDesc

Shape == TypeOK /\ Borrows /\ Progressed

(* The four ways in which a step changes locators.                         *)
Swaps ==
    \E x \in Holders, n \in Desc \union {NoDesc}, t \in Temps \union {NoTemp},
       freed \in BOOLEAN, stray \in SUBSET Temps :
        /\ n \notin alloc \ {handle[x]}
        /\ t \notin live
        /\ n = NoDesc => t = NoTemp
        /\ stray \intersect live = {} /\ t \notin stray
        /\ Swap(x, n, t, freed, stray)
        /\ UNCHANGED replaced

Moves ==
    \E x \in Params, y \in Vars, freed \in BOOLEAN :
        Move(x, y, freed) /\ UNCHANGED replaced

WritesSome ==
    /\ phase = "execute"
    /\ \E done \in SUBSET Outputs : \E nulls \in SUBSET done : Writes(done, nulls)

LobStep == UNCHANGED <<lobVars, replaced>> \/ Swaps \/ Moves \/ WritesSome

LEMMA TypeParts == TypeOK <=> LobTypes /\ ParamTypes /\ CallTypes /\ OtherTypes
BY DEF TypeOK, LobTypes, ParamTypes, CallTypes, OtherTypes

LEMMA DiscardSwaps ==
    ASSUME TypeOK, NEW x \in Holders, Discard(x), UNCHANGED replaced
    PROVE  Swaps
<1>1. PICK freed \in BOOLEAN : Swap(x, NoDesc, NoTemp, freed, {})
  BY DEF Discard
<1>2. NoDesc \notin alloc \ {handle[x]} /\ NoTemp \notin live
  BY HandleAssumption DEF TypeOK
<1>. QED
  BY <1>1, <1>2 DEF Swaps

LEMMA NewSwaps ==
    ASSUME NEW x \in Holders, NEW n \in Desc \ alloc, NEW t \in Temps \union {NoTemp},
           t \notin live, Swap(x, n, t, TRUE, {}), UNCHANGED replaced
    PROVE  Swaps
<1>1. n \notin alloc \ {handle[x]} /\ n # NoDesc
  BY HandleAssumption
<1>2. \E freed \in BOOLEAN : Swap(x, n, t, freed, {})
  <2>. WITNESS TRUE \in BOOLEAN
  <2>. QED
    OBVIOUS
<1>3. PICK freed \in BOOLEAN : Swap(x, n, t, freed, {})
  BY <1>2
<1>. QED
  BY <1>1, <1>3 DEF Swaps

(* Binding a parameter.                                                    *)
LEMMA BindStep ==
    ASSUME TypeOK, NEW p \in Params, Bind(p), UNCHANGED replaced
    PROVE  UNCHANGED <<lobVars, replaced>> \/ Swaps
<1>1. CASE BindJson(p)
  <2>1. PICK n \in Desc \ (alloc \ {handle[p]}), t \in Fresh, freed \in BOOLEAN :
          Swap(p, n, t, freed, {})
    BY <1>1 DEF BindJson
  <2>2. p \in Holders /\ t \in Temps /\ t \notin live /\ n # NoDesc
    BY HandleAssumption DEF Holders, Fresh
  <2>. QED
    BY <2>1, <2>2 DEF Swaps
<1>2. CASE BindOutput(p)
  <2>1. CASE handle[p] = NoDesc
    <3>1. PICK n \in Desc \ alloc : Swap(p, n, NoTemp, TRUE, {})
      BY <1>2, <2>1 DEF BindOutput
    <3>2. p \in Holders /\ NoTemp \notin live /\ n # NoDesc
      BY HandleAssumption DEF Holders, TypeOK
    <3>. QED
      BY <3>1, <3>2, NewSwaps
  <2>2. CASE handle[p] # NoDesc
    BY <1>2, <2>2 DEF BindOutput
  <2>. QED
    BY <2>1, <2>2
<1>3. CASE BindBorrowed(p)
  BY <1>3 DEF BindBorrowed
<1>. QED
  BY <1>1, <1>2, <1>3 DEF Bind

LEMMA StepChangesLobs == Shape /\ Next => LobStep
<1> SUFFICES ASSUME Shape, Next PROVE LobStep
  OBVIOUS
<1>0. TypeOK
  BY DEF Shape
<1>1. ASSUME NEW v \in Vars, NewTemporary(v) PROVE LobStep
  <2>1. PICK n \in Desc \ alloc, t \in Fresh : Swap(v, n, t, TRUE, {})
    BY <1>1 DEF NewTemporary
  <2>2. v \in Holders /\ t \in Temps /\ t \notin live /\ n # NoDesc
    BY HandleAssumption DEF Holders, Fresh
  <2>. QED
    BY <1>1, <2>1, <2>2, NewSwaps DEF NewTemporary, LobStep
<1>2. ASSUME NEW v \in Vars, NewOutput(v) PROVE LobStep
  <2>1. PICK n \in Desc \ alloc : Swap(v, n, NoTemp, TRUE, {})
    BY <1>2 DEF NewOutput
  <2>2. v \in Holders /\ NoTemp \notin live /\ n # NoDesc
    BY <1>0, HandleAssumption DEF Holders, TypeOK
  <2>. QED
    BY <1>2, <2>1, <2>2, NewSwaps DEF NewOutput, LobStep
<1>3. ASSUME NEW v \in Vars, DropVar(v) PROVE LobStep
  BY <1>0, <1>3, DiscardSwaps DEF DropVar, LobStep, Holders
<1>4. ASSUME NEW p \in Params, NEW k \in Kinds, NEW v \in Vars \union {NoVar}, NewParam(p, k, v)
      PROVE  LobStep
  BY <1>4 DEF NewParam, LobStep
<1>5. ASSUME NEW p \in Params, DropParam(p) PROVE LobStep
  BY <1>0, <1>5, DiscardSwaps DEF DropParam, LobStep, Holders
<1>6. ASSUME NEW list \in SUBSET Params \ {{}}, StartCall(list) PROVE LobStep
  BY <1>6 DEF StartCall, LobStep
<1>7. ASSUME NEW p \in Params, BindNext(p) PROVE LobStep
  BY <1>0, <1>7, BindStep DEF BindNext, LobStep
<1>8. ASSUME NEW p \in Params, BindFails(p) PROVE LobStep
  <2>0. UNCHANGED replaced
    BY <1>8 DEF BindFails
  <2>1. CASE Bind(p)
    BY <1>0, <2>0, <2>1, BindStep DEF LobStep
  <2>2. CASE \E freed \in BOOLEAN, stray \in {{}} \union {{t} : t \in Fresh} :
               Swap(p, NoDesc, NoTemp, freed, stray)
    <3>1. PICK freed \in BOOLEAN, stray \in {{}} \union {{t} : t \in Fresh} :
            Swap(p, NoDesc, NoTemp, freed, stray)
      BY <2>2
    <3>2. stray \in SUBSET Temps /\ stray \intersect live = {} /\ NoTemp \notin stray
      BY HandleAssumption DEF Fresh
    <3>3. p \in Holders /\ NoTemp \notin live /\ NoDesc \notin alloc
      BY <1>0, HandleAssumption DEF Holders, TypeOK
    <3>. QED
      BY <2>0, <3>1, <3>2, <3>3 DEF LobStep, Swaps
  <2>3. CASE UNCHANGED lobVars
    BY <2>0, <2>3 DEF LobStep
  <2>. QED
    BY <1>8, <2>1, <2>2, <2>3 DEF BindFails
<1>9. ASSUME NEW p \in Params, CompleteNext(p) PROVE LobStep
  <2>0. UNCHANGED replaced
    BY <1>9 DEF CompleteNext
  <2>1. CASE CompleteJson(p)
    BY <1>0, <2>0, <2>1, DiscardSwaps DEF CompleteJson, LobStep, Holders
  <2>2. CASE CompleteNullable(p)
    <3>1. target[p] \in Vars
      BY <2>2 DEF CompleteNullable, Shape, Borrows, LobOutputs
    <3>2. Discard(target[p]) \/ \E freed \in BOOLEAN : Move(p, target[p], freed)
      BY <2>2 DEF CompleteNullable
    <3>3. CASE Discard(target[p])
      BY <1>0, <2>0, <3>1, <3>3, DiscardSwaps DEF LobStep, Holders
    <3>4. CASE \E freed \in BOOLEAN : Move(p, target[p], freed)
      BY <2>0, <3>1, <3>4 DEF LobStep, Moves
    <3>. QED
      BY <3>2, <3>3, <3>4
  <2>3. CASE CompleteInPlace(p)
    BY <2>0, <2>3 DEF CompleteInPlace, LobStep
  <2>. QED
    BY <1>9, <2>1, <2>2, <2>3 DEF CompleteNext
<1>10. CASE Execute
  <2>1. PICK nulls \in SUBSET Outputs : Writes(Outputs, nulls)
    BY <1>10 DEF Execute
  <2>. QED
    BY <1>10, <2>1 DEF Execute, LobStep, WritesSome
<1>11. CASE ExecuteFails
  BY <1>11 DEF ExecuteFails, LobStep, WritesSome
<1>12. CASE CompleteFails \/ Return
  BY <1>12 DEF CompleteFails, Return, LobStep
<1>. QED
  BY <1>1, <1>2, <1>3, <1>4, <1>5, <1>6, <1>7, <1>8, <1>9, <1>10, <1>11, <1>12 DEF Next

-----------------------------------------------------------------------------
(* What yacExecute may have done.                                          *)

LEMMA LocatorInHolders ==
    ASSUME Shape, phase = "execute", NEW p \in Outputs
    PROVE  Locator(p) \in Desc /\ Locator(p) = handle[IF kind[p] = "lobOut" THEN target[p] ELSE p]
<1>1. p \in Params /\ p \in args \ todo /\ kind[p] \in JsonOutputs \union LobOutputs
  BY DEF Outputs, Shape, TypeOK, Progressed
<1>2. CASE kind[p] = "lobOut"
  <2>1. target[p] \in Holders /\ handle[target[p]] # NoDesc
    BY <1>1, <1>2 DEF Shape, Borrows, LobOutputs, Holders
  <2>. QED
    BY <1>2, <2>1 DEF Locator, Shape, TypeOK
<1>3. CASE kind[p] # "lobOut"
  <2>1. handle[p] # NoDesc /\ p \in Holders
    BY <1>1, <1>3 DEF Shape, Progressed, LobOutputs, Holders
  <2>. QED
    BY <1>3, <2>1 DEF Locator, Shape, TypeOK
<1>. QED
  BY <1>2, <1>3

(* A write of the server, with what it made.                               *)
Wrote(done, nulls, which, made) ==
    /\ done \in SUBSET Outputs /\ nulls \in SUBSET done /\ which \in SUBSET (done \ nulls)
    /\ made \in [which -> Fresh]
    /\ \A p, q \in which : made[p] = made[q] => p = q
    /\ phase = "execute"
    /\ Write(done, nulls, made)

LEMMA WritesSomeFacts == WritesSome => \E done, nulls, which, made : Wrote(done, nulls, which, made)
BY DEF WritesSome, Writes, Wrote

LEMMA WriteFacts ==
    ASSUME Shape, NEW done, NEW nulls, NEW which, NEW made, Wrote(done, nulls, which, made)
    PROVE  /\ UNCHANGED <<handle, alloc, stranded>>
           /\ live' = live \union {made[p] : p \in which}
           /\ temp' \in [Desc -> Temps \union {NoTemp}]
           /\ \A d \in Desc :
                \/ /\ temp'[d] = temp[d] /\ origin'[d] = origin[d]
                   /\ \A p \in done \ nulls : Locator(p) # d
                \/ /\ \E p \in done \ nulls : Locator(p) = d
                   /\ origin'[d] = calls + 1
                   /\ \/ temp'[d] = NoTemp /\ \A p \in which : Locator(p) # d
                      \/ \E p \in which : Locator(p) = d /\ temp'[d] = made[p]
           /\ origin' \in [Desc -> 0..MaxCalls]
           /\ replaced' = replaced \union ({temp[Locator(p)] : p \in done \ nulls} \ {NoTemp})
           /\ written' = [t \in Temps |-> IF \E p \in which : made[p] = t THEN 0 ELSE written[t]]
<1> DEFINE new == {Locator(p) : p \in done \ nulls}
           TempFor(d) == IF \E p \in DOMAIN made : Locator(p) = d
                           THEN made[CHOOSE p \in DOMAIN made : Locator(p) = d] ELSE NoTemp
<1>a. /\ done \in SUBSET Outputs /\ nulls \in SUBSET done /\ which \in SUBSET (done \ nulls)
      /\ made \in [which -> Fresh] /\ phase = "execute" /\ Write(done, nulls, made)
  BY DEF Wrote
<1>0. DOMAIN made = which /\ TypeOK /\ calls < MaxCalls
  BY <1>a DEF Shape, Progressed
<1>1. /\ temp' = [d \in Desc |-> IF d \in new THEN TempFor(d) ELSE temp[d]]
      /\ origin' = [d \in Desc |-> IF d \in new THEN calls + 1 ELSE origin[d]]
      /\ live' = live \union {made[p] : p \in which}
      /\ replaced' = replaced \union ({temp[d] : d \in new} \ {NoTemp})
      /\ written' = [t \in Temps |-> IF \E p \in which : made[p] = t THEN 0 ELSE written[t]]
      /\ UNCHANGED <<handle, alloc, stranded>>
  BY <1>0, <1>a DEF Write
<1>2. ASSUME NEW d \in Desc
      PROVE  \/ TempFor(d) = NoTemp /\ \A p \in which : Locator(p) # d
             \/ \E p \in which : Locator(p) = d /\ TempFor(d) = made[p] /\ made[p] \in Temps
  <2>1. CASE \A p \in which : Locator(p) # d
    BY <1>0, <2>1
  <2>2. CASE \E p \in which : Locator(p) = d
    <3>1. PICK q : q \in which /\ Locator(q) = d /\ TempFor(d) = made[q]
      BY <1>0, <2>2
    <3>2. made[q] \in Temps
      BY <1>a, <3>1 DEF Fresh
    <3>. QED
      BY <3>1, <3>2
  <2>. QED
    BY <2>1, <2>2
<1>3. \A d \in Desc : d \in new <=> \E p \in done \ nulls : Locator(p) = d
  OBVIOUS
<1>4. {temp[d] : d \in new} = {temp[Locator(p)] : p \in done \ nulls}
  OBVIOUS
<1>5. temp' \in [Desc -> Temps \union {NoTemp}]
  <2>1. \A d \in Desc : TempFor(d) \in Temps \union {NoTemp}
    BY <1>2
  <2>2. temp \in [Desc -> Temps \union {NoTemp}]
    BY <1>0 DEF TypeOK
  <2> HIDE DEF TempFor, new
  <2>. QED
    BY <1>1, <2>1, <2>2
<1>6. origin' \in [Desc -> 0..MaxCalls]
  <2>1. calls + 1 \in 0..MaxCalls
    BY <1>0, HandleAssumption DEF TypeOK
  <2> HIDE DEF new
  <2>. QED
    BY <1>0, <1>1, <2>1 DEF TypeOK
<1>7. ASSUME NEW d \in Desc
      PROVE  \/ temp'[d] = temp[d] /\ origin'[d] = origin[d]
                /\ \A p \in done \ nulls : Locator(p) # d
             \/ /\ \E p \in done \ nulls : Locator(p) = d
                /\ origin'[d] = calls + 1
                /\ \/ temp'[d] = NoTemp /\ \A p \in which : Locator(p) # d
                   \/ \E p \in which : Locator(p) = d /\ temp'[d] = made[p]
  <2>1. CASE d \in new
    <3>1. temp'[d] = TempFor(d) /\ origin'[d] = calls + 1
      BY <1>1, <2>1
    <3>. QED
      BY <1>2, <1>3, <2>1, <3>1
  <2>2. CASE d \notin new
    <3>1. temp'[d] = temp[d] /\ origin'[d] = origin[d]
      BY <1>1, <2>2
    <3>. QED
      BY <1>3, <2>2, <3>1
  <2>. QED
    BY <2>1, <2>2
<1>. QED
  BY <1>1, <1>4, <1>5, <1>6, <1>7

LEMMA LobTypesStep == Shape /\ LobStep => LobTypes' /\ replaced' \subseteq Temps
<1> SUFFICES ASSUME Shape, LobStep PROVE LobTypes' /\ replaced' \subseteq Temps
  OBVIOUS
<1>0. LobTypes /\ replaced \subseteq Temps
  BY DEF Shape, TypeOK, LobTypes
<1>1. CASE UNCHANGED <<lobVars, replaced>>
  BY <1>0, <1>1 DEF lobVars, LobTypes
<1>2. CASE Swaps
  <2>1. PICK x \in Holders, n \in Desc \union {NoDesc}, t \in Temps \union {NoTemp},
             freed \in BOOLEAN, stray \in SUBSET Temps :
               Swap(x, n, t, freed, stray) /\ UNCHANGED replaced
    BY <1>2 DEF Swaps
  <2>2. Held(x) \in Temps \union {NoTemp}
    BY <1>0 DEF Held, TempOf, LobTypes
  <2>3. handle' \in [Holders -> Desc \union {NoDesc}] /\ alloc' \subseteq Desc
    BY <1>0, <2>1 DEF Swap, LobTypes
  <2>4. temp' \in [Desc -> Temps \union {NoTemp}]
    BY <1>0, <2>1 DEF Swap, LobTypes
  <2>5. live' \subseteq Temps /\ stranded' \subseteq Temps
    BY <1>0, <2>1, <2>2 DEF Swap, LobTypes
  <2>6. origin' \in [Desc -> 0..MaxCalls]
    BY <1>0, <2>1, HandleAssumption DEF Swap, LobTypes
  <2>. QED
    BY <1>0, <2>1, <2>3, <2>4, <2>5, <2>6 DEF LobTypes
<1>3. CASE Moves
  <2>1. PICK x \in Params, y \in Vars, freed \in BOOLEAN : Move(x, y, freed) /\ UNCHANGED replaced
    BY <1>3 DEF Moves
  <2>2. Held(y) \in Temps \union {NoTemp}
    BY <1>0 DEF Held, TempOf, LobTypes, Holders
  <2>3. handle' \in [Holders -> Desc \union {NoDesc}] /\ alloc' \subseteq Desc
    BY <1>0, <2>1 DEF Move, LobTypes, Holders
  <2>4. temp' \in [Desc -> Temps \union {NoTemp}]
    BY <1>0, <2>1 DEF Move, LobTypes
  <2>5. live' \subseteq Temps /\ stranded' \subseteq Temps /\ origin' = origin
    BY <1>0, <2>1, <2>2 DEF Move, LobTypes
  <2>. QED
    BY <1>0, <2>1, <2>3, <2>4, <2>5 DEF LobTypes
<1>4. CASE WritesSome
  <2>0. PICK done, nulls, which, made : Wrote(done, nulls, which, made)
    BY <1>4, WritesSomeFacts
  <2>1. /\ done \in SUBSET Outputs /\ nulls \in SUBSET done /\ which \in SUBSET (done \ nulls)
        /\ made \in [which -> Fresh] /\ phase = "execute" /\ Write(done, nulls, made)
    BY <2>0 DEF Wrote
  <2>2. /\ UNCHANGED <<handle, alloc, stranded>>
        /\ live' = live \union {made[p] : p \in which}
        /\ temp' \in [Desc -> Temps \union {NoTemp}]
        /\ origin' \in [Desc -> 0..MaxCalls]
        /\ replaced' = replaced \union ({temp[Locator(p)] : p \in done \ nulls} \ {NoTemp})
    BY <2>0, WriteFacts
  <2>3. live' \subseteq Temps
    BY <1>0, <2>1, <2>2 DEF Fresh, LobTypes
  <2>4. \A p \in done \ nulls : temp[Locator(p)] \in Temps \union {NoTemp}
    BY <1>0, <2>1, LocatorInHolders DEF LobTypes
  <2>5. replaced' \subseteq Temps
    BY <1>0, <2>2, <2>4
  <2>. QED
    BY <1>0, <2>2, <2>3, <2>5 DEF LobTypes
<1>. QED
  BY <1>1, <1>2, <1>3, <1>4 DEF LobStep

-----------------------------------------------------------------------------
(* The other variables keep their types.                                   *)

LEMMA RestTypesStep ==
    Shape /\ Next => (ParamTypes /\ CallTypes)' /\ got' \in [Params -> 0..MaxCalls]
                     /\ written' \in [Temps -> Nat]
<1> SUFFICES ASSUME Shape, Next
             PROVE  (ParamTypes /\ CallTypes)' /\ got' \in [Params -> 0..MaxCalls]
                    /\ written' \in [Temps -> Nat]
  OBVIOUS
<1>0. TypeOK /\ ParamTypes /\ CallTypes /\ OtherTypes /\ Progressed
  BY TypeParts DEF Shape
<1> USE DEF ParamTypes, CallTypes, OtherTypes, paramVars, callVars, Phases
<1>a. ASSUME NEW p \in Params, Bind(p) PROVE written' \in [Temps -> Nat]
  <2>1. ASSUME BindJson(p) PROVE written' \in [Temps -> Nat]
    <3>1. PICK t \in Fresh : written' = [written EXCEPT ![t] = 1]
      BY <2>1 DEF BindJson
    <3>. QED
      BY <1>0, <3>1
  <2>. QED
    BY <1>0, <1>a, <2>1 DEF Bind, BindOutput, BindBorrowed
<1>1. ASSUME NEW v \in Vars, NewTemporary(v) \/ NewOutput(v) \/ DropVar(v)
      PROVE (ParamTypes /\ CallTypes)' /\ got' \in [Params -> 0..MaxCalls] /\ written' \in [Temps -> Nat]
  <2>1. ASSUME NewTemporary(v) PROVE written' \in [Temps -> Nat]
    <3>1. PICK t \in Fresh : written' = [written EXCEPT ![t] = 0]
      BY <2>1 DEF NewTemporary
    <3>. QED
      BY <1>0, <3>1
  <2>2. written' \in [Temps -> Nat]
    BY <1>0, <1>1, <2>1 DEF NewOutput, DropVar
  <2>3. UNCHANGED <<paramVars, callVars, got>>
    BY <1>1 DEF NewTemporary, NewOutput, DropVar
  <2>. QED
    BY <1>0, <2>2, <2>3
<1>4. ASSUME NEW p \in Params, NEW k \in Kinds, NEW v \in Vars \union {NoVar}, NewParam(p, k, v)
      PROVE (ParamTypes /\ CallTypes)' /\ got' \in [Params -> 0..MaxCalls] /\ written' \in [Temps -> Nat]
  BY <1>0, <1>4, HandleAssumption DEF NewParam
<1>5. ASSUME NEW p \in Params, DropParam(p)
      PROVE (ParamTypes /\ CallTypes)' /\ got' \in [Params -> 0..MaxCalls] /\ written' \in [Temps -> Nat]
  BY <1>0, <1>5 DEF DropParam
<1>6. ASSUME NEW list \in SUBSET Params \ {{}}, StartCall(list)
      PROVE (ParamTypes /\ CallTypes)' /\ got' \in [Params -> 0..MaxCalls] /\ written' \in [Temps -> Nat]
  BY <1>0, <1>6 DEF StartCall
<1>7. ASSUME NEW p \in Params, BindNext(p)
      PROVE (ParamTypes /\ CallTypes)' /\ got' \in [Params -> 0..MaxCalls] /\ written' \in [Temps -> Nat]
  BY <1>0, <1>7, <1>a DEF BindNext
<1>8. ASSUME NEW p \in Params, BindFails(p)
      PROVE (ParamTypes /\ CallTypes)' /\ got' \in [Params -> 0..MaxCalls] /\ written' \in [Temps -> Nat]
  <2>1. written' \in [Temps -> Nat]
    BY <1>0, <1>8, <1>a DEF BindFails
  <2>. QED
    BY <1>0, <1>8, <2>1 DEF BindFails, CallFails
<1>9. ASSUME NEW p \in Params, CompleteNext(p)
      PROVE (ParamTypes /\ CallTypes)' /\ got' \in [Params -> 0..MaxCalls] /\ written' \in [Temps -> Nat]
  <2>1. got' \in [Params -> 0..MaxCalls]
    <3>1. CASE CompleteJson(p)
      <4>1. handle[p] \in Desc
        BY <1>0, <1>9, <3>1 DEF CompleteNext, CompleteJson, Progressed, TypeOK, Holders
      <4>2. origin[handle[p]] \in 0..MaxCalls /\ 0 \in 0..MaxCalls
        BY <1>0, <4>1, HandleAssumption DEF TypeOK
      <4>. QED
        BY <1>0, <3>1, <4>2 DEF CompleteJson
    <3>2. CASE CompleteNullable(p) \/ CompleteInPlace(p)
      BY <1>0, <3>2 DEF CompleteNullable, CompleteInPlace
    <3>. QED
      BY <1>9, <3>1, <3>2 DEF CompleteNext
  <2>. QED
    BY <1>0, <1>9, <2>1 DEF CompleteNext
<1>b. ASSUME WritesSome PROVE written' \in [Temps -> Nat]
  <2>1. PICK done, nulls, which, made : Wrote(done, nulls, which, made)
    BY <1>b, WritesSomeFacts
  <2>2. written' = [t \in Temps |-> IF \E p \in which : made[p] = t THEN 0 ELSE written[t]]
    BY <2>1, WriteFacts
  <2>. QED
    BY <1>0, <2>2
<1>10. CASE Execute
  <2>1. WritesSome
    BY <1>10 DEF Execute, WritesSome
  <2>2. null' \subseteq Params
    BY <1>0, <1>10 DEF Execute, Outputs
  <2>3. calls' \in 0..MaxCalls
    BY <1>0, <1>10, HandleAssumption DEF Execute, Progressed
  <2>. QED
    BY <1>0, <1>10, <1>b, <2>1, <2>2, <2>3 DEF Execute
<1>11. CASE ExecuteFails
  <2>1. WritesSome
    BY <1>11 DEF ExecuteFails, WritesSome
  <2>3. calls' \in 0..MaxCalls
    BY <1>0, <1>11, HandleAssumption DEF ExecuteFails, Progressed
  <2>. QED
    BY <1>0, <1>11, <1>b, <2>1, <2>3 DEF ExecuteFails, CallFails
<1>12. CASE CompleteFails \/ Return
  BY <1>0, <1>12 DEF CompleteFails, CallFails, Return
<1>. QED
  BY <1>1, <1>4, <1>5, <1>6, <1>7, <1>8, <1>9, <1>10, <1>11, <1>12 DEF Next

LEMMA TypeStep == Shape /\ [Next]_vars => TypeOK'
<1>1. ASSUME Shape, Next PROVE TypeOK'
  <2>1. LobStep
    BY <1>1, StepChangesLobs
  <2>2. LobTypes' /\ replaced' \subseteq Temps
    BY <1>1, <2>1, LobTypesStep
  <2>3. (ParamTypes /\ CallTypes)' /\ got' \in [Params -> 0..MaxCalls] /\ written' \in [Temps -> Nat]
    BY <1>1, RestTypesStep
  <2>. QED
    BY <2>2, <2>3 DEF TypeOK, LobTypes, ParamTypes, CallTypes
<1>2. ASSUME Shape, UNCHANGED vars PROVE TypeOK'
  <2>1. TypeOK
    BY <1>2 DEF Shape
  <2>. QED
    BY <1>2, <2>1 DEF TypeOK, vars, lobVars, paramVars, callVars
<1>. QED
  BY <1>1, <1>2

-----------------------------------------------------------------------------
(* What a step does to the holders of descriptors.                         *)

LEMMA SwapHandle ==
    ASSUME TypeOK, NEW x \in Holders, NEW n, NEW t, NEW freed, NEW stray,
           Swap(x, n, t, freed, stray)
    PROVE  handle'[x] = n /\ \A y \in Holders \ {x} : handle'[y] = handle[y]
BY DEF Swap, TypeOK

LEMMA DiscardHandle ==
    ASSUME TypeOK, NEW x \in Holders, Discard(x)
    PROVE  handle'[x] = NoDesc /\ \A y \in Holders \ {x} : handle'[y] = handle[y]
<1>1. PICK freed \in BOOLEAN : Swap(x, NoDesc, NoTemp, freed, {})
  BY DEF Discard
<1>. QED
  BY <1>1, SwapHandle

LEMMA BindHandle ==
    ASSUME TypeOK, NEW p \in Params, Bind(p)
    PROVE  /\ \A y \in Holders \ {p} : handle'[y] = handle[y]
           /\ kind[p] \in JsonOutputs \union {"lobNullable"} => handle'[p] # NoDesc
<1>0. p \in Holders
  BY DEF Holders
<1>1. CASE BindJson(p)
  <2>1. PICK n \in Desc \ (alloc \ {handle[p]}), t \in Fresh, freed \in BOOLEAN :
          Swap(p, n, t, freed, {})
    BY <1>1 DEF BindJson
  <2>. QED
    BY <1>0, <1>1, <2>1, SwapHandle DEF BindJson, JsonOutputs
<1>2. CASE BindOutput(p)
  <2>1. CASE handle[p] = NoDesc
    <3>1. PICK n \in Desc \ alloc : Swap(p, n, NoTemp, TRUE, {})
      BY <1>2, <2>1 DEF BindOutput
    <3>2. handle'[p] = n /\ n # NoDesc /\ \A y \in Holders \ {p} : handle'[y] = handle[y]
      BY <1>0, <3>1, SwapHandle, HandleAssumption
    <3>. QED
      BY <3>2
  <2>2. CASE handle[p] # NoDesc
    BY <1>2, <2>2 DEF BindOutput, lobVars
  <2>. QED
    BY <2>1, <2>2
<1>3. CASE BindBorrowed(p)
  BY <1>3 DEF BindBorrowed, lobVars, JsonOutputs
<1>. QED
  BY <1>1, <1>2, <1>3 DEF Bind

(* A parameter that is bound or dropped, or a variable that nobody         *)
(* borrows, is nobody's target.                                            *)
LEMMA BorrowsKept ==
    ASSUME Shape, UNCHANGED paramVars, NEW x,
           \A y \in Holders \ {x} : handle'[y] = handle[y],
           \A p \in Params : kind[p] = "lobOut" => target[p] # x
    PROVE  Borrows'
<1>1. \A p \in Params : kind[p] = "lobOut" => target[p] \in Holders \ {x}
  BY DEF Shape, Borrows, LobOutputs, Holders
<1>. QED
  BY <1>1 DEF Shape, Borrows, paramVars

LEMMA BorrowsStep == Shape /\ Next => Borrows'
<1> SUFFICES ASSUME Shape, Next PROVE Borrows'
  OBVIOUS
<1>0. TypeOK /\ Borrows /\ Progressed
  BY DEF Shape
<1>a. ASSUME UNCHANGED <<handle, paramVars>> PROVE Borrows'
  BY <1>0, <1>a DEF Borrows, paramVars
<1>b. ASSUME NEW p \in Params PROVE \A q \in Params : kind[q] = "lobOut" => target[q] # p
  BY <1>0, HandleAssumption DEF Borrows, LobOutputs
<1>1. ASSUME NEW v \in Vars, NewTemporary(v) \/ NewOutput(v) \/ DropVar(v) PROVE Borrows'
  <2>0. v \in Holders /\ UNCHANGED paramVars
    BY <1>1 DEF Holders, NewTemporary, NewOutput, DropVar
  <2>1. \A y \in Holders \ {v} : handle'[y] = handle[y]
    <3>1. CASE NewTemporary(v)
      <4>1. PICK n \in Desc \ alloc, t \in Fresh : Swap(v, n, t, TRUE, {})
        BY <3>1 DEF NewTemporary
      <4>. QED
        BY <1>0, <2>0, <4>1, SwapHandle
    <3>2. CASE NewOutput(v)
      <4>1. PICK n \in Desc \ alloc : Swap(v, n, NoTemp, TRUE, {})
        BY <3>2 DEF NewOutput
      <4>. QED
        BY <1>0, <2>0, <4>1, SwapHandle
    <3>3. CASE DropVar(v)
      BY <1>0, <2>0, <3>3, DiscardHandle DEF DropVar
    <3>. QED
      BY <1>1, <3>1, <3>2, <3>3
  <2>2. \A q \in Params : kind[q] = "lobOut" => target[q] # v
    BY <1>1 DEF NewTemporary, NewOutput, DropVar, Borrowed
  <2>. QED
    BY <2>0, <2>1, <2>2, BorrowsKept
<1>4. ASSUME NEW p \in Params, NEW k \in Kinds, NEW v \in Vars \union {NoVar}, NewParam(p, k, v)
      PROVE  Borrows'
  <2>1. /\ kind[p] = "gone" /\ MayBorrow(k, v)
        /\ kind' = [kind EXCEPT ![p] = k]
        /\ target' = [target EXCEPT ![p] = v]
        /\ handle' = handle
    BY <1>4 DEF NewParam, lobVars
  <2>2. /\ k \in LobOutputs \union {"lobIn"} => v \in Vars
        /\ k \in LobOutputs => ~Borrowed(v)
        /\ k = "lobIn" => ~MutablyBorrowed(v)
        /\ k = "lobOut" => handle[v] # NoDesc
        /\ k \notin LobOutputs \union {"lobIn"} => v = NoVar
    BY <2>1, Zenon DEF MayBorrow, LobOutputs
  <2>3. \A q \in Params : kind'[q] = (IF q = p THEN k ELSE kind[q])
                          /\ target'[q] = (IF q = p THEN v ELSE target[q])
    BY <1>0, <2>1 DEF TypeOK
  <2>4. \A q \in Params : kind'[q] \in LobOutputs \union {"lobIn"} => target'[q] \in Vars
    BY <1>0, <2>2, <2>3 DEF Borrows
  <2>5. ASSUME NEW q \in Params, NEW r \in Params, kind'[q] \in LobOutputs, kind'[r] # "gone",
               target'[r] = target'[q]
        PROVE  q = r
    <3>1. CASE q = p /\ r # p
      BY <2>2, <2>3, <2>5, <3>1 DEF Borrowed
    <3>2. CASE q # p /\ r = p
      <4>1. kind[q] \in LobOutputs /\ target[q] \in Vars /\ v = target[q]
        BY <1>0, <2>3, <2>5, <3>2 DEF Borrows
      <4>2. Borrowed(v) /\ MutablyBorrowed(v) /\ v # NoVar
        BY <4>1, HandleAssumption DEF Borrowed, MutablyBorrowed, LobOutputs
      <4>. QED
        BY <2>2, <4>2
    <3>3. CASE q # p /\ r # p
      BY <1>0, <2>3, <2>5, <3>3 DEF Borrows
    <3>. QED
      BY <3>1, <3>2, <3>3
  <2>6. \A q \in Params : kind'[q] = "lobOut" => handle'[target'[q]] # NoDesc
    BY <1>0, <2>1, <2>2, <2>3 DEF Borrows
  <2>. QED
    BY <2>4, <2>5, <2>6 DEF Borrows
<1>5. ASSUME NEW p \in Params, DropParam(p) PROVE Borrows'
  <2>1. Discard(p) /\ p \in Holders /\ kind' = [kind EXCEPT ![p] = "gone"]
        /\ target' = [target EXCEPT ![p] = NoVar]
    BY <1>5 DEF DropParam, Holders
  <2>2. \A y \in Holders \ {p} : handle'[y] = handle[y]
    BY <1>0, <2>1, DiscardHandle
  <2>3. \A q \in Params : kind'[q] = (IF q = p THEN "gone" ELSE kind[q])
                          /\ target'[q] = (IF q = p THEN NoVar ELSE target[q])
    BY <1>0, <2>1 DEF TypeOK
  <2>4. \A q \in Params : kind'[q] = "lobOut" => target'[q] \in Holders \ {p} /\ target'[q] = target[q]
    BY <1>0, <1>b, <2>3 DEF Borrows, LobOutputs, Holders
  <2>. QED
    BY <1>0, <2>2, <2>3, <2>4 DEF Borrows, LobOutputs
<1>6. ASSUME NEW list \in SUBSET Params \ {{}}, StartCall(list) PROVE Borrows'
  BY <1>6, <1>a DEF StartCall, lobVars
<1>7. ASSUME NEW p \in Params, BindNext(p) PROVE Borrows'
  BY <1>0, <1>7, <1>b, BindHandle, BorrowsKept DEF BindNext
<1>8. ASSUME NEW p \in Params, BindFails(p) PROVE Borrows'
  <2>1. UNCHANGED paramVars /\ p \in Holders
    BY <1>8 DEF BindFails, CallFails, Holders
  <2>2. \A y \in Holders \ {p} : handle'[y] = handle[y]
    <3>1. CASE Bind(p)
      BY <1>0, <3>1, BindHandle
    <3>2. CASE \E freed \in BOOLEAN, stray \in {{}} \union {{t} : t \in Fresh} :
                 Swap(p, NoDesc, NoTemp, freed, stray)
      BY <1>0, <2>1, <3>2, SwapHandle
    <3>3. CASE UNCHANGED lobVars
      BY <3>3 DEF lobVars
    <3>. QED
      BY <1>8, <3>1, <3>2, <3>3 DEF BindFails
  <2>. QED
    BY <1>b, <2>1, <2>2, BorrowsKept
<1>9. ASSUME NEW p \in Params, CompleteNext(p) PROVE Borrows'
  <2>0. UNCHANGED paramVars /\ p \in Holders
    BY <1>9 DEF CompleteNext, Holders
  <2>1. CASE CompleteJson(p)
    BY <1>0, <1>b, <2>0, <2>1, DiscardHandle, BorrowsKept DEF CompleteJson
  <2>2. CASE CompleteNullable(p)
    <3>1. target[p] \in Vars /\ target[p] \in Holders /\ kind[p] = "lobNullable"
      BY <1>0, <2>2 DEF CompleteNullable, Borrows, LobOutputs, Holders
    <3>2. \A q \in Params : kind[q] = "lobOut" => target[q] # target[p] /\ target[q] # p
      BY <1>0, <1>b, <3>1 DEF Borrows, LobOutputs
    <3>3. \A y \in Holders \ {p, target[p]} : handle'[y] = handle[y]
      <4>1. CASE Discard(target[p])
        BY <1>0, <3>1, <4>1, DiscardHandle
      <4>2. ASSUME NEW freed \in BOOLEAN, Move(p, target[p], freed)
            PROVE  \A y \in Holders \ {p, target[p]} : handle'[y] = handle[y]
        BY <1>0, <3>1, <4>2 DEF Move, TypeOK
      <4>. QED
        BY <2>2, <4>1, <4>2 DEF CompleteNullable
    <3>4. \A q \in Params : kind[q] = "lobOut" => target[q] \in Holders \ {p, target[p]}
      BY <1>0, <3>2 DEF Borrows, LobOutputs, Holders
    <3>. QED
      BY <1>0, <2>0, <3>3, <3>4 DEF Borrows, paramVars
  <2>3. CASE CompleteInPlace(p)
    BY <1>a, <2>0, <2>3 DEF CompleteInPlace, lobVars
  <2>. QED
    BY <1>9, <2>1, <2>2, <2>3 DEF CompleteNext
<1>c. ASSUME WritesSome PROVE handle' = handle
  <2>1. PICK done, nulls, which, made : Wrote(done, nulls, which, made)
    BY <1>c, WritesSomeFacts
  <2>. QED
    BY <2>1, WriteFacts
<1>10. CASE Execute
  <2>1. WritesSome
    BY <1>10 DEF Execute, WritesSome
  <2>. QED
    BY <1>10, <1>a, <1>c, <2>1 DEF Execute
<1>11. CASE ExecuteFails
  <2>1. WritesSome
    BY <1>11 DEF ExecuteFails, WritesSome
  <2>. QED
    BY <1>11, <1>a, <1>c, <2>1 DEF ExecuteFails, CallFails
<1>12. CASE CompleteFails \/ Return
  BY <1>12, <1>a DEF CompleteFails, CallFails, Return, lobVars
<1>. QED
  BY <1>1, <1>4, <1>5, <1>6, <1>7, <1>8, <1>9, <1>10, <1>11, <1>12 DEF Next

LEMMA ProgressedStep == Shape /\ Next => Progressed'
<1> SUFFICES ASSUME Shape, Next PROVE Progressed'
  OBVIOUS
<1>0. TypeOK /\ Borrows /\ Progressed
  BY DEF Shape
<1>d. args \subseteq Params /\ todo \subseteq args
  BY <1>0 DEF TypeOK
<1>a. ASSUME phase' = "idle", args' = {}, todo' = {} PROVE Progressed'
  BY <1>a DEF Progressed
<1>b. ASSUME phase = "idle", UNCHANGED callVars PROVE Progressed'
  BY <1>0, <1>b DEF Progressed, callVars
<1>1. ASSUME NEW v \in Vars, NewTemporary(v) \/ NewOutput(v) \/ DropVar(v) PROVE Progressed'
  BY <1>1, <1>b DEF NewTemporary, NewOutput, DropVar
<1>4. ASSUME NEW p \in Params, NEW k \in Kinds, NEW v \in Vars \union {NoVar}, NewParam(p, k, v)
      PROVE  Progressed'
  BY <1>0, <1>4 DEF NewParam, Progressed
<1>5. ASSUME NEW p \in Params, DropParam(p) PROVE Progressed'
  BY <1>5, <1>b DEF DropParam
<1>6. ASSUME NEW list \in SUBSET Params \ {{}}, StartCall(list) PROVE Progressed'
  BY <1>6 DEF StartCall, Progressed, paramVars
<1>7. ASSUME NEW p \in Params, BindNext(p) PROVE Progressed'
  <2>1. /\ phase = "bind" /\ p \in todo /\ Bind(p)
        /\ phase' = IF todo = {p} THEN "execute" ELSE "bind"
        /\ todo' = todo \ {p}
        /\ UNCHANGED <<kind, args, calls>>
    BY <1>7 DEF BindNext, paramVars
  <2>2. \A q \in args \ todo' :
          kind'[q] \in JsonOutputs \union {"lobNullable"} => handle'[q] # NoDesc
    <3>1. /\ \A y \in Holders \ {p} : handle'[y] = handle[y]
          /\ kind[p] \in JsonOutputs \union {"lobNullable"} => handle'[p] # NoDesc
      BY <1>0, <1>7, <2>1, BindHandle
    <3>2. \A q \in args : q \in Holders
      BY <1>d DEF Holders
    <3>. QED
      BY <1>0, <2>1, <3>1, <3>2 DEF Progressed
  <2>3. phase' = "execute" => todo' = {}
    BY <2>1
  <2>4. phase' \in {"bind", "execute"} /\ calls' < MaxCalls
    BY <1>0, <2>1 DEF Progressed
  <2>. QED
    BY <1>0, <2>1, <2>2, <2>3, <2>4 DEF Progressed
<1>8. ASSUME NEW p \in Params, BindFails(p) PROVE Progressed'
  BY <1>8, <1>a DEF BindFails, CallFails
<1>9. ASSUME NEW p \in Params, CompleteNext(p) PROVE Progressed'
  <2>1. /\ phase = "complete" /\ p \in todo
        /\ todo' = todo \ {p}
        /\ UNCHANGED <<kind, target, phase, args, calls>>
    BY <1>9 DEF CompleteNext, paramVars
  <2>2. \A q \in todo' : kind[q] \in JsonOutputs \union {"lobNullable"} => handle'[q] = handle[q]
    <3>0. p \in Holders /\ \A q \in todo' : q \in Holders /\ q # p
      BY <1>d, <2>1 DEF Holders
    <3>1. CASE CompleteJson(p)
      BY <1>0, <3>0, <3>1, DiscardHandle DEF CompleteJson
    <3>2. CASE CompleteNullable(p)
      <4>1. target[p] \in Vars /\ target[p] \in Holders
        BY <1>0, <3>2 DEF CompleteNullable, Borrows, LobOutputs, Holders
      <4>2. \A q \in todo' : q # target[p]
        BY <1>d, <2>1, <4>1, HandleAssumption
      <4>3. CASE Discard(target[p])
        BY <1>0, <3>0, <4>1, <4>2, <4>3, DiscardHandle
      <4>4. ASSUME NEW freed \in BOOLEAN, Move(p, target[p], freed)
            PROVE  \A q \in todo' : handle'[q] = handle[q]
        BY <1>0, <3>0, <4>1, <4>2, <4>4 DEF Move, TypeOK
      <4>. QED
        BY <3>2, <4>3, <4>4 DEF CompleteNullable
    <3>3. CASE CompleteInPlace(p)
      BY <3>3 DEF CompleteInPlace, lobVars
    <3>. QED
      BY <1>9, <3>1, <3>2, <3>3 DEF CompleteNext
  <2>. QED
    BY <1>0, <2>1, <2>2 DEF Progressed
<1>c. ASSUME WritesSome PROVE handle' = handle
  <2>1. PICK done, nulls, which, made : Wrote(done, nulls, which, made)
    BY <1>c, WritesSomeFacts
  <2>. QED
    BY <2>1, WriteFacts
<1>10. CASE Execute
  <2>1. WritesSome
    BY <1>10 DEF Execute, WritesSome
  <2>2. phase = "execute" /\ phase' = "complete" /\ todo' = args /\ UNCHANGED <<kind, args>>
    BY <1>10 DEF Execute, paramVars
  <2>. QED
    BY <1>0, <1>c, <2>1, <2>2 DEF Progressed
<1>11. CASE ExecuteFails
  BY <1>11, <1>a DEF ExecuteFails, CallFails
<1>12. CASE CompleteFails
  BY <1>12, <1>a DEF CompleteFails, CallFails
<1>13. CASE Return
  BY <1>13, <1>a DEF Return
<1>. QED
  BY <1>1, <1>4, <1>5, <1>6, <1>7, <1>8, <1>9, <1>10, <1>11, <1>12, <1>13 DEF Next

LEMMA ShapeStep == Shape /\ [Next]_vars => Shape'
<1>1. ASSUME Shape, Next PROVE Shape'
  BY <1>1, TypeStep, BorrowsStep, ProgressedStep DEF Shape
<1>2. ASSUME Shape, UNCHANGED vars PROVE Shape'
  <2>1. TypeOK'
    BY <1>2, TypeStep
  <2>2. Borrows' /\ Progressed'
    BY <1>2 DEF Shape, Borrows, Progressed, vars, lobVars, paramVars, callVars
  <2>. QED
    BY <2>1, <2>2 DEF Shape
<1>. QED
  BY <1>1, <1>2

LEMMA ShapeInit == Init => Shape
<1> SUFFICES ASSUME Init PROVE Shape
  OBVIOUS
<1>1. LobTypes /\ ParamTypes /\ CallTypes /\ OtherTypes
  BY HandleAssumption DEF Init, LobTypes, ParamTypes, CallTypes, OtherTypes, Phases
<1>2. Borrows /\ Progressed
  BY DEF Init, Borrows, Progressed, LobOutputs
<1>. QED
  BY <1>1, <1>2, TypeParts DEF Shape

(* Every variable keeps its type, for any number of parameters and calls.  *)
THEOREM TypeCorrect == Spec => []TypeOK
<1>1. Shape => TypeOK
  BY DEF Shape
<1>. QED
  BY <1>1, ShapeInit, ShapeStep, PTL DEF Spec

-----------------------------------------------------------------------------
(* Descriptors have one holder.                                            *)

LEMMA HeldStep == Shape /\ DescriptorsHeld /\ LobStep => DescriptorsHeld'
<1> SUFFICES ASSUME Shape, DescriptorsHeld, LobStep PROVE DescriptorsHeld'
  OBVIOUS
<1>0. TypeOK /\ NoDesc \notin Desc
  BY HandleAssumption DEF Shape
<1>1. CASE UNCHANGED <<lobVars, replaced>>
  BY <1>1 DEF lobVars, DescriptorsHeld
<1>2. CASE Swaps
  <2>1. PICK x \in Holders, n \in Desc \union {NoDesc}, t \in Temps \union {NoTemp},
             freed \in BOOLEAN, stray \in SUBSET Temps :
               n \notin alloc \ {handle[x]} /\ Swap(x, n, t, freed, stray)
    BY <1>2 DEF Swaps
  <2>2. handle'[x] = n /\ \A y \in Holders \ {x} : handle'[y] = handle[y]
    BY <1>0, <2>1, SwapHandle
  <2>3. alloc' = (alloc \ {handle[x]}) \union ({n} \ {NoDesc})
    BY <2>1 DEF Swap
  <2>4. \A y \in Holders : handle[y] # NoDesc => handle[y] \in alloc
    BY DEF DescriptorsHeld
  <2>5. \A y \in Holders \ {x} : handle[y] # NoDesc => handle[y] # handle[x]
    BY DEF DescriptorsHeld
  <2>6. \A y \in Holders \ {x} : handle[y] # NoDesc => handle[y] # n
    BY <2>1, <2>4, <2>5
  <2>7. alloc' = {handle'[y] : y \in Holders} \ {NoDesc}
    BY <1>0, <2>2, <2>3, <2>4, <2>5 DEF DescriptorsHeld
  <2>8. \A y, z \in Holders : handle'[y] = handle'[z] /\ handle'[y] # NoDesc => y = z
    BY <2>2, <2>6 DEF DescriptorsHeld
  <2>. QED
    BY <2>7, <2>8 DEF DescriptorsHeld
<1>3. CASE Moves
  <2>1. PICK x \in Params, y \in Vars, freed \in BOOLEAN : Move(x, y, freed)
    BY <1>3 DEF Moves
  <2>2. x \in Holders /\ y \in Holders /\ x # y
    BY HandleAssumption DEF Holders
  <2>3. /\ handle'[y] = handle[x] /\ handle'[x] = NoDesc
        /\ \A z \in Holders \ {x, y} : handle'[z] = handle[z]
        /\ alloc' = alloc \ {handle[y]}
    BY <1>0, <2>1, <2>2 DEF Move, TypeOK
  <2>. QED
    BY <2>2, <2>3 DEF DescriptorsHeld
<1>4. CASE WritesSome
  <2>1. PICK done, nulls, which, made : Wrote(done, nulls, which, made)
    BY <1>4, WritesSomeFacts
  <2>2. UNCHANGED <<handle, alloc>>
    BY <2>1, WriteFacts
  <2>. QED
    BY <2>2 DEF DescriptorsHeld
<1>. QED
  BY <1>1, <1>2, <1>3, <1>4 DEF LobStep

LEMMA HeldInvariant ==
    /\ Init => Shape /\ DescriptorsHeld
    /\ Shape /\ DescriptorsHeld /\ [Next]_vars => (Shape /\ DescriptorsHeld)'
<1>1. Init => DescriptorsHeld
  BY DEF Init, DescriptorsHeld
<1>2. ASSUME Shape, DescriptorsHeld, [Next]_vars PROVE DescriptorsHeld'
  <2>1. CASE Next
    BY <1>2, <2>1, StepChangesLobs, HeldStep
  <2>2. CASE UNCHANGED vars
    BY <1>2, <2>2 DEF vars, lobVars, DescriptorsHeld
  <2>. QED
    BY <1>2, <2>1, <2>2
<1>. QED
  BY <1>1, <1>2, ShapeInit, ShapeStep

(* Every LOB descriptor of the client has exactly one owner, whichever     *)
(* calls fail and however parameters are reused.                           *)
THEOREM OneHolder == Spec => []DescriptorsHeld
BY HeldInvariant, PTL DEF Spec

-----------------------------------------------------------------------------
(* Temporary LOBs.                                                         *)

Lost == stranded \union replaced

TempInv == TemporariesAccounted /\ Lost \subseteq live

LEMMA HandlesAllocated ==
    ASSUME DescriptorsHeld, NEW x \in Holders, handle[x] # NoDesc
    PROVE  handle[x] \in alloc
BY DEF DescriptorsHeld

(* Outputs of one call write through different locators.                   *)
LEMMA LocatorsDiffer ==
    ASSUME Shape, DescriptorsHeld, phase = "execute",
           NEW p \in Outputs, NEW q \in Outputs, Locator(p) = Locator(q)
    PROVE  p = q
<1> DEFINE holder(r) == IF kind[r] = "lobOut" THEN target[r] ELSE r
<1>1. p \in Params /\ q \in Params
  BY DEF Outputs, Shape, TypeOK
<1>2. \A r \in {p, q} : holder(r) \in Holders
  BY <1>1 DEF Shape, Borrows, LobOutputs, Holders
<1>3. Locator(p) \in Desc /\ handle[holder(p)] = Locator(p) /\ handle[holder(q)] = Locator(q)
  BY LocatorInHolders
<1>4. Locator(p) # NoDesc
  BY <1>3, HandleAssumption
<1>5. holder(p) = holder(q)
  BY <1>2, <1>3, <1>4 DEF DescriptorsHeld
<1>6. CASE kind[p] = "lobOut" /\ kind[q] = "lobOut"
  BY <1>1, <1>5, <1>6 DEF Shape, Borrows, LobOutputs
<1>7. CASE kind[p] = "lobOut" /\ kind[q] # "lobOut"
  BY <1>1, <1>5, <1>7, HandleAssumption DEF Shape, Borrows, LobOutputs
<1>8. CASE kind[p] # "lobOut" /\ kind[q] = "lobOut"
  BY <1>1, <1>5, <1>8, HandleAssumption DEF Shape, Borrows, LobOutputs
<1>9. CASE kind[p] # "lobOut" /\ kind[q] # "lobOut"
  BY <1>5, <1>9
<1>. QED
  BY <1>6, <1>7, <1>8, <1>9

LEMMA SwapsTemp == Shape /\ DescriptorsHeld /\ TempInv /\ Swaps => TempInv'
<1> SUFFICES ASSUME Shape, DescriptorsHeld, TempInv, Swaps PROVE TempInv'
  OBVIOUS
<1>0. TypeOK /\ NoDesc \notin Desc /\ NoTemp \notin Temps
  BY HandleAssumption DEF Shape
<1>1. PICK x \in Holders, n \in Desc \union {NoDesc}, t \in Temps \union {NoTemp},
           freed \in BOOLEAN, stray \in SUBSET Temps :
             /\ n \notin alloc \ {handle[x]}
             /\ t \notin live
             /\ n = NoDesc => t = NoTemp
             /\ stray \intersect live = {} /\ t \notin stray
             /\ Swap(x, n, t, freed, stray)
             /\ UNCHANGED replaced
  BY DEF Swaps
<1> DEFINE old == handle[x]
           gone == Held(x)
<1>2. /\ alloc' = (alloc \ {old}) \union ({n} \ {NoDesc})
      /\ temp' = [d \in Desc |-> IF d = n THEN t ELSE IF d = old THEN NoTemp ELSE temp[d]]
      /\ live' = (IF freed THEN live \ {gone} ELSE live) \union (({t} \union stray) \ {NoTemp})
      /\ stranded' = stranded \union (((IF freed THEN {} ELSE {gone}) \union stray) \ {NoTemp})
      /\ replaced' = replaced
  BY <1>1 DEF Swap
<1>3. \/ old = NoDesc /\ gone = NoTemp
      \/ old \in alloc /\ old \in Desc /\ gone = temp[old]
  <2>1. x \in Holders /\ old \in Desc \union {NoDesc} /\ (old = NoDesc => gone = NoTemp)
    BY <1>0 DEF Held, TempOf, TypeOK, Holders
  <2>2. CASE old # NoDesc
    <3>1. old \in alloc
      BY <2>1, <2>2, HandlesAllocated
    <3>. QED
      BY <2>1, <2>2, <3>1 DEF Held, TempOf
  <2>. QED
    BY <2>1, <2>2
<1>4. gone = NoTemp \/ gone \in live \ Lost
  BY <1>3 DEF TempInv, TemporariesAccounted, Lost
<1>5. ASSUME NEW d \in alloc \ {old}
      PROVE  d \in Desc /\ d # n /\ temp'[d] = temp[d] /\ (temp[d] = NoTemp \/ temp[d] # gone)
  <2>1. d \in Desc /\ d # n
    BY <1>0, <1>1 DEF TypeOK
  <2>2. temp'[d] = temp[d]
    BY <1>2, <2>1
  <2>3. temp[d] = NoTemp \/ temp[d] # gone
    BY <1>3 DEF TempInv, TemporariesAccounted
  <2>. QED
    BY <2>1, <2>2, <2>3
<1>6. n # NoDesc => n \in Desc /\ temp'[n] = t
  BY <1>2
<1>7. (Lost \subseteq live)'
  <2>1. stranded \union replaced \subseteq live /\ NoTemp \notin live
    BY <1>0 DEF TempInv, Lost, TypeOK
  <2>. QED
    BY <1>2, <1>4, <2>1 DEF Lost
<1>8. ASSUME NEW u \in live' \ (stranded' \union replaced') PROVE \E d \in alloc' : temp'[d] = u
  <2>0. u # NoTemp
    BY <1>0, <1>1, <1>2 DEF TypeOK
  <2>1. CASE u \in live
    <3>1. u # gone
      BY <1>2, <1>8, <1>1, <2>0, <2>1
    <3>2. u \notin stranded \union replaced
      BY <1>2, <1>8
    <3>3. PICK d \in alloc : temp[d] = u
      BY <2>1, <3>2 DEF TempInv, TemporariesAccounted
    <3>4. d # old
      BY <1>3, <3>1, <3>3, <1>0 DEF TypeOK
    <3>. QED
      BY <1>2, <1>5, <3>3, <3>4
  <2>2. CASE u \notin live
    <3>1. u \in {t} \union stray
      BY <1>2, <1>8, <2>2
    <3>2. u \notin stray
      BY <1>2, <1>8, <2>0
    <3>3. u = t /\ n # NoDesc
      BY <1>1, <2>0, <3>1, <3>2
    <3>. QED
      BY <1>2, <1>6, <3>3
  <2>. QED
    BY <2>1, <2>2
<1>9. ASSUME NEW d \in alloc', temp'[d] # NoTemp
      PROVE  temp'[d] \in live' \ (stranded' \union replaced')
  <2>1. CASE d = n
    <3>1. temp'[d] = t /\ t # NoTemp
      BY <1>0, <1>2, <1>6, <1>9, <2>1 DEF TypeOK
    <3>2. t \in live'
      BY <1>2, <3>1
    <3>3. t \notin stranded \union replaced /\ t # gone /\ t \notin stray
      BY <1>1, <1>4, <3>1 DEF TempInv, Lost
    <3>. QED
      BY <1>2, <3>1, <3>2, <3>3
  <2>2. CASE d # n
    <3>1. d \in alloc \ {old}
      BY <1>2, <2>2
    <3>2. temp[d] = temp'[d] /\ temp[d] # gone
      BY <1>5, <1>9, <3>1
    <3>3. temp[d] \in live \ (stranded \union replaced)
      BY <1>9, <3>1, <3>2 DEF TempInv, TemporariesAccounted
    <3>. QED
      BY <1>1, <1>2, <3>2, <3>3
  <2>. QED
    BY <2>1, <2>2
<1>10. ASSUME NEW d \in alloc', NEW e \in alloc', temp'[d] = temp'[e], temp'[d] # NoTemp
       PROVE  d = e
  <2>1. ASSUME NEW f \in alloc', f # n, temp'[f] # NoTemp PROVE f \in alloc /\ temp'[f] = temp[f] /\ temp[f] \in live
    <3>1. f \in alloc \ {old}
      BY <1>2, <2>1
    <3>. QED
      BY <1>5, <2>1, <3>1 DEF TempInv, TemporariesAccounted
  <2>2. ASSUME NEW f \in alloc', f = n PROVE temp'[f] \notin live
    BY <1>0, <1>1, <1>2, <1>6, <2>2 DEF TypeOK
  <2>. QED
    BY <1>10, <2>1, <2>2 DEF TempInv, TemporariesAccounted
<1>. QED
  BY <1>7, <1>8, <1>9, <1>10 DEF TempInv, TemporariesAccounted

LEMMA MovesTemp == Shape /\ DescriptorsHeld /\ TempInv /\ Moves => TempInv'
<1> SUFFICES ASSUME Shape, DescriptorsHeld, TempInv, Moves PROVE TempInv'
  OBVIOUS
<1>0. TypeOK /\ NoDesc \notin Desc /\ NoTemp \notin Temps
  BY HandleAssumption DEF Shape
<1>1. PICK x \in Params, y \in Vars, freed \in BOOLEAN : Move(x, y, freed) /\ UNCHANGED replaced
  BY DEF Moves
<1> DEFINE old == handle[y]
           gone == Held(y)
<1>2. /\ alloc' = alloc \ {old}
      /\ temp' = [d \in Desc |-> IF d = old THEN NoTemp ELSE temp[d]]
      /\ live' = IF freed THEN live \ {gone} ELSE live
      /\ stranded' = stranded \union (IF freed THEN {} ELSE {gone} \ {NoTemp})
      /\ replaced' = replaced
  BY <1>1 DEF Move
<1>3. \/ old = NoDesc /\ gone = NoTemp
      \/ old \in alloc /\ old \in Desc /\ gone = temp[old]
  <2>1. y \in Holders /\ old \in Desc \union {NoDesc} /\ (old = NoDesc => gone = NoTemp)
    BY <1>0 DEF Held, TempOf, TypeOK, Holders
  <2>2. CASE old # NoDesc
    <3>1. old \in alloc
      BY <2>1, <2>2, HandlesAllocated
    <3>. QED
      BY <2>1, <2>2, <3>1 DEF Held, TempOf
  <2>. QED
    BY <2>1, <2>2
<1>4. gone = NoTemp \/ gone \in live \ Lost
  BY <1>3 DEF TempInv, TemporariesAccounted, Lost
<1>5. ASSUME NEW d \in alloc'
      PROVE  d \in alloc /\ d # old /\ temp'[d] = temp[d] /\ (temp[d] = NoTemp \/ temp[d] # gone)
  <2>1. d \in Desc /\ d \in alloc /\ d # old
    BY <1>0, <1>2 DEF TypeOK
  <2>. QED
    BY <1>2, <1>3, <2>1 DEF TempInv, TemporariesAccounted
<1>6. (Lost \subseteq live)'
  <2>1. stranded \union replaced \subseteq live /\ NoTemp \notin live
    BY <1>0 DEF TempInv, Lost, TypeOK
  <2>. QED
    BY <1>2, <1>4, <2>1 DEF Lost
<1>7. ASSUME NEW u \in live' \ (stranded' \union replaced') PROVE \E d \in alloc' : temp'[d] = u
  <2>1. u \in live \ (stranded \union replaced) /\ u # NoTemp
    BY <1>0, <1>2, <1>7 DEF TypeOK
  <2>2. u # gone
    BY <1>2, <1>7, <2>1
  <2>3. PICK d \in alloc : temp[d] = u
    BY <2>1 DEF TempInv, TemporariesAccounted
  <2>4. d # old
    BY <1>0, <1>3, <2>2, <2>3 DEF TypeOK
  <2>. QED
    BY <1>2, <1>5, <2>3, <2>4
<1>8. ASSUME NEW d \in alloc', temp'[d] # NoTemp
      PROVE  temp'[d] \in live' \ (stranded' \union replaced')
  <2>1. temp'[d] = temp[d] /\ temp[d] # gone /\ temp[d] \in live \ (stranded \union replaced)
    BY <1>5, <1>8 DEF TempInv, TemporariesAccounted
  <2>. QED
    BY <1>2, <2>1
<1>9. \A d, e \in alloc' : temp'[d] = temp'[e] /\ temp'[d] # NoTemp => d = e
  BY <1>5 DEF TempInv, TemporariesAccounted
<1>. QED
  BY <1>6, <1>7, <1>8, <1>9 DEF TempInv, TemporariesAccounted

LEMMA WritesTemp == Shape /\ DescriptorsHeld /\ TempInv /\ WritesSome => TempInv'
<1> SUFFICES ASSUME Shape, DescriptorsHeld, TempInv, WritesSome PROVE TempInv'
  OBVIOUS
<1>0. TypeOK /\ NoDesc \notin Desc /\ NoTemp \notin Temps
  BY HandleAssumption DEF Shape
<1>1. PICK done, nulls, which, made : Wrote(done, nulls, which, made)
  BY WritesSomeFacts
<1>2. /\ done \subseteq Outputs /\ which \subseteq done \ nulls
      /\ made \in [which -> Fresh] /\ phase = "execute"
      /\ \A p, q \in which : made[p] = made[q] => p = q
  BY <1>1 DEF Wrote
<1>3. /\ alloc' = alloc /\ stranded' = stranded
      /\ live' = live \union {made[p] : p \in which}
      /\ replaced' = replaced \union ({temp[Locator(p)] : p \in done \ nulls} \ {NoTemp})
  BY <1>1, WriteFacts
<1>4. ASSUME NEW d \in Desc
      PROVE  \/ temp'[d] = temp[d] /\ \A p \in done \ nulls : Locator(p) # d
             \/ /\ \E p \in done \ nulls : Locator(p) = d
                /\ \/ temp'[d] = NoTemp /\ \A p \in which : Locator(p) # d
                   \/ \E p \in which : Locator(p) = d /\ temp'[d] = made[p]
  BY <1>1, WriteFacts
<1>5. ASSUME NEW p \in done PROVE Locator(p) \in alloc /\ Locator(p) \in Desc
  <2>1. p \in Outputs /\ p \in Params
    BY <1>0, <1>2 DEF Outputs, TypeOK
  <2>2. Locator(p) \in Desc
    BY <1>2, <2>1, LocatorInHolders
  <2>3. Locator(p) = handle[IF kind[p] = "lobOut" THEN target[p] ELSE p]
    BY DEF Locator
  <2>4. (IF kind[p] = "lobOut" THEN target[p] ELSE p) \in Holders
    BY <2>1 DEF Shape, Borrows, LobOutputs, Holders
  <2>. QED
    BY <1>0, <2>2, <2>3, <2>4, HandlesAllocated
<1>6. \A p \in which : made[p] \in Temps /\ made[p] \notin live
  BY <1>2 DEF Fresh
<1>7. \A p \in done \ nulls : temp[Locator(p)] # NoTemp => temp[Locator(p)] \in live
  BY <1>5 DEF TempInv, TemporariesAccounted
<1>8. (Lost \subseteq live)'
  BY <1>3, <1>7 DEF TempInv, Lost
<1>9. ASSUME NEW u \in live' \ (stranded' \union replaced') PROVE \E d \in alloc' : temp'[d] = u
  <2>1. CASE u \in live
    <3>1. u \notin stranded \union replaced /\ u # NoTemp
      BY <1>0, <1>3, <1>9, <2>1 DEF TypeOK
    <3>2. PICK d \in alloc : temp[d] = u
      BY <2>1, <3>1 DEF TempInv, TemporariesAccounted
    <3>3. \A p \in done \ nulls : Locator(p) # d
      BY <1>3, <1>9, <3>1, <3>2
    <3>4. d \in Desc
      BY <1>0 DEF TypeOK
    <3>. QED
      BY <1>3, <1>4, <3>2, <3>3, <3>4
  <2>2. CASE u \notin live
    <3>1. PICK p \in which : made[p] = u
      BY <1>3, <1>9, <2>2
    <3>2. Locator(p) \in alloc /\ Locator(p) \in Desc /\ p \in done \ nulls /\ p \in Outputs
      BY <1>2, <1>5
    <3>3. PICK q \in which : Locator(q) = Locator(p) /\ temp'[Locator(p)] = made[q]
      BY <1>4, <3>2
    <3>4. q = p
      BY <1>2, <3>2, <3>3, LocatorsDiffer
    <3>. QED
      BY <1>3, <3>1, <3>2, <3>3, <3>4
  <2>. QED
    BY <2>1, <2>2
<1>10. ASSUME NEW d \in alloc', temp'[d] # NoTemp
       PROVE  \/ temp'[d] = temp[d] /\ temp[d] \in live \ Lost /\ \A p \in done \ nulls : Locator(p) # d
              \/ \E p \in which : Locator(p) = d /\ temp'[d] = made[p]
  <2>1. d \in Desc /\ d \in alloc
    BY <1>0, <1>3 DEF TypeOK
  <2>. QED
    BY <1>4, <1>10, <2>1 DEF TempInv, TemporariesAccounted, Lost
<1>11. ASSUME NEW d \in alloc', temp'[d] # NoTemp
       PROVE  temp'[d] \in live' \ (stranded' \union replaced')
  <2>1. CASE temp'[d] = temp[d] /\ temp[d] \in live \ Lost /\ \A p \in done \ nulls : Locator(p) # d
    <3>1. d \in alloc
      BY <1>3
    <3>2. \A p \in done \ nulls : temp[Locator(p)] # temp[d]
      BY <1>5, <1>11, <2>1, <3>1 DEF TempInv, TemporariesAccounted
    <3>. QED
      BY <1>3, <2>1, <3>2 DEF Lost
  <2>2. CASE \E p \in which : Locator(p) = d /\ temp'[d] = made[p]
    <3>1. PICK p \in which : temp'[d] = made[p]
      BY <2>2
    <3>2. made[p] \in live' /\ made[p] \notin live
      BY <1>3, <1>6
    <3>3. Lost \subseteq live
      BY DEF TempInv
    <3>. QED
      BY <1>3, <1>7, <3>1, <3>2, <3>3 DEF Lost
  <2>. QED
    BY <1>10, <1>11, <2>1, <2>2
<1>12. ASSUME NEW d \in alloc', NEW e \in alloc', temp'[d] = temp'[e], temp'[d] # NoTemp
       PROVE  d = e
  <2>1. CASE temp'[d] = temp[d] /\ temp'[e] = temp[e]
    BY <1>3, <1>12, <2>1 DEF TempInv, TemporariesAccounted
  <2>2. \A f \in {d, e} :
          \/ temp'[f] = temp[f] /\ temp'[f] \in live
          \/ \E p \in which : Locator(p) = f /\ temp'[f] = made[p]
    BY <1>10, <1>12
  <2>3. CASE temp'[d] \notin live
    BY <1>2, <1>12, <2>2, <2>3
  <2>4. CASE temp'[d] \in live
    <3>1. \A p \in which : made[p] # temp'[d]
      BY <1>6, <2>4
    <3>. QED
      BY <1>12, <2>1, <2>2, <3>1
  <2>. QED
    BY <2>3, <2>4
<1>. QED
  BY <1>8, <1>9, <1>11, <1>12 DEF TempInv, TemporariesAccounted

LEMMA TempInvariant ==
    /\ Init => TempInv
    /\ Shape /\ DescriptorsHeld /\ TempInv /\ [Next]_vars => TempInv'
<1>1. Init => TempInv
  BY DEF Init, TempInv, TemporariesAccounted, Lost
<1>2. ASSUME Shape, DescriptorsHeld, TempInv, Next PROVE TempInv'
  <2>1. LobStep
    BY <1>2, StepChangesLobs
  <2>2. CASE UNCHANGED <<lobVars, replaced>>
    BY <1>2, <2>2 DEF lobVars, TempInv, TemporariesAccounted, Lost
  <2>. QED
    BY <1>2, <2>1, <2>2, SwapsTemp, MovesTemp, WritesTemp DEF LobStep
<1>3. ASSUME TempInv, UNCHANGED vars PROVE TempInv'
  BY <1>3 DEF vars, lobVars, TempInv, TemporariesAccounted, Lost
<1>. QED
  BY <1>1, <1>2, <1>3

(* A temporary LOB on the server is reached through one locator, until it  *)
(* is released; it is left behind only when every release of it failed, or *)
(* when yacExecute wrote over its locator.                                 *)
THEOREM NoTemporaryForgotten == Spec => []TemporariesAccounted
<1>1. TempInv => TemporariesAccounted
  BY DEF TempInv
<1>. QED
  BY <1>1, HeldInvariant, TempInvariant, PTL DEF Spec

-----------------------------------------------------------------------------
(* What the parameters of a call hold.                                     *)

Base == Shape /\ DescriptorsHeld /\ TempInv

LEMMA BaseInvariant ==
    /\ Init => Base
    /\ Base /\ [Next]_vars => Base'
BY HeldInvariant, TempInvariant DEF Base

(* The temporary of a holder other than x is not touched.                  *)
LEMMA SwapOthers ==
    ASSUME Base, NEW x \in Holders, NEW n \in Desc \union {NoDesc}, NEW t, NEW freed, NEW stray,
           n \notin alloc \ {handle[x]}, Swap(x, n, t, freed, stray),
           NEW y \in Holders, y # x
    PROVE  /\ handle'[y] = handle[y] /\ Held(y)' = Held(y)
           /\ Held(y) \in live => Held(y)' \in live'
<1>0. TypeOK /\ NoDesc \notin Desc /\ NoTemp \notin Temps /\ DescriptorsHeld /\ TemporariesAccounted
  BY HandleAssumption DEF Base, Shape, TempInv
<1>1. handle'[y] = handle[y]
  BY <1>0, SwapHandle
<1>2. CASE handle[y] = NoDesc
  BY <1>0, <1>1, <1>2 DEF Held, TempOf, TypeOK
<1>3. CASE handle[y] # NoDesc
  <2>1. handle[y] \in alloc /\ handle[y] \in Desc
    BY <1>0, <1>3, HandlesAllocated DEF TypeOK
  <2>2. handle[y] # handle[x] /\ handle[y] # n
    BY <1>0, <1>3, <2>1 DEF DescriptorsHeld
  <2>3. temp'[handle[y]] = temp[handle[y]]
    BY <2>1, <2>2 DEF Swap
  <2>4. Held(y) = temp[handle[y]] /\ Held(y)' = temp[handle[y]]
    BY <1>1, <1>3, <2>3 DEF Held, TempOf
  <2>5. ASSUME temp[handle[y]] \in live PROVE temp[handle[y]] # Held(x)
    <3>1. temp[handle[y]] # NoTemp
      BY <1>0, <2>5 DEF TypeOK
    <3>2. CASE handle[x] = NoDesc
      BY <3>1, <3>2 DEF Held, TempOf
    <3>3. CASE handle[x] # NoDesc
      BY <1>0, <2>1, <2>2, <3>1, <3>3, HandlesAllocated DEF Held, TempOf, TemporariesAccounted
    <3>. QED
      BY <3>2, <3>3
  <2>6. live \ {Held(x)} \subseteq live'
    BY DEF Swap
  <2>. QED
    BY <1>1, <2>4, <2>5, <2>6
<1>. QED
  BY <1>2, <1>3

(* Binding a parameter leaves what the others hold.                        *)
LEMMA BindOthers ==
    ASSUME Base, NEW p \in Params, Bind(p), NEW y \in Holders, y # p
    PROVE  /\ handle'[y] = handle[y] /\ Held(y)' = Held(y)
           /\ Held(y) \in live => Held(y)' \in live' /\ written'[Held(y)] = written[Held(y)]
<1>0. p \in Holders /\ TypeOK /\ NoDesc \notin Desc
  BY HandleAssumption DEF Holders, Base, Shape
<1>1. CASE BindJson(p)
  <2>1. PICK n \in Desc \ (alloc \ {handle[p]}), t \in Fresh, freed \in BOOLEAN :
          Swap(p, n, t, freed, {}) /\ written' = [written EXCEPT ![t] = 1]
    BY <1>1 DEF BindJson
  <2>2. /\ handle'[y] = handle[y] /\ Held(y)' = Held(y)
        /\ Held(y) \in live => Held(y)' \in live'
    BY <1>0, <2>1, SwapOthers
  <2>3. Held(y) \in live => written'[Held(y)] = written[Held(y)]
    BY <1>0, <2>1 DEF Fresh, TypeOK
  <2>. QED
    BY <2>2, <2>3
<1>2. CASE BindOutput(p)
  <2>1. CASE handle[p] = NoDesc
    <3>1. PICK n \in Desc \ alloc : Swap(p, n, NoTemp, TRUE, {})
      BY <1>2, <2>1 DEF BindOutput
    <3>2. /\ handle'[y] = handle[y] /\ Held(y)' = Held(y)
          /\ Held(y) \in live => Held(y)' \in live'
      BY <1>0, <3>1, SwapOthers
    <3>. QED
      BY <1>2, <3>2 DEF BindOutput
  <2>2. CASE handle[p] # NoDesc
    BY <1>2, <2>2 DEF BindOutput, lobVars, Held, TempOf
  <2>. QED
    BY <2>1, <2>2
<1>3. CASE BindBorrowed(p)
  BY <1>3 DEF BindBorrowed, lobVars, Held, TempOf
<1>. QED
  BY <1>1, <1>2, <1>3 DEF Bind

(* Strengthening of JsonSentOnce: what is bound keeps its LOB.             *)
JsonInv ==
    phase \in {"bind", "execute"} =>
        \A p \in args \ todo : kind[p] = "jsonIn" => Held(p) \in live /\ written[Held(p)] = 1

LEMMA JsonStep == Base /\ JsonInv /\ [Next]_vars => JsonInv'
<1> SUFFICES ASSUME Base, JsonInv, [Next]_vars PROVE JsonInv'
  OBVIOUS
<1>0. TypeOK /\ Progressed
  BY DEF Base, Shape
<1>a. ASSUME phase' \in {"idle", "complete"} PROVE JsonInv'
  BY <1>a DEF JsonInv
<1>1. ASSUME NEW v \in Vars, NewTemporary(v) \/ NewOutput(v) \/ DropVar(v) PROVE JsonInv'
  BY <1>1, <1>a DEF NewTemporary, NewOutput, DropVar, callVars
<1>4. ASSUME NEW p \in Params, NEW k \in Kinds, NEW v \in Vars \union {NoVar}, NewParam(p, k, v)
      PROVE  JsonInv'
  BY <1>4, <1>a DEF NewParam
<1>5. ASSUME NEW p \in Params, DropParam(p) PROVE JsonInv'
  BY <1>5, <1>a DEF DropParam, callVars
<1>6. ASSUME NEW list \in SUBSET Params \ {{}}, StartCall(list) PROVE JsonInv'
  BY <1>6 DEF StartCall, JsonInv
<1>7. ASSUME NEW p \in Params, BindNext(p) PROVE JsonInv'
  <2>1. /\ phase = "bind" /\ p \in todo /\ Bind(p)
        /\ todo' = todo \ {p}
        /\ UNCHANGED <<kind, args>>
    BY <1>7 DEF BindNext, paramVars
  <2>2. ASSUME NEW q \in args \ todo, kind[q] = "jsonIn"
        PROVE  Held(q)' \in live' /\ written'[Held(q)'] = 1
    <3>1. q \in Holders /\ q # p /\ Held(q) \in live /\ written[Held(q)] = 1
      BY <1>0, <2>1, <2>2 DEF TypeOK, Holders, JsonInv
    <3>. QED
      BY <2>1, <3>1, BindOthers
  <2>3. ASSUME kind[p] = "jsonIn"
        PROVE  Held(p)' \in live' /\ written'[Held(p)'] = 1
    <3>1. BindJson(p)
      BY <2>1, <2>3 DEF Bind, BindOutput, BindBorrowed, JsonOutputs
    <3>2. PICK n \in Desc \ (alloc \ {handle[p]}), t \in Fresh, freed \in BOOLEAN :
            Swap(p, n, t, freed, {}) /\ written' = [written EXCEPT ![t] = 1]
      BY <3>1 DEF BindJson
    <3>3. handle'[p] = n /\ temp'[n] = t /\ n # NoDesc /\ t # NoTemp /\ t \in Temps
      <4>1. p \in Holders /\ handle'[p] = n
        BY <1>0, <3>2, SwapHandle DEF Holders
      <4>2. temp'[n] = t
        BY <3>2 DEF Swap
      <4>. QED
        BY <4>1, <4>2, HandleAssumption DEF Fresh
    <3>4. Held(p)' = t
      BY <3>3 DEF Held, TempOf
    <3>5. t \in live'
      BY <3>2, <3>3 DEF Swap
    <3>. QED
      BY <1>0, <3>2, <3>3, <3>4, <3>5 DEF TypeOK
  <2>. QED
    BY <2>1, <2>2, <2>3 DEF JsonInv
<1>8. ASSUME NEW p \in Params, BindFails(p) PROVE JsonInv'
  BY <1>8, <1>a DEF BindFails, CallFails
<1>9. ASSUME NEW p \in Params, CompleteNext(p) PROVE JsonInv'
  BY <1>9, <1>a DEF CompleteNext
<1>10. CASE Execute \/ ExecuteFails \/ CompleteFails \/ Return
  BY <1>10, <1>a DEF Execute, ExecuteFails, CompleteFails, CallFails, Return
<1>11. CASE UNCHANGED vars
  BY <1>11 DEF vars, lobVars, callVars, paramVars, JsonInv, Held, TempOf
<1>. QED
  BY <1>1, <1>4, <1>5, <1>6, <1>7, <1>8, <1>9, <1>10, <1>11 DEF Next

(* However often a JSON input is used, and whatever failed before, the     *)
(* server gets its value in a LOB of its own, once.                        *)
THEOREM JsonOnce == Spec => []JsonSentOnce
<1>1. Init => JsonInv
  BY DEF Init, JsonInv
<1>2. Base /\ JsonInv => JsonSentOnce
  BY DEF Base, Shape, Progressed, JsonInv, JsonSentOnce
<1>. QED
  BY <1>1, <1>2, BaseInvariant, JsonStep, PTL DEF Spec

(* yacExecute writes to no parameter's own locator but those of outputs.   *)
LEMMA WriteHeld ==
    ASSUME Base, NEW done, NEW nulls, NEW which, NEW made, Wrote(done, nulls, which, made),
           NEW p \in Params
    PROVE  handle'[p] = handle[p] /\ (Held(p)' = Held(p) \/ p \in done \ nulls)
<1>0. /\ TypeOK /\ Borrows /\ DescriptorsHeld /\ NoDesc \notin Desc /\ p \in Holders
      /\ Shape /\ phase = "execute" /\ done \subseteq Outputs
  BY HandleAssumption DEF Base, Shape, Holders, Wrote
<1>1. handle' = handle
  BY <1>0, WriteFacts
<1>2. CASE handle[p] = NoDesc
  BY <1>1, <1>2 DEF Held, TempOf
<1>3. CASE handle[p] # NoDesc /\ \A q \in done \ nulls : Locator(q) # handle[p]
  <2>1. handle[p] \in Desc
    BY <1>0, <1>3 DEF TypeOK
  <2>2. temp'[handle[p]] = temp[handle[p]]
    BY <1>0, <1>3, <2>1, WriteFacts
  <2>. QED
    BY <1>1, <2>2 DEF Held, TempOf
<1>4. CASE handle[p] # NoDesc /\ \E q \in done \ nulls : Locator(q) = handle[p]
  <2>1. PICK q \in done \ nulls : Locator(q) = handle[p]
    BY <1>4
  <2>2. q \in Outputs /\ q \in Params
    BY <1>0 DEF Outputs, TypeOK
  <2>3. kind[q] = "lobOut" => target[q] \in Vars
    BY <1>0, <2>2 DEF Borrows, LobOutputs
  <2>4. (IF kind[q] = "lobOut" THEN target[q] ELSE q) \in Holders
    BY <2>2, <2>3 DEF Holders
  <2>5. (IF kind[q] = "lobOut" THEN target[q] ELSE q) = p
    BY <1>0, <1>4, <2>1, <2>4 DEF Locator, DescriptorsHeld
  <2>6. q = p
    BY <2>3, <2>5, HandleAssumption
  <2>. QED
    BY <1>1, <2>6
<1>. QED
  BY <1>2, <1>3, <1>4

(* Strengthening of CleanUnlessFailed, for all times: also between calls,  *)
(* and for a parameter that is made anew.                                  *)
CleanInv ==
    /\ \A p \in Params : kind[p] = "gone" => handle[p] = NoDesc
    /\ \A p \in Params :
         kind[p] \in JsonOutputs \union {"lobNullable"} /\ Held(p) # NoTemp =>
             p \in failed \/ (phase = "complete" /\ p \in todo \ null)

LEMMA CleanStep == Base /\ CleanInv /\ [Next]_vars => CleanInv'
<1> SUFFICES ASSUME Base, CleanInv, [Next]_vars PROVE CleanInv'
  OBVIOUS
<1>0. /\ TypeOK /\ Progressed /\ Borrows /\ NoDesc \notin Desc
      /\ args \subseteq Params /\ todo \subseteq args /\ Params \subseteq Holders
  BY HandleAssumption DEF Base, Shape, TypeOK, Holders
<1>a. ASSUME UNCHANGED <<kind, failed, phase, todo, null>>,
             \A p \in Params : handle'[p] = handle[p] /\ Held(p)' = Held(p)
      PROVE  CleanInv'
  BY <1>a DEF CleanInv
<1>1. ASSUME NEW v \in Vars, NewTemporary(v) \/ NewOutput(v) \/ DropVar(v) PROVE CleanInv'
  <2>1. UNCHANGED <<kind, failed, phase, todo, null>> /\ v \in Holders
        /\ \A p \in Params : p # v
    BY <1>1, HandleAssumption DEF NewTemporary, NewOutput, DropVar, callVars, paramVars, Holders
  <2>2. CASE NewTemporary(v)
    <3>1. PICK n \in Desc \ alloc, t \in Fresh : Swap(v, n, t, TRUE, {})
      BY <2>2 DEF NewTemporary
    <3>. QED
      BY <1>0, <1>a, <2>1, <3>1, SwapOthers
  <2>3. CASE NewOutput(v)
    <3>1. PICK n \in Desc \ alloc : Swap(v, n, NoTemp, TRUE, {})
      BY <2>3 DEF NewOutput
    <3>. QED
      BY <1>0, <1>a, <2>1, <3>1, SwapOthers
  <2>4. CASE DropVar(v)
    <3>1. PICK freed \in BOOLEAN : Swap(v, NoDesc, NoTemp, freed, {})
      BY <2>4 DEF DropVar, Discard
    <3>2. NoDesc \notin alloc
      BY <1>0 DEF TypeOK
    <3>. QED
      BY <1>0, <1>a, <2>1, <3>1, <3>2, SwapOthers
  <2>. QED
    BY <1>1, <2>2, <2>3, <2>4
<1>4. ASSUME NEW p \in Params, NEW k \in Kinds, NEW v \in Vars \union {NoVar}, NewParam(p, k, v)
      PROVE  CleanInv'
  <2>1. /\ kind[p] = "gone" /\ kind' = [kind EXCEPT ![p] = k]
        /\ failed' = failed \ {p}
        /\ UNCHANGED <<lobVars, phase, todo, null>>
    BY <1>4 DEF NewParam
  <2>2. Held(p) = NoTemp /\ handle[p] = NoDesc
    BY <2>1 DEF CleanInv, Held, TempOf
  <2>3. \A q \in Params : handle'[q] = handle[q] /\ Held(q)' = Held(q)
    BY <2>1 DEF lobVars, Held, TempOf
  <2>. QED
    BY <1>0, <2>1, <2>2, <2>3 DEF CleanInv, TypeOK
<1>5. ASSUME NEW p \in Params, DropParam(p) PROVE CleanInv'
  <2>1. PICK freed \in BOOLEAN : Swap(p, NoDesc, NoTemp, freed, {})
    BY <1>5 DEF DropParam, Discard
  <2>2. /\ kind' = [kind EXCEPT ![p] = "gone"]
        /\ UNCHANGED <<failed, phase, todo, null>>
    BY <1>5 DEF DropParam, callVars
  <2>3. handle'[p] = NoDesc
    BY <1>0, <2>1, SwapHandle
  <2>4. NoDesc \notin alloc
    BY <1>0 DEF TypeOK
  <2>5. \A q \in Params \ {p} : handle'[q] = handle[q] /\ Held(q)' = Held(q)
    BY <1>0, <2>1, <2>4, SwapOthers
  <2>. QED
    BY <1>0, <2>2, <2>3, <2>5 DEF CleanInv, TypeOK, JsonOutputs
<1>6. ASSUME NEW list \in SUBSET Params \ {{}}, StartCall(list) PROVE CleanInv'
  BY <1>6 DEF StartCall, CleanInv, lobVars, paramVars, Held, TempOf
<1>b. ASSUME NEW p \in Params, Bind(p), phase = "bind", p \in todo
      PROVE  /\ \A q \in Params : q # p => handle'[q] = handle[q] /\ Held(q)' = Held(q)
             /\ kind[p] \in JsonOutputs \union {"lobNullable"} /\ Held(p)' # NoTemp => p \in failed
  <2>1. \A q \in Params : q # p => handle'[q] = handle[q] /\ Held(q)' = Held(q)
    BY <1>0, <1>b, BindOthers
  <2>2. ASSUME kind[p] \in JsonOutputs \union {"lobNullable"}, Held(p)' # NoTemp PROVE p \in failed
    <3>1. BindOutput(p)
      BY <1>b, <2>2 DEF Bind, BindJson, BindBorrowed, JsonOutputs
    <3>2. CASE handle[p] = NoDesc
      <4>1. PICK n \in Desc \ alloc : Swap(p, n, NoTemp, TRUE, {})
        BY <3>1, <3>2 DEF BindOutput
      <4>2. handle'[p] = n
        BY <1>0, <4>1, SwapHandle
      <4>3. temp'[n] = NoTemp
        BY <4>1 DEF Swap
      <4>. QED
        BY <2>2, <4>2, <4>3 DEF Held, TempOf
    <3>3. CASE handle[p] # NoDesc
      <4>1. Held(p)' = Held(p)
        BY <3>1, <3>3 DEF BindOutput, lobVars, Held, TempOf
      <4>. QED
        BY <1>b, <2>2, <4>1 DEF CleanInv
    <3>. QED
      BY <3>2, <3>3
  <2>. QED
    BY <2>1, <2>2
<1>7. ASSUME NEW p \in Params, BindNext(p) PROVE CleanInv'
  <2>1. /\ phase = "bind" /\ p \in todo /\ Bind(p)
        /\ UNCHANGED <<kind, failed>> /\ kind[p] # "gone"
    BY <1>0, <1>7 DEF BindNext, paramVars, Progressed
  <2>. QED
    BY <1>b, <2>1 DEF CleanInv
<1>8. ASSUME NEW p \in Params, BindFails(p) PROVE CleanInv'
  <2>1. /\ phase = "bind" /\ p \in todo /\ p \in args /\ kind[p] # "gone"
        /\ kind' = kind /\ failed' = failed \union args
    BY <1>0, <1>8 DEF BindFails, CallFails, paramVars, Progressed
  <2>2. \A q \in Params : q # p => handle'[q] = handle[q] /\ Held(q)' = Held(q)
    <3>1. CASE Bind(p)
      BY <1>b, <2>1, <3>1
    <3>2. CASE \E freed \in BOOLEAN, stray \in {{}} \union {{t} : t \in Fresh} :
                 Swap(p, NoDesc, NoTemp, freed, stray)
      <4>1. NoDesc \notin alloc
        BY <1>0 DEF TypeOK
      <4>. QED
        BY <1>0, <3>2, <4>1, SwapOthers
    <3>3. CASE UNCHANGED lobVars
      BY <3>3 DEF lobVars, Held, TempOf
    <3>. QED
      BY <1>8, <3>1, <3>2, <3>3 DEF BindFails
  <2>. QED
    BY <2>1, <2>2 DEF CleanInv
<1>9. ASSUME NEW p \in Params, CompleteNext(p) PROVE CleanInv'
  <2>1. /\ phase = "complete" /\ p \in todo /\ kind[p] # "gone"
        /\ todo' = todo \ {p} /\ UNCHANGED <<kind, failed, phase, null>>
    BY <1>0, <1>9 DEF CompleteNext, paramVars, callVars, Progressed
  <2>2. /\ \A q \in Params : q # p => handle'[q] = handle[q] /\ Held(q)' = Held(q)
        /\ kind[p] \in JsonOutputs \union {"lobNullable"} =>
             Held(p)' = NoTemp \/ (p \in null /\ Held(p)' = Held(p))
    <3>0. NoDesc \notin alloc
      BY <1>0 DEF TypeOK
    <3>1. CASE CompleteJson(p)
      <4>1. PICK freed \in BOOLEAN : Swap(p, NoDesc, NoTemp, freed, {})
        BY <3>1 DEF CompleteJson, Discard
      <4>2. handle'[p] = NoDesc
        BY <1>0, <4>1, SwapHandle
      <4>. QED
        BY <1>0, <3>0, <4>1, <4>2, SwapOthers DEF Held, TempOf
    <3>2. CASE CompleteNullable(p)
      <4>1. target[p] \in Vars /\ target[p] \in Holders /\ \A q \in Params : q # target[p]
        BY <1>0, <3>2, HandleAssumption DEF CompleteNullable, Borrows, LobOutputs, Holders
      <4>2. CASE p \in null
        <5>1. PICK freed \in BOOLEAN : Swap(target[p], NoDesc, NoTemp, freed, {})
          BY <3>2, <4>2 DEF CompleteNullable, Discard
        <5>. QED
          BY <1>0, <3>0, <4>1, <4>2, <5>1, SwapOthers
      <4>3. CASE p \notin null
        <5>1. PICK freed \in BOOLEAN : Move(p, target[p], freed)
          BY <3>2, <4>3 DEF CompleteNullable
        <5>2. handle'[p] = NoDesc /\ \A q \in Params : q # p => handle'[q] = handle[q]
          BY <1>0, <4>1, <5>1 DEF Move, TypeOK
        <5>3. ASSUME NEW q \in Params, q # p PROVE Held(q)' = Held(q)
          <6>1. CASE handle[q] = NoDesc
            BY <5>2, <5>3, <6>1 DEF Held, TempOf
          <6>2. CASE handle[q] # NoDesc
            <7>1. handle[q] \in Desc /\ handle[q] # handle[target[p]]
              BY <1>0, <4>1, <6>2 DEF TypeOK, Base, DescriptorsHeld
            <7>2. temp'[handle[q]] = temp[handle[q]]
              BY <5>1, <7>1 DEF Move
            <7>3. handle'[q] = handle[q]
              BY <5>2, <5>3
            <7>. QED
              BY <6>2, <7>2, <7>3 DEF Held, TempOf
          <6>. QED
            BY <6>1, <6>2
        <5>. QED
          BY <5>2, <5>3 DEF Held, TempOf
      <4>. QED
        BY <4>2, <4>3
    <3>3. CASE CompleteInPlace(p)
      BY <3>3 DEF CompleteInPlace, lobVars, Held, TempOf, JsonOutputs
    <3>. QED
      BY <1>9, <3>1, <3>2, <3>3 DEF CompleteNext
  <2>. QED
    BY <2>1, <2>2 DEF CleanInv
<1>10. CASE Execute
  <2>1. PICK nulls \in SUBSET Outputs : Writes(Outputs, nulls) /\ null' = nulls
    BY <1>10 DEF Execute
  <2>2. /\ phase = "execute" /\ phase' = "complete" /\ todo' = args
        /\ UNCHANGED <<kind, failed>>
    BY <1>10 DEF Execute, paramVars
  <2>3. PICK which, made : Wrote(Outputs, nulls, which, made)
    BY <2>1, <2>2 DEF Writes, Wrote
  <2>4. \A q \in Params : handle'[q] = handle[q] /\ (Held(q)' = Held(q) \/ q \in Outputs \ nulls)
    BY <2>3, WriteHeld
  <2>. QED
    BY <2>1, <2>2, <2>4 DEF CleanInv, Outputs
<1>11. CASE ExecuteFails
  <2>1. WritesSome
    BY <1>11 DEF ExecuteFails, WritesSome
  <2>2. PICK done, nulls, which, made : Wrote(done, nulls, which, made)
    BY <2>1, WritesSomeFacts
  <2>3. /\ phase = "execute" /\ kind' = kind /\ failed' = failed \union args
    BY <1>11 DEF ExecuteFails, CallFails, paramVars
  <2>4. \A q \in Params : handle'[q] = handle[q] /\ (Held(q)' = Held(q) \/ q \in done \ nulls)
    BY <2>2, WriteHeld
  <2>5. done \subseteq args
    BY <2>2 DEF Wrote, Outputs
  <2>. QED
    BY <2>3, <2>4, <2>5 DEF CleanInv
<1>12. CASE CompleteFails
  <2>1. /\ phase = "complete" /\ failed' = failed \union args /\ UNCHANGED <<lobVars, kind>>
    BY <1>12 DEF CompleteFails, CallFails, paramVars
  <2>. QED
    BY <1>0, <2>1 DEF CleanInv, lobVars, Held, TempOf
<1>13. CASE Return
  BY <1>13 DEF Return, CleanInv, lobVars, paramVars, Held, TempOf
<1>14. CASE UNCHANGED vars
  BY <1>14, <1>a DEF vars, lobVars, callVars, paramVars, Held, TempOf
<1>. QED
  BY <1>1, <1>4, <1>5, <1>6, <1>7, <1>8, <1>9, <1>10, <1>11, <1>12, <1>13, <1>14 DEF Next

(* After a call that returned Ok, its parameters hold no temporary LOB     *)
(* that the next call could write over; only a failed call leaves one.     *)
THEOREM CleanAfterOk == Spec => []CleanUnlessFailed
<1>1. Init => CleanInv
  BY DEF Init, CleanInv, Held, TempOf, JsonOutputs, Holders
<1>2. Base /\ CleanInv => CleanUnlessFailed
  BY DEF Base, Shape, TypeOK, CleanInv, CleanUnlessFailed
<1>. QED
  BY <1>1, <1>2, BaseInvariant, CleanStep, PTL DEF Spec

-----------------------------------------------------------------------------
(* Ok means the answer of this call.                                       *)

(* What a completed output has delivered.                                  *)
Delivered(p) ==
    /\ kind[p] \in JsonOutputs => got[p] = IF p \in null THEN 0 ELSE calls
    /\ kind[p] = "lobNullable" =>
         IF p \in null THEN handle[target[p]] = NoDesc
         ELSE handle[target[p]] # NoDesc /\ origin[handle[target[p]]] = calls
    /\ kind[p] = "lobOut" => p \notin null /\ origin[handle[target[p]]] = calls

(* Strengthening: what is not NULL and not completed yet waits where the   *)
(* server wrote it.                                                        *)
AnswerInv ==
    phase = "complete" =>
        /\ \A p \in args \ todo : Delivered(p)
        /\ \A p \in todo :
             kind[p] \in JsonOutputs \union LobOutputs /\ p \notin null =>
                 origin[Locator(p)] = calls

LEMMA CompleteStep ==
    ASSUME Base, AnswerInv, NEW p \in Params, CompleteNext(p)
    PROVE  AnswerInv'
<1>0. /\ TypeOK /\ Progressed /\ Borrows /\ NoDesc \notin Desc
      /\ args \subseteq Params /\ todo \subseteq args /\ Params \subseteq Holders
  BY HandleAssumption DEF Base, Shape, TypeOK, Holders
<1>1. /\ phase = "complete" /\ p \in todo /\ todo' = todo \ {p}
      /\ UNCHANGED <<kind, target, args, null, calls, phase>>
  BY DEF CompleteNext, paramVars
<1>a. ASSUME origin' = origin,
             \A q \in args \ {p} : kind[q] \in JsonOutputs => got'[q] = got[q],
             \A q \in args \ {p} : kind[q] \in LobOutputs => handle'[target[q]] = handle[target[q]],
             \A q \in args \ {p} : handle'[q] = handle[q],
             Delivered(p)'
      PROVE  AnswerInv'
  <2>1. ASSUME NEW q \in args \ todo PROVE Delivered(q)'
    BY <1>0, <1>1, <1>a, <2>1 DEF AnswerInv, Delivered, LobOutputs
  <2>2. ASSUME NEW q \in todo', kind[q] \in JsonOutputs \union LobOutputs, q \notin null
        PROVE  origin'[Locator(q)'] = calls
    <3>1. q \in args \ {p} /\ q \in todo
      BY <1>0, <1>1
    <3>2. Locator(q)' = Locator(q)
      BY <1>1, <1>a, <3>1 DEF Locator, LobOutputs
    <3>. QED
      BY <1>1, <1>a, <2>2, <3>1, <3>2 DEF AnswerInv
  <2>3. args' \ todo' = (args \ todo) \union {p}
    BY <1>0, <1>1
  <2>. QED
    BY <1>1, <1>a, <2>1, <2>2, <2>3 DEF AnswerInv
<1>2. CASE CompleteJson(p)
  <2>1. PICK freed \in BOOLEAN : Swap(p, NoDesc, NoTemp, freed, {})
    BY <1>2 DEF CompleteJson, Discard
  <2>2. \A y \in Holders \ {p} : handle'[y] = handle[y]
    BY <1>0, <2>1, SwapHandle
  <2>3. origin' = origin
    BY <1>0, <2>1 DEF Swap, TypeOK
  <2>4. \A q \in args \ {p} : kind[q] \in LobOutputs => target[q] \in Holders \ {p}
    BY <1>0, HandleAssumption DEF Borrows, Holders
  <2>5. got' = [got EXCEPT ![p] = IF p \in null THEN 0 ELSE origin[handle[p]]] /\ kind[p] \in JsonOutputs
    BY <1>2 DEF CompleteJson
  <2>6. p \notin null => origin[handle[p]] = calls
    BY <1>1, <2>5 DEF AnswerInv, Locator, JsonOutputs
  <2>7. got'[p] = IF p \in null THEN 0 ELSE calls
    BY <1>0, <2>5, <2>6 DEF TypeOK
  <2>8. Delivered(p)'
    BY <1>1, <2>5, <2>7 DEF Delivered, JsonOutputs
  <2>9. \A q \in args \ {p} : got'[q] = got[q] /\ handle'[q] = handle[q]
    BY <1>0, <2>2, <2>5 DEF TypeOK
  <2>. QED
    BY <1>a, <2>2, <2>3, <2>4, <2>8, <2>9
<1>3. CASE CompleteNullable(p)
  <2>1. /\ kind[p] = "lobNullable" /\ target[p] \in Vars /\ target[p] \in Holders
        /\ \A q \in Params : q # target[p]
    BY <1>0, <1>3, HandleAssumption DEF CompleteNullable, Borrows, LobOutputs, Holders
  <2>2. \A q \in args \ {p} : kind[q] \in LobOutputs => target[q] \in Holders \ {p, target[p]}
    BY <1>0, <2>1, HandleAssumption DEF Borrows, Holders, LobOutputs
  <2>3. got' = got
    BY <1>3 DEF CompleteNullable
  <2>4. CASE p \in null
    <3>1. PICK freed \in BOOLEAN : Swap(target[p], NoDesc, NoTemp, freed, {})
      BY <1>3, <2>4 DEF CompleteNullable, Discard
    <3>2. handle'[target[p]] = NoDesc /\ \A y \in Holders \ {target[p]} : handle'[y] = handle[y]
      BY <1>0, <2>1, <3>1, SwapHandle
    <3>3. origin' = origin
      BY <1>0, <3>1 DEF Swap, TypeOK
    <3>4. Delivered(p)'
      BY <1>1, <2>1, <2>4, <3>2 DEF Delivered, JsonOutputs
    <3>. QED
      BY <1>0, <1>a, <2>1, <2>2, <2>3, <3>2, <3>3, <3>4
  <2>5. CASE p \notin null
    <3>1. PICK freed \in BOOLEAN : Move(p, target[p], freed)
      BY <1>3, <2>5 DEF CompleteNullable
    <3>2. /\ handle'[target[p]] = handle[p] /\ origin' = origin
          /\ \A y \in Holders \ {p, target[p]} : handle'[y] = handle[y]
      BY <1>0, <2>1, <3>1 DEF Move, TypeOK
    <3>3. handle[p] # NoDesc
      BY <1>0, <1>1, <2>1 DEF Progressed
    <3>4. origin[handle[p]] = calls
      BY <1>1, <2>1, <2>5 DEF AnswerInv, Locator, LobOutputs
    <3>5. Delivered(p)'
      BY <1>1, <2>1, <2>5, <3>2, <3>3, <3>4 DEF Delivered, JsonOutputs
    <3>. QED
      BY <1>0, <1>a, <2>1, <2>2, <2>3, <3>2, <3>5
  <2>. QED
    BY <2>4, <2>5
<1>4. CASE CompleteInPlace(p)
  <2>1. UNCHANGED <<handle, origin, got>>
    BY <1>4 DEF CompleteInPlace, lobVars
  <2>2. Delivered(p)
    <3>1. kind[p] \in {"lobIn", "jsonIn", "jsonNullIn", "lobOut"} /\ (kind[p] = "lobOut" => p \notin null)
      BY <1>4 DEF CompleteInPlace
    <3>2. kind[p] = "lobOut" => origin[handle[target[p]]] = calls
      BY <1>1, <3>1 DEF AnswerInv, Locator, LobOutputs
    <3>. QED
      BY <3>1, <3>2 DEF Delivered, JsonOutputs
  <2>3. Delivered(p)'
    BY <1>1, <2>1, <2>2 DEF Delivered
  <2>. QED
    BY <1>a, <2>1, <2>3
<1>. QED
  BY <1>2, <1>3, <1>4 DEF CompleteNext

LEMMA AnswerStep == Base /\ AnswerInv /\ [Next]_vars => AnswerInv'
<1> SUFFICES ASSUME Base, AnswerInv, [Next]_vars PROVE AnswerInv'
  OBVIOUS
<1>a. ASSUME phase' # "complete" PROVE AnswerInv'
  BY <1>a DEF AnswerInv
<1>1. ASSUME NEW v \in Vars, NewTemporary(v) \/ NewOutput(v) \/ DropVar(v) PROVE AnswerInv'
  BY <1>1, <1>a DEF NewTemporary, NewOutput, DropVar, callVars
<1>4. ASSUME NEW p \in Params, NEW k \in Kinds, NEW v \in Vars \union {NoVar}, NewParam(p, k, v)
      PROVE  AnswerInv'
  BY <1>4, <1>a DEF NewParam
<1>5. ASSUME NEW p \in Params, DropParam(p) PROVE AnswerInv'
  BY <1>5, <1>a DEF DropParam, callVars
<1>6. ASSUME NEW list \in SUBSET Params \ {{}}, StartCall(list) PROVE AnswerInv'
  BY <1>6, <1>a DEF StartCall
<1>7. ASSUME NEW p \in Params, BindNext(p) PROVE AnswerInv'
  BY <1>7, <1>a DEF BindNext
<1>8. ASSUME NEW p \in Params, BindFails(p) PROVE AnswerInv'
  BY <1>8, <1>a DEF BindFails, CallFails
<1>9. ASSUME NEW p \in Params, CompleteNext(p) PROVE AnswerInv'
  BY <1>9, CompleteStep
<1>10. CASE Execute
  <2>1. PICK nulls \in SUBSET Outputs : Writes(Outputs, nulls) /\ null' = nulls
    BY <1>10 DEF Execute
  <2>2. /\ phase = "execute" /\ todo' = args /\ calls' = calls + 1
        /\ UNCHANGED <<kind, target, args>>
    BY <1>10 DEF Execute, paramVars
  <2>3. PICK which, made : Wrote(Outputs, nulls, which, made)
    BY <2>1, <2>2 DEF Writes, Wrote
  <2>4. ASSUME NEW p \in args, kind[p] \in JsonOutputs \union LobOutputs, p \notin nulls
        PROVE  origin'[Locator(p)'] = calls + 1
    <3>1. p \in Outputs \ nulls /\ Shape
      BY <2>4 DEF Outputs, Base
    <3>2. Locator(p) \in Desc
      BY <2>2, <3>1, LocatorInHolders
    <3>3. handle' = handle
      BY <2>3, <3>1, WriteFacts
    <3>4. Locator(p)' = Locator(p)
      BY <2>2, <3>3 DEF Locator
    <3>5. origin'[Locator(p)] = calls + 1
      BY <2>3, <3>1, <3>2, WriteFacts
    <3>. QED
      BY <3>4, <3>5
  <2>. QED
    BY <2>1, <2>2, <2>4 DEF AnswerInv
<1>11. CASE ExecuteFails \/ CompleteFails \/ Return
  BY <1>11, <1>a DEF ExecuteFails, CompleteFails, CallFails, Return
<1>12. CASE UNCHANGED vars
  BY <1>12 DEF vars, lobVars, callVars, paramVars, AnswerInv, Delivered, Locator
<1>. QED
  BY <1>1, <1>4, <1>5, <1>6, <1>7, <1>8, <1>9, <1>10, <1>11, <1>12 DEF Next

(* Ok means that every LOB and JSON target holds what this call wrote for  *)
(* it, whatever earlier calls left in the parameters.                      *)
THEOREM AnswerOfThisCall == Spec => []OkMeansThisCall
<1>1. Init => AnswerInv
  BY DEF Init, AnswerInv
<1>2. AnswerInv => OkMeansThisCall
  BY DEF AnswerInv, Delivered, OkMeansThisCall
<1>. QED
  BY <1>1, <1>2, BaseInvariant, AnswerStep, PTL DEF Spec
-----------------------------------------------------------------------------
(* What a call leaves alone, and what it may lose.                         *)

(* A holder's LOB: descriptor, temporary and the call that wrote it.       *)
SameLob(y) ==
    /\ handle'[y] = handle[y]
    /\ handle[y] # NoDesc =>
         temp'[handle[y]] = temp[handle[y]] /\ origin'[handle[y]] = origin[handle[y]]

LEMMA SwapSameLob ==
    ASSUME Base, NEW x \in Holders, NEW n \in Desc \union {NoDesc}, NEW t, NEW freed, NEW stray,
           n \notin alloc \ {handle[x]}, Swap(x, n, t, freed, stray),
           NEW y \in Holders, y # x
    PROVE  SameLob(y)
<1>0. TypeOK /\ DescriptorsHeld
  BY DEF Base, Shape
<1>1. handle'[y] = handle[y]
  BY <1>0, SwapHandle
<1>2. CASE handle[y] # NoDesc
  <2>1. handle[y] \in Desc /\ handle[y] \in alloc /\ handle[y] # handle[x]
    BY <1>0, <1>2, HandlesAllocated DEF TypeOK, DescriptorsHeld
  <2>2. handle[y] # n
    BY <2>1
  <2>. QED
    BY <1>1, <2>1, <2>2 DEF Swap, SameLob
<1>. QED
  BY <1>1, <1>2 DEF SameLob

LEMMA DiscardSameLob ==
    ASSUME Base, NEW x \in Holders, Discard(x), NEW y \in Holders, y # x
    PROVE  SameLob(y)
<1>1. PICK freed \in BOOLEAN : Swap(x, NoDesc, NoTemp, freed, {})
  BY DEF Discard
<1>2. NoDesc \notin alloc
  BY HandleAssumption DEF Base, Shape, TypeOK
<1>. QED
  BY <1>1, <1>2, SwapSameLob

LEMMA BindSameLob ==
    ASSUME Base, NEW p \in Params, Bind(p), NEW y \in Holders, y # p
    PROVE  SameLob(y)
<1>0. p \in Holders
  BY DEF Holders
<1>1. CASE BindJson(p)
  <2>1. PICK n \in Desc \ (alloc \ {handle[p]}), t \in Fresh, freed \in BOOLEAN :
          Swap(p, n, t, freed, {})
    BY <1>1 DEF BindJson
  <2>. QED
    BY <1>0, <2>1, SwapSameLob
<1>2. CASE BindOutput(p)
  <2>1. CASE UNCHANGED lobVars
    BY <2>1 DEF lobVars, SameLob
  <2>2. CASE \E n \in Desc \ alloc : Swap(p, n, NoTemp, TRUE, {})
    BY <1>0, <2>2, SwapSameLob
  <2>. QED
    BY <1>2, <2>1, <2>2 DEF BindOutput
<1>3. CASE BindBorrowed(p)
  BY <1>3 DEF BindBorrowed, lobVars, SameLob
<1>. QED
  BY <1>1, <1>2, <1>3 DEF Bind

(* param/ and lob.rs: whatever happens during a call, and however it ends, *)
(* a Blob or Clob of the application that the call was not given as an     *)
(* output, among them those it was given as inputs, stays the same LOB:    *)
(* the binds, the native call, the completions and the drops of the call   *)
(* reach its parameters' own locators and their targets only.              *)
KeepsOtherLobs ==
    phase # "idle" =>
        \A v \in Vars :
            (\A p \in args : kind[p] \in LobOutputs => target[p] # v) => SameLob(v)

OtherLobsKept == [][KeepsOtherLobs]_vars

(* execute() changes the LOBs of no Blob or Clob but those the call names  *)
(* as its outputs, even when it fails.                                     *)
THEOREM OtherLobsAreKept == Spec => OtherLobsKept
<1>1. ASSUME Base, Next PROVE KeepsOtherLobs
  <2>. SUFFICES ASSUME phase # "idle", NEW v \in Vars,
                       \A p \in args : kind[p] \in LobOutputs => target[p] # v
                PROVE  SameLob(v)
    BY DEF KeepsOtherLobs
  <2>0. /\ TypeOK /\ Borrows /\ Progressed /\ DescriptorsHeld /\ Shape
        /\ v \in Holders /\ args \subseteq Params /\ todo \subseteq args
        /\ \A p \in Params : p # v /\ p \in Holders
    BY <1>1, HandleAssumption DEF Base, Shape, TypeOK, Holders
  <2>1. ASSUME UNCHANGED lobVars PROVE SameLob(v)
    BY <2>1 DEF lobVars, SameLob
  <2>2. ASSUME NEW p \in Params, BindNext(p) PROVE SameLob(v)
    BY <1>1, <2>0, <2>2, BindSameLob DEF BindNext
  <2>3. ASSUME NEW p \in Params, BindFails(p) PROVE SameLob(v)
    <3>1. CASE Bind(p)
      BY <1>1, <2>0, <3>1, BindSameLob
    <3>2. ASSUME NEW freed \in BOOLEAN, NEW stray, Swap(p, NoDesc, NoTemp, freed, stray)
          PROVE  SameLob(v)
      <4>1. NoDesc \notin alloc
        BY <2>0, HandleAssumption DEF TypeOK
      <4>. QED
        BY <1>1, <2>0, <3>2, <4>1, SwapSameLob
    <3>. QED
      BY <2>1, <2>3, <3>1, <3>2 DEF BindFails
  <2>4. CASE Execute \/ ExecuteFails
    <3>1. phase = "execute" /\ WritesSome
      BY <2>4 DEF Execute, ExecuteFails, WritesSome
    <3>2. PICK done, nulls, which, made : Wrote(done, nulls, which, made)
      BY <3>1, WritesSomeFacts
    <3>3. UNCHANGED handle
      BY <2>0, <3>2, WriteFacts
    <3>4. CASE handle[v] # NoDesc
      <4>1. handle[v] \in Desc
        BY <2>0, <3>4 DEF TypeOK
      <4>2. \A p \in done \ nulls : Locator(p) # handle[v]
        <5>. SUFFICES ASSUME NEW p \in done \ nulls, Locator(p) = handle[v] PROVE FALSE
          OBVIOUS
        <5>1. p \in Outputs /\ p \in args /\ p \in Params
          BY <2>0, <3>2 DEF Wrote, Outputs
        <5>. DEFINE x == IF kind[p] = "lobOut" THEN target[p] ELSE p
        <5>2. handle[x] = handle[v]
          BY <2>0, <3>1, <5>1, LocatorInHolders
        <5>3. x \in Holders
          BY <2>0, <5>1 DEF Borrows, LobOutputs, Holders
        <5>4. x # v
          BY <2>0, <5>1 DEF LobOutputs
        <5>. HIDE DEF x
        <5>. QED
          BY <2>0, <3>4, <5>2, <5>3, <5>4 DEF DescriptorsHeld
      <4>3. temp'[handle[v]] = temp[handle[v]] /\ origin'[handle[v]] = origin[handle[v]]
        BY <2>0, <3>2, <4>1, <4>2, WriteFacts
      <4>. QED
        BY <3>3, <4>3 DEF SameLob
    <3>. QED
      BY <3>3, <3>4 DEF SameLob
  <2>5. ASSUME NEW p \in Params, CompleteNext(p) PROVE SameLob(v)
    <3>0. p \in args
      BY <2>0, <2>5 DEF CompleteNext
    <3>1. CASE CompleteJson(p)
      BY <1>1, <2>0, <3>1, DiscardSameLob DEF CompleteJson
    <3>2. CASE CompleteNullable(p)
      <4>1. target[p] \in Vars /\ target[p] # v /\ target[p] \in Holders
        BY <2>0, <3>0, <3>2 DEF CompleteNullable, Borrows, LobOutputs, Holders
      <4>2. CASE Discard(target[p])
        BY <1>1, <2>0, <4>1, <4>2, DiscardSameLob
      <4>3. ASSUME NEW freed \in BOOLEAN, Move(p, target[p], freed) PROVE SameLob(v)
        <5>1. handle'[v] = handle[v] /\ UNCHANGED origin
          BY <2>0, <4>1, <4>3 DEF Move, TypeOK
        <5>2. handle[v] # NoDesc => handle[v] \in Desc /\ handle[v] # handle[target[p]]
          BY <2>0, <4>1 DEF TypeOK, DescriptorsHeld
        <5>. QED
          BY <4>3, <5>1, <5>2 DEF Move, SameLob
      <4>. QED
        BY <3>2, <4>2, <4>3 DEF CompleteNullable
    <3>3. CASE CompleteInPlace(p)
      BY <2>1, <3>3 DEF CompleteInPlace
    <3>. QED
      BY <2>5, <3>1, <3>2, <3>3 DEF CompleteNext
  <2>6. CASE CompleteFails \/ Return
    BY <2>1, <2>6 DEF CompleteFails, Return
  <2>7. /\ \A w \in Vars : ~NewTemporary(w) /\ ~NewOutput(w) /\ ~DropVar(w)
        /\ \A p \in Params, k \in Kinds, w \in Vars \union {NoVar} : ~NewParam(p, k, w)
        /\ \A p \in Params : ~DropParam(p)
        /\ \A list \in SUBSET Params \ {{}} : ~StartCall(list)
    BY DEF NewTemporary, NewOutput, DropVar, NewParam, DropParam, StartCall
  <2>. QED
    BY <1>1, <2>2, <2>3, <2>4, <2>5, <2>6, <2>7 DEF Next
<1>2. UNCHANGED vars => KeepsOtherLobs
  BY DEF vars, lobVars, KeepsOtherLobs, SameLob
<1>. QED
  BY <1>1, <1>2, BaseInvariant, PTL DEF Spec, OtherLobsKept

(* A temporary LOB is lost because yacExecute wrote over its locator only  *)
(* if it was in a Blob or Clob that the application passed as an output,   *)
(* or in a parameter that an earlier, failed call left it in.              *)
LosesOnlyThese ==
    \A t \in replaced' \ replaced :
        \E p \in Outputs :
            /\ phase = "execute" /\ temp[Locator(p)] = t
            /\ kind[p] = "lobOut" \/ p \in failed

OnlyTheseLost == [][LosesOnlyThese]_vars

(* ffi/stmt.rs, execute: a temporary LOB is written over only where a      *)
(* LOB target or a parameter of a failed call still held one.              *)
THEOREM OnlyTheseAreLost == Spec => OnlyTheseLost
<1>1. ASSUME Base, CleanInv, Next PROVE LosesOnlyThese
  <2>0. Shape /\ TypeOK /\ NoDesc \notin Desc /\ Borrows
    BY <1>1, HandleAssumption DEF Base, Shape
  <2>1. LobStep
    BY <1>1, <2>0, StepChangesLobs
  <2>2. CASE UNCHANGED <<lobVars, replaced>> \/ Swaps \/ Moves
    BY <2>2 DEF Swaps, Moves, LosesOnlyThese
  <2>3. CASE WritesSome
    <3>1. PICK done, nulls, which, made : Wrote(done, nulls, which, made)
      BY <2>3, WritesSomeFacts
    <3>2. /\ done \subseteq Outputs /\ phase = "execute"
          /\ replaced' = replaced \union ({temp[d] : d \in {Locator(p) : p \in done \ nulls}} \ {NoTemp})
      BY <3>1 DEF Wrote, Write
    <3>. SUFFICES ASSUME NEW t \in replaced' \ replaced
                  PROVE  \E p \in Outputs : /\ temp[Locator(p)] = t
                                            /\ kind[p] = "lobOut" \/ p \in failed
      BY <3>2 DEF LosesOnlyThese
    <3>3. PICK p \in done \ nulls : temp[Locator(p)] = t /\ t # NoTemp
      BY <3>2
    <3>4. p \in Outputs /\ p \in Params /\ Locator(p) \in Desc
      BY <2>0, <3>2, LocatorInHolders DEF Outputs, TypeOK
    <3>5. kind[p] # "lobOut" => Held(p) = t
      BY <2>0, <3>3, <3>4 DEF Locator, Held, TempOf
    <3>6. kind[p] # "lobOut" => p \in failed
      BY <1>1, <3>2, <3>3, <3>4, <3>5 DEF CleanInv, Outputs, LobOutputs
    <3>. QED
      BY <3>3, <3>4, <3>6
  <2>. QED
    BY <2>1, <2>2, <2>3 DEF LobStep
<1>2. UNCHANGED vars => LosesOnlyThese
  BY DEF vars, LosesOnlyThese
<1>3. Init => CleanInv
  BY DEF Init, CleanInv, Held, TempOf, JsonOutputs, Holders
<1>. QED
  BY <1>1, <1>2, <1>3, BaseInvariant, CleanStep, PTL DEF Spec, OnlyTheseLost
=============================================================================
