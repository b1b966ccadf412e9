------------------------ MODULE ParamBinding_proofs -------------------------
(***************************************************************************)
(* For any number of placeholders and parameters, and any sequence of      *)
(* calls, failures and drops: the native statement runs with every         *)
(* placeholder bound to this call, and no text outgrows its memory.        *)
(***************************************************************************)
EXTENDS ParamBinding, FiniteSetTheorems, SequenceTheorems, TLAPS

USE DEF Null, Invalid, Unallocated, Unknown, Sizes, Answers, Names

(* A parameter in use is not an empty place.                               *)
LEMMA ContentsInUse ==
    ASSUME NEW c \in Contents
    PROVE  c # Unused
<1>1. c.kind \in AllKinds
  BY DEF Contents
<1>2. Unused.kind \notin AllKinds
  BY DEF Unused, AllKinds
<1>. QED  BY <1>1, <1>2

(* What binding, the native call and completion make of a parameter: a     *)
(* parameter of the same kind that has no more room than it may.           *)
Sound(c) ==
    /\ c \in Contents
    /\ c.room <= c.capacity
    /\ c.room = Unallocated => c.kind = "textNullable"
    /\ c.kind \in Sized => c.target <= c.capacity

LEMMA PreparedSound ==
    ASSUME NEW c, Sound(c)
    PROVE  Sound(Prepared(c)) /\ Prepared(c).room # Unallocated
<1>1. CASE c.kind = "textNullable" /\ c.room = Unallocated
  <2>. DEFINE d == [c EXCEPT !.target = Null, !.room = c.capacity]
  <2>1. d \in Contents
    <3>1. c.capacity \in {Unallocated} \union 0..MaxSize
      BY DEF Sound, Contents
    <3>. QED  BY <3>1 DEF Sound, Contents
  <2>2. d.room = c.capacity /\ d.target = Null /\ d.capacity = c.capacity /\ d.kind = c.kind
    BY DEF Sound, Contents
  <2>3. c.capacity \in Nat /\ c.capacity > 0
    BY DEF Sound, Contents
  <2>4. Prepared(c) = d
    BY <1>1 DEF Prepared
  <2>. HIDE DEF d
  <2>. QED  BY <2>1, <2>2, <2>3, <2>4 DEF Sound
<1>2. CASE ~(c.kind = "textNullable" /\ c.room = Unallocated)
  BY <1>2 DEF Prepared, Sound
<1>. QED  BY <1>1, <1>2

LEMMA StoredSound ==
    ASSUME NEW c, Sound(c), c.room # Unallocated, NEW v \in Answers,
           NEW i \in {Invalid} \union Answers
    PROVE  Sound(Stored(c, v, i)) /\ Stored(c, v, i).room # Unallocated
<1>. DEFINE written == IF v < c.room THEN v ELSE c.room
<1>1. /\ c.room \in 0..MaxSize /\ c.capacity \in Sizes
      /\ i \in {Invalid, Null} \union 0..MaxSize
  BY DEF Sound, Contents
<1>2. CASE v = Null /\ c.kind # "input"
  BY <1>1, <1>2 DEF Stored, Sound, Contents
<1>3. CASE v # Null /\ c.kind \in Direct
  <2>1. written \in 0..MaxSize /\ written <= c.capacity
    BY <1>1, <1>3 DEF Sound
  <2>. QED  BY <1>1, <1>3, <2>1 DEF Stored, Sound, Contents, Direct
<1>4. CASE v # Null /\ c.kind \notin Direct \union {"input"}
  <2>1. written \in 0..MaxSize
    BY <1>1, <1>4
  <2>. QED  BY <1>1, <1>4, <2>1 DEF Stored, Sound, Contents
<1>5. CASE c.kind = "input"
  BY <1>5 DEF Stored
<1>. QED  BY <1>2, <1>3, <1>4, <1>5

LEMMA CompletedSound ==
    ASSUME NEW c, Sound(c), IsInput(c) \/ ~Rejected(c)
    PROVE  /\ Sound(Completed(c))
           /\ c.room # Unallocated => Completed(c).room # Unallocated
<1>1. /\ c.room \in {Unallocated} \union 0..MaxSize
      /\ c.capacity \in Sizes /\ c.kind \in AllKinds
      /\ c.indicator \in {Invalid, Null} \union 0..MaxSize
      /\ c.buffer \in 0..MaxSize
  BY DEF Sound, Contents
<1>2. CASE c.kind \in {"input", "fixed"}
  BY <1>2 DEF Completed, Optional
<1>3. CASE c.kind = "text"
  <2>1. c.indicator \in 0..MaxSize /\ c.indicator <= c.capacity
    BY <1>1, <1>3 DEF IsInput, Rejected, OutputLen, Sound
  <2>. QED  BY <1>1, <1>3, <2>1 DEF Completed, Optional, Sound, Contents
<1>4. CASE c.kind \in {"native", "json"}
  BY <1>1, <1>4 DEF Completed, Optional, Sound, Contents, Sized
<1>5. CASE c.kind \in {"nullable", "jsonNullable"}
  BY <1>1, <1>5 DEF Completed, Optional, Sound, Contents, Sized
<1>6. CASE c.kind = "textNullable" /\ c.indicator = Null
  <2>1. Completed(c) = [c EXCEPT !.target = Null]
    BY <1>6 DEF Completed, Optional
  <2>. QED  BY <1>1, <1>6, <2>1 DEF Sound, Contents
<1>7. CASE c.kind = "textNullable" /\ c.indicator # Null
  <2>1. c.indicator \in 0..MaxSize /\ c.indicator <= c.capacity
    BY <1>1, <1>7 DEF IsInput, Rejected, OutputLen, Sound
  <2>. DEFINE d == [c EXCEPT !.target = c.indicator, !.room = 0]
  <2>2. Completed(c) = d
    BY <1>7 DEF Completed, Optional
  <2>3. 0 \in 0..MaxSize
    BY BindingAssumption DEF BindingAssumption
  <2>4. d \in Contents
    BY <2>1, <2>3 DEF Sound, Contents
  <2>5. d.room = 0 /\ d.target = c.indicator
        /\ d.capacity = c.capacity /\ d.kind = c.kind
    BY DEF Sound, Contents
  <2>. HIDE DEF d
  <2>. QED  BY <1>1, <1>7, <2>1, <2>2, <2>4, <2>5 DEF Sound
<1>. QED  BY <1>1, <1>2, <1>3, <1>4, <1>5, <1>6, <1>7 DEF AllKinds

-----------------------------------------------------------------------------
(* The parameters, seen as one: each is unused or sound, and those that    *)
(* the native statement points at have memory.                             *)
Placed(ps, bs) ==
    /\ ps \in [Params -> Contents \union {Unused}]
    /\ bs \in [Names -> Params \union {NoParam, Gone}]
    /\ \A p \in Params : ps[p] # Unused => Sound(ps[p])
    /\ \A n \in Names : bs[n] \in Params =>
         ps[bs[n]] # Unused /\ ps[bs[n]].room # Unallocated

(* What a call holds on to, with the parameters ps.                        *)
Held(ps, as) ==
    /\ as \in Seq([name : Names \union {Unknown}, param : Params])
    /\ \A i \in DOMAIN as :
         /\ ps[as[i].param] # Unused
         /\ \A j \in DOMAIN as : as[i].param = as[j].param => i = j

(* The invariant is that of the parameters, of the call and of the place   *)
(* in the call.                                                            *)
Rest ==
    /\ phase \in {"idle", "bind", "execute", "complete", "count"}
    /\ pos \in Nat
    /\ answer \in [Names -> Answers]
    /\ result \in {"none", "ok", "failed"}

LEMMA ArgType ==
    ASSUME NEW as \in Seq([name : Names \union {Unknown}, param : Params]),
           NEW i \in DOMAIN as
    PROVE  as[i].name \in Names \union {Unknown} /\ as[i].param \in Params
<1>. DEFINE S == [name : Names \union {Unknown}, param : Params]
<1>1. as \in Seq(S) /\ i \in 1..Len(as)
  BY LenProperties
<1>. HIDE DEF S
<1>2. as[i] \in S
  BY <1>1, ElementOfSeq
<1>. QED  BY <1>2 DEF S

LEMMA Parts ==
    ASSUME IInv
    PROVE  Placed(param, bound) /\ Held(param, args) /\ Rest /\ CallInv
<1>1. Placed(param, bound)
  BY DEF IInv, TypeOK, MemoryInv, TextFits, InUse, Placed, Sound
<1>2. Held(param, args)
  BY DEF IInv, TypeOK, InUse, Held
<1>. QED  BY <1>1, <1>2 DEF IInv, TypeOK, Rest

LEMMA PartsPrimed ==
    ASSUME Placed(param', bound'), Held(param', args'), Rest', CallInv'
    PROVE  IInv'
<1>1. \A i \in DOMAIN args' : args'[i].param \in Params
  <2>. SUFFICES ASSUME NEW i \in DOMAIN args'
                PROVE  args'[i].param \in Params
    OBVIOUS
  <2>1. args' \in Seq([name : Names \union {Unknown}, param : Params])
    BY DEF Held
  <2>. QED  BY <2>1, ArgType
<1>2. TypeOK'
  <2>1. \A i \in DOMAIN args' :
          /\ args'[i].param \in InUse'
          /\ \A j \in DOMAIN args' : args'[i].param = args'[j].param => i = j
    BY <1>1 DEF Held, InUse
  <2>2. args' \in Seq([name : Names \union {Unknown}, param : Params])
    BY DEF Held
  <2>. QED  BY <2>1, <2>2 DEF TypeOK, Placed, Rest
<1>3. MemoryInv'
  BY DEF MemoryInv, InUse, Placed, Sound
<1>4. TextFits'
  BY DEF TextFits, InUse, Placed, Sound
<1>. QED  BY <1>2, <1>3, <1>4 DEF IInv

-----------------------------------------------------------------------------
(* A step that puts a sound parameter in the place of another.             *)
LEMMA Replaced ==
    ASSUME IInv, NEW p \in InUse, NEW c, Sound(c),
           param[p].room # Unallocated => c.room # Unallocated,
           param' = [param EXCEPT ![p] = c]
    PROVE  Placed(param', bound) /\ Held(param', args)
<1>1. Placed(param, bound) /\ Held(param, args)
  BY Parts
<1>2. c \in Contents /\ c # Unused
  BY ContentsInUse DEF Sound
<1>3. \A q \in Params : param'[q] = IF q = p THEN c ELSE param[q]
  BY <1>1 DEF Placed
<1>4. Placed(param', bound)
  BY <1>1, <1>2, <1>3 DEF Placed, InUse
<1>5. Held(param', args)
  <2>1. \A i \in DOMAIN args : args[i].param \in Params
    BY <1>1, ArgType DEF Held
  <2>. QED  BY <1>1, <1>2, <1>3, <2>1 DEF Held
<1>. QED  BY <1>4, <1>5

(* A failed call holds on to nothing.                                      *)
LEMMA FailKeeps ==
    ASSUME Fail
    PROVE  Held(param', args') /\ Rest' /\ CallInv'
<1>1. args' = <<>> /\ phase' = "idle" /\ pos' = 1 /\ result' = "failed"
      /\ answer' = [n \in Names |-> Null]
  BY DEF Fail
<1>2. DOMAIN args' = {}
  BY <1>1
<1>3. args' \in Seq([name : Names \union {Unknown}, param : Params])
  BY <1>1
<1>4. Held(param', args')
  BY <1>2, <1>3 DEF Held
<1>5. Rest'
  BY <1>1 DEF Rest
<1>6. CallInv'
  BY <1>1 DEF CallInv
<1>. QED  BY <1>4, <1>5, <1>6

(* The parameter whose turn it is exists.                                  *)
LEMMA CurrentInUse ==
    ASSUME IInv, phase \in {"bind", "complete"}
    PROVE  /\ pos \in 1..Len(args) /\ Len(args) \in Nat
           /\ DOMAIN args = 1..Len(args)
           /\ Current \in InUse /\ Sound(param[Current])
<1>1. args \in Seq([name : Names \union {Unknown}, param : Params])
  BY DEF IInv, TypeOK
<1>2. Len(args) \in Nat /\ DOMAIN args = 1..Len(args)
  BY <1>1, LenProperties
<1>3. pos \in 1..Len(args)
  BY DEF IInv, CallInv
<1>4. Current \in InUse
  BY <1>2, <1>3 DEF IInv, TypeOK, Current
<1>5. Sound(param[Current])
  BY <1>4, Parts DEF Placed, InUse
<1>. QED  BY <1>2, <1>3, <1>4, <1>5

-----------------------------------------------------------------------------
(* The application.                                                        *)
LEMMA NewParamKeeps ==
    ASSUME IInv, NEW p \in Params, NEW kind \in Kinds, NEW capacity \in Sizes,
           NewParam(p, kind, capacity)
    PROVE  IInv'
<1>. DEFINE c == [kind |-> kind, target |-> 0, buffer |-> 0,
                  capacity |-> capacity,
                  room |-> IF kind = "textNullable" THEN Unallocated
                                                    ELSE capacity,
                  indicator |-> 0]
<1>1. Placed(param, bound) /\ Held(param, args) /\ Rest /\ CallInv
  BY Parts
<1>2. Sound(c)
  <2>1. 0 \in 0..MaxSize /\ kind \in AllKinds
    BY BindingAssumption DEF BindingAssumption
  <2>. QED  BY <2>1 DEF Sound, Contents
<1>3. param' = [param EXCEPT ![p] = c] /\ param[p] = Unused
  BY DEF NewParam, InUse
<1>4. c \in Contents /\ c # Unused
  BY <1>2, ContentsInUse DEF Sound
<1>. HIDE DEF c
<1>5. \A q \in Params : param'[q] = IF q = p THEN c ELSE param[q]
  BY <1>1, <1>3 DEF Placed
<1>6. Placed(param', bound)
  BY <1>1, <1>2, <1>3, <1>4, <1>5 DEF Placed
<1>7. Held(param', args)
  <2>1. \A i \in DOMAIN args : args[i].param \in Params
    BY <1>1, ArgType DEF Held
  <2>. QED  BY <1>1, <1>4, <1>5, <2>1 DEF Held
<1>8. UNCHANGED <<phase, args, pos, result, bound, answer>>
  BY DEF NewParam, callVars
<1>9. Rest' /\ CallInv'
  BY <1>1, <1>8 DEF Rest, CallInv, BoundAt, Accepted, Distinct
<1>. QED  BY <1>6, <1>7, <1>8, <1>9, PartsPrimed

LEMMA DropParamKeeps ==
    ASSUME IInv, NEW p \in Params, DropParam(p)
    PROVE  IInv'
<1>1. Placed(param, bound) /\ Rest /\ CallInv
  BY Parts
<1>2. /\ param' = [param EXCEPT ![p] = Unused]
      /\ bound' = [n \in Names |-> IF bound[n] = p THEN Gone ELSE bound[n]]
      /\ args' = <<>> /\ result' = "none" /\ phase' = "idle" /\ pos' = pos
      /\ answer' = [n \in Names |-> Null]
  BY DEF DropParam
<1>3. Gone \notin Params
  BY BindingAssumption DEF BindingAssumption
<1>4. Placed(param', bound')
  BY <1>1, <1>2, <1>3 DEF Placed
<1>5. DOMAIN args' = {}
      /\ args' \in Seq([name : Names \union {Unknown}, param : Params])
  BY <1>2
<1>6. Held(param', args')
  BY <1>5 DEF Held
<1>7. Rest' /\ CallInv'
  BY <1>1, <1>2 DEF Rest, CallInv
<1>. QED  BY <1>4, <1>6, <1>7, PartsPrimed

LEMMA CallKeeps ==
    ASSUME IInv, NEW ps \in ArgLists, Call(ps)
    PROVE  IInv'
<1>1. Placed(param', bound')
  BY Parts DEF Call
<1>2. CASE ~Accepted(ps)
  BY <1>1, <1>2, FailKeeps, PartsPrimed DEF Call
<1>3. CASE Accepted(ps)
  <2>1. /\ args' = ps /\ pos' = 1 /\ result' = "none" /\ param' = param
        /\ phase' = IF ps = <<>> THEN "execute" ELSE "bind"
        /\ answer' = [n \in Names |-> Null]
    BY <1>3 DEF Call
  <2>2. PICK n \in 0..(Count + 1) :
          /\ ps \in [1..n -> [name : Names \union {Unknown}, param : InUse]]
          /\ \A i, j \in 1..n : ps[i].param = ps[j].param => i = j
    BY DEF ArgLists
  <2>3. n \in Nat
    BY BindingAssumption DEF BindingAssumption
  <2>4. /\ ps \in Seq([name : Names \union {Unknown}, param : Params])
        /\ DOMAIN ps = 1..n /\ Len(ps) = n
    <3>1. ps \in [1..n -> [name : Names \union {Unknown}, param : Params]]
      BY <2>2 DEF InUse
    <3>2. ps \in Seq([name : Names \union {Unknown}, param : Params])
      <4>. DEFINE S == [name : Names \union {Unknown}, param : Params]
      <4>1. ps \in UNION {[1..m -> S] : m \in Nat}
        <5>. HIDE DEF S
        <5>. QED  BY <2>3, <3>1 DEF S
      <4>. QED  BY <4>1, SeqDef
    <3>3. DOMAIN ps = 1..n /\ DOMAIN ps = 1..Len(ps) /\ Len(ps) \in Nat
      BY <3>1, <3>2, LenProperties
    <3>. QED  BY <2>3, <3>2, <3>3
  <2>5. Held(param', args')
    BY <2>1, <2>2, <2>4 DEF Held, InUse
  <2>6. Rest'
    BY <2>1 DEF Rest
  <2>7. ps # <<>> => 1 \in 1..Len(ps)
    BY <2>3, <2>4
  <2>8. CallInv'
    BY <1>3, <2>1, <2>7 DEF CallInv, Accepted, Distinct
  <2>. QED  BY <1>1, <2>5, <2>6, <2>8, PartsPrimed
<1>. QED  BY <1>2, <1>3

-----------------------------------------------------------------------------
(* Binding.                                                                *)
LEMMA BindNextKeeps ==
    ASSUME IInv, BindNext
    PROVE  IInv'
<1>1. Placed(param, bound) /\ Held(param, args) /\ Rest /\ CallInv
  BY Parts
<1>2. /\ pos \in 1..Len(args) /\ Len(args) \in Nat
      /\ DOMAIN args = 1..Len(args)
      /\ Current \in InUse /\ Sound(param[Current])
  BY CurrentInUse DEF BindNext
<1>. DEFINE c == Prepared(param[Current])
<1>3. Sound(c) /\ c.room # Unallocated
  BY <1>2, PreparedSound
<1>4. /\ phase = "bind" /\ args[pos].name \in Names
      /\ param' = [param EXCEPT ![Current] = c]
      /\ bound' = [bound EXCEPT ![args[pos].name] = Current]
      /\ Advance("execute") /\ args' = args
      /\ UNCHANGED <<answer, result>>
  BY DEF BindNext, Advance
<1>. HIDE DEF c
<1>5. Placed(param', bound) /\ Held(param', args)
  BY <1>2, <1>3, <1>4, Replaced
<1>6. Current \in Params /\ param'[Current] = c /\ c # Unused
  BY <1>1, <1>2, <1>3, <1>4, ContentsInUse DEF InUse, Placed, Sound
<1>7. \A n \in Names :
        bound'[n] = IF n = args[pos].name THEN Current ELSE bound[n]
  BY <1>1, <1>4 DEF Placed
<1>8. Placed(param', bound')
  BY <1>3, <1>4, <1>5, <1>6, <1>7 DEF Placed
<1>9. Rest'
  BY <1>1, <1>2, <1>4 DEF Rest, Advance
<1>10. \A i \in 1..pos : BoundAt(i)'
  <2>. SUFFICES ASSUME NEW i \in 1..pos
                PROVE  BoundAt(i)'
    OBVIOUS
  <2>1. CASE i = pos
    BY <1>4, <1>7, <2>1 DEF BoundAt, Current
  <2>2. CASE i # pos
    <3>1. i \in 1..(pos - 1) /\ BoundAt(i) /\ i \in DOMAIN args
      BY <1>1, <1>2, <1>4, <2>2 DEF CallInv
    <3>2. args[i].name # args[pos].name
      BY <1>1, <1>2, <1>4, <2>2, <3>1 DEF CallInv, Accepted, Distinct
    <3>. QED  BY <1>4, <1>7, <3>1, <3>2 DEF BoundAt
  <2>. QED  BY <2>1, <2>2
<1>11. Accepted(args)'
  BY <1>1, <1>4 DEF CallInv, Accepted, Distinct
<1>12. CASE pos < Len(args)
  <2>1. pos' = pos + 1 /\ phase' = "bind"
    BY <1>4, <1>12 DEF Advance
  <2>2. pos' \in 1..Len(args') /\ pos' - 1 = pos
    BY <1>2, <1>4, <1>12, <2>1
  <2>3. CallInv'
    BY <1>10, <1>11, <2>1, <2>2 DEF CallInv
  <2>. QED  BY <1>4, <1>5, <1>8, <1>9, <2>3, PartsPrimed
<1>13. CASE ~(pos < Len(args))
  <2>1. phase' = "execute" /\ pos' = 1
    BY <1>4, <1>13 DEF Advance
  <2>2. pos = Len(args)
    <3>1. \A k \in Nat : \A n \in 1..k : ~(n < k) => n = k
      OBVIOUS
    <3>. QED  BY <1>2, <1>13, <3>1
  <2>3. CallInv'
    BY <1>4, <1>10, <1>11, <2>1, <2>2 DEF CallInv
  <2>. QED  BY <1>4, <1>5, <1>8, <1>9, <2>3, PartsPrimed
<1>. QED  BY <1>12, <1>13

LEMMA BindFailsKeeps ==
    ASSUME IInv, BindFails
    PROVE  IInv'
<1>1. bound' = bound /\ Fail
  BY DEF BindFails
<1>2. Placed(param', bound')
  <2>1. CASE param' = param
    BY <1>1, <2>1, Parts
  <2>2. CASE param' = [param EXCEPT ![Current] = Prepared(@)]
    <3>1. Current \in InUse /\ Sound(param[Current])
      BY CurrentInUse DEF BindFails
    <3>. DEFINE c == Prepared(param[Current])
    <3>2. Sound(c) /\ c.room # Unallocated
      BY <3>1, PreparedSound
    <3>3. param' = [param EXCEPT ![Current] = c]
      BY <2>2
    <3>. HIDE DEF c
    <3>. QED  BY <1>1, <3>1, <3>2, <3>3, Replaced
  <2>. QED  BY <2>1, <2>2 DEF BindFails
<1>. QED  BY <1>1, <1>2, FailKeeps, PartsPrimed

-----------------------------------------------------------------------------
(* The native statement runs.                                              *)
LEMMA ExecuteNativeKeeps ==
    ASSUME IInv, ExecuteNative
    PROVE  IInv'
<1>1. Placed(param, bound) /\ Held(param, args) /\ Rest /\ CallInv
  BY Parts
<1>. DEFINE Found(p) == CHOOSE m \in Names : bound[m] = p
            IndicatorOf(n, bad) == IF n \in bad THEN Invalid ELSE answer'[n]
            After(p, bad) == Stored(param[p], answer'[Found(p)],
                                    IndicatorOf(Found(p), bad))
<1>2. /\ phase = "execute" /\ answer' \in [Names -> Answers]
      /\ phase' = IF args = <<>> THEN "count" ELSE "complete"
      /\ UNCHANGED <<args, pos, bound, result>>
  BY DEF ExecuteNative
<1>3. PICK bad \in {{}} \union {{n} : n \in Names} :
        param' = [p \in Params |-> IF \E n \in Names : bound[n] = p
                                     THEN After(p, bad) ELSE param[p]]
  BY DEF ExecuteNative
<1>4. ASSUME NEW p \in Params, \E n \in Names : bound[n] = p
      PROVE  /\ param[p] # Unused
             /\ Sound(After(p, bad)) /\ After(p, bad).room # Unallocated
  <2>1. Found(p) \in Names /\ bound[Found(p)] = p
    BY <1>4
  <2>2. param[p] # Unused /\ param[p].room # Unallocated /\ Sound(param[p])
    BY <1>1, <2>1 DEF Placed
  <2>3. answer'[Found(p)] \in Answers
    BY <1>2, <2>1
  <2>4. IndicatorOf(Found(p), bad) \in {Invalid} \union Answers
    BY <2>3
  <2>. HIDE DEF Found, IndicatorOf
  <2>. QED  BY <2>2, <2>3, <2>4, StoredSound
<1>. HIDE DEF After
<1>5. ASSUME NEW p \in Params
      PROVE  /\ param'[p] \in Contents \union {Unused}
             /\ param[p] # Unused <=> param'[p] # Unused
             /\ param'[p] # Unused => Sound(param'[p])
  <2>1. CASE \E n \in Names : bound[n] = p
    <3>1. param'[p] = After(p, bad)
      BY <1>3, <2>1
    <3>2. Sound(param'[p]) /\ param[p] # Unused
      BY <1>4, <2>1, <3>1
    <3>3. param'[p] \in Contents /\ param'[p] # Unused
      BY <3>2, ContentsInUse DEF Sound
    <3>. QED  BY <3>2, <3>3
  <2>2. CASE ~ \E n \in Names : bound[n] = p
    <3>1. param'[p] = param[p]
      BY <1>3, <2>2
    <3>. QED  BY <1>1, <3>1 DEF Placed
  <2>. QED  BY <2>1, <2>2
<1>6. ASSUME NEW n \in Names, bound[n] \in Params
      PROVE  param'[bound[n]] # Unused /\ param'[bound[n]].room # Unallocated
  <2>1. param'[bound[n]] = After(bound[n], bad)
    BY <1>3, <1>6
  <2>2. param'[bound[n]].room # Unallocated /\ param[bound[n]] # Unused
    BY <1>4, <1>6, <2>1
  <2>. QED  BY <1>5, <1>6, <2>2
<1>7. param' \in [Params -> Contents \union {Unused}]
  <2>1. DOMAIN param' = Params
    BY <1>3
  <2>2. param' = [p \in Params |-> param'[p]]
    BY <1>3
  <2>. QED  BY <1>5, <2>2
<1>8. Placed(param', bound')
  BY <1>1, <1>2, <1>5, <1>6, <1>7 DEF Placed
<1>9. Held(param', args')
  <2>1. \A i \in DOMAIN args : args[i].param \in Params
    BY <1>1, ArgType DEF Held
  <2>. QED  BY <1>1, <1>2, <1>5, <2>1 DEF Held
<1>10. Rest'
  BY <1>1, <1>2 DEF Rest
<1>11. CallInv'
  <2>1. Accepted(args')
    BY <1>1, <1>2 DEF CallInv
  <2>2. args # <<>> => pos \in 1..Len(args)
    <3>1. pos = 1
      BY <1>1, <1>2 DEF CallInv
    <3>2. args # <<>> => Len(args) \in Nat \ {0}
      BY <1>1, EmptySeq DEF Held
    <3>. QED  BY <3>1, <3>2
  <2>. QED  BY <1>2, <2>1, <2>2 DEF CallInv, Accepted, Distinct
<1>. QED  BY <1>8, <1>9, <1>10, <1>11, PartsPrimed

LEMMA ExecuteFailsKeeps ==
    ASSUME IInv, ExecuteFails
    PROVE  IInv'
<1>1. Placed(param', bound')
  BY Parts DEF ExecuteFails
<1>. QED  BY <1>1, FailKeeps, PartsPrimed DEF ExecuteFails

-----------------------------------------------------------------------------
(* Completion.                                                             *)
LEMMA CompleteNextKeeps ==
    ASSUME IInv, CompleteNext
    PROVE  IInv'
<1>1. Placed(param, bound) /\ Held(param, args) /\ Rest /\ CallInv
  BY Parts
<1>2. /\ pos \in 1..Len(args) /\ Len(args) \in Nat
      /\ Current \in InUse /\ Sound(param[Current])
  BY CurrentInUse DEF CompleteNext
<1>. DEFINE c == Completed(param[Current])
<1>3. Sound(c) /\ (param[Current].room # Unallocated => c.room # Unallocated)
  BY <1>2, CompletedSound DEF CompleteNext
<1>4. /\ phase = "complete"
      /\ param' = [param EXCEPT ![Current] = c]
      /\ Advance("count") /\ UNCHANGED <<args, result, bound, answer>>
  BY DEF CompleteNext, Advance
<1>. HIDE DEF c
<1>5. Placed(param', bound') /\ Held(param', args')
  BY <1>2, <1>3, <1>4, Replaced
<1>6. Rest'
  BY <1>1, <1>2, <1>4 DEF Rest, Advance
<1>7. CallInv'
  <2>1. Accepted(args')
    BY <1>1, <1>4 DEF CallInv
  <2>2. \/ phase' = "complete" /\ pos' \in 1..Len(args)
        \/ phase' = "count"
    BY <1>2, <1>4 DEF Advance
  <2>. QED  BY <1>4, <2>1, <2>2 DEF CallInv, Accepted, Distinct
<1>. QED  BY <1>5, <1>6, <1>7, PartsPrimed

LEMMA CompleteFailsKeeps ==
    ASSUME IInv, CompleteFails
    PROVE  IInv'
<1>1. Placed(param', bound')
  BY Parts DEF CompleteFails
<1>. QED  BY <1>1, FailKeeps, PartsPrimed DEF CompleteFails

LEMMA CountRowsKeeps ==
    ASSUME IInv, CountRows
    PROVE  IInv'
<1>1. Placed(param', bound')
  BY Parts DEF CountRows
<1>2. CASE Fail
  BY <1>1, <1>2, FailKeeps, PartsPrimed
<1>3. CASE /\ phase' = "idle" /\ result' = "ok"
           /\ UNCHANGED <<args, pos, answer>>
  <2>1. Held(param', args') /\ Rest'
    BY <1>3, Parts DEF CountRows, Held, Rest
  <2>2. CallInv'
    BY <1>3 DEF CallInv
  <2>. QED  BY <1>1, <2>1, <2>2, PartsPrimed
<1>. QED  BY <1>2, <1>3 DEF CountRows

-----------------------------------------------------------------------------
(* The invariant                                                           *)
LEMMA Initially ==
    ASSUME Init
    PROVE  IInv
<1>1. Placed(param, bound)
  BY BindingAssumption DEF BindingAssumption, Init, Placed
<1>2. DOMAIN args = {}
      /\ args \in Seq([name : Names \union {Unknown}, param : Params])
  BY DEF Init
<1>3. TypeOK
  BY <1>1, <1>2 DEF Init, TypeOK, Placed
<1>4. InUse = {}
  BY DEF Init, InUse
<1>5. MemoryInv /\ TextFits
  BY <1>1, <1>4 DEF Placed, MemoryInv, TextFits, InUse
<1>6. CallInv
  BY DEF Init, CallInv
<1>. QED  BY <1>3, <1>5, <1>6 DEF IInv

LEMMA Inductive ==
    ASSUME IInv, [Next]_vars
    PROVE  IInv'
<1>1. CASE \E p \in Params, k \in Kinds, c \in Sizes : NewParam(p, k, c)
  BY <1>1, NewParamKeeps
<1>2. CASE \E p \in Params : DropParam(p)
  BY <1>2, DropParamKeeps
<1>3. CASE \E ps \in ArgLists : Call(ps)
  BY <1>3, CallKeeps
<1>4. CASE BindNext
  BY <1>4, BindNextKeeps
<1>5. CASE BindFails
  BY <1>5, BindFailsKeeps
<1>6. CASE ExecuteNative
  BY <1>6, ExecuteNativeKeeps
<1>7. CASE ExecuteFails
  BY <1>7, ExecuteFailsKeeps
<1>8. CASE CompleteNext
  BY <1>8, CompleteNextKeeps
<1>9. CASE CompleteFails
  BY <1>9, CompleteFailsKeeps
<1>10. CASE CountRows
  BY <1>10, CountRowsKeeps
<1>11. CASE UNCHANGED vars
  BY <1>11 DEF vars, callVars, IInv, TypeOK, InUse, MemoryInv, TextFits,
               CallInv, Accepted, Distinct, BoundAt
<1>. QED  BY <1>1, <1>2, <1>3, <1>4, <1>5, <1>6, <1>7, <1>8, <1>9, <1>10,
             <1>11 DEF Next

LEMMA Invariant == Spec => []IInv
BY Initially, Inductive, PTL DEF Spec

(* As many different names as the SQL has are all the names it has.        *)
LEMMA EveryNameOnce ==
    ASSUME NEW as, Accepted(as), DOMAIN as = 1..Len(as),
           \A i \in DOMAIN as : as[i].name \in Names,
           NEW n \in Names
    PROVE  \E i \in DOMAIN as : as[i].name = n
<1>. DEFINE f == [i \in Names |-> as[i].name]
<1>1. DOMAIN as = Names
  BY DEF Accepted
<1>2. f \in Injection(Names, Names)
  BY <1>1 DEF Accepted, Distinct, Injection, IsInjective
<1>3. IsFiniteSet(Names)
  BY FS_Interval, BindingAssumption DEF BindingAssumption
<1>. HIDE DEF f
<1>4. f \in Surjection(Names, Names)
  BY <1>2, <1>3, FS_Injection
<1>5. PICK i \in Names : f[i] = n
  BY <1>4 DEF Surjection
<1>. QED  BY <1>1, <1>5 DEF f

(* stmt.rs: the state of every call is one the code can be in.             *)
THEOREM TypeCorrect == Spec => []TypeOK
BY Invariant, PTL DEF IInv

(* param/output.rs: a String, a Vec<u8> or their Option never claims more  *)
(* bytes than its memory has, whatever the client reports.                 *)
THEOREM TextStaysInMemory == Spec => []TextFits
BY Invariant, PTL DEF IInv

(* stmt.rs, execute_params and execute_named_params: when the native       *)
(* statement runs, each placeholder is bound to the parameter passed for   *)
(* it in this call.  Only the number of names is checked: together with    *)
(* the client's refusal of unknown names that is enough.                   *)
THEOREM BoundForThisCall == Spec => []BoundToThisCall
<1>1. IInv => BoundToThisCall
  <2>. SUFFICES ASSUME IInv, phase = "execute", NEW n \in Names
                PROVE  \E i \in DOMAIN args :
                          args[i].name = n /\ bound[n] = args[i].param
    BY DEF BoundToThisCall
  <2>1. DOMAIN args = 1..Len(args)
    BY Parts, LenProperties DEF Held
  <2>2. Accepted(args) /\ \A i \in DOMAIN args : BoundAt(i)
    BY <2>1 DEF IInv, CallInv
  <2>3. PICK i \in DOMAIN args : args[i].name = n
    BY <2>1, <2>2, EveryNameOnce DEF BoundAt
  <2>. QED  BY <2>2, <2>3 DEF BoundAt
<1>. QED  BY <1>1, Invariant, PTL

-----------------------------------------------------------------------------
(* What a call that returns Ok delivered.                                  *)

(* Values of one size are given the room of that size; a nullable text has *)
(* all the room that was asked for, or none.                               *)
Roomy(c) ==
    /\ c.kind \in Kinds
    /\ c.kind \notin Sized => c.room = MaxSize
    /\ c.kind = "textNullable" => c.room \in {Unallocated, 0, c.capacity}

RoomInv == \A p \in Params : param[p] # Unused => Roomy(param[p])

(* The NULL that native_to_target_on_success does not look at.             *)
Unseen(c, v) == c.kind = "native" /\ v = Null

(* A parameter that is not rejected will be completed with the answer v,   *)
(* and NULL is no answer for a target that cannot hold it;                 *)
Promises(c, v) ==
    ~IsInput(c) /\ ~Rejected(c) /\ ~Unseen(c, v) =>
        /\ Completed(c).target = v
        /\ v = Null => c.kind \in Optional

(* one that was completed has it.                                          *)
Delivered(c, v) ==
    ~IsInput(c) /\ ~Unseen(c, v) =>
        /\ c.target = v
        /\ v = Null => c.kind \in Optional

(* The parameter of the argument i, and what the server answered to it.    *)
Arg(i) == param[args[i].param]
AnswerTo(i) == answer[args[i].name]

OutcomeInv ==
    /\ phase = "complete" =>
         \A i \in DOMAIN args :
           IF i < pos THEN Delivered(Arg(i), AnswerTo(i)) ELSE Promises(Arg(i), AnswerTo(i))
    /\ phase = "count" => \A i \in DOMAIN args : Delivered(Arg(i), AnswerTo(i))
    /\ phase = "idle" /\ result = "ok" =>
         \A i \in DOMAIN args : Delivered(Arg(i), AnswerTo(i))

OkInv == IInv /\ RoomInv /\ OutcomeInv

LEMMA PreparedRoomy ==
    ASSUME NEW c \in Contents, Roomy(c)
    PROVE  Roomy(Prepared(c))
<1>1. CASE c.kind = "textNullable" /\ c.room = Unallocated
  <2>1. Prepared(c).kind = "textNullable" /\ Prepared(c).room = Prepared(c).capacity
    BY <1>1 DEF Prepared, Contents
  <2>. QED  BY <1>1, <2>1 DEF Roomy, Sized
<1>2. CASE ~(c.kind = "textNullable" /\ c.room = Unallocated)
  BY <1>2 DEF Prepared
<1>. QED  BY <1>1, <1>2

LEMMA CompletedRoomy ==
    ASSUME NEW c \in Contents, Roomy(c)
    PROVE  Roomy(Completed(c)) /\ Completed(c).kind = c.kind
<1>1. CASE c.kind = "textNullable" /\ c.indicator # Null
  <2>1. Completed(c).kind = "textNullable" /\ Completed(c).room = 0
    BY <1>1 DEF Completed, Optional, Contents
  <2>. QED  BY <1>1, <2>1 DEF Roomy, Sized
<1>2. CASE ~(c.kind = "textNullable" /\ c.indicator # Null)
  <2>1. \/ Completed(c) = c
        \/ \E t \in {c.indicator, c.buffer, Null} : Completed(c) = [c EXCEPT !.target = t]
    BY <1>2 DEF Completed, Optional, Contents, AllKinds
  <2>2. /\ Completed(c).kind = c.kind /\ Completed(c).room = c.room
        /\ Completed(c).capacity = c.capacity
    BY <2>1 DEF Contents
  <2>. QED  BY <2>2 DEF Roomy
<1>. QED  BY <1>1, <1>2

(* The client leaves the answer where completion looks for it, or an       *)
(* indicator that completion rejects.                                      *)
LEMMA StoredPromises ==
    ASSUME NEW c \in Contents, Roomy(c),
           NEW v \in Answers, NEW i \in {Invalid, v},
           NEW s, s = Stored(c, v, i)
    PROVE  Roomy(s) /\ Promises(s, v)
<1>1. /\ MaxSize \in Nat /\ v \in {Null} \union 1..MaxSize
      /\ c.room \in {Unallocated} \union 0..MaxSize /\ c.kind \in AllKinds
  BY BindingAssumption DEF BindingAssumption, Contents
<1>2. CASE c.kind = "input"
  BY <1>2 DEF Stored, Promises, IsInput
<1>3. CASE c.kind # "input" /\ v = Null
  <2>1. s = [c EXCEPT !.indicator = i]
    BY <1>3 DEF Stored
  <2>2. /\ s.kind = c.kind /\ s.room = c.room /\ s.capacity = c.capacity
        /\ s.indicator = i /\ i \in {Invalid, Null}
    BY <1>3, <2>1 DEF Contents
  <2>3. ~Rejected(s) /\ c.kind # "native" => i = Null /\ c.kind \in Optional
    BY <1>1, <1>3, <2>2 DEF Rejected, OutputLen, Optional, AllKinds
  <2>4. i = Null /\ c.kind \in Optional => Completed(s) = [s EXCEPT !.target = Null]
    BY <2>2 DEF Completed, Optional
  <2>5. [s EXCEPT !.target = Null].target = Null
    BY <2>1 DEF Contents
  <2>. QED  BY <1>3, <2>2, <2>3, <2>4, <2>5 DEF Promises, Unseen, Roomy
<1>4. CASE c.kind = "fixed" /\ v # Null
  <2>1. c.room = MaxSize /\ v \in 1..MaxSize
    BY <1>1, <1>4 DEF Roomy, Sized
  <2>2. s = [c EXCEPT !.target = v, !.indicator = i]
    <3>1. (IF v < c.room THEN v ELSE c.room) = v
      BY <1>1, <2>1
    <3>. QED  BY <1>4, <3>1 DEF Stored, Direct
  <2>3. s.kind = c.kind /\ s.room = c.room /\ s.target = v
    BY <2>2 DEF Contents
  <2>4. Completed(s) = s
    BY <1>4, <2>3 DEF Completed, Optional
  <2>5. Roomy(s)
    BY <1>4, <2>3 DEF Roomy
  <2>. QED  BY <1>4, <2>3, <2>4, <2>5 DEF Promises
<1>5. CASE c.kind \in {"native", "nullable", "json", "jsonNullable"} /\ v # Null
  <2>1. c.room = MaxSize /\ v \in 1..MaxSize
    BY <1>1, <1>5 DEF Roomy, Sized
  <2>2. s = [c EXCEPT !.buffer = v, !.indicator = i]
    <3>1. (IF v < c.room THEN v ELSE c.room) = v
      BY <1>1, <2>1
    <3>. QED  BY <1>5, <3>1 DEF Stored, Direct
  <2>3. s.kind = c.kind /\ s.room = c.room /\ s.buffer = v /\ s.indicator = i
    BY <2>2 DEF Contents
  <2>4. ~Rejected(s) => i # Null
    BY <1>1, <1>5, <2>1
  <2>5. ~Rejected(s) => Completed(s) = [s EXCEPT !.target = v]
    BY <1>5, <2>3, <2>4 DEF Completed, Optional
  <2>6. [s EXCEPT !.target = v].target = v
    BY <2>2 DEF Contents
  <2>7. Roomy(s)
    BY <1>5, <2>3 DEF Roomy
  <2>. QED  BY <1>5, <2>3, <2>5, <2>6, <2>7 DEF Promises
<1>6. CASE c.kind \in Sized /\ v # Null
  <2>1. /\ s.kind = c.kind /\ s.room = c.room /\ s.indicator = i
        /\ s.capacity = c.capacity
    BY <1>6 DEF Stored, Direct, Sized, Contents
  <2>2. ~Rejected(s) => i = v
    BY <1>1, <1>6, <2>1 DEF Rejected
  <2>3. s \in [DOMAIN c -> UNION {{s[f]} : f \in DOMAIN c}] /\ "target" \in DOMAIN c
    BY <1>6 DEF Stored, Direct, Sized, Contents
  <2>4. i = v => \/ Completed(s) = [s EXCEPT !.target = v]
                 \/ Completed(s) = [s EXCEPT !.target = v, !.room = 0]
    BY <1>6, <2>1 DEF Completed, Optional, Sized
  <2>5. i = v => Completed(s).target = v
    BY <2>3, <2>4
  <2>6. Roomy(s)
    BY <2>1 DEF Roomy
  <2>. QED  BY <1>6, <2>1, <2>2, <2>5, <2>6 DEF Promises
<1>. QED  BY <1>1, <1>2, <1>3, <1>4, <1>5, <1>6 DEF AllKinds, Sized

LEMMA RoomReplaced ==
    ASSUME IInv, RoomInv, NEW p \in Params, NEW c, Roomy(c),
           param' = [param EXCEPT ![p] = c]
    PROVE  RoomInv'
<1>1. \A q \in Params : param'[q] = IF q = p THEN c ELSE param[q]
  BY Parts DEF Placed
<1>. QED  BY <1>1 DEF RoomInv

(* The parameters of a call are in use, one for each argument.             *)
LEMMA ArgsApart ==
    ASSUME IInv
    PROVE  /\ Len(args) \in Nat /\ DOMAIN args = 1..Len(args)
           /\ \A i \in DOMAIN args :
                /\ args[i].param \in Params /\ Arg(i) # Unused /\ Arg(i) \in Contents
                /\ \A j \in DOMAIN args : args[i].param = args[j].param => i = j
<1>1. args \in Seq([name : Names \union {Unknown}, param : Params])
  BY DEF IInv, TypeOK
<1>2. Len(args) \in Nat /\ DOMAIN args = 1..Len(args)
  BY <1>1, LenProperties
<1>3. \A i \in DOMAIN args : args[i].param \in Params /\ Arg(i) # Unused
  BY DEF IInv, TypeOK, InUse, Arg
<1>4. \A i \in DOMAIN args : Arg(i) \in Contents
  BY <1>3 DEF IInv, TypeOK, Arg
<1>5. \A i, j \in DOMAIN args : args[i].param = args[j].param => i = j
  BY DEF IInv, TypeOK
<1>. QED  BY <1>2, <1>3, <1>4, <1>5

LEMMA FailOutcome ==
    ASSUME Fail
    PROVE  OutcomeInv'
BY DEF Fail, OutcomeInv

LEMMA NewParamOk ==
    ASSUME OkInv, NEW p \in Params, NEW kind \in Kinds, NEW capacity \in Sizes,
           NewParam(p, kind, capacity)
    PROVE  RoomInv' /\ OutcomeInv'
<1>. DEFINE c == [kind |-> kind, target |-> 0, buffer |-> 0,
                  capacity |-> capacity,
                  room |-> IF kind = "textNullable" THEN Unallocated
                                                    ELSE capacity,
                  indicator |-> 0]
<1>1. /\ param' = [param EXCEPT ![p] = c] /\ param[p] = Unused
      /\ kind \in Sized \/ capacity = MaxSize
      /\ UNCHANGED <<phase, args, pos, result, answer>>
  BY DEF NewParam, InUse, callVars
<1>2. c.kind = kind /\ (c.room = capacity \/ kind = "textNullable")
  OBVIOUS
<1>. HIDE DEF c
<1>3. Roomy(c)
  <2>1. c.room \in {Unallocated, 0, c.capacity} \/ kind # "textNullable"
    BY DEF c
  <2>. QED  BY <1>1, <1>2, <2>1 DEF Roomy, Sized
<1>4. RoomInv'
  BY <1>1, <1>3, RoomReplaced DEF OkInv
<1>5. \A i \in DOMAIN args : Arg(i)' = Arg(i) /\ AnswerTo(i)' = AnswerTo(i)
  <2>. SUFFICES ASSUME NEW i \in DOMAIN args
                PROVE  Arg(i)' = Arg(i) /\ AnswerTo(i)' = AnswerTo(i)
    OBVIOUS
  <2>1. args[i].param \in Params /\ args[i].param # p
    BY <1>1, ArgsApart DEF OkInv, Arg
  <2>2. param'[args[i].param] = param[args[i].param]
    BY <1>1, <2>1, Parts DEF OkInv, Placed
  <2>. QED  BY <1>1, <2>2 DEF Arg, AnswerTo
<1>6. OutcomeInv'
  BY <1>1, <1>5 DEF OkInv, OutcomeInv
<1>. QED  BY <1>4, <1>6

LEMMA BindOk ==
    ASSUME OkInv, BindNext \/ BindFails
    PROVE  RoomInv' /\ OutcomeInv'
<1>1. Current \in InUse /\ Sound(param[Current])
  BY CurrentInUse DEF OkInv, BindNext, BindFails
<1>2. Roomy(Prepared(param[Current])) /\ Current \in Params
  BY <1>1, PreparedRoomy DEF OkInv, RoomInv, InUse, Sound
<1>3. param' = param \/ param' = [param EXCEPT ![Current] = Prepared(param[Current])]
  BY DEF BindNext, BindFails
<1>4. RoomInv'
  BY <1>2, <1>3, RoomReplaced DEF OkInv, RoomInv
<1>5. OutcomeInv'
  <2>1. CASE BindFails
    BY <2>1, FailOutcome DEF BindFails
  <2>2. CASE BindNext
    BY <2>2 DEF BindNext, Advance, OutcomeInv
  <2>. QED  BY <2>1, <2>2
<1>. QED  BY <1>4, <1>5

LEMMA ExecuteNativeOk ==
    ASSUME OkInv, ExecuteNative
    PROVE  RoomInv' /\ OutcomeInv'
<1>. DEFINE Found(p) == CHOOSE m \in Names : bound[m] = p
            IndicatorOf(n, bad) == IF n \in bad THEN Invalid ELSE answer'[n]
            After(p, bad) == Stored(param[p], answer'[Found(p)],
                                    IndicatorOf(Found(p), bad))
<1>1. /\ phase = "execute" /\ answer' \in [Names -> Answers]
      /\ phase' = IF args = <<>> THEN "count" ELSE "complete"
      /\ UNCHANGED <<args, pos, bound, result>>
  BY DEF ExecuteNative
<1>2. PICK bad \in {{}} \union {{n} : n \in Names} :
        param' = [p \in Params |-> IF \E n \in Names : bound[n] = p
                                     THEN After(p, bad) ELSE param[p]]
  BY DEF ExecuteNative
<1>3. ASSUME NEW p \in Params, \E n \in Names : bound[n] = p
      PROVE  /\ Roomy(After(p, bad)) /\ Promises(After(p, bad), answer'[Found(p)])
             /\ Found(p) \in Names /\ bound[Found(p)] = p
  <2>1. Found(p) \in Names /\ bound[Found(p)] = p
    BY <1>3
  <2>2. param[p] # Unused /\ param[p] \in Contents
    BY <2>1, Parts DEF OkInv, Placed, Sound
  <2>3. Roomy(param[p])
    BY <2>2 DEF OkInv, RoomInv
  <2>4. /\ answer'[Found(p)] \in Answers
        /\ IndicatorOf(Found(p), bad) \in {Invalid, answer'[Found(p)]}
    BY <1>1, <2>1
  <2>. HIDE DEF Found, IndicatorOf
  <2>. QED  BY <2>1, <2>2, <2>3, <2>4, StoredPromises
<1>. HIDE DEF After, Found
<1>4. RoomInv'
  <2>. SUFFICES ASSUME NEW p \in Params, param'[p] # Unused
                PROVE  Roomy(param'[p])
    BY DEF RoomInv, Roomy
  <2>1. CASE \E n \in Names : bound[n] = p
    BY <1>2, <1>3, <2>1
  <2>2. CASE ~ \E n \in Names : bound[n] = p
    BY <1>2, <2>2 DEF OkInv, RoomInv
  <2>. QED  BY <2>1, <2>2
<1>5. DOMAIN args = 1..Len(args) /\ Len(args) \in Nat /\ Accepted(args) /\ pos = 1
      /\ \A i \in DOMAIN args : BoundAt(i) /\ args[i].param \in Params
  BY <1>1, ArgsApart DEF OkInv, IInv, CallInv
<1>6. ASSUME NEW i \in DOMAIN args
      PROVE  Promises(Arg(i)', AnswerTo(i)')
  <2>1. /\ args[i].name \in Names /\ bound[args[i].name] = args[i].param
        /\ args[i].param \in Params
    BY <1>5, <1>6 DEF BoundAt
  <2>2. /\ Found(args[i].param) \in Names
        /\ bound[Found(args[i].param)] = args[i].param
        /\ Promises(After(args[i].param, bad), answer'[Found(args[i].param)])
    BY <1>3, <2>1
  <2>3. PICK j \in DOMAIN args : args[j].name = Found(args[i].param)
    BY <1>5, <2>2, EveryNameOnce DEF BoundAt
  <2>4. i = j
    BY <1>5, <2>2, <2>3, ArgsApart DEF BoundAt, OkInv
  <2>5. param'[args[i].param] = After(args[i].param, bad)
    BY <1>2, <2>1
  <2>. QED  BY <1>1, <2>2, <2>3, <2>4, <2>5 DEF Arg, AnswerTo
<1>7. OutcomeInv'
  <2>1. \A i \in DOMAIN args' : ~(i < pos')
    BY <1>1, <1>5
  <2>2. phase' = "complete" => \A i \in DOMAIN args' : Promises(Arg(i), AnswerTo(i))'
    BY <1>1, <1>6
  <2>3. phase' = "count" => DOMAIN args' = {}
    BY <1>1
  <2>. QED  BY <1>1, <2>1, <2>2, <2>3 DEF OutcomeInv
<1>. QED  BY <1>4, <1>7

LEMMA CompleteNextOk ==
    ASSUME OkInv, CompleteNext
    PROVE  RoomInv' /\ OutcomeInv'
<1>1. /\ pos \in 1..Len(args) /\ Len(args) \in Nat
      /\ DOMAIN args = 1..Len(args)
      /\ Current \in InUse /\ param[Current] \in Contents
  BY CurrentInUse DEF OkInv, CompleteNext, Sound
<1>. DEFINE c == Completed(param[Current])
<1>2. /\ phase = "complete"
      /\ param' = [param EXCEPT ![Current] = c]
      /\ IsInput(param[Current]) \/ ~Rejected(param[Current])
      /\ Advance("count") /\ UNCHANGED <<args, result, bound, answer>>
  BY DEF CompleteNext, Advance
<1>3. Roomy(c) /\ c.kind = param[Current].kind /\ Current \in Params
  BY <1>1, CompletedRoomy DEF OkInv, RoomInv, InUse
<1>4. Delivered(c, AnswerTo(pos))
  <2>1. Promises(param[Current], AnswerTo(pos))
    BY <1>1, <1>2 DEF OkInv, OutcomeInv, Current, Arg
  <2>. QED  BY <1>2, <1>3, <2>1 DEF Promises, Delivered, IsInput, Unseen
<1>. HIDE DEF c
<1>5. RoomInv'
  BY <1>2, <1>3, RoomReplaced DEF OkInv
<1>6. \A i \in DOMAIN args :
        /\ AnswerTo(i)' = AnswerTo(i)
        /\ Arg(i)' = IF i = pos THEN c ELSE Arg(i)
  <2>. SUFFICES ASSUME NEW i \in DOMAIN args
                PROVE  /\ AnswerTo(i)' = AnswerTo(i)
                       /\ Arg(i)' = IF i = pos THEN c ELSE Arg(i)
    OBVIOUS
  <2>1. args[i].param \in Params /\ (args[i].param = Current <=> i = pos)
    BY <1>1, ArgsApart DEF OkInv, Current
  <2>2. param'[args[i].param] = IF i = pos THEN c ELSE param[args[i].param]
    BY <1>2, <2>1, Parts DEF OkInv, Placed
  <2>. QED  BY <1>2, <2>2 DEF Arg, AnswerTo
<1>7. \A i \in DOMAIN args : i <= pos => Delivered(Arg(i), AnswerTo(i))'
  BY <1>1, <1>2, <1>4, <1>6 DEF OkInv, OutcomeInv
<1>8. \A i \in DOMAIN args : i > pos => Promises(Arg(i), AnswerTo(i))'
  BY <1>1, <1>2, <1>6 DEF OkInv, OutcomeInv
<1>9. OutcomeInv'
  <2>1. CASE pos < Len(args)
    <3>1. phase' = "complete" /\ pos' = pos + 1 /\ args' = args
      BY <1>2, <2>1 DEF Advance
    <3>2. \A i \in DOMAIN args : (i < pos' <=> i <= pos) /\ (~(i < pos') <=> i > pos)
      BY <1>1, <3>1
    <3>. QED  BY <1>7, <1>8, <3>1, <3>2 DEF OutcomeInv
  <2>2. CASE ~(pos < Len(args))
    <3>1. phase' = "count" /\ args' = args
      BY <1>2, <2>2 DEF Advance
    <3>2. \A i \in DOMAIN args : i <= pos
      BY <1>1, <2>2
    <3>. QED  BY <1>7, <3>1, <3>2 DEF OutcomeInv
  <2>. QED  BY <2>1, <2>2
<1>. QED  BY <1>5, <1>9

LEMMA CountRowsOk ==
    ASSUME OkInv, CountRows
    PROVE  RoomInv' /\ OutcomeInv'
<1>1. RoomInv'
  BY DEF OkInv, CountRows, RoomInv
<1>2. CASE Fail
  BY <1>1, <1>2, FailOutcome
<1>3. CASE phase' = "idle" /\ result' = "ok" /\ UNCHANGED <<args, pos, answer>>
  BY <1>1, <1>3 DEF OkInv, CountRows, OutcomeInv, Arg, AnswerTo
<1>. QED  BY <1>2, <1>3 DEF CountRows

LEMMA OkInductive ==
    ASSUME OkInv, [Next]_vars
    PROVE  OkInv'
<1>1. IInv'
  BY Inductive DEF OkInv
<1>2. CASE \E p \in Params, k \in Kinds, c \in Sizes : NewParam(p, k, c)
  BY <1>1, <1>2, NewParamOk DEF OkInv
<1>3. CASE \E p \in Params : DropParam(p)
  <2>1. PICK p \in Params : DropParam(p)
    BY <1>3
  <2>2. \A q \in Params : param'[q] = IF q = p THEN Unused ELSE param[q]
    BY <2>1, Parts DEF OkInv, Placed, DropParam
  <2>3. RoomInv'
    BY <2>2 DEF OkInv, RoomInv
  <2>4. OutcomeInv'
    BY <2>1 DEF DropParam, OutcomeInv
  <2>. QED  BY <1>1, <2>3, <2>4 DEF OkInv
<1>4. CASE \E ps \in ArgLists : Call(ps)
  <2>1. PICK ps \in ArgLists : Call(ps)
    BY <1>4
  <2>2. RoomInv'
    BY <2>1 DEF OkInv, RoomInv, Call
  <2>3. CASE ~Accepted(ps)
    BY <1>1, <2>1, <2>2, <2>3, FailOutcome DEF OkInv, Call
  <2>4. CASE Accepted(ps)
    <3>1. phase' \in {"execute", "bind"}
      BY <2>1, <2>4 DEF Call
    <3>. QED  BY <1>1, <2>2, <3>1 DEF OkInv, OutcomeInv
  <2>. QED  BY <2>3, <2>4
<1>5. CASE BindNext \/ BindFails
  BY <1>1, <1>5, BindOk DEF OkInv
<1>6. CASE ExecuteNative
  BY <1>1, <1>6, ExecuteNativeOk DEF OkInv
<1>7. CASE ExecuteFails \/ CompleteFails
  <2>1. param' = param /\ Fail
    BY <1>7 DEF ExecuteFails, CompleteFails
  <2>. QED  BY <1>1, <2>1, FailOutcome DEF OkInv, RoomInv
<1>8. CASE CompleteNext
  BY <1>1, <1>8, CompleteNextOk DEF OkInv
<1>9. CASE CountRows
  BY <1>1, <1>9, CountRowsOk DEF OkInv
<1>10. CASE UNCHANGED vars
  BY <1>1, <1>10 DEF vars, callVars, OkInv, RoomInv, OutcomeInv, Arg, AnswerTo
<1>. QED  BY <1>2, <1>3, <1>4, <1>5, <1>6, <1>7, <1>8, <1>9, <1>10 DEF Next

LEMMA Outcome == Spec => []OkInv
<1>1. Init => OkInv
  <2>. SUFFICES ASSUME Init
                PROVE  OkInv
    OBVIOUS
  <2>1. IInv
    BY Initially
  <2>2. RoomInv /\ OutcomeInv
    BY DEF Init, RoomInv, OutcomeInv
  <2>. QED  BY <2>1, <2>2 DEF OkInv
<1>2. OkInv /\ [Next]_vars => OkInv'
  BY OkInductive
<1>. QED  BY <1>1, <1>2, PTL DEF Spec

(* Ok means that every output target holds what the server returned, a     *)
(* NULL in an Option, with one exception: the NULL of a native form.       *)
OkButUnseen ==
    phase = "idle" /\ result = "ok" =>
        \A i \in DOMAIN args :
            LET c == Arg(i)
                v == AnswerTo(i)
            IN  c.kind # "input" =>
                  \/ c.kind = "native" /\ v = Null
                  \/ c.target = v /\ (v = Null => c.kind \in Optional)

(* stmt.rs, execute_params and Output::complete, for all kinds of          *)
(* parameters: the NULL of a Number or Timestamp is the only answer that a *)
(* call can return Ok without having delivered.                            *)
THEOREM OnlyNativeNullUnseen == Spec => []OkButUnseen
<1>1. OkInv => OkButUnseen
  BY DEF OkInv, OutcomeInv, OkButUnseen, Delivered, Unseen, IsInput
<1>. QED  BY <1>1, Outcome, PTL

(* Without these two kinds, when a call returns Ok every output target     *)
(* holds what the server returned to this call, for any number of          *)
(* parameters and whatever earlier calls left in them,                     *)
THEOREM OkMeansAnswered ==
    ASSUME "native" \notin Kinds
    PROVE  Spec => []OkMeansDelivered
<1>1. OkInv => OkMeansDelivered
  <2>. SUFFICES ASSUME OkInv, phase = "idle", result = "ok", NEW i \in DOMAIN args
                PROVE  Arg(i).kind # "input" => Arg(i).target = AnswerTo(i)
    BY DEF OkMeansDelivered, Arg, AnswerTo
  <2>1. Arg(i).kind \in Kinds
    BY ArgsApart DEF OkInv, RoomInv, Roomy, Arg
  <2>. QED  BY <2>1 DEF OkInv, OutcomeInv, Delivered, Unseen, IsInput
<1>. QED  BY <1>1, Outcome, PTL

(* and a NULL for a target that cannot hold it is not an Ok                *)
(* (output.rs:222).                                                        *)
THEOREM NullNotOk ==
    ASSUME "native" \notin Kinds
    PROVE  Spec => []NullRejected
<1>1. OkInv => NullRejected
  <2>. SUFFICES ASSUME OkInv, phase = "idle", result = "ok", NEW i \in DOMAIN args,
                       Arg(i).kind \in {"fixed", "native", "text", "json"}
                PROVE  AnswerTo(i) # Null
    BY DEF NullRejected, Arg, AnswerTo
  <2>1. Arg(i).kind \in Kinds
    BY ArgsApart DEF OkInv, RoomInv, Roomy, Arg
  <2>. QED  BY <2>1 DEF OkInv, OutcomeInv, Delivered, Unseen, IsInput, Optional
<1>. QED  BY <1>1, Outcome, PTL

(* Output::native_value: what a call binds for a nullable text is its      *)
(* whole capacity or nothing,                                              *)
WholeOrNone ==
    phase = "execute" =>
        \A i \in DOMAIN args :
            Arg(i).kind = "textNullable" => Arg(i).room \in {0, Arg(i).capacity}

(* Output::native_value: at the native call a nullable text is bound with  *)
(* its whole capacity or with none, for any number of parameters and of    *)
(* earlier calls with them.                                                *)
THEOREM CapacityWholeOrNone == Spec => []WholeOrNone
<1>1. OkInv => WholeOrNone
  <2>. SUFFICES ASSUME OkInv, phase = "execute", NEW i \in DOMAIN args,
                       Arg(i).kind = "textNullable"
                PROVE  Arg(i).room \in {0, Arg(i).capacity}
    BY DEF WholeOrNone
  <2>1. i \in 1..Len(args) /\ args[i].param \in Params /\ Arg(i) # Unused
    BY ArgsApart DEF OkInv
  <2>2. bound[args[i].name] = args[i].param /\ args[i].name \in Names
    BY <2>1 DEF OkInv, IInv, CallInv, BoundAt
  <2>3. Arg(i).room # Unallocated
    BY <2>1, <2>2 DEF OkInv, IInv, MemoryInv, Arg
  <2>. QED  BY <2>1, <2>3 DEF OkInv, RoomInv, Roomy, Arg
<1>. QED  BY <1>1, Outcome, PTL

(* and the room that a completed value took along never comes back, for as *)
(* long as the BindParam lives.                                            *)
Spent(c) == c # Unused /\ c.kind = "textNullable" /\ c.room = 0

RoomGoneForGood ==
    [][\A p \in Params : Spent(param[p]) => param'[p] = Unused \/ Spent(param'[p])]_vars

LEMMA SpentStays ==
    ASSUME NEW c \in Contents, Spent(c)
    PROVE  /\ Prepared(c) = c
           /\ Spent(Completed(c))
           /\ \A v \in Answers, i \in {Invalid} \union Answers :
                Stored(c, v, i) \in Contents => Spent(Stored(c, v, i))
<1>1. Prepared(c) = c
  BY DEF Prepared, Spent
<1>2. Spent(Completed(c))
  <2>1. \/ Completed(c) = [c EXCEPT !.target = Null]
        \/ Completed(c) = [c EXCEPT !.target = c.indicator, !.room = 0]
    BY DEF Completed, Optional, Spent
  <2>2. Completed(c).kind = "textNullable" /\ Completed(c).room = 0
    BY <2>1 DEF Spent, Contents
  <2>. QED  BY <2>2 DEF Spent, Unused
<1>3. ASSUME NEW v \in Answers, NEW i \in {Invalid} \union Answers,
             Stored(c, v, i) \in Contents
      PROVE  Spent(Stored(c, v, i))
  <2>1. Stored(c, v, i).kind = "textNullable" /\ Stored(c, v, i).room = 0
    BY DEF Stored, Direct, Spent, Contents
  <2>. QED  BY <1>3, <2>1, ContentsInUse DEF Spent
<1>. QED  BY <1>1, <1>2, <1>3

(* A nullable text that once received a value is bound with no capacity by *)
(* every later call, so that only NULL fits into it: it has to be made     *)
(* anew.                                                                   *)
THEOREM SpentForGood == Spec => RoomGoneForGood
<1>1. IInv /\ [Next]_vars =>
        \A p \in Params : Spent(param[p]) => param'[p] = Unused \/ Spent(param'[p])
  <2>. SUFFICES ASSUME IInv, [Next]_vars, NEW p \in Params, Spent(param[p])
                PROVE  param'[p] = Unused \/ Spent(param'[p])
    OBVIOUS
  <2>a. Placed(param, bound)
    BY Parts
  <2>b. param' \in [Params -> Contents \union {Unused}]
    BY Inductive DEF IInv, TypeOK
  <2>1. param[p] \in Contents /\ Placed(param, bound)
    BY <2>a DEF Placed, Spent
  <2>2. ASSUME NEW q \in Params, NEW k \in Kinds, NEW c \in Sizes, NewParam(q, k, c)
        PROVE  Spent(param'[p])
    BY <2>1, <2>2 DEF NewParam, InUse, Placed, Spent
  <2>3. ASSUME NEW q \in Params, DropParam(q)
        PROVE  param'[p] = Unused \/ Spent(param'[p])
    BY <2>1, <2>3 DEF DropParam, Placed
  <2>4. CASE BindNext \/ BindFails \/ CompleteNext
    <3>1. \/ param' = param
          \/ param' = [param EXCEPT ![Current] = Prepared(param[Current])]
          \/ param' = [param EXCEPT ![Current] = Completed(param[Current])]
      BY <2>4 DEF BindNext, BindFails, CompleteNext
    <3>2. param'[p] \in {param[p], Prepared(param[p]), Completed(param[p])}
      BY <2>1, <3>1 DEF Placed
    <3>. QED  BY <2>1, <3>2, SpentStays
  <2>5. CASE ExecuteNative
    <3>1. PICK bad \in {{}} \union {{n} : n \in Names} :
            param' = [r \in Params |->
               IF \E n \in Names : bound[n] = r
                 THEN LET n == CHOOSE m \in Names : bound[m] = r
                      IN  Stored(param[r], answer'[n], IF n \in bad THEN Invalid ELSE answer'[n])
                 ELSE param[r]]
      BY <2>5 DEF ExecuteNative
    <3>2. CASE \E n \in Names : bound[n] = p
      <4>. DEFINE n == CHOOSE m \in Names : bound[m] = p
                  i == IF n \in bad THEN Invalid ELSE answer'[n]
      <4>1. n \in Names
        BY <3>2
      <4>2. answer'[n] \in Answers /\ i \in {Invalid} \union Answers
        BY <2>5, <4>1 DEF ExecuteNative
      <4>3. param'[p] = Stored(param[p], answer'[n], i)
        BY <3>1, <3>2
      <4>4. param'[p] = Unused \/ param'[p] \in Contents
        BY <2>b
      <4>. HIDE DEF n, i
      <4>. QED  BY <2>1, <4>2, <4>3, <4>4, SpentStays
    <3>3. CASE ~ \E n \in Names : bound[n] = p
      BY <3>1, <3>3
    <3>. QED  BY <3>2, <3>3
  <2>6. CASE ExecuteFails \/ CompleteFails \/ CountRows \/ UNCHANGED vars
    BY <2>6 DEF ExecuteFails, CompleteFails, CountRows, vars
  <2>7. ASSUME NEW ps \in ArgLists, Call(ps)
        PROVE  Spent(param'[p])
    BY <2>7 DEF Call
  <2>. QED  BY <2>2, <2>3, <2>4, <2>5, <2>6, <2>7 DEF Next
<1>. QED  BY <1>1, Invariant, PTL DEF Spec, RoomGoneForGood
-----------------------------------------------------------------------------
(* What a call in progress may touch, and how long it takes.               *)

LEMMA ArgsSequence ==
    ASSUME IInv
    PROVE  /\ Len(args) \in Nat /\ DOMAIN args = 1..Len(args)
           /\ \A i \in DOMAIN args : args[i].param \in Params
<1>1. args \in Seq([name : Names \union {Unknown}, param : Params])
  BY DEF IInv, TypeOK
<1>2. Len(args) \in Nat /\ DOMAIN args = 1..Len(args)
  BY <1>1, LenProperties
<1>. QED  BY <1>1, <1>2, ArgType

(* bind_params binds each placeholder anew before the native statement     *)
(* runs, so the client writes to no BindParam that was not passed to this  *)
(* call, whatever earlier calls left bound and however they failed.        *)
KeepsOthers ==
    phase # "idle" =>
        \A p \in Params :
            (\A i \in DOMAIN args : args[i].param # p) => param'[p] = param[p]

OthersUntouched == [][KeepsOthers]_vars

(* execute_params and execute_named_params: a call writes to no BindParam  *)
(* that it was not given, though the statement may still point at it.      *)
THEOREM OthersAreUntouched == Spec => OthersUntouched
<1>1. ASSUME IInv, Next PROVE KeepsOthers
  <2>. SUFFICES ASSUME phase # "idle", NEW p \in Params,
                       \A i \in DOMAIN args : args[i].param # p
                PROVE  param'[p] = param[p]
    BY DEF KeepsOthers
  <2>1. Placed(param, bound)
    BY <1>1, Parts
  <2>2. CASE BindNext \/ BindFails \/ CompleteNext
    <3>1. Current # p
      BY <1>1, <2>2, CurrentInUse DEF BindNext, BindFails, CompleteNext, Current
    <3>2. \/ param' = param
          \/ param' = [param EXCEPT ![Current] = Prepared(param[Current])]
          \/ param' = [param EXCEPT ![Current] = Completed(param[Current])]
      BY <2>2 DEF BindNext, BindFails, CompleteNext
    <3>. QED  BY <2>1, <3>1, <3>2 DEF Placed
  <2>3. CASE ExecuteNative
    <3>1. Accepted(args) /\ \A i \in 1..Len(args) : BoundAt(i)
      BY <1>1, <2>3 DEF ExecuteNative, IInv, CallInv
    <3>2. ~ \E n \in Names : bound[n] = p
      <4>. SUFFICES ASSUME NEW n \in Names, bound[n] = p PROVE FALSE
        OBVIOUS
      <4>1. PICK i \in DOMAIN args : args[i].name = n
        BY <1>1, <3>1, ArgsSequence, EveryNameOnce DEF BoundAt
      <4>2. bound[n] = args[i].param
        BY <1>1, <3>1, <4>1, ArgsSequence DEF BoundAt
      <4>. QED  BY <4>1, <4>2
    <3>. QED  BY <2>3, <3>2 DEF ExecuteNative
  <2>4. CASE ExecuteFails \/ CompleteFails \/ CountRows
    BY <2>4 DEF ExecuteFails, CompleteFails, CountRows
  <2>5. /\ \A q \in Params, k \in Kinds, c \in Sizes : ~NewParam(q, k, c)
        /\ \A q \in Params : ~DropParam(q)
        /\ \A ps \in ArgLists : ~Call(ps)
    BY DEF NewParam, DropParam, Call
  <2>. QED  BY <1>1, <2>2, <2>3, <2>4, <2>5 DEF Next
<1>2. UNCHANGED vars => KeepsOthers
  BY DEF vars, KeepsOthers
<1>. QED  BY <1>1, <1>2, Invariant, PTL DEF Spec, OthersUntouched

(* The most steps that the call in progress can still take.                *)
Remaining ==
    IF phase = "idle" THEN 0
    ELSE IF phase = "count" THEN 1
    ELSE IF phase = "complete" THEN Len(args) - pos + 2
    ELSE IF phase = "execute" THEN Len(args) + 2
    ELSE Len(args) - pos + Len(args) + 3

Shortens == Remaining \in Nat /\ Remaining' \in Nat /\ Remaining' < Remaining

LEMMA RemainingBounds ==
    ASSUME IInv
    PROVE  /\ Remaining \in Nat
           /\ phase # "idle" => Remaining > 0
<1>1. Len(args) \in Nat
  BY ArgsSequence
<1>2. phase \in {"bind", "complete"} => pos \in 1..Len(args)
  BY DEF IInv, CallInv
<1>3. phase \in {"idle", "bind", "execute", "complete", "count"}
  BY DEF IInv, TypeOK
<1>. QED  BY <1>1, <1>2, <1>3 DEF Remaining

(* Every step of a call, a failure included, brings it nearer to its end:  *)
(* with n parameters, execute makes at most n binds, one native call, n    *)
(* completions and one count of rows, and returns.                         *)
CallsShorten == [][phase # "idle" => Shortens]_vars

(* stmt.rs, execute_params and execute_named_params: every step of a call, *)
(* a failing one too, brings it nearer to its return.                      *)
THEOREM CallsAreBounded == Spec => CallsShorten
<1>1. ASSUME IInv, IInv', Next, phase # "idle" PROVE Shortens
  <2>0. /\ Remaining \in Nat /\ Remaining > 0 /\ Remaining' \in Nat
        /\ Len(args) \in Nat
    <3>1. Len(args) \in Nat
      BY <1>1, ArgsSequence
    <3>2. Len(args') \in Nat
      BY <1>1, LenProperties DEF IInv, TypeOK
    <3>3. phase' \in {"bind", "complete"} => pos' \in 1..Len(args')
      BY <1>1 DEF IInv, CallInv
    <3>4. phase' \in {"idle", "bind", "execute", "complete", "count"}
      BY <1>1 DEF IInv, TypeOK
    <3>5. Remaining' \in Nat
      BY <3>2, <3>3, <3>4 DEF Remaining
    <3>. QED  BY <1>1, <3>1, <3>5, RemainingBounds
  <2>1. CASE phase' = "idle"
    BY <2>0, <2>1 DEF Shortens, Remaining
  <2>2. CASE BindNext \/ CompleteNext
    <3>1. /\ phase \in {"bind", "complete"} /\ args' = args
          /\ IF pos < Len(args) THEN pos' = pos + 1 /\ phase' = phase
             ELSE pos' = 1 /\ phase' = IF phase = "bind" THEN "execute" ELSE "count"
      BY <2>2 DEF BindNext, CompleteNext, Advance
    <3>2. pos \in 1..Len(args)
      BY <1>1, <3>1 DEF IInv, CallInv
    <3>3. Remaining' < Remaining
      BY <2>0, <3>1, <3>2 DEF Remaining
    <3>. QED  BY <2>0, <3>3 DEF Shortens
  <2>3. CASE ExecuteNative
    <3>1. /\ phase = "execute" /\ args' = args /\ pos' = pos /\ pos = 1
          /\ phase' = "count" \/ phase' = "complete"
      BY <1>1, <2>3 DEF ExecuteNative, IInv, CallInv
    <3>2. Remaining' < Remaining
      BY <2>0, <3>1 DEF Remaining
    <3>. QED  BY <2>0, <3>2 DEF Shortens
  <2>4. CASE BindFails \/ ExecuteFails \/ CompleteFails \/ CountRows
    BY <2>1, <2>4 DEF BindFails, ExecuteFails, CompleteFails, CountRows, Fail
  <2>5. /\ \A q \in Params, k \in Kinds, c \in Sizes : ~NewParam(q, k, c)
        /\ \A q \in Params : ~DropParam(q)
        /\ \A ps \in ArgLists : ~Call(ps)
    BY <1>1 DEF NewParam, DropParam, Call
  <2>. QED  BY <1>1, <2>2, <2>3, <2>4, <2>5 DEF Next
<1>. QED  BY <1>1, Inductive, Invariant, PTL DEF Spec, CallsShorten
=============================================================================
