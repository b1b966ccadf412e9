---------------------------- MODULE ParamBinding ----------------------------
(***************************************************************************)
(* Statement::execute and execute_named with their parameters (stmt.rs,    *)
(* param/): every parameter is bound to memory of its BindParam or of the  *)
(* target behind it, the native statement runs, and the outputs are        *)
(* completed in order.  A BindParam may be passed to several calls, and    *)
(* what a call leaves bound stays bound until it is bound again.           *)
(*                                                                         *)
(* A value is its size in bytes, Null is SQL NULL and also its indicator.  *)
(* External: yacExecute writes a value and its size to the memory and the  *)
(* indicator last bound to the placeholder, no more bytes than the memory  *)
(* has, and writes only the indicator for Null; a name that the SQL does   *)
(* not have cannot be bound.                                               *)
(***************************************************************************)
EXTENDS Integers, Sequences

CONSTANTS
    Count,      \* num_params: the placeholders of the SQL
    Params,     \* the BindParams an application keeps
    Kinds,      \* the kinds of parameters in use, of AllKinds
    MaxSize,    \* bound: sizes of values and capacities
    NoParam,    \* a placeholder that was never bound
    Gone        \* a placeholder bound to a BindParam that was dropped

(* "fixed" stands for scalars and for Blob and Clob, "native" for Number   *)
(* and Timestamp, which have a native form of their own, "text" for String *)
(* and Vec<u8>; "nullable", "textNullable" and "jsonNullable" for the      *)
(* Option forms, of LOBs too.                                              *)
AllKinds == {"input", "fixed", "native", "nullable", "text", "textNullable",
             "json", "jsonNullable"}

ASSUME BindingAssumption ==
    /\ Count \in Nat
    /\ MaxSize \in Nat
    /\ Kinds \subseteq AllKinds
    /\ {NoParam, Gone} \intersect Params = {}

VARIABLES
    param,      \* BindParam -> its contents, or Unused
    phase,      \* "idle" or the part of the call in progress
    args,       \* the parameters of the last call: names and BindParams
    pos,        \* position in args
    bound,      \* placeholder -> the BindParam its memory belongs to
    answer,     \* history: placeholder -> what the server returned
    result      \* what the last call returned

callVars == <<phase, args, pos, result>>
vars == <<param, callVars, bound, answer>>

Names == 1..Count
Unknown == 0                \* a name that is not in the SQL
Null == -1                  \* NULL_DATA
Invalid == -2               \* an indicator the client must not return
Sizes == 1..MaxSize
Unallocated == -1           \* a nullable buffer that does not exist yet
Answers == Sizes \union {Null}

(* target is what the application's variable holds (Null: None, 0: its     *)
(* initial contents), buffer what the client wrote outside of it: to the   *)
(* native form or buffer in the BindParam, or to a text's spare capacity;  *)
(* capacity what the application asked for, room what there is.            *)
Contents == [kind : AllKinds, target : {Null} \union 0..MaxSize,
             buffer : 0..MaxSize, capacity : Sizes,
             room : {Unallocated} \union 0..MaxSize,
             indicator : {Invalid, Null} \union 0..MaxSize]
Unused == [kind |-> "unused"]
InUse == {p \in Params : param[p] # Unused}

TypeOK ==
    /\ param \in [Params -> Contents \union {Unused}]
    /\ phase \in {"idle", "bind", "execute", "complete", "count"}
    /\ args \in Seq([name : Names \union {Unknown}, param : Params])
    /\ pos \in Nat
    /\ bound \in [Names -> Params \union {NoParam, Gone}]
    /\ answer \in [Names -> Answers]
    /\ result \in {"none", "ok", "failed"}
    \* The BindParams of a call exist, and are distinct: they are &mut.
    /\ \A i \in DOMAIN args :
         /\ args[i].param \in InUse
         /\ \A j \in DOMAIN args : args[i].param = args[j].param => i = j

Init ==
    /\ param = [p \in Params |-> Unused]
    /\ phase = "idle" /\ args = <<>> /\ pos = 1 /\ result = "none"
    /\ bound = [n \in Names |-> NoParam]
    /\ answer = [n \in Names |-> Null]

-----------------------------------------------------------------------------
(* The kinds whose values vary in size; any other value fits its target.   *)
Sized == {"text", "textNullable"}

(* input(), output() and in_out(): a String or Vec brings its capacity.    *)
NewParam(p, kind, capacity) ==
    /\ phase = "idle" /\ p \notin InUse
    /\ kind \in Sized \/ capacity = MaxSize
    /\ param' = [param EXCEPT ![p] =
         [kind |-> kind, target |-> 0, buffer |-> 0, capacity |-> capacity,
          room |-> IF kind = "textNullable" THEN Unallocated ELSE capacity,
          indicator |-> 0]]
    /\ UNCHANGED <<callVars, bound, answer>>

(* The BindParam is dropped; the native statement keeps its address.       *)
DropParam(p) ==
    /\ phase = "idle" /\ p \in InUse
    /\ param' = [param EXCEPT ![p] = Unused]
    /\ bound' = [n \in Names |-> IF bound[n] = p THEN Gone ELSE bound[n]]
    /\ args' = <<>> /\ result' = "none"
    /\ answer' = [n \in Names |-> Null]
    /\ UNCHANGED <<phase, pos>>

(* The call is over; when it failed its parameters matter no more.         *)
Fail ==
    /\ phase' = "idle" /\ result' = "failed"
    /\ args' = <<>> /\ pos' = 1
    /\ answer' = [n \in Names |-> Null]

Advance(next) ==
    /\ IF pos < Len(args) THEN pos' = pos + 1 /\ UNCHANGED phase
                          ELSE pos' = 1 /\ phase' = next
    /\ UNCHANGED <<args, result>>

Distinct(ps) == \A i, j \in DOMAIN ps : ps[i].name = ps[j].name => i = j

(* Mutant: the number of parameters is enough, whatever their names.       *)
AcceptedByCount(ps) == Len(ps) = Count

(* The checks before anything is bound: no name twice (execute_named; the  *)
(* positions of execute are distinct), and as many as the SQL has.         *)
Accepted(ps) == Distinct(ps) /\ Len(ps) = Count

(* ensure_ready and the checks of execute_params or execute_named_params.  *)
Call(ps) ==
    /\ phase = "idle"
    /\ IF ~Accepted(ps)
         THEN Fail
         ELSE /\ args' = ps
              /\ pos' = 1
              /\ phase' = IF ps = <<>> THEN "execute" ELSE "bind"
              /\ answer' = [n \in Names |-> Null]
              /\ result' = "none"
    /\ UNCHANGED <<param, bound>>

(* Calls of the application: one parameter per position, or names.         *)
ArgLists ==
    UNION {{ps \in [1..n -> [name : Names \union {Unknown}, param : InUse]] :
              \A i, j \in 1..n : ps[i].param = ps[j].param => i = j} :
           n \in 0..(Count + 1)}

-----------------------------------------------------------------------------
(* Output::native_value: a nullable text takes its buffer from the target, *)
(* which becomes None, unless it already has one.                          *)
Prepared(c) ==
    IF c.kind = "textNullable" /\ c.room = Unallocated
      THEN [c EXCEPT !.target = Null, !.room = c.capacity]
      ELSE c

Current == args[pos].param

BindNext ==
    /\ phase = "bind"
    /\ args[pos].name \in Names
    /\ param' = [param EXCEPT ![Current] = Prepared(@)]
    /\ bound' = [bound EXCEPT ![args[pos].name] = Current]
    /\ Advance("execute")
    /\ UNCHANGED answer

(* A locator or temporary cannot be made, or the client refuses the bind.  *)
BindFails ==
    /\ phase = "bind"
    /\ \/ param' = [param EXCEPT ![Current] = Prepared(@)]
       \/ UNCHANGED param
    /\ Fail
    /\ UNCHANGED bound

(* What the client leaves in a bound parameter for a value v.  The bytes   *)
(* of a text are not part of the String or Vec until its length is set.    *)
Direct == {"fixed"}

Stored(c, v, i) ==
    LET written == IF v < c.room THEN v ELSE c.room
    IN  IF c.kind = "input" THEN c
        ELSE IF v = Null THEN [c EXCEPT !.indicator = i]
        ELSE IF c.kind \in Direct THEN [c EXCEPT !.target = written, !.indicator = i]
        ELSE [c EXCEPT !.buffer = written, !.indicator = i]

(* yacExecute, with its outputs.                                           *)
ExecuteNative ==
    /\ phase = "execute"
    /\ answer' \in [Names -> Answers]
    /\ \E bad \in {{}} \union {{n} : n \in Names} :
         param' = [p \in Params |->
           IF \E n \in Names : bound[n] = p
             THEN LET n == CHOOSE m \in Names : bound[m] = p
                  IN  Stored(param[p], answer'[n], IF n \in bad THEN Invalid ELSE answer'[n])
             ELSE param[p]]
    /\ phase' = IF args = <<>> THEN "count" ELSE "complete"
    /\ UNCHANGED <<args, pos, bound, result>>

ExecuteFails ==
    /\ phase = "execute"
    /\ Fail
    /\ UNCHANGED <<param, bound>>

-----------------------------------------------------------------------------
(* Output::complete                                                        *)

(* Mutant: the length the client reports is taken as it is.                *)
OutputLenUnchecked(c) == c.indicator # Null

(* output_len: a negative indicator is a huge usize.                       *)
OutputLen(c) == c.indicator # Null /\ c.indicator <= c.room

(* The completion of a parameter returns Err without looking further.      *)
Rejected(c) ==
    \/ c.indicator < Null
    \/ c.indicator = Null /\ c.kind \in {"fixed", "text", "json"}
    \/ c.kind = "text" /\ ~OutputLen(c)
    \/ c.kind = "textNullable" /\ c.indicator # Null /\ ~OutputLen(c)

Optional == {"nullable", "textNullable", "jsonNullable"}

(* Mutant: a NULL leaves the last value in an Option target.               *)
CompletedUnlessNull(c) ==
    CASE c.kind \in {"input", "fixed"} -> c
      [] c.kind = "text" -> [c EXCEPT !.target = c.indicator]
      [] c.kind \in {"native", "json"} -> [c EXCEPT !.target = c.buffer]
      [] c.kind \in Optional /\ c.indicator = Null -> c
      [] c.kind = "textNullable" /\ c.indicator # Null -> [c EXCEPT !.target = c.indicator, !.room = 0]
      [] OTHER -> [c EXCEPT !.target = c.buffer]

Completed(c) ==
    CASE c.kind \in {"input", "fixed"} -> c
      [] c.kind = "text" -> [c EXCEPT !.target = c.indicator]
      [] c.kind \in {"native", "json"} -> [c EXCEPT !.target = c.buffer]
      [] c.kind \in Optional /\ c.indicator = Null -> [c EXCEPT !.target = Null]
      \* mem::take moves the buffer, with its capacity, to the target.
      [] c.kind = "textNullable" /\ c.indicator # Null -> [c EXCEPT !.target = c.indicator, !.room = 0]
      [] OTHER -> [c EXCEPT !.target = c.buffer]

IsInput(c) == c.kind = "input"

CompleteNext ==
    /\ phase = "complete"
    /\ IsInput(param[Current]) \/ ~Rejected(param[Current])
    /\ param' = [param EXCEPT ![Current] = Completed(@)]
    /\ Advance("count")
    /\ UNCHANGED <<bound, answer>>

(* The value is rejected, or the bytes of a JSON value cannot be read.     *)
CompleteFails ==
    /\ phase = "complete"
    /\ ~IsInput(param[Current])
    /\ Rejected(param[Current]) \/ param[Current].kind \in {"json", "jsonNullable"}
    /\ Fail
    /\ UNCHANGED <<param, bound>>

(* get_stmt_rows_affected, after everything has happened.                  *)
CountRows ==
    /\ phase = "count"
    /\ \/ Fail
       \/ /\ phase' = "idle" /\ result' = "ok"
          /\ UNCHANGED <<args, pos, answer>>
    /\ UNCHANGED <<param, bound>>

Next ==
    \/ \E p \in Params, k \in Kinds, c \in Sizes : NewParam(p, k, c)
    \/ \E p \in Params : DropParam(p)
    \/ \E ps \in ArgLists : Call(ps)
    \/ BindNext \/ BindFails
    \/ ExecuteNative \/ ExecuteFails
    \/ CompleteNext \/ CompleteFails
    \/ CountRows

Spec == Init /\ [][Next]_vars

-----------------------------------------------------------------------------
(* When the native statement runs, every placeholder is bound to the       *)
(* parameter this call passes for it, and none to the memory of an earlier *)
(* call, whatever was bound before and however earlier calls failed.       *)
BoundToThisCall ==
    phase = "execute" =>
        \A n \in Names : \E i \in DOMAIN args :
            args[i].name = n /\ bound[n] = args[i].param

(* Ok means that every output target holds what the server returned.       *)
OkMeansDelivered ==
    phase = "idle" /\ result = "ok" =>
        \A i \in DOMAIN args :
            LET c == param[args[i].param]
            IN  c.kind # "input" => c.target = answer[args[i].name]

(* A String, Vec or their Option never claims more bytes than its memory   *)
(* has, whatever the client reports.                                       *)
TextFits ==
    \A p \in InUse : param[p].kind \in Sized => param[p].target <= param[p].capacity

(* What makes these inductive: the native statement points at parameters   *)
(* that exist or knows that they are gone, no buffer is larger than was    *)
(* asked for, and the parameters before `pos` are bound.                   *)
MemoryInv ==
    /\ \A n \in Names : bound[n] \in Params =>
         bound[n] \in InUse /\ param[bound[n]].room # Unallocated
    /\ \A p \in InUse :
         /\ param[p].room <= param[p].capacity
         /\ param[p].room = Unallocated => param[p].kind = "textNullable"

BoundAt(i) == args[i].name \in Names /\ bound[args[i].name] = args[i].param

CallInv ==
    /\ phase # "idle" => Accepted(args)
    /\ phase \in {"bind", "complete"} => pos \in 1..Len(args)
    /\ phase = "bind" => \A i \in 1..(pos - 1) : BoundAt(i)
    /\ phase = "execute" => pos = 1 /\ \A i \in 1..Len(args) : BoundAt(i)

IInv == TypeOK /\ MemoryInv /\ CallInv /\ TextFits

(* output.rs:222, "SQL NULL cannot be written to a non-optional output     *)
(* parameter": a NULL for a target that cannot hold it is not an Ok.       *)
NullRejected ==
    phase = "idle" /\ result = "ok" =>
        \A i \in DOMAIN args :
            param[args[i].param].kind \in {"fixed", "native", "text", "json"} =>
                answer[args[i].name] # Null

(* param/mod.rs:49, "`capacity` is the minimum buffer capacity": a         *)
(* nullable text is bound to at least the capacity that was asked for.     *)
CapacityKept ==
    phase = "execute" =>
        \A i \in DOMAIN args :
            LET c == param[args[i].param]
            IN  c.kind = "textNullable" => c.room >= c.capacity
=============================================================================
