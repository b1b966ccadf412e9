----------------------------- MODULE RowStream -----------------------------
(***************************************************************************)
(* What a ResultSet promises to the application that reads it: the rows of *)
(* a query, one after another and each once, and the end only after the    *)
(* last one; a LOB can be taken out of the row in hand once per column,    *)
(* and stays the LOB of that row until the application drops it.           *)
(*                                                                         *)
(* No statement, no cursor, no bindings, no descriptors to rebind and no   *)
(* calls that take several steps: those are ResultStream's.                *)
(***************************************************************************)
EXTENDS Integers

CONSTANTS
    LobCols,  \* the columns a LOB can be taken from
    Desc,     \* the handles of taken LOBs
    MaxRows   \* bound: rows of a query

VARIABLES
    phase,  \* "closed", "open", or "ended" once fetch has returned None
    left,   \* rows of the open query that are still to come
    last,   \* rows delivered so far; the number names the latest
    row,    \* the row in hand, NoRow if none
    taken,  \* the columns whose LOB was taken from it
    lobs    \* the LOBs in hand: handle and row

vars == <<phase, left, last, row, taken, lobs>>

NoRow == 0

Init ==
    /\ phase = "closed" /\ left = 0 /\ last = 0
    /\ row = NoRow /\ taken = {} /\ lobs = {}

NoRowInHand == row' = NoRow /\ taken' = {}

Open ==
    /\ phase = "closed"
    /\ phase' = "open"
    /\ left' \in 0..MaxRows
    /\ NoRowInHand
    /\ UNCHANGED <<last, lobs>>

(* fetch takes the row away that it returned before,                       *)
Advance ==
    /\ phase = "open"
    /\ NoRowInHand
    /\ UNCHANGED <<phase, left, last, lobs>>

(* and returns the next one,                                               *)
Row ==
    /\ phase = "open" /\ left > 0
    /\ left' = left - 1
    /\ last' = last + 1
    /\ row' = last + 1 /\ taken' = {}
    /\ UNCHANGED <<phase, lobs>>

(* or None when there is no further row.                                   *)
End ==
    /\ phase = "open" /\ left = 0
    /\ phase' = "ended"
    /\ NoRowInHand
    /\ UNCHANGED <<left, last, lobs>>

TakeLob(c) ==
    /\ row # NoRow /\ c \notin taken
    /\ taken' = taken \union {c}
    /\ \E d \in Desc :
         /\ \A l \in lobs : l.desc # d
         /\ lobs' = lobs \union {[desc |-> d, of |-> row]}
    /\ UNCHANGED <<phase, left, last, row>>

DropLob(l) ==
    /\ lobs' = lobs \ {l}
    /\ UNCHANGED <<phase, left, last, row, taken>>

(* finish or drop of the result set: what was not fetched is given up.     *)
Close ==
    /\ phase # "closed"
    /\ phase' = "closed"
    /\ left' = 0
    /\ NoRowInHand
    /\ UNCHANGED <<last, lobs>>

Next ==
    \/ Open \/ Advance \/ Row \/ End \/ Close
    \/ \E c \in LobCols : TakeLob(c)
    \/ \E l \in lobs : DropLob(l)

Spec == Init /\ [][Next]_vars
=============================================================================
