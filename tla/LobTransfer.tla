---------------------------- MODULE LobTransfer ----------------------------
(***************************************************************************)
(* Reading a LOB through its locator: Blob::read_to_end, Blob::read_at,    *)
(* Clob::read_to_string and Clob::read_at (lob.rs), which turn one call    *)
(* into bounded native reads and put the pieces together.                  *)
(*                                                                         *)
(* The LOB is the sequence of the sizes in bytes of its units (bytes of a  *)
(* BLOB, characters of a CLOB or NCLOB); what is read is the list of the   *)
(* positions that were appended to the output, in order.                   *)
(*                                                                         *)
(* External: yacLobRead2 returns whole units from the offset on, at most   *)
(* as many as asked for and as fit the buffer.  It returns as many as it   *)
(* can unless it is `curt`.  The LOB does not change during a call.        *)
(***************************************************************************)
EXTENDS Integers, Sequences

CONSTANTS
    MaxLen,     \* bound: units of a LOB
    ChunkSizes, \* chunk sizes the client may recommend, in bytes
    CharsetRatio,\* charset_ratios().0: most bytes of a CLOB character
    Requests,   \* bound: values of max_chars
    SizeMax,    \* isize::MAX
    Word        \* 2^64, the modulus of u64 arithmetic in a release build

ASSUME TransferAssumption ==
    /\ MaxLen \in Nat
    /\ Word \in Nat /\ Word > 4
    /\ ChunkSizes \subseteq 0..(Word - 1)   \* u16
    /\ CharsetRatio \in 0..(Word - 1)       \* u32
    /\ Requests \subseteq Nat
    /\ SizeMax \in Nat

VARIABLES
    kind,    \* "Blob", "Clob" or "NClob"
    lob,     \* the sizes of its units
    op,      \* the call in progress
    max,     \* chunk_size, chunk_chars or max_chars of that call
    offset,  \* one-based position of the next native read
    filled,  \* units appended to the output by this call
    out,     \* their positions in the LOB
    first,   \* history: the position the call started from
    whole,   \* history: that call reads the whole LOB
    curt,    \* history: a native read returned less than it could
    turn,    \* history: alternates, so that no native read is a stutter
    result   \* what the last call returned

lobVars == <<kind, lob>>
history == <<first, whole, curt, turn>>
vars == <<lobVars, op, max, offset, filled, out, result, history>>

Kinds == {"Blob", "Clob", "NClob"}
Ops == {"idle", "readToEnd", "readToString", "readAt"}
Results == {"none", "ok", "failed", "invalid", "tooLarge"}

(* The sizes a unit can have.                                              *)
UnitSizes(k) ==
    CASE k = "Blob"  -> {1}
      [] k = "Clob"  -> 1..CharsetRatio
      [] k = "NClob" -> 1..4     \* UTF-16 that arrives as UTF-8

(* Mutant: the client's ratio for national characters is taken as it is.   *)
NationalRatio(k) == IF k = "Clob" THEN CharsetRatio ELSE 2

(* Clob::charset_ratio *)
Ratio(k) ==
    IF k = "NClob" THEN 4 ELSE IF CharsetRatio = 0 THEN 1 ELSE CharsetRatio

Init ==
    /\ kind \in Kinds
    /\ \E n \in 0..MaxLen : lob \in [1..n -> UnitSizes(kind)]
    /\ op = "idle" /\ result = "none"
    /\ max = 0 /\ offset = 1 /\ filled = 0 /\ first = 1
    /\ out = [i \in 1..0 |-> 0]
    /\ whole = FALSE /\ curt = FALSE /\ turn = FALSE

(* Bytes of n units from position p on.                                    *)
Bytes(p, n) ==
    LET sum[i \in 0..n] == IF i = 0 THEN 0 ELSE sum[i - 1] + lob[p + i - 1]
    IN  sum[n]

(* What yacLobRead2 may return for a request of `units` units.             *)
Fits(units, room) ==
    {n \in 0..units : offset + n <= Len(lob) + 1 /\ Bytes(offset, n) <= room}

Wrap(n) == n % Word

-----------------------------------------------------------------------------
Begin(call, limit, from) ==
    /\ op' = call
    /\ max' = limit
    /\ offset' = from
    /\ filled' = 0
    /\ out' = [i \in 1..0 |-> 0]
    /\ first' = from
    /\ whole' = (call # "readAt")
    /\ curt' = FALSE /\ turn' = FALSE
    /\ result' = "none"
    /\ UNCHANGED lobVars

Refuse(error) ==
    /\ result' = error
    /\ op' = "idle"
    /\ UNCHANGED <<lobVars, max, offset, filled, out, history>>

Finish ==
    /\ op' = "idle"
    /\ result' = "ok"

(* Blob::read_to_end up to its loop.                                       *)
StartReadToEnd(chunkSize) ==
    /\ op = "idle" /\ kind = "Blob"
    /\ IF Len(lob) > SizeMax
         THEN Refuse("tooLarge")
         ELSE Begin("readToEnd", IF chunkSize = 0 THEN 1 ELSE chunkSize, 1)

(* Clob::read_to_string up to its loop.                                    *)
StartReadToString(chunkSize) ==
    /\ op = "idle" /\ kind # "Blob"
    /\ LET chars == chunkSize \div Ratio(kind)
       IN  IF Wrap(Len(lob) * Ratio(kind)) > SizeMax
             THEN Refuse("tooLarge")
             ELSE Begin("readToString", IF chars = 0 THEN 1 ELSE chars, 1)

(* Blob::read_at and Clob::read_at called by the application, with the     *)
(* length of a buffer or with max_chars.                                   *)
StartReadAt(from, limit) ==
    /\ op = "idle"
    /\ IF from = 0 THEN Refuse("invalid") ELSE Begin("readAt", limit, from)

(* Mutant: the offset moves by what was asked for, not by what came.       *)
AppendUnitsAsked(n) ==
    /\ filled' = filled + n
    /\ out' = [i \in 1..(filled + n) |->
                 IF i <= filled THEN out[i] ELSE offset + i - filled - 1]
    /\ offset' = offset + max
    /\ UNCHANGED <<lobVars, max, first, whole>>

AppendUnits(n) ==
    /\ filled' = filled + n
    /\ out' = [i \in 1..(filled + n) |->
                 IF i <= filled THEN out[i] ELSE offset + i - filled - 1]
    /\ offset' = offset + n
    /\ UNCHANGED <<lobVars, max, first, whole>>

(* A native read of `units` units into `room` bytes; the call returns after*)
(* a count in `stops`.                                                     *)
NativeRead(units, room, stops) ==
    \E n \in Fits(units, room) :
        /\ AppendUnits(n)
        /\ curt' = (curt \/ \E m \in Fits(units, room) : m > n)
        /\ turn' = ~turn
        /\ IF n \in stops THEN Finish ELSE UNCHANGED <<op, result>>

FinishHere == Finish /\ UNCHANGED <<lobVars, max, offset, filled, out, history>>

(* One turn of read_to_end's loop, and its end.                            *)
ReadBlobChunk ==
    /\ op = "readToEnd"
    /\ LET remaining == Len(lob) - filled
           chunkLen == IF remaining < max THEN remaining ELSE max
       IN  IF remaining > 0
             THEN NativeRead(chunkLen, chunkLen, 0..(chunkLen - 1))
             ELSE FinishHere

(* Mutant: the buffer has a byte for each character.                       *)
ReadTextUnscaled(stops) ==
    IF max > SizeMax THEN Refuse("tooLarge") ELSE NativeRead(max, max, stops)

(* Clob::read_at: refused when the buffer cannot be addressed, otherwise   *)
(* one native read.                                                        *)
ReadText(stops) ==
    LET bytes == Wrap(max * Ratio(kind))
    IN  IF bytes > SizeMax THEN Refuse("tooLarge") ELSE NativeRead(max, bytes, stops)

(* Mutant: an empty read does not end the loop.                            *)
ReadTextChunkStubborn ==
    /\ op = "readToString"
    /\ IF offset <= Len(lob) THEN ReadText({}) ELSE FinishHere

(* One turn of read_to_string's loop, and its end.                         *)
ReadTextChunk ==
    /\ op = "readToString"
    /\ IF offset <= Len(lob) THEN ReadText({0}) ELSE FinishHere

(* The rest of either read_at, whose result is the count it got.           *)
ReadAt ==
    /\ op = "readAt"
    /\ IF max = 0 THEN FinishHere
       ELSE IF kind = "Blob" THEN NativeRead(max, max, 0..max)
       ELSE ReadText(0..max)

(* A native call of the transfer in progress fails.                        *)
NativeFails == op # "idle" /\ Refuse("failed")

Start ==
    \/ \E s \in ChunkSizes : StartReadToEnd(s) \/ StartReadToString(s)
    \/ \E from \in 0..(Len(lob) + 1), m \in Requests : StartReadAt(from, m)

Progress == ReadBlobChunk \/ ReadTextChunk \/ ReadAt

Next == Start \/ Progress \/ NativeFails

Spec == Init /\ [][Next]_vars

(* A transfer keeps going: its native calls return, though perhaps with    *)
(* nothing, for ever.                                                      *)
FairSpec == Spec /\ WF_vars(Progress)

-----------------------------------------------------------------------------
TypeOK ==
    /\ kind \in Kinds
    /\ lob \in Seq(Nat)
    /\ op \in Ops
    /\ max \in Nat
    /\ offset \in Nat
    /\ filled \in Nat
    /\ out \in [1..filled -> Nat]
    /\ first \in Nat
    /\ whole \in BOOLEAN
    /\ curt \in BOOLEAN /\ turn \in BOOLEAN
    /\ result \in Results

(* The pieces fit together: at any moment, and whatever the client         *)
(* returned, the output holds consecutive units from the requested         *)
(* position on, none twice, none skipped, none beyond the end.             *)
Contiguous ==
    /\ \A i \in 1..filled : out[i] = first + i - 1
    /\ first + filled <= Len(lob) + 1

(* What makes Contiguous inductive: the next read starts where the output  *)
(* ends.                                                                   *)
OffsetInv == offset = first + filled /\ first > 0

IInv == TypeOK /\ OffsetInv /\ Contiguous

(* lob.rs:215 and 433, "Read the complete ...": when the client returns    *)
(* what fits, Ok from read_to_end or read_to_string means the whole LOB,   *)
(* whatever the chunk size and the widths of its characters.               *)
CompleteRead ==
    result = "ok" /\ whole /\ ~curt => filled = Len(lob)

(* lob.rs:163 and 366, `read_at`: when the client returns what fits, Ok    *)
(* means as many units as were asked for, or as there are from the         *)
(* position on; except that the size of a text buffer may have wrapped.    *)
PositionedRead ==
    /\ result = "ok" /\ ~whole /\ ~curt
    /\ kind = "Blob" \/ max * Ratio(kind) < Word
    => LET left == Len(lob) - first + 1
       IN  filled = IF left < max THEN left ELSE max

(* The loops end, also when the client returns nothing before the end.     *)
TransfersEnd == op # "idle" ~> op = "idle"
=============================================================================
