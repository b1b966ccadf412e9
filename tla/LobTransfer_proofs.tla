------------------------- MODULE LobTransfer_proofs -------------------------
(***************************************************************************)
(* A LOB of any length, read in chunks of any size by a client that may    *)
(* return less than it was asked for at any time, is put together without  *)
(* a gap, a repetition or a unit from beyond its end; and whole, if the    *)
(* client returns what fits.                                               *)
(***************************************************************************)
EXTENDS LobTransfer, WellFoundedInduction, TLAPS

USE TransferAssumption

(* The calls that only start or stop a transfer.                           *)
LEMMA BeginKeeps ==
    ASSUME IInv, NEW call \in Ops, NEW limit \in Nat, NEW from \in Nat,
           from > 0, from <= Len(lob) + 1, Begin(call, limit, from)
    PROVE  IInv'
<1>1. TypeOK'
  BY DEF IInv, TypeOK, Begin, lobVars, Results
<1>2. OffsetInv' /\ Contiguous'
  BY DEF IInv, TypeOK, OffsetInv, Contiguous, Begin, lobVars
<1>. QED  BY <1>1, <1>2 DEF IInv

LEMMA StopKeeps ==
    ASSUME IInv, UNCHANGED <<lobVars, max, offset, filled, out, history>>,
           op' \in Ops, result' \in Results
    PROVE  IInv'
BY DEF IInv, TypeOK, OffsetInv, Contiguous, lobVars, history

(* A native read, of whatever size, extends what has been read.            *)
LEMMA ReadKeeps ==
    ASSUME IInv, op \in Ops, NEW units \in Int, NEW room, NEW stops,
           NativeRead(units, room, stops)
    PROVE  IInv'
<1>1. PICK n \in Fits(units, room) :
         /\ AppendUnits(n)
         /\ curt' = (curt \/ \E m \in Fits(units, room) : m > n)
         /\ turn' = ~turn
         /\ IF n \in stops THEN Finish ELSE UNCHANGED <<op, result>>
  BY DEF NativeRead
<1>2. n \in Nat /\ offset + n <= Len(lob) + 1
  BY <1>1 DEF Fits
<1>3. /\ filled' = filled + n /\ offset' = offset + n
      /\ out' = [i \in 1..(filled + n) |->
                   IF i <= filled THEN out[i] ELSE offset + i - filled - 1]
      /\ UNCHANGED <<kind, lob, max, first, whole>>
  BY <1>1 DEF AppendUnits, lobVars
<1>4. op' \in Ops /\ result' \in Results
  BY <1>1 DEF IInv, TypeOK, Finish, Ops, Results
<1>5. curt' \in BOOLEAN /\ turn' \in BOOLEAN
  BY <1>1
<1>6. out' \in [1..filled' -> Nat]
  BY <1>2, <1>3 DEF IInv, TypeOK
<1>7. TypeOK'
  BY <1>2, <1>3, <1>4, <1>5, <1>6 DEF IInv, TypeOK
<1>8. OffsetInv'
  BY <1>2, <1>3 DEF IInv, TypeOK, OffsetInv
<1>9. \A i \in 1..filled' : out'[i] = first' + i - 1
  BY <1>2, <1>3 DEF IInv, TypeOK, OffsetInv, Contiguous
<1>10. first' + filled' <= Len(lob') + 1
  BY <1>2, <1>3 DEF IInv, TypeOK, OffsetInv
<1>. QED  BY <1>7, <1>8, <1>9, <1>10 DEF IInv, Contiguous

LEMMA RefuseKeeps ==
    ASSUME IInv, NEW error \in Results, Refuse(error)
    PROVE  IInv'
BY StopKeeps DEF Refuse, Ops

LEMMA ReadTextKeeps ==
    ASSUME IInv, NEW stops, ReadText(stops)
    PROVE  IInv'
<1>1. CASE Wrap(max * Ratio(kind)) > SizeMax
  BY <1>1, RefuseKeeps DEF ReadText, Results
<1>2. CASE ~(Wrap(max * Ratio(kind)) > SizeMax)
  BY <1>2, ReadKeeps DEF ReadText, IInv, TypeOK
<1>. QED  BY <1>1, <1>2

LEMMA FinishKeeps ==
    ASSUME IInv, FinishHere
    PROVE  IInv'
BY StopKeeps DEF FinishHere, Finish, Ops, Results

LEMMA Initially == Init => IInv
<1>. SUFFICES ASSUME Init PROVE IInv
  OBVIOUS
<1>1. UnitSizes(kind) \subseteq Nat
  BY DEF Init, UnitSizes, Kinds
<1>2. lob \in Seq(Nat)
  BY <1>1 DEF Init
<1>3. TypeOK
  BY <1>2 DEF Init, TypeOK, Ops, Results
<1>4. OffsetInv /\ Contiguous
  BY <1>2 DEF Init, OffsetInv, Contiguous
<1>. QED  BY <1>3, <1>4 DEF IInv

LEMMA Inductive == IInv /\ [Next]_vars => IInv'
<1>. SUFFICES ASSUME IInv, [Next]_vars PROVE IInv'
  OBVIOUS
<1>0. Len(lob) \in Nat
  BY DEF IInv, TypeOK
<1>1. ASSUME NEW s \in ChunkSizes, StartReadToEnd(s) PROVE IInv'
  <2>1. CASE Len(lob) > SizeMax
    BY <1>1, <2>1, RefuseKeeps DEF StartReadToEnd, Results
  <2>2. CASE ~(Len(lob) > SizeMax)
    BY <1>0, <1>1, <2>2, BeginKeeps DEF StartReadToEnd, Ops
  <2>. QED  BY <2>1, <2>2
<1>2. ASSUME NEW s \in ChunkSizes, StartReadToString(s) PROVE IInv'
  <2>. DEFINE chars == s \div Ratio(kind)
  <2>1. Ratio(kind) \in Nat \ {0}
    BY DEF Ratio
  <2>2. chars \in Nat
    BY <2>1
  <2>3. CASE Wrap(Len(lob) * Ratio(kind)) > SizeMax
    BY <1>2, <2>3, RefuseKeeps DEF StartReadToString, Results
  <2>4. CASE ~(Wrap(Len(lob) * Ratio(kind)) > SizeMax)
    BY <1>0, <1>2, <2>2, <2>4, BeginKeeps DEF StartReadToString, Ops
  <2>. QED  BY <2>3, <2>4
<1>3. ASSUME NEW from \in 0..(Len(lob) + 1), NEW m \in Requests,
             StartReadAt(from, m)
      PROVE  IInv'
  <2>1. CASE from = 0
    BY <1>3, <2>1, RefuseKeeps DEF StartReadAt, Results
  <2>2. CASE from # 0
    BY <1>0, <1>3, <2>2, BeginKeeps DEF StartReadAt, Ops
  <2>. QED  BY <2>1, <2>2
<1>4. CASE ReadBlobChunk
  <2>. DEFINE remaining == Len(lob) - filled
              chunkLen == IF remaining < max THEN remaining ELSE max
  <2>1. CASE remaining > 0
    <3>1. chunkLen \in Int
      BY <1>0 DEF IInv, TypeOK
    <3>2. op \in Ops /\ NativeRead(chunkLen, chunkLen, 0..(chunkLen - 1))
      BY <1>4, <2>1 DEF ReadBlobChunk, IInv, TypeOK
    <3>. QED  BY <3>1, <3>2, ReadKeeps
  <2>2. CASE ~(remaining > 0)
    BY <1>4, <2>2, FinishKeeps DEF ReadBlobChunk
  <2>. QED  BY <2>1, <2>2
<1>5. CASE ReadTextChunk
  BY <1>5, ReadTextKeeps, FinishKeeps DEF ReadTextChunk
<1>6. CASE ReadAt
  <2>1. CASE max = 0
    BY <1>6, <2>1, FinishKeeps DEF ReadAt
  <2>2. CASE max # 0 /\ kind = "Blob"
    BY <1>6, <2>2, ReadKeeps DEF ReadAt, IInv, TypeOK
  <2>3. CASE max # 0 /\ kind # "Blob"
    BY <1>6, <2>3, ReadTextKeeps DEF ReadAt
  <2>. QED  BY <2>1, <2>2, <2>3
<1>7. CASE NativeFails
  BY <1>7, RefuseKeeps DEF NativeFails, Results
<1>8. CASE UNCHANGED vars
  BY <1>8, StopKeeps DEF vars, IInv, TypeOK
<1>. QED  BY <1>1, <1>2, <1>3, <1>4, <1>5, <1>6, <1>7, <1>8
          DEF Next, Start, Progress

(* Every variable keeps its type.                                          *)
THEOREM TypeCorrect == Spec => []TypeOK
<1>1. IInv => TypeOK
  BY DEF IInv
<1>. QED  BY <1>1, Initially, Inductive, PTL DEF Spec

(* What read_to_end, read_to_string and read_at append is a run of         *)
(* consecutive units of the LOB, for every chunk size and every client.    *)
THEOREM ReadsAreContiguous == Spec => []Contiguous
<1>1. IInv => Contiguous
  BY DEF IInv
<1>. QED  BY <1>1, Initially, Inductive, PTL DEF Spec
-----------------------------------------------------------------------------
(* Complete reads.                                                         *)

(* Induction over the sizes of units uses least elements.                  *)
Below == {pair \in Nat \X Nat : pair[1] < pair[2]}

LEMMA LeastElement ==
    ASSUME NEW S \in SUBSET Nat, S # {}
    PROVE  \E m \in S : \A k \in S : m <= k
<1>1. IsWellFoundedOn(Below, Nat)
  BY NatLessThanWellFounded DEF OpToRel, Below
<1>2. PICK m \in S : \A k \in S : ~ (<<k, m>> \in Below)
  BY <1>1, WFMin
<1>3. \A k \in S : k < m => <<k, m>> \in Below
  BY DEF Below
<1>4. \A k \in S : ~(k < m)
  BY <1>2, <1>3, Zenon
<1>5. m \in Nat /\ \A k \in S : k \in Nat
  OBVIOUS
<1>. QED  BY <1>4, <1>5

(* The sum in Bytes is one, if there is a function that satisfies its      *)
(* equation.                                                               *)
IsSum(f, p, n) ==
    f = [i \in 0..n |-> IF i = 0 THEN 0 ELSE f[i - 1] + lob[p + i - 1]]

LEMMA BytesIsSum ==
    ASSUME NEW p \in Nat, NEW n \in Nat, \E g : IsSum(g, p, n)
    PROVE  \E f : Bytes(p, n) = f[n] /\ IsSum(f, p, n)
<1>. DEFINE S == CHOOSE sum :
                   sum = [i \in 0..n |-> IF i = 0 THEN 0 ELSE sum[i - 1] + lob[p + i - 1]]
<1>1. S = [i \in 0..n |-> IF i = 0 THEN 0 ELSE S[i - 1] + lob[p + i - 1]]
  BY DEF IsSum
<1>2. Bytes(p, n) = S[n]
  BY DEF Bytes
<1>. QED  BY <1>1, <1>2 DEF IsSum

LEMMA BytesOfOne ==
    ASSUME NEW p \in Nat, lob[p] \in Nat
    PROVE  Bytes(p, 1) = lob[p]
<1>. DEFINE g == [i \in 0..1 |-> IF i = 0 THEN 0 ELSE lob[p]]
<1>1. g = [i \in 0..1 |-> IF i = 0 THEN 0 ELSE g[i - 1] + lob[p + i - 1]]
  <2>1. ASSUME NEW i \in 0..1 PROVE g[i] = IF i = 0 THEN 0 ELSE g[i - 1] + lob[p + i - 1]
    <3>1. CASE i = 0
      BY <3>1
    <3>2. CASE i = 1
      <4>1. p + i - 1 = p /\ i - 1 = 0
        BY <3>2
      <4>2. g[0] = 0 /\ g[1] = lob[p]
        OBVIOUS
      <4>. QED  BY <3>2, <4>1, <4>2
    <3>. QED  BY <3>1, <3>2
  <2>. QED  BY <2>1
<1>2. \E h : IsSum(h, p, 1)
  BY <1>1 DEF IsSum
<1>. PICK f : Bytes(p, 1) = f[1] /\ IsSum(f, p, 1)
  BY <1>2, BytesIsSum
<1>3. f[0] = 0
  BY DEF IsSum
<1>4. f[1] = f[0] + lob[p]
  <2>1. f[1] = f[1 - 1] + lob[p + 1 - 1]
    BY DEF IsSum
  <2>2. 1 - 1 = 0 /\ p + 1 - 1 = p
    OBVIOUS
  <2>. QED  BY <2>1, <2>2
<1>. QED  BY <1>3, <1>4

LEMMA BytesOfBlob ==
    ASSUME NEW p \in Nat, NEW n \in Nat, \A i \in 1..n : lob[p + i - 1] = 1
    PROVE  Bytes(p, n) = n
<1>. DEFINE g == [i \in 0..n |-> i]
<1>1. g = [i \in 0..n |-> IF i = 0 THEN 0 ELSE g[i - 1] + lob[p + i - 1]]
  <2>1. ASSUME NEW i \in 0..n PROVE g[i] = IF i = 0 THEN 0 ELSE g[i - 1] + lob[p + i - 1]
    <3>1. CASE i = 0
      BY <3>1
    <3>2. CASE i # 0
      <4>1. i \in 1..n /\ i - 1 \in 0..n
        BY <3>2
      <4>2. g[i - 1] = i - 1 /\ g[i] = i /\ lob[p + i - 1] = 1
        BY <4>1
      <4>. QED  BY <3>2, <4>1, <4>2
    <3>. QED  BY <3>1, <3>2
  <2>. QED  BY <2>1
<1>2. \E h : IsSum(h, p, n)
  BY <1>1 DEF IsSum
<1>. PICK f : Bytes(p, n) = f[n] /\ IsSum(f, p, n)
  BY <1>2, BytesIsSum
<1>. DEFINE S == {i \in 0..n : f[i] # i}
<1>3. f[0] = 0
  BY DEF IsSum
<1>4. \A i \in 1..n : f[i] = f[i - 1] + 1
  <2>1. \A i \in 1..n : f[i] = f[i - 1] + lob[p + i - 1]
    BY DEF IsSum
  <2>. QED  BY <2>1
<1>5. S = {}
  <2>1. SUFFICES ASSUME S # {} PROVE FALSE
    OBVIOUS
  <2>2. S \in SUBSET Nat
    OBVIOUS
  <2>3. PICK m \in S : \A k \in S : m <= k
    BY <2>1, <2>2, LeastElement
  <2>4. m \in 1..n /\ m - 1 \notin S
    BY <1>3, <2>3
  <2>5. f[m - 1] = m - 1
    BY <2>4
  <2>. QED  BY <1>4, <2>3, <2>4, <2>5
<1>6. n \in 0..n
  OBVIOUS
<1>. QED  BY <1>5, <1>6

(* There is such a function, whatever the sizes: a shorter one can always  *)
(* be extended by one unit.                                                *)
LEMMA SumExists ==
    ASSUME NEW p \in Nat, NEW n \in Nat
    PROVE  \E g : IsSum(g, p, n)
<1>. DEFINE S == {k \in 0..n : ~ \E g : IsSum(g, p, k)}
<1>1. SUFFICES ASSUME S # {} PROVE FALSE
  OBVIOUS
<1>2. S \in SUBSET Nat
  OBVIOUS
<1>3. PICK m \in S : \A k \in S : m <= k
  BY <1>1, <1>2, LeastElement
<1>4. m # 0
  <2>. DEFINE g == [i \in 0..0 |-> 0]
  <2>1. g = [i \in 0..0 |-> IF i = 0 THEN 0 ELSE g[i - 1] + lob[p + i - 1]]
    OBVIOUS
  <2>2. IsSum(g, p, 0)
    BY <2>1 DEF IsSum
  <2>. QED  BY <1>3, <2>2
<1>5. m \in 1..n /\ m - 1 \in 0..n /\ m - 1 \notin S
  BY <1>3, <1>4
<1>6. PICK g : IsSum(g, p, m - 1)
  BY <1>5
<1>. DEFINE h == [i \in 0..m |-> IF i = m THEN g[m - 1] + lob[p + m - 1] ELSE g[i]]
<1>7. \A i \in 0..m : h[i] = IF i = 0 THEN 0 ELSE h[i - 1] + lob[p + i - 1]
  <2>. TAKE i \in 0..m
  <2>1. CASE i = m
    <3>1. i - 1 = m - 1 /\ p + i - 1 = p + m - 1 /\ i # 0
      BY <1>5, <2>1
    <3>2. h[m - 1] = g[m - 1] /\ h[i] = g[m - 1] + lob[p + m - 1]
      BY <1>5, <2>1
    <3>. QED  BY <3>1, <3>2
  <2>2. CASE i # m /\ i # 0
    <3>1. i \in 0..(m - 1) /\ i - 1 \in 0..m /\ i - 1 # m
      BY <1>5, <2>2
    <3>2. g[i] = g[i - 1] + lob[p + i - 1]
      BY <1>6, <2>2, <3>1 DEF IsSum
    <3>. QED  BY <2>2, <3>1, <3>2
  <2>3. CASE i = 0
    <3>1. i \in 0..(m - 1) /\ i # m
      BY <1>5, <2>3
    <3>2. g[i] = 0
      BY <1>6, <2>3, <3>1 DEF IsSum
    <3>. QED  BY <2>3, <3>1, <3>2
  <2>. QED  BY <2>1, <2>2, <2>3
<1>8. h = [i \in 0..m |-> IF i = 0 THEN 0 ELSE h[i - 1] + lob[p + i - 1]]
  BY <1>7
<1>9. IsSum(h, p, m)
  BY <1>8 DEF IsSum
<1>. QED  BY <1>3, <1>9

(* n units of at most r bytes each take at most n * r bytes.               *)
LEMMA BytesBound ==
    ASSUME NEW p \in Nat, NEW n \in Nat, NEW r \in Nat,
           \A i \in 1..n : lob[p + i - 1] \in 0..r
    PROVE  Bytes(p, n) \in Int /\ Bytes(p, n) <= n * r
<1>1. PICK g : IsSum(g, p, n)
  BY SumExists
<1>. PICK f : Bytes(p, n) = f[n] /\ IsSum(f, p, n)
  BY <1>1, BytesIsSum
<1>. DEFINE S == {i \in 0..n : ~(f[i] \in Int /\ f[i] <= i * r)}
<1>3. f[0] = 0
  BY DEF IsSum
<1>4. \A i \in 1..n : f[i] = f[i - 1] + lob[p + i - 1]
  BY DEF IsSum
<1>5. S = {}
  <2>1. SUFFICES ASSUME S # {} PROVE FALSE
    OBVIOUS
  <2>2. S \in SUBSET Nat
    OBVIOUS
  <2>3. PICK m \in S : \A k \in S : m <= k
    BY <2>1, <2>2, LeastElement
  <2>4. m # 0
    BY <1>3
  <2>5. m \in 1..n /\ m - 1 \notin S /\ m - 1 \in 0..n
    BY <2>3, <2>4
  <2>6. f[m - 1] \in Int /\ f[m - 1] <= (m - 1) * r
    BY <2>5
  <2>7. lob[p + m - 1] \in 0..r /\ f[m] = f[m - 1] + lob[p + m - 1]
    BY <1>4, <2>5
  <2>8. (m - 1) * r + r = m * r /\ (m - 1) * r \in Int /\ m * r \in Int
    BY <2>5
  <2>. QED  BY <2>3, <2>6, <2>7, <2>8
<1>6. n \in 0..n
  OBVIOUS
<1>. QED  BY <1>5, <1>6

(* The sizes of the LOB's units, and what the call in progress knows: a    *)
(* chunk of text is a character at least, and its room does not wrap.      *)
UnitsInv == kind \in Kinds /\ \A i \in 1..Len(lob) : lob[i] \in UnitSizes(kind)

ChunkInv ==
    /\ op = "readToEnd" => kind = "Blob" /\ max > 0
    /\ op = "readToString" => kind # "Blob" /\ max > 0 /\ max * Ratio(kind) < Word
    /\ op \in {"readToEnd", "readToString"} => whole /\ first = 1
    /\ op = "readAt" => ~whole
    /\ op # "idle" => result = "none"

ReadInv == IInv /\ UnitsInv /\ ChunkInv /\ CompleteRead

LEMMA ReadInitially == Init => ReadInv
<1>. SUFFICES ASSUME Init PROVE ReadInv
  OBVIOUS
<1>1. UnitSizes(kind) \subseteq Nat
  BY DEF Init, UnitSizes, Kinds
<1>2. UnitsInv
  BY <1>1 DEF Init, UnitsInv
<1>3. ChunkInv /\ CompleteRead
  BY DEF Init, ChunkInv, CompleteRead
<1>. QED  BY <1>2, <1>3, Initially DEF ReadInv

(* A native read that is not curt and stops short of what was asked for    *)
(* has met the end of the LOB, or a unit with no room.                     *)
LEMMA NotCurt ==
    ASSUME NEW units, NEW room, NEW n \in Fits(units, room), NEW m \in 0..units, m > n,
           offset + m <= Len(lob) + 1, Bytes(offset, m) <= room
    PROVE  \E k \in Fits(units, room) : k > n
BY DEF Fits

(* What one native read of a whole-LOB transfer keeps.                     *)
LEMMA ChunkKeeps ==
    ASSUME ReadInv, op \in {"readToEnd", "readToString"},
           NEW units, NEW room, NEW stops, NativeRead(units, room, stops),
           \A n \in Fits(units, room) \intersect stops : \E m \in Fits(units, room) : m > n
    PROVE  UnitsInv' /\ ChunkInv' /\ CompleteRead'
<1>1. PICK n \in Fits(units, room) :
         /\ AppendUnits(n)
         /\ curt' = (curt \/ \E m \in Fits(units, room) : m > n)
         /\ IF n \in stops THEN Finish ELSE UNCHANGED <<op, result>>
  BY DEF NativeRead
<1>2. UNCHANGED <<kind, lob, max, first, whole>>
  BY <1>1 DEF AppendUnits, lobVars
<1>3. UnitsInv'
  BY <1>2 DEF ReadInv, UnitsInv, UnitSizes
<1>4. CASE n \in stops
  <2>1. op' = "idle" /\ curt'
    BY <1>1, <1>4 DEF Finish
  <2>. QED  BY <1>3, <2>1 DEF ChunkInv, CompleteRead
<1>5. CASE n \notin stops
  <2>1. UNCHANGED <<op, result>>
    BY <1>1, <1>5
  <2>2. result' # "ok"
    BY <2>1 DEF ReadInv, ChunkInv
  <2>. QED  BY <1>2, <1>3, <2>1, <2>2 DEF ReadInv, ChunkInv, CompleteRead, Ratio
<1>. QED  BY <1>4, <1>5

LEMMA BlobChunkKeeps ==
    ASSUME ReadInv, ReadBlobChunk
    PROVE  UnitsInv' /\ ChunkInv' /\ CompleteRead'
<1>. DEFINE remaining == Len(lob) - filled
            chunkLen == IF remaining < max THEN remaining ELSE max
<1>0. /\ op = "readToEnd" /\ kind = "Blob" /\ max \in Nat /\ max > 0 /\ first = 1
      /\ offset = filled + 1 /\ offset \in Nat /\ filled \in Nat /\ Len(lob) \in Nat
      /\ filled <= Len(lob)
  BY DEF ReadBlobChunk, ReadInv, ChunkInv, IInv, TypeOK, OffsetInv, Contiguous
<1>1. CASE remaining > 0
  <2>1. chunkLen \in Nat /\ chunkLen > 0 /\ chunkLen <= remaining
    BY <1>0, <1>1
  <2>2. \A i \in 1..chunkLen : lob[offset + i - 1] = 1
    <3>1. \A j \in 1..Len(lob) : lob[j] = 1
      BY <1>0 DEF ReadInv, UnitsInv, UnitSizes
    <3>2. \A i \in 1..chunkLen : offset + i - 1 \in 1..Len(lob)
      BY <1>0, <2>1
    <3>. QED  BY <3>1, <3>2
  <2>3. Bytes(offset, chunkLen) = chunkLen
    BY <1>0, <2>1, <2>2, BytesOfBlob
  <2>4. ASSUME NEW n \in Fits(chunkLen, chunkLen) \intersect (0..(chunkLen - 1))
        PROVE  \E m \in Fits(chunkLen, chunkLen) : m > n
    <3>1. chunkLen \in Fits(chunkLen, chunkLen)
      BY <1>0, <2>1, <2>3 DEF Fits
    <3>2. chunkLen > n
      BY <2>1
    <3>. QED  BY <3>1, <3>2
  <2>5. NativeRead(chunkLen, chunkLen, 0..(chunkLen - 1))
    BY <1>1 DEF ReadBlobChunk
  <2>. HIDE DEF chunkLen
  <2>. QED  BY <1>0, <2>4, <2>5, ChunkKeeps
<1>2. CASE ~(remaining > 0)
  <2>1. FinishHere
    BY <1>2 DEF ReadBlobChunk
  <2>2. filled = Len(lob)
    BY <1>0, <1>2
  <2>. QED
    BY <2>1, <2>2 DEF FinishHere, Finish, lobVars, history, ReadInv, UnitsInv, UnitSizes,
                      ChunkInv, CompleteRead
<1>. QED  BY <1>1, <1>2

LEMMA RefusalKeeps ==
    ASSUME ReadInv, NEW error \in Results \ {"ok"}, Refuse(error)
    PROVE  UnitsInv' /\ ChunkInv' /\ CompleteRead'
BY DEF Refuse, lobVars, ReadInv, UnitsInv, UnitSizes, ChunkInv, CompleteRead

LEMMA TextChunkKeeps ==
    ASSUME ReadInv, ReadTextChunk
    PROVE  UnitsInv' /\ ChunkInv' /\ CompleteRead'
<1>. DEFINE bytes == Wrap(max * Ratio(kind))
<1>0. /\ op = "readToString" /\ kind # "Blob" /\ max \in Nat /\ max > 0 /\ first = 1
      /\ max * Ratio(kind) < Word
      /\ offset = filled + 1 /\ offset \in Nat /\ filled \in Nat /\ Len(lob) \in Nat
      /\ filled <= Len(lob)
  BY DEF ReadTextChunk, ReadInv, ChunkInv, IInv, TypeOK, OffsetInv, Contiguous
<1>1. CASE offset <= Len(lob) /\ bytes > SizeMax
  BY <1>1, RefusalKeeps DEF ReadTextChunk, ReadText, Results
<1>2. CASE offset <= Len(lob) /\ ~(bytes > SizeMax)
  <2>1. Ratio(kind) \in Nat /\ lob[offset] \in 1..Ratio(kind)
    <3>1. offset \in 1..Len(lob)
      BY <1>0, <1>2
    <3>2. lob[offset] \in UnitSizes(kind) /\ kind \in {"Clob", "NClob"}
      BY <1>0, <3>1 DEF ReadInv, UnitsInv, Kinds
    <3>3. CASE kind = "Clob"
      BY <3>2, <3>3 DEF UnitSizes, Ratio
    <3>4. CASE kind = "NClob"
      BY <3>2, <3>4 DEF UnitSizes, Ratio
    <3>. QED  BY <3>2, <3>3, <3>4
  <2>2. max * Ratio(kind) \in Nat /\ max * Ratio(kind) >= Ratio(kind)
    <3>. DEFINE r == Ratio(kind)
    <3>1. r \in Nat
      BY <2>1
    <3>. HIDE DEF r
    <3>2. max * r = (max - 1) * r + r /\ (max - 1) * r \in Nat /\ max * r \in Nat
      BY <1>0, <3>1
    <3>. QED  BY <3>1, <3>2 DEF r
  <2>3. bytes = max * Ratio(kind)
    BY <1>0, <2>2 DEF Wrap
  <2>4. Bytes(offset, 1) <= bytes
    BY <1>0, <2>1, <2>2, <2>3, BytesOfOne
  <2>5. 1 \in Fits(max, bytes)
    BY <1>0, <1>2, <2>4 DEF Fits
  <2>6. \A n \in Fits(max, bytes) \intersect {0} : \E m \in Fits(max, bytes) : m > n
    BY <2>5
  <2>7. NativeRead(max, bytes, {0})
    BY <1>2 DEF ReadTextChunk, ReadText
  <2>. HIDE DEF bytes
  <2>. QED  BY <1>0, <2>6, <2>7, ChunkKeeps
<1>3. CASE ~(offset <= Len(lob))
  <2>1. FinishHere
    BY <1>3 DEF ReadTextChunk
  <2>2. filled = Len(lob)
    BY <1>0, <1>3
  <2>. QED
    BY <2>1, <2>2 DEF FinishHere, Finish, lobVars, history, ReadInv, UnitsInv, UnitSizes,
                      ChunkInv, CompleteRead
<1>. QED  BY <1>1, <1>2, <1>3

LEMMA ReadAtKeeps ==
    ASSUME ReadInv, ReadAt
    PROVE  UnitsInv' /\ ChunkInv' /\ CompleteRead'
<1>1. op = "readAt" /\ ~whole
  BY DEF ReadAt, ReadInv, ChunkInv
<1>2. CASE FinishHere
  BY <1>1, <1>2 DEF FinishHere, Finish, lobVars, history, ReadInv, UnitsInv, UnitSizes,
                    ChunkInv, CompleteRead
<1>3. ASSUME NEW units, NEW room, NEW stops, NativeRead(units, room, stops)
      PROVE  UnitsInv' /\ ChunkInv' /\ CompleteRead'
  <2>1. /\ UNCHANGED <<kind, lob, max, first, whole>>
        /\ Finish \/ UNCHANGED <<op, result>>
    BY <1>3 DEF NativeRead, AppendUnits, lobVars
  <2>. QED  BY <1>1, <2>1 DEF Finish, ReadInv, UnitsInv, UnitSizes, ChunkInv, CompleteRead
<1>4. CASE Refuse("tooLarge")
  BY <1>4, RefusalKeeps DEF Results
<1>. QED  BY <1>2, <1>3, <1>4 DEF ReadAt, ReadText

LEMMA ReadInductive == ReadInv /\ [Next]_vars => ReadInv'
<1>. SUFFICES ASSUME ReadInv, [Next]_vars PROVE UnitsInv' /\ ChunkInv' /\ CompleteRead'
  BY Inductive DEF ReadInv
<1>1. ASSUME NEW s \in ChunkSizes, StartReadToEnd(s)
      PROVE  UnitsInv' /\ ChunkInv' /\ CompleteRead'
  <2>1. CASE Refuse("tooLarge")
    BY <2>1, RefusalKeeps DEF Results
  <2>2. CASE Begin("readToEnd", IF s = 0 THEN 1 ELSE s, 1)
    <3>. DEFINE limit == IF s = 0 THEN 1 ELSE s
    <3>1. limit > 0
      OBVIOUS
    <3>2. kind = "Blob" /\ Begin("readToEnd", limit, 1)
      BY <1>1, <2>2 DEF StartReadToEnd
    <3>. HIDE DEF limit
    <3>. QED  BY <3>1, <3>2 DEF Begin, lobVars, ReadInv, UnitsInv, UnitSizes, ChunkInv,
                                CompleteRead
  <2>. QED  BY <1>1, <2>1, <2>2 DEF StartReadToEnd
<1>2. ASSUME NEW s \in ChunkSizes, StartReadToString(s)
      PROVE  UnitsInv' /\ ChunkInv' /\ CompleteRead'
  <2>. DEFINE chars == s \div Ratio(kind)
              limit == IF chars = 0 THEN 1 ELSE chars
  <2>1. CASE Refuse("tooLarge")
    BY <2>1, RefusalKeeps DEF Results
  <2>2. CASE Begin("readToString", limit, 1)
    <3>1. Ratio(kind) \in 1..(Word - 1)
      BY DEF Ratio
    <3>2. s \in Nat /\ s < Word
      OBVIOUS
    <3>3. limit > 0 /\ limit * Ratio(kind) < Word
      <4>. DEFINE r == Ratio(kind)
      <4>1. r \in Nat /\ r > 0 /\ r < Word
        BY <3>1
      <4>. HIDE DEF r
      <4>2. s \div r \in Nat /\ (s \div r) * r <= s
        BY <3>2, <4>1
      <4>. QED  BY <3>2, <4>1, <4>2 DEF r
    <3>. HIDE DEF limit
    <3>. QED  BY <1>2, <2>2, <3>3 DEF StartReadToString, Begin, lobVars, ReadInv, UnitsInv,
                                      UnitSizes, ChunkInv, CompleteRead, Ratio
  <2>. QED  BY <1>2, <2>1, <2>2 DEF StartReadToString
<1>3. ASSUME NEW from \in 0..(Len(lob) + 1), NEW m \in Requests, StartReadAt(from, m)
      PROVE  UnitsInv' /\ ChunkInv' /\ CompleteRead'
  <2>1. CASE Refuse("invalid")
    BY <2>1, RefusalKeeps DEF Results
  <2>2. CASE Begin("readAt", m, from)
    BY <2>2 DEF Begin, lobVars, ReadInv, UnitsInv, UnitSizes, ChunkInv, CompleteRead
  <2>. QED  BY <1>3, <2>1, <2>2 DEF StartReadAt
<1>4. CASE NativeFails
  BY <1>4, RefusalKeeps DEF NativeFails, Results
<1>5. CASE UNCHANGED vars
  BY <1>5 DEF vars, lobVars, history, ReadInv, UnitsInv, UnitSizes, ChunkInv, CompleteRead, Ratio
<1>. QED  BY <1>1, <1>2, <1>3, <1>4, <1>5, BlobChunkKeeps, TextChunkKeeps, ReadAtKeeps
          DEF Next, Start, Progress

(* lob.rs:215 and 433: if the client returns what fits, Ok from            *)
(* read_to_end or read_to_string means that the whole LOB was read, for    *)
(* every LOB, every recommended chunk size and every charset.              *)
THEOREM OkMeansWhole == Spec => []CompleteRead
<1>1. ReadInv => CompleteRead
  BY DEF ReadInv
<1>. QED  BY <1>1, ReadInitially, ReadInductive, PTL DEF Spec

(* What is known while a positioned read is in progress.                   *)
AtInv == op = "readAt" => filled = 0 /\ ~curt

(* A positioned read that is not curt gets all that is there, up to what   *)
(* it asked for, if the buffer has room for as many units of any size.     *)
LEMMA AtReadsAll ==
    ASSUME ReadInv, AtInv, op = "readAt", NEW room \in Int,
           NativeRead(max, room, 0..max),
           \A n \in 0..max : first + n <= Len(lob) + 1 => Bytes(first, n) <= room
    PROVE  PositionedRead'
<1>. DEFINE left == Len(lob) - first + 1
            most == IF left < max THEN left ELSE max
<1>1. /\ max \in Nat /\ first \in Nat /\ Len(lob) \in Nat /\ filled = 0
      /\ offset = first /\ first <= Len(lob) + 1
  BY DEF ReadInv, IInv, TypeOK, OffsetInv, Contiguous, AtInv
<1>2. PICK n \in Fits(max, room) :
         /\ AppendUnits(n)
         /\ curt' = (curt \/ \E m \in Fits(max, room) : m > n)
  BY DEF NativeRead
<1>3. n \in 0..max /\ first + n <= Len(lob) + 1
  BY <1>1, <1>2 DEF Fits
<1>4. most \in 0..max /\ first + most <= Len(lob) + 1
  BY <1>1
<1>5. most \in Fits(max, room)
  BY <1>1, <1>4 DEF Fits
<1>6. filled' = n /\ UNCHANGED <<kind, lob, max, first, whole>>
  BY <1>1, <1>2, <1>3 DEF AppendUnits, lobVars
<1>7. ~curt' => n = most
  <2>1. ~curt' => ~(most > n)
    BY <1>2, <1>5
  <2>2. n <= most
    BY <1>1, <1>3
  <2>. QED  BY <1>3, <1>4, <2>1, <2>2
<1>. QED  BY <1>6, <1>7 DEF PositionedRead

LEMMA AtReadKeeps ==
    ASSUME ReadInv, AtInv, ReadAt
    PROVE  PositionedRead'
<1>1. /\ op = "readAt" /\ max \in Nat /\ first \in Nat /\ first > 0 /\ Len(lob) \in Nat
      /\ filled = 0 /\ first <= Len(lob) + 1
  BY DEF ReadAt, ReadInv, IInv, TypeOK, OffsetInv, Contiguous, AtInv
<1>2. CASE max = 0
  <2>1. filled' = 0 /\ max' = 0 /\ first' = first /\ lob' = lob
    BY <1>1, <1>2 DEF ReadAt, FinishHere, lobVars, history
  <2>. QED  BY <1>1, <2>1 DEF PositionedRead
<1>3. CASE max # 0 /\ kind = "Blob"
  <2>1. NativeRead(max, max, 0..max)
    BY <1>3 DEF ReadAt
  <2>2. ASSUME NEW n \in 0..max, first + n <= Len(lob) + 1
        PROVE  Bytes(first, n) <= max
    <3>1. \A i \in 1..n : first + i - 1 \in 1..Len(lob)
      BY <1>1, <2>2
    <3>2. \A i \in 1..n : lob[first + i - 1] = 1
      BY <1>3, <3>1 DEF ReadInv, UnitsInv, UnitSizes
    <3>3. first \in Nat /\ n \in Nat
      BY <1>1
    <3>4. Bytes(first, n) = n
      BY <3>2, <3>3, BytesOfBlob
    <3>. QED  BY <1>1, <3>4
  <2>. QED  BY <1>1, <2>1, <2>2, AtReadsAll
<1>4. CASE max # 0 /\ kind # "Blob"
  <2>. DEFINE r == Ratio(kind)
              bytes == Wrap(max * r)
  <2>1. r \in Nat
    BY DEF Ratio
  <2>2. ReadText(0..max)
    BY <1>4 DEF ReadAt
  <2>3. CASE bytes > SizeMax
    BY <2>2, <2>3 DEF ReadText, Refuse, PositionedRead
  <2>4. CASE ~(bytes > SizeMax) /\ max * r < Word
    <3>1. NativeRead(max, bytes, 0..max)
      BY <2>2, <2>4 DEF ReadText
    <3>2. max * r \in Nat
      <4>. HIDE DEF r
      <4>. QED  BY <1>1, <2>1
    <3>3. bytes = max * r
      BY <2>4, <3>2 DEF Wrap
    <3>4. \A i \in 1..Len(lob) : lob[i] \in 0..r
      <4>. SUFFICES ASSUME NEW i \in 1..Len(lob) PROVE lob[i] \in 0..r
        OBVIOUS
      <4>1. lob[i] \in UnitSizes(kind) /\ kind \in {"Clob", "NClob"}
        BY <1>4 DEF ReadInv, UnitsInv, Kinds
      <4>2. CASE kind = "Clob"
        BY <4>1, <4>2 DEF UnitSizes, Ratio
      <4>3. CASE kind = "NClob"
        BY <4>1, <4>3 DEF UnitSizes, Ratio
      <4>. QED  BY <4>1, <4>2, <4>3
    <3>. HIDE DEF r
    <3>5. ASSUME NEW n \in 0..max, first + n <= Len(lob) + 1
          PROVE  Bytes(first, n) <= bytes
      <4>1. \A i \in 1..n : first + i - 1 \in 1..Len(lob)
        BY <1>1, <3>5
      <4>2. \A i \in 1..n : lob[first + i - 1] \in 0..r
        BY <3>4, <4>1
      <4>3. Bytes(first, n) \in Int /\ Bytes(first, n) <= n * r
        <5>1. first \in Nat /\ n \in Nat
          BY <1>1
        <5>. QED  BY <2>1, <4>2, <5>1, BytesBound
      <4>4. n * r <= max * r /\ n * r \in Int
        <5>1. max - n \in Nat /\ (max - n) * r \in Nat /\ max * r = n * r + (max - n) * r
          BY <1>1, <2>1
        <5>2. n * r \in Int
          BY <1>1, <2>1
        <5>. QED  BY <3>2, <5>1, <5>2
      <4>. QED  BY <3>2, <3>3, <4>3, <4>4
    <3>6. bytes \in Int
      BY <3>2, <3>3
    <3>. HIDE DEF bytes
    <3>. QED  BY <1>1, <3>1, <3>5, <3>6, AtReadsAll
  <2>5. CASE ~(bytes > SizeMax) /\ ~(max * r < Word)
    <3>1. NativeRead(max, bytes, 0..max)
      BY <2>2, <2>5 DEF ReadText
    <3>2. max' = max /\ kind' = kind
      BY <3>1 DEF NativeRead, AppendUnits, lobVars
    <3>. QED  BY <1>4, <2>5, <3>2 DEF PositionedRead, Ratio
  <2>. QED  BY <2>3, <2>4, <2>5
<1>. QED  BY <1>2, <1>3, <1>4

(* Every other step leaves an answer as it is, takes it back, or ends a    *)
(* read of the whole LOB.                                                  *)
LEMMA AtInductive ==
    ASSUME ReadInv, AtInv, PositionedRead, [Next]_vars
    PROVE  AtInv' /\ PositionedRead'
<1>1. ASSUME NEW error \in Results \ {"ok"}, Refuse(error)
      PROVE  AtInv' /\ PositionedRead'
  BY <1>1 DEF Refuse, AtInv, PositionedRead
<1>2. ASSUME NEW call, NEW limit, NEW from, Begin(call, limit, from)
      PROVE  AtInv' /\ PositionedRead'
  BY <1>2 DEF Begin, AtInv, PositionedRead
<1>3. ASSUME op \in {"readToEnd", "readToString"}, whole' = whole, op' \in {op, "idle"}
      PROVE  AtInv' /\ PositionedRead'
  BY <1>3 DEF ReadInv, ChunkInv, AtInv, PositionedRead
<1>4. CASE Start
  BY <1>1, <1>2, <1>4
  DEF Start, StartReadToEnd, StartReadToString, StartReadAt, Results
<1>5. CASE ReadBlobChunk
  <2>1. whole' = whole /\ op' \in {op, "idle"}
    BY <1>5 DEF ReadBlobChunk, NativeRead, AppendUnits, Finish, FinishHere, history
  <2>. QED  BY <1>3, <1>5, <2>1 DEF ReadBlobChunk
<1>6. CASE ReadTextChunk
  <2>1. whole' = whole /\ op' \in {op, "idle"}
    BY <1>6 DEF ReadTextChunk, ReadText, Refuse, NativeRead, AppendUnits, Finish, FinishHere,
                history
  <2>. QED  BY <1>3, <1>6, <2>1 DEF ReadTextChunk
<1>7. CASE ReadAt
  <2>1. op' = "idle"
    BY <1>7 DEF ReadAt, ReadText, Refuse, FinishHere, Finish, NativeRead, Fits, ReadInv, IInv,
                TypeOK
  <2>. QED  BY <1>7, <2>1, AtReadKeeps DEF AtInv
<1>8. CASE NativeFails
  BY <1>1, <1>8 DEF NativeFails, Results
<1>9. CASE UNCHANGED vars
  BY <1>9 DEF vars, lobVars, history, AtInv, PositionedRead, Ratio
<1>. QED  BY <1>4, <1>5, <1>6, <1>7, <1>8, <1>9 DEF Next, Progress

(* lob.rs:163 and 366: if the client returns what fits, Ok from read_at    *)
(* means all the units asked for, or all there are from the position on,   *)
(* for every LOB, position and request whose buffer size does not wrap.    *)
THEOREM OkMeansAllAsked == Spec => []PositionedRead
<1>1. Init => AtInv /\ PositionedRead
  BY DEF Init, AtInv, PositionedRead
<1>. QED  BY <1>1, AtInductive, ReadInitially, ReadInductive, PTL DEF Spec
-----------------------------------------------------------------------------
(* The loops.  TransfersEnd needs fairness; this is what it rests on.      *)

(* The most steps that the call in progress can still take.                *)
Remaining ==
    IF op = "idle" THEN 0
    ELSE IF op = "readAt" THEN 1
    ELSE IF op = "readToEnd" THEN Len(lob) - filled + 1
    ELSE Len(lob) - offset + 2

Shortens == Remaining \in Nat /\ Remaining' \in Nat /\ Remaining' < Remaining

LEMMA RemainingBounds ==
    ASSUME ReadInv
    PROVE  /\ Remaining \in Nat
           /\ op # "idle" => Remaining > 0
<1>1. /\ op \in Ops /\ Len(lob) \in Nat /\ filled \in Nat /\ offset \in Nat
      /\ op \in {"readToEnd", "readToString"} => filled <= Len(lob) /\ offset <= Len(lob) + 1
  BY DEF ReadInv, ChunkInv, IInv, TypeOK, OffsetInv, Contiguous
<1>. QED  BY <1>1 DEF Remaining, Ops

(* A call that returns has nothing left to do.                             *)
LEMMA ReturnShortens ==
    ASSUME ReadInv, op # "idle", op' = "idle"
    PROVE  Shortens
BY RemainingBounds DEF Remaining, Shortens

(* A native read of a whole-LOB loop appends a unit or ends the loop.      *)
LEMMA ChunkShortens ==
    ASSUME ReadInv, ReadInv', op \in {"readToEnd", "readToString"},
           NEW units \in Nat, NEW room, NEW stops, NativeRead(units, room, stops),
           \A n \in 0..units : n \notin stops => n > 0
    PROVE  Shortens
<1>1. PICK n \in Fits(units, room) :
         /\ AppendUnits(n)
         /\ IF n \in stops THEN Finish ELSE UNCHANGED <<op, result>>
  BY DEF NativeRead
<1>2. CASE n \in stops
  BY <1>1, <1>2, ReturnShortens DEF Finish
<1>3. CASE n \notin stops
  <2>1. n \in Nat /\ n > 0
    BY <1>1, <1>3 DEF Fits
  <2>2. /\ op' = op /\ lob' = lob
        /\ filled' = filled + n /\ offset' = offset + n
    BY <1>1, <1>3 DEF AppendUnits, lobVars
  <2>3. /\ Len(lob) \in Nat /\ filled \in Nat /\ offset \in Nat
        /\ filled' <= Len(lob) /\ offset' <= Len(lob) + 1
    BY <2>2 DEF ReadInv, ChunkInv, IInv, TypeOK, OffsetInv, Contiguous
  <2>4. Remaining' = Remaining - n /\ Remaining' \in Nat
    BY <2>1, <2>2, <2>3 DEF Remaining
  <2>. QED  BY <2>1, <2>4, RemainingBounds DEF Shortens
<1>. QED  BY <1>2, <1>3

(* Every step of a call in progress, whether or not it is a failure,       *)
(* shortens what the call has left, whatever the client returns: the loops *)
(* of read_to_end (lob.rs) take at most one turn for each unit of the LOB  *)
(* and one to end, and those of read_to_string no more.                    *)
LoopsShorten == [][op # "idle" => Shortens]_vars

(* lob.rs, the read loops: every turn makes progress, whatever the client  *)
(* returns, so no loop runs for ever.                                      *)
THEOREM TransfersShorten == Spec => LoopsShorten
<1>1. ASSUME ReadInv, ReadInv', [Next]_vars PROVE [op # "idle" => Shortens]_vars
  <2>. SUFFICES ASSUME Next, op # "idle" PROVE Shortens
    BY <1>1
  <2>1. CASE ReadBlobChunk
    <3>. DEFINE remaining == Len(lob) - filled
                chunkLen == IF remaining < max THEN remaining ELSE max
    <3>1. /\ op = "readToEnd" /\ max \in Nat /\ max > 0 /\ remaining \in Int
      BY <1>1, <2>1 DEF ReadBlobChunk, ReadInv, ChunkInv, IInv, TypeOK
    <3>2. CASE remaining > 0
      <4>1. chunkLen \in Nat /\ chunkLen > 0
        BY <3>1, <3>2
      <4>2. NativeRead(chunkLen, chunkLen, 0..(chunkLen - 1))
        BY <2>1, <3>2 DEF ReadBlobChunk
      <4>. HIDE DEF chunkLen
      <4>3. \A n \in 0..chunkLen : n \notin 0..(chunkLen - 1) => n > 0
        BY <4>1
      <4>. QED  BY <1>1, <3>1, <4>1, <4>2, <4>3, ChunkShortens
    <3>3. CASE ~(remaining > 0)
      BY <1>1, <2>1, <3>3, ReturnShortens DEF ReadBlobChunk, FinishHere, Finish
    <3>. QED  BY <3>2, <3>3
  <2>2. CASE ReadTextChunk
    <3>. DEFINE bytes == Wrap(max * Ratio(kind))
    <3>1. op = "readToString" /\ max \in Nat
      BY <1>1, <2>2 DEF ReadTextChunk, ReadInv, IInv, TypeOK
    <3>2. CASE NativeRead(max, bytes, {0})
      <4>1. \A n \in 0..max : n \notin {0} => n > 0
        BY <3>1
      <4>. HIDE DEF bytes
      <4>. QED  BY <1>1, <3>1, <3>2, <4>1, ChunkShortens
    <3>3. CASE Refuse("tooLarge") \/ FinishHere
      BY <1>1, <3>3, ReturnShortens DEF Refuse, FinishHere, Finish
    <3>. QED  BY <2>2, <3>2, <3>3 DEF ReadTextChunk, ReadText
  <2>3. CASE ReadAt
    <3>1. op = "readAt" /\ max \in Nat
      BY <1>1, <2>3 DEF ReadAt, ReadInv, IInv, TypeOK
    <3>2. ASSUME NEW room, NativeRead(max, room, 0..max) PROVE op' = "idle"
      BY <3>2 DEF NativeRead, Fits, Finish
    <3>3. op' = "idle"
      BY <2>3, <3>2 DEF ReadAt, ReadText, Refuse, FinishHere, Finish
    <3>. QED  BY <1>1, <3>3, ReturnShortens
  <2>4. CASE NativeFails
    BY <1>1, <2>4, ReturnShortens DEF NativeFails, Refuse
  <2>5. CASE Start
    BY <2>5 DEF Start, StartReadToEnd, StartReadToString, StartReadAt
  <2>. QED  BY <2>1, <2>2, <2>3, <2>4, <2>5 DEF Next, Progress
<1>. QED  BY <1>1, ReadInitially, ReadInductive, PTL DEF Spec, LoopsShorten
=============================================================================
