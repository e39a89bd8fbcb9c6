------------------------ MODULE CircularBufferProofs ------------------------
(***************************************************************************)
(* Proofs about module CircularBuffer, for every capacity, seek limit,     *)
(* word size, set of datagram lengths and set of read lengths; and about   *)
(* module AVReader, the parser that reads through the buffer: it keeps the *)
(* buffer's contract, so that the first part applies to the program, and   *)
(* the packets it hands on are where it believes them to be.               *)
(***************************************************************************)
EXTENDS AVReader, FiniteSetTheorems, TLAPS

(* The request being retried still satisfies what the client had to        *)
(* respect when it asked: no write and no failed attempt invalidates it.   *)
RequestOK ==
  request # NoRequest =>
    /\ request.n \in ReadSizes
    /\ request.pos <= MaxPos
    /\ ClientMayAsk(request.pos, request.n)

(* Bookkeeping of the fill level: size counts the cells between the        *)
(* indices, except that a failed seek leaves it too small until the same   *)
(* request is served, a datagram arrives or the buffer breaks.             *)
SizeOK ==
  ~lapped =>
    /\ size <= TrueSize
    /\ TrueSize <= written
    /\ m_ignorePosition => size = TrueSize
    /\ (size # TrueSize /\ ~m_isBroken) =>
          request # NoRequest /\ request.pos < SyncLimit

(* While the reader may seek and the writer has not wrapped, the array is  *)
(* the stream itself.                                                      *)
SeekOK ==
  (~lapped /\ ~m_ignorePosition) =>
    /\ end_index = written
    /\ beg_index <= end_index
    /\ \A i \in 0 .. written - 1 : data[i] = i

DeliveredOK ==
  /\ delivered.ret \in Int
  /\ delivered.ret > 0 => delivered.bytes[0] \in Int

IInv ==
  /\ TypeOK
  /\ IndexInBuffer
  /\ position <= MaxPos
  /\ RequestOK
  /\ SizeOK
  /\ SeekOK
  /\ WindowIntact
  /\ DeliveredOK
  /\ DeliveredInOrder
-----------------------------------------------------------------------------
(* Within the array, moving an index is addition with at most one wrap.    *)
LEMMA AdvanceInIndex ==
  ASSUME NEW i \in Index, NEW n \in 0 .. Capacity - 1
  PROVE  /\ Advance(i, n) \in Index
         /\ Advance(i, n) = IF i + n < Capacity THEN i + n ELSE i + n - Capacity
BY CapacityAssumption DEF Advance, Add, Sub, Index

(* For indices within the array, calculateSize() counts the cells between  *)
(* them.                                                                   *)
LEMMA SizeOfIndices ==
  ASSUME NEW b \in Index, NEW e \in Index
  PROVE  /\ CalculateSize(b, e) \in 0 .. Capacity - 1
         /\ CalculateSize(b, e) = IF e >= b THEN e - b ELSE Capacity - b + e
BY CapacityAssumption DEF CalculateSize, Add, Sub, Index

(* A read from within the array copies cell after cell, wrapping once.     *)
LEMMA CopyOutCells ==
  ASSUME TypeOK, NEW b \in Index, NEW n \in 1 .. Capacity - 1
  PROVE  \A j \in 0 .. n - 1 : CopyOut(b, n)[j] = data[Wrap(b + j)]
<1> TAKE j \in 0 .. n - 1
<1>1. CopyOut(b, n)[j] = IF n <= Sub(Capacity, b) \/ j < Sub(Capacity, b)
                         THEN Cell(Add(b, j))
                         ELSE Cell(Sub(j, Sub(Capacity, b)))
  BY DEF CopyOut
<1>2. Sub(Capacity, b) = Capacity - b /\ Add(b, j) = b + j
  BY CapacityAssumption DEF Sub, Add, Index
<1>3. CASE b + j < Capacity
  <2>1. CopyOut(b, n)[j] = Cell(b + j)
    BY <1>1, <1>2, <1>3, CapacityAssumption DEF Index
  <2>2. b + j \in Index /\ Wrap(b + j) = b + j
    BY <1>3, CapacityAssumption DEF Index, Wrap
  <2> QED BY <2>1, <2>2 DEF Cell
<1>4. CASE b + j >= Capacity
  <2>1. CopyOut(b, n)[j] = Cell(b + j - Capacity)
    <3>1. ~(n <= Capacity - b) /\ ~(j < Capacity - b)
      BY <1>4, CapacityAssumption DEF Index
    <3>2. Sub(j, Capacity - b) = b + j - Capacity
      BY <1>4, CapacityAssumption DEF Sub, Index
    <3> QED BY <1>1, <1>2, <3>1, <3>2
  <2>2. b + j - Capacity \in Index /\ Wrap(b + j) = b + j - Capacity
    BY <1>4, CapacityAssumption DEF Index, Wrap
  <2> QED BY <2>1, <2>2 DEF Cell
<1> QED BY <1>3, <1>4, CapacityAssumption DEF Index
-----------------------------------------------------------------------------
(* The initial buffer satisfies the invariant. *)
LEMMA InitIInv == Init => IInv
<1> SUFFICES ASSUME Init PROVE IInv
  OBVIOUS
<1>1. TypeOK
  <2>1. Garbage \in Int
    BY DEF Garbage
  <2>2. data \in [Index -> Int]
    BY <2>1 DEF Init
  <2> QED BY <2>2 DEF Init, TypeOK, NoRequest
<1>2. IndexInBuffer /\ position <= MaxPos /\ TrueSize = 0
  BY CapacityAssumption, BoundAssumption DEF Init, IndexInBuffer, Index, TrueSize
<1>3. RequestOK /\ SizeOK /\ SeekOK
  BY <1>2 DEF Init, RequestOK, SizeOK, SeekOK
<1>4. WindowIntact
  BY <1>2 DEF Init, WindowIntact
<1>5. DeliveredOK /\ DeliveredInOrder
  BY DEF Init, DeliveredOK, DeliveredInOrder
<1> QED BY <1>1, <1>2, <1>3, <1>4, <1>5 DEF IInv

(* A datagram that does not fit changes neither the bytes nor the indices. *)
LEMMA WriteFullKeeps ==
  ASSUME IInv, NEW n \in Datagrams, WriteFull(n)
  PROVE  IInv'
<1> USE DEF IInv, WriteFull
<1>1. TypeOK' BY DEF TypeOK
<1>2. IndexInBuffer' /\ (position <= MaxPos)' BY DEF IndexInBuffer
<1>3. RequestOK' BY DEF RequestOK, ClientMayAsk
<1>4. SizeOK' /\ SeekOK' BY DEF SizeOK, SeekOK, TrueSize
<1>5. WindowIntact' BY DEF WindowIntact, TrueSize, Wrap
<1>6. DeliveredOK' /\ DeliveredInOrder' BY DEF DeliveredOK, DeliveredInOrder
<1> QED BY <1>1, <1>2, <1>3, <1>4, <1>5, <1>6

(* Asking starts a request that satisfies the client's contract. *)
LEMMA AskKeeps ==
  ASSUME IInv, Ask
  PROVE  IInv'
<1> PICK n \in ReadSizes, pos \in 0 .. MaxPos :
       ClientMayAsk(pos, n) /\ RequestRead(pos, n)
  BY DEF Ask
<1> USE DEF IInv, RequestRead, ring
<1>1. TypeOK' BY ClientAssumption, BoundAssumption DEF TypeOK
<1>2. IndexInBuffer' /\ (position <= MaxPos)' BY DEF IndexInBuffer
<1>3. RequestOK' BY BoundAssumption DEF RequestOK, ClientMayAsk
<1>4. SizeOK' /\ SeekOK' BY DEF SizeOK, SeekOK, TrueSize
<1>5. WindowIntact' BY DEF WindowIntact, TrueSize, Wrap
<1>6. DeliveredOK' /\ DeliveredInOrder' BY DEF DeliveredOK, DeliveredInOrder
<1> QED BY <1>1, <1>2, <1>3, <1>4, <1>5, <1>6

(* Giving up on a broken buffer ends the request. *)
LEMMA ReadBrokenKeeps ==
  ASSUME IInv, ReadBroken
  PROVE  IInv'
<1> USE DEF IInv, ReadBroken, ring
<1>1. TypeOK' BY DEF TypeOK, NoRequest
<1>2. IndexInBuffer' /\ (position <= MaxPos)' BY DEF IndexInBuffer
<1>3. RequestOK' BY DEF RequestOK
<1>4. SizeOK' /\ SeekOK' BY DEF SizeOK, SeekOK, TrueSize
<1>5. WindowIntact' BY DEF WindowIntact, TrueSize, Wrap
<1>6. DeliveredOK' /\ DeliveredInOrder' BY DEF DeliveredOK, DeliveredInOrder
<1> QED BY <1>1, <1>2, <1>3, <1>4, <1>5, <1>6

(* Reading the high-water mark resets it to the current fill level. *)
LEMMA GetMaxSizeKeeps ==
  ASSUME IInv, GetMaxSize
  PROVE  IInv'
<1> USE DEF IInv, GetMaxSize
<1>1. TypeOK' BY DEF TypeOK
<1>2. IndexInBuffer' /\ (position <= MaxPos)' BY DEF IndexInBuffer, TypeOK
<1>3. RequestOK' BY DEF RequestOK, ClientMayAsk
<1>4. SizeOK' /\ SeekOK' BY DEF SizeOK, SeekOK, TrueSize
<1>5. WindowIntact' BY DEF WindowIntact, TrueSize, Wrap
<1>6. DeliveredOK' /\ DeliveredInOrder' BY DEF DeliveredOK, DeliveredInOrder
<1> QED BY <1>1, <1>2, <1>3, <1>4, <1>5, <1>6

(* The fill level between the indices never reaches the capacity. *)
LEMMA RingTypes ==
  ASSUME TypeOK, IndexInBuffer
  PROVE  /\ Capacity \in Nat /\ Capacity > 1 /\ Index = 0 .. Capacity - 1
         /\ beg_index \in 0 .. Capacity - 1 /\ end_index \in 0 .. Capacity - 1
         /\ size \in 0 .. Capacity - 1 /\ written \in Nat
BY CapacityAssumption DEF TypeOK, IndexInBuffer, Index

LEMMA TrueSizeBounds ==
  ASSUME TypeOK, IndexInBuffer
  PROVE  TrueSize \in 0 .. Capacity - 1
BY CapacityAssumption DEF TypeOK, IndexInBuffer, Index, TrueSize

(* Storing a datagram appends it to the window: nothing between beg_index  *)
(* and end_index is overwritten.                                           *)
LEMMA WriteStoreKeeps ==
  ASSUME IInv, NEW n \in Datagrams, WriteStore(n)
  PROVE  IInv' /\ (m_ignorePosition /\ ~lapped' => Skew' = Skew)
<1> USE DEF IInv
<1>1. /\ size \in 0 .. Capacity - 1 /\ n \in 1 .. Capacity - 1
      /\ n <= Capacity - 1 - size
  <2>1. size \in 0 .. Capacity - 1 /\ Capacity \in Nat
    BY RingTypes
  <2>2. n \in Nat \ {0} /\ n <= Sub(Capacity - 1, size)
    BY CapacityAssumption, ClientAssumption DEF WriteStore
  <2> QED BY <2>1, <2>2 DEF Sub
<1>2. ~(Add(size, n) > Capacity)
  BY <1>1, CapacityAssumption DEF Add
<1>3. /\ end_index' \in Index
      /\ end_index' = IF end_index + n < Capacity THEN end_index + n
                      ELSE end_index + n - Capacity
  BY <1>1, AdvanceInIndex DEF WriteStore, IndexInBuffer
<1>4. /\ size' \in 0 .. Capacity - 1
      /\ size' = TrueSize'
  BY <1>3, SizeOfIndices DEF WriteStore, IndexInBuffer, TrueSize
<1>5. /\ max_size' = Larger(size', max_size)
      /\ m_isBroken' = FALSE
      /\ signalRestartAll' = signalRestartAll
  BY <1>2 DEF WriteStore, TypeOK
<1>6. data' \in [Index -> Int]
  <2>1. \A i \in Index : CopyIn(n)[i] \in Int
    BY <1>1, CapacityAssumption DEF CopyIn, TypeOK, Index, IndexInBuffer
  <2> QED BY <2>1 DEF WriteStore, CopyIn
<1>7. TypeOK'
  BY <1>3, <1>4, <1>5, <1>6, <1>1, CapacityAssumption
     DEF WriteStore, TypeOK, Larger, Index
<1>8. IndexInBuffer' /\ (position <= MaxPos)'
  <2>1. size' <= max_size'
    BY <1>4, <1>5 DEF Larger, TypeOK
  <2>2. beg_index' = beg_index /\ position' = position
    BY DEF WriteStore
  <2> QED BY <1>3, <1>4, <2>1, <2>2, CapacityAssumption DEF IndexInBuffer
<1>9. RequestOK'
  BY DEF WriteStore, RequestOK, ClientMayAsk
<1>10. ~lapped' => ~lapped
  BY DEF WriteStore
<1>11. ASSUME ~lapped', ~m_ignorePosition
       PROVE  /\ SeekOK' /\ TrueSize' = TrueSize + n
              /\ TrueSize + n < Capacity
  <2>1. /\ end_index = written /\ beg_index <= end_index
        /\ written + n < Capacity
    <3>1. ~(written + n >= Capacity)
      BY <1>11 DEF WriteStore
    <3> QED BY <3>1, <1>10, <1>11, <1>1, CapacityAssumption DEF SeekOK, TypeOK
  <2>2. end_index' = written + n /\ written' = written + n
    BY <2>1, <1>3 DEF WriteStore
  <2>3. \A i \in 0 .. written' - 1 : data'[i] = i
    <3> TAKE i \in 0 .. written' - 1
    <3>1. i \in Index
      BY <2>1, <2>2, <1>1, CapacityAssumption DEF Index, TypeOK
    <3>2. data'[i] = CopyIn(n)[i]
      BY DEF WriteStore
    <3>3. CASE i < written
      BY <3>1, <3>2, <3>3, <2>1, <1>10, <1>11, <1>1, CapacityAssumption
         DEF CopyIn, SeekOK, TypeOK, Index
    <3>4. CASE i >= written
      BY <3>1, <3>2, <3>4, <2>1, <2>2, <1>1 DEF CopyIn, TypeOK, Index
    <3> QED BY <3>3, <3>4 DEF TypeOK
  <2>4. beg_index' <= end_index'
    BY <2>1, <2>2, <1>1 DEF WriteStore, TypeOK
  <2>5. SeekOK'
    BY <2>2, <2>3, <2>4 DEF SeekOK
  <2>6. TrueSize' = TrueSize + n /\ TrueSize + n < Capacity
    BY <2>1, <2>2, <2>4, <1>1, CapacityAssumption DEF TrueSize, WriteStore, TypeOK
  <2> QED BY <2>5, <2>6
<1>12. ASSUME ~lapped', m_ignorePosition
       PROVE  TrueSize' = TrueSize + n /\ TrueSize + n < Capacity
  <2>1. size = TrueSize
    BY <1>10, <1>12 DEF SizeOK
  <2>2. beg_index' = beg_index
    BY DEF WriteStore
  <2>3. Capacity \in Nat /\ Capacity > 1 /\ beg_index \in 0 .. Capacity - 1
        /\ end_index \in 0 .. Capacity - 1 /\ size \in 0 .. Capacity - 1
    BY RingTypes
  <2>4. end_index' \in 0 .. Capacity - 1
    BY <1>3 DEF Index
  <2> QED BY <2>1, <2>2, <2>3, <2>4, <1>1, <1>3 DEF TrueSize
<1>13. ~lapped' => TrueSize' = TrueSize + n /\ TrueSize + n < Capacity
  BY <1>11, <1>12 DEF TypeOK
<1>14. SizeOK'
  <2> SUFFICES ASSUME ~lapped' PROVE SizeOK'
    BY DEF SizeOK
  <2>1. TrueSize <= written
    BY <1>10 DEF SizeOK
  <2> QED
    BY <2>1, <1>4, <1>13, <1>1, TrueSizeBounds DEF SizeOK, WriteStore, TypeOK
<1>15. SeekOK'
  BY <1>11 DEF SeekOK, WriteStore
<1>16. WindowIntact'
  <2> SUFFICES ASSUME ~lapped', NEW j \in 0 .. TrueSize' - 1
               PROVE  data'[Wrap(beg_index + j)] = written' - TrueSize' + j
    BY DEF WindowIntact, WriteStore, Wrap
  <2>1. /\ TrueSize' = TrueSize + n /\ TrueSize + n < Capacity
        /\ written' = written + n /\ TrueSize \in 0 .. Capacity - 1
    BY <1>13, TrueSizeBounds DEF WriteStore
  <2>2. j \in 0 .. TrueSize + n - 1 /\ Wrap(beg_index + j) \in Index
    BY <2>1, <1>1, CapacityAssumption DEF Wrap, Index, IndexInBuffer
  <2>3. data'[Wrap(beg_index + j)] = CopyIn(n)[Wrap(beg_index + j)]
    BY DEF WriteStore
  <2>4. CASE j < TrueSize
    <3>1. data[Wrap(beg_index + j)] = written - TrueSize + j
      BY <2>2, <2>1, <2>4, <1>10 DEF WindowIntact
    <3>2. CopyIn(n)[Wrap(beg_index + j)] = data[Wrap(beg_index + j)]
      BY <2>1, <2>2, <2>4, <1>1, CapacityAssumption
         DEF CopyIn, Wrap, TrueSize, Index, IndexInBuffer, TypeOK
    <3> QED BY <3>1, <3>2, <2>1, <2>2, <2>3, <1>1 DEF TypeOK
  <2>5. CASE j >= TrueSize
    <3>1. CopyIn(n)[Wrap(beg_index + j)] = written + (j - TrueSize)
      <4> DEFINE i == Wrap(beg_index + j)
      <4>1. \/ i >= end_index /\ i - end_index = j - TrueSize
            \/ i < end_index /\ i + Capacity - end_index = j - TrueSize
        <5>1. j \in Int /\ n \in Int /\ j >= TrueSize /\ j < TrueSize + n
              /\ TrueSize + n < Capacity
          BY <2>1, <2>2, <2>5, <1>1
        <5>4. Capacity \in Nat /\ Capacity > 1 /\ beg_index \in 0 .. Capacity - 1
              /\ end_index \in 0 .. Capacity - 1 /\ size \in 0 .. Capacity - 1
          BY RingTypes
        <5>2. CASE end_index >= beg_index
          BY <5>1, <5>2, <5>4 DEF Wrap, TrueSize
        <5>3. CASE ~(end_index >= beg_index)
          BY <5>1, <5>3, <5>4 DEF Wrap, TrueSize
        <5> QED BY <5>2, <5>3
      <4>2. i \in Index /\ end_index \in Int /\ i \in Int /\ j - TrueSize < n
        BY <2>1, <2>2, <1>1, CapacityAssumption DEF Index, TypeOK
      <4> HIDE DEF i
      <4>3. CopyIn(n)[i] = written + (j - TrueSize)
        BY <4>1, <4>2 DEF CopyIn
      <4> QED BY <4>3 DEF i
    <3> QED BY <3>1, <2>1, <2>2, <2>3, <1>1 DEF TypeOK
  <2> QED BY <2>4, <2>5, <2>1, <2>2
<1>17. DeliveredOK' /\ DeliveredInOrder'
  BY <1>10, <1>1 DEF DeliveredOK, DeliveredInOrder, WriteStore, TypeOK
<1>18. m_ignorePosition /\ ~lapped' => Skew' = Skew
  BY <1>13, <1>1, TrueSizeBounds DEF Skew, WriteStore, TypeOK
<1> QED BY <1>7, <1>8, <1>9, <1>14, <1>15, <1>16, <1>17, <1>18

(* A seek lands inside the array, with room for the bytes asked for, and   *)
(* never ahead of what was read: it makes the window longer, not shorter.  *)
LEMMA SeekInWindow ==
  ASSUME IInv, request # NoRequest
  PROVE  /\ SeekIndex \in Index /\ SeekPosition \in Nat
         /\ SeekPosition <= MaxPos
         /\ Seeks => /\ SeekIndex = request.pos /\ SeekPosition = request.pos
                     /\ request.pos <= beg_index
         /\ ~Seeks => SeekIndex = beg_index /\ SeekPosition = position
         /\ Seeks = ~FollowsDeltas
         /\ Seeks => ~m_ignorePosition
<1> USE DEF IInv
<1>1. request.pos \in Nat /\ request.n \in Nat /\ request.n > 0
  BY ClientAssumption DEF TypeOK, RequestOK
<1>2. Seeks = ~FollowsDeltas /\ (Seeks => ~m_ignorePosition)
  BY <1>1, ClientAssumption DEF Seeks, FollowsDeltas, TypeOK
<1>3. CASE Seeks
  <2>1. request.pos <= beg_index
    BY <1>3 DEF Seeks, RequestOK, ClientMayAsk
  <2>2. request.pos \in Index
    BY <2>1, <1>1, CapacityAssumption DEF IndexInBuffer, Index
  <2> QED BY <1>1, <1>2, <1>3, <2>1, <2>2 DEF SeekIndex, SeekPosition, RequestOK
<1>4. CASE ~Seeks
  BY <1>2, <1>4 DEF SeekIndex, SeekPosition, TypeOK, IndexInBuffer
<1> QED BY <1>3, <1>4

(* An unsuccessful attempt keeps the invariant, seek included. *)
LEMMA ReadNoDataKeeps ==
  ASSUME IInv, ReadNoData
  PROVE  IInv' /\ (m_ignorePosition /\ ~lapped' => Skew' = Skew)
<1> USE DEF IInv
<1>0. request # NoRequest
  BY DEF ReadNoData
<1>1. /\ beg_index' \in Index /\ position' \in Nat /\ position' <= MaxPos
      /\ Seeks => /\ beg_index' = request.pos /\ position' = request.pos
                  /\ request.pos <= beg_index
                  /\ ~m_ignorePosition /\ m_ignorePosition' = FALSE
      /\ ~Seeks => /\ beg_index' = beg_index /\ position' = position
                   /\ m_ignorePosition' = TRUE
  BY <1>0, SeekInWindow DEF ReadNoData, FollowsDeltas, Seeks
<1>2. /\ request.pos \in Nat /\ request.n \in Nat /\ beg_index' \in Nat
      /\ beg_index \in Nat
  BY <1>1 DEF TypeOK, Index
<1>3. TypeOK'
  BY <1>1, <1>2 DEF TypeOK, ReadNoData
<1>4. IndexInBuffer' /\ (position <= MaxPos)'
  BY <1>1 DEF IndexInBuffer, ReadNoData
<1>5. RequestOK'
  <2>1. ClientMayAsk(request.pos, request.n)
    BY <1>0 DEF RequestOK
  <2>2. CASE Seeks
    BY <1>0, <1>1, <1>2, <2>2 DEF RequestOK, ClientMayAsk, ReadNoData, Seeks
  <2>3. CASE ~Seeks
    BY <1>0, <1>1, <2>1, <2>3 DEF RequestOK, ClientMayAsk, ReadNoData, Seeks
  <2> QED BY <2>2, <2>3
<1>6. ASSUME ~Seeks
      PROVE  /\ SizeOK' /\ SeekOK' /\ WindowIntact'
             /\ (m_ignorePosition /\ ~lapped' => Skew' = Skew)
  <2>1. SizeOK'
    BY <1>0, <1>1, <1>2, <1>6, ClientAssumption
       DEF SizeOK, TrueSize, ReadNoData, Seeks, TypeOK
  <2>2. SeekOK'
    BY <1>1, <1>6 DEF SeekOK
  <2>3. WindowIntact' /\ (m_ignorePosition /\ ~lapped' => Skew' = Skew)
    BY <1>1, <1>6 DEF WindowIntact, TrueSize, Wrap, Skew, ReadNoData
  <2> QED BY <2>1, <2>2, <2>3
<1>7. ASSUME Seeks
      PROVE  /\ SizeOK' /\ SeekOK' /\ WindowIntact'
             /\ (m_ignorePosition /\ ~lapped' => Skew' = Skew)
  <2>1. SeekOK'
    BY <1>1, <1>2, <1>7 DEF SeekOK, ReadNoData, TypeOK
  <2>2. ~lapped => /\ TrueSize' = end_index - request.pos /\ end_index = written
                   /\ TrueSize = end_index - beg_index
                   /\ request.pos <= beg_index /\ beg_index <= end_index
                   /\ request.pos <= end_index
    BY <1>1, <1>2, <1>7 DEF SeekOK, ReadNoData, TypeOK, TrueSize
  <2>3. SizeOK'
    <3> SUFFICES ASSUME ~lapped
                 PROVE  /\ size <= TrueSize' /\ TrueSize' <= written
                        /\ request.pos < SyncLimit
      BY <1>0, <1>1, <1>7 DEF SizeOK, ReadNoData
    <3> QED BY <2>2, <1>2, <1>7 DEF SizeOK, TypeOK, Seeks
  <2>4. WindowIntact'
    <3> SUFFICES ASSUME ~lapped, NEW j \in 0 .. TrueSize' - 1
                 PROVE  data[Wrap(request.pos + j)] = written - TrueSize' + j
      BY <1>1, <1>7 DEF WindowIntact, ReadNoData, Wrap
    <3>0. TrueSize' = written - request.pos /\ written < Capacity
      BY <2>2, CapacityAssumption DEF IndexInBuffer, Index, TypeOK
    <3>1. /\ written - TrueSize' = request.pos
          /\ request.pos + j \in 0 .. written - 1
          /\ Wrap(request.pos + j) = request.pos + j
      BY <3>0, <1>2, CapacityAssumption DEF TypeOK, Wrap
    <3> QED BY <3>1, <1>1, <1>7 DEF SeekOK
  <2> QED BY <2>1, <2>3, <2>4, <1>1, <1>7
<1>8. DeliveredOK' /\ DeliveredInOrder'
  BY DEF DeliveredOK, DeliveredInOrder, ReadNoData
<1> QED BY <1>3, <1>4, <1>5, <1>6, <1>7, <1>8

(* A successful read copies a prefix of the window and moves beg_index     *)
(* within it.  Its first byte is at the position asked for, or as far from *)
(* it as the reads since the seeks have all been.                          *)
LEMMA ReadDataKeeps ==
  ASSUME IInv, ReadData
  PROVE  /\ IInv'
         /\ ~lapped' /\ ~Seeks => Skew' = Skew
         /\ position' = request.pos
         /\ Seeks => beg_index' = request.pos + request.n
         /\ ~lapped =>
              delivered'.bytes[0] = IF Seeks THEN request.pos ELSE position + Skew
<1> USE DEF IInv
<1> DEFINE n == request.n
           step == IF FollowsDeltas THEN request.pos - SeekPosition ELSE n
<1>0. request # NoRequest /\ SeekIndex # end_index /\ n <= size
  BY DEF ReadData
<1>1. /\ SeekIndex \in Index /\ SeekPosition \in Nat
      /\ Seeks => /\ SeekIndex = request.pos /\ SeekPosition = request.pos
                  /\ request.pos <= beg_index
      /\ ~Seeks => SeekIndex = beg_index /\ SeekPosition = position
      /\ Seeks = ~FollowsDeltas
      /\ Seeks => ~m_ignorePosition
  BY <1>0, SeekInWindow
<1>2. /\ request.pos \in Nat /\ n \in Nat /\ n \in 1 .. Capacity - 1
      /\ SeekIndex \in Nat /\ request.pos <= MaxPos
  BY <1>0, <1>1, ClientAssumption, CapacityAssumption
     DEF TypeOK, RequestOK, IndexInBuffer, Index
<1>3. FollowsDeltas => SeekPosition <= request.pos /\ request.pos - SeekPosition <= n
  BY <1>0, <1>1, <1>2, ClientAssumption
     DEF RequestOK, ClientMayAsk, FollowsDeltas, Seeks, TypeOK
<1>4. step \in 0 .. n /\ step \in 0 .. Capacity - 1
  BY <1>1, <1>2, <1>3, CapacityAssumption
<1>5. beg_index' = Advance(SeekIndex, step)
  BY <1>1, <1>2, <1>3 DEF ReadData, Sub, Consume
<1>6. /\ beg_index' \in Index
      /\ beg_index' = IF SeekIndex + step < Capacity THEN SeekIndex + step
                      ELSE SeekIndex + step - Capacity
  <2> HIDE DEF step
  <2> QED BY <1>1, <1>4, <1>5, AdvanceInIndex
<1>7. size' \in 0 .. Capacity - 1 /\ size' = TrueSize'
  <2>1. size' = CalculateSize(beg_index', end_index) /\ end_index' = end_index
    BY DEF ReadData
  <2> QED BY <1>6, <2>1, SizeOfIndices DEF IndexInBuffer, TrueSize
<1>8. /\ max_size' = Larger(size', max_size) /\ request' = NoRequest
      /\ m_ignorePosition' = FollowsDeltas
      /\ delivered' = [ret |-> n, pos |-> request.pos, bytes |-> CopyOut(SeekIndex, n)]
      /\ end_index' = end_index /\ data' = data /\ written' = written
      /\ lapped' = lapped /\ m_isBroken' = m_isBroken
      /\ signalRestartAll' = signalRestartAll
  BY DEF ReadData
<1>9. position' = request.pos
  <2>1. FollowsDeltas =>
          Add(SeekPosition, Sub(request.pos, SeekPosition)) = request.pos
    <3> SUFFICES ASSUME FollowsDeltas
                 PROVE  Add(SeekPosition, Sub(request.pos, SeekPosition)) = request.pos
      OBVIOUS
    <3>1. SeekPosition <= request.pos /\ request.pos < Word
      BY <1>2, <1>3, BoundAssumption, CapacityAssumption
    <3> HIDE DEF n
    <3> QED BY <1>1, <1>2, <3>1, CapacityAssumption DEF Add, Sub
  <2> QED BY <1>1, <2>1 DEF ReadData
<1>10. TypeOK'
  <2>1. request' \in [pos : Nat, n : Nat]
    BY <1>8 DEF NoRequest
  <2>2. max_size' \in Nat
    BY <1>7, <1>8 DEF Larger, TypeOK
  <2>3. m_ignorePosition' \in BOOLEAN
    BY <1>8 DEF FollowsDeltas
  <2> HIDE DEF step
  <2> QED
    BY <1>2, <1>6, <1>7, <1>8, <1>9, <2>1, <2>2, <2>3, CapacityAssumption
       DEF TypeOK, Index
<1>11. IndexInBuffer' /\ (position <= MaxPos)'
  <2>1. size' <= max_size'
    BY <1>7, <1>8 DEF Larger, TypeOK
  <2> HIDE DEF step
  <2> QED BY <1>2, <1>6, <1>7, <1>8, <1>9, <2>1, CapacityAssumption DEF IndexInBuffer
<1>12. RequestOK'
  BY <1>8 DEF RequestOK
(* The bytes from SeekIndex to end_index, of which the first n are copied. *)
<1> DEFINE avail == IF end_index >= SeekIndex THEN end_index - SeekIndex
                    ELSE Capacity - SeekIndex + end_index
<1>13. ASSUME ~lapped
       PROVE  /\ n <= avail /\ avail <= written /\ avail \in 0 .. Capacity - 1
              /\ \A j \in 0 .. avail - 1 :
                   data[Wrap(SeekIndex + j)] = written - avail + j
  <2>0. avail \in 0 .. Capacity - 1
    BY <1>1, <1>2, CapacityAssumption DEF Index, IndexInBuffer
  <2>1. CASE ~Seeks
    <3>1. avail = TrueSize
      BY <1>1, <2>1 DEF TrueSize
    <3>2. n <= TrueSize /\ TrueSize <= written
      BY <1>0, <1>2, <1>13, <3>1, <2>0 DEF SizeOK, TypeOK
    <3>3. \A j \in 0 .. TrueSize - 1 :
            data[Wrap(beg_index + j)] = written - TrueSize + j
      BY <1>13 DEF WindowIntact
    <3> HIDE DEF avail
    <3> QED BY <1>1, <2>0, <2>1, <3>1, <3>2, <3>3
  <2>2. CASE Seeks
    <3>1. /\ end_index = written /\ beg_index <= end_index
          /\ SeekIndex <= beg_index
      BY <1>1, <1>13, <2>2 DEF SeekOK
    <3>2. /\ avail = written - SeekIndex /\ TrueSize = written - beg_index
          /\ written < Capacity
      BY <1>2, <3>1, CapacityAssumption DEF TrueSize, TypeOK, IndexInBuffer, Index
    <3>3. n <= avail /\ avail <= written
      BY <1>0, <1>2, <1>13, <3>1, <3>2 DEF SizeOK, TypeOK
    <3>4. ASSUME NEW j \in 0 .. avail - 1
          PROVE  data[Wrap(SeekIndex + j)] = written - avail + j
      <4>1. /\ SeekIndex + j \in 0 .. written - 1
            /\ Wrap(SeekIndex + j) = SeekIndex + j
            /\ written - avail + j = SeekIndex + j
        BY <1>2, <2>0, <3>2, CapacityAssumption DEF Wrap, TypeOK
      <4> QED BY <4>1, <1>1, <1>13, <2>2 DEF SeekOK
    <3> QED BY <2>0, <3>3, <3>4
  <2> QED BY <2>1, <2>2
<1>14. ~lapped => TrueSize' = avail - step
  <2> SUFFICES ASSUME ~lapped PROVE TrueSize' = avail - step
    OBVIOUS
  <2>1. n \in Nat /\ n <= avail /\ avail \in 0 .. Capacity - 1
    BY <1>2, <1>13
  <2>2. end_index' = end_index /\ SeekIndex \in 0 .. Capacity - 1
    BY <1>1, <1>2, <1>8 DEF Index
  <2>5. Capacity \in Nat /\ Capacity > 1 /\ end_index \in 0 .. Capacity - 1
    BY RingTypes
  <2>6. /\ step \in 0 .. n
        /\ beg_index' = IF SeekIndex + step < Capacity THEN SeekIndex + step
                        ELSE SeekIndex + step - Capacity
    BY <1>4, <1>6
  <2> HIDE DEF step, n
  <2>3. CASE end_index >= SeekIndex
    <3>1. avail = end_index - SeekIndex
      BY <2>3
    <3> HIDE DEF avail
    <3>2. beg_index' = SeekIndex + step
      BY <2>1, <2>2, <2>5, <2>6, <3>1
    <3> QED BY <2>1, <2>2, <2>5, <2>6, <3>1, <3>2 DEF TrueSize
  <2>4. CASE ~(end_index >= SeekIndex)
    <3>1. avail = Capacity - SeekIndex + end_index
      BY <2>4
    <3> HIDE DEF avail
    <3> QED BY <2>1, <2>2, <2>4, <2>5, <2>6, <3>1 DEF TrueSize
  <2> QED BY <2>3, <2>4
<1>15. SizeOK'
  <2> HIDE DEF step, avail
  <2> QED
    BY <1>4, <1>7, <1>8, <1>13, <1>14 DEF SizeOK, TypeOK
<1>16. SeekOK'
  <2> SUFFICES ASSUME ~lapped, ~FollowsDeltas PROVE SeekOK'
    BY <1>8 DEF SeekOK
  <2>1. Seeks /\ ~m_ignorePosition /\ step = n
    BY <1>1
  <2>2. end_index = written /\ SeekIndex <= beg_index /\ beg_index <= end_index
    BY <1>1, <2>1 DEF SeekOK
  <2>3. beg_index' <= end_index'
    <3>1. /\ SeekIndex \in Nat /\ beg_index \in Nat /\ n \in Nat
          /\ end_index \in 0 .. Capacity - 1 /\ Capacity \in Nat
      BY <1>2, CapacityAssumption DEF TypeOK, IndexInBuffer, Index
    <3>2. avail = end_index - SeekIndex
      BY <2>2, <3>1
    <3>3. n <= avail
      BY <1>13
    <3>. HIDE DEF n, step, avail
    <3>4. SeekIndex + n <= end_index /\ SeekIndex + n < Capacity
      BY <3>1, <3>2, <3>3
    <3>5. beg_index' = SeekIndex + n
      BY <1>6, <2>1, <3>4
    <3> QED BY <1>8, <3>4, <3>5
  <2> QED BY <1>8, <2>1, <2>2, <2>3 DEF SeekOK
<1>17. WindowIntact'
  <2> SUFFICES ASSUME ~lapped, NEW j \in 0 .. TrueSize' - 1
               PROVE  data[Wrap(beg_index' + j)] = written - TrueSize' + j
    BY <1>8 DEF WindowIntact, Wrap
  <2> HIDE DEF step
  <2>1. step + j \in 0 .. avail - 1
    BY <1>4, <1>13, <1>14
  <2>2. Wrap(beg_index' + j) = Wrap(SeekIndex + (step + j))
    <3>1. /\ SeekIndex < Capacity /\ SeekIndex \in Nat /\ step \in Nat
          /\ j \in Nat /\ step + j < Capacity
      BY <1>1, <1>2, <1>4, <1>7, <1>13, <2>1, CapacityAssumption DEF Index
    <3> HIDE DEF avail
    <3>2. CASE SeekIndex + step < Capacity
      BY <3>1, <3>2, <1>6, CapacityAssumption DEF Wrap
    <3>3. CASE SeekIndex + step >= Capacity
      BY <3>1, <3>3, <1>6, CapacityAssumption DEF Wrap
    <3> QED BY <3>1, <3>2, <3>3, CapacityAssumption
  <2>3. data[Wrap(SeekIndex + (step + j))] = written - avail + (step + j)
    BY <1>13, <2>1
  <2> HIDE DEF avail
  <2> QED BY <2>1, <2>2, <2>3, <1>4, <1>13, <1>14 DEF TypeOK
<1>18. DeliveredOK' /\ DeliveredInOrder'
  <2>1. \A j \in 0 .. n - 1 : CopyOut(SeekIndex, n)[j] = data[Wrap(SeekIndex + j)]
    BY <1>1, <1>2, CopyOutCells
  <2>2. \A j \in 0 .. n - 1 : delivered'.bytes[j] = data[Wrap(SeekIndex + j)]
    BY <1>8, <2>1
  <2>3. Wrap(SeekIndex) \in Index /\ SeekIndex + 0 = SeekIndex
    BY <1>1, <1>2, CapacityAssumption DEF Wrap, Index
  <2>4. delivered'.ret = n /\ delivered'.bytes[0] \in Int
    BY <1>2, <1>8, <2>2, <2>3 DEF TypeOK
  <2>5. ASSUME ~lapped
        PROVE  \A j \in 0 .. n - 1 : delivered'.bytes[j] = written - avail + j
    <3> HIDE DEF avail, n
    <3> QED BY <1>2, <1>13, <2>2, <2>5
  <2>6. ASSUME ~lapped
        PROVE  delivered'.bytes[0] = written - avail
    <3> HIDE DEF avail, n
    <3> QED BY <1>2, <1>13, <2>5, <2>6 DEF TypeOK
  <2> HIDE DEF avail, n
  <2>7. DeliveredInOrder'
    BY <1>2, <1>8, <1>13, <2>4, <2>5, <2>6 DEF DeliveredInOrder, TypeOK
  <2> QED BY <1>2, <2>4, <2>7 DEF DeliveredOK
<1>19. ~lapped' /\ ~Seeks => Skew' = Skew
  <2> SUFFICES ASSUME ~Seeks, ~lapped PROVE Skew' = Skew
    BY <1>8
  <2>1. step = request.pos - position /\ avail = TrueSize
    BY <1>1 DEF TrueSize
  <2> HIDE DEF step, avail
  <2> QED BY <1>2, <1>4, <1>8, <1>9, <1>13, <1>14, <2>1 DEF Skew, TypeOK
<1>20. Seeks => beg_index' = request.pos + n
  <2> SUFFICES ASSUME Seeks PROVE beg_index' = request.pos + n
    OBVIOUS
  <2>1. step = n /\ SeekIndex = request.pos /\ request.pos < SyncLimit
    BY <1>1 DEF Seeks
  <2>2. SyncLimit + n <= Capacity
    BY <1>0, ClientAssumption DEF RequestOK
  <2> HIDE DEF step, n
  <2> QED BY <1>2, <1>6, <2>1, <2>2, CapacityAssumption, ClientAssumption
<1>21. ASSUME ~lapped
       PROVE  delivered'.bytes[0] = IF Seeks THEN request.pos ELSE position + Skew
  <2>1. delivered'.bytes[0] = written - avail
    <3>1. delivered'.bytes = CopyOut(SeekIndex, n) /\ 0 \in 0 .. n - 1
      BY <1>2, <1>8
    <3>2. delivered'.bytes[0] = data[Wrap(SeekIndex + 0)]
      BY <1>1, <1>2, <3>1, CopyOutCells
    <3>3. 0 \in 0 .. avail - 1 /\ written - avail + 0 = written - avail
      BY <1>2, <1>13, <1>21 DEF TypeOK
    <3> HIDE DEF avail
    <3> QED BY <1>13, <1>21, <3>2, <3>3
  <2>2. CASE Seeks
    <3>1. /\ end_index = written /\ SeekIndex = request.pos
          /\ request.pos <= beg_index /\ beg_index <= end_index
      BY <1>1, <1>21, <2>2 DEF SeekOK
    <3>2. avail = written - request.pos
      BY <1>2, <3>1 DEF TypeOK
    <3> HIDE DEF avail
    <3> QED BY <1>2, <2>1, <2>2, <3>2 DEF TypeOK
  <2>3. CASE ~Seeks
    <3>1. avail = TrueSize
      BY <1>1, <2>3 DEF TrueSize
    <3>2. avail \in Nat
      BY <1>13, <1>21
    <3> HIDE DEF avail
    <3> QED BY <2>1, <2>3, <3>1, <3>2 DEF Skew, TypeOK
  <2> QED BY <2>2, <2>3
<1> QED
  BY <1>9, <1>10, <1>11, <1>12, <1>15, <1>16, <1>17, <1>18, <1>19, <1>20, <1>21
-----------------------------------------------------------------------------
(* Every step of the program keeps the invariant. *)
LEMMA NextIInv == IInv /\ [Next]_vars => IInv'
<1> SUFFICES ASSUME IInv, [Next]_vars PROVE IInv'
  OBVIOUS
<1>1. CASE Write
  BY <1>1, WriteFullKeeps, WriteStoreKeeps DEF Write
<1>2. CASE Ask
  BY <1>2, AskKeeps
<1>3. CASE ReadNoData
  BY <1>3, ReadNoDataKeeps
<1>4. CASE ReadData
  BY <1>4, ReadDataKeeps
<1>5. CASE ReadBroken
  BY <1>5, ReadBrokenKeeps
<1>6. CASE GetMaxSize
  BY <1>6, GetMaxSizeKeeps
<1>7. CASE UNCHANGED vars
  BY <1>7 DEF vars, ring, IInv, TypeOK, IndexInBuffer, RequestOK, ClientMayAsk,
       SizeOK, SeekOK, WindowIntact, TrueSize, Wrap, DeliveredOK, DeliveredInOrder
<1> QED BY <1>1, <1>2, <1>3, <1>4, <1>5, <1>6, <1>7 DEF Next

LEMMA SpecIInv == Spec => []IInv
<1> QED BY InitIInv, NextIInv, PTL DEF Spec

(* The fields of the context keep their types: beg_index, end_index, size, *)
(* position and max_size never go negative or lose their value.            *)
THEOREM TypeCorrect == Spec => []TypeOK
<1>1. IInv => TypeOK
  BY DEF IInv
<1> QED BY <1>1, SpecIInv, PTL

(* No copy of read() or write() leaves data[], for every capacity, word    *)
(* size, set of datagram lengths and set of read lengths, even when the    *)
(* writer laps a reader that is still seeking.                             *)
THEOREM NoOverrun == Spec => []IndexInBuffer
<1>1. IInv => IndexInBuffer
  BY DEF IInv
<1> QED BY <1>1, SpecIInv, PTL

(* write() never overwrites a byte that was not read yet. *)
THEOREM NoOverwrite == Spec => []WindowIntact
<1>1. IInv => WindowIntact
  BY DEF IInv
<1> QED BY <1>1, SpecIInv, PTL

(* read() returns consecutive received bytes across the end of the array.  *)
THEOREM InOrder == Spec => []DeliveredInOrder
<1>1. IInv => DeliveredInOrder
  BY DEF IInv
<1> QED BY <1>1, SpecIInv, PTL

(* After the seeks no operation moves the bytes against the positions. *)
THEOREM SkewIsConstant == Spec => SkewConstant
<1>1. ASSUME IInv, [Next]_vars, m_ignorePosition, m_ignorePosition', ~lapped'
      PROVE  Skew' = Skew
  <2>1. CASE Write
    <3>1. ASSUME NEW n \in Datagrams, WriteFull(n) PROVE Skew' = Skew
      BY <3>1 DEF WriteFull, Skew, TrueSize
    <3>2. ASSUME NEW n \in Datagrams, WriteStore(n) PROVE Skew' = Skew
      BY <1>1, <3>2, WriteStoreKeeps
    <3> QED BY <2>1, <3>1, <3>2 DEF Write
  <2>2. CASE Ask
    BY <2>2 DEF Ask, RequestRead, ring, Skew, TrueSize
  <2>3. CASE ReadNoData
    BY <1>1, <2>3, ReadNoDataKeeps
  <2>4. CASE ReadData
    BY <1>1, <2>4, ReadDataKeeps DEF Seeks
  <2>5. CASE ReadBroken
    BY <2>5 DEF ReadBroken, ring, Skew, TrueSize
  <2>6. CASE GetMaxSize
    BY <2>6 DEF GetMaxSize, Skew, TrueSize
  <2>7. CASE UNCHANGED vars
    BY <2>7 DEF vars, ring, Skew, TrueSize
  <2> QED BY <1>1, <2>1, <2>2, <2>3, <2>4, <2>5, <2>6, <2>7 DEF Next
<1>2. IInv /\ [Next]_vars =>
        [(m_ignorePosition /\ m_ignorePosition' /\ ~lapped') => Skew' = Skew]_vars
  BY <1>1
<1> QED BY <1>2, SpecIInv, PTL DEF Spec, SkewConstant
-----------------------------------------------------------------------------
(* The parser and the buffer together *)

(* What is asked of the stream: configure_ts knows the packet size before  *)
(* it has to look beyond the positions that may be sought.                 *)
FoundInTime == pc \in {"probe", "score"} => AskedPos < SyncLimit

(* What is asked of an undamaged stream: there is a sync byte wherever a   *)
(* packet is due.  Nothing is asked of a damaged one.                      *)
OnSync == (Undamaged /\ pc = "resync" /\ ~lapped) => IsSync(av_pos)

Asking == pc \in {"probe", "score", "resync"}

(* The locals of configure_ts. *)
Locals ==
  [pos : Nat, i : Nat, t : 1 .. nb, npos : Nat, do_retry : Int,
   score : Nat, hits : [1 .. nb -> Nat]]

AVTypes ==
  /\ pc \in {"probe", "score", "resync", "packet", "end"}
  /\ av_pos \in Nat /\ av_pkt_size \in Nat
  /\ cfg \in Locals
  /\ pc \in {"probe", "score"} => av_pos = 0
  /\ pc = "score" => cfg.pos <= cfg.npos
  /\ pc \in {"resync", "packet"} => av_pkt_size \in ReadSizes

(* The call being retried is the one AVContext makes in its present state. *)
OneCall ==
  request # NoRequest =>
    Asking /\ request = [pos |-> AskedPos, n |-> AskedSize]

(* The seeks last while the packet size is looked for, and the next call,  *)
(* that after a packet too, is one the buffer allows.                      *)
NextCallAllowed ==
  /\ pc \in {"probe", "score"} => ~m_ignorePosition
  /\ Asking => ClientMayAsk(AskedPos, AskedSize)
  /\ pc = "packet" => /\ position = av_pos
                      /\ ~m_ignorePosition => beg_index = av_pos + av_pkt_size

AVInv == AVTypes /\ OneCall /\ NextCallAllowed

(* The buffer is one packet ahead of the position asked for last, and that *)
(* was the packet before, or one byte before where a sync byte was missed; *)
(* only a seek may be due instead.                                         *)
OnePacketAhead ==
  ~lapped =>
    /\ pc = "resync" =>
         \/ ~m_ignorePosition /\ av_pos < SyncLimit
         \/ /\ Skew = av_pkt_size
            /\ \/ position + av_pkt_size = av_pos
               \/ ~Undamaged /\ position + 1 = av_pos
    /\ pc = "packet" => position = av_pos /\ Skew = av_pkt_size

USE DEF Asking

(* Every size tried is the length of a read, at most that of the probe.   *)
LEMMA PacketSizes ==
  /\ nb \in Nat \ {0}
  /\ ProbeSize \in ReadSizes /\ ProbeSize \in Nat \ {0}
  /\ \A t \in 1 .. nb : /\ Fluts[t] \in ReadSizes /\ Fluts[t] \in Nat \ {0}
                       /\ Fluts[t] <= ProbeSize
<1>1. \A t \in 1 .. nb : Fluts[t] \in ReadSizes /\ Fluts[t] <= ProbeSize
  BY FlutsAssumption DEF nb
<1>2. ReadSizes \subseteq Nat \ {0}
  BY ClientAssumption
<1>3. nb \in Nat \ {0}
  BY FlutsAssumption DEF nb
<1> QED BY <1>1, <1>2, <1>3, FlutsAssumption

(* configure_ts starts over with locals of their types.                    *)
LEMMA StartIsLocals ==
  ASSUME NEW p \in Nat
  PROVE  StartConfigure(p) \in Locals /\ StartConfigure(p).pos = p
<1>1. 1 \in 1 .. nb
  BY PacketSizes
<1>2. [t \in 1 .. nb |-> 0] \in [1 .. nb -> Nat]
  OBVIOUS
<1> QED BY <1>1, <1>2, FlutsAssumption DEF StartConfigure, NoHits, Locals

(* The assignments of ShiftProbe to the locals.                            *)
LEMMA ShiftedLocals ==
  ASSUME NEW c \in Locals, NEW i \in Nat, NEW score \in Nat
  PROVE  /\ [c EXCEPT !.i = i, !.score = score] \in Locals
         /\ [c EXCEPT !.i = i, !.score = score].pos = c.pos
BY DEF Locals

(* The initial state satisfies every invariant below.                      *)
LEMMA InitAVInv == AVInit => IInv /\ AVInv /\ OnePacketAhead /\ PacketAtPosition
<1> SUFFICES ASSUME AVInit PROVE IInv /\ AVInv /\ OnePacketAhead /\ PacketAtPosition
  OBVIOUS
<1>1. Init
  BY DEF AVInit
<1>2. AVTypes
  <2>1. StartConfigure(0) \in Locals
    BY StartIsLocals
  <2> QED BY <2>1 DEF AVInit, AVTypes
<1>3. OneCall
  BY <1>1 DEF Init, OneCall
<1>4. ~m_ignorePosition /\ beg_index = 0 /\ position = 0 /\ pc = "probe"
      /\ AskedPos = 0 /\ AskedSize = ProbeSize /\ ProbeSize \in Nat
  BY <1>1, FlutsAssumption, ClientAssumption
     DEF AVInit, Init, AskedPos, AskedSize, StartConfigure
<1>5. NextCallAllowed
  BY <1>4 DEF NextCallAllowed, ClientMayAsk
<1> QED
  BY <1>1, <1>2, <1>3, <1>4, <1>5, InitIInv
     DEF AVInv, OnePacketAhead, PacketAtPosition

(* In the invariant a call is one that the buffer's client may make.       *)
LEMMA AVAskIsAsk ==
  ASSUME IInv, AVInv, AVAsk
  PROVE  Ask
<1>1. AskedSize \in ReadSizes
  BY FlutsAssumption DEF AVAsk, AVInv, AVTypes, AskedSize
<1>2. AskedPos \in 0 .. MaxPos
  <2>1. AskedPos \in Nat
    BY DEF AVAsk, AVInv, AVTypes, Locals, AskedPos
  <2> QED BY <2>1, BoundAssumption DEF AVAsk
<1>3. ClientMayAsk(AskedPos, AskedSize) /\ RequestRead(AskedPos, AskedSize)
  BY DEF AVAsk, AVInv, NextCallAllowed
<1> QED BY <1>1, <1>2, <1>3 DEF Ask

(* Every step of the parser is one of the buffer or leaves it alone.       *)
LEMMA StepOfBuffer ==
  ASSUME IInv, AVInv, [AVNext]_allvars
  PROVE  [Next]_vars
<1>1. CASE AVAsk
  BY <1>1, AVAskIsAsk DEF Next
<1>2. CASE Receive \/ AVWait \/ AVBroken \/ Probe \/ Score \/ Resync
  BY <1>2 DEF Receive, AVWait, AVBroken, Probe, Score, Resync, Next
<1>3. CASE GoNext \/ UNCHANGED allvars
  BY <1>3 DEF GoNext, allvars
<1> QED BY <1>1, <1>2, <1>3 DEF AVNext

(* A read of the parser: where it leaves the buffer.                       *)
LEMMA ParserRead ==
  ASSUME IInv, AVInv, FoundInTime, ReadData
  PROVE  /\ Asking /\ request.pos = AskedPos /\ request.n = AskedSize
         /\ AskedPos \in Nat /\ AskedSize \in ReadSizes /\ AskedSize \in Nat \ {0}
         /\ IInv'
         /\ request' = NoRequest /\ position' = AskedPos
         /\ m_ignorePosition' = ~Seeks
         /\ Seeks => beg_index' = AskedPos + AskedSize
         /\ Seeks <=> (~m_ignorePosition /\ AskedPos < SyncLimit)
         /\ pc \in {"probe", "score"} => Seeks
<1>1. request # NoRequest /\ request' = NoRequest
      /\ m_ignorePosition' = FollowsDeltas
  BY DEF ReadData
<1>2. Asking /\ request.pos = AskedPos /\ request.n = AskedSize
  BY <1>1 DEF AVInv, OneCall
<1>3. AskedPos \in Nat /\ AskedSize \in ReadSizes /\ AskedSize \in Nat \ {0}
  BY <1>2, FlutsAssumption, ClientAssumption
     DEF AVInv, AVTypes, Locals, AskedPos, AskedSize
<1>4. Seeks = ~FollowsDeltas
  BY <1>1, SeekInWindow
<1>5. Seeks <=> (~m_ignorePosition /\ AskedPos < SyncLimit)
  BY <1>2 DEF Seeks
<1>6. pc \in {"probe", "score"} => Seeks
  BY <1>5 DEF FoundInTime, AVInv, NextCallAllowed
<1>7. IInv' /\ position' = request.pos
      /\ (Seeks => beg_index' = request.pos + request.n)
  BY ReadDataKeeps
<1>8. m_ignorePosition' = ~Seeks
  BY <1>1, <1>4 DEF FollowsDeltas
<1> QED BY <1>1, <1>2, <1>3, <1>5, <1>6, <1>7, <1>8
-----------------------------------------------------------------------------
(* The steps of the parser and what they leave to be asked for *)

(* A step that goes on looking for the packet size, from a read at         *)
(* AskedPos or before it.                                                  *)
LEMMA SearchGoesOn ==
  ASSUME IInv, AVInv, FoundInTime, FoundInTime', ReadData,
         AVTypes', pc \in {"probe", "score"}, pc' \in {"probe", "score"},
         AskedPos' <= AskedPos + ProbeSize
  PROVE  AVInv'
<1>1. AskedSize = ProbeSize /\ AskedSize' = ProbeSize
  BY DEF AskedSize
<1>2. /\ Seeks /\ ~m_ignorePosition' /\ request' = NoRequest
      /\ beg_index' = AskedPos + ProbeSize
  BY <1>1, ParserRead
<1>3. OneCall'
  BY <1>2 DEF OneCall, NoRequest
<1>4. AskedPos' < SyncLimit
  BY DEF FoundInTime
<1>5. ClientMayAsk(AskedPos, AskedSize)'
  BY <1>2, <1>4 DEF ClientMayAsk
<1>6. NextCallAllowed'
  BY <1>2, <1>5 DEF NextCallAllowed
<1> QED BY <1>3, <1>6 DEF AVInv

(* configure_ts tries the next position, or begins again: both are behind  *)
(* the bytes just read.                                                    *)
LEMMA ShiftProbeKeeps ==
  ASSUME IInv, AVInv, FoundInTime, FoundInTime', ReadData,
         pc \in {"probe", "score"}, NEW score \in Nat, ShiftProbe(score)
  PROVE  AVInv'
<1>1. /\ cfg.pos \in Nat /\ cfg.i \in Nat /\ cfg.npos \in Nat
      /\ av_pos = 0 /\ av_pkt_size \in Nat
      /\ pc = "score" => cfg.pos <= cfg.npos
  BY DEF AVInv, AVTypes, Locals
<1> DEFINE shifted ==
      [StartConfigure(cfg.pos + 1) EXCEPT !.i = cfg.i + 1, !.score = score]
<1>3. /\ shifted \in Locals
      /\ shifted.pos = cfg.pos + 1
  <2>1. StartConfigure(cfg.pos + 1) \in Locals
        /\ StartConfigure(cfg.pos + 1).pos = cfg.pos + 1
    BY <1>1, StartIsLocals
  <2>2. cfg.i + 1 \in Nat
    BY <1>1
  <2> QED BY <2>1, <2>2, ShiftedLocals
<1>4. /\ cfg' \in Locals
      /\ cfg'.pos = cfg.pos + 1 \/ cfg'.pos = 0
  <2>1. CASE cfg' = shifted
    <3> HIDE DEF shifted
    <3> QED BY <1>3, <2>1
  <2>2. CASE cfg' = StartConfigure(av_pos)
    BY <1>1, <2>2, StartIsLocals
  <2> QED BY <2>1, <2>2 DEF ShiftProbe
<1>5. AVTypes'
  BY <1>1, <1>4 DEF AVTypes, ShiftProbe, nb
<1>6. AskedPos' = cfg'.pos /\ pc' = "probe" /\ cfg.pos <= AskedPos
  BY <1>1 DEF ShiftProbe, AskedPos
<1>7. AskedPos' <= AskedPos + ProbeSize
  <2>1. ProbeSize \in Nat \ {0} /\ AskedPos \in Nat
    BY <1>1, FlutsAssumption, ClientAssumption DEF AskedPos
  <2> QED BY <1>1, <1>4, <1>6, <2>1
<1> QED BY <1>5, <1>6, <1>7, SearchGoesOn

(* The first byte of a candidate.                                          *)
LEMMA ProbeKeeps ==
  ASSUME IInv, AVInv, FoundInTime, FoundInTime', Probe
  PROVE  AVInv'
<1>1. pc = "probe" /\ ReadData
  BY DEF Probe
<1>2. CASE ShiftProbe(cfg.score)
  BY <1>1, <1>2, ShiftProbeKeeps DEF AVInv, AVTypes, Locals
<1>3. CASE /\ pc' = "score"
           /\ cfg' = [cfg EXCEPT !.t = 1, !.npos = cfg.pos + Fluts[1],
                                 !.do_retry = cfg.score - 1]
           /\ UNCHANGED <<av_pos, av_pkt_size, stream, lastPacket>>
  <2>1. 1 \in 1 .. nb /\ Fluts[1] \in Nat /\ Fluts[1] <= ProbeSize
    BY PacketSizes
  <2>2. AVTypes'
    <3>1. 1 \in 1 .. nb /\ cfg \in Locals
      BY PacketSizes DEF AVInv, AVTypes
    <3>2. cfg' \in Locals /\ cfg'.pos = cfg.pos /\ cfg'.npos = cfg.pos + Fluts[1]
      <4>1. cfg.pos + Fluts[1] \in Nat /\ cfg.score - 1 \in Int
        BY <2>1, <3>1 DEF Locals
      <4> DEFINE npos == cfg.pos + Fluts[1]
                 do_retry == cfg.score - 1
      <4>2. cfg' = [cfg EXCEPT !.t = 1, !.npos = npos, !.do_retry = do_retry]
        BY <1>3
      <4> HIDE DEF npos, do_retry
      <4>3. cfg' \in Locals /\ cfg'.pos = cfg.pos /\ cfg'.npos = npos
        <5>1. npos \in Nat /\ do_retry \in Int
          BY <4>1 DEF npos, do_retry
        <5>2. 1 \in 1 .. nb
          BY <3>1
        <5> QED BY <3>1, <4>2, <5>1, <5>2 DEF Locals
      <4> QED BY <4>3 DEF npos
    <3>3. /\ av_pos = 0 /\ av_pos' = av_pos /\ av_pkt_size' = av_pkt_size
          /\ av_pkt_size \in Nat /\ cfg.pos \in Nat
      BY <1>1, <1>3, <3>1 DEF AVInv, AVTypes, Locals
    <3>4. cfg'.pos <= cfg'.npos
      BY <2>1, <3>2, <3>3
    <3> QED BY <1>3, <3>2, <3>3, <3>4 DEF AVTypes, Locals, nb
  <2>3. AskedPos' = cfg.pos + Fluts[1] /\ AskedPos = cfg.pos
    BY <1>1, <1>3 DEF AVInv, AVTypes, Locals, AskedPos
  <2>4. AskedPos' <= AskedPos + ProbeSize
    <3>1. cfg.pos \in Nat /\ 1 \in 1 .. nb
      BY PacketSizes DEF AVInv, AVTypes, Locals
    <3> QED BY <2>3, <3>1, PacketSizes
  <2> QED BY <1>1, <1>3, <2>2, <2>4, SearchGoesOn
<1> QED BY <1>2, <1>3 DEF Probe

(* The packet size is known: the parser reads the packet at the position   *)
(* it has found, which lies behind the bytes just read.                    *)
LEMMA FoundKeeps ==
  ASSUME IInv, AVInv, FoundInTime, ReadData, pc = "score",
         NEW t \in 1 .. nb,
         pc' = "resync", av_pkt_size' = Fluts[t], av_pos' = cfg.pos,
         cfg' = StartConfigure(0)
  PROVE  AVInv' /\ ~m_ignorePosition' /\ av_pos' < SyncLimit
<1>1. Fluts[t] \in ReadSizes /\ Fluts[t] \in Nat
  BY PacketSizes
<1>2. /\ cfg.pos \in Nat /\ cfg.npos \in Nat /\ cfg.pos <= cfg.npos
      /\ AskedPos = cfg.npos
  BY DEF AVInv, AVTypes, Locals, AskedPos
<1>3. AVTypes'
  <2>1. StartConfigure(0) \in Locals
    BY StartIsLocals
  <2> QED BY <1>1, <1>2, <2>1 DEF AVTypes, nb
<1>4. /\ ~m_ignorePosition' /\ request' = NoRequest
      /\ beg_index' = AskedPos + AskedSize /\ AskedSize \in Nat
  BY ParserRead
<1>5. AskedPos' = cfg.pos /\ av_pos' < SyncLimit
  BY <1>2, ClientAssumption DEF AskedPos, FoundInTime
<1>6. ClientMayAsk(AskedPos, AskedSize)'
  BY <1>2, <1>4, <1>5 DEF ClientMayAsk
<1>7. NextCallAllowed' /\ OneCall'
  BY <1>4, <1>6 DEF NextCallAllowed, OneCall, NoRequest
<1> QED BY <1>3, <1>4, <1>5, <1>7 DEF AVInv

(* All packet sizes have been tried.                                       *)
LEMMA DecideKeeps ==
  ASSUME IInv, AVInv, FoundInTime, FoundInTime', ReadData, pc = "score",
         NEW hits, Decide(hits)
  PROVE  /\ AVInv'
         /\ pc' = "resync" => ~m_ignorePosition' /\ av_pos' < SyncLimit
         /\ pc' # "packet"
<1> DEFINE eligible == {t \in 1 .. nb : hits[t] = cfg.score}
<1>0. cfg.score \in Nat /\ cfg.score + 1 \in Nat
  BY DEF AVInv, AVTypes, Locals
<1>1. CASE Cardinality(eligible) = 1
  <2>1. PICK t : t = CHOOSE u \in eligible : TRUE
    OBVIOUS
  <2>2. t \in 1 .. nb
    BY <1>1, <2>1, FS_EmptySet
  <2>3. /\ pc' = "resync" /\ av_pkt_size' = Fluts[t] /\ av_pos' = cfg.pos
        /\ cfg' = StartConfigure(0)
    BY <1>1, <2>1 DEF Decide
  <2> QED BY <2>2, <2>3, FoundKeeps
<1>2. CASE Cardinality(eligible) # 1
  <2>1. \/ ShiftProbe(cfg.score) \/ ShiftProbe(cfg.score + 1)
        \/ /\ pc' = "probe" /\ cfg' = StartConfigure(av_pos)
           /\ UNCHANGED <<av_pos, av_pkt_size, stream, lastPacket>>
    BY <1>2 DEF Decide
  <2>2. CASE \E score \in Nat : ShiftProbe(score)
    <3>1. PICK score \in Nat : ShiftProbe(score)
      BY <2>2
    <3>2. pc' = "probe"
      BY <3>1 DEF ShiftProbe
    <3> QED BY <3>1, <3>2, ShiftProbeKeeps
  <2>3. CASE /\ pc' = "probe" /\ cfg' = StartConfigure(av_pos)
             /\ UNCHANGED <<av_pos, av_pkt_size, stream, lastPacket>>
    <3>1. av_pos = 0
      BY DEF AVInv, AVTypes
    <3>2. StartConfigure(0) \in Locals
      BY StartIsLocals
    <3>3. AVTypes'
      BY <2>3, <3>1, <3>2 DEF AVInv, AVTypes, nb
    <3>4. AskedPos' = 0 /\ AskedPos \in Nat /\ ProbeSize \in Nat
      BY <2>3, <3>1, FlutsAssumption, ClientAssumption
         DEF AVInv, AVTypes, Locals, AskedPos, StartConfigure
    <3>5. AskedPos' <= AskedPos + ProbeSize
      BY <3>4
    <3> QED BY <2>3, <3>3, <3>5, SearchGoesOn
  <2> QED BY <1>0, <2>1, <2>2, <2>3
<1> QED BY <1>1, <1>2

(* One more packet ahead of the candidate.                                 *)
LEMMA ScoreKeeps ==
  ASSUME IInv, AVInv, FoundInTime, FoundInTime', Score
  PROVE  /\ AVInv'
         /\ pc' = "resync" => ~m_ignorePosition' /\ av_pos' < SyncLimit
         /\ pc' # "packet"
<1> DEFINE t == cfg.t
           hit == IsSync(delivered'.bytes[0])
           hits == IF hit THEN [cfg.hits EXCEPT ![t] = @ + 1] ELSE cfg.hits
<1>1. /\ pc = "score" /\ ReadData
      /\ IF hit /\ cfg.do_retry # 0
         THEN /\ cfg' = [cfg EXCEPT !.hits = hits, !.npos = @ + Fluts[t],
                                    !.do_retry = @ - 1]
              /\ UNCHANGED <<pc, av_pos, av_pkt_size, stream, lastPacket>>
         ELSE IF t < nb
         THEN /\ cfg' = [cfg EXCEPT !.hits = hits, !.t = t + 1,
                                    !.npos = cfg.pos + Fluts[t + 1],
                                    !.do_retry = cfg.score - 1]
              /\ UNCHANGED <<pc, av_pos, av_pkt_size, stream, lastPacket>>
         ELSE Decide(hits)
  BY DEF Score
<1>2. /\ t \in 1 .. nb /\ nb \in Nat /\ cfg.pos \in Nat /\ cfg.npos \in Nat
      /\ cfg.pos <= cfg.npos /\ AskedPos = cfg.npos
      /\ cfg.do_retry \in Int /\ cfg.score \in Nat
  BY <1>1, FlutsAssumption DEF AVInv, AVTypes, Locals, AskedPos, nb
<1>3. hits \in [1 .. nb -> Nat]
  <2>1. cfg.hits \in [1 .. nb -> Nat]
    BY DEF AVInv, AVTypes, Locals
  <2>2. t \in 1 .. nb /\ nb \in Nat
    BY <1>2
  <2>3. ASSUME NEW h \in [1 .. nb -> Nat], NEW u \in 1 .. nb
        PROVE  [h EXCEPT ![u] = @ + 1] \in [1 .. nb -> Nat]
    BY <2>2
  <2>4. [cfg.hits EXCEPT ![t] = @ + 1] \in [1 .. nb -> Nat]
    BY <2>1, <2>2, <2>3
  <2> HIDE DEF hit, t
  <2> QED BY <2>1, <2>4
<1>4. ASSUME NEW u \in 1 .. nb
      PROVE  Fluts[u] \in Nat /\ Fluts[u] <= ProbeSize /\ ProbeSize \in Nat
  BY PacketSizes
<1>5. CASE hit /\ cfg.do_retry # 0
  <2>1. /\ cfg' = [cfg EXCEPT !.hits = hits, !.npos = @ + Fluts[t],
                              !.do_retry = @ - 1]
        /\ UNCHANGED <<pc, av_pos, av_pkt_size, stream, lastPacket>>
    BY <1>1, <1>5
  <2> HIDE DEF hits
  <2>2. AVTypes' /\ cfg'.npos = cfg.npos + Fluts[t]
    <3>1. cfg \in Locals /\ Fluts[t] \in Nat
      BY <1>2, <1>4 DEF AVInv, AVTypes
    <3>2. /\ cfg' \in Locals /\ cfg'.pos = cfg.pos
          /\ cfg'.npos = cfg.npos + Fluts[t]
      <4>1. cfg.npos + Fluts[t] \in Nat /\ cfg.do_retry - 1 \in Int
        BY <1>2, <3>1
      <4> DEFINE npos == cfg.npos + Fluts[t]
                 do_retry == cfg.do_retry - 1
      <4>2. cfg' = [cfg EXCEPT !.hits = hits, !.npos = npos, !.do_retry = do_retry]
        BY <2>1
      <4>3. npos \in Nat /\ do_retry \in Int
        BY <4>1
      <4> HIDE DEF npos, do_retry
      <4>4. cfg' \in Locals /\ cfg'.pos = cfg.pos /\ cfg'.npos = npos
        BY <1>3, <3>1, <4>2, <4>3 DEF Locals
      <4> QED BY <4>4 DEF npos
    <3> QED BY <1>1, <1>2, <2>1, <3>1, <3>2 DEF AVInv, AVTypes, nb
  <2>3. AskedPos' <= AskedPos + ProbeSize
    BY <1>1, <1>2, <1>4, <2>1, <2>2 DEF AskedPos
  <2> QED BY <1>1, <2>1, <2>2, <2>3, SearchGoesOn
<1>6. CASE ~(hit /\ cfg.do_retry # 0) /\ t < nb
  <2>1. /\ cfg' = [cfg EXCEPT !.hits = hits, !.t = t + 1,
                              !.npos = cfg.pos + Fluts[t + 1],
                              !.do_retry = cfg.score - 1]
        /\ UNCHANGED <<pc, av_pos, av_pkt_size, stream, lastPacket>>
    BY <1>1, <1>6
  <2>2. t + 1 \in 1 .. nb
    BY <1>2, <1>6
  <2>3. Fluts[t + 1] \in Nat /\ Fluts[t + 1] <= ProbeSize /\ ProbeSize \in Nat
    BY <1>4, <2>2
  <2> HIDE DEF hits
  <2>4. AVTypes' /\ cfg'.npos = cfg.pos + Fluts[t + 1]
    <3>1. cfg \in Locals
      BY DEF AVInv, AVTypes
    <3>2. /\ cfg' \in Locals /\ cfg'.pos = cfg.pos
          /\ cfg'.npos = cfg.pos + Fluts[t + 1]
      <4>1. cfg.pos + Fluts[t + 1] \in Nat /\ cfg.score - 1 \in Int
        BY <1>2, <2>3
      <4> DEFINE next == t + 1
                 npos == cfg.pos + Fluts[t + 1]
                 do_retry == cfg.score - 1
      <4>2. cfg' = [cfg EXCEPT !.hits = hits, !.t = next, !.npos = npos,
                               !.do_retry = do_retry]
        BY <2>1
      <4>3. next \in 1 .. nb /\ npos \in Nat /\ do_retry \in Int
        BY <2>2, <4>1
      <4> HIDE DEF next, npos, do_retry
      <4>4. cfg' \in Locals /\ cfg'.pos = cfg.pos /\ cfg'.npos = npos
        BY <1>3, <3>1, <4>2, <4>3 DEF Locals
      <4> QED BY <4>4 DEF npos
    <3> QED BY <1>1, <1>2, <2>1, <2>3, <3>2 DEF AVInv, AVTypes, nb
  <2>5. AskedPos' <= AskedPos + ProbeSize
    BY <1>1, <1>2, <2>1, <2>3, <2>4 DEF AskedPos
  <2> QED BY <1>1, <2>1, <2>4, <2>5, SearchGoesOn
<1>7. CASE ~(hit /\ cfg.do_retry # 0) /\ ~(t < nb)
  <2>1. Decide(hits)
    BY <1>1, <1>7
  <2> HIDE DEF hits
  <2> QED BY <1>1, <2>1, DecideKeeps
<1> QED BY <1>5, <1>6, <1>7

(* The packet at av_pos, or one byte on.                                   *)
LEMMA ResyncKeeps ==
  ASSUME IInv, AVInv, FoundInTime, Resync
  PROVE  AVInv'
<1>1. /\ pc = "resync" /\ ReadData
      /\ cfg' = cfg /\ av_pkt_size' = av_pkt_size
      /\ \/ pc' = "packet" /\ av_pos' = av_pos
         \/ pc' = "resync" /\ av_pos' = av_pos + 1
  BY DEF Resync
<1>2. /\ av_pos \in Nat /\ av_pkt_size \in ReadSizes
      /\ av_pkt_size \in Nat \ {0}
  BY <1>1, ClientAssumption DEF AVInv, AVTypes
<1>3. AVTypes'
  BY <1>1, <1>2 DEF AVInv, AVTypes, nb
<1>4. /\ request' = NoRequest /\ position' = av_pos
      /\ ~m_ignorePosition' => beg_index' = av_pos + av_pkt_size
  <2>1. AskedPos = av_pos /\ AskedSize = av_pkt_size
    BY <1>1 DEF AskedPos, AskedSize
  <2>2. /\ request' = NoRequest /\ position' = AskedPos
        /\ m_ignorePosition' = ~Seeks
        /\ Seeks => beg_index' = AskedPos + AskedSize
    BY <1>1, ParserRead
  <2> QED BY <2>1, <2>2
<1>5. OneCall'
  BY <1>4 DEF OneCall, NoRequest
<1>6. NextCallAllowed'
  <2>1. CASE pc' = "packet" /\ av_pos' = av_pos
    BY <1>1, <1>4, <2>1 DEF NextCallAllowed
  <2>2. CASE pc' = "resync" /\ av_pos' = av_pos + 1
    <3>1. AskedPos' = av_pos + 1 /\ AskedSize' = av_pkt_size
      BY <1>1, <2>2 DEF AskedPos, AskedSize
    <3>2. ClientMayAsk(AskedPos, AskedSize)'
      BY <1>2, <1>4, <3>1 DEF ClientMayAsk
    <3> QED BY <2>2, <3>2 DEF NextCallAllowed
  <2> QED BY <1>1, <2>1, <2>2
<1> QED BY <1>3, <1>5, <1>6 DEF AVInv

(* One packet on.                                                          *)
LEMMA GoNextKeeps ==
  ASSUME IInv, AVInv, GoNext
  PROVE  AVInv'
<1>1. /\ pc = "packet" /\ pc' = "resync" /\ av_pos' = av_pos + av_pkt_size
      /\ cfg' = cfg /\ av_pkt_size' = av_pkt_size
      /\ request' = request /\ beg_index' = beg_index /\ position' = position
      /\ m_ignorePosition' = m_ignorePosition
  BY DEF GoNext, vars, ring
<1>2. /\ av_pos \in Nat /\ av_pkt_size \in ReadSizes
      /\ av_pkt_size \in Nat \ {0}
  BY <1>1, ClientAssumption DEF AVInv, AVTypes
<1>3. AVTypes'
  BY <1>1, <1>2 DEF AVInv, AVTypes, nb
<1>4. request = NoRequest
  BY <1>1 DEF AVInv, OneCall
<1>5. ClientMayAsk(AskedPos, AskedSize)'
  <2>1. AskedPos' = av_pos + av_pkt_size /\ AskedSize' = av_pkt_size
    BY <1>1 DEF AskedPos, AskedSize
  <2>2. position = av_pos
        /\ (~m_ignorePosition => beg_index = av_pos + av_pkt_size)
    BY <1>1 DEF AVInv, NextCallAllowed
  <2> QED BY <1>1, <1>2, <2>1, <2>2 DEF ClientMayAsk
<1> QED
  BY <1>1, <1>3, <1>4, <1>5 DEF AVInv, OneCall, NextCallAllowed

(* A call, a wait or a datagram: the parser is where it was.               *)
LEMMA WaitKeeps ==
  ASSUME IInv, AVInv, FoundInTime, IInv',
         AVAsk \/ AVWait \/ Receive \/ UNCHANGED allvars
  PROVE  AVInv'
<1>1. UNCHANGED avvars
  BY DEF AVAsk, AVWait, Receive, allvars
<1>2. AVTypes' /\ AskedPos' = AskedPos /\ AskedSize' = AskedSize
      /\ pc' = pc /\ av_pos' = av_pos /\ av_pkt_size' = av_pkt_size
  BY <1>1 DEF AVInv, AVTypes, AskedPos, AskedSize, avvars, nb
<1>3. CASE AVAsk
  <2>1. Asking /\ request' = [pos |-> AskedPos, n |-> AskedSize]
        /\ UNCHANGED ring
    BY <1>3 DEF AVAsk, RequestRead
  <2> QED
    BY <1>2, <2>1
       DEF AVInv, OneCall, NextCallAllowed, ClientMayAsk, ring
<1>4. CASE AVWait
  <2>0. request # NoRequest /\ request' = request
        /\ m_ignorePosition' = FollowsDeltas
    BY <1>4 DEF AVWait, ReadNoData
  <2>1. Asking /\ request = [pos |-> AskedPos, n |-> AskedSize]
    BY <2>0 DEF AVInv, OneCall
  <2>2. OneCall'
    BY <1>2, <2>0, <2>1 DEF OneCall
  <2>3. ClientMayAsk(AskedPos, AskedSize)'
    <3>1. ClientMayAsk(request.pos, request.n)'
      BY <2>0 DEF IInv, RequestOK, NoRequest
    <3>2. request'.pos = AskedPos' /\ request'.n = AskedSize'
      BY <1>2, <2>0, <2>1
    <3> QED BY <3>1, <3>2 DEF ClientMayAsk
  <2>4. pc \in {"probe", "score"} => ~m_ignorePosition'
    <3> SUFFICES ASSUME pc \in {"probe", "score"} PROVE ~m_ignorePosition'
      OBVIOUS
    <3>1. Seeks
      BY <2>1 DEF FoundInTime, AVInv, NextCallAllowed, Seeks
    <3> QED BY <2>0, <3>1, SeekInWindow
  <2> QED BY <1>2, <2>1, <2>2, <2>3, <2>4 DEF AVInv, NextCallAllowed
<1>5. CASE Receive
  <2>1. UNCHANGED <<request, beg_index, position, m_ignorePosition>>
    BY <1>5 DEF Receive, Write, WriteFull, WriteStore
  <2> QED
    BY <1>2, <2>1 DEF AVInv, OneCall, NextCallAllowed, ClientMayAsk
<1>6. CASE UNCHANGED allvars
  BY <1>2, <1>6
     DEF AVInv, OneCall, NextCallAllowed, ClientMayAsk, allvars, vars, ring
<1> QED BY <1>3, <1>4, <1>5, <1>6

(* The session has ended.                                                  *)
LEMMA AVBrokenKeeps ==
  ASSUME IInv, AVInv, AVBroken
  PROVE  AVInv'
BY DEF AVInv, AVBroken, ReadBroken, AVTypes, OneCall, NextCallAllowed, NoRequest,
       nb

(* Every step of the parser keeps the invariant.                           *)
LEMMA AVInductive ==
  IInv /\ AVInv /\ FoundInTime /\ FoundInTime' /\ [AVNext]_allvars
    => IInv' /\ AVInv'
<1> SUFFICES ASSUME IInv, AVInv, FoundInTime, FoundInTime', [AVNext]_allvars
             PROVE  IInv' /\ AVInv'
  OBVIOUS
<1>1. IInv'
  BY StepOfBuffer, NextIInv
<1>2. CASE AVAsk \/ AVWait \/ Receive \/ UNCHANGED allvars
  BY <1>1, <1>2, WaitKeeps
<1>3. CASE AVBroken
  BY <1>1, <1>3, AVBrokenKeeps
<1>4. CASE Probe
  BY <1>1, <1>4, ProbeKeeps
<1>5. CASE Score
  BY <1>1, <1>5, ScoreKeeps
<1>6. CASE Resync
  BY <1>1, <1>6, ResyncKeeps
<1>7. CASE GoNext
  BY <1>1, <1>7, GoNextKeeps
<1> QED BY <1>2, <1>3, <1>4, <1>5, <1>6, <1>7 DEF AVNext

(* The parser, the socket thread and the buffer together do what the       *)
(* buffer's specification allows, as long as the packet size is found      *)
(* before the seeks must end: what is proved of the buffer for any client  *)
(* that keeps its contract holds in the program.                           *)
THEOREM ParserKeepsContract == AVSpec /\ []FoundInTime => KeepsContract
<1>1. AVInit => Init
  BY DEF AVInit
<1>2. AVInit => IInv /\ AVInv
  BY InitAVInv
<1>3. IInv /\ AVInv /\ [AVNext]_allvars => [Next]_vars
  BY StepOfBuffer
<1> QED
  BY <1>1, <1>2, <1>3, AVInductive, PTL DEF AVSpec, Spec, KeepsContract
-----------------------------------------------------------------------------
(* Positions and offsets *)

(* While the reader may seek, the distance is that of the seek.            *)
LEMMA SkewWhileSeeking ==
  ASSUME IInv, ~lapped, ~m_ignorePosition
  PROVE  Skew = beg_index - position
<1>1. end_index = written /\ beg_index <= end_index
  BY DEF IInv, SeekOK
<1>2. beg_index \in Nat /\ position \in Nat /\ written \in Nat
  BY DEF IInv, TypeOK
<1> QED BY <1>1, <1>2 DEF Skew, TrueSize

(* A datagram does not move the bytes against the positions.               *)
LEMMA WriteKeepsSkew ==
  ASSUME IInv, IInv', Write, ~lapped'
  PROVE  Skew' = Skew /\ ~lapped
<1>1. CASE \E n \in Datagrams : WriteFull(n)
  BY <1>1 DEF WriteFull, Skew, TrueSize
<1>2. ASSUME NEW n \in Datagrams, WriteStore(n)
      PROVE  Skew' = Skew /\ ~lapped
  <2>1. /\ m_ignorePosition' = m_ignorePosition /\ beg_index' = beg_index
        /\ position' = position /\ ~lapped
    BY <1>2 DEF WriteStore
  <2>2. CASE m_ignorePosition
    BY <1>2, <2>1, <2>2, WriteStoreKeeps
  <2>3. CASE ~m_ignorePosition
    <3>1. Skew = beg_index - position
      BY <2>1, <2>3, SkewWhileSeeking
    <3>2. Skew' = beg_index' - position'
      <4>1. end_index' = written' /\ beg_index' <= end_index'
        BY <2>1, <2>3 DEF IInv, SeekOK
      <4>2. beg_index' \in Nat /\ position' \in Nat /\ written' \in Nat
        BY DEF IInv, TypeOK
      <4> QED BY <4>1, <4>2 DEF Skew, TrueSize
    <3> QED BY <2>1, <3>1, <3>2
  <2> QED BY <2>1, <2>2, <2>3
<1> QED BY <1>1, <1>2 DEF Write

(* A lapped buffer stays lapped.                                           *)
LEMMA LappedStays ==
  ASSUME IInv, IInv', [AVNext]_allvars, ~lapped'
  PROVE  ~lapped
<1>1. CASE Receive
  BY <1>1, WriteKeepsSkew DEF Receive
<1>2. CASE ~Receive
  BY <1>2 DEF AVNext, AVAsk, RequestRead, AVWait, ReadNoData, AVBroken,
     ReadBroken, Probe, Score, Resync, ReadData, GoNext, allvars, vars
<1> QED BY <1>1, <1>2

(* What TSResync is given: the packet at its position, or in a damaged     *)
(* stream the one that begins a packet less one byte later.                *)
LEMMA ResyncInPlace ==
  ASSUME IInv, AVInv, FoundInTime, OnSync, IInv', OnePacketAhead, ~lapped,
         Resync
  PROVE  OnePacketAhead' /\ PacketAtPosition'
<1>0. pc = "resync" /\ ReadData /\ av_pkt_size' = av_pkt_size /\ ~lapped'
      /\ stream' = stream
  BY DEF Resync, ReadData
<1>1. /\ request.pos = av_pos /\ request.n = av_pkt_size
      /\ Seeks <=> (~m_ignorePosition /\ av_pos < SyncLimit)
      /\ position' = av_pos /\ m_ignorePosition' = ~Seeks
      /\ Seeks => beg_index' = av_pos + av_pkt_size
  <2>1. AskedPos = av_pos /\ AskedSize = av_pkt_size
    BY <1>0 DEF AskedPos, AskedSize
  <2> QED BY <1>0, <2>1, ParserRead
<1>2. av_pos \in Nat /\ av_pkt_size \in Nat /\ position \in Nat
  BY DEF AVInv, AVTypes, IInv, TypeOK
<1>3. delivered'.bytes[0] = IF Seeks THEN request.pos ELSE position + Skew
  BY <1>0, ReadDataKeeps
<1>4. ~Seeks => /\ Skew = av_pkt_size
                /\ \/ position + av_pkt_size = av_pos
                   \/ ~Undamaged /\ position + 1 = av_pos
  BY <1>0, <1>1 DEF OnePacketAhead
<1>5. /\ delivered'.bytes[0] \in {av_pos, av_pos + av_pkt_size - 1}
      /\ Undamaged => delivered'.bytes[0] = av_pos
  <2>1. CASE Seeks
    BY <1>1, <1>3, <2>1
  <2>2. CASE ~Seeks
    <3>1. delivered'.bytes[0] = position + av_pkt_size
      BY <1>3, <1>4, <2>2
    <3> QED BY <1>2, <1>4, <2>2, <3>1
  <2> QED BY <2>1, <2>2
<1>6. Skew' = av_pkt_size
  <2>1. CASE Seeks
    <3>1. end_index' = written' /\ beg_index' <= end_index'
      BY <1>0, <1>1, <2>1 DEF IInv, SeekOK
    <3>2. beg_index' \in Nat /\ position' \in Nat /\ written' \in Nat
      BY DEF IInv, TypeOK
    <3>3. Skew' = beg_index' - position'
      BY <3>1, <3>2 DEF Skew, TrueSize
    <3> QED BY <1>1, <1>2, <2>1, <3>3
  <2>2. CASE ~Seeks
    BY <1>0, <1>4, <2>2, ReadDataKeeps
  <2> QED BY <2>1, <2>2
<1>7. Undamaged' <=> Undamaged
  BY <1>0 DEF Undamaged
<1>8. CASE IsSync(delivered'.bytes[0])
  <2>1. pc' = "packet" /\ lastPacket' = delivered'.bytes[0] /\ av_pos' = av_pos
    BY <1>8 DEF Resync
  <2> QED BY <1>0, <1>1, <1>5, <1>6, <1>7, <2>1
          DEF OnePacketAhead, PacketAtPosition
<1>9. CASE ~IsSync(delivered'.bytes[0])
  <2>1. pc' = "resync" /\ av_pos' = av_pos + 1
    BY <1>0, <1>9 DEF Resync
  <2>2. ~Undamaged
    BY <1>0, <1>5, <1>9 DEF OnSync
  <2>3. position' + 1 = av_pos'
    BY <1>1, <2>1
  <2> QED BY <1>0, <1>6, <1>7, <2>1, <2>2, <2>3
          DEF OnePacketAhead, PacketAtPosition
<1> QED BY <1>8, <1>9

(* The buffer stays one packet ahead.                                      *)
LEMMA AheadInductive ==
  ASSUME IInv, AVInv, FoundInTime, FoundInTime', OnSync, IInv', AVInv',
         OnePacketAhead, PacketAtPosition, [AVNext]_allvars
  PROVE  OnePacketAhead' /\ PacketAtPosition'
<1> SUFFICES ASSUME ~lapped' PROVE OnePacketAhead' /\ PacketAtPosition'
  BY DEF OnePacketAhead, PacketAtPosition
<1>0. ~lapped
  BY LappedStays
<1>10. Undamaged' <=> Undamaged
  <2>1. stream' = stream
    BY DEF AVNext, Receive, AVAsk, AVWait, AVBroken, Probe, Score, Decide,
       ShiftProbe, Resync, GoNext, avvars, allvars
  <2> QED BY <2>1 DEF Undamaged
<1>1. ASSUME UNCHANGED <<pc, av_pos, av_pkt_size, lastPacket>>,
             UNCHANGED <<position, m_ignorePosition>>, Skew' = Skew
      PROVE  OnePacketAhead' /\ PacketAtPosition'
  BY <1>0, <1>1, <1>10 DEF OnePacketAhead, PacketAtPosition
<1>2. CASE AVAsk \/ UNCHANGED allvars
  BY <1>1, <1>2 DEF AVAsk, RequestRead, allvars, avvars, vars, ring, Skew, TrueSize
<1>3. CASE Receive
  <2>1. UNCHANGED <<position, m_ignorePosition>>
    BY <1>3 DEF Receive, Write, WriteFull, WriteStore
  <2>2. Skew' = Skew
    BY <1>3, WriteKeepsSkew DEF Receive
  <2> QED BY <1>1, <1>3, <2>1, <2>2 DEF Receive, avvars
<1>4. CASE AVWait
  <2>0. UNCHANGED <<pc, av_pos, av_pkt_size, lastPacket, end_index, written>>
        /\ request # NoRequest
        /\ beg_index' = SeekIndex /\ position' = SeekPosition
        /\ m_ignorePosition' = FollowsDeltas
    BY <1>4 DEF AVWait, ReadNoData, avvars
  <2>1. Asking /\ request.pos = AskedPos
    BY <2>0 DEF AVInv, OneCall
  <2>2. CASE Seeks
    <3>1. ~m_ignorePosition'
      BY <2>0, <2>2, SeekInWindow
    <3>2. pc = "resync" => av_pos < SyncLimit
      BY <2>1, <2>2 DEF Seeks, AskedPos
    <3> QED
      BY <1>10, <2>0, <2>1, <3>1, <3>2 DEF OnePacketAhead, PacketAtPosition
  <2>3. CASE ~Seeks
    <3>1. beg_index' = beg_index /\ position' = position
      BY <2>0, <2>3, SeekInWindow
    <3>2. Skew' = Skew
      BY <2>0, <3>1 DEF Skew, TrueSize
    <3>3. ~(~m_ignorePosition /\ av_pos < SyncLimit) \/ pc # "resync"
      BY <2>1, <2>3 DEF Seeks, AskedPos
    <3> QED
      BY <1>0, <1>10, <2>0, <2>1, <3>1, <3>2, <3>3 DEF OnePacketAhead, PacketAtPosition
  <2> QED BY <2>2, <2>3
<1>5. CASE AVBroken
  BY <1>5 DEF AVBroken, OnePacketAhead, PacketAtPosition
<1>6. CASE Probe
  BY <1>6 DEF Probe, ShiftProbe, OnePacketAhead, PacketAtPosition
<1>7. CASE Score
  <2>1. (pc' = "resync" => ~m_ignorePosition' /\ av_pos' < SyncLimit)
        /\ pc' # "packet"
    BY <1>7, ScoreKeeps
  <2> QED BY <2>1 DEF OnePacketAhead, PacketAtPosition
<1>8. CASE Resync
  BY <1>0, <1>8, ResyncInPlace
<1>9. CASE GoNext
  <2>1. Skew' = Skew /\ position' = position /\ pc = "packet" /\ pc' = "resync"
        /\ av_pos' = av_pos + av_pkt_size /\ av_pkt_size' = av_pkt_size
    BY <1>9 DEF GoNext, vars, ring, Skew, TrueSize
  <2> QED BY <1>0, <2>1 DEF OnePacketAhead, PacketAtPosition
<1> QED
  BY <1>2, <1>3, <1>4, <1>5, <1>6, <1>7, <1>8, <1>9 DEF AVNext

(* Each packet handed to ProcessTSPacket begins at the offset that av_pos  *)
(* names, or a packet less one byte after it, whatever the stream holds;   *)
(* and always at that offset if no sync byte is damaged and there is one   *)
(* wherever a packet is due.                                               *)
THEOREM PacketsInPlace ==
  AVSpec /\ []FoundInTime /\ []OnSync => []PacketAtPosition
<1>1. AVInit => IInv /\ AVInv /\ OnePacketAhead /\ PacketAtPosition
  BY InitAVInv
<1>2. IInv /\ AVInv /\ FoundInTime /\ FoundInTime' /\ OnSync
      /\ OnePacketAhead /\ PacketAtPosition /\ [AVNext]_allvars
        => IInv' /\ AVInv' /\ OnePacketAhead' /\ PacketAtPosition'
  BY AVInductive, AheadInductive
<1> QED
  BY <1>1, <1>2, PTL DEF AVSpec
=============================================================================
