--------------------------- MODULE CircularBuffer ---------------------------
(***************************************************************************)
(* The ring buffer between the socket thread (StreamReader::readSocket)    *)
(* and the demultiplexer thread (Demux::ReadAV -> StreamReader::read) of   *)
(* mctest3, mpegts_stats and mpegts-languages, whose CircularBuffer.cpp    *)
(* are the same file.                                                      *)
(*                                                                         *)
(* The writer appends datagrams.  The reader asks for bytes by absolute    *)
(* stream position, and the buffer follows those positions in two modes:   *)
(*   - while m_ignorePosition is FALSE and the position is below SyncLimit *)
(*     (1000), it seeks: beg_index := pos;                                 *)
(*   - from the first position >= SyncLimit on, it copies from beg_index   *)
(*     and then moves beg_index by the difference of successive positions. *)
(*                                                                         *)
(* Both operations run under StreamReader::m_mutex, so each is one step.   *)
(* Bytes are abstracted to their offset in the received stream.            *)
(***************************************************************************)
EXTENDS Integers

CONSTANTS
  Capacity,    \* CIRCULAR_BUFFER_SIZE
  SyncLimit,   \* positions below it are seeks (1000)
  Word,        \* size_t arithmetic is modulo Word (2^64)
  Datagrams,   \* lengths recv() may return
  ReadSizes,   \* lengths the demultiplexer asks for
  MaxWritten,  \* bound: bytes received in one session
  MaxPos       \* bound: highest position asked for

ASSUME CapacityAssumption ==
  /\ Capacity \in Nat /\ Capacity > 1
  /\ Word \in Nat /\ 2 * Capacity < Word

ASSUME ClientAssumption ==
  /\ Datagrams \subseteq Nat \ {0}
  /\ ReadSizes \subseteq Nat \ {0}
  /\ SyncLimit \in Nat
  /\ \A n \in ReadSizes : SyncLimit + n <= Capacity

ASSUME BoundAssumption ==
  /\ MaxWritten \in Nat
  /\ MaxPos \in Nat /\ MaxPos < Word

VARIABLES
  beg_index, end_index, size, position, max_size,  \* CircularBufferContext
  data,               \* CircularBufferContext.data: offset held by each cell
  m_ignorePosition, m_isBroken,
  signalRestartAll,   \* m_signalRestartAll->signaled
  request,            \* the read Demux::ReadAV is retrying, or NoRequest
  delivered,          \* what the last read returned
  written,            \* history: bytes stored so far
  lapped              \* history: the writer wrapped before the seeks ended

ring == <<beg_index, end_index, size, position, max_size, data,
          m_ignorePosition, m_isBroken>>
vars == <<ring, signalRestartAll, request, delivered, written, lapped>>

Garbage == -1          \* an uninitialised or out-of-bounds cell
NoRequest == [pos |-> 0, n |-> 0]
Index == 0 .. Capacity - 1
-----------------------------------------------------------------------------
(* size_t arithmetic *)
Sub(a, b) == IF a >= b THEN a - b ELSE a - b + Word
Add(a, b) == IF a + b < Word THEN a + b ELSE a + b - Word

(* A slip in the step to the end of the array: the index is not reset. *)
MutAdvanceNoReset(i, n) ==
  IF n <= Sub(Capacity, i) THEN Add(i, n) ELSE Sub(n, Sub(Capacity, i))

(* Where index i moves to when n bytes are consumed or stored, in one step *)
(* or, past the end of the array, in two.                                  *)
Advance(i, n) ==
  IF n <= Sub(Capacity, i)
  THEN IF Add(i, n) >= Capacity THEN 0 ELSE Add(i, n)
  ELSE Sub(n, Sub(Capacity, i))

Cell(i) == IF i \in Index THEN data[i] ELSE Garbage

(* A slip in the second memcpy(): its source is not the start of data[]. *)
MutCopyOutNoWrap(beg, n) == [j \in 0 .. n - 1 |-> Cell(IF Add(beg, j) < Capacity THEN Add(beg, j) ELSE j)]

(* The memcpy()s of read(): cell by cell, wrapping once. *)
CopyOut(beg, n) ==
  [j \in 0 .. n - 1 |->
     IF n <= Sub(Capacity, beg) \/ j < Sub(Capacity, beg)
     THEN Cell(Add(beg, j))
     ELSE Cell(Sub(j, Sub(Capacity, beg)))]

(* A slip in write(): the second memcpy() is missing. *)
MutCopyInOneStep(n) ==
  [i \in Index |-> IF i >= end_index /\ i - end_index < n
                   THEN written + (i - end_index) ELSE data[i]]

(* The memcpy()s of write(): the next n stream offsets from end_index on. *)
CopyIn(n) ==
  [i \in Index |->
     IF i >= end_index /\ i - end_index < n THEN written + (i - end_index)
     ELSE IF i < end_index /\ i + Capacity - end_index < n
          THEN written + (i + Capacity - end_index)
          ELSE data[i]]

CalculateSize(beg, end) ==
  IF beg = end THEN 0
  ELSE IF end > beg THEN end - beg
  ELSE Add(Sub(Capacity, beg), end)

Larger(a, b) == IF a > b THEN a ELSE b
-----------------------------------------------------------------------------
Init ==
  /\ beg_index = 0 /\ end_index = 0 /\ size = 0
  /\ position = 0 /\ max_size = 0
  /\ data = [i \in Index |-> Garbage]
  /\ m_ignorePosition = FALSE
  /\ m_isBroken = FALSE
  /\ signalRestartAll = FALSE
  /\ request = NoRequest
  /\ delivered = [ret |-> 0, pos |-> 0, bytes |-> <<>>]
  /\ written = 0
  /\ lapped = FALSE

(* write(): the datagram does not fit.  The buffer is marked broken and a  *)
(* restart of the whole session is requested; nothing is stored.           *)
WriteFull(n) ==
  /\ ~m_isBroken
  /\ n > Sub(Capacity - 1, size)
  /\ m_isBroken' = TRUE
  /\ signalRestartAll' = TRUE
  /\ UNCHANGED <<beg_index, end_index, size, position, max_size, data,
                 m_ignorePosition, request, delivered, written, lapped>>

(* write(): the datagram is stored.  The overflow test sets the flags but  *)
(* does not return.                                                        *)
WriteStore(n) ==
  LET overflow == Add(size, n) > Capacity
      newSize  == CalculateSize(beg_index, Advance(end_index, n))
  IN
  /\ ~m_isBroken
  /\ n <= Sub(Capacity - 1, size)
  /\ written + n <= MaxWritten
  /\ data' = CopyIn(n)
  /\ end_index' = Advance(end_index, n)
  /\ size' = newSize
  /\ max_size' = Larger(newSize, IF overflow THEN size ELSE max_size)
  /\ m_isBroken' = overflow
  /\ signalRestartAll' = (signalRestartAll \/ overflow)
  /\ written' = written + n
  /\ lapped' = (lapped \/ (~m_ignorePosition /\ written + n >= Capacity))
  /\ UNCHANGED <<beg_index, position, m_ignorePosition, request, delivered>>

(* Demux::ReadAV is called for n bytes at pos and keeps asking for them.   *)
RequestRead(pos, n) ==
  /\ request = NoRequest
  /\ request' = [pos |-> pos, n |-> n]
  /\ UNCHANGED <<ring, signalRestartAll, delivered, written, lapped>>

(* A slip at the start of read(): the seek forgets the position. *)
MutSeekKeepsPosition == position

(* The start of read(): a seek while below SyncLimit, else the switch to   *)
(* following differences.                                                  *)
Seeks == ~m_ignorePosition /\ request.pos < SyncLimit
SeekIndex == IF Seeks THEN request.pos ELSE beg_index
SeekPosition == IF Seeks THEN request.pos ELSE position
FollowsDeltas == m_ignorePosition \/ request.pos >= SyncLimit

(* A slip in read(): beg_index stays where the copy ended. *)
MutConsumeCopied(pos_delta, n) == n

(* How far beg_index ends up from where the copy began: pos_delta outside  *)
(* the seeking phase, whatever number of bytes was copied.                 *)
Consume(pos_delta, n) == IF FollowsDeltas THEN pos_delta ELSE n

(* read() returns 0: not enough bytes.  The seek has been done already,    *)
(* and size is not recomputed for it.                                      *)
ReadNoData ==
  /\ request # NoRequest
  /\ ~m_isBroken
  /\ SeekIndex = end_index \/ request.n > size
  /\ beg_index' = SeekIndex
  /\ position' = SeekPosition
  /\ m_ignorePosition' = FollowsDeltas
  /\ UNCHANGED <<end_index, size, max_size, data, m_isBroken,
                 signalRestartAll, request, delivered, written, lapped>>

(* read() returns the bytes. *)
ReadData ==
  LET n         == request.n
      pos_delta == Sub(request.pos, SeekPosition)
      newBeg    == Advance(SeekIndex, Consume(pos_delta, n))
      newSize   == CalculateSize(newBeg, end_index)
  IN
  /\ request # NoRequest
  /\ ~m_isBroken
  /\ SeekIndex # end_index /\ n <= size
  /\ delivered' = [ret |-> n, pos |-> request.pos,
                   bytes |-> CopyOut(SeekIndex, n)]
  /\ beg_index' = newBeg
  /\ size' = newSize
  /\ max_size' = Larger(newSize, max_size)
  /\ position' = IF FollowsDeltas THEN Add(SeekPosition, pos_delta)
                 ELSE SeekPosition
  /\ m_ignorePosition' = FollowsDeltas
  /\ request' = NoRequest
  /\ UNCHANGED <<end_index, data, m_isBroken, signalRestartAll, written, lapped>>

(* read() on a broken buffer returns -1; ReadAV gives up and asks for a    *)
(* restart.                                                                *)
ReadBroken ==
  /\ request # NoRequest
  /\ m_isBroken
  /\ delivered' = [ret |-> -1, pos |-> request.pos, bytes |-> <<>>]
  /\ signalRestartAll' = TRUE
  /\ request' = NoRequest
  /\ UNCHANGED <<ring, written, lapped>>

GetMaxSize ==
  /\ max_size' = size
  /\ UNCHANGED <<beg_index, end_index, size, position, data, m_ignorePosition,
                 m_isBroken, signalRestartAll, request, delivered, written, lapped>>
-----------------------------------------------------------------------------
(* What the buffer requires of its client.  Seeks go back, or at most to   *)
(* the end of the bytes read last; later positions never go back, and      *)
(* advance by at most the number of bytes asked for now.                   *)
ClientMayAsk(pos, n) ==
  IF ~m_ignorePosition /\ pos < SyncLimit
  THEN pos <= beg_index
  ELSE position <= pos /\ pos - position <= n

Write == \E n \in Datagrams : WriteFull(n) \/ WriteStore(n)

Ask == \E n \in ReadSizes, pos \in 0 .. MaxPos :
         ClientMayAsk(pos, n) /\ RequestRead(pos, n)

Next == Write \/ Ask \/ ReadNoData \/ ReadData \/ ReadBroken \/ GetMaxSize

Spec == Init /\ [][Next]_vars
-----------------------------------------------------------------------------
(* Properties *)

TypeOK ==
  /\ beg_index \in Nat /\ end_index \in Nat /\ size \in Nat
  /\ position \in Nat /\ max_size \in Nat
  /\ data \in [Index -> Int]
  /\ m_ignorePosition \in BOOLEAN /\ m_isBroken \in BOOLEAN
  /\ signalRestartAll \in BOOLEAN /\ lapped \in BOOLEAN
  /\ request \in [pos : Nat, n : Nat]
  /\ written \in Nat

(* The cell j places after beg_index, and the number of cells from         *)
(* beg_index to end_index, which size may lag behind after a failed seek.  *)
Wrap(i) == IF i >= Capacity THEN i - Capacity ELSE i
TrueSize == IF end_index >= beg_index THEN end_index - beg_index
            ELSE Capacity - beg_index + end_index

(* Neither index ever leaves the array and the fill level stays below the  *)
(* capacity, so that no memcpy() of read() or write() touches memory       *)
(* outside data[], even after the writer has lapped a seeking reader.      *)
IndexInBuffer ==
  /\ beg_index \in Index /\ end_index \in Index
  /\ size < Capacity
  /\ size <= max_size

(* No byte is overwritten before it was read: unless the writer wrapped    *)
(* while the reader was still seeking, the cells from beg_index to         *)
(* end_index hold exactly the most recent bytes of the stream, in order.   *)
WindowIntact ==
  ~lapped => \A j \in 0 .. TrueSize - 1 :
               data[Wrap(beg_index + j)] = written - TrueSize + j

(* A successful read returns consecutive bytes that were really received,  *)
(* across both ends of the array.                                          *)
DeliveredInOrder ==
  (~lapped /\ delivered.ret > 0) =>
    /\ delivered.bytes[0] >= 0
    /\ delivered.bytes[0] + delivered.ret <= written
    /\ \A j \in 0 .. delivered.ret - 1 :
         delivered.bytes[j] = delivered.bytes[0] + j

(* Stream offset of the next byte to be copied, relative to the position   *)
(* the reader asked for last.                                              *)
Skew == (written - TrueSize) - position

(* Once the seeks have ended, no read and no write changes the distance    *)
(* between the reader's positions and the bytes it is given: the buffer    *)
(* follows every step of the reader, but a wrong distance is permanent.    *)
SkewConstant ==
  [][(m_ignorePosition /\ m_ignorePosition' /\ ~lapped') => Skew' = Skew]_vars
=============================================================================
