------------------------ MODULE QualityMonitorProofs ------------------------
(***************************************************************************)
(* Proofs about module QualityMonitor for every number of buffers, every   *)
(* length of the warm-up and every mix of network faults: type             *)
(* correctness, and that no loss escapes the reports.  In a network that   *)
(* keeps the order of packets no report is false and no gap is reported    *)
(* twice; while the counter does not come round, every measured pair of    *)
(* packets is to be trusted.                                               *)
(*                                                                         *)
(* LossCovered is not inductive.  It needs to know that a number still in  *)
(* a buffer is the number of a packet that arrived (SlotsKnown), and that  *)
(* no buffer is empty once monitoring has begun (SlotsFilled).  What the   *)
(* other properties need stands before their proofs (OInv, JInv).          *)
(***************************************************************************)
EXTENDS QualityMonitor, WellFoundedInduction, TLAPS

USE DEF Slots, Seqs

WireOK == wire = NoPacket \/ wire.seq \in Seqs

SlotsKnown ==
  \A j \in Slots \ {m_cur_buf_ptr} :
    m_data_packets[j] # 0 => m_data_packets[j] \in arrived

SlotsFilled ==
  base > 0 => \A j \in Slots \ {m_cur_buf_ptr} : m_data_packets[j] # 0

TInv == TypeOK /\ WireOK
IInv == TInv /\ SlotsKnown /\ SlotsFilled /\ LossCovered
-----------------------------------------------------------------------------
(* The buffers *)

Buffers == [Slots -> 0 .. MaxSeq]

(* A set of slots that is not empty has one with the smallest number. *)
LEMMA SmallestExists ==
  ASSUME NEW buf \in Buffers, NEW S \in SUBSET Slots, S # {}
  PROVE  \E i \in S : \A j \in S : buf[i] <= buf[j]
<1> DEFINE T == {buf[i] : i \in S}
<1>1. T \subseteq Nat /\ T # {}
  <2>1. ASSUME NEW i \in S PROVE buf[i] \in Nat
    BY MonitorAssumption DEF Buffers
  <2>2. T \subseteq Nat
    BY <2>1
  <2>3. PICK i \in S : TRUE
    OBVIOUS
  <2>4. buf[i] \in T
    OBVIOUS
  <2> QED
    BY <2>2, <2>4
<1>2. PICK x \in T : \A y \in T : ~(<<y, x>> \in OpToRel(<, Nat))
  <2>1. IsWellFoundedOn(OpToRel(<, Nat), Nat)
    BY NatLessThanWellFounded
  <2> QED
    BY <1>1, <2>1, WFMin
<1>3. \A y \in T : x <= y
  <2>1. SUFFICES ASSUME NEW y \in T, ~(x <= y) PROVE FALSE
    OBVIOUS
  <2>2. x \in Nat /\ y \in Nat
    BY <1>1
  <2>3. y < x
    BY <2>1, <2>2
  <2>4. <<y, x>> \in OpToRel(<, Nat)
    BY <2>2, <2>3 DEF OpToRel
  <2> QED
    BY <1>2, <2>4
<1>4. PICK i \in S : x = buf[i]
  OBVIOUS
<1> QED
  BY <1>3, <1>4

(* First() and Second() after SortBuffers(): the smallest number and the   *)
(* smallest of the others.                                                 *)
LEMMA Sorted ==
  ASSUME NEW buf \in Buffers
  PROVE  /\ First(buf) \in Slots
         /\ \A j \in Slots : buf[First(buf)] <= buf[j]
         /\ \E k \in Slots \ {First(buf)} : Second(buf) = buf[k]
         /\ \A j \in Slots \ {First(buf)} : Second(buf) <= buf[j]
<1>1. Slots # {} /\ 0 \in Slots /\ 1 \in Slots
  BY MonitorAssumption
<1>2. \E i \in Slots : \A j \in Slots : buf[i] <= buf[j]
  BY <1>1, SmallestExists
<1>3. First(buf) \in Slots /\ \A j \in Slots : buf[First(buf)] <= buf[j]
  BY <1>2 DEF First
<1> DEFINE rest == Slots \ {First(buf)}
<1>4. rest # {} /\ rest \in SUBSET Slots
  BY <1>1
<1>5. \E i \in rest : \A j \in rest : buf[i] <= buf[j]
  BY <1>4, SmallestExists
<1>6. PICK k \in rest : /\ \A j \in rest : buf[k] <= buf[j]
                        /\ Second(buf) = buf[k]
  BY <1>5 DEF Second
<1> QED
  BY <1>3, <1>6

LEMMA ReportType ==
  ASSUME NEW buf \in Buffers
  PROVE  Report(buf) \subseteq [from : Seqs, to : Seqs, lost : Int]
<1> DEFINE low == buf[First(buf)]
<1>1. low \in 0 .. MaxSeq /\ Second(buf) \in 0 .. MaxSeq /\ low <= Second(buf)
  BY Sorted DEF Buffers
<1>2. CASE low = 0
  BY <1>2 DEF Report
<1>3. CASE low # 0
  <2>1. low \in Seqs /\ Second(buf) \in Seqs /\ Second(buf) - low \in Int
    BY <1>1, <1>3, MonitorAssumption
  <2> QED
    BY <2>1 DEF Report
<1> QED
  BY <1>2, <1>3

(* If one number is below x and not 0, and all others are above x, then    *)
(* the gap that is reported contains x.                                    *)
LEMMA ReportCovers ==
  ASSUME NEW buf \in Buffers, NEW x \in Seqs, NEW i \in Slots,
         buf[i] # 0, buf[i] < x,
         \A j \in Slots \ {i} : buf[j] > x
  PROVE  \E r \in Report(buf) : r.from < x /\ x < r.to
<1> DEFINE low == buf[First(buf)]
<1>1. \A j \in Slots : buf[j] \in Int
  BY MonitorAssumption DEF Buffers
<1>2. First(buf) = i
  <2>1. First(buf) \in Slots /\ low <= buf[i]
    BY Sorted
  <2> QED
    BY <1>1, <2>1
<1>3. PICK k \in Slots \ {i} : Second(buf) = buf[k]
  BY <1>2, Sorted
<1>4. low # 0 /\ low < x /\ x < Second(buf) /\ Second(buf) \in Int /\ low \in Int
  BY <1>1, <1>2, <1>3
<1>5. Second(buf) - low # 1
  BY <1>4
<1> DEFINE rep == [from |-> low, to |-> Second(buf), lost |-> Second(buf) - low]
<1>6. rep \in Report(buf)
  BY <1>4, <1>5 DEF Report
<1> QED
  BY <1>4, <1>6
-----------------------------------------------------------------------------
(* Type correctness *)

LEMMA StoredType ==
  ASSUME TInv, wire # NoPacket
  PROVE  /\ wire.seq \in Seqs
         /\ Stored \in Buffers
         /\ Stored[m_cur_buf_ptr] = wire.seq
         /\ \A j \in Slots \ {m_cur_buf_ptr} : Stored[j] = m_data_packets[j]
         /\ NextSlot \in Slots /\ NextSlot # m_cur_buf_ptr
         /\ PacketCtr \in 0 .. CtrWord - 1
  BY MonitorAssumption
  DEF TInv, TypeOK, WireOK, Stored, Buffers, NextSlot, PacketCtr

Packets == [seq : 0 .. MaxSeq, good : BOOLEAN, again : BOOLEAN]

(* What the sender and the network make of a packet is a packet. *)
LEMMA PacketSteps ==
  /\ NoPacket \in Packets
  /\ \A n \in 0 .. MaxSeq : /\ [NoPacket EXCEPT !.seq = n] \in Packets
                            /\ [NoPacket EXCEPT !.seq = n].seq = n
  /\ \A w \in Packets : /\ [w EXCEPT !.good = FALSE] \in Packets
                         /\ [w EXCEPT !.good = FALSE].seq = w.seq
                         /\ [w EXCEPT !.again = TRUE] \in Packets
                         /\ [w EXCEPT !.again = TRUE].seq = w.seq
                         /\ [w EXCEPT !.again = FALSE] \in Packets
                         /\ [w EXCEPT !.again = FALSE].seq = w.seq
<1>1. NoPacket \in Packets
  BY MonitorAssumption DEF Packets, NoPacket
<1>2. ASSUME NEW w \in Packets, NEW n \in 0 .. MaxSeq
      PROVE  [w EXCEPT !.seq = n] \in Packets /\ [w EXCEPT !.seq = n].seq = n
  BY DEF Packets
<1>3. ASSUME NEW w \in Packets
      PROVE  [w EXCEPT !.good = FALSE] \in Packets /\ [w EXCEPT !.good = FALSE].seq = w.seq
  BY DEF Packets
<1>4. ASSUME NEW w \in Packets, NEW b \in BOOLEAN
      PROVE  [w EXCEPT !.again = b] \in Packets /\ [w EXCEPT !.again = b].seq = w.seq
  BY DEF Packets
<1> QED
  BY <1>1, <1>2, <1>3, <1>4

(* What a step that only concerns sender and network has to show. *)
LEMMA WireOnly ==
  ASSUME TInv, UNCHANGED receiver, UNCHANGED histories,
         seq' \in 0 .. MaxSeq, held' \in 0 .. MaxSeq,
         faults' \in 0 .. MaxFaults,
         wire' \in Packets, wire' = NoPacket \/ wire'.seq \in Seqs
  PROVE  TInv'
  BY DEF TInv, TypeOK, WireOK, NoPacket, Packets, receiver, histories

LEMMA DeliveredType ==
  ASSUME TInv, Delivered
  PROVE  /\ wire' \in [seq : 0 .. MaxSeq, good : BOOLEAN, again : BOOLEAN]
         /\ WireOK'
         /\ seq' \in 0 .. MaxSeq /\ held' \in 0 .. MaxSeq /\ faults' \in 0 .. MaxFaults
<1>1. NoPacket \in Packets
  BY PacketSteps
<1>2. wire \in Packets /\ wire.seq \in Seqs
  BY DEF TInv, TypeOK, WireOK, Delivered, Packets
<1>3. [wire EXCEPT !.again = FALSE] \in Packets /\ [wire EXCEPT !.again = FALSE].seq = wire.seq
  BY <1>2, PacketSteps
<1>4. wire' = NoPacket \/ wire' = [wire EXCEPT !.again = FALSE]
  BY DEF Delivered
<1>5. wire' \in Packets /\ (wire' = NoPacket \/ wire'.seq \in Seqs)
  BY <1>1, <1>2, <1>3, <1>4
<1>6. seq' \in 0 .. MaxSeq /\ held' \in 0 .. MaxSeq /\ faults' \in 0 .. MaxFaults
  BY DEF Delivered, TInv, TypeOK
<1> QED
  BY <1>5, <1>6 DEF WireOK, NoPacket, Packets

LEMMA KeepType ==
  ASSUME TInv, Keep
  PROVE  /\ m_data_packets' \in Buffers /\ m_cur_buf_ptr' \in Slots
         /\ m_packet_ctr' \in 0 .. CtrWord - 1
         /\ no_data' \in BOOLEAN /\ arrived' \subseteq Seqs
  BY StoredType DEF TInv, TypeOK, Keep, Delivered

LEMMA TypeInductive == TInv /\ [Next]_vars => TInv'
<1> SUFFICES ASSUME TInv, [Next]_vars PROVE TInv'
  OBVIOUS
<1> USE MonitorAssumption
<1>0. /\ wire \in Packets /\ (wire = NoPacket \/ wire.seq \in Seqs)
      /\ seq \in 0 .. MaxSeq /\ held \in 0 .. MaxSeq /\ faults \in 0 .. MaxFaults
  BY DEF TInv, TypeOK, WireOK, Packets
<1>1. CASE Send
  <2>1. seq + 1 \in Seqs /\ wire' \in Packets /\ wire'.seq = seq + 1
    BY <1>0, <1>1, PacketSteps DEF Send
  <2> QED
    BY <1>0, <1>1, <2>1, WireOnly DEF Send
<1>2. CASE Lose
  BY <1>0, <1>2, PacketSteps, WireOnly DEF Lose, Fault
<1>3. CASE Corrupt
  <2>1. wire' \in Packets /\ wire'.seq \in Seqs
    BY <1>0, <1>3, PacketSteps DEF Corrupt, Fault
  <2> QED
    BY <1>0, <1>3, <2>1, WireOnly DEF Corrupt, Fault
<1>4. CASE Duplicate
  <2>1. wire' \in Packets /\ wire'.seq \in Seqs
    BY <1>0, <1>4, PacketSteps DEF Duplicate, Fault
  <2> QED
    BY <1>0, <1>4, <2>1, WireOnly DEF Duplicate, Fault
<1>5. CASE Hold
  BY <1>0, <1>5, PacketSteps, WireOnly DEF Hold, Fault
<1>6. CASE Release
  <2>1. held \in Seqs /\ wire' \in Packets /\ wire'.seq = held
    BY <1>0, <1>6, PacketSteps DEF Release
  <2> QED
    BY <1>0, <1>6, <2>1, WireOnly DEF Release
<1>7. CASE BadChecksum
  <2>1. Delivered /\ wire # NoPacket
    BY <1>7 DEF BadChecksum, Delivered
  <2>2. m_data_packets' \in [Slots -> 0 .. MaxSeq]
    <3>1. PICK garbage \in {0} \cup Seqs :
            m_data_packets' = [m_data_packets EXCEPT ![m_cur_buf_ptr] = garbage]
      BY <1>7 DEF BadChecksum
    <3>2. m_data_packets \in [Slots -> 0 .. MaxSeq] /\ garbage \in 0 .. MaxSeq
      BY DEF TInv, TypeOK
    <3> QED
      BY <3>1, <3>2
  <2>3. /\ latencies' = latencies /\ m_cur_buf_ptr' = m_cur_buf_ptr
        /\ m_packet_ctr' = m_packet_ctr /\ no_data' = no_data
        /\ can_show_jitter_ctr' = can_show_jitter_ctr /\ reports' = reports
        /\ repeated' = repeated /\ arrived' = arrived /\ base' = base
    BY <1>7 DEF BadChecksum, histories
  <2> QED
    BY <2>1, <2>2, <2>3, DeliveredType DEF TInv, TypeOK
<1>8. CASE Toss
  <2>1. Keep /\ Delivered
    BY <1>8 DEF Toss, Keep
  <2>2. base' \in 0 .. MaxSeq
    BY <1>8 DEF Toss
  <2> QED
    BY <1>8, <2>1, <2>2, KeepType, DeliveredType DEF Toss, TInv, TypeOK, Buffers
<1>9. CASE ClockUnset
  <2>1. Delivered /\ wire # NoPacket
    BY <1>9 DEF ClockUnset, Delivered
  <2> QED
    BY <1>9, <2>1, DeliveredType, StoredType
    DEF ClockUnset, TInv, TypeOK, Buffers, histories
<1>10. CASE Skip
  BY <1>10, KeepType, DeliveredType DEF Skip, Keep, TInv, TypeOK, Buffers
<1>11. ASSUME NEW latency \in {"low", "high"}, Measure(latency) PROVE TInv'
  <2>1. Keep /\ Delivered /\ wire # NoPacket
    BY <1>11 DEF Measure, Keep, Delivered
  <2>2. reports' \subseteq [from : Seqs, to : Seqs, lost : Int]
    BY <1>11, <2>1, StoredType, ReportType DEF Measure, TInv, TypeOK
  <2>3. base' \in 0 .. MaxSeq
    BY <1>11, <2>1, StoredType, Sorted DEF Measure, TInv, TypeOK, Buffers
  <2>4. can_show_jitter_ctr' \in 0 .. NumBufs
    BY <1>11 DEF Measure, JitterPause, TInv, TypeOK
  <2>5. latencies' \in [Slots -> {"none", "low",
  "high"}] /\ repeated' \in BOOLEAN
    BY <1>11 DEF Measure, TInv, TypeOK
  <2> QED
    BY <2>1, <2>2, <2>3, <2>4, <2>5, KeepType, DeliveredType
    DEF TInv, TypeOK, Buffers
<1>12. CASE NoData
  BY <1>12 DEF NoData, TInv, TypeOK, WireOK, network, histories
<1>13. CASE UNCHANGED vars
  BY <1>13 DEF vars, network, receiver, histories, TInv, TypeOK, WireOK
<1> QED
  BY <1>1, <1>2, <1>3, <1>4, <1>5, <1>6, <1>7, <1>8, <1>9, <1>10, <1>11,
     <1>12, <1>13 DEF Next

LEMMA InitTyped == Init => TInv
<1> SUFFICES ASSUME Init PROVE TInv
  OBVIOUS
<1>1. wire \in Packets /\ WireOK
  BY PacketSteps DEF Init, WireOK
<1>2. /\ seq \in 0 .. MaxSeq /\ held \in 0 .. MaxSeq /\ faults \in 0 .. MaxFaults
      /\ m_cur_buf_ptr \in Slots /\ m_packet_ctr \in 0 .. CtrWord - 1
      /\ can_show_jitter_ctr \in 0 .. NumBufs /\ base \in 0 .. MaxSeq
  BY MonitorAssumption DEF Init
<1>3. /\ m_data_packets \in [Slots -> 0 .. MaxSeq]
      /\ latencies \in [Slots -> {"none", "low", "high"}]
  BY MonitorAssumption DEF Init
<1>4. no_data \in BOOLEAN /\ repeated \in BOOLEAN /\ arrived = {} /\ reports = {}
  BY DEF Init
<1> QED
  BY <1>1, <1>2, <1>3, <1>4 DEF TInv, TypeOK, Packets

(* Every variable of sender, network and receiver keeps its type: the      *)
(* index of mc_qm_recv's buffers never leaves the array.                   *)
THEOREM TypeCorrect == Spec => []TypeOK
<1>1. Init => TInv
  BY InitTyped
<1>2. TInv => TypeOK
  BY DEF TInv
<1> QED
  BY <1>1, <1>2, TypeInductive, PTL DEF Spec
-----------------------------------------------------------------------------
(* No loss escapes *)

(* A step that leaves the window, its index and the histories alone, but   *)
(* for the buffer that the next packet overwrites.                         *)
LEMMA WindowOnly ==
  ASSUME IInv, TInv', UNCHANGED <<m_cur_buf_ptr, histories>>,
         \A j \in Slots \ {m_cur_buf_ptr} : m_data_packets'[j] = m_data_packets[j]
  PROVE  IInv'
<1>1. SlotsKnown'
  BY DEF IInv, SlotsKnown, histories
<1>2. SlotsFilled'
  BY DEF IInv, SlotsFilled, histories
<1>3. LossCovered'
  BY DEF IInv, LossCovered, Passed, Covered, histories
<1> QED
  BY <1>1, <1>2, <1>3 DEF IInv

(* Keeping a packet: the buffers before the next one are known and, if     *)
(* they were, filled.                                                      *)
LEMMA KeepWindow ==
  ASSUME IInv, Keep
  PROVE  /\ SlotsKnown'
         /\ base > 0 => \A j \in Slots : Stored[j] # 0
<1>1. wire # NoPacket /\ TInv
  BY DEF Keep, Delivered, IInv
<1>2. /\ m_data_packets' = Stored /\ m_cur_buf_ptr' = NextSlot
      /\ arrived' = arrived \cup {wire.seq}
  BY DEF Keep
<1>3. SlotsKnown'
  <2> SUFFICES ASSUME NEW j \in Slots, j # NextSlot, Stored[j] # 0
               PROVE  Stored[j] \in arrived'
    BY <1>2 DEF SlotsKnown
  <2>1. CASE j = m_cur_buf_ptr
    BY <1>1, <1>2, <2>1, StoredType
  <2>2. CASE j # m_cur_buf_ptr
    BY <1>1, <1>2, <2>2, StoredType DEF IInv, SlotsKnown
  <2> QED
    BY <2>1, <2>2
<1>4. ASSUME base > 0, NEW j \in Slots PROVE Stored[j] # 0
  <2>1. CASE j = m_cur_buf_ptr
    BY <1>1, <2>1, StoredType
  <2>2. CASE j # m_cur_buf_ptr
    BY <1>1, <1>4, <2>2, StoredType DEF IInv, SlotsFilled
  <2> QED
    BY <2>1, <2>2
<1> QED
  BY <1>3, <1>4

(* The step that reports.  A number x that has not arrived and that all    *)
(* buffers but the next have passed was covered before if the next buffer  *)
(* has passed it too; otherwise that buffer is the smallest, and the gap   *)
(* up to the second smallest, which contains x, is reported now.           *)
LEMMA MeasureCovers ==
  ASSUME IInv, NEW latency, Measure(latency)
  PROVE  SlotsFilled' /\ LossCovered'
<1>1. Keep /\ wire # NoPacket /\ TInv
  BY DEF Measure, Keep, Delivered, IInv
<1>2. /\ m_data_packets' = Stored /\ m_cur_buf_ptr' = NextSlot
      /\ arrived' = arrived \cup {wire.seq}
      /\ reports' = reports \cup Report(Stored)
      /\ base' = IF base = 0 THEN Stored[First(Stored)] ELSE base
  BY DEF Measure, Keep
<1>3. /\ Stored \in Buffers /\ NextSlot \in Slots
      /\ \A j \in Slots : Stored[j] \in Nat
      /\ base \in Nat
  <2>1. Stored \in Buffers /\ NextSlot \in Slots
    BY <1>1, StoredType
  <2>2. \A j \in Slots : Stored[j] \in Nat
    BY <2>1, MonitorAssumption DEF Buffers
  <2>3. base \in Nat
    BY <1>1, MonitorAssumption DEF TInv, TypeOK
  <2> QED
    BY <2>1, <2>2, <2>3
<1>4. base' > 0 => \A j \in Slots : Stored[j] # 0 /\ (base = 0 => base' <= Stored[j])
  <2>1. CASE base = 0
    BY <1>2, <1>3, <2>1, Sorted
  <2>2. CASE base > 0
    BY <1>1, <1>2, <2>2, KeepWindow
  <2> QED
    BY <1>3, <2>1, <2>2
<1>5. SlotsFilled'
  BY <1>2, <1>4 DEF SlotsFilled
<1>6. ASSUME NEW x \in Seqs, 0 < base', base' < x, x \notin arrived',
             \A j \in Slots \ {NextSlot} : Stored[j] > x
      PROVE  \E r \in reports' : r.from < x /\ x < r.to
  <2>1. CASE Stored[NextSlot] < x
    <3>1. Stored[NextSlot] # 0
      BY <1>3, <1>4, <1>6
    <3>2. \E r \in Report(Stored) : r.from < x /\ x < r.to
      BY <1>3, <1>6, <2>1, <3>1, ReportCovers
    <3> QED
      BY <1>2, <3>2
  <2>2. CASE Stored[NextSlot] = x
    <3>1. Stored[NextSlot] = m_data_packets[NextSlot] /\ NextSlot # m_cur_buf_ptr
      BY <1>1, StoredType
    <3>2. x # 0
      OBVIOUS
    <3>3. x \in arrived
      BY <1>3, <2>2, <3>1, <3>2 DEF IInv, SlotsKnown
    <3> QED
      BY <1>2, <1>6, <3>3
  <2>3. CASE Stored[NextSlot] > x
    <3>1. \A j \in Slots : Stored[j] > x
      BY <1>3, <1>6, <2>3
    <3>2. base # 0
      <4>1. SUFFICES ASSUME base = 0 PROVE FALSE
        OBVIOUS
      <4>2. base' = Stored[First(Stored)] /\ First(Stored) \in Slots
        BY <1>2, <1>3, <4>1, Sorted
      <4>3. base' > x /\ base' \in Nat
        BY <1>3, <3>1, <4>2
      <4> QED
        BY <1>6, <4>3
    <3>3. base' = base /\ x \notin arrived
      BY <1>2, <1>6, <3>2
    <3>4. Passed(x)
      BY <1>1, <3>1, StoredType DEF Passed
    <3>5. Covered(x)
      BY <1>6, <3>3, <3>4 DEF IInv, LossCovered
    <3> QED
      BY <1>2, <3>5 DEF Covered
  <2> QED
    BY <1>3, <2>1, <2>2, <2>3
<1>7. LossCovered'
  BY <1>2, <1>6 DEF LossCovered, Passed, Covered
<1> QED
  BY <1>5, <1>7

LEMMA CoverInductive ==
  ASSUME "skip" \notin Timings
  PROVE  IInv /\ [Next]_vars => IInv'
<1> SUFFICES ASSUME IInv, [Next]_vars PROVE IInv'
  OBVIOUS
<1>0. TInv /\ TInv'
  BY TypeInductive DEF IInv
<1>1. CASE Send \/ Lose \/ Corrupt \/ Duplicate \/ Hold \/ Release
  <2>1. UNCHANGED receiver /\ UNCHANGED histories
    BY <1>1 DEF Send, Lose, Corrupt, Duplicate, Hold, Fault, Release
  <2> QED
    BY <1>0, <2>1, WindowOnly DEF receiver
<1>2. CASE BadChecksum
  BY <1>0, <1>2, WindowOnly DEF BadChecksum, TInv, TypeOK
<1>3. CASE ClockUnset
  <2>1. wire # NoPacket
    BY <1>3 DEF ClockUnset, Delivered
  <2> QED
    BY <1>0, <1>3, <2>1, WindowOnly, StoredType DEF ClockUnset
<1>4. CASE Toss
  <2>1. Keep /\ base' = 0
    BY <1>4 DEF Toss
  <2>2. SlotsFilled' /\ LossCovered'
    BY <2>1 DEF SlotsFilled, LossCovered
  <2> QED
    BY <1>0, <2>1, <2>2, KeepWindow DEF IInv
<1>5. CASE Skip
  BY <1>5 DEF Skip
<1>6. ASSUME NEW latency \in {"low", "high"}, Measure(latency) PROVE IInv'
  <2>1. Keep
    BY <1>6 DEF Measure
  <2> QED
    BY <1>0, <1>6, <2>1, KeepWindow, MeasureCovers DEF IInv
<1>7. CASE NoData
  BY <1>0, <1>7, WindowOnly DEF NoData
<1>8. CASE UNCHANGED vars
  BY <1>0, <1>8, WindowOnly DEF vars, receiver
<1> QED
  BY <1>1, <1>2, <1>3, <1>4, <1>5, <1>6, <1>7, <1>8 DEF Next

(* As long as no packet is skipped for its time stamp, every packet that   *)
(* the window of mc_qm_recv has moved past without its having arrived lies *)
(* within a gap that was reported: for every number of buffers, every      *)
(* warm-up, and any number and mix of losses, damages, copies and packets  *)
(* overtaken.                                                              *)
THEOREM NoLossEscapes ==
  ASSUME "skip" \notin Timings
  PROVE  Spec => []LossCovered
<1>1. Init => IInv
  <2> SUFFICES ASSUME Init PROVE IInv
    OBVIOUS
  <2>1. TInv
    BY InitTyped
  <2>2. SlotsKnown /\ SlotsFilled /\ LossCovered
    BY MonitorAssumption DEF Init, SlotsKnown, SlotsFilled, LossCovered
  <2> QED
    BY <2>1, <2>2 DEF IInv
<1>2. IInv => LossCovered
  BY DEF IInv
<1>3. IInv /\ [Next]_vars => IInv'
  BY CoverInductive
<1> QED
  BY <1>1, <1>2, <1>3, PTL DEF Spec
-----------------------------------------------------------------------------
(* No false alarm, and each gap reported once *)

(* Nothing is held back or doubled: what arrives is newer than everything  *)
(* that arrived before it.                                                 *)
InStep ==
  /\ held = 0 /\ ~wire.again
  /\ wire # NoPacket => wire.seq = seq
  /\ \A x \in arrived : x <= seq /\ (wire # NoPacket => x < seq)

(* The place of a buffer in the order of arrival, the current one apart. *)
Place(i) == IF i < m_cur_buf_ptr THEN i + NumBufs ELSE i

(* The buffers are in the order of arrival; those not yet used come first. *)
Ordered ==
  \A i, j \in Slots \ {m_cur_buf_ptr} :
    Place(i) < Place(j) => m_data_packets[i] = 0
                           \/ m_data_packets[i] < m_data_packets[j]

(* What arrived is in a buffer, or older than all of them. *)
Window ==
  \A x \in arrived :
    Passed(x) \/ \E j \in Slots \ {m_cur_buf_ptr} : m_data_packets[j] = x

(* A gap is reported between two packets that arrived, just before the     *)
(* window moves past the older one.                                        *)
ReportsPassed ==
  \A r \in reports : /\ r.from < r.to /\ r.from \in arrived /\ r.to \in arrived
                     /\ Passed(r.from)

OInv ==
  /\ TInv /\ InStep /\ SlotsKnown /\ Ordered /\ Window /\ ReportsPassed
  /\ NoFalseLoss /\ ReportedOnce

(* The buffer that the next packet overwrites holds the oldest packet.     *)
LEMMA NextIsOldest ==
  ASSUME TInv, Ordered, NEW j \in Slots \ {m_cur_buf_ptr}, j # NextSlot
  PROVE  \/ m_data_packets[NextSlot] = 0
         \/ m_data_packets[NextSlot] < m_data_packets[j]
<1>1. /\ m_cur_buf_ptr \in Slots /\ NextSlot \in Slots
      /\ NextSlot # m_cur_buf_ptr /\ NumBufs \in Nat
  BY MonitorAssumption DEF TInv, TypeOK, NextSlot
<1>2. Place(NextSlot) < Place(j)
  BY <1>1 DEF Place, NextSlot
<1> QED
  BY <1>1, <1>2 DEF Ordered

(* A packet that is kept is newer than all others, and the window moves on *)
(* by one buffer.                                                          *)
LEMMA KeepOrder ==
  ASSUME OInv, Keep
  PROVE  /\ InStep' /\ Ordered' /\ Window' /\ SlotsKnown'
         /\ \A j \in Slots : /\ Stored[j] \in Nat /\ wire.seq # 0
                             /\ Stored[j] # 0 => Stored[j] \in arrived'
         /\ \A j \in Slots \ {m_cur_buf_ptr} : Stored[j] < wire.seq
         /\ \A j \in Slots \ {NextSlot} :
              Stored[NextSlot] = 0 \/ Stored[NextSlot] < Stored[j]
         /\ \A x \in arrived : x < wire.seq /\ x \in Nat
<1>1. /\ TInv /\ InStep /\ SlotsKnown /\ Ordered /\ Window
      /\ Delivered /\ wire # NoPacket
  BY DEF OInv, Keep, Delivered
<1>2. /\ m_data_packets' = Stored /\ m_cur_buf_ptr' = NextSlot
      /\ arrived' = arrived \cup {wire.seq} /\ seq' = seq /\ held' = held
      /\ wire' = NoPacket \/ wire' = [wire EXCEPT !.again = FALSE]
  BY <1>1 DEF Keep, Delivered
<1>3. /\ wire.seq \in Seqs /\ Stored \in Buffers /\ Stored[m_cur_buf_ptr] = wire.seq
      /\ \A j \in Slots \ {m_cur_buf_ptr} : Stored[j] = m_data_packets[j]
      /\ NextSlot \in Slots /\ NextSlot # m_cur_buf_ptr
  BY <1>1, StoredType
<1>4. /\ wire.seq = seq /\ \A x \in arrived : x < wire.seq /\ x \in Nat
      /\ m_cur_buf_ptr \in Slots /\ NumBufs \in Nat /\ wire.seq \in Nat
  <2>1. wire.seq = seq /\ \A x \in arrived : x < seq
    BY <1>1 DEF InStep
  <2>2. arrived \subseteq Seqs /\ m_cur_buf_ptr \in Slots
    BY <1>1 DEF TInv, TypeOK
  <2> QED
    BY <1>3, <2>1, <2>2, MonitorAssumption
<1>5. \A j \in Slots : Stored[j] \in Nat /\ wire.seq # 0
  BY <1>3, MonitorAssumption DEF Buffers
<1>6. \A j \in Slots : Stored[j] # 0 => Stored[j] \in arrived'
  BY <1>1, <1>2, <1>3 DEF SlotsKnown
<1>7. \A j \in Slots \ {m_cur_buf_ptr} : Stored[j] < wire.seq
  <2> SUFFICES ASSUME NEW j \in Slots \ {m_cur_buf_ptr} PROVE Stored[j] < wire.seq
    OBVIOUS
  <2>1. CASE Stored[j] = 0
    BY <1>3, <2>1
  <2>2. CASE Stored[j] # 0
    <3>1. Stored[j] \in arrived
      BY <1>1, <1>3, <2>2 DEF SlotsKnown
    <3> QED
      BY <1>4, <3>1
  <2> QED
    BY <2>1, <2>2
<1>8. \A j \in Slots \ {NextSlot} : Stored[NextSlot] = 0 \/ Stored[NextSlot] < Stored[j]
  <2> SUFFICES ASSUME NEW j \in Slots \ {NextSlot}
               PROVE  Stored[NextSlot] = 0 \/ Stored[NextSlot] < Stored[j]
    OBVIOUS
  <2>1. CASE j = m_cur_buf_ptr
    BY <1>3, <1>7, <2>1
  <2>2. CASE j # m_cur_buf_ptr
    BY <1>1, <1>3, <2>2, NextIsOldest
  <2> QED
    BY <2>1, <2>2
<1>9. InStep'
  <2>1. ~wire.again /\ held = 0
    BY <1>1 DEF InStep
  <2>2. wire' = NoPacket
    BY <1>1, <2>1 DEF Delivered
  <2>3. \A x \in arrived' : x <= seq
    BY <1>2, <1>4
  <2> QED
    BY <1>2, <2>1, <2>2, <2>3 DEF InStep, NoPacket
<1>10. Ordered'
  <2> SUFFICES ASSUME NEW i \in Slots, NEW j \in Slots, i # NextSlot,
  j # NextSlot,
                      Place(i)' < Place(j)'
               PROVE  Stored[i] = 0 \/ Stored[i] < Stored[j]
    BY <1>2 DEF Ordered
  <2>1. CASE j = m_cur_buf_ptr
    <3>1. i # j
      BY <2>1, <1>2, <1>4, MonitorAssumption DEF Place
    <3> QED
      BY <1>3, <1>7, <2>1, <3>1
  <2>2. CASE i = m_cur_buf_ptr
    BY <1>2, <1>4, <2>2 DEF Place, NextSlot
  <2>3. CASE i # m_cur_buf_ptr /\ j # m_cur_buf_ptr
    <3>1. Place(i) < Place(j)
      BY <1>2, <1>4, <2>3 DEF Place, NextSlot
    <3> QED
      BY <1>1, <1>3, <2>3, <3>1 DEF Ordered
  <2> QED
    BY <2>1, <2>2, <2>3
<1>11. Window'
  <2> SUFFICES ASSUME NEW x \in arrived'
               PROVE  \/ \A j \in Slots \ {NextSlot} : Stored[j] > x
                      \/ \E j \in Slots \ {NextSlot} : Stored[j] = x
    BY <1>2 DEF Window, Passed
  <2>1. CASE x = wire.seq
    BY <1>3, <1>4, <2>1
  <2>2. CASE x \in arrived /\ Passed(x)
    BY <1>3, <1>4, <2>2 DEF Passed
  <2>3. ASSUME x \in arrived, NEW k \in Slots \ {m_cur_buf_ptr},
               m_data_packets[k] = x
        PROVE  \/ \A j \in Slots \ {NextSlot} : Stored[j] > x
               \/ \E j \in Slots \ {NextSlot} : Stored[j] = x
    <3>1. CASE k = NextSlot
      <4>1. Stored[NextSlot] = x /\ x # 0 /\ x \in Nat
        <5>1. x \in Seqs
          BY <1>1, <2>3 DEF TInv, TypeOK
        <5> QED
          BY <1>3, <2>3, <3>1, <5>1
      <4>2. \A j \in Slots \ {NextSlot} : x < Stored[j] /\ Stored[j] \in Nat
        BY <1>5, <1>8, <4>1
      <4> QED
        BY <4>1, <4>2
    <3>2. CASE k # NextSlot
      BY <1>3, <2>3, <3>2
    <3> QED
      BY <3>1, <3>2
  <2> QED
    BY <1>1, <1>2, <2>1, <2>2, <2>3 DEF Window
<1>12. SlotsKnown'
  BY <1>2, <1>6 DEF SlotsKnown
<1> QED
  BY <1>4, <1>5, <1>6, <1>7, <1>8, <1>9, <1>10, <1>11, <1>12

(* Earlier reports stay behind the window, and true.                       *)
LEMMA KeepReports ==
  ASSUME OInv, Keep, NEW r \in reports
  PROVE  /\ r.from < r.to /\ r.from \in arrived' /\ r.to \in arrived'
         /\ \A j \in Slots : Stored[j] > r.from
         /\ \A x \in r.from + 1 .. r.to - 1 : x \notin arrived'
<1>1. /\ r.from < r.to /\ r.from \in arrived /\ r.to \in arrived /\ Passed(r.from)
      /\ \A x \in r.from + 1 .. r.to - 1 : x \notin arrived
  BY DEF OInv, ReportsPassed, NoFalseLoss
<1>2. arrived' = arrived \cup {wire.seq} /\ wire # NoPacket /\ TInv
  BY DEF Keep, Delivered, OInv
<1>3. r.to < wire.seq /\ r.from < wire.seq /\ r.to \in Nat /\ r.from \in Nat
      /\ wire.seq \in Nat
  <2>1. wire.seq \in Seqs
    BY <1>2, StoredType
  <2> QED
    BY <1>1, <2>1, KeepOrder
<1>4. \A j \in Slots : Stored[j] > r.from
  <2>1. \A j \in Slots \ {m_cur_buf_ptr} : m_data_packets[j] > r.from
    BY <1>1 DEF Passed
  <2> QED
    BY <1>2, <1>3, <2>1, StoredType
<1>5. \A x \in r.from + 1 .. r.to - 1 : x \notin arrived'
  BY <1>1, <1>2, <1>3
<1> QED
  BY <1>1, <1>2, <1>4, <1>5

(* A gap that is reported is one, is new, and ends where the window is     *)
(* about to begin.                                                         *)
LEMMA MeasureReports ==
  ASSUME OInv, NEW latency, Measure(latency)
  PROVE  ReportsPassed' /\ NoFalseLoss' /\ ReportedOnce'
<1>1. Keep /\ TInv /\ wire # NoPacket /\ Window /\ ~repeated
  BY DEF Measure, OInv, Keep, Delivered, ReportedOnce
<1>2. /\ m_data_packets' = Stored /\ m_cur_buf_ptr' = NextSlot
      /\ arrived' = arrived \cup {wire.seq}
      /\ reports' = reports \cup Report(Stored)
      /\ repeated' = (repeated \/ Report(Stored) \cap reports # {})
  BY DEF Measure, Keep
<1>3. /\ Stored \in Buffers /\ NextSlot \in Slots
      /\ Stored[m_cur_buf_ptr] = wire.seq /\ m_cur_buf_ptr \in Slots
      /\ \A j \in Slots \ {m_cur_buf_ptr} : Stored[j] = m_data_packets[j]
  BY <1>1, StoredType DEF TInv, TypeOK
<1> DEFINE low == Stored[First(Stored)]
<1>4. ASSUME NEW r \in Report(Stored)
      PROVE  /\ r.from < r.to /\ r.from \in arrived' /\ r.to \in arrived'
             /\ \A j \in Slots \ {NextSlot} : Stored[j] > r.from
             /\ \A x \in r.from + 1 .. r.to - 1 : x \notin arrived'
             /\ r \notin reports
  <2>1. low # 0 /\ r.from = low /\ r.to = Second(Stored)
    BY <1>4 DEF Report
  <2>2. PICK k \in Slots \ {First(Stored)} : Second(Stored) = Stored[k]
    BY <1>3, Sorted
  <2>3. /\ First(Stored) \in Slots /\ \A j \in Slots : low <= Stored[j]
        /\ \A j \in Slots \ {First(Stored)} : Stored[k] <= Stored[j]
    BY <1>3, <2>2, Sorted
  <2>4. \A j \in Slots : Stored[j] \in Nat /\ Stored[j] # 0 /\ Stored[j] \in arrived'
    <3>1. \A j \in Slots : Stored[j] \in Nat
      BY <1>1, KeepOrder
    <3>2. \A j \in Slots : Stored[j] # 0
      BY <2>1, <2>3, <3>1
    <3> QED
      BY <1>1, <3>1, <3>2, KeepOrder
  <2>5. \A j \in Slots \ {NextSlot} : Stored[NextSlot] < Stored[j]
    BY <1>1, <1>3, <2>4, KeepOrder
  <2>6. First(Stored) = NextSlot
    BY <1>3, <2>3, <2>4, <2>5
  <2>7. r.from < r.to
    BY <2>1, <2>2, <2>5, <2>6
  <2>8. \A x \in r.from + 1 .. r.to - 1 : x \notin arrived'
    <3> SUFFICES ASSUME NEW x \in r.from + 1 .. r.to - 1,
    x \in arrived' PROVE FALSE
      OBVIOUS
    <3>1. low < x /\ x < Stored[k] /\ x \in Nat
      BY <2>1, <2>2, <2>3, <2>4
    <3>2. \A j \in Slots : Stored[j] # x
      BY <2>2, <2>3, <2>4, <3>1
    <3>3. x \in arrived
      BY <1>2, <1>3, <3>2
    <3>4. Passed(x)
      BY <1>1, <1>3, <3>2, <3>3 DEF Window
    <3>5. x < wire.seq
      BY <1>1, <3>3, KeepOrder
    <3>6. \A j \in Slots : Stored[j] > x
      BY <1>3, <2>4, <3>1, <3>4, <3>5 DEF Passed
    <3> QED
      BY <2>3, <2>4, <3>1, <3>6
  <2>9. r \notin reports
    <3>1. SUFFICES ASSUME r \in reports PROVE FALSE
      OBVIOUS
    <3>2. low > r.from
      BY <1>1, <2>3, <3>1, KeepReports
    <3> QED
      BY <2>1, <2>3, <2>4, <3>2
  <2> QED
    BY <2>1, <2>2, <2>3, <2>4, <2>5, <2>6, <2>7, <2>8, <2>9
<1>5. ReportsPassed'
  <2> SUFFICES ASSUME NEW r \in reports'
               PROVE  /\ r.from < r.to /\ r.from \in arrived' /\ r.to \in arrived'
                      /\ \A j \in Slots \ {NextSlot} : Stored[j] > r.from
    BY <1>2 DEF ReportsPassed, Passed
  <2> QED
    BY <1>1, <1>2, <1>4, KeepReports
<1>6. NoFalseLoss'
  <2> SUFFICES ASSUME NEW r \in reports'
               PROVE  /\ r.from < r.to
                      /\ \A x \in r.from + 1 .. r.to - 1 : x \notin arrived'
    BY DEF NoFalseLoss
  <2> QED
    BY <1>1, <1>2, <1>4, KeepReports
<1>7. ReportedOnce'
  BY <1>1, <1>2, <1>4 DEF ReportedOnce
<1> QED
  BY <1>5, <1>6, <1>7

(* A step that keeps no packet leaves the order of those kept alone.       *)
LEMMA OrderOnly ==
  ASSUME OInv, TInv', InStep', UNCHANGED <<m_cur_buf_ptr, histories>>,
         \A j \in Slots \ {m_cur_buf_ptr} : m_data_packets'[j] = m_data_packets[j]
  PROVE  OInv'
<1>1. SlotsKnown' /\ Ordered'
  BY DEF OInv, SlotsKnown, Ordered, Place, histories
<1>2. Window' /\ ReportsPassed'
  BY DEF OInv, Window, ReportsPassed, Passed, histories
<1>3. NoFalseLoss' /\ ReportedOnce'
  BY DEF OInv, NoFalseLoss, ReportedOnce, histories
<1> QED
  BY <1>1, <1>2, <1>3 DEF OInv

LEMMA OrderInductive ==
  ASSUME FaultKinds \subseteq {"lose", "corrupt"}
  PROVE  OInv /\ [Next]_vars => OInv'
<1> SUFFICES ASSUME OInv, [Next]_vars PROVE OInv'
  OBVIOUS
<1>0. TInv /\ TInv' /\ InStep
  BY TypeInductive DEF OInv
<1>1. CASE Send
  <2>1. /\ wire = NoPacket /\ wire'.seq = seq + 1 /\ ~wire'.again /\ seq' = seq + 1
        /\ held' = held /\ arrived' = arrived
    BY <1>1 DEF Send, NoPacket, histories
  <2>2. seq \in Nat /\ arrived \subseteq Nat
    BY <1>0, MonitorAssumption DEF TInv, TypeOK
  <2>3. InStep'
    BY <1>0, <2>1, <2>2 DEF InStep
  <2> QED
    BY <1>0, <1>1, <2>3, OrderOnly DEF Send, receiver
<1>2. CASE Lose
  <2>1. InStep'
    BY <1>0, <1>2 DEF InStep, Lose, Fault, histories, NoPacket
  <2> QED
    BY <1>0, <1>2, <2>1, OrderOnly DEF Lose, Fault, receiver
<1>3. CASE Corrupt
  <2>1. /\ wire # NoPacket /\ wire' = [wire EXCEPT !.good = FALSE]
        /\ UNCHANGED <<seq, held, arrived>>
    BY <1>3 DEF Corrupt, Fault, histories
  <2>2. wire'.seq = wire.seq /\ wire'.again = wire.again
    BY <1>0, <2>1 DEF TInv, TypeOK
  <2>3. InStep'
    BY <1>0, <2>1, <2>2 DEF InStep
  <2> QED
    BY <1>0, <1>3, <2>3, OrderOnly DEF Corrupt, Fault, receiver
<1>4. CASE Duplicate \/ Hold
  BY <1>4 DEF Duplicate, Hold, Fault
<1>5. CASE Release
  BY <1>0, <1>5 DEF Release, InStep
<1>6. ASSUME Delivered, UNCHANGED histories PROVE InStep'
  <2>1. ~wire.again /\ wire' = NoPacket /\ UNCHANGED <<seq, held, arrived>>
    BY <1>0, <1>6 DEF Delivered, InStep, histories
  <2> QED
    BY <1>0, <2>1 DEF InStep, NoPacket
<1>7. CASE BadChecksum
  <2>1. InStep'
    BY <1>6, <1>7 DEF BadChecksum
  <2> QED
    BY <1>0, <1>7, <2>1, OrderOnly DEF BadChecksum, TInv, TypeOK
<1>8. CASE ClockUnset
  <2>1. wire # NoPacket /\ InStep'
    BY <1>6, <1>8 DEF ClockUnset, Delivered
  <2> QED
    BY <1>0, <1>8, <2>1, OrderOnly, StoredType DEF ClockUnset
<1>9. CASE Toss \/ Skip
  <2>1. Keep /\ reports' = reports /\ repeated' = repeated
    BY <1>9 DEF Toss, Skip
  <2>2. m_data_packets' = Stored /\ m_cur_buf_ptr' = NextSlot
    BY <2>1 DEF Keep
  <2>3. ReportsPassed' /\ NoFalseLoss' /\ ReportedOnce'
    <3>1. ReportedOnce'
      BY <2>1 DEF OInv, ReportedOnce
    <3>2. ReportsPassed'
      BY <2>1, <2>2, KeepReports DEF ReportsPassed, Passed
    <3>3. NoFalseLoss'
      BY <2>1, KeepReports DEF NoFalseLoss
    <3> QED
      BY <3>1, <3>2, <3>3
  <2> QED
    BY <1>0, <2>1, <2>3, KeepOrder DEF OInv
<1>10. ASSUME NEW latency \in {"low", "high"}, Measure(latency) PROVE OInv'
  <2>1. Keep
    BY <1>10 DEF Measure
  <2> QED
    BY <1>0, <1>10, <2>1, KeepOrder, MeasureReports DEF OInv
<1>11. CASE NoData \/ UNCHANGED vars
  <2>1. UNCHANGED <<seq, wire, held, m_data_packets, m_cur_buf_ptr, histories>>
    BY <1>11 DEF NoData, vars, network, receiver
  <2>2. InStep'
    BY <1>0, <2>1 DEF InStep, NoPacket, histories
  <2> QED
    BY <1>0, <2>1, <2>2, OrderOnly
<1> QED
  BY <1>1, <1>2, <1>3, <1>4, <1>5, <1>7, <1>8, <1>9, <1>10, <1>11 DEF Next

LEMMA OrderInit == Init => OInv
<1> SUFFICES ASSUME Init PROVE OInv
  OBVIOUS
<1>1. TInv
  BY InitTyped
<1>2. InStep
  BY DEF Init, InStep, NoPacket
<1>3. SlotsKnown /\ Ordered /\ Window /\ ReportsPassed
  BY DEF Init, SlotsKnown, Ordered, Window, ReportsPassed
<1>4. NoFalseLoss /\ ReportedOnce
  BY DEF Init, NoFalseLoss, ReportedOnce
<1> QED
  BY <1>1, <1>2, <1>3, <1>4 DEF OInv

(* On a path that keeps the order and doubles nothing, mc_qm_recv reports  *)
(* only packets that were lost or damaged, whatever the clocks say, and    *)
(* also after its packet counter has come round.                           *)
THEOREM NoFalseAlarm ==
  ASSUME FaultKinds \subseteq {"lose", "corrupt"}
  PROVE  Spec => []NoFalseLoss
<1>1. OInv => NoFalseLoss
  BY DEF OInv
<1>2. OInv /\ [Next]_vars => OInv'
  BY OrderInductive
<1> QED
  BY <1>1, <1>2, OrderInit, PTL DEF Spec

(* ... and it reports each gap once, although both of its ends stay in the *)
(* buffers for several packets.                                            *)
THEOREM GapReportedOnce ==
  ASSUME FaultKinds \subseteq {"lose", "corrupt"}
  PROVE  Spec => []ReportedOnce
<1>1. OInv => ReportedOnce
  BY DEF OInv
<1>2. OInv /\ [Next]_vars => OInv'
  BY OrderInductive
<1> QED
  BY <1>1, <1>2, OrderInit, PTL DEF Spec
-----------------------------------------------------------------------------
(* No jitter is shown while a high latency is in the buffers *)

(* Packets under way, copies and the one held back included, and packets   *)
(* kept are no more than were sent or doubled.                             *)
UnderWay == (IF wire = NoPacket THEN 0 ELSE IF wire.again THEN 2 ELSE 1)
            + (IF held = 0 THEN 0 ELSE 1)
Counted == m_packet_ctr + UnderWay <= seq + faults

(* Nothing is measured during the warm-up. *)
WarmUpFirst ==
  m_packet_ctr < WarmUp => \A i \in Slots : latencies[i] # "high"

(* How many packets ago a buffer was written. *)
Age(i) == IF i < m_cur_buf_ptr THEN m_cur_buf_ptr - i
          ELSE m_cur_buf_ptr - i + NumBufs

(* The pause lasts until a high latency has left the buffers. *)
Pausing ==
  \A i \in Slots :
    latencies[i] = "high" => can_show_jitter_ctr + Age(i) > NumBufs

JInv == TInv /\ Counted /\ WarmUpFirst /\ Pausing

(* The counters of sender, network and receiver, when none comes round.    *)
LEMMA CountedInductive ==
  ASSUME MaxSeq + MaxFaults < CtrWord
  PROVE  /\ TInv /\ Counted /\ [Next]_vars => Counted'
         /\ TInv /\ Counted /\ wire # NoPacket => PacketCtr = m_packet_ctr + 1
<1>1. ASSUME TInv
      PROVE  /\ seq \in 0 .. MaxSeq /\ held \in 0 .. MaxSeq
             /\ faults \in 0 .. MaxFaults /\ m_packet_ctr \in 0 .. CtrWord - 1
             /\ wire \in Packets /\ wire.again \in BOOLEAN
             /\ MaxSeq \in Nat /\ MaxFaults \in Nat /\ CtrWord \in Nat
  BY <1>1, MonitorAssumption DEF TInv, TypeOK, Packets
<1>2. ASSUME TInv, Counted, wire # NoPacket PROVE PacketCtr = m_packet_ctr + 1
  <2>1. UnderWay >= 1 /\ UnderWay \in Nat
    BY <1>2 DEF UnderWay
  <2>2. m_packet_ctr + 1 < CtrWord
    BY <1>1, <1>2, <2>1 DEF Counted
  <2>3. m_packet_ctr + 1 \in 0 .. CtrWord - 1 /\ CtrWord \in Nat \ {0}
    BY <1>1, <1>2, <2>2
  <2>4. (m_packet_ctr + 1) % CtrWord = m_packet_ctr + 1
    BY <2>3
  <2> QED
    BY <2>4 DEF PacketCtr
<1>3. ASSUME TInv, Counted, [Next]_vars PROVE Counted'
  <2>1. CASE Send
    <3>1. /\ wire = NoPacket /\ wire' # NoPacket /\ ~wire'.again
          /\ seq' = seq + 1 /\ UNCHANGED <<held, faults, m_packet_ctr>>
      BY <1>1, <1>3, <2>1 DEF Send, NoPacket, receiver
    <3>2. UnderWay' = UnderWay + 1
      BY <3>1 DEF UnderWay, NoPacket
    <3> QED
      BY <1>1, <1>3, <3>1, <3>2 DEF Counted, UnderWay
  <2>2. CASE Lose
    <3>1. /\ wire # NoPacket /\ wire' = NoPacket /\ faults' = faults + 1
          /\ UNCHANGED <<seq, held, m_packet_ctr>>
      BY <2>2 DEF Lose, Fault, receiver
    <3>2. UnderWay' <= UnderWay
      BY <3>1 DEF UnderWay, NoPacket
    <3> QED
      BY <1>1, <1>3, <3>1, <3>2 DEF Counted, UnderWay
  <2>3. CASE Corrupt
    <3>1. /\ wire # NoPacket /\ wire' = [wire EXCEPT !.good = FALSE]
          /\ faults' = faults + 1 /\ UNCHANGED <<seq, held, m_packet_ctr>>
      BY <2>3 DEF Corrupt, Fault, receiver
    <3>2. wire'.again = wire.again
      BY <1>1, <1>3, <3>1 DEF Packets
    <3>3. UnderWay' <= UnderWay
      BY <3>1, <3>2 DEF UnderWay
    <3> QED
      BY <1>1, <1>3, <3>1, <3>3 DEF Counted, UnderWay
  <2>4. CASE Duplicate
    <3>1. /\ wire # NoPacket /\ faults' = faults + 1
          /\ UNCHANGED <<seq, held, m_packet_ctr>>
      BY <2>4 DEF Duplicate, Fault, receiver
    <3>2. UnderWay' <= UnderWay + 1
      BY <3>1 DEF UnderWay
    <3> QED
      BY <1>1, <1>3, <3>1, <3>2 DEF Counted, UnderWay
  <2>5. CASE Hold
    <3>1. /\ wire # NoPacket /\ wire' = NoPacket /\ held = 0
          /\ faults' = faults + 1 /\ UNCHANGED <<seq, m_packet_ctr>>
      BY <2>5 DEF Hold, Fault, receiver
    <3>2. UnderWay' <= UnderWay
      BY <3>1 DEF UnderWay, NoPacket
    <3> QED
      BY <1>1, <1>3, <3>1, <3>2 DEF Counted, UnderWay
  <2>6. CASE Release
    <3>1. /\ wire = NoPacket /\ held # 0 /\ held' = 0 /\ ~wire'.again
          /\ UNCHANGED <<seq, faults, m_packet_ctr>>
      BY <2>6 DEF Release, NoPacket, receiver
    <3>2. UnderWay' <= UnderWay
      BY <3>1 DEF UnderWay
    <3> QED
      BY <1>1, <1>3, <3>1, <3>2 DEF Counted, UnderWay
  <2>7. ASSUME Delivered, m_packet_ctr' \in {m_packet_ctr, PacketCtr}
        PROVE  Counted'
    <3>1. /\ wire # NoPacket /\ UNCHANGED <<seq, held, faults>>
          /\ wire' = IF wire.again THEN [wire EXCEPT !.again = FALSE] ELSE NoPacket
      BY <2>7 DEF Delivered
    <3>2. UnderWay' <= UnderWay - 1
      <4>1. CASE wire.again
        <5>1. ~wire'.again
          BY <1>1, <1>3, <3>1, <4>1 DEF Packets
        <5> QED
          BY <3>1, <4>1, <5>1 DEF UnderWay
      <4>2. CASE ~wire.again
        BY <3>1, <4>2 DEF UnderWay, NoPacket
      <4> QED
        BY <4>1, <4>2
    <3>3. m_packet_ctr' <= m_packet_ctr + 1 /\ m_packet_ctr' \in Nat
      BY <1>1, <1>2, <1>3, <2>7, <3>1
    <3> QED
      BY <1>1, <1>3, <3>1, <3>2, <3>3 DEF Counted, UnderWay
  <2>8. CASE BadChecksum \/ Toss \/ ClockUnset \/ Skip
             \/ \E latency \in {"low", "high"} : Measure(latency)
    <3>1. Delivered /\ m_packet_ctr' \in {m_packet_ctr, PacketCtr}
      BY <2>8 DEF BadChecksum, Toss, ClockUnset, Skip, Measure, Keep
    <3> QED
      BY <2>7, <3>1
  <2>9. CASE NoData \/ UNCHANGED vars
    BY <1>3, <2>9
    DEF NoData, vars, network, receiver, Counted, UnderWay, NoPacket
  <2> QED
    BY <1>3, <2>1, <2>2, <2>3, <2>4, <2>5, <2>6, <2>8, <2>9 DEF Next
<1> QED
  BY <1>2, <1>3

(* A packet is measured: its buffer is the youngest, all others age.       *)
LEMMA MeasurePauses ==
  ASSUME TInv, WarmUpFirst, Pausing, NEW latency \in {"low", "high"},
         Measure(latency)
  PROVE  WarmUpFirst' /\ Pausing'
<1>1. /\ latencies' = [latencies EXCEPT ![m_cur_buf_ptr] = latency]
      /\ m_cur_buf_ptr' = NextSlot /\ m_packet_ctr' = PacketCtr
      /\ PacketCtr >= WarmUp
      /\ can_show_jitter_ctr' =
           IF latency = "high" THEN NumBufs
           ELSE IF can_show_jitter_ctr > 0 THEN can_show_jitter_ctr - 1 ELSE 0
  BY DEF Measure, Keep, JitterPause
<1>2. /\ m_cur_buf_ptr \in Slots /\ NumBufs \in Nat /\ NumBufs > 1
      /\ can_show_jitter_ctr \in 0 .. NumBufs /\ WarmUp \in Nat
      /\ PacketCtr \in Int /\ CtrWord \in Nat
      /\ latencies \in [Slots -> {"none", "low", "high"}]
  BY MonitorAssumption DEF TInv, TypeOK, PacketCtr
<1>3. WarmUpFirst'
  BY <1>1, <1>2 DEF WarmUpFirst
<1>4. Pausing'
  <2> SUFFICES ASSUME NEW i \in Slots, latencies'[i] = "high"
               PROVE  can_show_jitter_ctr' + Age(i)' > NumBufs
    BY DEF Pausing
  <2>1. Age(i)' = IF i < NextSlot THEN NextSlot - i ELSE NextSlot - i + NumBufs
    BY <1>1 DEF Age
  <2>2. Age(i)' >= 1
    BY <1>2, <2>1 DEF NextSlot
  <2>3. CASE latency = "high"
    BY <1>1, <1>2, <2>1, <2>2, <2>3 DEF NextSlot
  <2>4. CASE latency = "low"
    <3>1. i # m_cur_buf_ptr /\ latencies[i] = "high"
      BY <1>1, <1>2, <2>4
    <3>2. can_show_jitter_ctr + Age(i) > NumBufs
      BY <3>1 DEF Pausing
    <3>3. Age(i)' = Age(i) + 1
      BY <1>2, <2>1, <3>1 DEF Age, NextSlot
    <3>4. Age(i) \in Nat /\ Age(i) <= NumBufs
      BY <1>2 DEF Age
    <3>5. can_show_jitter_ctr' >= can_show_jitter_ctr - 1
          /\ can_show_jitter_ctr' \in Nat
      BY <1>1, <1>2, <2>4
    <3> QED
      BY <1>2, <3>2, <3>3, <3>4, <3>5
  <2> QED
    BY <2>3, <2>4
<1> QED
  BY <1>3, <1>4

LEMMA JitterInductive ==
  ASSUME "skip" \notin Timings, MaxSeq + MaxFaults < CtrWord
  PROVE  JInv /\ [Next]_vars => JInv'
<1> SUFFICES ASSUME JInv, [Next]_vars PROVE JInv'
  OBVIOUS
<1>0. /\ TInv /\ TInv' /\ Counted /\ Counted' /\ WarmUpFirst /\ Pausing
      /\ wire # NoPacket => PacketCtr = m_packet_ctr + 1
  BY TypeInductive, CountedInductive DEF JInv
<1>1. ASSUME UNCHANGED <<latencies, m_cur_buf_ptr, can_show_jitter_ctr>>,
             m_packet_ctr' = m_packet_ctr \/ m_packet_ctr' >= WarmUp
      PROVE  JInv'
  <2>1. WarmUpFirst'
    <3>1. m_packet_ctr' \in Nat /\ WarmUp \in Nat
      BY <1>0, MonitorAssumption DEF TInv, TypeOK
    <3> QED
      BY <1>0, <1>1, <3>1 DEF WarmUpFirst
  <2>2. Pausing'
    BY <1>0, <1>1 DEF Pausing, Age
  <2> QED
    BY <1>0, <2>1, <2>2 DEF JInv
<1>2. CASE Send \/ Lose \/ Corrupt \/ Duplicate \/ Hold \/ Release
  BY <1>1, <1>2
  DEF Send, Lose, Corrupt, Duplicate, Hold, Fault, Release, receiver
<1>3. CASE BadChecksum \/ NoData
  BY <1>1, <1>3 DEF BadChecksum, NoData
<1>4. CASE ClockUnset
  BY <1>1, <1>4 DEF ClockUnset
<1>5. CASE Toss
  <2>1. Keep /\ wire # NoPacket /\ PacketCtr < WarmUp
    BY <1>5 DEF Toss, Keep, Delivered
  <2>2. latencies' = latencies
    BY <1>5 DEF Toss
  <2>3. \A i \in Slots : latencies[i] # "high"
    <3>1. m_packet_ctr < WarmUp
      BY <1>0, <2>1, MonitorAssumption DEF TInv, TypeOK
    <3> QED
      BY <1>0, <3>1 DEF WarmUpFirst
  <2> QED
    BY <1>0, <2>2, <2>3 DEF JInv, WarmUpFirst, Pausing
<1>6. CASE Skip
  BY <1>6 DEF Skip
<1>7. ASSUME NEW latency \in {"low", "high"}, Measure(latency) PROVE JInv'
  BY <1>0, <1>7, MeasurePauses DEF JInv
<1>8. CASE UNCHANGED vars
  BY <1>1, <1>8 DEF vars, receiver
<1> QED
  BY <1>2, <1>3, <1>4, <1>5, <1>6, <1>7, <1>8 DEF Next

(* As long as no packet is skipped for its time stamp and the packet       *)
(* counter does not come round, mc_qm_recv shows no jitter while a high    *)
(* latency is left in the other buffers: NUM_BUFS packets are just enough, *)
(* with the first of them that no longer counts.                           *)
THEOREM JitterAlwaysTrusted ==
  ASSUME "skip" \notin Timings, MaxSeq + MaxFaults < CtrWord
  PROVE  Spec => []JitterTrusted
<1>1. Init => JInv
  <2> SUFFICES ASSUME Init PROVE JInv
    OBVIOUS
  <2>1. TInv
    BY InitTyped
  <2>2. Counted
    BY MonitorAssumption DEF Init, Counted, UnderWay
  <2>3. WarmUpFirst /\ Pausing
    BY DEF Init, WarmUpFirst, Pausing
  <2> QED
    BY <2>1, <2>2, <2>3 DEF JInv
<1>2. JInv => JitterTrusted
  <2> SUFFICES ASSUME JInv, can_show_jitter_ctr <= 1,
                      NEW i \in Slots, i # m_cur_buf_ptr, latencies[i] = "high"
               PROVE  FALSE
    BY DEF JitterTrusted
  <2>1. /\ m_cur_buf_ptr \in Slots /\ NumBufs \in Nat
        /\ can_show_jitter_ctr \in Nat
    BY MonitorAssumption DEF JInv, TInv, TypeOK
  <2>2. Age(i) <= NumBufs - 1 /\ Age(i) \in Nat
    BY <2>1 DEF Age
  <2>3. can_show_jitter_ctr + Age(i) > NumBufs
    BY DEF JInv, Pausing
  <2> QED
    BY <2>1, <2>2, <2>3
<1>3. JInv /\ [Next]_vars => JInv'
  BY JitterInductive
<1> QED
  BY <1>1, <1>2, <1>3, PTL DEF Spec
=============================================================================
