--------------------------- MODULE QualityMonitor ---------------------------
(***************************************************************************)
(* The multicast quality monitor: mc_qm_send numbers its packets, and      *)
(* mc_qm_recv keeps the last NUM_BUFS of them in the order of arrival,     *)
(* sorts a copy by number after each packet, and reports a loss when the   *)
(* two smallest numbers are not consecutive.  Between them is a network    *)
(* that loses, corrupts, duplicates and reorders.                          *)
(*                                                                         *)
(* A packet is its number.  What the clocks say of it is one of Timings:   *)
(* "low" or "high" latency, "skip" (time stamp in the future, or latency   *)
(* above ten seconds) or "unset" (a clock that is not set yet).            *)
(***************************************************************************)
EXTENDS Integers

CONSTANTS
  NumBufs,      \* NUM_BUFS (5)
  WarmUp,       \* packets up to the start of monitoring (1000)
  CtrWord,      \* m_packet_ctr is modulo CtrWord (2^32)
  Timings,      \* what the clocks may say of a packet
  FaultKinds,   \* what the network may do to a packet
  MaxSeq,       \* bound: packets sent
  MaxFaults     \* bound: faults of the network

ASSUME MonitorAssumption ==
  /\ NumBufs \in Nat /\ NumBufs > 1
  /\ WarmUp \in Nat /\ WarmUp > NumBufs
  /\ CtrWord \in Nat /\ CtrWord > WarmUp
  /\ Timings \subseteq {"low", "high", "skip", "unset"}
  /\ MaxSeq \in Nat /\ MaxFaults \in Nat

Slots == 0 .. NumBufs - 1
Seqs == 1 .. MaxSeq

VARIABLES
  seq,                   \* mc_qm_send: data_packet.seq
  wire, held, faults,    \* network: packet under way, packet held back
  m_data_packets,        \* mc_qm_recv: the number in each buffer
  latencies,             \* ... its latency, "none" before the first
  m_cur_buf_ptr, m_packet_ctr, can_show_jitter_ctr, no_data,
  reports,               \* history: losses reported
  repeated,              \* history: a loss was reported twice
  arrived,               \* history: numbers of the packets kept
  base                   \* history: smallest number when monitoring began

network == <<wire, held, faults>>
histories == <<reports, repeated, arrived, base>>
receiver == <<m_data_packets, latencies, m_cur_buf_ptr, m_packet_ctr,
              can_show_jitter_ctr, no_data>>
vars == <<seq, network, receiver, histories>>

NoPacket == [seq |-> 0, good |-> TRUE, again |-> FALSE]

Init ==
  /\ seq = 0
  /\ wire = NoPacket /\ held = 0 /\ faults = 0
  /\ m_data_packets = [i \in Slots |-> 0]
  /\ latencies = [i \in Slots |-> "none"]
  /\ m_cur_buf_ptr = 0 /\ m_packet_ctr = 0
  /\ can_show_jitter_ctr = 0 /\ no_data = FALSE
  /\ reports = {} /\ repeated = FALSE
  /\ arrived = {} /\ base = 0
-----------------------------------------------------------------------------
(* The sender and the network *)

Send ==
  /\ wire = NoPacket
  /\ seq < MaxSeq
  /\ seq' = seq + 1
  /\ wire' = [NoPacket EXCEPT !.seq = seq + 1]
  /\ UNCHANGED <<held, faults, receiver, histories>>

Fault(kind) ==
  /\ kind \in FaultKinds
  /\ wire # NoPacket
  /\ faults < MaxFaults /\ faults' = faults + 1
  /\ UNCHANGED <<seq, receiver, histories>>

Lose == Fault("lose") /\ wire' = NoPacket /\ UNCHANGED held

Corrupt ==
  /\ Fault("corrupt")
  /\ wire' = [wire EXCEPT !.good = FALSE]
  /\ UNCHANGED held

Duplicate ==
  /\ Fault("duplicate")
  /\ wire' = [wire EXCEPT !.again = TRUE]
  /\ UNCHANGED held

(* One packet is held back while others pass. *)
Hold ==
  /\ Fault("reorder")
  /\ held = 0
  /\ held' = wire.seq
  /\ wire' = NoPacket

Release ==
  /\ held # 0 /\ wire = NoPacket
  /\ wire' = [NoPacket EXCEPT !.seq = held]
  /\ held' = 0
  /\ UNCHANGED <<seq, faults, receiver, histories>>

Delivered == /\ wire # NoPacket
             /\ wire' = IF wire.again THEN [wire EXCEPT !.again = FALSE] ELSE NoPacket
             /\ UNCHANGED <<seq, held, faults>>
-----------------------------------------------------------------------------
(* One turn of mc_qm_recv's loop *)

NextSlot == IF m_cur_buf_ptr + 1 >= NumBufs THEN 0 ELSE m_cur_buf_ptr + 1

(* The packet goes to the current buffer before anything is checked. *)
Stored == [m_data_packets EXCEPT ![m_cur_buf_ptr] = wire.seq]

PacketCtr == (m_packet_ctr + 1) % CtrWord

(* Bad checksum: whatever arrived stays in the current buffer, which the   *)
(* next packet overwrites.                                                 *)
BadChecksum ==
  /\ Delivered /\ ~wire.good
  /\ \E garbage \in {0} \cup Seqs :
       m_data_packets' = [m_data_packets EXCEPT ![m_cur_buf_ptr] = garbage]
  /\ UNCHANGED <<latencies, m_cur_buf_ptr, m_packet_ctr, can_show_jitter_ctr,
                 no_data, histories>>

(* A good packet is kept: the label skip, after the measurements or not. *)
Keep ==
  /\ Delivered /\ wire.good
  /\ no_data' = FALSE
  /\ m_packet_ctr' = PacketCtr
  /\ m_data_packets' = Stored
  /\ m_cur_buf_ptr' = NextSlot
  /\ arrived' = arrived \cup {wire.seq}

(* "toss out the first 1000 packets" *)
Toss ==
  /\ Keep
  /\ PacketCtr < WarmUp
  /\ base' = 0
  /\ UNCHANGED <<latencies, can_show_jitter_ctr, reports, repeated>>

(* A clock is not set: the packet is forgotten, the buffer used again. *)
ClockUnset ==
  /\ Delivered /\ wire.good
  /\ "unset" \in Timings
  /\ PacketCtr >= WarmUp
  /\ no_data' = FALSE
  /\ m_packet_ctr' = PacketCtr
  /\ m_data_packets' = Stored
  /\ UNCHANGED <<latencies, m_cur_buf_ptr, can_show_jitter_ctr, histories>>

(* A time stamp in the future or too far in the past: kept, not measured. *)
Skip ==
  /\ Keep
  /\ "skip" \in Timings
  /\ PacketCtr >= WarmUp
  /\ UNCHANGED <<latencies, can_show_jitter_ctr, reports, repeated, base>>

(* SortBuffers(): the buffer that sorts first, and the second number. *)
First(buf) == CHOOSE i \in Slots : \A j \in Slots : buf[i] <= buf[j]
Second(buf) ==
  LET rest == Slots \ {First(buf)} IN
  buf[CHOOSE i \in rest : \A j \in rest : buf[i] <= buf[j]]

(* A slip: only gaps of more than one packet are seen. *)
MutReportLarge(buf) ==
  LET low == buf[First(buf)]
      seq_delta == Second(buf) - low
  IN IF low # 0 /\ seq_delta > 2
     THEN {[from |-> low, to |-> Second(buf), lost |-> seq_delta]} ELSE {}

(* A slip: the newest packet is compared, not the oldest. *)
MutReportUnsorted(buf) ==
  LET seq_delta == buf[m_cur_buf_ptr] - buf[0]
  IN IF buf[0] # 0 /\ seq_delta # 1
     THEN {[from |-> buf[0], to |-> buf[m_cur_buf_ptr], lost |-> seq_delta]} ELSE {}

(* A slip: all neighbours are compared, not just the two smallest. *)
MutReportAll(buf) ==
  {r \in [from : Seqs, to : Seqs, lost : 2 .. MaxSeq] :
     /\ r.lost = r.to - r.from
     /\ \E i, j \in Slots : buf[i] = r.from /\ buf[j] = r.to
     /\ \A i \in Slots : buf[i] <= r.from \/ r.to <= buf[i]}

(* The loss reported, if any. *)
Report(buf) ==
  LET low == buf[First(buf)]
      seq_delta == Second(buf) - low
  IN IF low # 0 /\ seq_delta # 1
     THEN {[from |-> low, to |-> Second(buf), lost |-> seq_delta]} ELSE {}

(* A slip: one packet too few without jitter. *)
MutJitterPause == NumBufs - 1

JitterPause == NumBufs

(* Latency, jitter and loss are measured. *)
Measure(latency) ==
  /\ Keep
  /\ latency \in Timings
  /\ PacketCtr >= WarmUp
  /\ latencies' = [latencies EXCEPT ![m_cur_buf_ptr] = latency]
  /\ can_show_jitter_ctr' = IF latency = "high" THEN JitterPause
                            ELSE IF can_show_jitter_ctr > 0 THEN can_show_jitter_ctr - 1
                            ELSE 0
  /\ reports' = reports \cup Report(Stored)
  /\ repeated' = (repeated \/ Report(Stored) \cap reports # {})
  /\ base' = IF base = 0 THEN Stored[First(Stored)] ELSE base

(* Nothing for data_timeout_ms. *)
NoData ==
  /\ wire = NoPacket
  /\ ~no_data
  /\ no_data' = TRUE
  /\ UNCHANGED <<seq, network, m_data_packets, latencies, m_cur_buf_ptr,
                 m_packet_ctr, can_show_jitter_ctr, histories>>

Next ==
  \/ Send \/ Lose \/ Corrupt \/ Duplicate \/ Hold \/ Release
  \/ BadChecksum \/ Toss \/ ClockUnset \/ Skip
  \/ \E latency \in {"low", "high"} : Measure(latency)
  \/ NoData

Spec == Init /\ [][Next]_vars
-----------------------------------------------------------------------------
(* Properties *)

TypeOK ==
  /\ seq \in 0 .. MaxSeq /\ held \in 0 .. MaxSeq /\ faults \in 0 .. MaxFaults
  /\ wire \in [seq : 0 .. MaxSeq, good : BOOLEAN, again : BOOLEAN]
  /\ m_data_packets \in [Slots -> 0 .. MaxSeq]
  /\ latencies \in [Slots -> {"none", "low", "high"}]
  /\ m_cur_buf_ptr \in Slots
  /\ m_packet_ctr \in 0 .. CtrWord - 1
  /\ can_show_jitter_ctr \in 0 .. NumBufs
  /\ no_data \in BOOLEAN /\ repeated \in BOOLEAN
  /\ reports \subseteq [from : Seqs, to : Seqs, lost : Int]
  /\ arrived \subseteq Seqs /\ base \in 0 .. MaxSeq

Covered(x) == \E r \in reports : r.from < x /\ x < r.to

(* All buffers but the one to be used next have moved on past x. *)
Passed(x) == \A j \in Slots \ {m_cur_buf_ptr} : m_data_packets[j] > x

(* No loss escapes: a packet that has not arrived although all buffers but *)
(* the next one have moved past it lies within a reported gap, whatever    *)
(* else is lost, corrupted, duplicated or reordered around it.             *)
LossCovered ==
  \A x \in Seqs : (0 < base /\ base < x /\ x \notin arrived /\ Passed(x)) => Covered(x)

(* No false alarm: none of the packets in a reported gap has arrived. *)
NoFalseLoss ==
  \A r \in reports : r.from < r.to /\ \A x \in r.from + 1 .. r.to - 1 : x \notin arrived

(* A gap is reported once, although it stays in the buffers for a while. *)
ReportedOnce == ~repeated

(* "jitter calculation will always be wrong after a high latency event":   *)
(* when jitter may be shown for the next packet, no high latency is left   *)
(* in the other buffers.                                                   *)
JitterTrusted ==
  can_show_jitter_ctr <= 1 =>
    \A i \in Slots \ {m_cur_buf_ptr} : latencies[i] # "high"
=============================================================================
