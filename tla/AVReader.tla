------------------------------ MODULE AVReader ------------------------------
(***************************************************************************)
(* The position side of the MPEG-TS parser (tsDemuxer.cpp): how AVContext  *)
(* finds the packet size (configure_ts), finds the next sync byte          *)
(* (TSResync) and steps from packet to packet (GoNext), reading through    *)
(* the ring buffer of module CircularBuffer while the socket thread fills  *)
(* it.  Every step that reads is one iteration of Demux::ReadAV's loop.    *)
(*                                                                         *)
(* A byte is its stream offset; syncBytes is the set of offsets that hold  *)
(* 0x47.                                                                   *)
(***************************************************************************)
EXTENDS CircularBuffer, Sequences, FiniteSets

CONSTANTS
  Fluts,       \* the packet sizes tried by configure_ts (188, 192, 204, 208)
  ProbeSize,   \* AV_CONTEXT_PACKETSIZE
  MinScore, MaxScore,    \* TS_CHECK_MIN_SCORE, TS_CHECK_MAX_SCORE
  MaxResync,   \* MAX_RESYNC_SIZE
  Streams      \* the streams received: [sync, packets |-> sets of offsets]

ASSUME FlutsAssumption ==
  /\ Fluts \in Seq(ReadSizes) /\ Len(Fluts) > 0
  /\ ProbeSize \in ReadSizes
  /\ \A t \in 1 .. Len(Fluts) : Fluts[t] <= ProbeSize
  /\ MinScore \in Nat /\ MaxScore \in Nat /\ MaxResync \in Nat

VARIABLES
  pc,           \* what AVContext is doing
  av_pos, av_pkt_size,
  cfg,          \* the locals of configure_ts
  stream,       \* member of Streams
  lastPacket    \* history: stream offset of the last packet parsed, or -1

avvars == <<pc, av_pos, av_pkt_size, cfg, stream, lastPacket>>
allvars == <<vars, avvars>>

nb == Len(Fluts)
NoHits == [t \in 1 .. nb |-> 0]
StartConfigure(pos) ==
  [pos |-> pos, i |-> 0, t |-> 1, npos |-> 0, do_retry |-> 0,
   score |-> MinScore, hits |-> NoHits]

AVInit ==
  /\ Init
  /\ pc = "probe"
  /\ av_pos = 0 /\ av_pkt_size = 0
  /\ cfg = StartConfigure(0)
  /\ stream \in Streams
  /\ lastPacket = -1

IsSync(byte) == byte \in stream.sync
-----------------------------------------------------------------------------
(* The ReadAV call AVContext is about to make. *)
AskedPos == CASE pc = "probe"  -> cfg.pos
              [] pc = "score"  -> cfg.npos
              [] pc = "resync" -> av_pos
AskedSize == IF pc = "resync" THEN av_pkt_size ELSE ProbeSize

AVAsk ==
  /\ pc \in {"probe", "score", "resync"}
  /\ AskedPos <= MaxPos
  /\ RequestRead(AskedPos, AskedSize)
  /\ UNCHANGED avvars

(* configure_ts gives up on cfg.pos, or altogether: Demux::Action calls    *)
(* TSResync again and configure_ts starts over at av_pos.                  *)
ShiftProbe(score) ==
  /\ cfg' = IF cfg.i + 1 < MaxResync
            THEN [StartConfigure(cfg.pos + 1) EXCEPT !.i = cfg.i + 1, !.score = score]
            ELSE StartConfigure(av_pos)
  /\ pc' = "probe"
  /\ UNCHANGED <<av_pos, av_pkt_size, stream, lastPacket>>

(* The first byte at cfg.pos: a candidate, or shift by one. *)
Probe ==
  /\ pc = "probe"
  /\ ReadData
  /\ IF IsSync(delivered'.bytes[0])
     THEN /\ pc' = "score"
          /\ cfg' = [cfg EXCEPT !.t = 1, !.npos = cfg.pos + Fluts[1],
                                !.do_retry = cfg.score - 1]
          /\ UNCHANGED <<av_pos, av_pkt_size, stream, lastPacket>>
     ELSE ShiftProbe(cfg.score)

(* All packet sizes tried: exactly one must have reached the score. *)
Decide(hits) ==
  LET eligible == {t \in 1 .. nb : hits[t] = cfg.score} IN
  IF Cardinality(eligible) = 1
  THEN /\ av_pkt_size' = Fluts[CHOOSE t \in eligible : TRUE]
       /\ av_pos' = cfg.pos
       /\ pc' = "resync"
       /\ cfg' = StartConfigure(0)
       /\ UNCHANGED <<stream, lastPacket>>
  ELSE IF Cardinality(eligible) = 0 THEN ShiftProbe(cfg.score)
  ELSE IF cfg.score + 1 > MaxScore
  THEN /\ pc' = "probe"
       /\ cfg' = StartConfigure(av_pos)
       /\ UNCHANGED <<av_pos, av_pkt_size, stream, lastPacket>>
  ELSE ShiftProbe(cfg.score + 1)

(* One more packet of size Fluts[cfg.t] ahead of cfg.pos. *)
Score ==
  LET t    == cfg.t
      hit  == IsSync(delivered'.bytes[0])
      hits == IF hit THEN [cfg.hits EXCEPT ![t] = @ + 1] ELSE cfg.hits
  IN
  /\ pc = "score"
  /\ ReadData
  /\ IF hit /\ cfg.do_retry # 0
     THEN /\ cfg' = [cfg EXCEPT !.hits = hits, !.npos = @ + Fluts[t],
                                !.do_retry = @ - 1]
          /\ UNCHANGED <<pc, av_pos, av_pkt_size, stream, lastPacket>>
     ELSE IF t < nb
     THEN /\ cfg' = [cfg EXCEPT !.hits = hits, !.t = t + 1,
                                !.npos = cfg.pos + Fluts[t + 1],
                                !.do_retry = cfg.score - 1]
          /\ UNCHANGED <<pc, av_pos, av_pkt_size, stream, lastPacket>>
     ELSE Decide(hits)

(* A slip: av_pos moves on before the byte is tested, not after. *)
MutResyncMovesFirst ==
  /\ pc = "resync"
  /\ ReadData
  /\ av_pos' = av_pos + 1
  /\ IF IsSync(delivered'.bytes[0])
     THEN pc' = "packet" /\ lastPacket' = delivered'.bytes[0]
     ELSE UNCHANGED <<pc, lastPacket>>
  /\ UNCHANGED <<av_pkt_size, cfg, stream>>

(* TSResync: the packet is copied to av_buf if it starts with 0x47, else   *)
(* av_pos moves one byte on.                                               *)
Resync ==
  /\ pc = "resync"
  /\ ReadData
  /\ IF IsSync(delivered'.bytes[0])
     THEN pc' = "packet" /\ lastPacket' = delivered'.bytes[0] /\ UNCHANGED av_pos
     ELSE av_pos' = av_pos + 1 /\ UNCHANGED <<pc, lastPacket>>
  /\ UNCHANGED <<av_pkt_size, cfg, stream>>

(* A slip in GoNext: the step is the probe size, not the packet size. *)
MutGoNextProbeSize ==
  /\ pc = "packet"
  /\ av_pos' = av_pos + ProbeSize
  /\ pc' = "resync"
  /\ UNCHANGED <<vars, av_pkt_size, cfg, stream, lastPacket>>

GoNext ==
  /\ pc = "packet"
  /\ av_pos' = av_pos + av_pkt_size
  /\ pc' = "resync"
  /\ UNCHANGED <<vars, av_pkt_size, cfg, stream, lastPacket>>

(* ReadAV still waiting, or given -1: AVCONTEXT_IO_ERROR ends the session. *)
AVWait == ReadNoData /\ UNCHANGED avvars
AVBroken ==
  /\ ReadBroken
  /\ pc' = "end"
  /\ UNCHANGED <<av_pos, av_pkt_size, cfg, stream, lastPacket>>

Receive == Write /\ UNCHANGED avvars

AVNext ==
  \/ Receive \/ AVAsk \/ AVWait \/ AVBroken
  \/ Probe \/ Score \/ Resync \/ GoNext

AVSpec == AVInit /\ [][AVNext]_allvars
-----------------------------------------------------------------------------
(* Properties *)

(* The parser keeps to what the ring buffer requires of its client: every  *)
(* behaviour of parser, buffer and socket thread is one of the buffer's    *)
(* specification, so everything shown of the buffer holds in the program.  *)
KeepsContract == Spec

(* Each packet handed to ProcessTSPacket starts at the stream offset that  *)
(* av_pos names while no sync byte is damaged: the ring's bookkeeping by   *)
(* differences is exact.  After a damaged one TSResync goes on by one      *)
(* byte, while the ring is a packet ahead of the position before: what it  *)
(* hands out then begins a packet less one byte too late, and never later. *)
Undamaged == stream.packets \subseteq stream.sync

PacketAtPosition ==
  (pc = "packet" /\ ~lapped) =>
    /\ lastPacket \in {av_pos, av_pos + av_pkt_size - 1}
    /\ Undamaged => lastPacket = av_pos

(* What TSResync passes over from one packet parsed to the next: nothing   *)
(* intact in an undamaged stream; otherwise one intact packet at the most, *)
(* or two when it had taken a byte inside a packet for a sync byte.        *)
PassedOver ==
  {s \in stream.packets \cap stream.sync : lastPacket < s /\ s < lastPacket'}

ResyncKeepsUp ==
  [][(pc = "resync" /\ pc' = "packet" /\ lastPacket >= 0 /\ ~lapped') =>
       /\ Cardinality(PassedOver) <= IF lastPacket \in stream.packets THEN 1 ELSE 2
       /\ Undamaged => PassedOver = {}]_allvars
=============================================================================
