----------------------------- MODULE TsProgram -----------------------------
(***************************************************************************)
(* The packet side of the MPEG-TS parser (tsDemuxer.cpp) and what the main *)
(* loop of Demux does with each packet: PID registration from PAT and PMT, *)
(* the continuity counter, waiting for a unit start, assembly of table     *)
(* sections, and replacement of the elementary streams when a table        *)
(* version changes.                                                        *)
(*                                                                         *)
(* The environment is a multiplexer that numbers the packets of each PID   *)
(* correctly, and a network that loses, corrupts and duplicates packets.   *)
(* The payload is abstracted to the version of the table it belongs to.    *)
(***************************************************************************)
EXTENDS Integers

CONSTANTS
  Pes,          \* PIDs of elementary streams
  CC,           \* continuity counters are modulo CC (16)
  PmtPackets,   \* packets of a PMT section
  TableMax,     \* TABLE_BUFFER_SIZE in packets
  MaxVersion,   \* bound: changes of version, of PAT and PMT together
  MaxFaults     \* bound: packets lost, corrupted or duplicated

Pat == "pat"
Pmt == "pmt"
Psi == {Pat, Pmt}
Pids == Psi \cup Pes

Unset == 255           \* continuity 0xff, version 0xff

(* A counter has four bits, a version five: neither is ever Unset, and the *)
(* versions do not come round.                                             *)
ASSUME StreamAssumption ==
  /\ CC \in Nat /\ CC > 1 /\ CC <= Unset
  /\ PmtPackets \in Nat \ {0} /\ TableMax \in Nat /\ PmtPackets <= TableMax
  /\ MaxVersion \in Nat /\ MaxVersion < Unset /\ MaxFaults \in Nat
  /\ Psi \cap Pes = {}

VARIABLES
  packets,       \* AVContext::packets
  streams,       \* history: stream objects created so far
  outcome,       \* what ProcessTSPacket or ProcessTSPayload returned
  wire,          \* the packet under way, or NoPacket
  cc,            \* multiplexer: counter of the last packet of each PID
  left,          \* multiplexer: packets left of the PMT section
  version,       \* multiplexer: current version of each table
  faults,        \* network: faults so far
  lost,          \* history: counter steps missed since the last packet taken
  clean,         \* history: unit start seen and no fault since
  joined         \* history: gaps, modulo CC, across which a unit went on

receiver == <<packets, streams>>
sender == <<cc, left, version>>
ghosts == <<lost, clean, joined>>
vars == <<receiver, outcome, wire, sender, faults, ghosts>>

NoPacket == [pid |-> "none"]
SectionPackets(pid) == IF pid = Pmt THEN PmtPackets ELSE 1

(* Packet::Packet() *)
NewPacket(type) ==
  [type |-> type, continuity |-> Unset, wait |-> TRUE,
   streaming |-> FALSE, stream |-> 0, table |-> FALSE,
   offset |-> 0, len |-> 0, filled |-> Unset, version |-> Unset]
Unregistered == NewPacket("none")

(* A slip: the PID is reset but does not wait for a unit start. *)
MutResetNoWait(k) == [k EXCEPT !.continuity = Unset, !.offset = 0, !.len = 0]

(* Packet::Reset() *)
ResetPacket(k) == [k EXCEPT !.continuity = Unset, !.wait = TRUE,
                            !.offset = 0, !.len = 0]

Init ==
  /\ packets = [p \in Pids |-> Unregistered]
  /\ streams = 0
  /\ outcome = "none" /\ wire = NoPacket
  /\ cc = [p \in Pids |-> 0]
  /\ left = 0
  /\ version = [p \in Psi |-> 0]
  /\ faults = 0
  /\ lost = [p \in Pids |-> 0]
  /\ clean = [p \in Pids |-> FALSE]
  /\ joined = {}
-----------------------------------------------------------------------------
(* The multiplexer and the network *)

(* The counter moves on by step: 1 with payload, 0 with an adaptation      *)
(* field only, 2 for a jump announced by the discontinuity_indicator.      *)
Put(pid, start, step, ver) ==
  /\ wire = NoPacket
  /\ outcome # "ts_error" /\ outcome' = "none"
  /\ cc' = [cc EXCEPT ![pid] = (@ + step) % CC]
  /\ wire' = [pid |-> pid, start |-> start, step |-> step, cc |-> cc'[pid],
              version |-> ver, error |-> FALSE, copy |-> "none"]
  /\ UNCHANGED <<receiver, faults, ghosts>>

SendPat == Put(Pat, TRUE, 1, version[Pat]) /\ UNCHANGED <<left, version>>

(* PMT sections are sent packet by packet; a new version starts with one. *)
SendPmt ==
  /\ Put(Pmt, left = 0, 1, version[Pmt])
  /\ left' = IF left = 0 THEN PmtPackets - 1 ELSE left - 1
  /\ UNCHANGED version

(* A unit starts. *)
SendStart(pid) == Put(pid, TRUE, 1, 0) /\ UNCHANGED <<left, version>>

(* A unit goes on, with a packet of any of the three kinds. *)
SendMore(pid) ==
  /\ \E step \in 0 .. 2 : Put(pid, FALSE, step, 0)
  /\ UNCHANGED <<left, version>>

NewVersion ==
  /\ wire = NoPacket /\ left = 0
  /\ outcome # "ts_error" /\ outcome' = "none"
  /\ version[Pat] + version[Pmt] < MaxVersion
  /\ \E t \in Psi : version' = [version EXCEPT ![t] = @ + 1]
  /\ UNCHANGED <<receiver, wire, cc, left, faults, ghosts>>

(* A fault of the network hits the packet under way. *)
Fault ==
  /\ wire # NoPacket
  /\ faults < MaxFaults /\ faults' = faults + 1
  /\ clean' = [clean EXCEPT ![wire.pid] = FALSE]
  /\ UNCHANGED <<receiver, outcome, sender, joined>>

Lose ==
  /\ Fault
  /\ wire.copy = "none"
  /\ wire' = NoPacket
  /\ lost' = [lost EXCEPT ![wire.pid] = @ + wire.step]

(* transport_error_indicator is set on the way. *)
Corrupt ==
  /\ Fault
  /\ ~wire.error /\ wire.copy = "none"
  /\ wire' = [wire EXCEPT !.error = TRUE]
  /\ UNCHANGED lost

Duplicate ==
  /\ Fault
  /\ wire.copy = "none"
  /\ wire' = [wire EXCEPT !.copy = "follows"]
  /\ UNCHANGED lost

(* The packet has been processed; its copy, if any, is next. *)
Taken == wire' = IF wire.copy = "follows" THEN [wire EXCEPT !.copy = "second"]
                 ELSE NoPacket
-----------------------------------------------------------------------------
(* ProcessTSPacket and the rest of Demux::Action's loop for one packet *)

Own == packets[wire.pid]
Registered == Own.type # "none"
has_payload == wire.step > 0
is_discontinuity == wire.step = 2

(* A slip: a packet without payload is expected to count on as well. *)
MutExpectedAlways == (Own.continuity + 1) % CC

expected_cc == IF has_payload THEN (Own.continuity + 1) % CC ELSE Own.continuity

CounterBreak ==
  Own.continuity # Unset /\ ~is_discontinuity /\ expected_cc # wire.cc

(* A slip: the counter of a packet in error is remembered. *)
MutIgnoreCounts ==
  /\ wire # NoPacket
  /\ wire.error \/ (~Registered /\ ~(wire.pid = Pat /\ wire.start))
  /\ packets' = [packets EXCEPT ![wire.pid].continuity = wire.cc]
  /\ Taken
  /\ outcome' = "continue"
  /\ lost' = [lost EXCEPT ![wire.pid] = IF ~Registered THEN 0
                                        ELSE IF wire.copy = "follows" THEN @
                                        ELSE @ + wire.step]
  /\ UNCHANGED <<streams, sender, faults, clean, joined>>

(* Transport error, or a PID nobody has registered. *)
Ignore ==
  /\ wire # NoPacket
  /\ wire.error \/ (~Registered /\ ~(wire.pid = Pat /\ wire.start))
  /\ Taken
  /\ outcome' = "continue"
  /\ lost' = [lost EXCEPT ![wire.pid] = IF ~Registered THEN 0
                                        ELSE IF wire.copy = "follows" THEN @
                                        ELSE @ + wire.step]
  /\ UNCHANGED <<receiver, sender, faults, clean, joined>>

(* What the histories record of a discontinuity. *)
Discontinuous ==
  /\ outcome' = "discontinuity"
  /\ Taken
  /\ lost' = [lost EXCEPT ![wire.pid] = 0]
  /\ clean' = [clean EXCEPT ![wire.pid] = FALSE]
  /\ UNCHANGED <<streams, sender, faults, joined>>

(* Registered, still waiting, and no unit starts here: AVCONTEXT_DISCONTINUITY. *)
AwaitStart ==
  /\ wire # NoPacket /\ ~wire.error
  /\ Registered
  /\ Own.wait /\ ~wire.start
  /\ packets' = [packets EXCEPT ![wire.pid].continuity = wire.cc]
  /\ Discontinuous

(* The counter breaks inside a unit: the PID is reset and waits for the    *)
(* next unit start; AVCONTEXT_DISCONTINUITY.                               *)
Gap ==
  /\ wire # NoPacket /\ ~wire.error
  /\ Registered /\ ~wire.start /\ ~Own.wait
  /\ CounterBreak
  /\ packets' = [packets EXCEPT ![wire.pid] = ResetPacket(@)]
  /\ Discontinuous

(* The packet is taken: it starts a unit, or continues one in sequence. *)
Acceptable ==
  /\ wire # NoPacket /\ ~wire.error
  /\ Registered \/ (wire.pid = Pat /\ wire.start)
  /\ wire.start \/ (~Own.wait /\ ~CounterBreak)

(* What the histories record of it; a PID registered anew starts over. *)
Accepted ==
  /\ Taken
  /\ lost' = [lost EXCEPT ![wire.pid] = 0]
  /\ clean' = [p \in Pids |->
                 IF p = wire.pid THEN (wire.start \/ clean[p]) /\ wire.copy # "follows"
                 ELSE clean[p] /\ packets'[p].stream = packets[p].stream
                               /\ ~(packets[p].table /\ ~packets'[p].table)]
  /\ joined' = IF wire.start \/ is_discontinuity \/ lost[wire.pid] = 0 THEN joined
               ELSE joined \cup {lost[wire.pid] % CC}
  /\ UNCHANGED <<sender, faults>>

(* clear_pes(): the packets and their stream objects are deleted. *)
ClearPes(pks) == [p \in Pids |-> IF pks[p].type = "pes" THEN Unregistered ELSE pks[p]]

(* clear_pmt(): only a PMT of which a section has begun is known as one. *)
ClearPmt(pks) ==
  IF pks[Pmt].table THEN [ClearPes(pks) EXCEPT ![Pmt] = Unregistered] ELSE pks

(* The table of pid in pks is complete and of a new version. *)
ParsePat(pks, ver) ==
  LET kept == ClearPmt(pks) IN
  [kept EXCEPT ![Pmt].type = "psi", ![Pat].version = ver]

(* A slip: the new streams are registered but not started. *)
MutParsePmtNoStart(pks, ver) ==
  LET kept == ClearPes(pks) IN
  [p \in Pids |->
     IF p \in Pes THEN [NewPacket("pes") EXCEPT !.stream = streams + 1]
     ELSE IF p = Pmt THEN [kept[Pmt] EXCEPT !.version = ver] ELSE kept[p]]

(* register_pmt() enables streaming for every stream at once. *)
ParsePmt(pks, ver) ==
  LET kept == ClearPes(pks) IN
  [p \in Pids |->
     IF p \in Pes
     THEN [NewPacket("pes") EXCEPT !.stream = streams + 1, !.streaming = TRUE]
     ELSE IF p = Pmt THEN [kept[Pmt] EXCEPT !.version = ver] ELSE kept[p]]

(* A slip: the version is not compared. *)
MutAlwaysNew(k) == TRUE

(* A completed section is parsed only if its version is new. *)
IsNew(k) == k.filled # k.version

(* A slip: the table is not reset where a section begins. *)
MutFilledNoReset(k) ==
  [k EXCEPT !.wait = FALSE, !.table = TRUE, !.offset = @ + 1,
            !.len = SectionPackets(wire.pid), !.filled = wire.version]

(* parse_ts_psi(): the section in k, of which this packet is the first or  *)
(* the next part.                                                          *)
Filled(k) ==
  IF wire.start
  THEN [k EXCEPT !.wait = FALSE, !.table = TRUE, !.offset = 1,
                 !.len = SectionPackets(wire.pid), !.filled = wire.version]
  ELSE [k EXCEPT !.offset = @ + 1]

AcceptPsi ==
  LET k     == [Own EXCEPT !.type = "psi", !.continuity = wire.cc]
      next  == Filled(k)
      pks   == [packets EXCEPT ![wire.pid] = next]
      parse == next.offset >= next.len /\ IsNew(next)
  IN
  /\ Acceptable /\ wire.pid \in Psi
  /\ wire.start \/ Own.offset \in 1 .. TableMax - 1
  /\ packets' = IF ~parse THEN pks
                ELSE IF wire.pid = Pat THEN ParsePat(pks, next.filled)
                ELSE ParsePmt(pks, next.filled)
  /\ streams' = IF parse /\ wire.pid = Pmt THEN streams + 1 ELSE streams
  /\ outcome' = IF parse /\ wire.pid = Pmt THEN "program_change" ELSE "continue"
  /\ Accepted

(* parse_ts_psi(): a part without a beginning, or more than the buffer     *)
(* holds: AVCONTEXT_TS_ERROR, and Demux resets the session.                *)
PsiError ==
  /\ Acceptable /\ wire.pid \in Psi /\ ~wire.start
  /\ Own.offset = 0 \/ Own.offset >= TableMax
  /\ packets' = [packets EXCEPT ![wire.pid].continuity = wire.cc]
  /\ outcome' = "ts_error"
  /\ UNCHANGED streams
  /\ Accepted

(* Demux picks up the unit that ends where the next one starts.            *)
(* parse_ts_pes() then stops waiting.                                      *)
AcceptPes ==
  LET data == wire.start /\ Own.streaming /\ ~Own.wait
  IN
  /\ Acceptable /\ wire.pid \in Pes
  /\ packets' = [packets EXCEPT ![wire.pid].continuity = wire.cc,
                                ![wire.pid].wait = @ /\ ~wire.start]
  /\ outcome' = IF data THEN "stream_pid_data" ELSE "continue"
  /\ UNCHANGED streams
  /\ Accepted

Process == Ignore \/ AwaitStart \/ Gap \/ AcceptPsi \/ PsiError \/ AcceptPes

Next ==
  \/ SendPat \/ SendPmt \/ NewVersion
  \/ \E pid \in Pes : SendStart(pid) \/ SendMore(pid)
  \/ Lose \/ Corrupt \/ Duplicate
  \/ Process

Spec == Init /\ [][Next]_vars

(* A multiplexer repeats its tables and starts new units for ever, and the *)
(* demultiplexer takes what arrives.                                       *)
FairSpec ==
  /\ Spec
  /\ WF_vars(Process) /\ SF_vars(SendPat) /\ SF_vars(SendPmt)
  /\ \A pid \in Pes : SF_vars(SendStart(pid))
-----------------------------------------------------------------------------
(* Properties *)

TypeOK ==
  /\ \A p \in Pids : /\ packets[p].type \in {"none", "psi", "pes"}
                     /\ packets[p].continuity \in 0 .. CC - 1 \cup {Unset}
                     /\ packets[p].offset \in 0 .. TableMax
                     /\ packets[p].stream \in 0 .. streams
  /\ streams \in Nat
  /\ outcome \in {"none", "continue", "discontinuity", "program_change",
                  "stream_pid_data", "ts_error"}
  /\ cc \in [Pids -> 0 .. CC - 1]
  /\ lost \in [Pids -> 0 .. 2 * MaxFaults]

(* A unit or section is never continued across missing packets, unless     *)
(* their number is a multiple of CC and the four-bit counter cannot show   *)
(* them: ProcessTSPacket resets the PID first, also when errors,           *)
(* duplicates, jumps and packets without payload come in between.  And     *)
(* only after such a gap does parse_ts_psi() meet a part without a         *)
(* beginning, or one that overflows the table buffer: the error paths that *)
(* assert(false) in a debug build, and that make Demux give up the         *)
(* session, are out of reach of every other loss.                          *)
OnlyBlindGaps ==
  /\ joined \subseteq {0}
  /\ outcome = "ts_error" => 0 \in joined

(* No false alarm: AVCONTEXT_DISCONTINUITY, which Demux counts as an       *)
(* error, is only returned for a PID that suffered a fault since its last  *)
(* unit start, or that was registered since then.                          *)
DiscontinuityJustified ==
  [][outcome' = "discontinuity" => wire # NoPacket /\ ~clean[wire.pid]]_vars

(* Stream objects are replaced only when a table version changed, however  *)
(* often PAT and PMT are repeated, lost, cut short or duplicated.          *)
ProgramStable == streams <= 1 + version[Pat] + version[Pmt]

(* Once faults and version changes are over, every elementary stream is    *)
(* streaming and in sequence for good, unless a blind gap ended the        *)
(* session first.                                                          *)
Recovers ==
  \/ <>(outcome = "ts_error")
  \/ \A p \in Pes : <>[](packets[p].streaming /\ ~packets[p].wait)
=============================================================================
