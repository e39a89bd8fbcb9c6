-------------------------- MODULE TsProgramProofs --------------------------
(***************************************************************************)
(* The safety properties of the parser, for any counter, any length of a   *)
(* section, any elementary streams and any number of faults.               *)
(***************************************************************************)
EXTENDS TsProgram, TLAPS

Kinds == [type : {"none", "psi", "pes"}, continuity : 0 .. CC - 1 \cup {Unset},
          wait : BOOLEAN, streaming : BOOLEAN, stream : Nat, table : BOOLEAN,
          offset : 0 .. TableMax, len : Nat, filled : Nat, version : Nat]
Packets == [pid : Pids, start : BOOLEAN, step : 0 .. 2, cc : 0 .. CC - 1,
            version : Nat, error : BOOLEAN, copy : {"none", "follows",
            "second"}]
Outcomes == {"none", "continue", "discontinuity", "program_change",
             "stream_pid_data", "ts_error"}

Types ==
  /\ packets \in [Pids -> Kinds] /\ streams \in Nat
  /\ outcome \in Outcomes
  /\ wire \in Packets \cup {NoPacket}
  /\ cc \in [Pids -> 0 .. CC - 1]
  /\ left \in 0 .. PmtPackets - 1
  /\ version \in [Psi -> 0 .. MaxVersion]
  /\ faults \in 0 .. MaxFaults
  /\ lost \in [Pids -> Nat] /\ clean \in [Pids -> BOOLEAN]
  /\ joined \subseteq Int

(* What the multiplexer sends, and the network makes of it. *)
Source ==
  wire # NoPacket =>
    /\ wire.cc = cc[wire.pid]
    /\ wire.start => wire.step = 1
    /\ wire.pid \in Psi => wire.step = 1 /\ wire.version = version[wire.pid]
    /\ wire.pid = Pat => wire.start
    /\ wire.pid = Pmt =>
         IF wire.start THEN left = PmtPackets - 1 ELSE left + 1 < PmtPackets
    /\ wire.copy # "second" => outcome = "none"
    /\ wire.copy # "none" \/ wire.error => ~clean[wire.pid]
    /\ wire.copy = "second" /\ ~wire.error => lost[wire.pid] = 0

(* A fault costs two steps of a counter at most; those of a packet in      *)
(* error are counted when it is ignored.                                   *)
Losses ==
  \A p \in Pids :
    lost[p] <= 2 * (IF wire # NoPacket /\ wire.pid = p /\ wire.error
                      THEN faults - 1 ELSE faults)

(* What a Packet can be.  A PMT is known as one (table) from its first     *)
(* section on.                                                             *)
Sound(p) ==
  LET k == packets[p] IN
    /\ k.type = "none" => k.wait /\ ~k.table
    /\ p \in Pes => ~k.table /\ k.type # "psi" /\ k.stream <= streams
    /\ p \in Pes /\ k.type = "pes" => k.stream > 0
    /\ p \in Psi => k.type # "pes" /\ k.stream = 0
    /\ ~k.table => k.offset = 0 /\ k.version = Unset
    /\ p \in Psi /\ ~k.table => k.wait
    /\ k.wait => k.offset = 0
    /\ ~k.wait => k.continuity # Unset
    /\ p \in Psi /\ ~k.wait => k.len = SectionPackets(p)

Registrations == \A p \in Pids : Sound(p)

(* A PID is clean only in sequence. *)
CleanOK ==
  \A p \in Pids : clean[p] => ~packets[p].wait /\ lost[p] = 0

(* The packet under way has not been counted in its PID yet. *)
Pending(p) ==
  wire # NoPacket /\ wire.pid = p /\ (wire.copy # "second" \/ wire.error)

Multiples == {k * CC : k \in Int}

(* The counter of a PID in a unit, the steps lost since, and the packet    *)
(* under way add up to that of the multiplexer.                            *)
Ahead(p) ==
  packets[p].continuity + lost[p] + (IF Pending(p) THEN wire.step ELSE 0)
    - cc[p]

Sync == \A p \in Pids : ~packets[p].wait => Ahead(p) \in Multiples

(* The part of the section the multiplexer had left before what is under   *)
(* way.                                                                    *)
LeftBefore ==
  IF ~Pending(Pmt) THEN left ELSE IF wire.start THEN 0 ELSE left + 1

(* Until a gap the counter cannot show, what has been taken of the section *)
(* is what has been sent of it.                                            *)
Sections ==
  0 \notin joined /\ ~packets[Pmt].wait /\ lost[Pmt] = 0
    => packets[Pmt].offset = PmtPackets - LeftBefore

(* A PMT is parsed once for each of its versions, and once more for each   *)
(* new version of the PAT, which forgets it.                               *)
PatVersion == IF packets[Pat].version = Unset THEN 0 ELSE packets[Pat].version

Versions ==
  LET k == packets[Pmt] IN
  /\ packets[Pat].version = Unset => k.type = "none"
  /\ packets[Pat].version # Unset => packets[Pat].version <= version[Pat]
  /\ k.table => k.filled <= version[Pmt]
  /\ k.version # Unset =>
       k.version <= k.filled /\ streams <= PatVersion + k.version + 1
  /\ k.version = Unset =>
       streams <= PatVersion + (IF k.offset > 0 THEN k.filled ELSE version[Pmt])

IInv ==
  /\ Types /\ Source /\ Losses /\ Registrations /\ CleanOK /\ Sync /\ Sections
  /\ Versions /\ OnlyBlindGaps
-----------------------------------------------------------------------------
(* Counters modulo CC *)

(* The multiples of CC are closed under sums and differences. *)
LEMMA MultiplesClosed ==
  ASSUME NEW a \in Multiples, NEW b \in Multiples
  PROVE  a + b \in Multiples /\ a - b \in Multiples /\ 0 \in Multiples
<1>1. PICK j \in Int : a = j * CC
  BY DEF Multiples
<1>2. PICK k \in Int : b = k * CC
  BY DEF Multiples
<1>3. CC \in Int
  BY StreamAssumption
<1>4. a + b = (j + k) * CC /\ a - b = (j - k) * CC /\ 0 = 0 * CC
  BY <1>1, <1>2, <1>3
<1>. QED
  BY <1>4 DEF Multiples

(* A step of at most two moves the counter on by that, modulo CC. *)
LEMMA CounterStep ==
  ASSUME NEW n \in 0 .. CC - 1, NEW s \in 0 .. 2, NEW m, m = (n + s) % CC
  PROVE  m \in 0 .. CC - 1 /\ n + s - m \in Multiples
<1>0. CC \in Nat /\ CC > 1
  BY StreamAssumption
<1>1. 0 * CC \in Multiples /\ 1 * CC \in Multiples
  BY DEF Multiples
<1>2. m = n + s \/ m = n + s - CC
  BY <1>0
<1>3. m \in 0 .. CC - 1
  BY <1>0
<1>4. n + s - m = 0 * CC \/ n + s - m = 1 * CC
  BY <1>0, <1>2, <1>3
<1>. QED
  BY <1>1, <1>3, <1>4

(* Counters that agree modulo CC are equal. *)
LEMMA CounterUnique ==
  ASSUME NEW n \in 0 .. CC - 1, NEW m \in 0 .. CC - 1, n - m \in Multiples
  PROVE  n = m
<1>0. CC \in Nat /\ CC > 1
  BY StreamAssumption
<1>1. PICK k \in Int : n - m = k * CC
  BY DEF Multiples
<1>2. k * CC < CC /\ k * CC > -CC
  BY <1>0, <1>1
<1>3. k = 0
  BY <1>0, <1>2
<1>. QED
  BY <1>0, <1>1, <1>3

(* A four-bit counter does not show the loss of a multiple of CC. *)
LEMMA MultiplesVanish ==
  ASSUME NEW n \in Multiples
  PROVE  n % CC = 0
<1>0. CC \in Nat /\ CC > 1
  BY StreamAssumption
<1>1. PICK k \in Int : n = k * CC
  BY DEF Multiples
<1>. QED
  BY <1>0, <1>1
-----------------------------------------------------------------------------
(* Facts about a packet that is processed *)

LEMMA InitInv == Init => IInv
<1>. SUFFICES ASSUME Init PROVE IInv
  OBVIOUS
<1>. USE StreamAssumption DEF StreamAssumption, Init
<1>1. Types
  BY DEF Types, Kinds, Outcomes, Unregistered, NewPacket, Pids, Psi, Unset
<1>2. Source /\ Losses /\ CleanOK
  BY DEF Source, Losses, CleanOK, NoPacket
<1>3. Registrations
  <2>. SUFFICES ASSUME NEW p \in Pids PROVE Sound(p)
    BY DEF Registrations, Sound
  <2>1. packets[p] = NewPacket("none")
    BY DEF Unregistered
  <2>. QED
    BY <2>1 DEF Sound, NewPacket
<1>4. Sync /\ Sections
  BY DEF Sync, Sections, Unregistered, NewPacket, Pids, Psi
<1>5. Versions
  BY DEF Versions, PatVersion, Unregistered, NewPacket, Pids, Psi, Unset
<1>6. OnlyBlindGaps
  BY DEF OnlyBlindGaps
<1>. QED
  BY <1>1, <1>2, <1>3, <1>4, <1>5, <1>6 DEF IInv

LEMMA WireTypes ==
  ASSUME Types, wire # NoPacket
  PROVE  /\ wire \in Packets /\ wire.pid \in Pids /\ wire.start \in BOOLEAN
         /\ wire.step \in 0 .. 2 /\ wire.cc \in 0 .. CC - 1
         /\ wire.version \in Nat /\ wire.error \in BOOLEAN
         /\ wire.copy \in {"none", "follows", "second"}
  BY DEF Types, Packets

LEMMA KindTypes ==
  ASSUME Types, NEW p \in Pids
  PROVE  /\ packets[p] \in Kinds
         /\ packets[p].type \in {"none", "psi", "pes"}
         /\ packets[p].continuity \in 0 .. CC - 1 \cup {Unset}
         /\ packets[p].wait \in BOOLEAN /\ packets[p].streaming \in BOOLEAN
         /\ packets[p].stream \in Nat /\ packets[p].table \in BOOLEAN
         /\ packets[p].offset \in 0 .. TableMax /\ packets[p].len \in Nat
         /\ packets[p].filled \in Nat /\ packets[p].version \in Nat
  BY DEF Types, Kinds

(* A packet that continues a unit announces a jump, or follows a loss the  *)
(* counter does not show; and a copy counts as a packet too many.          *)
LEMMA InSequence ==
  ASSUME IInv, wire # NoPacket, ~wire.error, ~wire.start,
         ~Own.wait, ~CounterBreak
  PROVE  /\ is_discontinuity \/ lost[wire.pid] \in Multiples
         /\ wire.step = 1 => Pending(wire.pid)
<1>. DEFINE p == wire.pid
            n == packets[p].continuity
<1>1. Types /\ Source /\ Registrations /\ Sync
  BY DEF IInv
<1>2. /\ p \in Pids /\ wire.step \in 0 .. 2 /\ wire.cc = cc[p]
      /\ cc[p] \in 0 .. CC - 1 /\ lost[p] \in Nat
      /\ wire.copy \in {"none", "follows", "second"}
  BY <1>1, WireTypes DEF Types, Source
<1>3. n \in 0 .. CC - 1 /\ n # Unset
  BY <1>1, <1>2, KindTypes DEF Registrations, Sound, Own
<1>4. Ahead(p) \in Multiples
  BY <1>1, <1>2 DEF Sync, Own
<1>5. CC \in Nat /\ CC > 1
  BY StreamAssumption
<1>7. CASE ~Pending(p)
  <2>1. wire.copy = "second" /\ lost[p] = 0
    BY <1>1, <1>2, <1>7 DEF Pending, Source
  <2>2. Ahead(p) = n - cc[p]
    BY <1>2, <1>3, <1>5, <1>7, <2>1 DEF Ahead
  <2>3. n = cc[p]
    BY <1>2, <1>3, <1>4, <2>2, CounterUnique
  <2>4. ASSUME wire.step = 1 PROVE FALSE
    <3>1. (n + 1) % CC = n
      BY <1>2, <1>3, <2>3, <2>4
         DEF CounterBreak, expected_cc, has_payload, is_discontinuity, Own
    <3>2. n + 1 - n \in Multiples
      BY <1>3, <3>1, CounterStep
    <3>3. 1 - 0 \in Multiples /\ 1 \in 0 .. CC - 1 /\ 0 \in 0 .. CC - 1
      BY <1>3, <1>5, <3>2
    <3>. QED
      BY <3>3, CounterUnique
  <2>5. 0 \in Multiples
    BY <1>4, MultiplesClosed
  <2>. QED
    BY <2>1, <2>4, <2>5
<1>8. CASE Pending(p)
  <2>1. Ahead(p) = n + lost[p] + wire.step - cc[p]
    BY <1>2, <1>3, <1>5, <1>8 DEF Ahead
  <2>2. CASE wire.step = 0
    <3>1. n = cc[p]
      BY <1>2, <1>3, <2>2
         DEF CounterBreak, expected_cc, has_payload, is_discontinuity, Own
    <3>2. lost[p] = Ahead(p)
      BY <1>2, <1>3, <1>5, <2>1, <2>2, <3>1
    <3>. QED
      BY <1>4, <2>2, <3>2
  <2>3. CASE wire.step = 1
    <3>1. (n + 1) % CC = cc[p]
      BY <1>2, <1>3, <2>3
         DEF CounterBreak, expected_cc, has_payload, is_discontinuity, Own
    <3>2. n + 1 - cc[p] \in Multiples
      BY <1>3, <3>1, CounterStep
    <3>3. lost[p] = Ahead(p) - (n + 1 - cc[p])
      BY <1>2, <1>3, <1>5, <2>1, <2>3
    <3>4. lost[p] \in Multiples
      BY <1>4, <3>2, <3>3, MultiplesClosed
    <3>. QED
      BY <1>8, <3>4
  <2>. QED
    BY <1>2, <1>8, <2>2, <2>3 DEF is_discontinuity
<1>. QED
  BY <1>7, <1>8
-----------------------------------------------------------------------------
(* The multiplexer *)

(* A packet put on the wire is ahead of its PID by its step. *)
LEMMA PutInv ==
  ASSUME IInv, NEW pid \in Pids, NEW start \in BOOLEAN, NEW step \in 0 .. 2,
         NEW ver \in Nat, Put(pid, start, step, ver), UNCHANGED version,
         left' \in 0 .. PmtPackets - 1, start => step = 1,
         pid \in Psi => step = 1 /\ ver = version[pid],
         pid = Pat => start,
         pid = Pmt /\ start => left = 0 /\ left' = PmtPackets - 1,
         pid = Pmt /\ ~start => left = left' + 1 /\ left' + 1 < PmtPackets,
         pid # Pmt => left' = left
  PROVE  IInv'
<1>1. /\ Types /\ Source /\ Losses /\ Registrations /\ CleanOK /\ Sync
      /\ Sections /\ Versions /\ OnlyBlindGaps
  BY DEF IInv
<1>2. CC \in Nat /\ CC > 1 /\ PmtPackets \in Nat \ {0}
  BY StreamAssumption
<1>3. cc \in [Pids -> 0 .. CC - 1]
  BY <1>1 DEF Types
<1>4. /\ cc' = [cc EXCEPT ![pid] = (cc[pid] + step) % CC]
      /\ wire = NoPacket /\ outcome' = "none" /\ outcome # "ts_error"
      /\ wire' = [pid |-> pid, start |-> start, step |-> step,
                  cc |-> cc'[pid], version |-> ver, error |-> FALSE,
                  copy |-> "none"]
      /\ UNCHANGED <<packets, streams, faults, lost, clean, joined>>
  BY DEF Put, receiver, ghosts
<1>5. /\ cc'[pid] \in 0 .. CC - 1
      /\ cc[pid] + step - cc'[pid] \in Multiples
      /\ \A q \in Pids \ {pid} : cc'[q] = cc[q]
  <2>1. cc'[pid] = (cc[pid] + step) % CC
    BY <1>3, <1>4
  <2>. QED
    BY <1>3, <1>4, <2>1, CounterStep
<1>6. /\ wire' # NoPacket' /\ wire'.pid = pid /\ wire'.start = start
      /\ wire'.step = step /\ wire'.cc = cc'[pid] /\ wire'.version = ver
      /\ ~wire'.error /\ wire'.copy = "none"
  BY <1>4 DEF NoPacket
<1>7. Types'
  <2>1. cc' \in [Pids -> 0 .. CC - 1]
    BY <1>3, <1>4, <1>5
  <2>2. wire' \in Packets
    BY <1>4, <1>5 DEF Packets
  <2>. QED
    BY <1>1, <1>4, <2>1, <2>2 DEF Types, Outcomes, NoPacket
<1>8. Source'
  <2>1. left \in 0 .. PmtPackets - 1
    BY <1>1 DEF Types
  <2>2. /\ pid = Pmt /\ start => left' = PmtPackets - 1
        /\ pid = Pmt /\ ~start => left' + 1 < PmtPackets
    BY Zenon
  <2>3. pid \in Psi => step = 1 /\ ver = version'[pid]
    OBVIOUS
  <2>. QED
    BY <1>4, <1>6, <2>2, <2>3 DEF Source
<1>9. Losses'
  BY <1>1, <1>4, <1>6 DEF Losses
<1>10. Registrations' /\ CleanOK'
  BY <1>1, <1>4 DEF Registrations, Sound, CleanOK
<1>11. Sync'
  <2>. SUFFICES ASSUME NEW q \in Pids, ~packets[q].wait
                PROVE  Ahead(q)' \in Multiples
    BY <1>4 DEF Sync, Multiples
  <2>1. /\ Ahead(q) \in Multiples
        /\ packets[q].continuity \in Int /\ lost[q] \in Int /\ cc[q] \in Int
    BY <1>1, <1>2, <1>3, KindTypes DEF Sync, Types, Unset
  <2>2. Ahead(q) = packets[q].continuity + lost[q] - cc[q]
    BY <1>4, <2>1 DEF Ahead, Pending
  <2>3. CASE q = pid
    <3>1. Ahead(q)' = packets[q].continuity + lost[q] + step - cc'[q]
      BY <1>4, <1>6, <2>3 DEF Ahead, Pending
    <3>2. Ahead(q)' = Ahead(q) + (cc[q] + step - cc'[q])
      BY <1>2, <1>5, <2>1, <2>2, <2>3, <3>1
    <3>. QED
      BY <1>5, <2>1, <2>3, <3>2, MultiplesClosed
  <2>4. CASE q # pid
    <3>1. Ahead(q)' = packets[q].continuity + lost[q] + 0 - cc[q]
      BY <1>4, <1>5, <1>6, <2>4 DEF Ahead, Pending
    <3>. QED
      BY <2>1, <2>2, <3>1
  <2>. QED
    BY <2>3, <2>4
<1>12. Sections'
  <2>1. LeftBefore' = LeftBefore
    BY <1>1, <1>2, <1>4, <1>6 DEF LeftBefore, Pending, Types
  <2>. QED
    BY <1>1, <1>4, <2>1 DEF Sections
<1>13. Versions' /\ OnlyBlindGaps'
  BY <1>1, <1>4 DEF Versions, PatVersion, OnlyBlindGaps
<1>. QED
  BY <1>7, <1>8, <1>9, <1>10, <1>11, <1>12, <1>13 DEF IInv

LEMMA SendPatInv == IInv /\ SendPat => IInv'
<1>. SUFFICES ASSUME IInv, SendPat PROVE IInv'
  OBVIOUS
<1>1. left \in 0 .. PmtPackets - 1 /\ version[Pat] \in Nat
  BY StreamAssumption DEF IInv, Types, Psi
<1>2. Put(Pat, TRUE, 1, version[Pat]) /\ UNCHANGED <<left, version>>
  BY DEF SendPat
<1>3. Pat # Pmt /\ Pat \in Pids
  BY DEF Pat, Pmt, Pids, Psi
<1>4. left' \in 0 .. PmtPackets - 1 /\ left' = left /\ UNCHANGED version
  BY <1>1, <1>2
<1>5. PICK start \in BOOLEAN : start /\ Put(Pat, start, 1, version[Pat])
  BY <1>2
<1>6. 1 \in 0 .. 2 /\ Pmt # Pat /\ TRUE \in BOOLEAN
  BY <1>3
<1>. QED
  BY <1>1, <1>3, <1>4, <1>5, <1>6, PutInv

LEMMA SendPmtInv == IInv /\ SendPmt => IInv'
<1>. SUFFICES ASSUME IInv, SendPmt PROVE IInv'
  OBVIOUS
<1>1. /\ left \in 0 .. PmtPackets - 1 /\ version[Pmt] \in Nat
      /\ PmtPackets \in Nat \ {0}
  BY StreamAssumption DEF IInv, Types, Psi
<1>2. /\ Put(Pmt, left = 0, 1, version[Pmt]) /\ UNCHANGED version
      /\ left' = IF left = 0 THEN PmtPackets - 1 ELSE left - 1
  BY DEF SendPmt
<1>3. Pat # Pmt /\ Pmt \in Pids
  BY DEF Pat, Pmt, Pids, Psi
<1>4. /\ left' \in 0 .. PmtPackets - 1
      /\ left # 0 => left = left' + 1 /\ left' + 1 < PmtPackets
      /\ left = 0 => left' = PmtPackets - 1
  BY <1>1, <1>2
<1>5. (left = 0) \in BOOLEAN
  OBVIOUS
<1>6. PICK start \in BOOLEAN :
        (start <=> left = 0) /\ Put(Pmt, start, 1, version[Pmt])
  BY <1>2, <1>5, Zenon
<1>. QED
  BY <1>1, <1>2, <1>3, <1>4, <1>6, PutInv

LEMMA SendPesInv ==
  ASSUME IInv, NEW pid \in Pes, SendStart(pid) \/ SendMore(pid)
  PROVE  IInv'
<1>1. left \in 0 .. PmtPackets - 1
  BY DEF IInv, Types
<1>2. pid \in Pids /\ pid \notin Psi /\ pid # Pat /\ pid # Pmt
  BY StreamAssumption DEF Pids, Psi
<1>3. CASE SendStart(pid)
  <2>1. PICK start \in BOOLEAN : start /\ Put(pid, start, 1, 0)
    BY <1>3 DEF SendStart
  <2>2. left' \in 0 .. PmtPackets - 1 /\ left' = left /\ UNCHANGED version
    BY <1>1, <1>3 DEF SendStart
  <2>3. 1 \in 0 .. 2 /\ 0 \in Nat
    OBVIOUS
  <2>. QED
    BY <1>2, <2>1, <2>2, <2>3, PutInv
<1>4. CASE SendMore(pid)
  <2>1. PICK step \in 0 .. 2, start \in BOOLEAN :
          ~start /\ Put(pid, start, step, 0)
    BY <1>4 DEF SendMore
  <2>2. left' \in 0 .. PmtPackets - 1 /\ left' = left /\ UNCHANGED version
    BY <1>1, <1>4 DEF SendMore
  <2>3. 0 \in Nat
    OBVIOUS
  <2>. QED
    BY <1>2, <2>1, <2>2, <2>3, PutInv
<1>. QED
  BY <1>3, <1>4

(* A version grows between two sections; bounds on the streams grow too. *)
LEMMA NewVersionInv == IInv /\ NewVersion => IInv'
<1>. SUFFICES ASSUME IInv, NewVersion PROVE IInv'
  OBVIOUS
<1>1. /\ Types /\ Source /\ Losses /\ Registrations /\ CleanOK /\ Sync
      /\ Sections /\ Versions /\ OnlyBlindGaps
  BY DEF IInv
<1>2. /\ wire = NoPacket /\ outcome' = "none"
      /\ version[Pat] + version[Pmt] < MaxVersion
      /\ UNCHANGED <<packets, streams, wire, cc, left, faults, lost,
                     clean, joined>>
  BY DEF NewVersion, receiver, ghosts
<1>3. PICK t \in Psi : version' = [version EXCEPT ![t] = @ + 1]
  BY DEF NewVersion
<1>4. /\ version \in [Psi -> 0 .. MaxVersion] /\ MaxVersion \in Nat
      /\ version[Pat] \in Nat /\ version[Pmt] \in Nat
      /\ Pat \in Psi /\ Pmt \in Psi
  BY <1>1, StreamAssumption DEF Types, Psi
<1>5. /\ version' \in [Psi -> 0 .. MaxVersion]
      /\ version'[Pat] >= version[Pat] /\ version'[Pmt] >= version[Pmt]
      /\ version'[Pat] \in Nat /\ version'[Pmt] \in Nat
  BY <1>2, <1>3, <1>4 DEF Psi
<1>6. Types'
  BY <1>1, <1>2, <1>5 DEF Types, Outcomes, NoPacket
<1>7. Source'
  BY <1>2 DEF Source, NoPacket
<1>8. Losses' /\ Registrations' /\ CleanOK' /\ Sync' /\ Sections'
  BY <1>1, <1>2
  DEF Losses, Registrations, Sound, CleanOK, Sync, Sections, Ahead,
     Pending, LeftBefore, NoPacket, Multiples
<1>9. Versions'
  <2>. DEFINE k == packets[Pmt]
              a == packets[Pat]
  <2>1. /\ k.filled \in Nat /\ k.version \in Nat /\ k.offset \in 0 .. TableMax
        /\ a.version \in Nat /\ streams \in Nat
    BY <1>1, KindTypes DEF Types, Pids, Psi
  <2>2. /\ (k.offset > 0) \in BOOLEAN
        /\ PatVersion \in Nat /\ PatVersion' = PatVersion
    BY <1>2, <2>1 DEF PatVersion
  <2>3. /\ a.version = Unset => k.type = "none"
        /\ a.version # Unset => a.version <= version[Pat]
        /\ k.table => k.filled <= version[Pmt]
        /\ k.version # Unset =>
             k.version <= k.filled /\ streams <= PatVersion + k.version + 1
        /\ k.version = Unset =>
             streams <= PatVersion + (IF k.offset > 0 THEN k.filled
                                      ELSE version[Pmt])
    BY <1>1 DEF Versions
  <2>4. /\ a.version # Unset => a.version <= version'[Pat]
        /\ k.table => k.filled <= version'[Pmt]
    BY <1>4, <1>5, <2>1, <2>3
  <2>5. k.version = Unset =>
          streams <= PatVersion + (IF k.offset > 0 THEN k.filled
                                   ELSE version'[Pmt])
    BY <1>4, <1>5, <2>1, <2>2, <2>3
  <2>. QED
    BY <1>2, <2>2, <2>3, <2>4, <2>5 DEF Versions
<1>10. OnlyBlindGaps'
  BY <1>1, <1>2 DEF OnlyBlindGaps
<1>. QED
  BY <1>6, <1>7, <1>8, <1>9, <1>10 DEF IInv
-----------------------------------------------------------------------------
(* The network *)

(* What every fault does: it counts, and the PID is no longer clean. *)
LEMMA FaultFacts ==
  ASSUME IInv, Fault
  PROVE  /\ wire # NoPacket
         /\ faults' = faults + 1 /\ faults' \in 0 .. MaxFaults
         /\ clean' = [clean EXCEPT ![wire.pid] = FALSE]
         /\ clean' \in [Pids -> BOOLEAN] /\ ~clean'[wire.pid]
         /\ \A q \in Pids : clean'[q] => clean[q]
         /\ UNCHANGED <<packets, streams, outcome, cc, left, version,
                        joined>>
<1>1. wire # NoPacket /\ faults' = faults + 1 /\ faults < MaxFaults
  BY DEF Fault
<1>2. clean' = [clean EXCEPT ![wire.pid] = FALSE]
  BY DEF Fault
<1>3. /\ faults \in Nat /\ MaxFaults \in Nat /\ clean \in [Pids -> BOOLEAN]
      /\ wire.pid \in Pids
  BY <1>1, WireTypes, StreamAssumption DEF IInv, Types
<1>4. faults' \in 0 .. MaxFaults
  BY <1>1, <1>3
<1>5. /\ clean' \in [Pids -> BOOLEAN] /\ ~clean'[wire.pid]
      /\ \A q \in Pids : clean'[q] => clean[q]
  BY <1>2, <1>3, Zenon
<1>6. UNCHANGED <<packets, streams, outcome, cc, left, version,
joined>>
  BY DEF Fault, receiver, sender
<1>. QED
  BY <1>1, <1>2, <1>4, <1>5, <1>6

(* What a fault leaves alone keeps its invariants. *)
LEMMA FaultFrame ==
  ASSUME IInv, Fault, \A q \in Pids : lost'[q] = lost[q] \/ ~clean'[q]
  PROVE  Registrations' /\ CleanOK' /\ Versions' /\ OnlyBlindGaps'
<1>1. Registrations /\ CleanOK /\ Versions /\ OnlyBlindGaps
  BY DEF IInv
<1>2. /\ UNCHANGED <<packets, streams, outcome, version, joined>>
      /\ \A q \in Pids : clean'[q] => clean[q]
  BY FaultFacts
<1>3. Registrations' /\ Versions' /\ OnlyBlindGaps'
  BY <1>1, <1>2 DEF Registrations, Sound, Versions, PatVersion, OnlyBlindGaps
<1>4. CleanOK'
  BY <1>1, <1>2 DEF CleanOK
<1>. QED
  BY <1>3, <1>4

(* The steps of a lost packet go to lost. *)
LEMMA LoseInv == IInv /\ Lose => IInv'
<1>. SUFFICES ASSUME IInv, Lose PROVE IInv'
  OBVIOUS
<1>. DEFINE p == wire.pid
<1>1. /\ Types /\ Source /\ Losses /\ Registrations /\ CleanOK /\ Sync
      /\ Sections /\ Versions /\ OnlyBlindGaps
  BY DEF IInv
<1>2. Fault /\ wire.copy = "none" /\ wire' = NoPacket
      /\ lost' = [lost EXCEPT ![p] = @ + wire.step]
  BY DEF Lose
<1>3. /\ wire # NoPacket /\ faults' = faults + 1 /\ faults' \in 0 .. MaxFaults
      /\ clean' \in [Pids -> BOOLEAN] /\ ~clean'[p]
      /\ UNCHANGED <<packets, streams, outcome, cc, left, version,
                     joined>>
  BY <1>2, FaultFacts
<1>4. /\ p \in Pids /\ wire.step \in 0 .. 2 /\ lost \in [Pids -> Nat]
      /\ faults \in Nat
  BY <1>1, <1>3, WireTypes DEF Types
<1>5. /\ lost' \in [Pids -> Nat] /\ lost'[p] = lost[p] + wire.step
      /\ \A q \in Pids \ {p} : lost'[q] = lost[q]
  BY <1>2, <1>4
<1>6. Types'
  BY <1>1, <1>2, <1>3, <1>5 DEF Types, Outcomes, NoPacket
<1>7. Source'
  BY <1>2 DEF Source, NoPacket
<1>8. Losses'
  <2>. SUFFICES ASSUME NEW q \in Pids PROVE lost'[q] <= 2 * faults'
    BY <1>2 DEF Losses, NoPacket
  <2>1. lost[q] <= 2 * faults
    BY <1>1, <1>4 DEF Losses
  <2>. QED
    BY <1>3, <1>4, <1>5, <2>1
<1>9. Registrations' /\ CleanOK' /\ Versions' /\ OnlyBlindGaps'
  BY <1>2, <1>3, <1>5, FaultFrame
<1>10. Sync'
  <2>. SUFFICES ASSUME NEW q \in Pids, ~packets[q].wait
                PROVE  Ahead(q)' \in Multiples
    BY <1>3 DEF Sync, Multiples
  <2>1. /\ Ahead(q) \in Multiples
        /\ packets[q].continuity \in Int /\ lost[q] \in Int /\ cc[q] \in Int
    BY <1>1, StreamAssumption, KindTypes DEF Sync, Types, Unset
  <2>2. Ahead(q)' = packets[q].continuity + lost'[q] + 0 - cc[q]
    BY <1>2, <1>3 DEF Ahead, Pending, NoPacket
  <2>3. CASE q = p
    <3>1. Ahead(q) = packets[q].continuity + lost[q] + wire.step - cc[q]
      BY <1>2, <1>3, <2>3 DEF Ahead, Pending
    <3>. QED
      BY <1>4, <1>5, <2>1, <2>2, <2>3, <3>1
  <2>4. CASE q # p
    <3>1. Ahead(q) = packets[q].continuity + lost[q] + 0 - cc[q]
      BY <1>2, <1>3, <2>4 DEF Ahead, Pending
    <3>. QED
      BY <1>5, <2>1, <2>2, <2>4, <3>1
  <2>. QED
    BY <2>3, <2>4
<1>11. Sections'
  <2>1. CASE p = Pmt
    <3>1. wire.step = 1
      BY <1>1, <1>3, <2>1 DEF Source, Psi
    <3>2. lost'[Pmt] # 0
      BY <1>4, <1>5, <2>1, <3>1
    <3>. QED
      BY <3>2 DEF Sections
  <2>2. CASE p # Pmt
    <3>1. LeftBefore' = LeftBefore
      BY <1>2, <1>3, <2>2 DEF LeftBefore, Pending, NoPacket
    <3>2. lost'[Pmt] = lost[Pmt]
      BY <1>5, <2>2 DEF Pids, Psi
    <3>. QED
      BY <1>1, <1>3, <3>1, <3>2 DEF Sections
  <2>. QED
    BY <2>1, <2>2
<1>. QED
  BY <1>6, <1>7, <1>8, <1>9, <1>10, <1>11 DEF IInv

(* A packet that is damaged or doubled is still to come. *)
LEMMA CorruptDuplicateInv == IInv /\ (Corrupt \/ Duplicate) => IInv'
<1>. SUFFICES ASSUME IInv, Corrupt \/ Duplicate PROVE IInv'
  OBVIOUS
<1>. DEFINE p == wire.pid
<1>1. /\ Types /\ Source /\ Losses /\ Registrations /\ CleanOK /\ Sync
      /\ Sections /\ Versions /\ OnlyBlindGaps
  BY DEF IInv
<1>2. Fault /\ wire.copy = "none" /\ lost' = lost
  BY DEF Corrupt, Duplicate
<1>3. /\ wire # NoPacket /\ faults' = faults + 1 /\ faults' \in 0 .. MaxFaults
      /\ clean' \in [Pids -> BOOLEAN] /\ ~clean'[p]
      /\ UNCHANGED <<packets, streams, outcome, cc, left, version,
                     joined>>
  BY <1>2, FaultFacts
<1>4. wire \in Packets /\ p \in Pids /\ faults \in Nat
  BY <1>1, <1>3, WireTypes DEF Types
<1>5. \/ ~wire.error /\ wire' = [wire EXCEPT !.error = TRUE]
      \/ wire' = [wire EXCEPT !.copy = "follows"]
  BY DEF Corrupt, Duplicate
<1>6. /\ wire' \in Packets
      /\ wire' # NoPacket' /\ wire'.pid = p /\ wire'.start = wire.start
      /\ wire'.step = wire.step /\ wire'.cc = wire.cc
      /\ wire'.version = wire.version /\ wire'.copy \in {"none", "follows"}
  BY <1>2, <1>4, <1>5 DEF Packets, NoPacket
<1>8. Types'
  BY <1>1, <1>2, <1>3, <1>6 DEF Types, Outcomes, NoPacket
<1>9. Source'
  BY <1>1, <1>2, <1>3, <1>6 DEF Source
<1>10. Losses'
  <2>. SUFFICES ASSUME NEW q \in Pids
                PROVE  lost[q] <= 2 * (IF wire' # NoPacket' /\ wire'.pid = q
                                            /\ wire'.error
                                       THEN faults' - 1 ELSE faults')
    BY <1>2 DEF Losses
  <2>1. CASE q = p /\ wire.error
    <3>1. lost[q] <= 2 * (faults - 1)
      BY <1>1, <1>3, <2>1 DEF Losses
    <3>2. lost[q] \in Nat
      BY <1>1 DEF Types
    <3>. QED
      BY <1>3, <1>4, <3>1, <3>2
  <2>2. CASE ~(q = p /\ wire.error)
    <3>1. lost[q] <= 2 * faults
      BY <1>1, <1>3, <2>2 DEF Losses
    <3>2. lost[q] \in Nat
      BY <1>1 DEF Types
    <3>. QED
      BY <1>3, <1>4, <3>1, <3>2
  <2>. QED
    BY <2>1, <2>2
<1>11. Registrations' /\ CleanOK' /\ Versions' /\ OnlyBlindGaps'
  BY <1>2, FaultFrame
<1>12. \A q \in Pids : Pending(q)' <=> Pending(q)
  BY <1>2, <1>3, <1>6 DEF Pending
<1>13. Sync'
  <2>1. \A q \in Pids : Ahead(q)' = Ahead(q)
    BY <1>2, <1>3, <1>6, <1>12 DEF Ahead
  <2>. QED
    BY <1>1, <1>3, <2>1 DEF Sync, Multiples
<1>14. Sections'
  <2>1. LeftBefore' = LeftBefore
    BY <1>3, <1>6, <1>12 DEF LeftBefore, Pids, Psi
  <2>. QED
    BY <1>1, <1>2, <1>3, <2>1 DEF Sections
<1>. QED
  BY <1>8, <1>9, <1>10, <1>11, <1>13, <1>14 DEF IInv
-----------------------------------------------------------------------------
(* The receiver: what all its steps have in common *)

(* After a packet comes nothing, or its copy. *)
LEMMA TakenFacts ==
  ASSUME IInv, wire # NoPacket, Taken
  PROVE  /\ wire' \in Packets \cup {NoPacket}
         /\ wire' # NoPacket' =>
              /\ wire.copy = "follows" /\ wire'.copy = "second"
              /\ wire'.pid = wire.pid /\ wire'.start = wire.start
              /\ wire'.step = wire.step /\ wire'.cc = wire.cc
              /\ wire'.version = wire.version /\ wire'.error = wire.error
         /\ wire.copy = "follows" => wire' # NoPacket'
<1>1. wire \in Packets
  BY WireTypes DEF IInv
<1>2. CASE wire.copy = "follows"
  <2>1. wire' = [wire EXCEPT !.copy = "second"]
    BY <1>2 DEF Taken
  <2>. QED
    BY <1>1, <1>2, <2>1 DEF Packets, NoPacket
<1>3. CASE wire.copy # "follows"
  <2>1. wire' = NoPacket
    BY <1>3 DEF Taken
  <2>. QED
    BY <1>3, <2>1 DEF NoPacket
<1>. QED
  BY <1>2, <1>3

(* Only the copy of a packet in error is still to be counted. *)
LEMMA TakenPending ==
  ASSUME IInv, wire # NoPacket, Taken, NEW q \in Pids
  PROVE  /\ Pending(q)' <=> q = wire.pid /\ wire.copy = "follows" /\ wire.error
         /\ Pending(q) => q = wire.pid
  BY TakenFacts DEF Pending

(* The copy of a packet is like the packet. *)
LEMMA TakenSource ==
  ASSUME IInv, wire # NoPacket, Taken, UNCHANGED <<cc, left, version>>,
         wire.copy = "follows" => /\ ~clean'[wire.pid]
                                  /\ wire.error \/ lost'[wire.pid] = 0
  PROVE  Source'
<1>1. Source
  BY DEF IInv
<1>2. SUFFICES ASSUME wire' # NoPacket' PROVE Source'
  BY DEF Source
<1>. QED
  BY <1>1, <1>2, TakenFacts DEF Source

(* What holds after a packet without error, whatever it does to its PID:   *)
(* the PID waits, or has the counter of the packet; and other PIDs keep    *)
(* what they had, or wait.                                                 *)
LEMMA ReceiveInv ==
  ASSUME IInv, wire # NoPacket, ~wire.error, Taken,
         UNCHANGED <<cc, left, version, faults>>,
         lost' = [lost EXCEPT ![wire.pid] = 0],
         clean'[wire.pid] => wire.copy # "follows" /\ ~packets'[wire.pid].wait,
         ~packets'[wire.pid].wait => packets'[wire.pid].continuity = wire.cc,
         \A q \in Pids \ {wire.pid} :
           \/ packets'[q] = packets[q] /\ (clean'[q] => clean[q])
           \/ packets'[q].wait /\ ~clean'[q]
  PROVE  /\ wire' \in Packets \cup {NoPacket} /\ lost' \in [Pids -> Nat]
         /\ Source' /\ Losses' /\ CleanOK' /\ Sync'
<1>. DEFINE p == wire.pid
<1>1. Types /\ Source /\ Losses /\ CleanOK /\ Sync
  BY DEF IInv
<1>2. /\ p \in Pids /\ cc[p] \in Int /\ wire.cc = cc[p] /\ faults \in Nat
      /\ CC \in Nat
  BY <1>1, WireTypes, StreamAssumption DEF Types, Source
<1>3. /\ lost \in [Pids -> Nat] /\ lost' \in [Pids -> Nat] /\ lost'[p] = 0
      /\ \A q \in Pids \ {p} : lost'[q] = lost[q]
  BY <1>1, <1>2 DEF Types
<1>4. Source'
  BY <1>3, TakenSource
<1>5. Losses'
  <2>. SUFFICES ASSUME NEW q \in Pids PROVE lost'[q] <= 2 * faults
    BY TakenFacts DEF Losses
  <2>1. CASE q = p
    BY <1>2, <1>3, <2>1
  <2>2. CASE q # p
    <3>1. lost[q] <= 2 * faults
      BY <1>1, <2>2 DEF Losses
    <3>. QED
      BY <1>3, <2>2, <3>1
  <2>. QED
    BY <2>1, <2>2
<1>6. CleanOK'
  BY <1>1, <1>3 DEF CleanOK
<1>7. Sync'
  <2>. SUFFICES ASSUME NEW q \in Pids, ~packets'[q].wait
                PROVE  Ahead(q)' \in Multiples
    BY DEF Sync, Multiples
  <2>1. ~Pending(q)'
    BY TakenPending
  <2>2. CASE q = p
    <3>1. Ahead(q)' = wire.cc + 0 + 0 - cc[q]
      BY <1>3, <2>1, <2>2 DEF Ahead
    <3>2. Ahead(q)' = 0 * CC
      BY <1>2, <2>2, <3>1
    <3>. QED
      BY <3>2 DEF Multiples
  <2>3. CASE q # p
    <3>1. packets'[q] = packets[q] /\ ~Pending(q)
      BY <2>3, TakenPending
    <3>2. Ahead(q)' = Ahead(q)
      BY <1>3, <2>1, <2>3, <3>1 DEF Ahead
    <3>. QED
      BY <1>1, <3>1, <3>2 DEF Sync
  <2>. QED
    BY <2>2, <2>3
<1>. QED
  BY <1>3, <1>4, <1>5, <1>6, <1>7, TakenFacts

(* A packet for another PID leaves the PMT's section as it is. *)
LEMMA OtherSection ==
  ASSUME IInv, wire # NoPacket, Taken, wire.pid # Pmt, left' = left,
         packets'[Pmt] = packets[Pmt] \/ packets'[Pmt].wait,
         lost'[Pmt] = lost[Pmt], joined \subseteq joined'
  PROVE  Sections'
<1>1. Sections
  BY DEF IInv
<1>2. ~Pending(Pmt) /\ ~Pending(Pmt)'
  BY TakenPending DEF Pids, Psi
<1>3. LeftBefore' = LeftBefore
  BY <1>2 DEF LeftBefore
<1>. QED
  BY <1>1, <1>3 DEF Sections
-----------------------------------------------------------------------------
(* Ignored packets and gaps *)

LEMMA IgnoreInv == IInv /\ Ignore => IInv'
<1>. SUFFICES ASSUME IInv, Ignore PROVE IInv'
  OBVIOUS
<1>. DEFINE p == wire.pid
<1>1. /\ Types /\ Source /\ Losses /\ Registrations /\ CleanOK /\ Sync
      /\ Sections /\ Versions /\ OnlyBlindGaps
  BY DEF IInv
<1>2. /\ wire # NoPacket
      /\ wire.error \/ ~Registered
      /\ Taken /\ outcome' = "continue"
      /\ UNCHANGED <<packets, streams, cc, left, version, faults,
                     clean, joined>>
  BY DEF Ignore, receiver, sender
<1>3. lost' = [lost EXCEPT ![p] = IF ~Registered THEN 0
                                  ELSE IF wire.copy = "follows" THEN lost[p]
                                  ELSE lost[p] + wire.step]
  BY DEF Ignore
<1>4. /\ p \in Pids /\ wire.step \in 0 .. 2 /\ lost \in [Pids -> Nat]
      /\ lost[p] \in Nat /\ faults \in Nat
  BY <1>1, <1>2, WireTypes DEF Types
<1>5. /\ lost' \in [Pids -> Nat]
      /\ \A q \in Pids \ {p} : lost'[q] = lost[q]
      /\ ~Registered => lost'[p] = 0
      /\ Registered /\ wire.copy = "follows" => lost'[p] = lost[p]
      /\ Registered /\ wire.copy # "follows" => lost'[p] = lost[p] + wire.step
  BY <1>3, <1>4
<1>6. ~Registered => packets[p].wait
  BY <1>1, <1>4 DEF Registrations, Sound, Registered, Own
<1>7. wire.error => ~clean[p]
  BY <1>1, <1>2 DEF Source
<1>8. Types'
  BY <1>1, <1>2, <1>5, TakenFacts DEF Types, Outcomes, NoPacket
<1>9. Source'
  <2>1. wire.copy = "follows" => ~clean[p]
    BY <1>1, <1>2 DEF Source
  <2>2. wire.error \/ lost'[p] = 0
    BY <1>2, <1>5
  <2>. QED
    BY <1>2, <2>1, <2>2, TakenSource
<1>10. Losses'
  <2>. SUFFICES ASSUME NEW q \in Pids
                PROVE  lost'[q] <= 2 * (IF wire' # NoPacket' /\ wire'.pid = q
                                             /\ wire'.error
                                        THEN faults - 1 ELSE faults)
    BY <1>2 DEF Losses
  <2>1. CASE q = p /\ wire.error
    <3>1. lost[p] <= 2 * (faults - 1)
      BY <1>1, <1>2, <2>1 DEF Losses
    <3>2. CASE wire.copy = "follows"
      BY <1>4, <1>5, <2>1, <3>1, <3>2
    <3>3. CASE wire.copy # "follows"
      <4>1. wire' = NoPacket'
        BY <1>2, <3>3, TakenFacts
      <4>. QED
        BY <1>4, <1>5, <2>1, <3>1, <3>3, <4>1
    <3>. QED
      BY <3>2, <3>3
  <2>2. CASE q = p /\ ~wire.error
    <3>1. wire' = NoPacket' \/ ~wire'.error
      BY <1>2, <2>2, TakenFacts
    <3>. QED
      BY <1>2, <1>4, <1>5, <2>2, <3>1
  <2>3. CASE q # p
    <3>1. lost[q] <= 2 * faults
      BY <1>1, <2>3 DEF Losses
    <3>2. wire' = NoPacket' \/ wire'.pid # q
      BY <1>2, <2>3, TakenFacts
    <3>. QED
      BY <1>5, <2>3, <3>1, <3>2
  <2>. QED
    BY <2>1, <2>2, <2>3
<1>11. Registrations' /\ Versions' /\ OnlyBlindGaps'
  BY <1>1, <1>2 DEF Registrations, Sound, Versions, PatVersion, OnlyBlindGaps
<1>12. CleanOK'
  BY <1>1, <1>2, <1>5, <1>6, <1>7 DEF CleanOK
<1>13. Sync'
  <2>. SUFFICES ASSUME NEW q \in Pids, ~packets[q].wait
                PROVE  Ahead(q)' \in Multiples
    BY <1>2 DEF Sync, Multiples
  <2>1. /\ Ahead(q) \in Multiples
        /\ packets[q].continuity \in Int /\ lost[q] \in Int /\ cc[q] \in Int
    BY <1>1, StreamAssumption, KindTypes DEF Sync, Types, Unset
  <2>2. CASE q = p
    <3>1. Registered /\ wire.error
      BY <1>2, <1>6, <2>2
    <3>2. Ahead(q) = packets[q].continuity + lost[q] + wire.step - cc[q]
      BY <1>2, <2>2, <3>1 DEF Ahead, Pending
    <3>3. CASE wire.copy = "follows"
      <4>1. Pending(q)' /\ wire'.step = wire.step
        BY <1>2, <2>2, <3>1, <3>3, TakenFacts, TakenPending
      <4>2. lost'[q] = lost[q]
        BY <1>5, <2>2, <3>1, <3>3
      <4>3. Ahead(q)' = packets[q].continuity + lost[q] + wire.step - cc[q]
        BY <1>2, <4>1, <4>2 DEF Ahead
      <4>. QED
        BY <2>1, <3>2, <4>3
    <3>4. CASE wire.copy # "follows"
      <4>1. ~Pending(q)'
        BY <1>2, <2>2, <3>4, TakenPending
      <4>2. lost'[q] = lost[q] + wire.step
        BY <1>5, <2>2, <3>1, <3>4
      <4>3. Ahead(q)' = packets[q].continuity + (lost[q] + wire.step) + 0 - cc[q]
        BY <1>2, <4>1, <4>2 DEF Ahead
      <4>4. Ahead(q)' = Ahead(q)
        BY <1>4, <2>1, <3>2, <4>3
      <4>. QED
        BY <2>1, <4>4
    <3>. QED
      BY <3>3, <3>4
  <2>3. CASE q # p
    <3>1. ~Pending(q) /\ ~Pending(q)' /\ lost'[q] = lost[q]
      BY <1>2, <1>5, <2>3, TakenPending
    <3>2. Ahead(q)' = Ahead(q)
      BY <1>2, <3>1 DEF Ahead
    <3>. QED
      BY <2>1, <3>2
  <2>. QED
    BY <2>2, <2>3
<1>14. Sections'
  <2>1. CASE p # Pmt
    <3>1. lost'[Pmt] = lost[Pmt]
      BY <1>5, <2>1 DEF Pids, Psi
    <3>. QED
      BY <1>2, <2>1, <3>1, OtherSection
  <2>2. CASE p = Pmt /\ ~packets[Pmt].wait
    <3>1. Registered /\ wire.error /\ wire.step = 1
      BY <1>1, <1>2, <1>6, <2>2 DEF Source, Psi
    <3>2. CASE wire.copy = "follows"
      <4>1. Pending(Pmt) /\ Pending(Pmt)' /\ wire'.start = wire.start
        BY <1>2, <1>4, <2>2, <3>1, <3>2, TakenFacts, TakenPending DEF Pending
      <4>2. LeftBefore' = LeftBefore
        BY <1>2, <4>1 DEF LeftBefore
      <4>3. lost'[Pmt] = lost[Pmt]
        BY <1>5, <2>2, <3>1, <3>2
      <4>. QED
        BY <1>1, <1>2, <4>2, <4>3 DEF Sections
    <3>3. CASE wire.copy # "follows"
      <4>1. lost'[Pmt] # 0
        BY <1>4, <1>5, <2>2, <3>1, <3>3
      <4>. QED
        BY <4>1 DEF Sections
    <3>. QED
      BY <3>2, <3>3
  <2>3. CASE packets[Pmt].wait
    BY <1>2, <2>3 DEF Sections
  <2>. QED
    BY <2>1, <2>2, <2>3
<1>. QED
  BY <1>8, <1>9, <1>10, <1>11, <1>12, <1>13, <1>14 DEF IInv

(* A registration stays sound as long as the PID keeps it. *)
LEMMA SoundFrame ==
  ASSUME IInv, NEW q \in Pids, packets'[q] = packets[q], streams' \in Nat,
         streams' >= streams
  PROVE  Sound(q)'
<1>1. Sound(q) /\ packets[q].stream \in Nat /\ streams \in Nat
  BY KindTypes DEF IInv, Registrations, Types
<1>2. packets[q].stream <= streams => packets[q].stream <= streams'
  BY <1>1
<1>. QED
  BY <1>1, <1>2 DEF Sound

(* AwaitStart and Gap: the PID waits, and keeps the table it had. *)
LEMMA DiscontinuityInv == IInv /\ (AwaitStart \/ Gap) => IInv'
<1>. SUFFICES ASSUME IInv, AwaitStart \/ Gap PROVE IInv'
  OBVIOUS
<1>. DEFINE p == wire.pid
<1>1. /\ Types /\ Source /\ Losses /\ Registrations /\ CleanOK /\ Sync
      /\ Sections /\ Versions /\ OnlyBlindGaps
  BY DEF IInv
<1>2. /\ wire # NoPacket /\ ~wire.error /\ Discontinuous
      /\ packets[p].type # "none"
  BY DEF AwaitStart, Gap, Registered, Own
<1>3. /\ outcome' = "discontinuity" /\ Taken
      /\ lost' = [lost EXCEPT ![p] = 0] /\ clean' = [clean EXCEPT ![p] = FALSE]
      /\ UNCHANGED <<streams, cc, left, version, faults, joined>>
  BY <1>2 DEF Discontinuous, sender
<1>4. /\ p \in Pids /\ wire.cc \in 0 .. CC - 1 /\ clean \in [Pids -> BOOLEAN]
      /\ packets \in [Pids -> Kinds] /\ lost \in [Pids -> Nat]
      /\ TableMax \in Nat
  BY <1>1, <1>2, WireTypes, StreamAssumption DEF Types
<1>5. /\ clean' \in [Pids -> BOOLEAN] /\ ~clean'[p]
      /\ \A q \in Pids : clean'[q] => clean[q]
  BY <1>3, <1>4, Zenon
<1>6. PICK k \in Kinds :
        /\ packets' = [packets EXCEPT ![p] = k]
        /\ k.wait /\ k.offset = 0
        /\ k.type = packets[p].type /\ k.stream = packets[p].stream
        /\ k.table = packets[p].table /\ k.version = packets[p].version
        /\ k.filled = packets[p].filled
  <2>1. CASE AwaitStart
    <3>. DEFINE k == [packets[p] EXCEPT !.continuity = wire.cc]
    <3>1. packets' = [packets EXCEPT ![p] = k]
      BY <2>1 DEF AwaitStart
    <3>2. packets[p].wait /\ packets[p].offset = 0
      BY <1>1, <1>4, <2>1 DEF AwaitStart, Own, Registrations, Sound
    <3>3. k \in Kinds
      BY <1>4 DEF Kinds
    <3>4. k.wait = packets[p].wait /\ k.offset = packets[p].offset
      BY <1>4 DEF Kinds
    <3>5. /\ k.type = packets[p].type /\ k.stream = packets[p].stream
          /\ k.table = packets[p].table /\ k.version = packets[p].version
          /\ k.filled = packets[p].filled
      BY <1>4 DEF Kinds
    <3>. QED
      BY <3>1, <3>2, <3>3, <3>4, <3>5
  <2>2. CASE Gap
    <3>. DEFINE k == ResetPacket(packets[p])
    <3>1. packets' = [packets EXCEPT ![p] = k]
      BY <2>2 DEF Gap
    <3>2. k \in Kinds
      <4>1. packets[p] \in Kinds /\ TRUE \in BOOLEAN
        BY <1>4
      <4>2. 0 \in 0 .. TableMax /\ Unset \in 0 .. CC - 1 \cup {Unset} /\ 0 \in Nat
        BY <1>4
      <4>. QED
        BY <4>1, <4>2, Zenon DEF Kinds, ResetPacket
    <3>3. k.wait /\ k.offset = 0
      BY <1>4 DEF Kinds, ResetPacket
    <3>4. /\ k.type = packets[p].type /\ k.stream = packets[p].stream
          /\ k.table = packets[p].table /\ k.version = packets[p].version
          /\ k.filled = packets[p].filled
      BY <1>4 DEF Kinds, ResetPacket
    <3>. QED
      BY <3>1, <3>2, <3>3, <3>4
  <2>. QED
    BY <2>1, <2>2
<1>7. packets'[p] = k /\ \A q \in Pids \ {p} : packets'[q] = packets[q]
  BY <1>4, <1>6
<1>8. /\ wire' \in Packets \cup {NoPacket} /\ lost' \in [Pids -> Nat]
      /\ Source' /\ Losses' /\ CleanOK' /\ Sync'
  <2>1. \A q \in Pids \ {p} : packets'[q] = packets[q] /\ (clean'[q] => clean[q])
    BY <1>5, <1>7
  <2>2. packets'[p].wait /\ ~clean'[p]
    BY <1>5, <1>6, <1>7
  <2>. QED
    BY <1>2, <1>3, <2>1, <2>2, ReceiveInv
<1>9. Types'
  <2>1. packets' \in [Pids -> Kinds]
    BY <1>4, <1>6
  <2>. QED
    BY <1>1, <1>3, <1>5, <1>8, <2>1 DEF Types, Outcomes, NoPacket
<1>10. Registrations'
  <2>. SUFFICES ASSUME NEW q \in Pids PROVE Sound(q)'
    BY DEF Registrations
  <2>1. CASE q = p
    <3>1. Sound(q)
      BY <1>1 DEF Registrations
    <3>. QED
      BY <1>2, <1>3, <1>6, <1>7, <2>1, <3>1 DEF Sound
  <2>2. CASE q # p
    <3>1. streams \in Nat /\ streams >= streams
      BY <1>1 DEF Types
    <3>. QED
      BY <1>3, <1>7, <2>2, <3>1, SoundFrame
  <2>. QED
    BY <2>1, <2>2
<1>11. Sections'
  <2>1. CASE p = Pmt
    BY <1>6, <1>7, <2>1 DEF Sections
  <2>2. CASE p # Pmt
    <3>1. lost'[Pmt] = lost[Pmt] /\ packets'[Pmt] = packets[Pmt]
      BY <1>3, <1>4, <1>7, <2>2 DEF Pids, Psi
    <3>. QED
      BY <1>2, <1>3, <2>2, <3>1, OtherSection
  <2>. QED
    BY <2>1, <2>2
<1>12. Versions'
  <2>1. Pat \in Pids /\ Pmt \in Pids
    BY DEF Pids, Psi
  <2>2. \A q \in Pids : /\ packets'[q].type = packets[q].type
                        /\ packets'[q].table = packets[q].table
                        /\ packets'[q].version = packets[q].version
                        /\ packets'[q].filled = packets[q].filled
                        /\ \/ packets'[q].offset = packets[q].offset
                           \/ packets'[q].offset = 0
    BY <1>6, <1>7
  <2>3. PatVersion' = PatVersion
    BY <2>1, <2>2 DEF PatVersion
  <2>4. /\ Sound(Pmt) /\ streams \in Nat /\ version[Pmt] \in Nat
        /\ packets[Pmt].filled \in Nat /\ packets[Pmt].offset \in Nat
        /\ packets[Pat].version \in Nat
    BY <1>1, <2>1, KindTypes, StreamAssumption DEF Registrations, Types, Psi
  <2>5. PatVersion \in Nat
    BY <2>4 DEF PatVersion
  <2>6. packets[Pmt].version = Unset /\ packets'[Pmt].offset # packets[Pmt].offset
          => streams <= PatVersion + version[Pmt]
    <3>. SUFFICES ASSUME packets[Pmt].version = Unset, packets[Pmt].offset # 0
                  PROVE  streams <= PatVersion + version[Pmt]
      BY <1>1, <2>1, <2>2, <2>4 DEF Versions
    <3>1. packets[Pmt].table /\ packets[Pmt].filled <= version[Pmt]
      BY <1>1, <2>4 DEF Sound, Versions
    <3>2. streams <= PatVersion + packets[Pmt].filled
      BY <1>1, <2>4 DEF Versions
    <3>. QED
      BY <2>4, <2>5, <3>1, <3>2
  <2>. QED
    BY <1>1, <1>3, <2>1, <2>2, <2>3, <2>6 DEF Versions
<1>13. OnlyBlindGaps'
  BY <1>1, <1>3 DEF OnlyBlindGaps
<1>. QED
  BY <1>8, <1>9, <1>10, <1>11, <1>12, <1>13 DEF IInv
-----------------------------------------------------------------------------
(* Packets taken *)

(* What the histories say of a packet that is taken. *)
LEMMA AcceptedFacts ==
  ASSUME IInv, Acceptable, Accepted
  PROVE  /\ wire # NoPacket /\ ~wire.error /\ Taken
         /\ wire.start \/ (~Own.wait /\ ~CounterBreak)
         /\ UNCHANGED <<cc, left, version, faults>>
         /\ lost' = [lost EXCEPT ![wire.pid] = 0]
         /\ clean' \in [Pids -> BOOLEAN]
         /\ clean'[wire.pid] => wire.copy # "follows"
         /\ \A q \in Pids \ {wire.pid} : clean'[q] =>
              /\ clean[q] /\ packets'[q].stream = packets[q].stream
              /\ packets[q].table => packets'[q].table
<1>1. /\ wire # NoPacket /\ ~wire.error /\ Taken
      /\ wire.start \/ (~Own.wait /\ ~CounterBreak)
      /\ UNCHANGED <<cc, left, version, faults>>
      /\ lost' = [lost EXCEPT ![wire.pid] = 0]
  BY DEF Acceptable, Accepted, sender
<1>2. wire.pid \in Pids
  BY <1>1, WireTypes DEF IInv
<1>3. clean' = [p \in Pids |->
                 IF p = wire.pid THEN (wire.start \/ clean[p]) /\ wire.copy # "follows"
                 ELSE clean[p] /\ packets'[p].stream = packets[p].stream
                               /\ ~(packets[p].table /\ ~packets'[p].table)]
  BY DEF Accepted
<1>4. clean' \in [Pids -> BOOLEAN]
  <2>1. \A p \in Pids : clean'[p] \in BOOLEAN
    <3>. SUFFICES ASSUME NEW p \in Pids PROVE clean'[p] \in BOOLEAN
      OBVIOUS
    <3>1. CASE p = wire.pid
      BY <1>3, <3>1, Zenon
    <3>2. CASE p # wire.pid
      BY <1>3, <3>2, Zenon
    <3>. QED
      BY <3>1, <3>2
  <2>. QED
    BY <1>3, <2>1, Zenon
<1>5. clean'[wire.pid] => wire.copy # "follows"
  BY <1>2, <1>3, Zenon
<1>6. \A q \in Pids \ {wire.pid} : clean'[q] =>
        /\ clean[q] /\ packets'[q].stream = packets[q].stream
        /\ packets[q].table => packets'[q].table
  BY <1>3, Zenon
<1>. QED
  BY <1>1, <1>4, <1>5, <1>6

(* A unit goes on across a gap only if the counter cannot show it. *)
LEMMA AcceptedJoined ==
  ASSUME IInv, Acceptable, Accepted
  PROVE  /\ joined \subseteq joined' /\ joined' \subseteq {0}
         /\ ~wire.start /\ wire.step = 1 =>
              Pending(wire.pid) /\ (0 \in joined' \/ lost[wire.pid] = 0)
<1>1. joined \subseteq {0}
  BY DEF IInv, OnlyBlindGaps
<1>2. joined' = IF wire.start \/ is_discontinuity \/ lost[wire.pid] = 0 THEN joined
                ELSE joined \cup {lost[wire.pid] % CC}
  BY DEF Accepted
<1>3. CASE wire.start
  BY <1>1, <1>2, <1>3
<1>4. CASE ~wire.start
  <2>1. /\ is_discontinuity \/ lost[wire.pid] \in Multiples
        /\ wire.step = 1 => Pending(wire.pid)
    BY <1>4, InSequence, AcceptedFacts
  <2>2. CASE is_discontinuity \/ lost[wire.pid] = 0
    <3>1. joined' = joined
      BY <1>2, <2>2
    <3>2. wire.step = 1 => ~is_discontinuity
      BY DEF is_discontinuity
    <3>. QED
      BY <1>1, <2>1, <2>2, <3>1, <3>2
  <2>3. CASE ~is_discontinuity /\ lost[wire.pid] # 0
    <3>1. lost[wire.pid] % CC = 0
      BY <2>1, <2>3, MultiplesVanish
    <3>2. joined' = joined \cup {0}
      BY <1>2, <1>4, <2>3, <3>1
    <3>. QED
      BY <1>1, <2>1, <3>2
  <2>. QED
    BY <2>2, <2>3
<1>. QED
  BY <1>3, <1>4

(* The histories and the multiplexer's side, after a packet is taken. *)
LEMMA AcceptedInv ==
  ASSUME IInv, Acceptable, Accepted,
         packets'[wire.pid].continuity = wire.cc, ~packets'[wire.pid].wait,
         \A q \in Pids \ {wire.pid} :
           packets'[q] = packets[q] \/ (packets'[q].wait /\ ~clean'[q])
  PROVE  /\ wire' \in Packets \cup {NoPacket} /\ lost' \in [Pids -> Nat]
         /\ clean' \in [Pids -> BOOLEAN] /\ joined' \subseteq Int
         /\ cc' \in [Pids -> 0 .. CC - 1] /\ left' \in 0 .. PmtPackets - 1
         /\ version' \in [Psi -> 0 .. MaxVersion] /\ faults' \in 0 .. MaxFaults
         /\ Source' /\ Losses' /\ CleanOK' /\ Sync'
<1>1. /\ joined' \subseteq Int /\ clean' \in [Pids -> BOOLEAN]
      /\ UNCHANGED <<cc, left, version, faults>>
  BY AcceptedFacts, AcceptedJoined
<1>2. \A q \in Pids \ {wire.pid} :
        \/ packets'[q] = packets[q] /\ (clean'[q] => clean[q])
        \/ packets'[q].wait /\ ~clean'[q]
  BY AcceptedFacts
<1>3. /\ wire' \in Packets \cup {NoPacket} /\ lost' \in [Pids -> Nat]
      /\ Source' /\ Losses' /\ CleanOK' /\ Sync'
  BY <1>2, AcceptedFacts, ReceiveInv
<1>. QED
  BY <1>1, <1>3 DEF IInv, Types

LEMMA AcceptPesInv == IInv /\ AcceptPes => IInv'
<1>. SUFFICES ASSUME IInv, AcceptPes PROVE IInv'
  OBVIOUS
<1>. DEFINE p == wire.pid
            k == [packets[p] EXCEPT !.continuity = wire.cc,
                                    !.wait = packets[p].wait /\ ~wire.start]
<1>1. /\ Types /\ Registrations /\ Versions
  BY DEF IInv
<1>2. /\ Acceptable /\ Accepted /\ p \in Pes /\ streams' = streams
      /\ outcome' \in Outcomes /\ outcome' # "ts_error"
      /\ packets' = [packets EXCEPT ![wire.pid].continuity = wire.cc,
                                    ![wire.pid].wait = @ /\ ~wire.start]
  BY DEF AcceptPes, Outcomes
<1>3. /\ wire # NoPacket /\ ~wire.error /\ Taken
      /\ wire.start \/ ~packets[p].wait
      /\ left' = left /\ version' = version
      /\ lost' = [lost EXCEPT ![p] = 0]
  BY <1>2, AcceptedFacts DEF Own
<1>4. /\ p \in Pids /\ wire.cc \in 0 .. CC - 1 /\ packets \in [Pids -> Kinds]
      /\ lost \in [Pids -> Nat]
  BY <1>1, <1>3, WireTypes DEF Types
<1>5. p # Pat /\ p # Pmt /\ p \notin Psi /\ Pat \in Pids /\ Pmt \in Pids
  BY <1>2, StreamAssumption DEF Psi, Pids
<1>6. packets' = [packets EXCEPT ![p] = k]
  BY <1>2, <1>4
<1>7. packets'[p] = k /\ \A q \in Pids \ {p} : packets'[q] = packets[q]
  BY <1>4, <1>6
<1>8. /\ k \in Kinds /\ k.continuity = wire.cc
      /\ k.wait = (packets[p].wait /\ ~wire.start) /\ k.type = packets[p].type
      /\ k.stream = packets[p].stream /\ k.table = packets[p].table
      /\ k.offset = packets[p].offset /\ k.version = packets[p].version
  <2>. DEFINE w == packets[p].wait /\ ~wire.start
  <2>1. packets[p] \in Kinds /\ w \in BOOLEAN
    BY <1>4
  <2>2. k = [packets[p] EXCEPT !.continuity = wire.cc, !.wait = w]
    OBVIOUS
  <2>3. w = (packets[p].wait /\ ~wire.start)
    OBVIOUS
  <2>. HIDE DEF k, w, p
  <2>4. k \in Kinds
    BY <1>4, <2>1, <2>2, Zenon DEF Kinds
  <2>5. /\ k.continuity = wire.cc /\ k.wait = w /\ k.type = packets[p].type
        /\ k.stream = packets[p].stream /\ k.table = packets[p].table
        /\ k.offset = packets[p].offset /\ k.version = packets[p].version
    BY <2>1, <2>2 DEF Kinds
  <2>. QED
    BY <2>3, <2>4, <2>5
<1>9. ~k.wait
  BY <1>3, <1>8
<1>. HIDE DEF k
<1>10. /\ wire' \in Packets \cup {NoPacket} /\ lost' \in [Pids -> Nat]
       /\ clean' \in [Pids -> BOOLEAN] /\ joined' \subseteq Int
       /\ cc' \in [Pids -> 0 .. CC - 1] /\ left' \in 0 .. PmtPackets - 1
       /\ version' \in [Psi -> 0 .. MaxVersion] /\ faults' \in 0 .. MaxFaults
       /\ Source' /\ Losses' /\ CleanOK' /\ Sync'
  <2>1. packets'[wire.pid].continuity = wire.cc /\ ~packets'[wire.pid].wait
    BY <1>7, <1>8, <1>9
  <2>2. \A q \in Pids \ {wire.pid} :
          packets'[q] = packets[q] \/ (packets'[q].wait /\ ~clean'[q])
    BY <1>7
  <2>. QED
    BY <1>2, <2>1, <2>2, AcceptedInv
<1>11. Types'
  <2>1. packets' \in [Pids -> Kinds]
    BY <1>4, <1>6, <1>8
  <2>. QED
    BY <1>1, <1>2, <1>10, <2>1 DEF Types
<1>12. Registrations'
  <2>. SUFFICES ASSUME NEW q \in Pids PROVE Sound(q)'
    BY DEF Registrations
  <2>1. CASE q = p
    <3>1. Sound(q) /\ packets[q].type # "none"
      BY <1>1, <1>2, <1>5, <2>1 DEF Registrations, Acceptable, Registered, Own
    <3>2. wire.cc # Unset
      BY <1>4, StreamAssumption DEF Unset
    <3>3. q \notin Psi /\ streams' = streams /\ packets'[q] = k
      BY <1>2, <1>5, <1>7, <2>1
    <3>4. /\ k.continuity = wire.cc /\ k.type = packets[q].type
          /\ k.stream = packets[q].stream /\ k.table = packets[q].table
          /\ k.offset = packets[q].offset /\ k.version = packets[q].version
      BY <1>8, <2>1
    <3>. QED
      BY <1>9, <3>1, <3>2, <3>3, <3>4 DEF Sound
  <2>2. CASE q # p
    <3>1. streams \in Nat /\ streams >= streams
      BY <1>1 DEF Types
    <3>. QED
      BY <1>2, <1>7, <2>2, <3>1, SoundFrame
  <2>. QED
    BY <2>1, <2>2
<1>13. Sections'
  <2>1. lost'[Pmt] = lost[Pmt] /\ packets'[Pmt] = packets[Pmt]
    BY <1>3, <1>4, <1>5, <1>7
  <2>2. joined \subseteq joined'
    BY <1>2, AcceptedJoined
  <2>. QED
    BY <1>3, <1>5, <2>1, <2>2, OtherSection
<1>14. Versions'
  <2>1. packets'[Pat] = packets[Pat] /\ packets'[Pmt] = packets[Pmt]
    BY <1>5, <1>7
  <2>. QED
    BY <1>1, <1>2, <1>3, <2>1 DEF Versions, PatVersion
<1>15. OnlyBlindGaps'
  BY <1>2, AcceptedJoined DEF OnlyBlindGaps
<1>. QED
  BY <1>10, <1>11, <1>12, <1>13, <1>14, <1>15 DEF IInv

(* The error paths of parse_ts_psi() are reached after such a gap only. *)
LEMMA PsiErrorInv == IInv /\ PsiError => IInv'
<1>. SUFFICES ASSUME IInv, PsiError PROVE IInv'
  OBVIOUS
<1>. DEFINE k == [packets[Pmt] EXCEPT !.continuity = wire.cc]
<1>1. /\ Types /\ Source /\ Registrations /\ Sections /\ Versions
  BY DEF IInv
<1>2. /\ Acceptable /\ Accepted /\ wire.pid \in Psi /\ ~wire.start
      /\ outcome' = "ts_error" /\ streams' = streams
      /\ packets' = [packets EXCEPT ![wire.pid].continuity = wire.cc]
  BY DEF PsiError
<1>3. /\ wire # NoPacket /\ ~wire.error /\ Taken /\ ~Own.wait
      /\ left' = left /\ version' = version
  BY <1>2, AcceptedFacts
<1>4. wire.pid = Pmt /\ wire.step = 1
  BY <1>1, <1>2, <1>3 DEF Source, Psi
<1>5. /\ wire.cc \in 0 .. CC - 1 /\ packets \in [Pids -> Kinds]
      /\ Pmt \in Pids /\ Pat \in Pids /\ Pat # Pmt
  BY <1>1, <1>3, WireTypes DEF Types, Pids, Psi, Pat, Pmt
<1>6. packets' = [packets EXCEPT ![Pmt] = k]
  BY <1>2, <1>4, <1>5
<1>7. packets'[Pmt] = k /\ \A q \in Pids \ {Pmt} : packets'[q] = packets[q]
  BY <1>5, <1>6
<1>8. k \in Kinds
  BY <1>5 DEF Kinds
<1>9. /\ k.continuity = wire.cc /\ ~k.wait /\ k.type = packets[Pmt].type
      /\ k.stream = packets[Pmt].stream /\ k.table = packets[Pmt].table
      /\ k.offset = packets[Pmt].offset /\ k.version = packets[Pmt].version
      /\ k.filled = packets[Pmt].filled /\ k.len = packets[Pmt].len
  BY <1>3, <1>4, <1>5 DEF Kinds, Own
<1>10. /\ wire' \in Packets \cup {NoPacket} /\ lost' \in [Pids -> Nat]
       /\ clean' \in [Pids -> BOOLEAN] /\ joined' \subseteq Int
       /\ cc' \in [Pids -> 0 .. CC - 1] /\ left' \in 0 .. PmtPackets - 1
       /\ version' \in [Psi -> 0 .. MaxVersion] /\ faults' \in 0 .. MaxFaults
       /\ Source' /\ Losses' /\ CleanOK' /\ Sync'
  <2>1. packets'[wire.pid].continuity = wire.cc /\ ~packets'[wire.pid].wait
    BY <1>4, <1>7, <1>9
  <2>2. \A q \in Pids \ {wire.pid} :
          packets'[q] = packets[q] \/ (packets'[q].wait /\ ~clean'[q])
    BY <1>4, <1>7
  <2>. QED
    BY <1>2, <2>1, <2>2, AcceptedInv
<1>11. Types'
  <2>1. packets' \in [Pids -> Kinds]
    BY <1>5, <1>6, <1>8
  <2>. QED
    BY <1>1, <1>2, <1>10, <2>1 DEF Types, Outcomes
<1>12. Registrations'
  <2>. SUFFICES ASSUME NEW q \in Pids PROVE Sound(q)'
    BY DEF Registrations
  <2>1. CASE q = Pmt
    <3>1. Sound(q) /\ ~packets[q].wait
      BY <1>1, <1>3, <1>4, <2>1 DEF Registrations, Own
    <3>2. wire.cc # Unset
      BY <1>5, StreamAssumption DEF Unset
    <3>. QED
      BY <1>2, <1>7, <1>9, <2>1, <3>1, <3>2 DEF Sound
  <2>2. CASE q # Pmt
    <3>1. streams \in Nat /\ streams >= streams
      BY <1>1 DEF Types
    <3>. QED
      BY <1>2, <1>7, <2>2, <3>1, SoundFrame
  <2>. QED
    BY <2>1, <2>2
<1>13. 0 \in joined'
  <2>1. /\ Pending(Pmt) /\ (0 \in joined' \/ lost[Pmt] = 0)
        /\ joined \subseteq joined'
    BY <1>2, <1>4, AcceptedJoined
  <2>2. SUFFICES ASSUME lost[Pmt] = 0, 0 \notin joined PROVE FALSE
    BY <2>1
  <2>3. packets[Pmt].offset = PmtPackets - LeftBefore
    BY <1>1, <1>3, <1>4, <2>2 DEF Sections, Own
  <2>4. LeftBefore = left + 1 /\ left + 1 < PmtPackets
    BY <1>1, <1>2, <1>3, <1>4, <2>1 DEF LeftBefore, Source
  <2>5. /\ left \in Nat /\ PmtPackets \in Nat /\ TableMax \in Nat
        /\ PmtPackets <= TableMax
    BY <1>1, StreamAssumption DEF Types
  <2>6. packets[Pmt].offset = 0 \/ packets[Pmt].offset >= TableMax
    BY <1>4 DEF PsiError, Own
  <2>. QED
    BY <2>3, <2>4, <2>5, <2>6
<1>14. Sections' /\ OnlyBlindGaps'
  BY <1>2, <1>13, AcceptedJoined DEF Sections, OnlyBlindGaps
<1>15. Versions'
  <2>1. packets'[Pat] = packets[Pat]
    BY <1>5, <1>7
  <2>. QED
    BY <1>1, <1>2, <1>3, <1>7, <1>9, <2>1 DEF Versions, PatVersion
<1>. QED
  BY <1>10, <1>11, <1>12, <1>14, <1>15 DEF IInv
-----------------------------------------------------------------------------
(* Sections of tables *)

(* What parse_ts_psi() has of a section after this packet. *)
Assembled == Filled([Own EXCEPT !.type = "psi", !.continuity = wire.cc])

LEMMA AssembledFacts ==
  ASSUME IInv, Acceptable, wire # NoPacket, wire.pid \in Psi,
         wire.start \/ Own.offset \in 1 .. TableMax - 1, wire.start \/ ~Own.wait
  PROVE  /\ Assembled \in Kinds /\ Assembled.type = "psi"
         /\ Assembled.continuity = wire.cc /\ wire.cc # Unset
         /\ ~Assembled.wait /\ Assembled.table /\ Assembled.stream = 0
         /\ Assembled.version = Own.version
         /\ Assembled.len = SectionPackets(wire.pid) /\ Assembled.len \in Nat \ {0}
         /\ Assembled.offset = (IF wire.start THEN 1 ELSE Own.offset + 1)
         /\ Assembled.offset \in 1 .. TableMax
         /\ Assembled.filled <= version[wire.pid]
         /\ wire.start => Assembled.filled = version[wire.pid]
         /\ ~wire.start => Assembled.filled = Own.filled
<1>. DEFINE p == wire.pid
            o == packets[p]
            n == [o EXCEPT !.type = "psi", !.continuity = wire.cc]
<1>1. Types /\ Source /\ Registrations /\ Versions
  BY DEF IInv
<1>2. /\ p \in Pids /\ o \in Kinds /\ wire.cc \in 0 .. CC - 1 /\ wire.version \in Nat
      /\ TableMax \in Nat /\ TableMax >= 1 /\ CC <= Unset
      /\ version[p] \in Nat /\ wire.version = version[p]
      /\ SectionPackets(p) \in Nat \ {0}
  BY <1>1, WireTypes, KindTypes, StreamAssumption
     DEF Types, Source, SectionPackets
<1>3. Sound(p)
  BY <1>1, <1>2 DEF Registrations
<1>4. n \in Kinds /\ n.type = "psi" /\ n.continuity = wire.cc
      /\ n.wait = o.wait /\ n.table = o.table /\ n.stream = o.stream
      /\ n.version = o.version /\ n.len = o.len /\ n.offset = o.offset
      /\ n.filled = o.filled
  BY <1>2 DEF Kinds
<1>5. Assembled = Filled(n)
  BY DEF Assembled, Own
<1>6. wire.cc # Unset /\ o.stream = 0
  <2>1. wire.cc # Unset
    BY <1>2, StreamAssumption DEF Unset
  <2>2. o.stream = 0
    BY <1>3 DEF Sound
  <2>. QED
    BY <2>1, <2>2
<1>7. CASE wire.start
  <2>. DEFINE m == [n EXCEPT !.wait = FALSE, !.table = TRUE, !.offset = 1,
                             !.len = SectionPackets(p), !.filled = wire.version]
  <2>1. Assembled = m
    BY <1>5, <1>7 DEF Filled
  <2>2. /\ TRUE \in BOOLEAN /\ FALSE \in BOOLEAN /\ 1 \in 0 .. TableMax
        /\ SectionPackets(p) \in Nat
    BY <1>2
  <2>3. m \in Kinds
    BY <1>2, <1>4, <2>2, Zenon DEF Kinds
  <2>4. /\ m.type = "psi" /\ m.continuity = wire.cc /\ ~m.wait /\ m.table
        /\ m.stream = o.stream /\ m.version = o.version
        /\ m.len = SectionPackets(p) /\ m.offset = 1 /\ m.filled = wire.version
    BY <1>4 DEF Kinds
  <2>. QED
    BY <1>2, <1>6, <1>7, <2>1, <2>3, <2>4 DEF Own
<1>8. CASE ~wire.start
  <2>. DEFINE m == [n EXCEPT !.offset = n.offset + 1]
  <2>1. Assembled = m
    BY <1>5, <1>8 DEF Filled
  <2>2. ~o.wait /\ o.offset \in 1 .. TableMax - 1
    BY <1>8 DEF Own
  <2>3. n.offset + 1 \in 0 .. TableMax /\ n.offset + 1 \in 1 .. TableMax
    BY <1>2, <1>4, <2>2
  <2>4. m \in Kinds
    BY <1>4, <2>3 DEF Kinds
  <2>5. /\ m.type = "psi" /\ m.continuity = wire.cc /\ m.wait = o.wait
        /\ m.table = o.table /\ m.stream = o.stream /\ m.version = o.version
        /\ m.len = o.len /\ m.offset = o.offset + 1 /\ m.filled = o.filled
    BY <1>4 DEF Kinds
  <2>6. o.table /\ o.len = SectionPackets(p)
    BY <1>2, <1>3, <2>2 DEF Sound
  <2>7. p = Pmt
    BY <1>1, <1>8 DEF Source, Psi
  <2>8. o.filled <= version[p]
    BY <1>1, <2>6, <2>7 DEF Versions
  <2>. QED
    BY <1>2, <1>4, <1>6, <1>8, <2>1, <2>2, <2>3, <2>4, <2>5, <2>6, <2>8 DEF Own
<1>. QED
  BY <1>7, <1>8

(* The section of a PMT that is taken is as far as what has been sent. *)
LEMMA PmtSection ==
  ASSUME IInv, Acceptable, Accepted, wire.pid = Pmt,
         packets'[Pmt].offset = Assembled.offset,
         wire.start \/ Own.offset \in 1 .. TableMax - 1
  PROVE  Sections'
<1>1. Types /\ Source /\ Sections
  BY DEF IInv
<1>2. /\ wire # NoPacket /\ ~wire.error /\ Taken
      /\ wire.start \/ ~Own.wait
      /\ left' = left
  BY AcceptedFacts
<1>3. /\ Pmt \in Psi /\ left \in Nat /\ PmtPackets \in Nat \ {0}
      /\ packets[Pmt].offset \in Nat
  BY <1>1, KindTypes, StreamAssumption DEF Types, Pids, Psi
<1>4. LeftBefore' = left
  BY <1>2, TakenPending DEF LeftBefore, Pids, Psi
<1>5. packets'[Pmt].offset = IF wire.start THEN 1 ELSE packets[Pmt].offset + 1
  BY <1>2, <1>3, AssembledFacts DEF Own
<1>6. CASE wire.start
  <2>1. left = PmtPackets - 1
    BY <1>1, <1>2, <1>6 DEF Source
  <2>. QED
    BY <1>3, <1>4, <1>5, <1>6, <2>1 DEF Sections
<1>7. CASE ~wire.start
  <2>. SUFFICES ASSUME 0 \notin joined'
                PROVE  packets'[Pmt].offset = PmtPackets - left
    BY <1>4 DEF Sections
  <2>1. wire.step = 1
    BY <1>1, <1>2, <1>3 DEF Source
  <2>2. Pending(Pmt) /\ lost[Pmt] = 0 /\ 0 \notin joined
    BY <1>7, <2>1, AcceptedJoined
  <2>3. LeftBefore = left + 1
    BY <1>7, <2>2 DEF LeftBefore
  <2>4. packets[Pmt].offset = PmtPackets - (left + 1)
    BY <1>1, <1>2, <1>7, <2>2, <2>3 DEF Sections, Own
  <2>. QED
    BY <1>3, <1>5, <1>7, <2>4
<1>. QED
  BY <1>6, <1>7

(* A section is not complete yet, or repeats what is known. *)
LEMMA SectionOnlyInv ==
  ASSUME IInv, Acceptable, Accepted, wire.pid \in Psi,
         wire.start \/ Own.offset \in 1 .. TableMax - 1,
         packets' = [packets EXCEPT ![wire.pid] = Assembled],
         ~(Assembled.offset >= Assembled.len /\ IsNew(Assembled)),
         streams' = streams, outcome' = "continue"
  PROVE  IInv'
<1>. DEFINE p == wire.pid
<1>1. Types /\ Source /\ Registrations /\ Versions
  BY DEF IInv
<1>2. /\ wire # NoPacket /\ ~wire.error /\ Taken
      /\ wire.start \/ ~Own.wait
      /\ left' = left /\ version' = version
      /\ lost' = [lost EXCEPT ![p] = 0]
  BY AcceptedFacts
<1>3. /\ Assembled \in Kinds /\ Assembled.type = "psi"
      /\ Assembled.continuity = wire.cc /\ wire.cc # Unset
      /\ ~Assembled.wait /\ Assembled.table /\ Assembled.stream = 0
      /\ Assembled.version = packets[p].version
      /\ Assembled.len = SectionPackets(p)
      /\ Assembled.offset \in 1 .. TableMax
      /\ Assembled.filled <= version[p]
      /\ wire.start => Assembled.filled = version[p]
      /\ ~wire.start => Assembled.filled = packets[p].filled
  BY <1>2, AssembledFacts DEF Own
<1>4. /\ p \in Pids /\ packets \in [Pids -> Kinds] /\ Pat \in Pids /\ Pmt \in Pids
      /\ Pat # Pmt /\ lost \in [Pids -> Nat] /\ p \notin Pes
  BY <1>1, <1>2, WireTypes, StreamAssumption DEF Types, Pids, Psi, Pat, Pmt
<1>5. packets'[p] = Assembled /\ \A q \in Pids \ {p} : packets'[q] = packets[q]
  BY <1>4
<1>6. /\ wire' \in Packets \cup {NoPacket} /\ lost' \in [Pids -> Nat]
      /\ clean' \in [Pids -> BOOLEAN] /\ joined' \subseteq Int
      /\ cc' \in [Pids -> 0 .. CC - 1] /\ left' \in 0 .. PmtPackets - 1
      /\ version' \in [Psi -> 0 .. MaxVersion] /\ faults' \in 0 .. MaxFaults
      /\ Source' /\ Losses' /\ CleanOK' /\ Sync'
  <2>1. packets'[wire.pid].continuity = wire.cc /\ ~packets'[wire.pid].wait
    BY <1>3, <1>5
  <2>2. \A q \in Pids \ {wire.pid} :
          packets'[q] = packets[q] \/ (packets'[q].wait /\ ~clean'[q])
    BY <1>5
  <2>. QED
    BY <2>1, <2>2, AcceptedInv
<1>7. Types'
  <2>1. packets' \in [Pids -> Kinds]
    BY <1>3, <1>4
  <2>. QED
    BY <1>1, <1>6, <2>1 DEF Types, Outcomes
<1>8. Registrations'
  <2>. SUFFICES ASSUME NEW q \in Pids PROVE Sound(q)'
    BY DEF Registrations
  <2>1. CASE q = p
    BY <1>3, <1>4, <1>5, <2>1 DEF Sound
  <2>2. CASE q # p
    <3>1. streams \in Nat /\ streams >= streams
      BY <1>1 DEF Types
    <3>. QED
      BY <1>5, <2>2, <3>1, SoundFrame
  <2>. QED
    BY <2>1, <2>2
<1>9. Sections'
  <2>1. CASE p = Pmt
    BY <1>5, <2>1, PmtSection
  <2>2. CASE p # Pmt
    <3>1. lost'[Pmt] = lost[Pmt] /\ packets'[Pmt] = packets[Pmt]
      BY <1>2, <1>4, <1>5, <2>2
    <3>2. joined \subseteq joined'
      BY AcceptedJoined
    <3>. QED
      BY <1>2, <2>2, <3>1, <3>2, OtherSection
  <2>. QED
    BY <2>1, <2>2
<1>10. Versions'
  <2>1. CASE p = Pat
    <3>1. packets'[Pmt] = packets[Pmt] /\ packets'[Pat].version = packets[Pat].version
      BY <1>3, <1>4, <1>5, <2>1
    <3>. QED
      BY <1>1, <1>2, <3>1 DEF Versions, PatVersion
  <2>2. CASE p = Pmt
    <3>1. /\ packets'[Pat] = packets[Pat] /\ PatVersion' = PatVersion
          /\ packets'[Pmt] = Assembled
      BY <1>4, <1>5, <2>2 DEF PatVersion
    <3>2. packets[Pmt].type # "none"
      BY <1>4, <2>2 DEF Acceptable, Registered, Own
    <3>3. packets[Pat].version # Unset
      BY <1>1, <3>2 DEF Versions
    <3>4. /\ Sound(Pmt) /\ streams \in Nat /\ version[Pmt] \in Nat
          /\ packets[Pmt].filled \in Nat /\ packets[Pmt].version \in Nat
          /\ packets[Pmt].offset \in Nat /\ Assembled.filled \in Nat
          /\ Assembled.offset > 0
          /\ packets[Pat].version \in Nat
      BY <1>1, <1>3, <1>4, KindTypes DEF Registrations, Types, Psi, Kinds
    <3>5. PatVersion \in Nat
      BY <3>4 DEF PatVersion
    <3>6. packets[Pmt].table => packets[Pmt].filled <= Assembled.filled
      BY <1>1, <1>3, <2>2, <3>4 DEF Versions
    <3>7. packets[Pmt].version # Unset =>
            /\ packets[Pmt].version <= Assembled.filled
            /\ streams <= PatVersion + packets[Pmt].version + 1
      BY <1>1, <3>4, <3>6 DEF Versions, Sound
    <3>8. packets[Pmt].version = Unset => streams <= PatVersion + Assembled.filled
      <4>. SUFFICES ASSUME packets[Pmt].version = Unset
                    PROVE  streams <= PatVersion + Assembled.filled
        OBVIOUS
      <4>1. streams <= PatVersion + (IF packets[Pmt].offset > 0
                                     THEN packets[Pmt].filled ELSE version[Pmt])
        BY <1>1 DEF Versions
      <4>2. CASE packets[Pmt].offset > 0
        <5>1. packets[Pmt].table
          BY <3>4, <4>2 DEF Sound
        <5>. QED
          BY <3>4, <3>5, <3>6, <4>1, <4>2, <5>1
      <4>3. CASE ~(packets[Pmt].offset > 0)
        <5>1. wire.start
          BY <2>2, <3>4, <4>3 DEF Own
        <5>. QED
          BY <1>3, <2>2, <4>1, <4>3, <5>1
      <4>. QED
        BY <4>2, <4>3
    <3>. QED
      BY <1>1, <1>2, <1>3, <2>2, <3>1, <3>3, <3>4, <3>7, <3>8 DEF Versions
  <2>. QED
    BY <2>1, <2>2 DEF Psi
<1>11. OnlyBlindGaps'
  BY AcceptedJoined DEF OnlyBlindGaps
<1>. QED
  BY <1>6, <1>7, <1>8, <1>9, <1>10, <1>11 DEF IInv

(* A new PAT: the PMT and the streams it announced are forgotten. *)
LEMMA ParsePatInv ==
  ASSUME IInv, Acceptable, Accepted, wire.pid = Pat, wire.start,
         packets' = ParsePat([packets EXCEPT ![wire.pid] = Assembled],
                             Assembled.filled),
         IsNew(Assembled), streams' = streams, outcome' = "continue"
  PROVE  IInv'
<1>. DEFINE k == packets[Pmt]
            pks == [packets EXCEPT ![Pat] = Assembled]
            kept == ClearPmt(pks)
            a == [Assembled EXCEPT !.version = Assembled.filled]
<1>1. Types /\ Registrations /\ CleanOK /\ Versions
  BY DEF IInv
<1>2. /\ wire # NoPacket /\ ~wire.error /\ Taken
      /\ left' = left /\ version' = version /\ lost' = [lost EXCEPT ![Pat] = 0]
      /\ \A q \in Pids \ {Pat} : clean'[q] =>
           /\ clean[q] /\ packets'[q].stream = packets[q].stream
           /\ packets[q].table => packets'[q].table
  BY AcceptedFacts
<1>3. /\ packets \in [Pids -> Kinds] /\ Pat \in Pids /\ Pmt \in Pids
      /\ Pat \in Psi /\ Pmt \in Psi /\ Pat # Pmt /\ Pids = Psi \cup Pes
      /\ Pat \notin Pes /\ Pmt \notin Pes /\ lost \in [Pids -> Nat]
      /\ \A q \in Pes : q # Pat /\ q # Pmt /\ q \in Pids
  BY <1>1, StreamAssumption DEF Types, Pids, Psi, Pat, Pmt
<1>4. /\ Assembled \in Kinds /\ Assembled.type = "psi"
      /\ Assembled.continuity = wire.cc /\ wire.cc # Unset
      /\ ~Assembled.wait /\ Assembled.table /\ Assembled.stream = 0
      /\ Assembled.version = packets[Pat].version
      /\ Assembled.len = SectionPackets(Pat)
      /\ Assembled.offset \in 1 .. TableMax
      /\ Assembled.filled = version[Pat]
  BY <1>2, <1>3, AssembledFacts DEF Own
<1>5. /\ pks \in [Pids -> Kinds] /\ pks[Pat] = Assembled
      /\ \A q \in Pids \ {Pat} : pks[q] = packets[q]
  BY <1>3, <1>4
<1>6. packets' = [kept EXCEPT ![Pmt].type = "psi",
![Pat].version = Assembled.filled]
  BY DEF ParsePat
<1>7. Unregistered \in Kinds /\ Unregistered.type = "none" /\ Unregistered.wait
      /\ ~Unregistered.table /\ Unregistered.stream = 0 /\ Unregistered.offset = 0
      /\ Unregistered.version = Unset
  <2>1. 0 \in 0 .. TableMax /\ Unset \in Nat /\ TRUE \in BOOLEAN /\ FALSE \in BOOLEAN
    BY StreamAssumption DEF Unset
  <2>2. 0 \in Nat
    OBVIOUS
  <2>3. Unregistered \in Kinds
    BY <2>1, <2>2, Zenon DEF Unregistered, NewPacket, Kinds
  <2>. QED
    BY <2>3 DEF Unregistered, NewPacket
<1>8. /\ kept \in [Pids -> Kinds] /\ kept[Pat] = Assembled
      /\ k.table => kept[Pmt] = Unregistered
      /\ ~k.table => kept[Pmt] = k
      /\ \A q \in Pes : \/ kept[q] = packets[q]
                        \/ kept[q] = Unregistered /\ packets[q].type = "pes"
  <2>1. CASE k.table
    <3>. DEFINE c == ClearPes(pks)
    <3>1. kept = [c EXCEPT ![Pmt] = Unregistered]
      BY <1>3, <1>5, <2>1 DEF ClearPmt
    <3>2. c = [q \in Pids |-> IF pks[q].type = "pes" THEN Unregistered ELSE pks[q]]
      BY DEF ClearPes
    <3>3. c \in [Pids -> Kinds]
      BY <1>5, <1>7, <3>2
    <3>4. c[Pat] = Assembled
      BY <1>3, <1>4, <1>5, <3>2
    <3>5. \A q \in Pes : \/ c[q] = packets[q]
                         \/ c[q] = Unregistered /\ packets[q].type = "pes"
      BY <1>3, <1>5, <3>2
    <3>. HIDE DEF c
    <3>6. kept \in [Pids -> Kinds]
      BY <1>7, <3>1, <3>3
    <3>7. kept[Pmt] = Unregistered /\ \A q \in Pids \ {Pmt} : kept[q] = c[q]
      BY <1>3, <3>1, <3>3
    <3>. QED
      BY <1>3, <2>1, <3>4, <3>5, <3>6, <3>7
  <2>2. CASE ~k.table
    <3>1. kept = pks
      BY <1>3, <1>5, <2>2 DEF ClearPmt
    <3>. QED
      BY <1>3, <1>5, <2>2, <3>1
  <2>. QED
    BY <2>1, <2>2
<1>. HIDE DEF kept
<1>9. Sound(Pmt) /\ Sound(Pat) /\ k \in Kinds
  BY <1>1, <1>3 DEF Registrations
<1>10. /\ a \in Kinds /\ a.type = "psi" /\ a.continuity = wire.cc
       /\ ~a.wait /\ a.table /\ a.stream = 0 /\ a.version = version[Pat]
       /\ a.len = SectionPackets(Pat)
  BY <1>4 DEF Kinds
<1>11. PICK m \in Kinds :
         /\ packets' = [kept EXCEPT ![Pmt] = m, ![Pat] = a]
         /\ m.type = "psi" /\ m.wait /\ ~m.table /\ m.stream = 0 /\ m.offset = 0
         /\ m.version = Unset
  <2>. DEFINE m == [kept[Pmt] EXCEPT !.type = "psi"]
  <2>1. kept[Pmt] \in Kinds /\ kept[Pat] = Assembled
    BY <1>3, <1>8
  <2>2. m \in Kinds /\ m.type = "psi" /\ m.wait = kept[Pmt].wait
        /\ m.table = kept[Pmt].table /\ m.stream = kept[Pmt].stream
        /\ m.offset = kept[Pmt].offset /\ m.version = kept[Pmt].version
    BY <2>1 DEF Kinds
  <2>3. packets' = [kept EXCEPT ![Pmt] = m, ![Pat] = a]
    BY <1>3, <1>6, <1>8, <2>1
  <2>4. /\ kept[Pmt].wait /\ ~kept[Pmt].table /\ kept[Pmt].stream = 0
        /\ kept[Pmt].offset = 0 /\ kept[Pmt].version = Unset
    <3>1. CASE k.table
      BY <1>7, <1>8, <3>1
    <3>2. CASE ~k.table
      BY <1>3, <1>8, <1>9, <3>2 DEF Sound
    <3>. QED
      BY <3>1, <3>2
  <2>. QED
    BY <2>2, <2>3, <2>4
<1>. HIDE DEF a
<1>12. /\ packets' \in [Pids -> Kinds] /\ packets'[Pat] = a /\ packets'[Pmt] = m
       /\ \A q \in Pes : packets'[q] = kept[q]
  <2>1. packets' = [kept EXCEPT ![Pmt] = m, ![Pat] = a] /\ a \in Kinds
    BY <1>10, <1>11
  <2>2. packets' \in [Pids -> Kinds]
    <3>1. [kept EXCEPT ![Pmt] = m] \in [Pids -> Kinds]
      BY <1>8
    <3>2. packets' = [[kept EXCEPT ![Pmt] = m] EXCEPT ![Pat] = a]
      BY <2>1
    <3>. QED
      BY <2>1, <3>1, <3>2
  <2>3. packets'[Pat] = a /\ packets'[Pmt] = m
    BY <1>3, <1>8, <2>1
  <2>4. \A q \in Pes : packets'[q] = kept[q]
    BY <1>3, <1>8, <2>1
  <2>. QED
    BY <2>2, <2>3, <2>4
<1>13. /\ wire' \in Packets \cup {NoPacket} /\ lost' \in [Pids -> Nat]
       /\ clean' \in [Pids -> BOOLEAN] /\ joined' \subseteq Int
       /\ cc' \in [Pids -> 0 .. CC - 1] /\ left' \in 0 .. PmtPackets - 1
       /\ version' \in [Psi -> 0 .. MaxVersion] /\ faults' \in 0 .. MaxFaults
       /\ Source' /\ Losses' /\ CleanOK' /\ Sync'
  <2>1. packets'[wire.pid].continuity = wire.cc /\ ~packets'[wire.pid].wait
    BY <1>10, <1>12
  <2>2. packets'[Pmt].wait /\ ~clean'[Pmt]
    <3>1. ~k.table => ~clean[Pmt]
      BY <1>1, <1>3, <1>9 DEF CleanOK, Sound
    <3>. QED
      BY <1>2, <1>3, <1>11, <1>12, <3>1
  <2>3. ASSUME NEW q \in Pes
        PROVE  packets'[q] = packets[q] \/ (packets'[q].wait /\ ~clean'[q])
    <3>1. CASE packets'[q] = packets[q]
      BY <3>1
    <3>2. CASE packets'[q] # packets[q]
      <4>1. packets'[q] = Unregistered /\ packets[q].type = "pes"
        BY <1>8, <1>12, <3>2
      <4>2. packets[q].stream > 0 /\ packets'[q].stream = 0
        BY <1>1, <1>3, <1>7, <4>1 DEF Registrations, Sound
      <4>3. clean'[q] => packets'[q].stream = packets[q].stream
        BY <1>2, <1>3
      <4>4. packets'[q].wait
        BY <1>7, <4>1
      <4>. QED
        BY <4>2, <4>3, <4>4
    <3>. QED
      BY <3>1, <3>2
  <2>4. \A q \in Pids \ {wire.pid} :
          packets'[q] = packets[q] \/ (packets'[q].wait /\ ~clean'[q])
    BY <1>3, <2>2, <2>3 DEF Psi
  <2>. QED
    BY <2>1, <2>4, AcceptedInv
<1>14. Types'
  BY <1>1, <1>12, <1>13 DEF Types, Outcomes
<1>15. Registrations'
  <2>1. Sound(Pat)'
    BY <1>3, <1>4, <1>10, <1>12 DEF Sound
  <2>2. Sound(Pmt)'
    BY <1>3, <1>11, <1>12 DEF Sound
  <2>3. ASSUME NEW q \in Pes PROVE Sound(q)'
    <3>1. q \in Pids /\ streams \in Nat /\ streams >= streams
      BY <1>1, <1>3 DEF Types
    <3>2. CASE packets'[q] = packets[q]
      BY <3>1, <3>2, SoundFrame
    <3>3. CASE packets'[q] = Unregistered
      BY <1>3, <1>7, <3>1, <3>3 DEF Sound
    <3>. QED
      BY <1>8, <1>12, <3>2, <3>3
  <2>. QED
    BY <1>3, <2>1, <2>2, <2>3 DEF Registrations, Psi
<1>16. Sections'
  BY <1>11, <1>12 DEF Sections
<1>17. Versions'
  <2>1. /\ streams \in Nat /\ version[Pat] \in 0 .. MaxVersion /\ version[Pmt] \in Nat
        /\ MaxVersion \in Nat /\ MaxVersion < Unset
        /\ k.filled \in Nat /\ k.version \in Nat /\ k.offset \in Nat
        /\ packets[Pat].version \in Nat
    BY <1>1, <1>3, KindTypes, StreamAssumption DEF Types
  <2>2. PatVersion' = version[Pat] /\ version[Pat] # Unset
    <3>1. version[Pat] # Unset
      BY <2>1 DEF Unset
    <3>2. packets'[Pat].version = version[Pat]
      BY <1>10, <1>12
    <3>. QED
      BY <3>1, <3>2 DEF PatVersion
  <2>3. packets[Pat].version # version[Pat]
    BY <1>4 DEF IsNew
  <2>4. streams <= version[Pat] + version[Pmt]
    <3>1. CASE ~k.table
      <4>1. k.version = Unset /\ k.offset = 0
        BY <1>3, <1>9, <3>1 DEF Sound
      <4>2. streams <= PatVersion + version[Pmt]
        BY <1>1, <4>1 DEF Versions
      <4>3. PatVersion \in Nat /\ PatVersion <= version[Pat]
        BY <1>1, <2>1 DEF Versions, PatVersion
      <4>. QED
        BY <2>1, <4>2, <4>3
    <3>2. CASE k.table
      <4>1. packets[Pat].version # Unset
        BY <1>1, <1>9, <3>2 DEF Versions, Sound
      <4>2. PatVersion \in Nat /\ PatVersion + 1 <= version[Pat]
        BY <1>1, <2>1, <2>3, <4>1 DEF Versions, PatVersion
      <4>3. k.filled <= version[Pmt]
        BY <1>1, <3>2 DEF Versions
      <4>4. CASE k.version = Unset
        <5>1. \/ streams <= PatVersion + k.filled
              \/ streams <= PatVersion + version[Pmt]
          BY <1>1, <4>4 DEF Versions
        <5>. QED
          BY <2>1, <4>2, <4>3, <5>1
      <4>5. CASE k.version # Unset
        <5>1. k.version <= k.filled /\ streams <= PatVersion + k.version + 1
          BY <1>1, <4>5 DEF Versions
        <5>. QED
          BY <2>1, <4>2, <4>3, <5>1
      <4>. QED
        BY <4>4, <4>5
    <3>. QED
      BY <3>1, <3>2
  <2>5. packets'[Pat].version = version[Pat] /\ packets'[Pmt] = m
    BY <1>10, <1>12
  <2>. QED
    BY <1>2, <1>11, <2>1, <2>2, <2>4, <2>5 DEF Versions
<1>18. OnlyBlindGaps'
  BY AcceptedJoined DEF OnlyBlindGaps
<1>. QED
  BY <1>13, <1>14, <1>15, <1>16, <1>17, <1>18 DEF IInv

(* A new PMT: its streams replace the old ones. *)
LEMMA ParsePmtInv ==
  ASSUME IInv, Acceptable, Accepted, wire.pid = Pmt,
         wire.start \/ Own.offset \in 1 .. TableMax - 1,
         packets' = ParsePmt([packets EXCEPT ![wire.pid] = Assembled],
                             Assembled.filled),
         IsNew(Assembled), streams' = streams + 1, outcome' = "program_change"
  PROVE  IInv'
<1>. DEFINE k == packets[Pmt]
            pks == [packets EXCEPT ![Pmt] = Assembled]
            m == [Assembled EXCEPT !.version = Assembled.filled]
            e == [NewPacket("pes") EXCEPT !.stream = streams + 1,
            !.streaming = TRUE]
<1>1. Types /\ Registrations /\ Versions
  BY DEF IInv
<1>2. /\ wire # NoPacket /\ ~wire.error /\ Taken
      /\ wire.start \/ ~Own.wait
      /\ left' = left /\ version' = version
      /\ \A q \in Pids \ {Pmt} : clean'[q] =>
           /\ clean[q] /\ packets'[q].stream = packets[q].stream
           /\ packets[q].table => packets'[q].table
  BY AcceptedFacts
<1>3. /\ packets \in [Pids -> Kinds] /\ Pat \in Pids /\ Pmt \in Pids
      /\ Pat \in Psi /\ Pmt \in Psi /\ Pat # Pmt /\ Pids = Psi \cup Pes
      /\ Pat \notin Pes /\ Pmt \notin Pes /\ streams \in Nat
      /\ \A q \in Pes : q # Pat /\ q # Pmt /\ q \in Pids
  BY <1>1, StreamAssumption DEF Types, Pids, Psi, Pat, Pmt
<1>4. /\ Assembled \in Kinds /\ Assembled.type = "psi"
      /\ Assembled.continuity = wire.cc /\ wire.cc # Unset
      /\ ~Assembled.wait /\ Assembled.table /\ Assembled.stream = 0
      /\ Assembled.version = k.version
      /\ Assembled.len = SectionPackets(Pmt)
      /\ Assembled.offset \in 1 .. TableMax
      /\ Assembled.filled <= version[Pmt]
      /\ wire.start => Assembled.filled = version[Pmt]
      /\ ~wire.start => Assembled.filled = k.filled
  BY <1>2, <1>3, AssembledFacts DEF Own
<1>5. /\ pks \in [Pids -> Kinds] /\ pks[Pmt] = Assembled
      /\ \A q \in Pids \ {Pmt} : pks[q] = packets[q]
  BY <1>3, <1>4
<1>6. Sound(Pmt) /\ Sound(Pat) /\ \A q \in Pes : Sound(q)
  BY <1>1, <1>3 DEF Registrations
<1>7. /\ e \in Kinds /\ e.type = "pes" /\ e.wait /\ ~e.table /\ e.offset = 0
      /\ e.version = Unset /\ e.stream = streams + 1
  <2>1. /\ 0 \in 0 .. TableMax /\ Unset \in Nat /\ TRUE \in BOOLEAN
        /\ FALSE \in BOOLEAN /\ streams + 1 \in Nat
    BY <1>3, StreamAssumption DEF Unset
  <2>2. 0 \in Nat
    OBVIOUS
  <2>3. NewPacket("pes") \in Kinds
    BY <2>1, <2>2, Zenon DEF NewPacket, Kinds
  <2>4. e \in Kinds
    BY <2>1, <2>3, Zenon DEF Kinds
  <2>. QED
    BY <2>4 DEF NewPacket
<1>8. /\ m \in Kinds /\ m.type = "psi" /\ m.continuity = wire.cc /\ ~m.wait
      /\ m.table /\ m.stream = 0 /\ m.version = Assembled.filled
      /\ m.len = SectionPackets(Pmt) /\ m.offset = Assembled.offset
      /\ m.filled = Assembled.filled
  BY <1>4 DEF Kinds
<1>9. /\ packets' \in [Pids -> Kinds] /\ packets'[Pat] = packets[Pat]
      /\ packets'[Pmt] = m /\ \A q \in Pes : packets'[q] = e
  <2>. DEFINE kept == ClearPes(pks)
  <2>1. kept = [q \in Pids |-> IF pks[q].type = "pes" THEN Unregistered ELSE pks[q]]
    BY DEF ClearPes
  <2>2. kept[Pmt] = Assembled
    BY <1>3, <1>4, <1>5, <2>1
  <2>3. kept[Pat] = packets[Pat]
    <3>1. packets[Pat].type # "pes"
      BY <1>3, <1>6 DEF Sound
    <3>. QED
      BY <1>3, <1>5, <2>1, <3>1
  <2>4. packets' = [q \in Pids |-> IF q \in Pes THEN e
                                   ELSE IF q = Pmt
                                   THEN [kept[Pmt] EXCEPT !.version = Assembled.filled]
                                   ELSE kept[q]]
    BY DEF ParsePmt
  <2>. HIDE DEF kept, e
  <2>5. /\ packets'[Pat] = packets[Pat] /\ packets'[Pmt] = m
        /\ \A q \in Pes : packets'[q] = e
    BY <1>3, <2>2, <2>3, <2>4
  <2>6. \A q \in Pids : packets'[q] \in Kinds
    <3>1. e \in Kinds /\ m \in Kinds /\ packets[Pat] \in Kinds
      BY <1>3, <1>7, <1>8
    <3>. HIDE DEF m
    <3>2. \A q \in Pids : q = Pat \/ q = Pmt \/ q \in Pes
      BY <1>3 DEF Psi
    <3>. QED
      BY <2>5, <3>1, <3>2
  <2>7. packets' = [q \in Pids |-> packets'[q]]
    BY <2>4
  <2>. QED
    BY <2>5, <2>6, <2>7
<1>. HIDE DEF e, m
<1>10. /\ wire' \in Packets \cup {NoPacket} /\ lost' \in [Pids -> Nat]
       /\ clean' \in [Pids -> BOOLEAN] /\ joined' \subseteq Int
       /\ cc' \in [Pids -> 0 .. CC - 1] /\ left' \in 0 .. PmtPackets - 1
       /\ version' \in [Psi -> 0 .. MaxVersion] /\ faults' \in 0 .. MaxFaults
       /\ Source' /\ Losses' /\ CleanOK' /\ Sync'
  <2>1. packets'[wire.pid].continuity = wire.cc /\ ~packets'[wire.pid].wait
    BY <1>8, <1>9
  <2>2. ASSUME NEW q \in Pes PROVE packets'[q].wait /\ ~clean'[q]
    <3>1. packets[q].stream \in Nat /\ packets[q].stream <= streams
      BY <1>1, <1>3, <1>6, KindTypes DEF Sound
    <3>2. packets'[q].stream # packets[q].stream
      <4>1. packets'[q].stream = streams + 1
        BY <1>7, <1>9
      <4>. QED
        BY <1>3, <3>1, <4>1
    <3>. QED
      BY <1>2, <1>3, <1>7, <1>9, <3>2
  <2>3. \A q \in Pids \ {wire.pid} :
          packets'[q] = packets[q] \/ (packets'[q].wait /\ ~clean'[q])
    BY <1>3, <1>9, <2>2 DEF Psi
  <2>. QED
    BY <2>1, <2>3, AcceptedInv
<1>11. Types'
  <2>1. streams' \in Nat
    BY <1>3
  <2>. QED
    BY <1>9, <1>10, <2>1 DEF Types, Outcomes
<1>12. Registrations'
  <2>1. Sound(Pat)'
    <3>1. streams' \in Nat /\ streams' >= streams
      BY <1>3
    <3>. QED
      BY <1>3, <1>9, <3>1, SoundFrame
  <2>2. Sound(Pmt)'
    BY <1>3, <1>4, <1>8, <1>9 DEF Sound
  <2>3. ASSUME NEW q \in Pes PROVE Sound(q)'
    <3>1. streams + 1 > 0
      BY <1>3
    <3>2. packets'[q] = e /\ q \notin Psi
      BY <1>9, StreamAssumption
    <3>3. e.stream > 0 /\ e.stream <= streams'
      BY <1>3, <1>7
    <3>. QED
      BY <1>7, <3>2, <3>3 DEF Sound
  <2>. QED
    BY <1>3, <2>1, <2>2, <2>3 DEF Registrations, Psi
<1>13. Sections'
  BY <1>8, <1>9, PmtSection
<1>14. Versions'
  <2>1. /\ version[Pmt] \in 0 .. MaxVersion
        /\ MaxVersion \in Nat /\ MaxVersion < Unset
        /\ k.filled \in Nat /\ k.version \in Nat /\ k.offset \in Nat
        /\ Assembled.filled \in Nat /\ packets[Pat].version \in Nat
    BY <1>1, <1>3, <1>4, KindTypes, StreamAssumption DEF Types, Kinds
  <2>2. PatVersion \in Nat /\ PatVersion' = PatVersion
    BY <1>9, <2>1 DEF PatVersion
  <2>3. Assembled.filled # Unset
    BY <1>4, <2>1 DEF Unset
  <2>4. packets[Pat].version # Unset
    <3>1. k.type # "none"
      BY <1>2, <1>3 DEF Acceptable, Registered, Own
    <3>. QED
      BY <1>1, <3>1 DEF Versions
  <2>5. k.table => k.filled <= Assembled.filled
    BY <1>1, <1>4, <2>1 DEF Versions
  <2>6. streams <= PatVersion + Assembled.filled
    <3>1. CASE k.version # Unset
      <4>1. k.version <= k.filled /\ streams <= PatVersion + k.version + 1
        BY <1>1, <3>1 DEF Versions
      <4>2. k.table /\ k.version # Assembled.filled
        BY <1>4, <1>6, <3>1 DEF Sound, IsNew
      <4>. QED
        BY <1>3, <2>1, <2>2, <2>5, <4>1, <4>2
    <3>2. CASE k.version = Unset
      <4>1. streams <= PatVersion + (IF k.offset > 0 THEN k.filled
                                     ELSE version[Pmt])
        BY <1>1, <3>2 DEF Versions
      <4>2. CASE k.offset > 0
        <5>1. k.table
          BY <1>6, <4>2 DEF Sound
        <5>. QED
          BY <1>3, <2>1, <2>2, <2>5, <4>1, <4>2, <5>1
      <4>3. CASE ~(k.offset > 0)
        <5>1. wire.start
          BY <2>1, <4>3 DEF Own
        <5>. QED
          BY <1>4, <4>1, <4>3, <5>1
      <4>. QED
        BY <4>2, <4>3
    <3>. QED
      BY <3>1, <3>2
  <2>7. streams' <= PatVersion + Assembled.filled + 1
    BY <1>3, <2>1, <2>2, <2>6
  <2>. QED
    BY <1>1, <1>2, <1>4, <1>8, <1>9, <2>1, <2>2, <2>3, <2>4, <2>7 DEF Versions
<1>15. OnlyBlindGaps'
  BY AcceptedJoined DEF OnlyBlindGaps
<1>. QED
  BY <1>10, <1>11, <1>12, <1>13, <1>14, <1>15 DEF IInv

LEMMA AcceptPsiInv == IInv /\ AcceptPsi => IInv'
<1>. SUFFICES ASSUME IInv, AcceptPsi PROVE IInv'
  OBVIOUS
<1>. DEFINE parse == Assembled.offset >= Assembled.len /\ IsNew(Assembled)
            pks == [packets EXCEPT ![wire.pid] = Assembled]
<1>1. /\ Acceptable /\ Accepted /\ wire.pid \in Psi
      /\ wire.start \/ Own.offset \in 1 .. TableMax - 1
      /\ packets' = (IF ~parse THEN pks
                     ELSE IF wire.pid = Pat THEN ParsePat(pks, Assembled.filled)
                     ELSE ParsePmt(pks, Assembled.filled))
      /\ streams' = IF parse /\ wire.pid = Pmt THEN streams + 1 ELSE streams
      /\ outcome' = IF parse /\ wire.pid = Pmt THEN "program_change" ELSE "continue"
  BY DEF AcceptPsi, Assembled
<1>2. CASE ~parse
  BY <1>1, <1>2, SectionOnlyInv
<1>3. CASE parse /\ wire.pid = Pat
  <2>1. wire # NoPacket /\ Pat # Pmt
    BY <1>1, AcceptedFacts DEF Pat, Pmt
  <2>2. wire.start
    BY <1>3, <2>1 DEF IInv, Source
  <2>. QED
    BY <1>1, <1>3, <2>1, <2>2, ParsePatInv
<1>4. CASE parse /\ wire.pid = Pmt
  <2>1. Pat # Pmt
    BY DEF Pat, Pmt
  <2>. QED
    BY <1>1, <1>4, <2>1, ParsePmtInv
<1>. QED
  BY <1>1, <1>2, <1>3, <1>4 DEF Psi
-----------------------------------------------------------------------------
(* Every step *)

LEMMA StepInv == IInv /\ [Next]_vars => IInv'
<1>. SUFFICES ASSUME IInv, [Next]_vars PROVE IInv'
  OBVIOUS
<1>1. CASE SendPat
  BY <1>1, SendPatInv
<1>2. CASE SendPmt
  BY <1>2, SendPmtInv
<1>3. CASE NewVersion
  BY <1>3, NewVersionInv
<1>4. ASSUME NEW pid \in Pes, SendStart(pid) \/ SendMore(pid) PROVE IInv'
  BY <1>4, SendPesInv
<1>5. CASE Lose
  BY <1>5, LoseInv
<1>6. CASE Corrupt \/ Duplicate
  BY <1>6, CorruptDuplicateInv
<1>7. CASE Ignore
  BY <1>7, IgnoreInv
<1>8. CASE AwaitStart \/ Gap
  BY <1>8, DiscontinuityInv
<1>9. CASE AcceptPsi
  BY <1>9, AcceptPsiInv
<1>10. CASE PsiError
  BY <1>10, PsiErrorInv
<1>11. CASE AcceptPes
  BY <1>11, AcceptPesInv
<1>12. CASE UNCHANGED vars
  <2>1. UNCHANGED <<packets, streams, outcome, wire, cc, left,
  version,
                    faults, lost, clean, joined>>
    BY <1>12 DEF vars, receiver, sender, ghosts
  <2>2. Types' /\ Source' /\ Losses' /\ Registrations' /\ CleanOK'
    BY <2>1 DEF IInv, Types, Source, Losses, Registrations, Sound, CleanOK,
       NoPacket, Outcomes
  <2>3. Sync' /\ Sections'
    BY <2>1
    DEF IInv, Sync, Ahead, Pending, Multiples, Sections, LeftBefore, NoPacket
  <2>4. Versions' /\ OnlyBlindGaps'
    BY <2>1 DEF IInv, Versions, PatVersion, OnlyBlindGaps
  <2>. QED
    BY <2>2, <2>3, <2>4 DEF IInv
<1>. QED
  BY <1>1, <1>2, <1>3, <1>4, <1>5, <1>6, <1>7, <1>8, <1>9, <1>10, <1>11, <1>12
     DEF Next, Process

LEMMA Inductive == Spec => []IInv
<1>. QED
  BY InitInv, StepInv, PTL DEF Spec

(* Whatever is sent, lost, corrupted or doubled, the parser's state keeps  *)
(* its type: the counter of a PID is one or unset, the table buffer does   *)
(* not overflow, and no PID refers to a stream that was never made.        *)
THEOREM TypeCorrect == Spec => []TypeOK
<1>1. IInv => TypeOK
  <2>. SUFFICES ASSUME IInv PROVE TypeOK
    OBVIOUS
  <2>1. Types /\ Losses /\ Registrations
    BY DEF IInv
  <2>2. ASSUME NEW p \in Pids
        PROVE  /\ packets[p].type \in {"none", "psi", "pes"}
               /\ packets[p].continuity \in 0 .. CC - 1 \cup {Unset}
               /\ packets[p].offset \in 0 .. TableMax
               /\ packets[p].stream \in 0 .. streams
    <3>1. packets[p].stream \in Nat /\ streams \in Nat
      BY <2>1, KindTypes DEF Types
    <3>2. packets[p].stream <= streams
      BY <2>1, <3>1 DEF Registrations, Sound, Pids
    <3>. QED
      BY <2>1, <3>1, <3>2, KindTypes
  <2>3. lost \in [Pids -> 0 .. 2 * MaxFaults]
    <3>1. ASSUME NEW p \in Pids PROVE lost[p] \in 0 .. 2 * MaxFaults
      <4>1. faults \in 0 .. MaxFaults /\ MaxFaults \in Nat /\ lost[p] \in Nat
        BY <2>1, StreamAssumption DEF Types
      <4>2. lost[p] <= 2 * faults \/ lost[p] <= 2 * (faults - 1)
        BY <2>1 DEF Losses
      <4>. QED
        BY <4>1, <4>2
    <3>. QED
      BY <2>1, <3>1 DEF Types
  <2>. QED
    BY <2>1, <2>2, <2>3 DEF TypeOK, Types, Outcomes
<1>. QED
  BY <1>1, Inductive, PTL

(* ProcessTSPacket never lets a unit or a section go on across packets the *)
(* counter can show to be missing, and parse_ts_psi() fails only after a   *)
(* gap of a multiple of CC packets.                                        *)
THEOREM AlwaysOnlyBlindGaps == Spec => []OnlyBlindGaps
<1>1. IInv => OnlyBlindGaps
  BY DEF IInv
<1>. QED
  BY <1>1, Inductive, PTL

(* register_pmt() makes new streams no more often than the multiplexer     *)
(* changed a version, whatever happens to the packets of the tables.       *)
THEOREM AlwaysProgramStable == Spec => []ProgramStable
<1>1. IInv => ProgramStable
  <2>. SUFFICES ASSUME IInv PROVE ProgramStable
    OBVIOUS
  <2>. DEFINE k == packets[Pmt]
  <2>1. Types /\ Registrations /\ Versions
    BY DEF IInv
  <2>2. /\ streams \in Nat /\ version[Pat] \in Nat /\ version[Pmt] \in Nat
        /\ k.filled \in Nat /\ k.version \in Nat /\ k.offset \in Nat
        /\ packets[Pat].version \in Nat /\ Sound(Pmt)
    BY <2>1, KindTypes, StreamAssumption DEF Types, Registrations, Pids, Psi
  <2>3. PatVersion \in Nat /\ PatVersion <= version[Pat]
    BY <2>1, <2>2 DEF Versions, PatVersion
  <2>4. k.table => k.filled <= version[Pmt]
    BY <2>1 DEF Versions
  <2>5. CASE k.version = Unset
    <3>1. \/ k.offset > 0 /\ streams <= PatVersion + k.filled
          \/ streams <= PatVersion + version[Pmt]
      BY <2>1, <2>5 DEF Versions
    <3>2. k.offset > 0 => k.table
      BY <2>2 DEF Sound
    <3>. QED
      BY <2>2, <2>3, <2>4, <3>1, <3>2 DEF ProgramStable
  <2>6. CASE k.version # Unset
    <3>1. k.version <= k.filled /\ streams <= PatVersion + k.version + 1
      BY <2>1, <2>6 DEF Versions
    <3>2. k.table
      BY <2>2, <2>6 DEF Sound
    <3>. QED
      BY <2>2, <2>3, <2>4, <3>1, <3>2 DEF ProgramStable
  <2>. QED
    BY <2>5, <2>6
<1>. QED
  BY <1>1, Inductive, PTL

(* A PID that has started a unit and suffered no fault since is in         *)
(* sequence.                                                               *)
LEMMA CleanInSequence ==
  ASSUME IInv, wire # NoPacket, clean[wire.pid]
  PROVE  ~Own.wait /\ ~CounterBreak
<1>. DEFINE p == wire.pid
            n == packets[p].continuity
<1>1. Types /\ Source /\ Registrations /\ CleanOK /\ Sync
  BY DEF IInv
<1>2. /\ p \in Pids /\ wire.step \in 0 .. 2 /\ wire.cc = cc[p]
      /\ cc[p] \in 0 .. CC - 1 /\ wire.copy = "none" /\ ~wire.error
  BY <1>1, WireTypes DEF Types, Source
<1>3. ~packets[p].wait /\ lost[p] = 0
  BY <1>1, <1>2 DEF CleanOK
<1>4. n \in 0 .. CC - 1
  BY <1>1, <1>2, <1>3, KindTypes DEF Registrations, Sound
<1>5. Pending(p)
  BY <1>2 DEF Pending
<1>6. CC \in Nat /\ CC > 1
  BY StreamAssumption
<1>7. Ahead(p) \in Multiples /\ Ahead(p) = n + 0 + wire.step - cc[p]
  BY <1>1, <1>2, <1>3, <1>5 DEF Sync, Ahead
<1>8. CASE wire.step = 0
  <2>1. n - cc[p] \in Multiples
    BY <1>2, <1>4, <1>6, <1>7, <1>8
  <2>2. n = cc[p]
    BY <1>2, <1>4, <2>1, CounterUnique
  <2>. QED
    BY <1>2, <1>3, <1>8, <2>2
       DEF CounterBreak, expected_cc, has_payload, is_discontinuity, Own
<1>9. CASE wire.step = 1
  <2>1. PICK m : m = (n + 1) % CC
    OBVIOUS
  <2>2. m \in 0 .. CC - 1 /\ n + 1 - m \in Multiples
    BY <1>4, <2>1, CounterStep
  <2>3. n + 1 - cc[p] \in Multiples
    BY <1>2, <1>4, <1>6, <1>7, <1>9
  <2>4. (n + 1 - cc[p]) - (n + 1 - m) \in Multiples
    BY <2>2, <2>3, MultiplesClosed
  <2>5. m - cc[p] \in Multiples
    BY <1>2, <1>4, <1>6, <2>2, <2>4
  <2>6. m = cc[p]
    BY <1>2, <2>2, <2>5, CounterUnique
  <2>. QED
    BY <1>2, <1>3, <1>9, <2>1, <2>6
       DEF CounterBreak, expected_cc, has_payload, is_discontinuity, Own
<1>10. CASE wire.step = 2
  BY <1>3, <1>10 DEF CounterBreak, is_discontinuity, Own
<1>. QED
  BY <1>2, <1>8, <1>9, <1>10

(* No false alarm: Demux counts an error only for a PID that suffered a    *)
(* fault, or was registered, since its last unit start.                    *)
THEOREM NoFalseAlarm == Spec => DiscontinuityJustified
<1>1. IInv /\ [Next]_vars =>
        [outcome' = "discontinuity" => wire # NoPacket /\ ~clean[wire.pid]]_vars
  <2>. SUFFICES ASSUME IInv, Next, outcome' = "discontinuity"
                PROVE  wire # NoPacket /\ ~clean[wire.pid]
    OBVIOUS
  <2>1. CASE \/ SendPat \/ SendPmt
             \/ \E pid \in Pes : SendStart(pid) \/ SendMore(pid)
    <3>1. outcome' = "none"
      BY <2>1 DEF SendPat, SendPmt, SendStart, SendMore, Put
    <3>. QED
      BY <3>1
  <2>2. CASE NewVersion
    BY <2>2 DEF NewVersion
  <2>3. CASE Lose \/ Corrupt \/ Duplicate
    <3>1. wire # NoPacket /\ wire.copy = "none" /\ outcome' = outcome
      BY <2>3 DEF Lose, Corrupt, Duplicate, Fault
    <3>2. outcome = "none"
      BY <3>1 DEF IInv, Source
    <3>. QED
      BY <3>1, <3>2
  <2>4. CASE Ignore \/ PsiError
    BY <2>4 DEF Ignore, PsiError
  <2>5. CASE AcceptPsi
    BY <2>5 DEF AcceptPsi
  <2>6. CASE AcceptPes
    BY <2>6 DEF AcceptPes
  <2>7. CASE AwaitStart
    BY <2>7, CleanInSequence DEF AwaitStart
  <2>8. CASE Gap
    BY <2>8, CleanInSequence DEF Gap
  <2>. QED
    BY <2>1, <2>2, <2>3, <2>4, <2>5, <2>6, <2>7, <2>8 DEF Next, Process
<1>. QED
  BY <1>1, Inductive, PTL DEF Spec, DiscontinuityJustified

=============================================================================
