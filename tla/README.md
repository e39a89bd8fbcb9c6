# A verification of the multicast stream tools

The repository is a collection of programs that monitor, exercise and route
multicast streams for set-top boxes. This directory holds TLA+ models of those
with state worth checking, the TLC configurations that check them on small
instances, and proofs, checked by TLAPS, of the main results for instances of
any size:

* `mctest3` joins a multicast group, receives an MPEG transport stream, counts
  errors, changes channel, raises an alarm and starts over; `mpegts_stats` and
  `mpegts-languages` share its ring buffer and parser;
* `mc-quality-monitor` is a source of numbered packets and a receiver that
  reports loss, latency and jitter;
* `log_stb_activity` follows the channel changes of a set-top box in its traffic;
* `monitor_mrt` logs changes of the kernel's multicast routes;
* `pimd_netlink` is a PIM routing daemon, of which the timers, the IGMP groups
  and the election of the designated router are modelled.

`PROJECT.json` lists components, runs, mutants, the map from definitions to
source lines, findings, hazards and theorems.

## 1. Inventory

Paths are below `src/`; `M/` stands for `mctest3/mctest3/src/`, `P/` for
`pimd_netlink/pimd_netlink/src/`.

| Component | State | Operations | Interacts with |
|---|---|---|---|
| Ring buffer, `M/CircularBuffer.cpp` | indices, size, position, cells, two mode flags | `write`, `read`, `GetMaxSize` | socket thread writes, demultiplexer thread reads, both under `StreamReader::m_mutex`; raises the restart signal |
| MPEG-TS reader, `M/tsDemuxer.cpp` 252-404 | `av_pos`, `av_pkt_size`, locals of `configure_ts` | `configure_ts`, `TSResync`, `GoNext` | reads through `Demux::ReadAV` by absolute position |
| MPEG-TS parser, `M/tsDemuxer.cpp` 439-1158 | per PID: counter, wait flag, table section, version, stream object | `ProcessTSPacket`, `ProcessTSPayload`, `parse_ts_psi`, `parse_ts_pes` | `Demux` acts on the return codes |
| Session control, `M/Demux.cpp`, `M/StreamReader.cpp`, `M/thread.cpp`, `M/main.cpp` | five sticky signals, current reader, broken flags | `Init`, `Action`, `Reset`, `Close`, `ReadAV`; reader: `Action`, `prefetch`, `readSocket`, `Close`; `shutdown()` | two threads per stream, leaked reader threads, the signal handler |
| Timeout program, `M/Demux.cpp` 359-379, 433-466 | count of time-outs, three timers | `ExecTimeoutProgram`, part of `ReadAV` | races the reader's own timer for the same silence |
| Quality monitor, `mc-quality-monitor/` | NUM_BUFS packets and latencies, two counters | the receive loop; the send loop | the network |
| `log_stb_activity` | flags and table of one window, the change to take up | `watch_for_changes`, the handlers of `ProcessPacket` | sniffed traffic of box, portal and network |
| `monitor_mrt` | last snapshot, list of entries reported | `getData`, `getDeltas`, `watchMrCache`, `mr_cache.c` | reads the kernel's table every 100 ms |
| pimd timers and IGMP, `P/callout.c`, `P/igmp_proto.c`, `P/vif.c` | queue of timers; groups, querier and flags of an interface | set, clear and age timers; reports, leaves, queries; start and stop of an interface | hosts and other routers; three timers of every group |
| pimd neighbours, `P/pim_proto.c` | neighbour list, DR flag, register interface | hellos, good-byes, time-outs, election | other routers |
| pimd routes, join/prune, assert, rendezvous points | (S,G) and (*,G) tables | message and timer handlers | kernel, network |
| Channel list, lock file, logs, CSV, `StatsWriter` | files | read and write files | called by session control |
| Codec parsers `M/ES_*.cpp` | bit positions | pure functions of the payload | report stream changes |
| `exercise_stb` | a random remote-control script | older version of `log_stb_activity`'s sniffer | remote control, traffic |
| other `monitor_*`, `stream-exerciser`, `mc_test_*`, `basic-tx-rx`, converters | little or none | capture and print, send, convert | network, files |

What is hard here, and what makes each part correct:

* **Ring buffer.** A reader that names absolute positions is followed first by
  seeking and then by differences, in unsigned arithmetic, while the writer
  fills the array. Correct: no index leaves the array, no unread byte is
  overwritten, bytes come out in order, and the two ways of following agree.
* **Reader.** Correct: it asks only for positions the ring can follow, finds
  every packet of an undamaged stream, and after damage passes over no more than
  the search for the next sync byte makes it.
* **Parser.** Loss, damage and duplication hit packets of several PIDs, and
  tables change under way. Correct: nothing is glued together across a hole the
  counter can show, no discontinuity is counted without a fault, streams are
  rebuilt only for a new version, and the parser recovers.
* **Session.** Threads are joined by timed waits on signals that do not add up,
  are shared by successive readers, and can be consumed by the wrong one.
  Correct: rings are not used before or after their life, readers do not pile
  up, every session leaves one row, a shutdown is obeyed unless the process
  exits first, a broken session is replaced.
* **Timeout program.** Two timers race, one of which counts, and the period is
  looked at only when a time-out occurs. Correct: the program runs for the
  second time-out of one period, and no more often than its delay.
* **Quality monitor.** A decision from the two smallest numbers of a small
  window must stand for all losses. Correct: no loss is missed, none is
  invented, each is reported once, jitter is not shown while it is known to be
  wrong.
* **Set-top box.** A change that ends one window is handed to the next one, and
  answers come late, of another channel, or never. Correct: a line that says Ok
  is of its own group, the group asked for last is followed, every window ends.
* **Routes.** Two copies of one table change in different loops and are searched
  by different keys. Correct: they agree, the log shows what is there, every
  time it prints belongs to its entry.
* **IGMP groups.** Timers lie in one queue of differences, are named by numbers,
  cleared, set again and handled in batches. Correct: each group has exactly one
  lifetime.
* **Designated router.** The role is kept while hellos, restarts, priorities and
  time-outs arrive in any order, and most hellos skip the election. Correct: the
  role is that of an election now, nobody usurps it, only the DR registers.

`PROJECT.json` lists the hazards with the line where each bites.

## 2. The modules

| Module | Models | Extends |
|---|---|---|
| `CircularBuffer` | the ring buffer and the contract with its client | |
| `AVReader` | size detection, resync and stepping on top of the ring | `CircularBuffer` |
| `StreamSession` | demultiplexer thread, reader threads, signals | |
| `TsProgram` | the parser, packet by packet | |
| `TimeoutAlarm` | both 60 s timers, the false alarm period, the program | |
| `QualityMonitor` | sender, network and receiver | |
| `StbActivity` | windows of `log_stb_activity` over the traffic | |
| `MrCache` | kernel table, snapshots, cache and log | |
| `Callout` | the timer queue, as operators | |
| `IgmpGroups` | groups, querier and their timers on one interface | `Callout` |
| `SessionSpec` | abstract: the sessions of a stream take turns | |
| `GroupSpec` | abstract: every group has one lifetime | |
| `PimHello` | several routers' neighbour tables and elections | |
| `*Proofs` (eight) | theorems; `CircularBufferProofs` also those of `AVReader`, `PimdProofs` those of `PimHello`, `IgmpGroups` and `Callout` | their modules |
| `MC*` | constants for TLC | their module |

`AVReader` composes reader, ring and socket thread; `IgmpGroups` composes the
handlers of messages and timers with the queue. `AVReader` implements the
specification of the ring (`KeepsContract`), `StreamSession` implements
`SessionSpec` (`SessionsInTurn`) and `IgmpGroups` implements `GroupSpec`
(`MembershipSpec`).

Definitions named `Mut...` are slips of the kind a maintainer might make. None
is used by a specification; each replaces the definition that follows it to show
that a property notices it.

### CircularBuffer

State: the fields of `CircularBufferContext`, `m_ignorePosition`, `m_isBroken`,
the restart signal, the read that `ReadAV` is retrying, and as histories the
number of bytes received and whether the writer has lapped a reader that still
seeks. A byte is its offset in the received stream, so a cell says which byte it
holds. `WriteFull` and `WriteStore` are the two ways through `write`;
`ReadNoData`, `ReadData` and `ReadBroken` those through `read`. One call is one
step because both run under the mutex. Arithmetic on `size_t` is modulo `Word`.

The contract (`ClientMayAsk`) is what the code needs of its caller and does not
check: while seeking, positions up to `beg_index`; later, positions that do not
go back and advance by at most the number of bytes asked for.

### AVReader

`AVAsk` issues the `ReadAV` call that the parser's program counter calls for;
`Probe`, `Score` and `Decide` are the loop of `configure_ts`, `Resync` that of
`TSResync`. The stream is given by the set of offsets that hold 0x47; `Damaged`
in `MCAVReader` takes one away where a packet begins. The property
`KeepsContract` is the specification of the ring itself: `AVReader` implements
it, so everything proved of the ring holds in the program, for the streams of
that run. `PassedOver` counts the packets with their sync byte that lie between
two that are handed on.

### StreamSession

Each `R...` action is a step of `StreamReader::Action` between two points where
the other thread can interfere, each `D...` action one of `Demux::Action`. A
`cCondWait` is a boolean; a timed wait takes it if it is set and otherwise may
time out. Readers are numbered by session; one that `Close` gave up on goes on
running. Whether `select()` delivers, times out, or silence outlasts the timer
is open at each `readSocket`. A ring is uninitialised, live or freed.

`Shutdown` is a signal, and `Exit` is the `exit(6)` with which its handler ends
the process three seconds later, wherever the threads are: the demultiplexer may
still be in the 60 s wait of `ReadAV`. Nothing is left after it but the rows that
were written. `Ended` is that, and the two ways the demultiplexer can crash
(`DReadDead`, and the deleted channel list).

`SessionSpec` is what is promised of it without threads and signals: a session
is begun, its row is written, a reader is asked to stop and let go, in this
order, and readers leave one for each time one was asked; the process may exit
at any time after a shutdown. Which reader leaves is
open, as it is in the code: the signal may reach one that an earlier close gave
up on. `turnBar` and `goneBar` say what the state of `StreamSession` means
there.

### TsProgram

`Put` and the `Send...` actions are a multiplexer that numbers its packets as
the standard says (payload, no payload, announced jump); `Lose`, `Corrupt` and
`Duplicate` are the network. Each packet is then processed by exactly one of
`Ignore`, `AwaitStart`, `Gap`, `AcceptPsi`, `PsiError` and `AcceptPes`, which
together are one pass of `Demux::Action`'s loop. A table is its version and the
number of its packets. `lost`, `clean` and `joined` are histories that know what
the parser cannot.

### QualityMonitor

One action per way through the loop of `mc_qm_recv`: `BadChecksum`, `Toss`
(warm-up), `ClockUnset`, `Skip` (time stamp out of range), `Measure`, `NoData`.
Received sizes other than one packet and receive errors only log, and are left
out.

### TimeoutAlarm

Time is explicit: `Tick` advances it no further than the two loops allow, and a
timer is the time at which it ends. `Receive` and `SelectTimesOut` are the
reader's `readSocket`; `StartRead`, `ReadData`, `ReadBroken`, `ReadTimesOut` and
`ReadWaits` the ways through `ReadAV`'s loop, the last one with `DecideAlarm` and
`ExecTimeoutProgram`; `Reset` is the next session. The histories `timeouts` and
`execs` hold when each was counted or started.

### StbActivity

One action per kind of packet that passes a handler's conditions (`Play`,
`PlayOther`, `V2Report`, `V3Report`, `Data`, `Note`), and for the loop `Watch`
(a window begins, perhaps with the change that ended the last), `Check` (its
top), `Nothing`, `Broken` and `Expire`. An entry is whether it is a report, data
or another, and its group. `asked` is the group the box asked for last; it lasts
through `Watch` until the line of the window that followed it is written. `odd`
says that the code went on after a change or could not read a group, `forgotten`
that the window which was to take a change up could not be set up, and both last
until a window follows what was asked for.

### MrCache

`Watch` is one turn of `watchMrCache` with all of `getDeltas`: what is fresh,
changed and gone, the lines logged with their times, and what the cache then
holds. `Kernel` changes a route between turns, `Overflow` is the exit at
MAX_ENTRIES. `shadow` is what a reader of the log believes to be in the table,
`since` when the log last named an entry.

### Callout, IgmpGroups, GroupSpec

`SetTimer`, `ClearTimer`, `LeftTimer`, `Expired` and `Remaining` are the
functions of `callout.c` on a sequence of nodes that hold differences.
`GroupReport`, `LeaveMessage` and `Query` are the handlers of `igmp_proto.c`; `AgeQueue`
takes off the queue what is due and `Handle` runs one handler of it (`DelVif`,
`SendQuery`, `SwitchVersion`), so that the order of those due together, and what
each does to the others, is part of the model. `AgeVif`, `StopVif` and
`StartVif` are those of `vif.c`. `misused` says that a handler ran on a group
freed before an earlier stop of the interface; the model ends there.

`GroupSpec` has one variable, the time each group has left, and the actions
report, shorten, elapse, expire and down. The refinement mapping `leftBar` reads
that time off the queue, by the number in `al_timerid`.

### PimHello

Every pimd has its neighbour table, DR flag and register interface. `Receive` is
`receive_pim_hello` with its three ways (new, good-bye, known), `Timeout` and
`Stop` delete neighbours, `Start` takes a new generation ID. `Elected` is
`restart_dr_election`. Other implementations (`Foreign`) may leave out their
priority, send priority 0 (which only pimd's own configuration refuses), change
it, and go with or without a good-bye. An entry keeps the priority, 0 when there
was none, and whether there was one, as `parse_pim_hello` does. A hello on the wire is
what its sender would send now, and may be lost; a holdtime may run out at any time.

## 3. The runs

| Run | Distinct states | Shows |
|---|---|---|
| `ring` | 198 842 | index, overwriting, order and skew of the ring |
| `reader` | 135 447 | contract kept, packets at their positions, at most two passed over at a time after damage, on aligned streams |
| `session` | 1 413 892 | four invariants; `SessionSpec` is implemented; shutdown obeyed and broken sessions replaced, unless the process exits first |
| `ts` | 317 417 | only blind gaps, justified discontinuities, stable program, recovery |
| `quality` | 4 455 744 | no loss escapes, jitter paused; all faults, no skipped packets |
| `quality_loss` | 1 543 732 | no false and no double report; loss and damage, all timings, counter wrap |
| `alarm` | 311 270 | the program runs for two time-outs of one period only, and never too often |
| `mrt` | 627 165 | cache and log agree with the table, each time belongs to its entry |
| `igmp` | 476 080 | timers match groups, modes end, one querier; `GroupSpec` is implemented |
| `dr` | 3 469 008 | role up to date, no usurper, only the DR registers |
| `stb` | 15 991 | timer armed, Ok lines of their own group, changes followed through the hand-over, windows end |
| `dr_tie` | 19 340 | a violation: see below |

Types are an invariant of the runs `ts` (`TypeOK`) and `igmp` (`IgmpTypeOK`),
and proved for all instances in every module. `reader` needs none:
`KeepsContract` says more.

`dr_tie` shows where the code departs from its comment. "If all PIM routers on a
network segment support DR-Priority we use that to elect the DR, and use the
highest IP address as the tie breaker" (`P/pim_proto.c:392`), but
`restart_dr_election` keeps the best priority and the highest address apart: the
tie is broken by the highest of *all* addresses. When two routers tie and a
third one of lower priority has the highest address, nobody is the DR, and
nobody registers the sources of the LAN.

### What the properties leave out, because the code does not do it

Conditions in the passing properties, and behaviour read off the source, that a
maintainer should know:

* Reader: `read` copies first and moves by the difference afterwards, so that
  the byte examined is a fixed distance from the *previous* position. Past the
  seek limit that distance is one packet. When one sync byte is damaged,
  `TSResync` steps byte by byte (`M/tsDemuxer.cpp:386`), the ring with it
  (`M/CircularBuffer.cpp:213`), and from then on position and byte are a packet
  less one byte apart: the byte looked at first is that of the packet after, so
  that about every second intact packet is passed over, until the session is
  reopened. `ResyncKeepsUp` bounds what is lost, one packet at a time, two after
  a sync byte that was none; `PacketAtPosition` names both distances. When the
  first byte received does not start a packet, `configure_ts` probes ahead and
  comes back: a negative difference in `size_t`, with which `beg_index` leaves
  the array (same line). Run `reader` therefore has aligned streams, and says
  nothing of that difference.
* Session: `exit(6)`, three seconds after a signal (`M/main.cpp:80`, 88), cuts
  off a session that waits for data, and its row is then missing, which
  `RowPerSession` allows for that one; `prefetch` consumes the shutdown signal and `Action` ignores that it
  did (`M/StreamReader.cpp:264`), which is why `ReadersBounded` bounds the
  readers and does not say one; run-once without a fixed address calls through
  the deleted channel list (`M/Demux.cpp:325`); a new PMT deletes the stream
  objects `m_audioStream` and `m_videoStream` point to (`M/Demux.cpp:846`);
  `-z TRUE` runs for ever and any other value once (`M/main.cpp:410`); a guard
  byte is written one past the ring's memory (`M/StreamReader.cpp:132`).
* Timeout program: when the reader's timer ends first, the silence is not
  counted (`M/Demux.cpp:433`). A failed `execv` leaves a second process in the
  loop (`M/Demux.cpp:376`); it is not modelled.
* Quality monitor (`mc_qm_recv/src/main.cpp`): a packet skipped for its time
  stamp moves the window without a comparison (310), and lets the pause of the
  jitter display run out early (331), so that both properties of `quality` are
  for streams without skipped packets; a packet overtaken while its predecessor
  is the oldest of the window is reported lost and arrives later, so that
  `NoFalseLoss` is for a network that keeps the order; the number in "Packets
  Lost" is one too many (356); after 2^32 packets another 999 are not measured.
* `log_stb_activity` (`packet_sniffer.cpp`): the result of an IGMPv3 report is
  dropped and the case falls through into the leave's (486), so a change is
  noted and the window goes on; its destination is 224.0.0.22, so data is never
  matched; and a window that takes up a change has no report destination until
  the box reports again (180, 215). A request that does not parse leaves the new
  group uninitialised (615). A failed set-up forgets the change it was to take
  up (227-262): the window after it follows nobody until the box asks again, and
  `AskedIsFollowed` excepts just that time (`forgotten`). When the table is full,
  Ok may be written without the data entry.
* `monitor_mrt` (`main.c`): nothing is compared with an empty table, so that what
  follows it is never logged as new (431); a removed entry that is not in the
  cache gets the time of the entry before it (379), so `ElapsedIsOwn` speaks of
  entries the log has named; keys are two addresses concatenated, which can
  coincide (184; excluded by `KeyAssumption`); the program exits at MAX_ENTRIES
  (264).
* IGMP: `DelVif` and `SwitchVersion` due together write to a group just freed
  (`P/igmp_proto.c:887`); `stop_vif` frees groups and leaves their timers, and
  keeps `uv_querier`, so `OneQuerier` speaks of the time before the first stop;
  `SwitchVersion` raises the version one step and is not set again, so that a
  group stays in IGMPv2 mode, of which `ModesEnd` says nothing; the
  threshold for old hosts counts intervals and is compared as seconds
  (`dvmrp.h:163`); every other query of too high a version is refused
  (`P/igmp_proto.c:168`).
* DR: `receive_pim_hello` asks whether `dr_prio` has changed, which is 0 both for
  priority 0 and for no option, and not whether `dr_prio_present` has
  (`P/pim_proto.c:142`). A neighbour that goes from one to the other switches the
  election between priorities and addresses, but none is held: a router of lower
  address may stay the DR while all tables agree, or nobody be it. A pimd that
  heard this is `stale` until its next election, and excepted from `RoleUpToDate`
  and `NoUsurper`. `delete_pim_nbr` does not look at the result of the election it restarts
  (`P/pim_proto.c:273`), harmless while all routers send their priority, which
  `RegisterOnlyAsDR` assumes (it says nothing once one has left it out); the election in `stop_vif` marks an interface that
  is down as DR (`P/vif.c:428`).

### Bounds

* `ring`: 7 cells and 16 bytes make both indices wrap twice; the seek limit 3 is
  below the capacity as 1000 is below 1 000 000; datagrams of 1 and 3 hit and
  cross the end of the array; reads of 1 to 3. `Word` = 64 is larger than any sum
  but small enough that a wrapped difference is far outside the array.
* `reader`: packets of 3 bytes with decoy sizes 4 and 5, scores 2 to 3, sync
  bytes emulated so that a decoy scores as many hits as the real size, and
  damaged one at a time, before and after the seek limit; 54 bytes pass that
  limit and wrap a ring of 24.
* `session`: three sessions, so that a reader given up by the first close meets
  the reader after the next. `Prefetch` = 1 suffices to lose a signal in it.
* `ts`: counters modulo 2 make the gap a counter cannot show two packets long,
  reachable with two faults; a section of three packets has a first, a middle
  and a last; one change of version of either table; one elementary stream.
* `quality`: three buffers, warm-up of four packets as 1000 exceeds five
  buffers, three faults, eight packets so that the window is replaced while
  watched. `quality_loss`: thirteen packets and a counter modulo 7, so that the
  second warm-up begins and ends.
* `alarm`: 2, 3 and 6 units for 60 s, 10 min and 60 min keep their order, not
  their size; 14 units are more than two execution delays, so that the program
  can run, be held back and run again. The proofs cover the real sizes.
* `mrt`: three entries whose order in the snapshot is the reverse of their
  names', one interface and the unresolved one, three times, a limit of three
  entries.
* `igmp`: two groups, so that an error in the queue shifts the other's timers; a
  membership of 3 units and a last member interval of 1, so that timers of
  different purposes fall due together and apart; one router with a lower
  address and one with a higher; agings of 1 or 2 units; the interface goes down
  once, leaving at most one timer. `SYMMETRY` over the groups: the properties
  are invariants and a refinement without fairness, none names a group.
* `dr`, `dr_tie`: pimds 5 and 9 and another router 3 with a lower address,
  priorities 0 (the other router's only), 1 and 2 and none, so that each way of
  electing decides; nothing else is bounded.
* `stb`: three groups, so that a change can be taken back or overtaken; a table
  of four entries, which fills within a window. Nothing else is bounded.

TLC's check for deadlock is of no account here. It is left on for `ring`, `dr` and
`stb`, in which some action is enabled in every state by the shape of the model
(a query of the ring, a hello, the loop), so that it can find nothing. The other
systems may stop: shutdown, the end of a bounded stream or clock, the exit at a
full array, a freed group used. Only `igmp` uses symmetry, and no run a state constraint.

### Fairness

* `session`: weak fairness of the demultiplexer thread as a whole: it is
  scheduled, and its timed waits and timers expire, while the process runs.
  Nothing is assumed of reader threads, which may hang in the kernel, nor of the
  handler's `exit`. `ShutdownStops` and `BrokenReplaced` need no more, because
  `Close` does not wait for ever; both say that it happens or the process ends
  first, since the three seconds of the handler are shorter than the 60 s for
  which `ReadAV` may wait.
* `ts`: a multiplexer repeats PAT and PMT and starts new units for ever (strong
  fairness, as other packets come in between), and the demultiplexer processes
  what has arrived (weak fairness). Faults are bounded, so "once faults are
  over" is part of every behaviour.
* `stb`: weak fairness of `Check` and `Nothing` (the loop runs, as `select()`
  returns within 100 ms) and of `Expire` (the clock runs). Nothing is assumed of
  the traffic. `WindowEnds` needs no fairness of packets, which may come for
  ever without ending the window.

The other modules state safety only. In `TimeoutAlarm` time itself is modelled,
and urgency is in the guard of `Tick`.

## 4. The proofs

Every theorem is for all values of the constants that satisfy the named
assumption of its module; TLC evaluates those assumptions in every run.

**CircularBufferProofs** (`CapacityAssumption`, `ClientAssumption`,
`BoundAssumption`): type correctness and all four properties of run `ring`, for
every capacity above 1, every word above twice the capacity, every set of
datagram and read lengths with seek limit plus read length within the capacity.
The inductive invariant `IInv` joins to the properties:

* `RequestOK`: a pending request still satisfies the contract, because only the
  reader changes what the contract refers to;
* `SizeOK`: `size` is the true number of unread cells, or smaller, while seeks
  may have moved `beg_index` back without recomputing it. This is what makes the
  full test of `write` safe after a failed seek: `size` alone says nothing of
  the cells;
* `SeekOK`: while seeking and not lapped, the array has not wrapped, so that a
  seek back still finds the bytes of that position;
* `DeliveredOK`: the last result is well-formed.

`WindowIntact` is then preserved by `write` because the cells it fills are those
outside the window, and by `read` because a window that moves forward or, while
seeking, back stays within what was received.

The same module proves two theorems of `AVReader` (with `FlutsAssumption` too),
for all packet sizes, scores and streams. What they need of the stream is not
something the code can ensure, so it is a hypothesis; run `reader`'s streams
satisfy all of them in every state.

* `ParserKeepsContract`: `AVSpec` implements the specification of the ring if
  `FoundInTime`: `configure_ts` knows the packet size before it looks at a
  position from the seek limit on. Without that the contract is broken in the
  code as well: from the limit on the ring follows differences, and
  `configure_ts`, which begins again at lower positions, asks for a negative
  one. The invariant is `NextCallAllowed`: whatever comes next, the call the
  parser will make is one the ring allows, since no candidate lies farther
  ahead than the bytes just read.
* `PacketsInPlace`: every packet begins at the offset `av_pos` names, or a packet
  less one byte after it; and at that offset itself in an undamaged stream, of
  which `OnSync` is asked: there is a sync byte wherever a packet is due. The
  invariant, `OnePacketAhead`, says that the bytes are one packet ahead of the
  position last asked for: the ring hands out those at `beg_index` and moves it
  by the difference to the position before. With a step of one packet they are
  those of the position asked for, and with a step of one byte, after a position
  without a sync byte, a packet less that byte ahead.

How many packets `TSResync` passes over (`ResyncKeepsUp`) is model-checked only.

**StreamSessionProofs** (`SessionAssumption`): types, and the four invariants of
run `session`, for any number of sessions and any length of `prefetch`. None but
`RowPerSession` is near to inductive. `IInv` has, besides the types,

* `Books`: what the demultiplexer's step implies of the session's number
  (`Phases`), readers not yet started (`NotYet`), rings that live as long as their
  reader (`Rings`), and by which session a restart was requested (`Requests`);
* `Handshakes`: while every close was answered, the one reader is the current
  one, stops only when told to and once, and no signal is left over
  (`Answered`); while every start was waited for, it has been set up when the
  demultiplexer goes on (`Waited`). `NoDeadRing` follows;
* `Balance`: readers alive and an unread stop signal are together no more than the
  closes that timed out, and the current reader. A reader's last signal, taken
  for that of another one, is paid for by the one that is still alive.
  `ReadersBounded` follows.

`SessionsTakeTurns` is the refinement of `SessionSpec`, step by step. It needs
`IInv` (a session that ends has a reader to ask, a reader that takes the signal
was begun) and one invariant more, `Leaves`: the readers that have made up their
mind, and a signal nobody has taken yet, are together no more than were asked.
A signal that `prefetch` swallows, or that merges with one before, only makes
them fewer; a reader that takes one uses it up.

**TsProgramProofs** (`StreamAssumption`): `TypeCorrect`, `AlwaysOnlyBlindGaps`,
`AlwaysProgramStable` and the action property `NoFalseAlarm`, for any range of the
counter, any streams and sections, any number of faults. A counter is at most as
large as its mark for "unset" allows (`CC <= Unset`), versions do not come round
(the assumption says so: in the code a version has five bits, and a table that
changes 32 times unnoticed counts as unchanged). The heart of `IInv` is `Sync`: for
every PID in a unit, the counter kept, the steps lost since and the packet under
way add up to the multiplexer's counter, modulo `CC`. A packet is accepted only if
it is the next modulo `CC`, so that what is missing is a multiple of it: 0 for
a PID without fault, which gives `NoFalseAlarm`, and otherwise a blind gap.
`Sections` says that until such a gap what has been taken of a table is what was
sent of it, and `Versions` that the PMT is parsed once for each of its versions,
and once more for each of the PAT; `Losses` bounds the steps by the faults.

**QualityMonitorProofs** (`MonitorAssumption`): type correctness, and
`NoLossEscapes`: for every number of buffers above 1, every warm-up and any mix
of faults, a packet that all buffers but the next one have passed without its
arriving lies within a reported gap, provided no packet is skipped for its time
stamp. `LossCovered` is not inductive: it needs `SlotsKnown` (a number in a
buffer is that of a packet that arrived) and `SlotsFilled` (no buffer is empty
once monitoring has begun). The argument is in `MeasureCovers`: if the buffer to
be reused next has passed the missing number as well, the number was covered
before; otherwise that buffer is the smallest, all others lie beyond the missing
number, and the gap between the two smallest is reported now. That the smallest
exists follows from the well-foundedness of < on the naturals.

In a network that loses and corrupts packets but keeps their order (a hypothesis,
as in run `quality_loss`: with packets out of order a false report is possible, and
the code does not claim otherwise), `NoFalseAlarm` and `GapReportedOnce` hold for
any number of buffers. The invariant `OInv` says that the buffers are in the order
of arrival (`Ordered`), so that the one reused next holds the oldest number; that
what arrived is in a buffer or older than all (`Window`); and that a report lies
between two packets of which the older one has left the window since
(`ReportsPassed`), which is why no gap is found twice.

`JitterAlwaysTrusted` (`JInv`: `Counted`, `WarmUpFirst`, `Pausing`): a high
latency is in the buffers no longer than the pause lasts, since both count the
packets. Its hypotheses are those of the property's run, no packet skipped for
its time stamp, and that the packet counter does not come round: in a second
warm-up packets move the buffer pointer without counting the pause down. In the
code the warm-up is a whole number of rounds of the buffers, and nothing is shown
meanwhile; as an invariant of every state the property does not survive it.

**TimeoutAlarmProofs** (`AlarmAssumption`): type correctness, `ExecJustified`,
`ExecSpaced`, and that the count is that of the period running (`AlwaysCounted`).
The last is what the decision stands on: `m_timeoutsDetected` is a number, the
property is about when they happened. To keep it, `IInv` needs `LoopOK` (in a
read, the loop has turned within `LoopWait`, and either this is its first turn
or the period was not over at the last one), `WaitOK` (`dataWaitTimer` was set
no earlier than the last time-out), `PeriodOK` (while the count is positive the
period began with a time-out, and above one another followed in it) and
`ExecsOK` (the delay runs from the last start). An alarm decided only after a
period is over counts a time-out at most `LoopWait` after its end.

**MrCacheProofs** (`MrAssumption`, `AbsentAssumption`): all three
properties of run `mrt`. `IInv` adds `SinceOK`: the cache's time of an entry is
when the log last named it. That gives `ElapsedIsOwn`, an action property, from
the invariant of the state before the step.

**PimdProofs**, for the designated router (`HelloAssumption`): type correctness, `RoleUpToDate`,
`NoUsurper` and `RegisterOnlyAsDR`, for any number of routers, addresses and
priorities, 0 and none among them. `IInv` adds to the types `Configured` (a
pimd's priority is set) and `Unmixed` (until a router left out its option no table
lacks one, and no pimd is `stale`). A hello without an election either repeats the
entry it replaces, or makes its hearer stale.
`RegisterOnlyAsDR` is preserved by the time-out of a neighbour because, with all
priorities known, a router that is the DR stays it when a competitor goes; that
is the reason the code gets away with not looking. `NoUsurper` follows from
`RoleUpToDate` where the tables agree. Both except a pimd while it is stale.

**PimdProofs**, for the groups (`IgmpAssumption`: the time and the number of the
last member queries are not 0, as in the code, where they are constants): all
properties of run `igmp`, and that `IgmpGroups` implements `GroupSpec`
(`MembershipImplemented`), for any groups, times and neighbours and a queue of
any length.

The queue holds differences; the argument is about `Sched(q)`, the set of its
nodes, each with the time until it is due. The lemmas `SetTimerAdds`,
`ClearTimerTakes`, `LeftTimerTells`, `AgedDue` and `AgedRest` say that the
operators of `Callout`, on any queue whose nodes have different numbers, add one
node to that set, take one out, tell its time, and split the set at the time
gone by, each other node keeping its time. `Due` is a recursive function; what it
is at every position is shown by the least position at which it would not be
(`UpTo`, from the well-foundedness of < on the naturals), which needs no
induction theorem. `DueSums` shows that such a function exists, `DueOnly` that it
is the only one.

None of the properties but `OneQuerier` is inductive. `IgmpInv` adds

* `Named`: a timer's number says what it is for, and none is in use twice, so that
  the handlers, which find timers by number, find the one they mean;
* `JoinedOK`: a group with members has its `DelVif` timer, and whatever other
  timer is in the queue for it is the one its fields name. While it ignores leaves
  its time is a short one (`ModesEnd`), and in IGMPv1 mode its third timer runs;
* `GoneOK`: a group that is gone has nothing in the queue, and of those being
  handled at most its `SwitchVersion`, which `DelVif` could not clear;
* `AskedFirst` and `OrderOK`: the query of a leave is due before the end that the
  leave announces (`LeaveTime` is more than one interval), and is handled before it
  when both are due together. Otherwise `SendQuery` would write to a group that
  `DelVif` has freed.

The step of every handler is first brought into one of four forms: it times one
group anew (`Retimes`), lets time pass for all (`Later`), ends a group (`Final`)
or goes unnoticed (`Silent`). The invariant and the refinement are proved of the
forms.

**StbActivityProofs** (`StbAssumption`): type correctness and the three
invariants of run `stb`. `IInv` adds `Shape` (`Scalars`, `Table`, `Armed`,
`Pending`) and `Window`: what each phase implies of flags, timer, group and table. The lemmas
`NotedOK` and those after it say what a table that drops entries when it is full
still contains; `OkIsOwn` rests on them. `AskedIsFollowed` is preserved by the
hand-over (`WatchKeeps`) because `Pending` says that no change is left behind in a
window that goes on.

Only model-checked: liveness (`ShutdownStops`, `BrokenReplaced`, `Recovers`,
`WindowEnds`), which is outside the reach of the prover, and `ResyncKeepsUp`.

## 5. Plan

Done: all modules of section 2, and proofs for all of them. What is left, in this
order:

1. `QualityMonitor`: restarts of the sender. Its numbers begin again below all
   those in the window; what the receiver should report until the window is
   replaced has to be settled first, no document says it.
2. pimd's routes: `process_cache_miss`, the (S,G) flags and the outgoing
   interfaces that join/prune and assert change, on top of `PimHello`.
3. `StatsWriter`'s rewrite of its file, and the lock file.

## 6. Not modelled

* Most of the repository's lines are utility classes of other projects, copied
  into nearly every program (`tools`, `i18n`, `lirc_client`, `thread` but for
  `cCondWait`), socket wrappers, and the vendored daemon; the map covers a small
  share of them for that reason.
* pimd's routes, join/prune, assert, rendezvous points, configuration and kernel
  interface. Its main loop is not in the repository (`main.c` is a test of the
  netlink library), so nothing there calls the handlers; who calls those that
  are modelled is marked external.
* Bit-level codec parsers and time stamps (`ES_*`, `bitstream`,
  `elementaryStream`), which are functions of the payload; the arithmetic of
  latency and bit rate; formatting, logging and CSV layout; generated headers.
* `exercise_stb`: its sniffer is an older form of the one in
  `log_stb_activity`, without taking up changes. It stores the byte count of
  `recv()` before testing it for -1 and writes an entry before its bound check
  (`packet_sniffer.cpp:402`).
* Sniffers that print what they capture and programs that join, send or convert:
  no state from one packet to the next.
* Memory is modelled only where lifetime matters: rings, stream objects, groups.
