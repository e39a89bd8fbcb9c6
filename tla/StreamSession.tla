--------------------------- MODULE StreamSession ---------------------------
(***************************************************************************)
(* One stream under test in mctest3: the demultiplexer thread              *)
(* (Demux::Action) opens a StreamReader thread for each session, reads     *)
(* through its ring buffer, and closes it to change channel, to recover    *)
(* from an error or to shut down.  The threads are coordinated by five     *)
(* cCondWait signals.  A cCondWait is a sticky boolean: Signal() sets it,  *)
(* a successful Wait() clears it, and signals do not add up.               *)
(*                                                                         *)
(* Readers share the signals of their Demux, and a StreamReader is never   *)
(* deleted: one that does not stop in time keeps running beside the next.  *)
(* Time is abstracted: a timed wait or a timer may expire whenever what it *)
(* waits for has not happened yet.  So may the three seconds between a     *)
(* shutdown and exit(): the process may end before the shutdown is obeyed. *)
(***************************************************************************)
EXTENDS Integers, FiniteSets

CONSTANTS
  MaxSessions,   \* bound: sessions opened
  Prefetch,      \* readSocket() calls in StreamReader::prefetch (11)
  Options        \* [once : {"none", "TRUE", "FALSE"}, url : BOOLEAN]: the
                 \* value of -z, and whether -i fixes one channel

ASSUME SessionAssumption ==
  /\ MaxSessions \in Nat \ {0}
  /\ Prefetch \in Nat \ {0}
  /\ Options \subseteq [once : {"none", "TRUE", "FALSE"}, url : BOOLEAN]

Readers == 1 .. MaxSessions

VARIABLES
  opt,
  shutdown, restartAll,      \* m_signalShutdown, m_signalRestartAll
  shutdownReader,            \* m_signalShutdownStreamReader
  started, stopped,          \* m_signalStreamReaderStarted, ...Stopped
  pc,                        \* where Demux::Action is
  after,                     \* what follows Demux::Close
  m_streamReader,            \* the current reader, 0 for NULL
  m_isBroken, m_channelUtils,    \* Demux: m_channelUtils # NULL
  rpc, ctr,                  \* where each StreamReader::Action is
  ring,                      \* each reader's m_circularBuffer
  broken,                    \* each reader's m_isBroken
  avail,                     \* each ring holds a packet
  sessions, rows,            \* history: sessions opened, CSV rows written
  closeTimeouts, startTimedOut,  \* history: waits that timed out
  restartBy                  \* history: session that raised restartAll

signals == <<shutdown, restartAll, shutdownReader, started, stopped>>
demux == <<pc, after, m_streamReader, m_isBroken, m_channelUtils>>
readers == <<rpc, ctr, ring, broken, avail>>
history == <<sessions, rows, closeTimeouts, startTimedOut, restartBy>>
vars == <<opt, signals, demux, readers, history>>

(* main() parses -z: any value but "TRUE" means once.  The default is not. *)
run_once == opt.once # "none" /\ opt.once # "TRUE"

Init ==
  /\ opt \in Options
  /\ shutdown = FALSE /\ restartAll = FALSE /\ shutdownReader = FALSE
  /\ started = FALSE /\ stopped = FALSE
  /\ pc = "close" /\ after = "open"
  /\ m_streamReader = 0
  /\ m_isBroken = FALSE /\ m_channelUtils = FALSE
  /\ rpc = [r \in Readers |-> "none"]
  /\ ctr = [r \in Readers |-> 0]
  /\ ring = [r \in Readers |-> "uninitialised"]
  /\ broken = [r \in Readers |-> FALSE]
  /\ avail = [r \in Readers |-> FALSE]
  /\ sessions = 0 /\ rows = 0
  /\ closeTimeouts = 0 /\ startTimedOut = FALSE
  /\ restartBy = 0
-----------------------------------------------------------------------------
(* The StreamReader thread *)

(* A dead ring or a NULL pointer is a segmentation fault, "exit" is the    *)
(* exit(6) of a signal handler: no thread takes a step any more.           *)
Ended == pc \in {"dead", "null", "exit"}

RGoto(r, where) == ~Ended /\ rpc' = [rpc EXCEPT ![r] = where]

(* Action: the ring is allocated, the group joined ... *)
RSetup(r) ==
  /\ rpc[r] = "create"
  /\ RGoto(r, "joined")
  /\ ring' = [ring EXCEPT ![r] = "live"]
  /\ UNCHANGED <<opt, signals, demux, ctr, broken, avail, history>>

(* ... and only then is the demultiplexer told. *)
RSignalStarted(r) ==
  /\ rpc[r] = "joined"
  /\ RGoto(r, "pre_check")
  /\ started' = TRUE
  /\ UNCHANGED <<opt, shutdown, restartAll, shutdownReader, stopped,
                 demux, ctr, ring, broken, avail, history>>

(* prefetch() stops on the shutdown signal, and clears it; Action ignores  *)
(* the result.                                                             *)
RPrefetchCheck(r) ==
  /\ rpc[r] = "pre_check"
  /\ RGoto(r, IF shutdownReader THEN "check" ELSE "pre_read")
  /\ ctr' = [ctr EXCEPT ![r] = IF shutdownReader THEN 0 ELSE @]
  /\ shutdownReader' = FALSE
  /\ UNCHANGED <<opt, shutdown, restartAll, started, stopped,
                 demux, ring, broken, avail, history>>

(* A slip: a reader that is broken leaves without being asked. *)
MutCheckLeavesBroken(r) ==
  /\ rpc[r] = "check"
  /\ RGoto(r, IF shutdownReader \/ broken[r] THEN "close" ELSE "read")
  /\ shutdownReader' = FALSE
  /\ UNCHANGED <<opt, shutdown, restartAll, started, stopped,
                 demux, ctr, ring, broken, avail, history>>

(* The loop of Action: shut down, or read once more. *)
RCheck(r) ==
  /\ rpc[r] = "check"
  /\ RGoto(r, IF shutdownReader THEN "close" ELSE "read")
  /\ shutdownReader' = FALSE
  /\ UNCHANGED <<opt, shutdown, restartAll, started, stopped,
                 demux, ctr, ring, broken, avail, history>>

(* After a readSocket(): back to the loop or to the rest of prefetch(). *)
RReadDone(r) ==
  IF rpc[r] = "read" THEN RGoto(r, "check") /\ UNCHANGED ctr
  ELSE LET more == ctr[r] + 1 < Prefetch IN
       /\ ctr' = [ctr EXCEPT ![r] = IF more THEN @ + 1 ELSE 0]
       /\ RGoto(r, IF more THEN "pre_check" ELSE "check")

(* readSocket() with nothing to do: broken, or select() timed out. *)
RReadNothing(r) ==
  /\ rpc[r] \in {"pre_read", "read"}
  /\ RReadDone(r)
  /\ UNCHANGED <<opt, signals, demux, ring, broken, avail, history>>

(* readSocket() stores a datagram. *)
RReadStore(r) ==
  /\ rpc[r] \in {"pre_read", "read"}
  /\ ~broken[r]
  /\ RReadDone(r)
  /\ avail' = [avail EXCEPT ![r] = TRUE]
  /\ UNCHANGED <<opt, signals, demux, ring, broken, history>>

(* readSocket() finds the ring full: CircularBuffer::write() asks for a    *)
(* restart of everything.                                                  *)
RReadFull(r) ==
  /\ rpc[r] \in {"pre_read", "read"}
  /\ ~broken[r] /\ avail[r]
  /\ RReadDone(r)
  /\ broken' = [broken EXCEPT ![r] = TRUE]
  /\ restartAll' = TRUE /\ restartBy' = r
  /\ UNCHANGED <<opt, shutdown, shutdownReader, started, stopped, demux,
                 ring, avail, sessions, rows, closeTimeouts, startTimedOut>>

(* readSocket(): no datagram for RECV_DATA_WAIT_MS. *)
RReadSilence(r) ==
  /\ rpc[r] \in {"pre_read", "read"}
  /\ ~broken[r]
  /\ RReadDone(r)
  /\ broken' = [broken EXCEPT ![r] = TRUE]
  /\ UNCHANGED <<opt, signals, demux, ring, avail, history>>

(* Close(): the group is left and the ring freed, under the mutex ... *)
RFree(r) ==
  /\ rpc[r] = "close"
  /\ RGoto(r, "freed")
  /\ ring' = [ring EXCEPT ![r] = "freed"]
  /\ avail' = [avail EXCEPT ![r] = FALSE]
  /\ UNCHANGED <<opt, signals, demux, ctr, broken, history>>

(* ... then the demultiplexer is told. *)
RSignalStopped(r) ==
  /\ rpc[r] = "freed"
  /\ RGoto(r, "exit")
  /\ stopped' = TRUE
  /\ UNCHANGED <<opt, shutdown, restartAll, shutdownReader, started,
                 demux, ctr, ring, broken, avail, history>>

(* Close() when disconnect() throws: nothing is freed and nobody is told.  *)
RCloseThrows(r) ==
  /\ rpc[r] = "close"
  /\ RGoto(r, "exit")
  /\ UNCHANGED <<opt, signals, demux, ctr, ring, broken, avail, history>>

Reader(r) ==
  \/ RSetup(r) \/ RSignalStarted(r) \/ RPrefetchCheck(r) \/ RCheck(r)
  \/ RReadNothing(r) \/ RReadStore(r) \/ RReadFull(r) \/ RReadSilence(r)
  \/ RFree(r) \/ RSignalStopped(r) \/ RCloseThrows(r)
-----------------------------------------------------------------------------
(* The demultiplexer thread *)

(* Close(): the reader is asked to stop ... *)
DClose ==
  /\ pc = "close"
  /\ IF m_streamReader # 0
     THEN shutdownReader' = TRUE /\ pc' = "stopping"
     ELSE pc' = after /\ UNCHANGED shutdownReader
  /\ UNCHANGED <<opt, shutdown, restartAll, started, stopped, after,
                 m_streamReader, m_isBroken, m_channelUtils, readers, history>>

(* ... and given one second; then it is forgotten either way. *)
CloseRest ==
  /\ m_streamReader' = 0
  /\ m_channelUtils' = FALSE
  /\ pc' = after
  /\ UNCHANGED <<opt, shutdown, restartAll, shutdownReader, started, after,
                 m_isBroken, readers, sessions, rows, startTimedOut, restartBy>>

(* A slip in cCondWait::Wait(): the signal is not cleared. *)
MutStoppedSticky ==
  /\ pc = "stopping"
  /\ stopped
  /\ CloseRest
  /\ UNCHANGED <<stopped, closeTimeouts>>

DStopped ==
  /\ pc = "stopping"
  /\ stopped
  /\ stopped' = FALSE
  /\ CloseRest
  /\ UNCHANGED closeTimeouts

DStopTimeout ==
  /\ pc = "stopping"
  /\ ~stopped
  /\ closeTimeouts' = closeTimeouts + 1
  /\ CloseRest
  /\ UNCHANGED stopped

(* The rest of Init(): a new reader is created and its thread started. *)
DOpen ==
  /\ pc = "open"
  /\ m_isBroken' = FALSE
  /\ m_channelUtils' = TRUE
  /\ sessions' = sessions + 1
  /\ m_streamReader' = sessions + 1
  /\ RGoto(sessions + 1, "create")
  /\ pc' = "starting"
  /\ UNCHANGED <<opt, signals, after, ctr, ring, broken, avail, rows,
                 closeTimeouts, startTimedOut, restartBy>>

(* A slip in cCondWait::Wait(): the signal is not cleared. *)
MutStartedSticky ==
  /\ pc = "starting"
  /\ started
  /\ pc' = "loop"
  /\ UNCHANGED <<opt, signals, after, m_streamReader, m_isBroken,
                 m_channelUtils, readers, history>>

(* Init() waits one second for the reader, and goes on either way. *)
DStarted ==
  /\ pc = "starting"
  /\ started
  /\ started' = FALSE
  /\ pc' = "loop"
  /\ UNCHANGED <<opt, shutdown, restartAll, shutdownReader, stopped, after,
                 m_streamReader, m_isBroken, m_channelUtils, readers, history>>

DStartTimeout ==
  /\ pc = "starting"
  /\ ~started
  /\ startTimedOut' = TRUE
  /\ pc' = "loop"
  /\ UNCHANGED <<opt, signals, after, m_streamReader, m_isBroken, m_channelUtils,
                 readers, sessions, rows, closeTimeouts, restartBy>>

(* A slip on shutdown: Close() before OutputCsv(), which then has no reader. *)
MutShutdownNoRow ==
  /\ pc = "loop"
  /\ shutdown
  /\ shutdown' = FALSE
  /\ pc' = "close" /\ after' = "done"
  /\ UNCHANGED <<opt, restartAll, shutdownReader, started, stopped,
                 m_streamReader, m_isBroken, m_channelUtils, readers, history>>

(* A slip on shutdown: only m_isRunning is cleared, not m_running. *)
MutShutdownGoesOn ==
  /\ pc = "loop"
  /\ shutdown /\ sessions < MaxSessions
  /\ shutdown' = FALSE
  /\ rows' = rows + 1
  /\ pc' = "close" /\ after' = "open"
  /\ UNCHANGED <<opt, restartAll, shutdownReader, started, stopped,
                 m_streamReader, m_isBroken, m_channelUtils, readers,
                 sessions, closeTimeouts, startTimedOut, restartBy>>

(* Action's loop, the checks in their order.  Shutdown: write the row,     *)
(* close and end.                                                          *)
DShutdown ==
  /\ pc = "loop"
  /\ shutdown
  /\ shutdown' = FALSE
  /\ rows' = rows + 1
  /\ pc' = "close" /\ after' = "done"
  /\ UNCHANGED <<opt, restartAll, shutdownReader, started, stopped,
                 m_streamReader, m_isBroken, m_channelUtils, readers,
                 sessions, closeTimeouts, startTimedOut, restartBy>>

(* Reset(): write the row, and close at once if this was the only session; *)
(* otherwise Init() closes when Action goes round.                         *)
Reset ==
  /\ rows' = rows + 1
  /\ pc' = "close"
  /\ after' = IF run_once THEN "once" ELSE "open"
  /\ run_once \/ sessions < MaxSessions
  /\ UNCHANGED <<opt, shutdown, shutdownReader, started, stopped,
                 m_streamReader, m_isBroken, m_channelUtils, readers,
                 sessions, closeTimeouts, startTimedOut>>

(* A slip: the restart signal is left set for the next session. *)
MutRestartNotCleared ==
  /\ pc = "loop"
  /\ ~shutdown
  /\ restartAll
  /\ Reset
  /\ UNCHANGED <<restartAll, restartBy>>

DRestart ==
  /\ pc = "loop"
  /\ ~shutdown
  /\ restartAll
  /\ restartAll' = FALSE /\ restartBy' = 0
  /\ Reset

(* Broken, or the channel-change timer has expired. *)
DChange ==
  /\ pc = "loop"
  /\ ~shutdown /\ ~restartAll
  /\ Reset
  /\ UNCHANGED <<restartAll, restartBy>>

(* Reset() with run_once goes on to NextChannel() without -i, although     *)
(* Close() has deleted m_channelUtils.                                     *)
DOnce ==
  /\ pc = "once"
  /\ pc' = IF ~opt.url /\ ~m_channelUtils THEN "null" ELSE "done"
  /\ UNCHANGED <<opt, signals, after, m_streamReader, m_isBroken, m_channelUtils,
                 readers, history>>

(* No check applies: TSResync() calls ReadAV(). *)
DCheck ==
  /\ pc = "loop"
  /\ ~shutdown /\ ~restartAll /\ ~m_isBroken
  /\ pc' = "read"
  /\ UNCHANGED <<opt, signals, after, m_streamReader, m_isBroken, m_channelUtils,
                 readers, history>>

(* A slip: the error of read() is only passed on. *)
MutReadBrokenIgnored ==
  /\ pc = "read"
  /\ broken[m_streamReader]
  /\ pc' = "loop"
  /\ UNCHANGED <<opt, signals, after, m_streamReader, m_isBroken, m_channelUtils,
                 readers, history>>

(* One StreamReader::read() of ReadAV().  A broken reader is noticed       *)
(* before its ring is touched ...                                          *)
DReadBroken ==
  /\ pc = "read"
  /\ broken[m_streamReader]
  /\ m_isBroken' = TRUE
  /\ restartAll' = TRUE /\ restartBy' = sessions
  /\ pc' = "loop"
  /\ UNCHANGED <<opt, shutdown, shutdownReader, started, stopped, after,
                 m_streamReader, m_channelUtils, readers,
                 sessions, rows, closeTimeouts, startTimedOut>>

(* ... a ring that is not there is used all the same.  An uninitialised    *)
(* m_circularBuffer is a pointer to anything.                              *)
DReadDead ==
  /\ pc = "read"
  /\ ~broken[m_streamReader]
  /\ ring[m_streamReader] # "live"
  /\ pc' = "dead"
  /\ UNCHANGED <<opt, signals, after, m_streamReader, m_isBroken, m_channelUtils,
                 readers, history>>

DReadData ==
  /\ pc = "read"
  /\ ~broken[m_streamReader]
  /\ ring[m_streamReader] = "live"
  /\ avail[m_streamReader]
  /\ \E more \in BOOLEAN : avail' = [avail EXCEPT ![m_streamReader] = more]
  /\ pc' = "packet"
  /\ UNCHANGED <<opt, signals, after, m_streamReader, m_isBroken, m_channelUtils,
                 rpc, ctr, ring, broken, history>>

(* No data for READ_DATA_WAIT_MS. *)
DReadTimeout ==
  /\ pc = "read"
  /\ ~broken[m_streamReader]
  /\ ring[m_streamReader] = "live"
  /\ ~avail[m_streamReader]
  /\ m_isBroken' = TRUE
  /\ restartAll' = TRUE /\ restartBy' = sessions
  /\ pc' = "loop"
  /\ UNCHANGED <<opt, shutdown, shutdownReader, started, stopped, after,
                 m_streamReader, m_channelUtils, readers,
                 sessions, rows, closeTimeouts, startTimedOut>>

(* The packet is parsed: GoNext(), or Reset() on a fatal error. *)
DPacket ==
  /\ pc = "packet"
  /\ pc' = "loop"
  /\ UNCHANGED <<opt, signals, after, m_streamReader, m_isBroken, m_channelUtils,
                 readers, history>>

DPacketFatal ==
  /\ pc = "packet"
  /\ Reset
  /\ UNCHANGED <<restartAll, restartBy>>

Demux ==
  \/ DClose \/ DStopped \/ DStopTimeout \/ DOpen \/ DStarted \/ DStartTimeout
  \/ DShutdown \/ DRestart \/ DChange \/ DOnce \/ DCheck
  \/ DReadBroken \/ DReadDead \/ DReadData \/ DReadTimeout
  \/ DPacket \/ DPacketFatal

(* main.cpp's shutdown(), from a signal handler ... *)
Shutdown ==
  /\ ~Ended
  /\ shutdown' = TRUE
  /\ UNCHANGED <<opt, restartAll, shutdownReader, started, stopped, demux, readers,
                 sessions, rows, closeTimeouts, startTimedOut, restartBy>>

(* ... which ends the process three seconds later, wherever its threads    *)
(* are.  A handler has raised the signal if it is still set, or if the     *)
(* demultiplexer is on its way out: only DShutdown clears it.              *)
ShutdownRaised == shutdown \/ after = "done"

(* Threads and memory are gone with it. *)
Exit ==
  /\ ~Ended
  /\ ShutdownRaised
  /\ pc' = "exit"
  /\ m_streamReader' = 0 /\ m_isBroken' = FALSE /\ m_channelUtils' = FALSE
  /\ shutdown' = FALSE /\ restartAll' = FALSE /\ shutdownReader' = FALSE
  /\ started' = FALSE /\ stopped' = FALSE
  /\ rpc' = [r \in Readers |-> IF r <= sessions THEN "exit" ELSE "none"]
  /\ ctr' = [r \in Readers |-> 0]
  /\ ring' = [r \in Readers |-> "freed"]
  /\ broken' = [r \in Readers |-> FALSE]
  /\ avail' = [r \in Readers |-> FALSE]
  /\ UNCHANGED <<opt, after, history>>

Next == Demux \/ Shutdown \/ Exit \/ \E r \in Readers : Reader(r)

Spec == Init /\ [][Next]_vars

(* While the process runs, the demultiplexer thread keeps being scheduled  *)
(* and its waits expire.  A signal handler that interrupts this very       *)
(* thread keeps it for good, but then Exit follows.                        *)
FairSpec == Spec /\ WF_vars(Demux)
-----------------------------------------------------------------------------
(* Properties *)

RPc == {"none", "create", "joined", "pre_check", "pre_read", "check", "read",
        "close", "freed", "exit"}

TypeOK ==
  /\ opt \in Options
  /\ shutdown \in BOOLEAN /\ restartAll \in BOOLEAN
  /\ shutdownReader \in BOOLEAN /\ started \in BOOLEAN /\ stopped \in BOOLEAN
  /\ pc \in {"close", "stopping", "open", "starting", "loop", "read", "packet",
             "once", "done", "dead", "null", "exit"}
  /\ after \in {"open", "once", "done"}
  /\ m_streamReader \in 0 .. MaxSessions
  /\ m_isBroken \in BOOLEAN /\ m_channelUtils \in BOOLEAN
  /\ rpc \in [Readers -> RPc]
  /\ ctr \in [Readers -> 0 .. Prefetch - 1]
  /\ ring \in [Readers -> {"uninitialised", "live", "freed"}]
  /\ broken \in [Readers -> BOOLEAN]
  /\ avail \in [Readers -> BOOLEAN]
  /\ sessions \in 0 .. MaxSessions
  /\ rows \in Nat /\ closeTimeouts \in Nat /\ startTimedOut \in BOOLEAN
  /\ restartBy \in 0 .. MaxSessions

Alive(r) == rpc[r] \notin {"none", "exit"}

(* The start and stop handshakes are enough to keep the demultiplexer off  *)
(* a ring that is not allocated yet or already freed: it touches one only  *)
(* after some Wait(1000) of Init() or Close() has timed out.               *)
NoDeadRing ==
  pc = "dead" => closeTimeouts > 0 \/ startTimedOut

(* Reader threads do not pile up except by Close() timing out: at any time *)
(* at most one more is alive than closes have timed out, although signals  *)
(* get lost in prefetch(), merge, and are answered by the wrong reader.    *)
ReadersBounded ==
  Cardinality({r \in Readers : Alive(r)}) <= 1 + closeTimeouts

(* Each session leaves exactly one row of statistics, however it ends.     *)
(* Only the session that exit() cuts short may be without one.             *)
RowPerSession ==
  LET missing == sessions - rows IN
  CASE pc = "exit" -> missing \in {0, 1}
    [] pc \in {"starting", "loop", "read", "packet", "dead"} -> missing = 1
    [] OTHER -> missing = 0

(* A restart meant for an earlier session hits at most the next one, as    *)
(* long as every close was answered.                                       *)
RestartNotStale ==
  (restartAll /\ closeTimeouts = 0) => restartBy >= sessions - 1

(* shutdown() stops the demultiplexer whatever it is doing, unless it has  *)
(* run into a dead ring first or the process exits first: the signal       *)
(* handler gives it three seconds, a read may wait for sixty.              *)
ShutdownStops == shutdown ~> pc = "done" \/ Ended

(* A session whose reader broke (ring full, silence) is replaced, unless   *)
(* the process ends: the current reader does not stay a broken one.        *)
SessionBroken == m_streamReader # 0 /\ broken[m_streamReader]

BrokenReplaced ==
  SessionBroken ~> (~SessionBroken \/ sessions = MaxSessions \/ Ended)

(* Where SessionSpec's turn stands, and the readers that leave. *)
turnBar ==
  CASE pc \in {"starting", "loop", "read", "packet"} -> "on"
    [] pc = "close" /\ m_streamReader # 0 -> "written"
    [] pc = "close" /\ m_streamReader = 0 -> "between"
    [] pc = "stopping" -> "asked"
    [] pc = "open" -> "between"
    [] pc \in {"once", "done"} -> "over"
    [] pc = "exit" -> "exited"
    [] OTHER -> "crashed"

goneBar == {r \in Readers : rpc[r] \in {"close", "freed", "exit"}}

Turns == INSTANCE SessionSpec
         WITH turn <- turnBar, session <- sessions, gone <- goneBar

(* Sessions take turns: each writes its one row before a reader is asked   *)
(* to stop and the next begins, and however signals merge, get lost or     *)
(* reach the wrong reader, no more readers leave than were asked to.       *)
SessionsInTurn == Turns!Spec
=============================================================================
