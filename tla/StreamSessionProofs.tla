------------------------ MODULE StreamSessionProofs ------------------------
(***************************************************************************)
(* The safety invariants of StreamSession, for any number of sessions and  *)
(* any length of prefetch(), and that it implements SessionSpec.           *)
(***************************************************************************)
EXTENDS StreamSession, FiniteSetTheorems, TLAPS

(* The pending step of the demultiplexer fits what it knows: a session is  *)
(* open between Init() and Close(), and there is room for the one to come. *)
Session == {"starting", "loop", "read", "packet", "dead"}

Phases ==
  /\ pc \in Session => m_streamReader # 0 /\ sessions > 0
  /\ pc \in {"open", "once", "done", "null"} => m_streamReader = 0
  /\ pc = "stopping" => m_streamReader # 0
  /\ m_streamReader # 0 => m_streamReader = sessions
  /\ pc \in {"close", "stopping"} /\ after = "open" => sessions < MaxSessions
  /\ pc = "open" => after = "open" /\ sessions < MaxSessions

NotYet == \A r \in Readers : r > sessions => rpc[r] = "none"

One(P) == IF P THEN 1 ELSE 0

(* Every close that was answered has used up one reader's last signal.     *)
AliveSet == {r \in Readers : Alive(r)}

Balance ==
  Cardinality(AliveSet) + One(stopped)
    <= closeTimeouts + One(m_streamReader # 0)

(* A ring lives as long as its reader is between set-up and Close().       *)
HasRing == {"joined", "pre_check", "pre_read", "check", "read", "close"}
Rings == \A r \in Readers : rpc[r] \in HasRing => ring[r] = "live"

(* While every close was answered: the only reader left is the current     *)
(* one; it stops only when told to, and once, and no signal is left over.  *)
Working == {"create", "joined", "pre_check", "pre_read", "check", "read"}

Answered ==
  closeTimeouts = 0 =>
    /\ \A r \in Readers : Alive(r) => r = m_streamReader
    /\ pc # "stopping" =>
         /\ ~shutdownReader /\ ~stopped
         /\ m_streamReader # 0 => rpc[m_streamReader] \in Working
    /\ stopped => rpc[m_streamReader] = "exit"
    /\ shutdownReader => rpc[m_streamReader] \in Working

(* While moreover every start was waited for: the current reader has been  *)
(* set up when the demultiplexer goes on.                                  *)
Waited ==
  closeTimeouts = 0 /\ ~startTimedOut =>
    /\ started =>
         pc = "starting" /\ rpc[m_streamReader] \notin {"create", "joined"}
    /\ m_streamReader # 0 /\ pc # "starting" =>
         rpc[m_streamReader] \notin {"create", "joined"}

(* DCheck and Reset() leave a restart request only where the session that  *)
(* follows takes it for its own.                                           *)
Cleared ==
  \/ pc \in {"read", "packet"}
  \/ pc \in {"close", "stopping", "open"} /\ after = "open"

Requests ==
  /\ restartBy <= sessions
  /\ restartAll /\ closeTimeouts = 0 =>
       restartBy >= IF Cleared THEN sessions ELSE sessions - 1

Books == Phases /\ NotYet /\ Rings /\ Requests /\ RowPerSession
Handshakes == Answered /\ Waited /\ NoDeadRing

IInv == TypeOK /\ Books /\ Handshakes /\ Balance
-----------------------------------------------------------------------------
LEMMA GotoType ==
  ASSUME TypeOK, NEW r \in Readers, NEW where \in RPc, RGoto(r, where)
  PROVE  rpc' \in [Readers -> RPc]
BY DEF TypeOK, RGoto

LEMMA ReadDoneType ==
  ASSUME SessionAssumption, TypeOK, NEW r \in Readers, RReadDone(r)
  PROVE  /\ rpc' \in [Readers -> RPc]
         /\ ctr' \in [Readers -> 0 .. Prefetch - 1]
<1>1. CASE rpc[r] = "read"
  BY <1>1, GotoType DEF TypeOK, RReadDone, RPc
<1>2. CASE rpc[r] # "read"
  <2>1. ctr[r] \in 0 .. Prefetch - 1 /\ Prefetch \in Nat
    BY DEF SessionAssumption, TypeOK
  <2>2. CASE ctr[r] + 1 < Prefetch
    BY <1>2, <2>1, <2>2, GotoType DEF TypeOK, RReadDone, RPc
  <2>3. CASE ~(ctr[r] + 1 < Prefetch)
    BY <1>2, <2>1, <2>3, GotoType, 0 \in 0 .. Prefetch - 1
    DEF TypeOK, RReadDone, RPc
  <2> QED  BY <2>2, <2>3
<1> QED  BY <1>1, <1>2

(* A step of a reader touches the signals, its own entries and the request *)
(* to restart: these are all its type has to say.                          *)
LEMMA ReaderFrame ==
  ASSUME TypeOK, opt' = opt, demux' = demux, shutdown' = shutdown,
         restartAll' \in BOOLEAN, shutdownReader' \in BOOLEAN,
         started' \in BOOLEAN, stopped' \in BOOLEAN,
         rpc' \in [Readers -> RPc],
         ctr' \in [Readers -> 0 .. Prefetch - 1],
         ring' \in [Readers -> {"uninitialised", "live", "freed"}],
         broken' \in [Readers -> BOOLEAN], avail' \in [Readers -> BOOLEAN],
         sessions' = sessions, rows' = rows, closeTimeouts' = closeTimeouts,
         startTimedOut' = startTimedOut, restartBy' \in 0 .. MaxSessions
  PROVE  TypeOK'
BY DEF TypeOK, demux

LEMMA SetEntry ==
  ASSUME NEW f, NEW S, f \in [Readers -> S], NEW r \in Readers, NEW v \in S
  PROVE  [f EXCEPT ![r] = v] \in [Readers -> S]
OBVIOUS

LEMMA TypeParts ==
  ASSUME TypeOK
  PROVE  /\ shutdown \in BOOLEAN /\ restartAll \in BOOLEAN
         /\ shutdownReader \in BOOLEAN /\ started \in BOOLEAN
         /\ stopped \in BOOLEAN
         /\ rpc \in [Readers -> RPc]
         /\ ctr \in [Readers -> 0 .. Prefetch - 1]
         /\ ring \in [Readers -> {"uninitialised", "live", "freed"}]
         /\ broken \in [Readers -> BOOLEAN] /\ avail \in [Readers -> BOOLEAN]
         /\ restartBy \in 0 .. MaxSessions
BY DEF TypeOK

LEMMA ReaderType ==
  ASSUME SessionAssumption, TypeOK, NEW r \in Readers, Reader(r)
  PROVE  TypeOK'
<1>1. CASE RSetup(r)
  <2>1. rpc' \in [Readers -> RPc]
    BY <1>1, GotoType DEF RSetup, RPc
  <2>2. ring' \in [Readers -> {"uninitialised", "live", "freed"}]
    BY <1>1, TypeParts, SetEntry DEF RSetup
  <2> QED  BY <1>1, <2>1, <2>2, TypeParts, ReaderFrame
           DEF RSetup, signals, history
<1>2. CASE RSignalStarted(r)
  <2>1. rpc' \in [Readers -> RPc]
    BY <1>2, GotoType DEF RSignalStarted, RPc
  <2> QED  BY <1>2, <2>1, TypeParts, ReaderFrame DEF RSignalStarted, history
<1>3. CASE RPrefetchCheck(r)
  <2>1. rpc' \in [Readers -> RPc] /\ ctr' \in [Readers -> 0 .. Prefetch - 1]
    <3>1. CASE shutdownReader
      BY <1>3, <3>1, GotoType, TypeParts, 0 \in 0 .. Prefetch - 1
      DEF SessionAssumption, RPrefetchCheck, RPc
    <3>2. CASE ~shutdownReader
      BY <1>3, <3>2, GotoType, TypeParts DEF RPrefetchCheck, RPc
    <3> QED  BY <3>1, <3>2
  <2> QED  BY <1>3, <2>1, TypeParts, ReaderFrame DEF RPrefetchCheck, history
<1>4. CASE RCheck(r)
  <2>1. rpc' \in [Readers -> RPc]
    <3>1. CASE shutdownReader
      BY <1>4, <3>1, GotoType DEF RCheck, RPc
    <3>2. CASE ~shutdownReader
      BY <1>4, <3>2, GotoType DEF RCheck, RPc
    <3> QED  BY <3>1, <3>2
  <2> QED  BY <1>4, <2>1, TypeParts, ReaderFrame DEF RCheck, history
<1>5. CASE RReadNothing(r)
  <2>1. RReadDone(r)
    BY <1>5 DEF RReadNothing
  <2> QED  BY <1>5, <2>1, ReadDoneType, TypeParts, ReaderFrame
           DEF RReadNothing, signals, history
<1>6. CASE RReadStore(r)
  <2>1. RReadDone(r)
    BY <1>6 DEF RReadStore
  <2>2. avail' \in [Readers -> BOOLEAN]
    BY <1>6, TypeParts, SetEntry DEF RReadStore
  <2> QED  BY <1>6, <2>1, <2>2, ReadDoneType, TypeParts, ReaderFrame
           DEF RReadStore, signals, history
<1>7. CASE RReadFull(r)
  <2>1. RReadDone(r)
    BY <1>7 DEF RReadFull
  <2>2. broken' \in [Readers -> BOOLEAN]
    BY <1>7, TypeParts, SetEntry DEF RReadFull
  <2>3. restartBy' \in 0 .. MaxSessions
    BY <1>7 DEF RReadFull, Readers, SessionAssumption
  <2> QED  BY <1>7, <2>1, <2>2, <2>3, ReadDoneType, TypeParts, ReaderFrame
           DEF RReadFull
<1>8. CASE RReadSilence(r)
  <2>1. RReadDone(r)
    BY <1>8 DEF RReadSilence
  <2>2. broken' \in [Readers -> BOOLEAN]
    BY <1>8, TypeParts, SetEntry DEF RReadSilence
  <2> QED  BY <1>8, <2>1, <2>2, ReadDoneType, TypeParts, ReaderFrame
           DEF RReadSilence, signals, history
<1>9. CASE RFree(r)
  <2>1. rpc' \in [Readers -> RPc]
    BY <1>9, GotoType DEF RFree, RPc
  <2>2. ring' \in [Readers -> {"uninitialised", "live", "freed"}]
    BY <1>9, TypeParts, SetEntry DEF RFree
  <2>3. avail' \in [Readers -> BOOLEAN]
    BY <1>9, TypeParts, SetEntry DEF RFree
  <2> QED  BY <1>9, <2>1, <2>2, <2>3, TypeParts, ReaderFrame
           DEF RFree, signals, history
<1>10. CASE RSignalStopped(r)
  <2>1. rpc' \in [Readers -> RPc]
    BY <1>10, GotoType DEF RSignalStopped, RPc
  <2> QED  BY <1>10, <2>1, TypeParts, ReaderFrame DEF RSignalStopped, history
<1>11. CASE RCloseThrows(r)
  <2>1. rpc' \in [Readers -> RPc]
    BY <1>11, GotoType DEF RCloseThrows, RPc
  <2> QED  BY <1>11, <2>1, TypeParts, ReaderFrame
           DEF RCloseThrows, signals, history
<1> QED
  BY <1>1, <1>2, <1>3, <1>4, <1>5, <1>6, <1>7, <1>8, <1>9, <1>10, <1>11
  DEF Reader

LEMMA DemuxType ==
  ASSUME SessionAssumption, TypeOK, Phases, Demux
  PROVE  TypeOK'
<1>1. CASE DClose
  BY <1>1 DEF SessionAssumption, TypeOK, DClose, signals, readers, history
<1>2. CASE DStopped
  <2>1. stopped' \in BOOLEAN /\ m_channelUtils' \in BOOLEAN
    BY <1>2 DEF DStopped, CloseRest
  <2> QED  BY <1>2, <2>1
  DEF SessionAssumption, TypeOK, DStopped, CloseRest, signals, readers, history
<1>3. CASE DStopTimeout
  <2>1. m_channelUtils' \in BOOLEAN
    BY <1>3 DEF DStopTimeout, CloseRest
  <2> QED  BY <1>3, <2>1
  DEF SessionAssumption, TypeOK, DStopTimeout, CloseRest, signals, readers,
      history
<1>4. CASE DOpen
  <2>1. sessions + 1 \in Readers
    BY <1>4 DEF DOpen, TypeOK, Phases, Readers, SessionAssumption
  <2>2. rpc' \in [Readers -> RPc]
    BY <1>4, <2>1, GotoType DEF DOpen, RPc
  <2>3. m_isBroken' \in BOOLEAN /\ m_channelUtils' \in BOOLEAN
    BY <1>4 DEF DOpen
  <2> QED  BY <1>4, <2>1, <2>2, <2>3
  DEF SessionAssumption, TypeOK, DOpen, Readers, signals
<1>5. CASE DStarted
  BY <1>5 DEF SessionAssumption, TypeOK, DStarted, signals, readers, history
<1>6. CASE DStartTimeout
  BY <1>6
  DEF SessionAssumption, TypeOK, DStartTimeout, signals, readers, history
<1>7. CASE DShutdown
  <2>1. shutdown' \in BOOLEAN
    BY <1>7 DEF DShutdown
  <2> QED  BY <1>7, <2>1
  DEF SessionAssumption, TypeOK, DShutdown, signals, readers, history
<1>8. CASE DRestart
  <2>1. restartAll' \in BOOLEAN
    BY <1>8 DEF DRestart
  <2> QED  BY <1>8, <2>1
  DEF SessionAssumption, TypeOK, DRestart, Reset, signals, readers, history
<1>9. CASE DChange
  BY <1>9
  DEF SessionAssumption, TypeOK, DChange, Reset, signals, readers, history
<1>10. CASE DOnce
  BY <1>10 DEF SessionAssumption, TypeOK, DOnce, signals, readers, history
<1>11. CASE DCheck
  BY <1>11 DEF SessionAssumption, TypeOK, DCheck, signals, readers, history
<1>12. CASE DReadBroken
  BY <1>12 DEF SessionAssumption, TypeOK, DReadBroken, signals, readers, history
<1>13. CASE DReadDead
  BY <1>13 DEF SessionAssumption, TypeOK, DReadDead, signals, readers, history
<1>14. CASE DReadData
  <2>1. avail' \in [Readers -> BOOLEAN]
    <3>1. PICK more \in BOOLEAN : avail' = [avail EXCEPT ![m_streamReader] = more]
      BY <1>14 DEF DReadData
    <3> QED  BY <3>1, TypeParts
  <2>2. /\ pc' = "packet"
        /\ UNCHANGED <<opt, shutdown, restartAll, shutdownReader, started,
                       stopped, after, m_streamReader, m_isBroken,
                       m_channelUtils, rpc, ctr, ring, broken, sessions, rows,
                       closeTimeouts, startTimedOut, restartBy>>
    BY <1>14 DEF DReadData, signals, history
  <2> QED  BY <2>1, <2>2 DEF TypeOK
<1>15. CASE DReadTimeout
  <2>1. /\ restartBy' = sessions /\ restartAll' = TRUE /\ m_isBroken' = TRUE
        /\ pc' = "loop"
        /\ UNCHANGED <<opt, shutdown, shutdownReader, started, stopped, after,
                       m_streamReader, m_channelUtils, rpc, ctr, ring, broken,
                       avail, sessions, rows, closeTimeouts, startTimedOut>>
    BY <1>15 DEF DReadTimeout, readers
  <2> QED  BY <2>1 DEF TypeOK
<1>16. CASE DPacket
  BY <1>16 DEF SessionAssumption, TypeOK, DPacket, signals, readers, history
<1>17. CASE DPacketFatal
  BY <1>17
  DEF SessionAssumption, TypeOK, DPacketFatal, Reset, signals, readers, history
<1> QED
  BY <1>1, <1>2, <1>3, <1>4, <1>5, <1>6, <1>7, <1>8, <1>9, <1>10, <1>11,
     <1>12, <1>13, <1>14, <1>15, <1>16, <1>17 DEF Demux

(* After a readSocket() the reader is back at one of the two checks.        *)
LEMMA ReadDoneMoves ==
  ASSUME TypeOK, NEW r \in Readers, RReadDone(r)
  PROVE  /\ ~Ended
         /\ rpc'[r] \in {"check", "pre_check"}
         /\ \A q \in Readers : q # r => rpc'[q] = rpc[q]
<1>1. rpc \in [Readers -> RPc]
  BY DEF TypeOK
<1>2. PICK w \in {"check", "pre_check"} : RGoto(r, w)
  <2>1. CASE rpc[r] = "read"
    BY <2>1 DEF RReadDone
  <2>2. CASE rpc[r] # "read"
    BY <2>2 DEF RReadDone
  <2> QED  BY <2>1, <2>2
<1> QED  BY <1>1, <1>2 DEF RGoto

(* Nor has anything else the books are kept of, but the request to restart. *)
LEMMA ReadKeepsBooks ==
  ASSUME SessionAssumption, TypeOK, Books, NEW r \in Readers,
         rpc[r] \in {"pre_read", "read"}, RReadDone(r), Requests',
         UNCHANGED <<demux, ring, sessions, rows>>
  PROVE  Books'
<1>1. /\ rpc'[r] \in {"check", "pre_check"}
      /\ \A q \in Readers : q # r => rpc'[q] = rpc[q]
  BY ReadDoneMoves
<1>2. UNCHANGED <<pc, after, m_streamReader, ring, sessions, rows>>
  BY DEF demux
<1>3. Phases' /\ RowPerSession'
  BY <1>2 DEF Books, Phases, Session, RowPerSession
<1>4. NotYet'
  BY <1>1, <1>2 DEF Books, NotYet
<1>5. Rings'
  BY <1>1, <1>2 DEF Books, Rings, HasRing
<1> QED  BY <1>3, <1>4, <1>5 DEF Books

LEMMA ReadKeepsRequests ==
  ASSUME Requests,
         UNCHANGED <<demux, sessions, restartBy, restartAll, closeTimeouts>>
  PROVE  Requests'
BY DEF Requests, Cleared, demux

(* A restart is asked for by a reader that is alive: when every close was  *)
(* answered, by the current one.                                           *)
LEMMA ReaderBooks ==
  ASSUME SessionAssumption, TypeOK, Books, Handshakes, NEW r \in Readers,
  Reader(r)
  PROVE  Books'
<1>1. CASE RSetup(r)
  BY <1>1
  DEF RSetup, RGoto, SessionAssumption, TypeOK, Readers, RPc, signals,
      demux, history, Books, Phases, Session, NotYet, Rings, HasRing, Cleared,
      Requests, RowPerSession, Ended
<1>2. CASE RSignalStarted(r)
  BY <1>2
  DEF RSignalStarted, RGoto, SessionAssumption, TypeOK, Readers, RPc, signals,
      demux, history, Books, Phases, Session, NotYet, Rings, HasRing, Cleared,
      Requests, RowPerSession, Ended
<1>3. CASE RPrefetchCheck(r)
  BY <1>3
  DEF RPrefetchCheck, RGoto, SessionAssumption, TypeOK, Readers, RPc, signals,
      demux, history, Books, Phases, Session, NotYet, Rings, HasRing, Cleared,
      Requests, RowPerSession, Ended
<1>4. CASE RCheck(r)
  BY <1>4
  DEF RCheck, RGoto, SessionAssumption, TypeOK, Readers, RPc, signals,
      demux, history, Books, Phases, Session, NotYet, Rings, HasRing, Cleared,
      Requests, RowPerSession, Ended
<1>5. CASE RReadNothing(r)
  BY <1>5, ReadKeepsRequests, ReadKeepsBooks
  DEF RReadNothing, signals, demux, history, Books
<1>6. CASE RReadStore(r)
  BY <1>6, ReadKeepsRequests, ReadKeepsBooks
  DEF RReadStore, signals, demux, history, Books
<1>7. CASE RReadFull(r)
  <2>1. r \in Nat /\ r <= sessions /\ sessions \in Nat
    BY <1>7 DEF RReadFull, Readers, TypeOK, SessionAssumption, Books, NotYet
  <2>2. closeTimeouts = 0 => r = sessions
    <3>1. rpc[r] \in {"pre_read", "read"}
      BY <1>7 DEF RReadFull
    <3>2. closeTimeouts = 0 => r = m_streamReader
      BY <3>1 DEF Handshakes, Answered, Alive
    <3> QED  BY <2>1, <3>2 DEF Books, Phases, Readers
  <2>3. Requests'
    BY <1>7, <2>1, <2>2 DEF RReadFull, Requests, Cleared, demux
  <2> QED  BY <1>7, <2>3, ReadKeepsBooks DEF RReadFull
<1>8. CASE RReadSilence(r)
  BY <1>8, ReadKeepsRequests, ReadKeepsBooks
  DEF RReadSilence, signals, demux, history, Books
<1>9. CASE RFree(r)
  BY <1>9
  DEF RFree, RGoto, SessionAssumption, TypeOK, Readers, RPc, signals,
      demux, history, Books, Phases, Session, NotYet, Rings, HasRing, Cleared,
      Requests, RowPerSession, Ended
<1>10. CASE RSignalStopped(r)
  BY <1>10
  DEF RSignalStopped, RGoto, SessionAssumption, TypeOK, Readers, RPc, signals,
      demux, history, Books, Phases, Session, NotYet, Rings, HasRing, Cleared,
      Requests, RowPerSession, Ended
<1>11. CASE RCloseThrows(r)
  BY <1>11
  DEF RCloseThrows, RGoto, SessionAssumption, TypeOK, Readers, RPc, signals,
      demux, history, Books, Phases, Session, NotYet, Rings, HasRing, Cleared,
      Requests, RowPerSession, Ended
<1> QED
  BY <1>1, <1>2, <1>3, <1>4, <1>5, <1>6, <1>7, <1>8, <1>9, <1>10, <1>11
  DEF Reader

(* No handshake has moved after a readSocket().                            *)
LEMMA ReadKeepsHandshakes ==
  ASSUME SessionAssumption, TypeOK, Handshakes, NEW r \in Readers,
         rpc[r] \in {"pre_read", "read"}, RReadDone(r),
         UNCHANGED <<shutdownReader, started, stopped, demux, closeTimeouts,
                     startTimedOut>>
  PROVE  Handshakes'
<1>1. /\ ~Ended
      /\ rpc'[r] \in {"check", "pre_check"}
      /\ \A q \in Readers : q # r => rpc'[q] = rpc[q]
  BY ReadDoneMoves
<1>2. m_streamReader \in 0 .. MaxSessions
  BY DEF TypeOK
<1>3. /\ pc' = pc /\ m_streamReader' = m_streamReader
      /\ shutdownReader' = shutdownReader /\ started' = started
      /\ stopped' = stopped /\ closeTimeouts' = closeTimeouts
      /\ startTimedOut' = startTimedOut
  BY DEF demux
<1>4. \A q \in Readers : Alive(q)' <=> Alive(q)
  BY <1>1 DEF Alive
<1>5. \A q \in Readers : rpc'[q] \in Working <=> rpc[q] \in Working
  BY <1>1 DEF Working
<1>6. \A q \in Readers : rpc'[q] = "exit" <=> rpc[q] = "exit"
  BY <1>1
<1>7. \A q \in Readers :
        rpc'[q] \notin {"create", "joined"} <=> rpc[q] \notin {"create", "joined"}
  BY <1>1
<1>8. closeTimeouts = 0 => r = m_streamReader
  BY DEF Handshakes, Answered, Alive
<1>9. m_streamReader # 0 => m_streamReader \in Readers
  BY <1>2 DEF Readers, SessionAssumption
<1>10. Answered'
  BY <1>3, <1>4, <1>5, <1>6, <1>8, <1>9 DEF Handshakes, Answered
<1>11. Waited'
  BY <1>3, <1>7, <1>8, <1>9 DEF Handshakes, Waited
<1>12. NoDeadRing'
  BY <1>1, <1>3 DEF NoDeadRing, Ended
<1> QED  BY <1>10, <1>11, <1>12 DEF Handshakes

LEMMA RangeOfReader ==
  ASSUME SessionAssumption, TypeOK
  PROVE  m_streamReader # 0 <=> m_streamReader \in Readers
BY DEF SessionAssumption, TypeOK, Readers

(* Only the current reader can take the signal to stop, or answer it.      *)
LEMMA ReaderHandshakes ==
  ASSUME SessionAssumption, TypeOK, Books, Handshakes, NEW r \in Readers,
  Reader(r)
  PROVE  Handshakes'
<1>1. CASE RSetup(r)
  BY <1>1
  DEF RSetup, RGoto, TypeOK, Readers, RPc, signals, demux, history,
      Handshakes, Answered, Waited, NoDeadRing, Working, Ended, Alive, SessionAssumption
<1>2. CASE RSignalStarted(r)
  BY <1>2
  DEF RSignalStarted, RGoto, TypeOK, Readers, RPc, signals, demux, history,
      Handshakes, Answered, Waited, NoDeadRing, Working, Ended, Alive, SessionAssumption
<1>3. CASE RPrefetchCheck(r)
  BY <1>3
  DEF RPrefetchCheck, RGoto, TypeOK, Readers, RPc, signals, demux, history,
      Handshakes, Answered, Waited, NoDeadRing, Working, Ended, Alive, SessionAssumption
<1>4. CASE RCheck(r)
  BY <1>4
  DEF RCheck, RGoto, TypeOK, Readers, RPc, signals, demux, history,
      Handshakes, Answered, Waited, NoDeadRing, Working, Ended, Alive, SessionAssumption
<1>5. CASE RReadNothing(r)
  BY <1>5, ReadKeepsHandshakes DEF RReadNothing, signals, history
<1>6. CASE RReadStore(r)
  BY <1>6, ReadKeepsHandshakes DEF RReadStore, signals, history
<1>7. CASE RReadFull(r)
  BY <1>7, ReadKeepsHandshakes DEF RReadFull, signals, history
<1>8. CASE RReadSilence(r)
  BY <1>8, ReadKeepsHandshakes DEF RReadSilence, signals, history
<1>9. CASE RFree(r)
  <2>1. /\ rpc[r] = "close" /\ ~Ended /\ rpc'[r] = "freed"
        /\ \A q \in Readers : q # r => rpc'[q] = rpc[q]
    BY <1>9, TypeParts DEF RFree, RGoto
  <2>2. /\ stopped' = stopped
        /\ UNCHANGED <<shutdownReader, started, pc, m_streamReader,
                       closeTimeouts, startTimedOut>>
    BY <1>9 DEF RFree, signals, demux, history
  <2>3. Answered'
    BY <2>1, <2>2, RangeOfReader DEF Handshakes, Answered, Alive, Working
  <2>4. Waited'
    BY <2>1, <2>2, RangeOfReader DEF Handshakes, Answered, Waited, Alive
  <2>5. NoDeadRing'
    BY <2>1, <2>2 DEF NoDeadRing, Ended
  <2> QED  BY <2>3, <2>4, <2>5 DEF Handshakes
<1>10. CASE RSignalStopped(r)
  <2>1. /\ rpc[r] = "freed" /\ ~Ended /\ rpc'[r] = "exit"
        /\ \A q \in Readers : q # r => rpc'[q] = rpc[q]
    BY <1>10, TypeParts DEF RSignalStopped, RGoto
  <2>2. /\ stopped' = TRUE
        /\ UNCHANGED <<shutdownReader, started, pc, m_streamReader,
                       closeTimeouts, startTimedOut>>
    BY <1>10 DEF RSignalStopped, signals, demux, history
  <2>3. Answered'
    BY <2>1, <2>2, RangeOfReader DEF Handshakes, Answered, Alive, Working
  <2>4. Waited'
    BY <2>1, <2>2, RangeOfReader DEF Handshakes, Answered, Waited, Alive
  <2>5. NoDeadRing'
    BY <2>1, <2>2 DEF NoDeadRing, Ended
  <2> QED  BY <2>3, <2>4, <2>5 DEF Handshakes
<1>11. CASE RCloseThrows(r)
  <2>1. /\ rpc[r] = "close" /\ ~Ended /\ rpc'[r] = "exit"
        /\ \A q \in Readers : q # r => rpc'[q] = rpc[q]
    BY <1>11, TypeParts DEF RCloseThrows, RGoto
  <2>2. /\ stopped' = stopped
        /\ UNCHANGED <<shutdownReader, started, pc, m_streamReader,
                       closeTimeouts, startTimedOut>>
    BY <1>11 DEF RCloseThrows, signals, demux, history
  <2>3. Answered'
    BY <2>1, <2>2, RangeOfReader DEF Handshakes, Answered, Alive, Working
  <2>4. Waited'
    BY <2>1, <2>2, RangeOfReader DEF Handshakes, Answered, Waited, Alive
  <2>5. NoDeadRing'
    BY <2>1, <2>2 DEF NoDeadRing, Ended
  <2> QED  BY <2>3, <2>4, <2>5 DEF Handshakes
<1> QED
  BY <1>1, <1>2, <1>3, <1>4, <1>5, <1>6, <1>7, <1>8, <1>9, <1>10, <1>11
  DEF Reader

(* The phases of a session follow each other.                              *)
LEMMA DemuxBooks ==
  ASSUME SessionAssumption, TypeOK, Books, Handshakes, Demux
  PROVE  Books'
<1> USE DEF SessionAssumption, TypeOK, Readers, RPc, signals, demux, readers,
            history, Books, Phases, Session, NotYet, Rings, HasRing, Cleared,
            Requests, RowPerSession
<1>1. CASE DClose
  BY <1>1 DEF DClose
<1>2. CASE DStopped
  BY <1>2 DEF DStopped, CloseRest
<1>3. CASE DStopTimeout
  BY <1>3 DEF DStopTimeout, CloseRest
<1>4. CASE DOpen
  BY <1>4 DEF DOpen, RGoto
<1>5. CASE DStarted
  BY <1>5 DEF DStarted
<1>6. CASE DStartTimeout
  BY <1>6 DEF DStartTimeout
<1>7. CASE DShutdown
  BY <1>7 DEF DShutdown
<1>8. CASE DRestart
  BY <1>8 DEF DRestart, Reset
<1>9. CASE DChange
  BY <1>9 DEF DChange, Reset
<1>10. CASE DOnce
  BY <1>10 DEF DOnce
<1>11. CASE DCheck
  BY <1>11 DEF DCheck
<1>12. CASE DReadBroken
  BY <1>12 DEF DReadBroken
<1>13. CASE DReadDead
  BY <1>13 DEF DReadDead
<1>14. CASE DReadData
  BY <1>14 DEF DReadData
<1>15. CASE DReadTimeout
  BY <1>15 DEF DReadTimeout
<1>16. CASE DPacket
  BY <1>16 DEF DPacket
<1>17. CASE DPacketFatal
  BY <1>17 DEF DPacketFatal, Reset
<1> QED
  BY <1>1, <1>2, <1>3, <1>4, <1>5, <1>6, <1>7, <1>8, <1>9, <1>10, <1>11,
     <1>12, <1>13, <1>14, <1>15, <1>16, <1>17 DEF Demux

(* A wait that is answered is answered by the current reader.              *)
LEMMA DemuxHandshakes ==
  ASSUME SessionAssumption, TypeOK, Books, Handshakes, Demux
  PROVE  Handshakes'
<1> USE DEF SessionAssumption, TypeOK, Readers, RPc, signals, demux, readers,
            history, Books, Handshakes, Phases, Session, NotYet, Rings,
            HasRing, Answered, Waited, NoDeadRing, Working, Ended, Alive
<1>1. CASE DClose
  BY <1>1 DEF DClose
<1>2. CASE DStopped
  BY <1>2 DEF DStopped, CloseRest
<1>3. CASE DStopTimeout
  BY <1>3 DEF DStopTimeout, CloseRest
<1>4. CASE DOpen
  BY <1>4 DEF DOpen, RGoto
<1>5. CASE DStarted
  BY <1>5 DEF DStarted
<1>6. CASE DStartTimeout
  BY <1>6 DEF DStartTimeout
<1>7. CASE DShutdown
  BY <1>7 DEF DShutdown
<1>8. CASE DRestart
  BY <1>8 DEF DRestart, Reset
<1>9. CASE DChange
  BY <1>9 DEF DChange, Reset
<1>10. CASE DOnce
  BY <1>10 DEF DOnce
<1>11. CASE DCheck
  BY <1>11 DEF DCheck
<1>12. CASE DReadBroken
  BY <1>12 DEF DReadBroken
<1>13. CASE DReadDead
  BY <1>13 DEF DReadDead
<1>14. CASE DReadData
  BY <1>14 DEF DReadData
<1>15. CASE DReadTimeout
  BY <1>15 DEF DReadTimeout
<1>16. CASE DPacket
  BY <1>16 DEF DPacket
<1>17. CASE DPacketFatal
  BY <1>17 DEF DPacketFatal, Reset
<1> QED
  BY <1>1, <1>2, <1>3, <1>4, <1>5, <1>6, <1>7, <1>8, <1>9, <1>10, <1>11,
     <1>12, <1>13, <1>14, <1>15, <1>16, <1>17 DEF Demux

-----------------------------------------------------------------------------
LEMMA AliveFinite ==
  ASSUME SessionAssumption
  PROVE  IsFiniteSet(AliveSet) /\ Cardinality(AliveSet) \in Nat
<1>1. IsFiniteSet(Readers)
  BY FS_Interval, 1 \in Int DEF SessionAssumption, Readers
<1>2. AliveSet \subseteq Readers
  BY DEF AliveSet
<1> QED  BY <1>1, <1>2, FS_Subset, FS_CardinalityType

(* A reader counts until its thread has ended. *)
LEMMA ReaderBalance ==
  ASSUME SessionAssumption, TypeOK, Balance, NEW r \in Readers, Reader(r)
  PROVE  Balance'
<1> DEFINE n == Cardinality(AliveSet)
<1>1. closeTimeouts' = closeTimeouts /\ m_streamReader' = m_streamReader
  BY DEF Reader, RSetup, RSignalStarted, RPrefetchCheck, RCheck, RReadNothing,
         RReadStore,
         RReadFull, RReadSilence, RFree, RSignalStopped, RCloseThrows, demux,
         history
<1>2. closeTimeouts \in Nat /\ One(m_streamReader # 0) \in {0, 1}
  BY DEF TypeOK, One
<1>3. CASE RSignalStopped(r) \/ RCloseThrows(r)
  <2>1. AliveSet' = AliveSet \ {r} /\ r \in AliveSet
    BY <1>3 DEF TypeOK, AliveSet, Alive, RSignalStopped, RCloseThrows, RGoto
  <2>2. Cardinality(AliveSet') = n - 1
    BY <2>1, AliveFinite, FS_RemoveElement
  <2>3. /\ One(stopped) \in {0, 1} /\ One(stopped)' \in {0, 1}
        /\ One(m_streamReader # 0)' = One(m_streamReader # 0)
    BY <1>1 DEF One
  <2> HIDE DEF n
  <2>4. n + One(stopped) <= closeTimeouts + One(m_streamReader # 0) /\ n \in Nat
    BY AliveFinite DEF Balance, n
  <2>5. Cardinality(AliveSet') + One(stopped)'
          <= closeTimeouts' + One(m_streamReader # 0)'
    BY <1>1, <1>2, <2>2, <2>3, <2>4
  <2> QED  BY <2>5 DEF Balance
<1>4. CASE ~(RSignalStopped(r) \/ RCloseThrows(r))
  <2>1. /\ stopped' = stopped
        /\ \E where \in RPc \ {"none", "exit"} :
             rpc' = [rpc EXCEPT ![r] = where]
    BY <1>4
    DEF Reader, RSetup, RSignalStarted, RPrefetchCheck, RCheck, RReadNothing,
         RReadStore, RReadFull, RReadSilence, RFree, RReadDone, RGoto, RPc,
         signals
  <2>2. Alive(r)
    BY <1>4
    DEF Alive, Reader, RSetup, RSignalStarted, RPrefetchCheck, RCheck,
        RReadNothing,
         RReadStore, RReadFull, RReadSilence, RFree
  <2>3. AliveSet' = AliveSet
    BY <2>1, <2>2 DEF TypeOK, AliveSet, Alive
  <2> QED  BY <1>1, <2>1, <2>3 DEF Balance
<1> QED  BY <1>3, <1>4

(* A session adds a reader, and a close that was answered a signal. *)
LEMMA DemuxBalance ==
  ASSUME SessionAssumption, TypeOK, Phases, Balance, Demux
  PROVE  Balance'
<1>1. closeTimeouts \in Nat
  BY DEF TypeOK
<1>2. CASE DOpen
  <2>1. sessions + 1 \in Readers /\ m_streamReader' # 0 /\ m_streamReader = 0
    BY <1>2 DEF DOpen, TypeOK, Phases, Readers, SessionAssumption
  <2>2. AliveSet' \subseteq AliveSet \cup {sessions + 1}
    BY <1>2 DEF DOpen, RGoto, TypeOK, AliveSet, Alive
  <2> DEFINE more == AliveSet \cup {sessions + 1}
  <2>3. /\ IsFiniteSet(more) /\ Cardinality(more) \in Nat
        /\ Cardinality(more) <= Cardinality(AliveSet) + 1
    <3>1. IsFiniteSet(more)
      BY AliveFinite, FS_AddElement
    <3>2. Cardinality(more) = Cardinality(AliveSet)
            \/ Cardinality(more) = Cardinality(AliveSet) + 1
      BY AliveFinite, FS_AddElement
    <3> HIDE DEF more
    <3> QED  BY <3>1, <3>2, AliveFinite, FS_CardinalityType
  <2>4. stopped' = stopped /\ closeTimeouts' = closeTimeouts
    BY <1>2 DEF DOpen, signals
  <2>5. Cardinality(AliveSet') \in Nat /\ Cardinality(AliveSet') <= Cardinality(more)
    BY <2>2, <2>3, FS_Subset, FS_CardinalityType
  <2>6. One(stopped) \in {0, 1} /\ One(stopped)' = One(stopped)
    BY <2>4 DEF One
  <2>7. One(m_streamReader # 0) = 0 /\ One(m_streamReader # 0)' = 1
    BY <2>1 DEF One
  <2> HIDE DEF more
  <2> QED  BY <1>1, <2>3, <2>4, <2>5, <2>6, <2>7, AliveFinite DEF Balance
<1>3. CASE DStopped \/ DStopTimeout
  <2>1. AliveSet' = AliveSet /\ m_streamReader # 0 /\ m_streamReader' = 0
    BY <1>3
    DEF DStopped, DStopTimeout, CloseRest, readers, AliveSet, Alive, Phases
  <2>2. One(m_streamReader # 0) = 1 /\ One(m_streamReader # 0)' = 0
    BY <2>1 DEF One
  <2>3. CASE DStopped
    <3>1. One(stopped) = 1 /\ One(stopped)' = 0 /\ closeTimeouts' = closeTimeouts
      BY <2>3 DEF DStopped, One
    <3> QED  BY <1>1, <2>1, <2>2, <3>1, AliveFinite DEF Balance
  <2>4. CASE DStopTimeout
    <3>1. One(stopped) = 0 /\ One(stopped)' = 0 /\ closeTimeouts' = closeTimeouts + 1
      BY <2>4 DEF DStopTimeout, One
    <3> QED  BY <1>1, <2>1, <2>2, <3>1, AliveFinite DEF Balance
  <2> QED  BY <1>3, <2>3, <2>4
<1>4. CASE ~(DOpen \/ DStopped \/ DStopTimeout)
  <2>1. /\ AliveSet' = AliveSet /\ stopped' = stopped
        /\ m_streamReader' = m_streamReader /\ closeTimeouts' = closeTimeouts
    BY <1>4
    DEF Demux, DClose, DStarted, DStartTimeout, DShutdown, DRestart, DChange,
         DOnce, DCheck, DReadBroken, DReadDead, DReadData, DReadTimeout,
         DPacket,
         DPacketFatal, Reset, signals, readers, history, AliveSet, Alive
  <2> QED  BY <2>1 DEF Balance
<1> QED  BY <1>2, <1>3, <1>4
-----------------------------------------------------------------------------
LEMMA InitInv == ASSUME SessionAssumption, Init PROVE IInv
<1>1. TypeOK
  <2>1. 0 \in 0 .. Prefetch - 1 /\ 0 \in 0 .. MaxSessions
    BY DEF SessionAssumption
  <2>2. /\ shutdown \in BOOLEAN /\ restartAll \in BOOLEAN /\ shutdownReader \in BOOLEAN
        /\ started \in BOOLEAN /\ stopped \in BOOLEAN /\ m_isBroken \in BOOLEAN
        /\ m_channelUtils \in BOOLEAN /\ startTimedOut \in BOOLEAN
    BY DEF Init
  <2>3. /\ rpc \in [Readers -> RPc] /\ ctr \in [Readers -> 0 .. Prefetch - 1]
        /\ ring \in [Readers -> {"uninitialised", "live", "freed"}]
        /\ broken \in [Readers -> BOOLEAN] /\ avail \in [Readers -> BOOLEAN]
    BY <2>1 DEF Init, RPc
  <2> QED  BY <2>1, <2>2, <2>3 DEF Init, TypeOK
<1>2. Books
  <2>1. /\ sessions = 0 /\ rows = 0 /\ m_streamReader = 0 /\ 0 < MaxSessions
        /\ pc = "close" /\ after = "open"
    BY DEF SessionAssumption, Init
  <2>2. Phases
    BY <2>1 DEF Phases, Session
  <2>3. RowPerSession
    BY <2>1 DEF RowPerSession
  <2>4. NotYet /\ Rings
    BY DEF Init, NotYet, Rings, HasRing
  <2>5. Requests
    BY DEF Init, Requests, Cleared
  <2> QED  BY <2>2, <2>3, <2>4, <2>5 DEF Books
<1>3. Handshakes
  BY DEF Init, Readers, Handshakes, Answered, Waited, NoDeadRing, Alive
<1>4. Balance
  <2>1. AliveSet = {}
    BY DEF Init, AliveSet, Alive
  <2>2. Cardinality(AliveSet) = 0
    BY <2>1, FS_EmptySet
  <2>3. One(stopped) = 0 /\ One(m_streamReader # 0) = 0 /\ closeTimeouts = 0
    BY DEF Init, One
  <2> QED  BY <2>2, <2>3 DEF Balance
<1> QED  BY <1>1, <1>2, <1>3, <1>4 DEF IInv

(* main()'s shutdown only raises a signal. *)
LEMMA ShutdownInv == ASSUME IInv, Shutdown PROVE IInv'
<1>1. TypeOK'
  <2>1. shutdown' \in BOOLEAN
    BY DEF Shutdown
  <2> QED  BY <2>1 DEF IInv, Shutdown, TypeOK, demux, readers
<1>2. Books' /\ Handshakes'
  BY DEF IInv, Shutdown, demux, readers, Books, Handshakes, Phases, Session,
         NotYet,
         Rings, HasRing, Cleared, Requests, RowPerSession, Answered, Waited,
         NoDeadRing, Alive
<1>3. Balance'
  BY DEF IInv, Shutdown, demux, readers, Balance, One, AliveSet, Alive
<1> QED  BY <1>1, <1>2, <1>3 DEF IInv

(* Nothing is left of the threads after exit(). *)
LEMMA ExitInv == ASSUME SessionAssumption, IInv, Exit PROVE IInv'
<1>1. sessions \in 0 .. MaxSessions /\ rows \in Nat /\ restartBy \in 0 .. MaxSessions
      /\ closeTimeouts \in Nat
  BY DEF IInv, TypeOK
<1>2. UNCHANGED <<opt, after, sessions, rows, closeTimeouts, startTimedOut,
                  restartBy>>
  BY DEF Exit, history
<1>3. TypeOK'
  <2>1. 0 \in 0 .. Prefetch - 1 /\ 0 \in 0 .. MaxSessions
    BY DEF SessionAssumption
  <2>2. /\ rpc' \in [Readers -> RPc] /\ ctr' \in [Readers -> 0 .. Prefetch - 1]
        /\ ring' \in [Readers -> {"uninitialised", "live", "freed"}]
        /\ broken' \in [Readers -> BOOLEAN] /\ avail' \in [Readers -> BOOLEAN]
    BY <2>1 DEF Exit, RPc
  <2>3. /\ shutdown' \in BOOLEAN /\ restartAll' \in BOOLEAN
        /\ shutdownReader' \in BOOLEAN /\ started' \in BOOLEAN
        /\ stopped' \in BOOLEAN /\ m_isBroken' \in BOOLEAN
        /\ m_channelUtils' \in BOOLEAN /\ m_streamReader' = 0 /\ pc' = "exit"
    BY DEF Exit
  <2> QED  BY <1>2, <2>1, <2>2, <2>3 DEF IInv, TypeOK
<1>4. \A r \in Readers : rpc'[r] \in {"exit", "none"}
  BY DEF Exit
<1>5. /\ pc' = "exit" /\ m_streamReader' = 0
      /\ ~restartAll' /\ ~shutdownReader' /\ ~started' /\ ~stopped'
  BY DEF Exit
<1>6. Books'
  <2>1. Phases' /\ Rings'
    BY <1>4, <1>5 DEF Phases, Session, Rings, HasRing
  <2>2. NotYet'
    BY <1>1, <1>2 DEF NotYet, Exit, Readers, SessionAssumption
  <2>3. Requests'
    BY <1>2, <1>5 DEF IInv, Books, Requests
  <2>4. RowPerSession'
    <3>1. sessions - rows \in {0, 1}
      BY <1>1 DEF IInv, Books, RowPerSession, Exit, Ended
    <3> QED  BY <1>2, <1>5, <3>1 DEF RowPerSession
  <2> QED  BY <2>1, <2>2, <2>3, <2>4 DEF Books
<1>7. Handshakes'
  BY <1>4, <1>5 DEF Handshakes, Answered, Waited, NoDeadRing, Alive
<1>8. Balance'
  <2>1. AliveSet' = {}
    BY <1>4 DEF AliveSet, Alive
  <2>2. Cardinality(AliveSet') = 0
    BY <2>1, FS_EmptySet
  <2>3. Cardinality(AliveSet)' = 0
    BY <2>2
  <2>4. One(stopped)' = 0 /\ One(m_streamReader # 0)' = 0
    BY <1>5 DEF One
  <2> QED  BY <1>1, <1>2, <2>3, <2>4 DEF Balance
<1> QED  BY <1>3, <1>6, <1>7, <1>8 DEF IInv

THEOREM StepInv == ASSUME SessionAssumption, IInv, [Next]_vars PROVE IInv'
<1>1. ASSUME NEW r \in Readers, Reader(r) PROVE IInv'
  BY <1>1, ReaderType, ReaderBooks, ReaderHandshakes, ReaderBalance DEF IInv
<1>2. CASE Demux
  BY <1>2, DemuxType, DemuxBooks, DemuxHandshakes, DemuxBalance DEF IInv, Books
<1>3. CASE Shutdown
  BY <1>3, ShutdownInv
<1>5. CASE Exit
  BY <1>5, ExitInv
<1>4. CASE UNCHANGED vars
  <2>1. TypeOK'
    BY <1>4 DEF IInv, vars, signals, demux, readers, history, TypeOK
  <2>2. Books' /\ Handshakes'
    BY <1>4 DEF IInv, vars, signals, demux, readers, history, Books, Handshakes,
         Phases, Session, NotYet, Rings, HasRing, Cleared, Requests,
         RowPerSession,
         Answered, Waited, NoDeadRing, Alive
  <2>3. Balance'
    BY <1>4
    DEF IInv, vars, signals, demux, readers, history, Balance, One, AliveSet,
        Alive
  <2> QED  BY <2>1, <2>2, <2>3 DEF IInv
<1> QED  BY <1>1, <1>2, <1>3, <1>4, <1>5 DEF Next

LEMMA SafetyOfInv ==
  ASSUME SessionAssumption, IInv
  PROVE  TypeOK /\ NoDeadRing /\ RowPerSession /\ ReadersBounded /\ RestartNotStale
<1>1. ReadersBounded
  <2>1. /\ Cardinality(AliveSet) \in Nat /\ closeTimeouts \in Nat
        /\ One(stopped) \in {0, 1} /\ One(m_streamReader # 0) \in {0, 1}
    BY AliveFinite DEF IInv, TypeOK, One
  <2>2. Cardinality(AliveSet) <= 1 + closeTimeouts
    BY <2>1 DEF IInv, Balance
  <2> QED  BY <2>2 DEF AliveSet, ReadersBounded
<1>2. RestartNotStale
  <2>1. sessions \in Int /\ restartBy \in Int
    BY DEF IInv, TypeOK
  <2> QED  BY <2>1 DEF IInv, Books, Requests, RestartNotStale
<1> QED  BY <1>1, <1>2 DEF IInv, Books, Handshakes

(* Every variable keeps its type. *)
THEOREM TypeCorrect == Spec => []TypeOK
<1> QED  BY InitInv, StepInv, SafetyOfInv, SessionAssumption, PTL DEF Spec

(* The demultiplexer keeps off rings that are not there (StreamReader::read *)
(* through m_circularBuffer), unless a wait has timed out.                  *)
THEOREM DeadRingNeedsTimeout == Spec => []NoDeadRing
<1> QED  BY InitInv, StepInv, SafetyOfInv, SessionAssumption, PTL DEF Spec

(* At most one reader thread more is alive than closes have timed out,      *)
(* whichever reader takes or answers a signal.                              *)
THEOREM ReadersStayBounded == Spec => []ReadersBounded
<1> QED  BY InitInv, StepInv, SafetyOfInv, SessionAssumption, PTL DEF Spec

(* Every session leaves one row in the CSV file, however it ends. *)
THEOREM AlwaysRowPerSession == Spec => []RowPerSession
<1> QED  BY InitInv, StepInv, SafetyOfInv, SessionAssumption, PTL DEF Spec

(* A restart request outlives its session by one at most, when every close *)
(* was answered: DCheck passes no request, and DRestart clears it.         *)
THEOREM RestartNeverStale == Spec => []RestartNotStale
<1> QED  BY InitInv, StepInv, SafetyOfInv, SessionAssumption, PTL DEF Spec
-----------------------------------------------------------------------------
(* SessionSpec's turns.  The readers that have made up their mind to leave, *)
(* and a request that nobody has taken yet, are no more than were asked.    *)
Opening == pc = "close" /\ m_streamReader = 0 => after = "open"

Leaves == Cardinality(goneBar) + One(shutdownReader) <= Turns!Asked

LInv == IInv /\ Opening /\ Leaves

LEMMA GoneFinite ==
  ASSUME SessionAssumption
  PROVE  IsFiniteSet(goneBar) /\ Cardinality(goneBar) \in Nat
<1>1. IsFiniteSet(Readers)
  BY FS_Interval, 1 \in Int DEF SessionAssumption, Readers
<1>2. goneBar \subseteq Readers
  BY DEF goneBar
<1> QED  BY <1>1, <1>2, FS_Subset, FS_CardinalityType

(* turnBar and Asked, phase by phase; a step needs both of its states.     *)
TurnTable ==
  /\ pc \in {"starting", "loop", "read", "packet"} => turnBar = "on"
  /\ pc = "close" /\ m_streamReader # 0 => turnBar = "written"
  /\ pc = "close" /\ m_streamReader = 0 => turnBar = "between"
  /\ pc = "stopping" => turnBar = "asked"
  /\ pc = "open" => turnBar = "between"
  /\ pc \in {"once", "done"} => turnBar = "over"
  /\ pc \in {"dead", "null"} => turnBar = "crashed"
  /\ pc = "exit" => turnBar = "exited"

LEMMA TurnValues == TurnTable /\ TurnTable'
BY DEF TurnTable, turnBar

LEMMA SameCardinality == Turns!Cardinality(goneBar) = Cardinality(goneBar)
BY DEF Turns!Cardinality, Cardinality

LEMMA TurnOf ==
  ASSUME TypeOK
  PROVE  turnBar \in {"crashed", "exited"} <=> Ended
BY TurnValues DEF TurnTable, TypeOK, Ended

LEMMA AskedOf ==
  ASSUME TypeOK
  PROVE  /\ sessions \in Nat /\ Turns!Asked \in Int
         /\ turnBar \in {"on", "written"} => Turns!Asked = sessions - 1
         /\ turnBar \notin {"on", "written"} => Turns!Asked = sessions
<1>1. sessions \in Nat
  BY DEF TypeOK
<1> QED  BY <1>1 DEF Turns!Asked

LEMMA AskedNext ==
  ASSUME TypeOK'
  PROVE  /\ sessions' \in Nat /\ Turns!Asked' \in Int
         /\ turnBar' \in {"on", "written"} => Turns!Asked' = sessions' - 1
         /\ turnBar' \notin {"on", "written"} => Turns!Asked' = sessions'
<1>1. sessions' \in Nat
  BY DEF TypeOK
<1>2. Turns!Asked' = IF turnBar' \in {"on", "written"}
                     THEN sessions' - 1 ELSE sessions'
  BY DEF Turns!Asked
<1>3. turnBar' \in {"on", "written"} => Turns!Asked' = sessions' - 1
  BY <1>2
<1>4. turnBar' \notin {"on", "written"} => Turns!Asked' = sessions'
  BY <1>2
<1>5. sessions' - 1 \in Int /\ sessions' \in Int
  BY <1>1
<1>6. Turns!Asked' \in Int
  BY <1>2, <1>5, Zenon
<1> QED  BY <1>1, <1>3, <1>4, <1>6

LEMMA TurnFrame ==
  ASSUME UNCHANGED <<pc, m_streamReader, sessions>>
  PROVE  turnBar' = turnBar /\ Turns!Asked' = Turns!Asked
<1>1. turnBar' = turnBar
  BY DEF turnBar
<1> QED  BY <1>1 DEF Turns!Asked

(* What a reader does other than take the signal to leave changes none of  *)
(* the readers that leave.                                                 *)
Away == {"close", "freed", "exit"}

LEMMA SameGone ==
  ASSUME TypeOK, NEW r \in Readers, NEW where, RGoto(r, where),
         where \in Away <=> rpc[r] \in Away
  PROVE  goneBar' = goneBar
BY TypeParts DEF RGoto, goneBar, Away

LEMMA ReaderStays ==
  ASSUME TypeOK, NEW r \in Readers, Reader(r), ~(RCheck(r) /\ shutdownReader)
  PROVE  goneBar' = goneBar /\ (shutdownReader' => shutdownReader)
<1>3. CASE RReadNothing(r) \/ RReadStore(r) \/ RReadFull(r) \/ RReadSilence(r)
  <2>1. /\ rpc[r] \in {"pre_read", "read"} /\ RReadDone(r)
        /\ shutdownReader' = shutdownReader
    BY <1>3 DEF RReadNothing, RReadStore, RReadFull, RReadSilence, signals
  <2>2. PICK where \in {"check", "pre_check"} : RGoto(r, where)
    <3>1. CASE rpc[r] = "read"
      BY <2>1, <3>1 DEF RReadDone
    <3>2. CASE rpc[r] # "read"
      BY <2>1, <3>2 DEF RReadDone
    <3> QED  BY <3>1, <3>2
  <2> QED  BY <2>1, <2>2, SameGone DEF Away
<1>4. CASE RSetup(r) \/ RSignalStarted(r)
  <2>1. /\ rpc[r] \in {"create", "joined"} /\ shutdownReader' = shutdownReader
        /\ \E where \in {"joined", "pre_check"} : RGoto(r, where)
    BY <1>4 DEF RSetup, RSignalStarted, signals
  <2> QED  BY <2>1, SameGone DEF Away
<1>5. CASE RPrefetchCheck(r)
  <2>1. /\ rpc[r] = "pre_check" /\ shutdownReader' = FALSE
        /\ \E where \in {"check", "pre_read"} : RGoto(r, where)
    BY <1>5 DEF RPrefetchCheck
  <2> QED  BY <2>1, SameGone DEF Away
<1>6. CASE RCheck(r)
  <2>1. rpc[r] = "check" /\ shutdownReader' = FALSE /\ RGoto(r, "read")
    BY <1>6 DEF RCheck
  <2> QED  BY <2>1, SameGone DEF Away
<1>7. CASE RFree(r) \/ RSignalStopped(r) \/ RCloseThrows(r)
  <2>1. /\ rpc[r] \in Away /\ shutdownReader' = shutdownReader
        /\ \E where \in Away : RGoto(r, where)
    BY <1>7 DEF RFree, RSignalStopped, RCloseThrows, signals, Away
  <2> QED  BY <2>1, SameGone DEF Away
<1> QED  BY <1>3, <1>4, <1>5, <1>6, <1>7 DEF Reader

(* A reader that takes the signal uses up what it was one of.              *)
LEMMA ReaderTurn ==
  ASSUME SessionAssumption, LInv, NEW r \in Readers, Reader(r)
  PROVE  /\ Turns!Leave(r) \/ UNCHANGED Turns!sessionVars
         /\ Opening' /\ Leaves'
<1>1. UNCHANGED <<pc, after, m_streamReader, sessions, rows>>
  BY DEF Reader, RSetup, RSignalStarted, RPrefetchCheck, RCheck, RReadNothing,
         RReadStore, RReadFull, RReadSilence, RFree, RSignalStopped,
         RCloseThrows, demux, history
<1>2. turnBar' = turnBar /\ Turns!Asked' = Turns!Asked
  BY <1>1, TurnFrame
<1>3. Opening'
  BY <1>1 DEF LInv, Opening
<1>4. Turns!Asked \in Int /\ Cardinality(goneBar) \in Nat
  BY AskedOf, GoneFinite DEF LInv, IInv
<1>5. Cardinality(goneBar) + One(shutdownReader) <= Turns!Asked
  BY DEF LInv, Leaves
<1>6. CASE RCheck(r) /\ shutdownReader
  <2>1. rpc[r] = "check" /\ ~Ended /\ rpc' = [rpc EXCEPT ![r] = "close"]
    BY <1>6 DEF RCheck, RGoto
  <2>2. One(shutdownReader) = 1 /\ One(shutdownReader)' = 0
    BY <1>6 DEF RCheck, One
  <2>3. goneBar' = goneBar \cup {r} /\ r \notin goneBar
    BY <2>1, TypeParts DEF LInv, IInv, goneBar
  <2>4. Cardinality(goneBar') = Cardinality(goneBar) + 1
    BY <2>3, GoneFinite, FS_AddElement
  <2>5. Leaves'
    BY <1>2, <1>4, <1>5, <2>2, <2>4 DEF Leaves
  <2>6. r \in 1 .. sessions
    BY <2>1 DEF LInv, IInv, Books, NotYet, Readers, TypeOK, SessionAssumption
  <2>7. Cardinality(goneBar) < Turns!Asked
    BY <1>4, <1>5, <2>2
  <2>8. turnBar \notin {"crashed", "exited"}
    BY <2>1, TurnOf DEF LInv, IInv
  <2>9. Turns!Leave(r)
    BY <1>1, <1>2, <2>3, <2>6, <2>7, <2>8, SameCardinality
       DEF Turns!Leave
  <2> QED  BY <1>3, <2>5, <2>9
<1>7. CASE ~(RCheck(r) /\ shutdownReader)
  <2>1. goneBar' = goneBar /\ (shutdownReader' => shutdownReader)
    BY <1>7, ReaderStays DEF LInv, IInv
  <2>2. /\ One(shutdownReader)' \in {0, 1} /\ One(shutdownReader) \in {0, 1}
        /\ One(shutdownReader)' <= One(shutdownReader)
    BY <2>1 DEF One
  <2>3. Leaves'
    BY <1>2, <1>4, <1>5, <2>1, <2>2 DEF Leaves
  <2> QED  BY <1>1, <1>2, <1>3, <2>1, <2>3 DEF Turns!sessionVars
<1> QED  BY <1>6, <1>7

(* The demultiplexer makes nobody leave: a new reader takes a place that   *)
(* was free.                                                               *)
LEMMA DemuxGone ==
  ASSUME SessionAssumption, IInv, Demux
  PROVE  goneBar' = goneBar
<1>1. CASE DOpen
  <2>1. sessions + 1 \in Readers /\ rpc[sessions + 1] = "none"
    BY <1>1 DEF DOpen, IInv, TypeOK, Books, Phases, NotYet, Readers,
                SessionAssumption
  <2>2. rpc' = [rpc EXCEPT ![sessions + 1] = "create"]
    BY <1>1 DEF DOpen, RGoto
  <2> QED  BY <2>1, <2>2, TypeParts DEF IInv, goneBar
<1>2. CASE ~DOpen
  <2>1. rpc' = rpc
    BY <1>2
    DEF Demux, DClose, DStopped, DStopTimeout, CloseRest, DStarted,
        DStartTimeout, DShutdown, DRestart, DChange, DOnce, DCheck, DReadBroken,
        DReadDead, DReadData, DReadTimeout, DPacket, DPacketFatal, Reset,
        readers
  <2> QED  BY <2>1 DEF goneBar
<1> QED  BY <1>1, <1>2

(* What Asked has to say in a step that keeps the readers.                 *)
LEMMA LeavesFrame ==
  ASSUME SessionAssumption, LInv, TypeOK', goneBar' = goneBar,
         shutdownReader' = shutdownReader, Turns!Asked <= Turns!Asked'
  PROVE  Leaves'
<1>1. /\ Turns!Asked \in Int /\ Turns!Asked' \in Int
      /\ Cardinality(goneBar) \in Nat /\ One(shutdownReader) \in {0, 1}
  BY AskedOf, AskedNext, GoneFinite DEF LInv, IInv, One
<1>2. Cardinality(goneBar) + One(shutdownReader) <= Turns!Asked
  BY DEF LInv, Leaves
<1>3. Cardinality(goneBar)' + One(shutdownReader)' <= Turns!Asked'
  BY <1>1, <1>2 DEF One
<1> QED  BY <1>3 DEF Leaves

(* Each step of the demultiplexer is one of its turn's, or none.           *)
LEMMA DemuxTurn ==
  ASSUME SessionAssumption, LInv, TypeOK', Demux
  PROVE  /\ Turns!Next \/ UNCHANGED Turns!sessionVars
         /\ Opening' /\ Leaves'
<1>1. goneBar' = goneBar
  BY DemuxGone DEF LInv
<1>2. /\ sessions \in Nat
      /\ turnBar \in {"on", "written"} => Turns!Asked = sessions - 1
      /\ turnBar \notin {"on", "written"} => Turns!Asked = sessions
  BY AskedOf DEF LInv, IInv
<1>3. /\ sessions' \in Nat
      /\ turnBar' \in {"on", "written"} => Turns!Asked' = sessions' - 1
      /\ turnBar' \notin {"on", "written"} => Turns!Asked' = sessions'
  BY AskedNext
<1>4. TypeOK /\ Phases /\ Opening
  BY DEF LInv, IInv, Books
<1>5. CASE DClose /\ m_streamReader # 0
  <2>1. pc = "close" /\ pc' = "stopping" /\ shutdownReader'
        /\ UNCHANGED <<m_streamReader, sessions, rows>>
    BY <1>5 DEF DClose, history
  <2>2. turnBar = "written" /\ turnBar' = "asked"
    BY <1>5, <2>1, TurnValues DEF TurnTable
  <2>3. Turns!Ask
    BY <1>1, <2>1, <2>2 DEF Turns!Ask
  <2>4. Turns!Asked = sessions - 1 /\ Turns!Asked' = sessions
    BY <1>2, <1>3, <2>1, <2>2
  <2>5. Cardinality(goneBar) \in Nat /\ One(shutdownReader) \in {0, 1}
    BY GoneFinite DEF One
  <2>6. Cardinality(goneBar) + One(shutdownReader) <= sessions - 1
    BY <2>4 DEF LInv, Leaves
  <2>7. Cardinality(goneBar)' + One(shutdownReader)' <= Turns!Asked'
    BY <1>1, <1>2, <2>1, <2>4, <2>5, <2>6 DEF One
  <2>8. Opening'
    BY <2>1 DEF Opening
  <2> QED  BY <2>3, <2>7, <2>8 DEF Turns!Next, Leaves
<1>6. CASE DClose /\ m_streamReader = 0
  <2>1. /\ pc = "close" /\ pc' = "open"
        /\ UNCHANGED <<m_streamReader, shutdownReader, sessions, rows>>
    BY <1>4, <1>6 DEF DClose, history, Opening
  <2>2. turnBar = "between" /\ turnBar' = "between"
    BY <1>6, <2>1, TurnValues DEF TurnTable
  <2>3. UNCHANGED Turns!sessionVars
    BY <1>1, <2>1, <2>2 DEF Turns!sessionVars
  <2>4. Turns!Asked <= Turns!Asked'
    BY <1>2, <1>3, <2>1, <2>2
  <2>5. Leaves'
    BY <1>1, <2>1, <2>4, LeavesFrame
  <2> QED  BY <2>1, <2>3, <2>5 DEF Opening
<1>7. CASE DStopped \/ DStopTimeout
  <2>1. /\ pc = "stopping" /\ pc' = after
        /\ UNCHANGED <<shutdownReader, sessions, rows>>
    BY <1>7 DEF DStopped, DStopTimeout, CloseRest
  <2>2. after \in {"open", "once", "done"}
    BY <1>4 DEF TypeOK
  <2>3. turnBar = "asked" /\ turnBar' \in {"between", "over"}
    BY <2>1, <2>2, TurnValues DEF TurnTable
  <2>4. Turns!LetGo
    BY <1>1, <2>1, <2>3 DEF Turns!LetGo
  <2>5. Turns!Asked <= Turns!Asked'
    BY <1>2, <1>3, <2>1, <2>3
  <2>6. Leaves'
    BY <1>1, <2>1, <2>5, LeavesFrame
  <2> QED  BY <2>1, <2>2, <2>4, <2>6 DEF Opening, Turns!Next
<1>8. CASE DOpen
  <2>1. /\ pc = "open" /\ pc' = "starting" /\ sessions' = sessions + 1
        /\ UNCHANGED <<shutdownReader, rows>>
    BY <1>8 DEF DOpen, signals
  <2>2. turnBar = "between" /\ turnBar' = "on"
    BY <2>1, TurnValues DEF TurnTable
  <2>3. sessions < MaxSessions
    BY <1>4, <2>1 DEF Phases
  <2>4. Turns!Begin
    BY <1>1, <2>1, <2>2, <2>3 DEF Turns!Begin
  <2>5. Turns!Asked <= Turns!Asked'
    BY <1>2, <1>3, <2>1, <2>2
  <2>6. Leaves'
    BY <1>1, <2>1, <2>5, LeavesFrame
  <2> QED  BY <2>1, <2>4, <2>6 DEF Opening, Turns!Next
<1>9. CASE DShutdown \/ DRestart \/ DChange \/ DPacketFatal
  <2>1. /\ pc \in {"loop", "packet"} /\ pc' = "close" /\ rows' = rows + 1
        /\ UNCHANGED <<shutdownReader, m_streamReader, sessions>>
    BY <1>9 DEF DShutdown, DRestart, DChange, DPacketFatal, Reset
  <2>2. m_streamReader # 0
    BY <1>4, <2>1 DEF Phases, Session
  <2>3. turnBar = "on" /\ turnBar' = "written"
    BY <2>1, <2>2, TurnValues DEF TurnTable
  <2>4. Turns!Record
    BY <1>1, <2>1, <2>3 DEF Turns!Record
  <2>5. Turns!Asked <= Turns!Asked'
    BY <1>2, <1>3, <2>1, <2>3
  <2>6. Leaves'
    BY <1>1, <2>1, <2>5, LeavesFrame
  <2> QED  BY <2>1, <2>2, <2>4, <2>6 DEF Opening, Turns!Next
<1>10. CASE DStarted \/ DStartTimeout \/ DCheck \/ DReadBroken \/ DReadData
            \/ DReadTimeout \/ DPacket
  <2>1. /\ pc \in {"starting", "loop", "read", "packet"}
        /\ pc' \in {"starting", "loop", "read", "packet"}
        /\ UNCHANGED <<shutdownReader, sessions, rows>>
    BY <1>10
    DEF DStarted, DStartTimeout, DCheck, DReadBroken, DReadData, DReadTimeout,
        DPacket, signals, history
  <2>2. turnBar = "on" /\ turnBar' = "on"
    BY <2>1, TurnValues DEF TurnTable
  <2>3. UNCHANGED Turns!sessionVars
    BY <1>1, <2>1, <2>2 DEF Turns!sessionVars
  <2>4. Turns!Asked <= Turns!Asked'
    BY <1>2, <1>3, <2>1, <2>2
  <2>5. Leaves'
    BY <1>1, <2>1, <2>4, LeavesFrame
  <2> QED  BY <2>1, <2>3, <2>5 DEF Opening
<1>11. CASE DOnce \/ DReadDead
  <2>1. /\ pc \in {"once", "read"} /\ pc' \in {"done", "dead", "null"}
        /\ pc' = "done" => pc = "once"
        /\ UNCHANGED <<shutdownReader, sessions, rows>>
    BY <1>11 DEF DOnce, DReadDead, signals, history
  <2>2. /\ turnBar \in {"on", "over"}
        /\ turnBar' = "crashed" \/ (turnBar = "over" /\ turnBar' = "over")
    BY <2>1, TurnValues DEF TurnTable
  <2>3. Turns!Crash \/ UNCHANGED Turns!sessionVars
    BY <1>1, <2>1, <2>2 DEF Turns!Crash, Turns!sessionVars
  <2>4. Turns!Asked <= Turns!Asked'
    BY <1>2, <1>3, <2>1, <2>2
  <2>5. Leaves'
    BY <1>1, <2>1, <2>4, LeavesFrame
  <2> QED  BY <2>1, <2>3, <2>5 DEF Opening, Turns!Next
<1> QED
  BY <1>5, <1>6, <1>7, <1>8, <1>9, <1>10, <1>11 DEF Demux

LEMMA InitTurn ==
  ASSUME SessionAssumption, Init
  PROVE  LInv /\ Turns!Init
<1>1. IInv
  BY InitInv
<1>2. /\ pc = "close" /\ m_streamReader = 0 /\ after = "open"
      /\ sessions = 0 /\ rows = 0 /\ ~shutdownReader
  BY DEF Init
<1>3. goneBar = {}
  BY DEF Init, goneBar
<1>4. turnBar = "between"
  BY <1>2, TurnValues DEF TurnTable
<1>5. Cardinality(goneBar) = 0 /\ One(shutdownReader) = 0
  BY <1>2, <1>3, FS_EmptySet DEF One
<1>6. Turns!Asked = 0
  BY <1>2, <1>4 DEF Turns!Asked
<1> QED  BY <1>1, <1>2, <1>3, <1>4, <1>5, <1>6
         DEF LInv, Opening, Leaves, Turns!Init

(* exit() takes every reader begun along. *)
LEMMA ExitTurn ==
  ASSUME SessionAssumption, LInv, Exit
  PROVE  Turns!Exit /\ Opening' /\ Leaves'
<1>1. TypeOK /\ TypeOK'
  BY ExitInv DEF LInv, IInv
<1>2. /\ pc' = "exit" /\ ~shutdownReader' /\ UNCHANGED <<sessions, rows>>
  BY DEF Exit, history
<1>3. turnBar \notin {"crashed", "exited"} /\ turnBar' = "exited"
  BY <1>1, <1>2, TurnOf, TurnValues DEF TurnTable, Exit
<1>4. sessions \in Nat /\ sessions <= MaxSessions
  BY <1>1 DEF TypeOK, SessionAssumption
<1>5. goneBar' = 1 .. sessions
  <2>1. goneBar' = {r \in Readers : r <= sessions}
    BY DEF Exit, goneBar
  <2> QED  BY <1>4, <2>1 DEF Readers, SessionAssumption
<1>6. Leaves'
  <2>1. Cardinality(1 .. sessions) = sessions
    BY <1>4, FS_Interval
  <2>2. Turns!Asked' = sessions
    BY <1>1, <1>2, <1>3, AskedNext
  <2>3. One(shutdownReader)' = 0
    BY <1>2 DEF One
  <2>4. Cardinality(goneBar)' = sessions
    BY <1>5, <2>1
  <2> QED  BY <1>4, <2>2, <2>3, <2>4 DEF Leaves
<1> QED  BY <1>2, <1>3, <1>5, <1>6 DEF Opening, Turns!Exit

LEMMA StepTurn ==
  ASSUME SessionAssumption, LInv, [Next]_vars
  PROVE  LInv' /\ [Turns!Next]_(Turns!sessionVars)
<1>1. IInv'
  BY StepInv DEF LInv
<1>2. CASE Demux
  BY <1>1, <1>2, DemuxTurn DEF LInv, IInv
<1>3. ASSUME NEW r \in Readers, Reader(r)
      PROVE  LInv' /\ [Turns!Next]_(Turns!sessionVars)
  BY <1>1, <1>3, ReaderTurn DEF LInv, Turns!Next, Readers
<1>4. CASE Shutdown \/ UNCHANGED vars
  <2>1. UNCHANGED <<pc, after, m_streamReader, sessions, rows, shutdownReader,
                    rpc>>
    BY <1>4 DEF Shutdown, vars, signals, demux, readers, history
  <2>2. turnBar' = turnBar /\ Turns!Asked' = Turns!Asked
    BY <2>1, TurnFrame
  <2>3. goneBar' = goneBar
    BY <2>1 DEF goneBar
  <2>4. Opening' /\ Leaves'
    BY <2>1, <2>2, <2>3 DEF LInv, Opening, Leaves, One
  <2> QED  BY <1>1, <2>1, <2>2, <2>3, <2>4 DEF LInv, Turns!sessionVars
<1>5. CASE Exit
  BY <1>1, <1>5, ExitTurn DEF LInv, Turns!Next
<1> QED  BY <1>2, <1>3, <1>4, <1>5 DEF Next

(* The sessions of Demux::Action take turns as SessionSpec says, and no    *)
(* more readers leave than Demux::Close has asked to.                      *)
THEOREM SessionsTakeTurns == Spec => SessionsInTurn
<1>1. Spec => Turns!Init /\ [][Turns!Next]_(Turns!sessionVars)
  BY InitTurn, StepTurn, SessionAssumption, PTL DEF Spec
<1> QED  BY <1>1 DEF SessionsInTurn, Turns!Spec
============================================================================
