---------------------------- MODULE TimeoutAlarm ----------------------------
(***************************************************************************)
(* The alarm of mctest3: when a stream falls silent more than once within  *)
(* the false alarm period, Demux starts an external program (option -x),   *)
(* though not more often than once per TIMEOUT_EXEC_DELAY.                 *)
(*                                                                         *)
(* Two timers watch the same silence: the StreamReader's runs from the     *)
(* last datagram, Demux::ReadAV's from the start of the call.  Whichever   *)
(* ends first breaks the session; only ReadAV's counts as a time-out.      *)
(*                                                                         *)
(* A cTimeMs timer is the time at which it ends.  Time passes in Tick, and *)
(* no further than the loops of both threads allow: select() returns after *)
(* SelectWait, and ReadAV looks again after LoopWait.                      *)
(***************************************************************************)
EXTENDS Integers, FiniteSets

CONSTANTS
  DataWait,     \* READ_DATA_WAIT_MS = RECV_DATA_WAIT_MS (60 s)
  FalseAlarm,   \* FALSE_ALARM_TIMEOUT (10 min)
  ExecDelay,    \* TIMEOUT_EXEC_DELAY (60 min)
  SelectWait,   \* the time-out of readSocket()'s select() (1 s)
  LoopWait,     \* longest turn of ReadAV's loop (SleepMs(1) and scheduling)
  MaxTime       \* bound: time

ASSUME AlarmAssumption ==
  /\ DataWait \in Nat \ {0} /\ FalseAlarm \in Nat \ {0} /\ ExecDelay \in Nat \ {0}
  /\ SelectWait \in Nat \ {0} /\ LoopWait \in Nat \ {0} /\ LoopWait < DataWait
  /\ MaxTime \in Nat

Time == 0 .. MaxTime

VARIABLES
  now,
  readerTimer,         \* StreamReader: m_dataWaitTimer
  selected,            \* when readSocket() last called select()
  broken,              \* StreamReader: m_isBroken
  avail,               \* the ring holds enough for the next read
  pc,                  \* "idle", "reading" (in ReadAV) or "broken"
  dataWaitTimer,       \* Demux: m_dataWaitTimer
  looked,              \* when ReadAV's loop last turned
  falseAlarmTimer,     \* Demux: m_falseAlarmTimer
  lastTimeoutExecTimer,
  m_timeoutsDetected,
  timeouts, execs      \* history: when each was counted or started

reader == <<readerTimer, selected, broken, avail>>
alarm == <<falseAlarmTimer, lastTimeoutExecTimer, m_timeoutsDetected,
           timeouts, execs>>
vars == <<now, reader, pc, dataWaitTimer, looked, alarm>>

(* A new cTimeMs has already ended. *)
Init ==
  /\ now = 0
  /\ readerTimer = DataWait /\ selected = 0
  /\ broken = FALSE /\ avail = FALSE
  /\ pc = "idle" /\ dataWaitTimer = 0 /\ looked = 0
  /\ falseAlarmTimer = 0 /\ lastTimeoutExecTimer = 0
  /\ m_timeoutsDetected = 0
  /\ timeouts = {} /\ execs = {}

TimedOut(timer) == now >= timer

Tick ==
  /\ now < MaxTime
  /\ ~broken => now < selected + SelectWait
  /\ pc = "reading" => now < looked + LoopWait
  /\ now' = now + 1
  /\ UNCHANGED <<reader, pc, dataWaitTimer, looked, alarm>>
-----------------------------------------------------------------------------
(* The reader thread: readSocket() *)

(* One datagram need not be enough for the read under way. *)
Receive ==
  /\ ~broken
  /\ readerTimer' = now + DataWait
  /\ selected' = now
  /\ \E enough \in BOOLEAN : avail' = (avail \/ enough)
  /\ UNCHANGED <<now, broken, pc, dataWaitTimer, looked, alarm>>

SelectTimesOut ==
  /\ ~broken
  /\ now = selected + SelectWait
  /\ selected' = now
  /\ broken' = TimedOut(readerTimer)
  /\ UNCHANGED <<now, readerTimer, avail, pc, dataWaitTimer, looked, alarm>>
-----------------------------------------------------------------------------
(* The demultiplexer thread: ReadAV *)

StartRead ==
  /\ pc = "idle"
  /\ pc' = "reading"
  /\ dataWaitTimer' = now + DataWait
  /\ looked' = now
  /\ UNCHANGED <<now, reader, alarm>>

(* The reader is broken: a silence it noticed first is not counted. *)
ReadBroken ==
  /\ pc = "reading" /\ broken
  /\ pc' = "broken"
  /\ UNCHANGED <<now, reader, dataWaitTimer, looked, alarm>>

ReadData ==
  /\ pc = "reading" /\ ~broken /\ avail
  /\ pc' = "idle"
  /\ \E more \in BOOLEAN : avail' = more
  /\ UNCHANGED <<now, readerTimer, selected, broken, dataWaitTimer, looked, alarm>>

NoData == pc = "reading" /\ ~broken /\ ~avail

CountTimeout ==
  /\ falseAlarmTimer' = IF m_timeoutsDetected = 0 THEN now + FalseAlarm
                                                  ELSE falseAlarmTimer
  /\ m_timeoutsDetected' = m_timeoutsDetected + 1
  /\ timeouts' = timeouts \cup {now}

ReadTimesOut ==
  /\ NoData /\ TimedOut(dataWaitTimer)
  /\ pc' = "broken"
  /\ dataWaitTimer' = now + DataWait
  /\ CountTimeout
  /\ UNCHANGED <<now, reader, looked, lastTimeoutExecTimer, execs>>

(* A slip: the timer is not set again. *)
MutExecTimeoutProgram ==
  /\ execs' = IF TimedOut(lastTimeoutExecTimer) THEN execs \cup {now} ELSE execs
  /\ UNCHANGED lastTimeoutExecTimer

(* ExecTimeoutProgram: not while the program was started recently. *)
ExecTimeoutProgram ==
  IF TimedOut(lastTimeoutExecTimer)
    THEN /\ execs' = execs \cup {now}
         /\ lastTimeoutExecTimer' = now + ExecDelay
    ELSE UNCHANGED <<execs, lastTimeoutExecTimer>>

PeriodOver == m_timeoutsDetected > 0 /\ TimedOut(falseAlarmTimer)

(* A slip: only the alarm itself clears the count. *)
MutDecideAlarm ==
  IF PeriodOver /\ m_timeoutsDetected > 1
    THEN ExecTimeoutProgram /\ m_timeoutsDetected' = 0
    ELSE UNCHANGED <<execs, lastTimeoutExecTimer, m_timeoutsDetected>>

(* Only when more than one time-out was detected in the period. *)
DecideAlarm ==
  /\ m_timeoutsDetected' = IF PeriodOver THEN 0 ELSE m_timeoutsDetected
  /\ IF PeriodOver /\ m_timeoutsDetected > 1
       THEN ExecTimeoutProgram
       ELSE UNCHANGED <<execs, lastTimeoutExecTimer>>

ReadWaits ==
  /\ NoData /\ ~TimedOut(dataWaitTimer)
  /\ looked' = now
  /\ DecideAlarm
  /\ UNCHANGED <<now, reader, pc, dataWaitTimer, falseAlarmTimer, timeouts>>

(* Demux::Reset: a new session, after an error or for the next channel. *)
Reset ==
  /\ pc \in {"idle", "broken"}
  /\ pc' = "idle"
  /\ readerTimer' = now + DataWait
  /\ selected' = now /\ broken' = FALSE /\ avail' = FALSE
  /\ UNCHANGED <<now, dataWaitTimer, looked, alarm>>

Next ==
  \/ Tick \/ Receive \/ SelectTimesOut
  \/ StartRead \/ ReadBroken \/ ReadData \/ ReadTimesOut \/ ReadWaits \/ Reset

Spec == Init /\ [][Next]_vars
-----------------------------------------------------------------------------
TypeOK ==
  /\ now \in Time /\ selected \in Time /\ looked \in Time
  /\ readerTimer \in 0 .. MaxTime + DataWait
  /\ dataWaitTimer \in 0 .. MaxTime + DataWait
  /\ falseAlarmTimer \in 0 .. MaxTime + FalseAlarm
  /\ lastTimeoutExecTimer \in 0 .. MaxTime + ExecDelay
  /\ broken \in BOOLEAN /\ avail \in BOOLEAN
  /\ pc \in {"idle", "reading", "broken"}
  /\ m_timeoutsDetected \in Nat
  /\ timeouts \subseteq Time /\ execs \subseteq Time

(* The program is started for two time-outs of one false alarm period      *)
(* (comment at Demux.cpp:458).  The period is checked between two          *)
(* time-outs, so that one may exceed it by no more than a turn of the loop *)
(* in which both timers end.                                               *)
ExecJustified ==
  \A e \in execs : \E t, u \in timeouts :
    t < u /\ u <= e /\ u <= t + FalseAlarm + LoopWait

(* The program is started only periodically (comment at Demux.cpp:361),    *)
(* however often the stream falls silent and whatever resets the session.  *)
ExecSpaced == \A e, f \in execs : e < f => e + ExecDelay <= f

(* What the alarm is decided by is what it stands for: the count is the    *)
(* number of time-outs since the one that began the period, and none of    *)
(* them came after its end, but for the last turn of the loop.             *)
CountOfPeriod ==
  m_timeoutsDetected > 0 =>
    LET period == {t \in timeouts : t >= falseAlarmTimer - FalseAlarm} IN
    /\ Cardinality(period) = m_timeoutsDetected
    /\ \A t \in period : t <= falseAlarmTimer + LoopWait
=============================================================================
