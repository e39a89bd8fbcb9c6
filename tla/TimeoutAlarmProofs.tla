------------------------- MODULE TimeoutAlarmProofs -------------------------
(***************************************************************************)
(* The alarm of mctest3 for any waits and delays.  The invariant relates   *)
(* the timers: ReadAV looks at the end of the period in every turn of its  *)
(* loop but the first, and the time-out of the wait comes later than the   *)
(* first.                                                                  *)
(***************************************************************************)
EXTENDS TimeoutAlarm, FiniteSetTheorems, TLAPS

Period == {t \in timeouts : t >= falseAlarmTimer - FalseAlarm}

(* The last turn of the loop was not long ago; unless it was the first,    *)
(* the period was not over then.                                           *)
LoopOK ==
  pc = "reading" =>
    /\ looked <= now /\ now <= looked + LoopWait
    /\ \/ looked = dataWaitTimer - DataWait
       \/ m_timeoutsDetected > 0 => looked < falseAlarmTimer

(* Every time-out came before the wait that is under way. *)
WaitOK ==
  /\ dataWaitTimer <= now + DataWait
  /\ \A t \in timeouts : t <= dataWaitTimer - DataWait

(* The period began with a time-out, and was judged by those in it. *)
PeriodOK ==
  /\ m_timeoutsDetected > 0 => falseAlarmTimer - FalseAlarm \in timeouts
  /\ m_timeoutsDetected > 1 =>
       \E u \in timeouts : /\ falseAlarmTimer - FalseAlarm < u
                           /\ u <= falseAlarmTimer + LoopWait

ExecsOK == \A e \in execs : e + ExecDelay <= lastTimeoutExecTimer

CountOK ==
  m_timeoutsDetected > 0 =>
    /\ Cardinality(Period) = m_timeoutsDetected
    /\ \A t \in Period : t <= falseAlarmTimer + LoopWait

TInv == TypeOK /\ LoopOK /\ WaitOK
IInv == TInv /\ PeriodOK /\ ExecsOK /\ ExecSpaced /\ ExecJustified /\ CountOK
-----------------------------------------------------------------------------
LEMMA InitInv == ASSUME AlarmAssumption, Init PROVE IInv
<1>1. TypeOK
  <2>1. /\ 0 \in Time /\ DataWait \in 0 .. MaxTime + DataWait
        /\ 0 \in 0 .. MaxTime + DataWait /\ 0 \in 0 .. MaxTime + FalseAlarm
        /\ 0 \in 0 .. MaxTime + ExecDelay /\ 0 \in Nat
    BY DEF AlarmAssumption, Time
  <2> QED  BY <2>1 DEF Init, TypeOK
<1>2. LoopOK /\ WaitOK /\ PeriodOK /\ ExecsOK /\ ExecSpaced /\ ExecJustified /\ CountOK
  BY DEF AlarmAssumption, Init, LoopOK, WaitOK, PeriodOK, ExecsOK, ExecSpaced,
         ExecJustified, CountOK
<1> QED  BY <1>1, <1>2 DEF IInv, TInv

(* A step that leaves the alarm alone keeps what is known of it. *)
LEMMA AlarmKept ==
  ASSUME IInv, UNCHANGED alarm
  PROVE  PeriodOK' /\ ExecsOK' /\ ExecSpaced' /\ ExecJustified' /\ CountOK'
BY DEF IInv, alarm, PeriodOK, ExecsOK, ExecSpaced, ExecJustified, CountOK, Period

(* A time-out comes at the end of its wait, and at most one turn of the    *)
(* loop after the end of a period that is not over.                        *)
LEMMA TimeoutLate ==
  ASSUME AlarmAssumption, IInv, ReadTimesOut
  PROVE  /\ now >= dataWaitTimer
         /\ \A t \in timeouts : t < now
         /\ m_timeoutsDetected > 0 => now <= falseAlarmTimer + LoopWait
<1>1. pc = "reading" /\ now >= dataWaitTimer
  BY DEF ReadTimesOut, NoData, TimedOut
<1> USE DEF IInv, TInv
<1>2. \A t \in timeouts : t < now
  <2> SUFFICES ASSUME NEW t \in timeouts PROVE t < now
    OBVIOUS
  <2>1. t \in Int /\ now \in Int /\ dataWaitTimer \in Int /\ DataWait \in Nat \ {0}
    BY DEF TypeOK, Time, AlarmAssumption
  <2> QED  BY <1>1, <2>1 DEF WaitOK
<1>3. ASSUME m_timeoutsDetected > 0 PROVE now <= falseAlarmTimer + LoopWait
  <2>1. /\ now \in Int /\ dataWaitTimer \in Int /\ DataWait \in Nat
        /\ looked \in Int /\ falseAlarmTimer \in Int
        /\ LoopWait \in Nat /\ LoopWait < DataWait
    BY DEF TypeOK, Time, AlarmAssumption
  <2>2. now <= looked + LoopWait
    BY <1>1 DEF LoopOK
  <2>3. looked # dataWaitTimer - DataWait
    BY <1>1, <2>1, <2>2
  <2>4. looked < falseAlarmTimer
    BY <1>1, <1>3, <2>3 DEF LoopOK
  <2> QED  BY <2>1, <2>2, <2>4
<1> QED  BY <1>1, <1>2, <1>3

LEMMA TimeoutsFinite == ASSUME AlarmAssumption, TypeOK PROVE IsFiniteSet(timeouts)
<1>1. IsFiniteSet(0 .. MaxTime)
  BY FS_Interval DEF AlarmAssumption
<1> QED  BY <1>1, FS_Subset DEF TypeOK, Time

LEMMA TimesOutKeeps == ASSUME AlarmAssumption, IInv, ReadTimesOut PROVE IInv'
<1> USE DEF IInv, TInv
<1>1. /\ now >= dataWaitTimer
      /\ \A t \in timeouts : t < now
      /\ m_timeoutsDetected > 0 => now <= falseAlarmTimer + LoopWait
  BY TimeoutLate
<1>2. /\ now \in Int /\ now \in Time /\ dataWaitTimer \in Int /\ falseAlarmTimer \in Int
      /\ DataWait \in Nat /\ FalseAlarm \in Nat \ {0} /\ LoopWait \in Nat
      /\ m_timeoutsDetected \in Nat /\ timeouts \subseteq Int
  BY DEF TypeOK, Time, AlarmAssumption
<1>3. /\ pc' = "broken" /\ dataWaitTimer' = now + DataWait /\ now' = now
      /\ falseAlarmTimer' = IF m_timeoutsDetected = 0 THEN now + FalseAlarm
                                                      ELSE falseAlarmTimer
      /\ m_timeoutsDetected' = m_timeoutsDetected + 1
      /\ timeouts' = timeouts \cup {now}
      /\ UNCHANGED <<reader, looked, lastTimeoutExecTimer, execs>>
  BY DEF ReadTimesOut, CountTimeout
<1>4. TypeOK'
  BY <1>2, <1>3 DEF TypeOK, Time, reader, AlarmAssumption
<1>5. LoopOK' /\ WaitOK'
  <2>1. \A t \in timeouts' : t <= now
    BY <1>1, <1>2, <1>3
  <2> QED  BY <1>2, <1>3, <2>1 DEF LoopOK, WaitOK
<1>6. PeriodOK'
  <2>1. CASE m_timeoutsDetected = 0
    BY <1>2, <1>3, <2>1 DEF PeriodOK
  <2>2. CASE m_timeoutsDetected > 0
    <3>1. falseAlarmTimer' = falseAlarmTimer
      BY <1>2, <1>3, <2>2
    <3>2. falseAlarmTimer - FalseAlarm \in timeouts
      BY <2>2 DEF PeriodOK
    <3>3. falseAlarmTimer - FalseAlarm < now /\ now <= falseAlarmTimer + LoopWait
      BY <1>1, <2>2, <3>2
    <3>4. now \in timeouts' /\ falseAlarmTimer - FalseAlarm \in timeouts'
      BY <1>3, <3>2
    <3> QED  BY <3>1, <3>3, <3>4 DEF PeriodOK
  <2> QED  BY <1>2, <2>1, <2>2
<1>7. ExecsOK' /\ ExecSpaced'
  BY <1>3 DEF ExecsOK, ExecSpaced
<1>8. ExecJustified'
  BY <1>3 DEF ExecJustified
<1>9. CountOK'
  <2>1. CASE m_timeoutsDetected = 0
    <3>1. falseAlarmTimer' - FalseAlarm = now
      BY <1>2, <1>3, <2>1
    <3>2. Period' = {now}
      <4>1. Period' = {t \in timeouts \cup {now} : t >= now}
        BY <1>3, <3>1 DEF Period
      <4>2. now >= now
        BY <1>2
      <4>3. \A t \in timeouts : ~(t >= now)
        BY <1>1, <1>2
      <4> QED  BY <4>1, <4>2, <4>3, Zenon
    <3>3. Cardinality(Period') = 1
      BY <3>2, FS_Singleton
    <3>4. m_timeoutsDetected' = 1 /\ now <= falseAlarmTimer' + LoopWait
      BY <1>2, <1>3, <2>1
    <3> QED  BY <3>2, <3>3, <3>4 DEF CountOK
  <2>2. CASE m_timeoutsDetected > 0
    <3>1. falseAlarmTimer' = falseAlarmTimer
      BY <1>2, <1>3, <2>2
    <3>2. falseAlarmTimer - FalseAlarm < now
      BY <1>1, <2>2 DEF PeriodOK
    <3>3. Period' = Period \cup {now} /\ now \notin Period
      BY <1>1, <1>2, <1>3, <3>1, <3>2 DEF Period
    <3>4. IsFiniteSet(Period)
      BY TimeoutsFinite, FS_Subset DEF Period
    <3>5. Cardinality(Period') = Cardinality(Period) + 1
      BY <3>3, <3>4, FS_AddElement
    <3>6. Cardinality(Period) = m_timeoutsDetected
          /\ \A t \in Period : t <= falseAlarmTimer + LoopWait
      BY <2>2 DEF CountOK
    <3>7. \A t \in Period' : t <= falseAlarmTimer' + LoopWait
      BY <1>1, <2>2, <3>1, <3>3, <3>6
    <3> QED  BY <1>3, <3>5, <3>6, <3>7 DEF CountOK
  <2> QED  BY <1>2, <2>1, <2>2
<1> QED  BY <1>4, <1>5, <1>6, <1>7, <1>8, <1>9

LEMMA WaitsKeeps == ASSUME AlarmAssumption, IInv, ReadWaits PROVE IInv'
<1> USE DEF IInv, TInv
<1>1. /\ now \in Int /\ now \in Time /\ falseAlarmTimer \in Int
      /\ lastTimeoutExecTimer \in Int /\ m_timeoutsDetected \in Nat
      /\ DataWait \in Nat /\ LoopWait \in Nat /\ ExecDelay \in Nat \ {0}
      /\ timeouts \subseteq Int /\ execs \subseteq Int
  BY DEF TypeOK, Time, AlarmAssumption
<1>2. /\ looked' = now /\ pc = "reading"
      /\ UNCHANGED <<now, reader, pc, dataWaitTimer, falseAlarmTimer, timeouts>>
      /\ m_timeoutsDetected' = IF PeriodOver THEN 0 ELSE m_timeoutsDetected
  BY DEF ReadWaits, DecideAlarm, NoData
<1>3. m_timeoutsDetected' > 0 =>
        m_timeoutsDetected' = m_timeoutsDetected /\ now < falseAlarmTimer
  BY <1>1, <1>2 DEF PeriodOver, TimedOut
<1>4. LoopOK' /\ WaitOK'
  BY <1>1, <1>2, <1>3 DEF LoopOK, WaitOK
<1>5. PeriodOK' /\ CountOK'
  <2>1. CASE m_timeoutsDetected' = 0
    BY <2>1 DEF PeriodOK, CountOK
  <2>2. CASE m_timeoutsDetected' = m_timeoutsDetected
    BY <1>2, <2>2 DEF PeriodOK, CountOK, Period
  <2> QED  BY <1>2, <2>1, <2>2
<1>6. CASE UNCHANGED <<execs, lastTimeoutExecTimer>>
  <2>1. TypeOK'
    BY <1>1, <1>2, <1>6 DEF TypeOK, Time, reader
  <2>2. ExecsOK' /\ ExecSpaced' /\ ExecJustified'
    BY <1>2, <1>6 DEF ExecsOK, ExecSpaced, ExecJustified
  <2> QED  BY <1>4, <1>5, <2>1, <2>2
<1>7. CASE /\ PeriodOver /\ m_timeoutsDetected > 1
           /\ now >= lastTimeoutExecTimer
           /\ execs' = execs \cup {now}
           /\ lastTimeoutExecTimer' = now + ExecDelay
  <2>1. TypeOK'
    BY <1>1, <1>2, <1>7 DEF TypeOK, Time, reader
  <2>2. \A e \in execs : e + ExecDelay <= now
    BY <1>1, <1>7 DEF ExecsOK
  <2>3. ExecsOK'
    BY <1>1, <1>7, <2>2 DEF ExecsOK
  <2>4. ExecSpaced'
    BY <1>1, <1>7, <2>2 DEF ExecSpaced
  <2>5. PICK u \in timeouts : /\ falseAlarmTimer - FalseAlarm < u
                              /\ u <= falseAlarmTimer + LoopWait
    BY <1>7 DEF PeriodOK
  <2>6. falseAlarmTimer - FalseAlarm \in timeouts
    BY <1>1, <1>7 DEF PeriodOK
  <2>7. u <= now
    <3>1. u <= dataWaitTimer - DataWait /\ dataWaitTimer <= now + DataWait
      BY DEF WaitOK
    <3>2. u \in Int /\ dataWaitTimer \in Int
      BY <1>1 DEF TypeOK
    <3> QED  BY <1>1, <3>1, <3>2
  <2>8. \E t, v \in timeouts : t < v /\ v <= now /\ v <= t + FalseAlarm + LoopWait
    <3>1. u <= (falseAlarmTimer - FalseAlarm) + FalseAlarm + LoopWait
      BY <1>1, <2>5 DEF AlarmAssumption
    <3> QED  BY <2>5, <2>6, <2>7, <3>1
  <2>9. ExecJustified'
    BY <1>2, <1>7, <2>8 DEF ExecJustified
  <2> QED  BY <1>4, <1>5, <2>1, <2>3, <2>4, <2>9
<1> QED  BY <1>6, <1>7 DEF ReadWaits, DecideAlarm, ExecTimeoutProgram, TimedOut

THEOREM StepInv == ASSUME AlarmAssumption, IInv, [Next]_vars PROVE IInv'
<1> SUFFICES ASSUME Next \/ UNCHANGED vars PROVE IInv'
  OBVIOUS
<1> USE DEF IInv, TInv
<1>0. /\ now \in Int /\ DataWait \in Nat /\ dataWaitTimer \in Int
      /\ SelectWait \in Nat /\ LoopWait \in Nat /\ looked \in Int
      /\ MaxTime \in Nat /\ timeouts \subseteq Int
  BY DEF TypeOK, Time, AlarmAssumption
<1>1. CASE Tick
  <2>1. /\ now' = now + 1 /\ now < MaxTime
        /\ pc = "reading" => now < looked + LoopWait
        /\ UNCHANGED <<reader, pc, dataWaitTimer, looked, alarm>>
    BY <1>1 DEF Tick
  <2>2. TypeOK'
    BY <1>0, <2>1 DEF TypeOK, Time, reader, alarm
  <2>3. LoopOK' /\ WaitOK'
    BY <1>0, <2>1 DEF LoopOK, WaitOK, alarm
  <2> QED  BY <2>1, <2>2, <2>3, AlarmKept
<1>2. CASE Receive
  <2>1. TypeOK' /\ LoopOK' /\ WaitOK'
    BY <1>0, <1>2 DEF Receive, TypeOK, Time, LoopOK, WaitOK, alarm
  <2> QED  BY <1>2, <2>1, AlarmKept DEF Receive
<1>3. CASE SelectTimesOut
  <2>1. TypeOK' /\ LoopOK' /\ WaitOK'
    BY <1>0, <1>3 DEF SelectTimesOut, TimedOut, TypeOK, Time, LoopOK, WaitOK, alarm
  <2> QED  BY <1>3, <2>1, AlarmKept DEF SelectTimesOut
<1>4. CASE StartRead
  <2>1. TypeOK'
    BY <1>0, <1>4 DEF StartRead, TypeOK, Time, reader, alarm
  <2>2. LoopOK'
    BY <1>0, <1>4 DEF StartRead, LoopOK, alarm
  <2>3. WaitOK'
    BY <1>0, <1>4 DEF StartRead, WaitOK, alarm
  <2> QED  BY <1>4, <2>1, <2>2, <2>3, AlarmKept DEF StartRead
<1>5. CASE ReadBroken
  <2>1. TypeOK' /\ LoopOK' /\ WaitOK'
    BY <1>5 DEF ReadBroken, TypeOK, LoopOK, WaitOK, reader, alarm
  <2> QED  BY <1>5, <2>1, AlarmKept DEF ReadBroken
<1>6. CASE ReadData
  <2>1. TypeOK' /\ LoopOK' /\ WaitOK'
    BY <1>6 DEF ReadData, TypeOK, LoopOK, WaitOK, alarm
  <2> QED  BY <1>6, <2>1, AlarmKept DEF ReadData
<1>7. CASE ReadTimesOut
  BY <1>7, TimesOutKeeps
<1>8. CASE ReadWaits
  BY <1>8, WaitsKeeps
<1>9. CASE Reset
  <2>0. now + DataWait \in 0 .. MaxTime + DataWait /\ now \in Time
    BY <1>0 DEF TypeOK, Time
  <2>1. TypeOK'
    BY <1>9, <2>0 DEF Reset, TypeOK, alarm
  <2>2. LoopOK' /\ WaitOK'
    BY <1>9 DEF Reset, LoopOK, WaitOK, alarm
  <2> QED  BY <1>9, <2>1, <2>2, AlarmKept DEF Reset
<1>10. CASE UNCHANGED vars
  <2>1. TypeOK' /\ LoopOK' /\ WaitOK'
    BY <1>10 DEF vars, TypeOK, LoopOK, WaitOK, reader, alarm
  <2> QED  BY <1>10, <2>1, AlarmKept DEF vars
<1> QED  BY <1>1, <1>2, <1>3, <1>4, <1>5, <1>6, <1>7, <1>8, <1>9, <1>10 DEF Next

LEMMA Invariant == Spec => []IInv
<1> QED  BY InitInv, StepInv, AlarmAssumption, PTL DEF Spec

(* Every timer and count keeps its type, whatever the waits and delays     *)
(* (Demux.cpp:433-465).                                                    *)
THEOREM TypeCorrect == Spec => []TypeOK
<1>1. IInv => TypeOK
  BY DEF IInv, TInv
<1> QED  BY <1>1, Invariant, PTL

(* The external program is started for two time-outs of one false alarm    *)
(* period only (Demux.cpp:458).                                            *)
THEOREM AlwaysJustified == Spec => []ExecJustified
<1>1. IInv => ExecJustified
  BY DEF IInv
<1> QED  BY <1>1, Invariant, PTL

(* It is never started again before TIMEOUT_EXEC_DELAY (Demux.cpp:361).    *)
THEOREM AlwaysSpaced == Spec => []ExecSpaced
<1>1. IInv => ExecSpaced
  BY DEF IInv
<1> QED  BY <1>1, Invariant, PTL

(* m_timeoutsDetected is the number of time-outs of the period             *)
(* (Demux.cpp:442-448).                                                    *)
THEOREM AlwaysCounted == Spec => []CountOfPeriod
<1>1. IInv => CountOfPeriod
  BY DEF IInv, CountOK, CountOfPeriod, Period
<1> QED  BY <1>1, Invariant, PTL
=============================================================================
