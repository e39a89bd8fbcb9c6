---------------------------- MODULE SessionSpec ----------------------------
(***************************************************************************)
(* What mctest3 promises of the sessions of one stream: they take turns.   *)
(* Each has a reader of its own and leaves one row of statistics, written  *)
(* while the session is on.  Only then is a reader asked to stop, and only *)
(* after that the next session begins, or none any more.  A reader leaves  *)
(* because one was asked to: no more of them leave than were asked.  A     *)
(* signal may end the process, and all readers with it, at any time, in    *)
(* the middle of a session too.                                            *)
(***************************************************************************)
EXTENDS Integers, FiniteSets

CONSTANT MaxSessions

VARIABLES
  turn,      \* "between", "on", "written", "asked", "over",
             \* "crashed" or "exited"
  session,   \* sessions begun, and the number of the current one
  rows,      \* rows of statistics
  gone       \* the readers that have made up their mind to leave

sessionVars == <<turn, session, rows, gone>>

Init == turn = "between" /\ session = 0 /\ rows = 0 /\ gone = {}

(* How many times a reader has been asked to stop. *)
Asked == IF turn \in {"on", "written"} THEN session - 1 ELSE session

Begin ==
  /\ turn = "between" /\ session < MaxSessions
  /\ turn' = "on" /\ session' = session + 1
  /\ UNCHANGED <<rows, gone>>

Record ==
  /\ turn = "on" /\ turn' = "written"
  /\ rows' = rows + 1
  /\ UNCHANGED <<session, gone>>

Ask ==
  /\ turn = "written" /\ turn' = "asked"
  /\ UNCHANGED <<session, rows, gone>>

LetGo ==
  /\ turn = "asked" /\ turn' \in {"between", "over"}
  /\ UNCHANGED <<session, rows, gone>>

(* Any reader begun, not only the one that was meant. *)
Leave(r) ==
  /\ turn \notin {"crashed", "exited"}
  /\ r \in 1 .. session /\ r \notin gone
  /\ Cardinality(gone) < Asked
  /\ gone' = gone \cup {r}
  /\ UNCHANGED <<turn, session, rows>>

Crash ==
  /\ turn \in {"on", "over"} /\ turn' = "crashed"
  /\ UNCHANGED <<session, rows, gone>>

Exit ==
  /\ turn \notin {"crashed", "exited"} /\ turn' = "exited"
  /\ gone' = 1 .. session
  /\ UNCHANGED <<session, rows>>

Next ==
  \/ Begin \/ Record \/ Ask \/ LetGo \/ Crash \/ Exit
  \/ \E r \in 1 .. MaxSessions : Leave(r)

Spec == Init /\ [][Next]_sessionVars
=============================================================================
