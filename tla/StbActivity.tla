----------------------------- MODULE StbActivity -----------------------------
(***************************************************************************)
(* log_stb_activity watches the traffic of a set-top box and writes a line *)
(* per channel change: main() calls watch_for_changes() for ever, which    *)
(* follows one group from the request (GET play to the portal) or the      *)
(* report (IGMP join) to the first data, and output_stats() writes what it *)
(* found.  A change seen while a group is followed ends the window, and    *)
(* the next one takes it up ("recovers").                                  *)
(*                                                                         *)
(* An input is a packet that passes the filter of ProcessPacket().  Of the *)
(* times and bytes in an entry nothing is kept, and of its type, whether   *)
(* it is a report, data, or another; `of' is the group it is about.        *)
(***************************************************************************)
EXTENDS Integers, Sequences

CONSTANTS
  Groups,
  MaxStats            \* MAX_STB_DATA_STATS

NoGroup == "none"     \* address 0
AllRouters == "v3"    \* 224.0.0.22, where IGMPv3 reports go

ASSUME StbAssumption ==
  /\ MaxStats \in Nat \ {0}
  /\ NoGroup \notin Groups /\ AllRouters \notin Groups

GroupOrNone == Groups \cup {NoGroup}

Entries == [type : {"report", "udp", "other"}, of : GroupOrNone]
Other == [type |-> "other", of |-> NoGroup]
Report(g) == [type |-> "report", of |-> g]
Udp(g) == [type |-> "udp", of |-> g]

VARIABLES
  get_play,           \* option -g: FALSE
  phase,              \* "idle": the line is written; in the loop, "check": at its top; "recv"
  status, group_ip, new_group_ip, new_entry_type, stats,   \* stb_data_t
  gotRequest, gotMembershipReport, gotData, igmp_dest,
  timer,              \* m_timeoutTimer; "fresh": never Set(), so timed out
  asked,              \* history: the group the box asked for last, until the
                      \* line of the window that followed it is written
  odd,                \* history: a change the window did not end with, or of no group
  forgotten           \* history: the change to be taken up met a failed set-up

flags == <<gotRequest, gotMembershipReport, gotData>>
change == <<new_group_ip, new_entry_type>>
history == <<asked, odd, forgotten>>
vars == <<get_play, phase, status, group_ip, change, stats, flags, igmp_dest,
          timer, history>>

Init ==
  /\ get_play \in BOOLEAN
  /\ phase = "idle" /\ status = "Ok"
  /\ group_ip = NoGroup /\ new_group_ip = NoGroup /\ new_entry_type = "none"
  /\ stats = <<>>
  /\ gotRequest = FALSE /\ gotMembershipReport = FALSE /\ gotData = FALSE
  /\ igmp_dest = NoGroup /\ timer = "fresh"
  /\ asked = NoGroup /\ odd = FALSE /\ forgotten = FALSE
-----------------------------------------------------------------------------
(* Entries that find the table full are dropped. *)
Noted(s, es) ==
  LET all == s \o es
  IN  SubSeq(all, 1, IF Len(all) <= MaxStats THEN Len(all) ELSE MaxStats)

(* A slip: the timers of the new window are left as they were made. *)
MutRecovered ==
  /\ group_ip' = new_group_ip /\ timer' = "fresh"
  /\ stats' = Noted(<<>>, <<IF new_entry_type = "report"
                              THEN Report(new_group_ip) ELSE Other>>)
  /\ gotRequest' = TRUE
  /\ gotMembershipReport' = (new_entry_type = "report")

(* A slip: the group is reset after the change has been taken up. *)
MutGroupReset ==
  /\ group_ip' = NoGroup /\ timer' = "set"
  /\ stats' = Noted(<<>>, <<IF new_entry_type = "report"
                              THEN Report(new_group_ip) ELSE Other>>)
  /\ gotRequest' = TRUE
  /\ gotMembershipReport' = (new_entry_type = "report")

(* The window takes up the change that ended the last one. *)
Recovered ==
  /\ group_ip' = new_group_ip /\ timer' = "set"
  /\ stats' = Noted(<<>>, <<IF new_entry_type = "report"
                              THEN Report(new_group_ip) ELSE Other>>)
  /\ gotRequest' = TRUE
  /\ gotMembershipReport' = (new_entry_type = "report")

(* watch_for_changes() up to the loop.  When the socket cannot be made or  *)
(* bound it returns, and the change it was to recover is forgotten: the    *)
(* next window follows nobody until the box asks again.                    *)
Watch ==
  /\ phase = "idle"
  /\ IF new_group_ip # NoGroup
       THEN Recovered
       ELSE /\ group_ip' = NoGroup /\ timer' = "fresh" /\ stats' = <<>>
            /\ gotRequest' = ~get_play /\ gotMembershipReport' = FALSE
  /\ gotData' = FALSE /\ igmp_dest' = NoGroup /\ new_group_ip' = NoGroup
  /\ \/ phase' = "check" /\ status' = "Timed Out" /\ UNCHANGED forgotten
     \/ /\ phase' = "idle" /\ status' \in {"Socket Error", "Timed Out"}
        /\ forgotten' = (forgotten \/ new_group_ip # NoGroup)
  /\ asked' = IF new_group_ip # NoGroup \/ forgotten THEN asked ELSE NoGroup
  /\ odd' = (odd /\ new_group_ip \notin {NoGroup, asked})
  /\ UNCHANGED <<get_play, new_entry_type>>

(* What the time-out is for: the request, or without requests the report.  *)
Waiting == IF get_play THEN gotRequest ELSE gotMembershipReport

(* The top of the loop. *)
Check ==
  /\ phase = "check"
  /\ phase' = IF Waiting /\ timer # "set" THEN "idle" ELSE "recv"
  /\ UNCHANGED <<get_play, status, group_ip, change, stats, flags, igmp_dest,
                 timer, history>>

(* The 60 s pass. *)
Expire ==
  /\ phase # "idle" /\ timer = "set"
  /\ timer' = "expired"
  /\ UNCHANGED <<get_play, phase, status, group_ip, change, stats, flags,
                 igmp_dest, history>>

(* Nothing comes within 100 ms, or recv() fails: again. *)
Nothing ==
  /\ phase = "recv" /\ phase' = "check"
  /\ UNCHANGED <<get_play, status, group_ip, change, stats, flags, igmp_dest,
                 timer, history>>

(* select() fails, or recv() returns 0. *)
Broken ==
  /\ phase = "recv" /\ phase' = "idle"
  /\ status' \in {"Socket Closed", "Recvfrom Error"}
  /\ UNCHANGED <<get_play, group_ip, change, stats, flags, igmp_dest, timer,
                 history>>
-----------------------------------------------------------------------------
(* The packet is handled; the window ends when the handler says so, or has *)
(* all it waits for.                                                       *)
Handled(goOn) ==
  LET all == gotRequest' /\ gotMembershipReport' /\ gotData'
  IN  /\ phase' = IF goOn /\ ~all THEN "check" ELSE "idle"
      /\ status' = IF goOn /\ all THEN "Ok" ELSE status

(* A query (only after a request), a leave, and of the packets from and to *)
(* the portal (only before a report) all but the requests to play.         *)
Note ==
  /\ phase = "recv"
  /\ stats' = Noted(stats, <<Other>>)
  /\ UNCHANGED <<get_play, group_ip, change, flags, igmp_dest, timer, history>>
  /\ Handled(TRUE)

(* A slip: every report starts the time-out anew. *)
MutTimerOf(g) == "set"

(* Only the report that names the group starts the time-out. *)
TimerOf(g) == IF group_ip = NoGroup THEN "set" ELSE timer

(* handle_group_report(): of the group that is followed, or the first. *)
Joined(g, dest, more) ==
  /\ gotRequest /\ group_ip \in {NoGroup, g}
  /\ group_ip' = g /\ igmp_dest' = dest
  /\ timer' = TimerOf(g)
  /\ stats' = Noted(IF group_ip = NoGroup THEN <<>> ELSE stats, <<Report(g)>> \o more)
  /\ gotMembershipReport' = TRUE /\ gotData' = FALSE
  /\ asked' = g /\ odd' = (odd /\ new_group_ip # NoGroup) /\ forgotten' = FALSE
  /\ UNCHANGED <<gotRequest, change>>

(* handle_group_report(): of another group. *)
Changed(g, more) ==
  /\ gotRequest /\ group_ip \notin {NoGroup, g}
  /\ new_group_ip' = g /\ new_entry_type' = "report"
  /\ stats' = Noted(stats, more)
  /\ asked' = g
  /\ UNCHANGED <<group_ip, flags, igmp_dest, timer, forgotten>>

V2Report(g) ==
  /\ phase = "recv"
  /\ \/ Joined(g, g, <<>>) /\ Handled(TRUE)
     \/ Changed(g, <<>>) /\ Handled(FALSE) /\ odd' = FALSE
  /\ UNCHANGED get_play

(* An IGMPv3 report goes to all routers, not to its group; the code does   *)
(* not look whether the group has changed, and runs on into the case of    *)
(* the leave message.                                                      *)
V3Report(g) ==
  /\ phase = "recv"
  /\ \/ Joined(g, AllRouters, <<Other>>)
     \/ Changed(g, <<Other>>) /\ odd' = TRUE
  /\ Handled(TRUE)
  /\ UNCHANGED get_play

(* A slip: any data will do. *)
MutIsData(g) == gotMembershipReport

IsData(g) == gotMembershipReport /\ igmp_dest = g

(* handle_udp() *)
Data(g) ==
  /\ phase = "recv"
  /\ IsData(g)
  /\ stats' = IF gotData THEN stats ELSE Noted(stats, <<Udp(g)>>)
  /\ gotData' = TRUE
  /\ UNCHANGED <<get_play, group_ip, change, gotRequest, gotMembershipReport,
                 igmp_dest, timer, history>>
  /\ Handled(TRUE)

(* handle_tcp_packet(): a request to play, host NoGroup when it does not   *)
(* parse.  Then, when a group is followed, an uninitialised variable says  *)
(* which the new one is.                                                   *)
PlayOther(host) ==
  /\ phase = "recv" /\ ~gotMembershipReport /\ group_ip # NoGroup
  /\ \E temp_ip \in IF host = NoGroup THEN GroupOrNone ELSE {host} :
       temp_ip # group_ip /\ new_group_ip' = temp_ip
  /\ new_entry_type' = "request"
  /\ asked' = IF host = NoGroup THEN asked ELSE host
  /\ odd' = (host = NoGroup)
  /\ UNCHANGED <<get_play, group_ip, stats, flags, igmp_dest, timer, forgotten>>
  /\ Handled(FALSE)

Play(host) ==
  /\ phase = "recv" /\ ~gotMembershipReport
  /\ group_ip = NoGroup \/ host \in {NoGroup, group_ip}
  /\ IF gotRequest
       THEN /\ stats' = Noted(stats, <<Other>>)
            /\ asked' = IF group_ip # NoGroup /\ host = group_ip THEN host ELSE asked
            /\ UNCHANGED <<group_ip, gotRequest, timer, forgotten>>
       ELSE /\ stats' = Noted(<<>>, <<Other>>)
            /\ gotRequest' = TRUE /\ timer' = "set"
            /\ group_ip' = host /\ asked' = host /\ forgotten' = FALSE
  /\ UNCHANGED <<get_play, change, gotMembershipReport, gotData, igmp_dest, odd>>
  /\ Handled(TRUE)

Next ==
  \/ Watch \/ Check \/ Expire \/ Nothing \/ Broken \/ Note
  \/ \E g \in Groups : V2Report(g) \/ V3Report(g) \/ Data(g)
  \/ \E host \in GroupOrNone : Play(host) \/ PlayOther(host)

(* The loop runs (select() waits 100 ms at most), and so does the clock.   *)
Spec ==
  /\ Init /\ [][Next]_vars
  /\ WF_vars(Check) /\ WF_vars(Nothing) /\ WF_vars(Expire)
-----------------------------------------------------------------------------
TypeOK ==
  /\ get_play \in BOOLEAN /\ phase \in {"idle", "check", "recv"}
  /\ status \in {"Ok", "Timed Out", "Socket Error", "Socket Closed", "Recvfrom Error"}
  /\ group_ip \in GroupOrNone /\ new_group_ip \in GroupOrNone
  /\ new_entry_type \in {"none", "request", "report"}
  /\ stats \in Seq(Entries) /\ Len(stats) <= MaxStats
  /\ gotRequest \in BOOLEAN /\ gotMembershipReport \in BOOLEAN /\ gotData \in BOOLEAN
  /\ igmp_dest \in GroupOrNone \cup {AllRouters}
  /\ timer \in {"fresh", "set", "expired"}
  /\ asked \in GroupOrNone /\ odd \in BOOLEAN /\ forgotten \in BOOLEAN

(* The 60 s are started before the loop can look at them, in every way a   *)
(* window gets what it waits for: an m_timeoutTimer that was only made has *)
(* already timed out.                                                      *)
TimerArmed == phase # "idle" /\ Waiting => timer # "fresh"

(* A line that says Ok is of the group whose data was seen: every report   *)
(* and all data it shows is of that group, and unless entries were dropped *)
(* it ends with the data, which a report precedes.                         *)
OkIsOwn ==
  phase = "idle" /\ status = "Ok" /\ group_ip # NoGroup =>
    /\ \A i \in DOMAIN stats : stats[i].of \in {NoGroup, group_ip}
    /\ \/ Len(stats) = MaxStats
       \/ /\ stats # <<>> /\ stats[Len(stats)] = Udp(group_ip)
          /\ \E i \in DOMAIN stats : stats[i] = Report(group_ip)

(* The group the box asked for last is the one that is followed, or the    *)
(* one the next window will follow, and does follow once it is there, until *)
(* its line is written: a change is neither overlooked, nor lost between    *)
(* two windows, nor taken up after it was taken back.  Not so where the     *)
(* code goes on after a change (an IGMPv3 report) or cannot read the group, *)
(* nor, until the box asks again, after a failed set-up of the window that  *)
(* was to take a change up: watch_for_changes() has forgotten it by then.   *)
AskedIsFollowed ==
  ~odd /\ ~forgotten =>
    asked = IF new_group_ip # NoGroup THEN new_group_ip ELSE group_ip

(* However much traffic there is, a window that has its request ends.      *)
WindowEnds == (phase # "idle" /\ Waiting) ~> (phase = "idle")
=============================================================================
