----------------------------- MODULE IgmpGroups -----------------------------
(***************************************************************************)
(* The IGMP side of pimd_netlink on one interface (igmp_proto.c): the      *)
(* groups with members, the querier, and the three timers of a group in    *)
(* the queue of callout.c.  Only the groups that pass the address filter   *)
(* of accept_group_report() are modelled, which leaves no source-specific  *)
(* ones.                                                                   *)
(*                                                                         *)
(* The loop that receives messages and ages the queue is external: the     *)
(* repository holds no caller of either.  It is single-threaded, so that   *)
(* nothing comes between the timers of one call of age_callout_queue().    *)
(*                                                                         *)
(* The code numbers timers 1, 2, 3 and so on.  Here a timer is named for   *)
(* its purpose, with a number that is taken again when no timer has it.    *)
(***************************************************************************)
EXTENDS Callout, FiniteSets

CONSTANTS
  Groups,
  Me, Others,              \* addresses on the interface
  VifVersion,              \* 2 if configured IGMPv2 (VIFF_IGMPV2), else 3
  MembershipTimeout,       \* igmp_group_membership_timeout()
  LastMemberQueryInterval,
  LastMemberQueryCount,
  QuerierTimeout,          \* igmp_querier_timeout, in calls of age_vifs()
  Tmos,                    \* response times of other routers' queries
  MaxElapsed,              \* bound: time between two agings of the queue
  MaxStops,                \* bound: how often the interface goes down
  MaxLeft                  \* bound: timers it leaves then

ASSUME IgmpAssumption ==
  /\ Me \in Nat /\ Others \subseteq Nat \ {0, Me}
  /\ VifVersion \in {2, 3}
  /\ MembershipTimeout \in Nat /\ LastMemberQueryInterval \in Nat \ {0}
  /\ LastMemberQueryCount \in Nat \ {0} /\ QuerierTimeout \in Nat
  /\ Tmos \subseteq Nat /\ MaxElapsed \in Nat
  /\ MaxStops \in Nat /\ MaxLeft \in Nat

VARIABLES
  uv_groups,      \* group -> its listaddr, or NoGroup
  Q, expQ,        \* the timers, and those being handled
  uv_querier, al_timer,
  isQuerier, vifUp,  \* VIFF_QUERIER, ~VIFF_DOWN
  uv_igmpv1_warn, \* its last bit
  epoch,          \* how often the interface went down
  misused         \* history: a handler ran on a group freed earlier

timers == <<Q, expQ>>
vif == <<uv_querier, al_timer, isQuerier, vifUp, uv_igmpv1_warn, epoch>>
igmpVars == <<uv_groups, timers, vif, misused>>

NoTimer == <<>>         \* 0 in the code
Elsewhere == <<"-1">>   \* al_query = -1: it is another router that asks
NoGroup == [al_pv |-> 0, al_old |-> 0, al_query |-> NoTimer,
            al_timerid |-> NoTimer, al_versiontimer |-> NoTimer]
AllGroups == "all"      \* what a general query asks for
NoQuerier == 0
OldAge == 2             \* DVMRP_OLD_AGE_THRESHOLD
TIMER_INTERVAL == 5

LeaveTime == LastMemberQueryInterval * (LastMemberQueryCount + 1)
Joined(g) == uv_groups[g] # NoGroup

IgmpInit ==
  /\ uv_groups = [g \in Groups |-> NoGroup]
  /\ Q = <<>> /\ expQ = <<>>
  /\ uv_querier = NoQuerier /\ al_timer = 0
  /\ isQuerier = TRUE /\ vifUp = TRUE /\ uv_igmpv1_warn = 0
  /\ epoch = 0 /\ misused = FALSE

(* A message is looked at: the interface is up, and no timer is handled. *)
Idle == expQ = <<>> /\ ~misused
Listening == Idle /\ vifUp

Pending == Range(Q) \cup Range(expQ)

NewId(q, func, g) ==
  LET name(k) == <<func, g, epoch, k>> IN
  name(Min({k \in 1 .. Len(q) + 1 : \A n \in Range(q) : n.id # name(k)}))

(* cbk_t: the group the handler is for, as allocated in this epoch *)
Add(q, delay, func, g) ==
  SetTimer(q, [id |-> NewId(q, func, g), time |-> delay, func |-> func,
               g |-> g, epoch |-> epoch])
-----------------------------------------------------------------------------
(* accept_group_report *)

OldReports == {"v1", "v2"}
PvOf(type) == CASE type = "v1" -> 1 [] type = "v2" -> 2 [] OTHER -> 3

NewGroup(type) ==
  [al_pv |-> PvOf(type), al_old |-> IF type = "v1" THEN OldAge ELSE 0,
   al_query |-> NoTimer, al_timerid |-> NoTimer, al_versiontimer |-> NoTimer]

(* A slip: a leave stays under way. *)
MutHeard(l, type) ==
  [l EXCEPT !.al_old = IF type = "v1" THEN OldAge ELSE @,
            !.al_pv = Min({@, PvOf(type)})]

Heard(l, type) ==
  [l EXCEPT !.al_old = IF type = "v1" THEN OldAge ELSE @,
            !.al_pv = Min({@, PvOf(type)}),
            !.al_query = NoTimer]

(* A slip: the timer of the report before is left to run. *)
MutRenewed(q, l) == ClearTimer(q, l.al_query)

(* The timers a report on a known group takes back. *)
Renewed(q, l) == ClearTimer(ClearTimer(q, l.al_query), l.al_timerid)

(* A slip: for IGMPv2 only. *)
MutTimesVersion(l, type) == type \in OldReports /\ l.al_pv = 2

TimesVersion(l, type) == type \in OldReports /\ l.al_pv < 3

GroupReport(g, type) ==
  /\ Listening
  /\ LET l == IF Joined(g) THEN Heard(uv_groups[g], type) ELSE NewGroup(type)
         older == TimesVersion(l, type)
         q1 == IF Joined(g) THEN Renewed(Q, uv_groups[g]) ELSE Q
         q2 == Add(q1, MembershipTimeout, "DelVif", g)
         q3 == ClearTimer(q2, l.al_versiontimer)
     IN  /\ Q' = IF older THEN Add(q3, MembershipTimeout, "SwitchVersion", g)
                          ELSE q2
         /\ uv_groups' = [uv_groups EXCEPT ![g] =
              [l EXCEPT !.al_timerid = NewId(q1, "DelVif", g),
                        !.al_versiontimer =
                          IF older THEN NewId(q3, "SwitchVersion", g) ELSE @]]
  /\ UNCHANGED <<expQ, vif, misused>>
-----------------------------------------------------------------------------
LeaveIgnored(l) == l.al_old # 0 \/ l.al_query # NoTimer

(* accept_leave_message *)
LeaveMessage(g) ==
  /\ Listening /\ Joined(g) /\ ~LeaveIgnored(uv_groups[g])
  /\ LET q1 == ClearTimer(Q, uv_groups[g].al_timerid)
         q2 == Add(q1, LastMemberQueryInterval, "SendQuery", g)
     IN  /\ Q' = Add(q2, LeaveTime, "DelVif", g)
         /\ uv_groups' = [uv_groups EXCEPT
              ![g].al_query = NewId(q1, "SendQuery", g),
              ![g].al_timerid = NewId(q2, "DelVif", g)]
  /\ UNCHANGED <<expQ, vif, misused>>

(* accept_membership_query: every other query of too high a version is     *)
(* refused while another router is the querier.                            *)
TooHigh(version) == uv_querier # NoQuerier /\ version = 3 /\ VifVersion = 2

(* A slip: any router that asks becomes the querier. *)
MutLower(src) == TRUE

Lower(src) == src < (IF uv_querier # NoQuerier THEN uv_querier ELSE Me)

(* A group-specific query shortens the life of the group, once. *)
ShortenGroup(g, tmo) ==
  IF g \in Groups /\ Joined(g) /\ uv_groups[g].al_query = NoTimer
    THEN LET q1 == ClearTimer(Q, uv_groups[g].al_timerid) IN
         /\ Q' = Add(q1, LastMemberQueryCount * tmo, "DelVif", g)
         /\ uv_groups' = [uv_groups EXCEPT
              ![g].al_query = Elsewhere,
              ![g].al_timerid = NewId(q1, "DelVif", g)]
    ELSE UNCHANGED <<uv_groups, Q>>

Query(src, g, tmo, version) ==
  /\ Listening
  /\ uv_igmpv1_warn' = IF TooHigh(version) THEN 1 - uv_igmpv1_warn
                                           ELSE uv_igmpv1_warn
  /\ IF TooHigh(version) /\ uv_igmpv1_warn' = 0
       THEN UNCHANGED <<uv_groups, Q, uv_querier, al_timer, isQuerier>>
       ELSE /\ uv_querier' = IF src # uv_querier /\ Lower(src) THEN src
                                                               ELSE uv_querier
            /\ al_timer' = IF uv_querier' = src THEN 0 ELSE al_timer
            /\ isQuerier' = (isQuerier /\ ~(uv_querier = NoQuerier
                                             /\ uv_querier' # NoQuerier))
            /\ ShortenGroup(g, tmo)
  /\ UNCHANGED <<expQ, vifUp, epoch, misused>>
-----------------------------------------------------------------------------
(* External: the main loop calls age_callout_queue(). *)
AgeQueue(elapsed) ==
  /\ Idle
  /\ expQ' = Expired(Q, elapsed)
  /\ Q' = Remaining(Q, elapsed)
  /\ UNCHANGED <<uv_groups, vif, misused>>

(* A handler runs on a live group, on one freed since the queue was aged,  *)
(* where it writes to freed memory that nothing has taken again, or on one *)
(* freed before: then anything may happen, and the model ends.             *)
Live(n) == Joined(n.g) /\ n.epoch = epoch

(* A slip: the timer of the old version runs on. *)
MutDelVif(n) ==
  LET l == uv_groups[n.g] IN
  /\ n.func = "DelVif"
  /\ Q' = ClearTimer(Q, l.al_query)
  /\ uv_groups' = [uv_groups EXCEPT ![n.g] = NoGroup]

DelVif(n) ==
  LET l == uv_groups[n.g] IN
  /\ n.func = "DelVif"
  /\ Q' = ClearTimer(ClearTimer(Q, l.al_query), l.al_versiontimer)
  /\ uv_groups' = [uv_groups EXCEPT ![n.g] = NoGroup]

SendQuery(n) ==
  /\ n.func = "SendQuery"
  /\ uv_groups' = [uv_groups EXCEPT ![n.g].al_query = NoTimer]
  /\ UNCHANGED Q

SwitchVersion(n) ==
  /\ n.func = "SwitchVersion"
  /\ uv_groups' = [uv_groups EXCEPT ![n.g].al_pv = IF @ < 3 THEN @ + 1 ELSE @]
  /\ UNCHANGED Q

Handle ==
  /\ expQ # <<>> /\ ~misused
  /\ expQ' = Tail(expQ)
  /\ IF Live(Head(expQ))
       THEN /\ DelVif(Head(expQ)) \/ SendQuery(Head(expQ)) \/ SwitchVersion(Head(expQ))
            /\ UNCHANGED misused
       ELSE /\ misused' = (Head(expQ).epoch # epoch)
            /\ UNCHANGED <<uv_groups, Q>>
  /\ UNCHANGED vif

(* query_groups: old hosts are forgotten at the first query after their    *)
(* report, for the threshold counts intervals and is taken for seconds.    *)
QueryGroups ==
  uv_groups' = [g \in Groups |->
    IF ~Joined(g) THEN NoGroup
    ELSE [uv_groups[g] EXCEPT
            !.al_old = IF @ > TIMER_INTERVAL THEN @ - TIMER_INTERVAL ELSE 0]]

(* A slip: the interface that takes over is not marked. *)
MutBecomeQuerier == isQuerier' = isQuerier

BecomeQuerier == isQuerier' = TRUE

(* age_vifs; when uv_gq_timer ends is left open *)
AgeVif ==
  /\ Listening
  /\ \/ /\ uv_querier # NoQuerier /\ al_timer + 1 > QuerierTimeout
        /\ uv_querier' = NoQuerier /\ al_timer' = 0
        /\ BecomeQuerier /\ QueryGroups
     \/ /\ uv_querier = NoQuerier \/ al_timer + 1 <= QuerierTimeout
        /\ al_timer' = IF uv_querier = NoQuerier THEN 0 ELSE al_timer + 1
        /\ QueryGroups \/ UNCHANGED uv_groups
        /\ UNCHANGED <<uv_querier, isQuerier>>
  /\ UNCHANGED <<timers, vifUp, uv_igmpv1_warn, epoch, misused>>

(* stop_vif, which frees the groups but no timer, and not the querier *)
StopVif ==
  /\ Listening /\ epoch < MaxStops /\ Len(Q) <= MaxLeft
  /\ vifUp' = FALSE /\ isQuerier' = FALSE
  /\ epoch' = epoch + 1
  /\ uv_groups' = [g \in Groups |-> NoGroup]
  /\ UNCHANGED <<timers, uv_querier, al_timer, uv_igmpv1_warn, misused>>

StartVif ==
  /\ Idle /\ ~vifUp
  /\ vifUp' = TRUE /\ isQuerier' = TRUE
  /\ UNCHANGED <<uv_groups, timers, uv_querier, al_timer, uv_igmpv1_warn, epoch,
                 misused>>

IgmpNext ==
  \/ \E g \in Groups : \/ \E type \in OldReports \cup {"v3"} : GroupReport(g, type)
                       \/ LeaveMessage(g)
  \/ \E src \in Others, g \in Groups \cup {AllGroups}, tmo \in Tmos,
        version \in {2, 3} : Query(src, g, tmo, version)
  \/ \E t \in 1 .. MaxElapsed : AgeQueue(t)
  \/ Handle \/ AgeVif \/ StopVif \/ StartVif

IgmpSpec == IgmpInit /\ [][IgmpNext]_igmpVars
-----------------------------------------------------------------------------
Funcs == {"DelVif", "SendQuery", "SwitchVersion"}
IdsOf(func) == {<<func, g, e, 1>> : g \in Groups, e \in 0 .. MaxStops}

(* The last component of a name stays 1: no timer is set while another one *)
(* of the same purpose runs.                                               *)
IgmpTypeOK ==
  /\ uv_groups \in [Groups -> {NoGroup} \cup
       [al_pv : 1 .. 3, al_old : {0, OldAge},
        al_query : IdsOf("SendQuery") \cup {NoTimer, Elsewhere},
        al_timerid : IdsOf("DelVif"),
        al_versiontimer : IdsOf("SwitchVersion") \cup {NoTimer}]]
  /\ Pending \subseteq [id : UNION {IdsOf(f) : f \in Funcs}, g : Groups,
       time : Nat, func : Funcs, epoch : 0 .. MaxStops]
  /\ uv_querier \in Others \cup {NoQuerier} /\ al_timer \in 0 .. QuerierTimeout
  /\ isQuerier \in BOOLEAN /\ vifUp \in BOOLEAN /\ uv_igmpv1_warn \in {0, 1}
  /\ epoch \in 0 .. MaxStops /\ misused \in BOOLEAN

(* Every group with members is timed: the timer its al_timerid names is    *)
(* pending and will delete it, and no other one will; so that no group     *)
(* stays for ever, and none goes early, however reports, leaves, queries   *)
(* and timers follow each other.  And no timer is left for a group that is *)
(* gone: what DelVif could not clear is what became due with it, or what   *)
(* stop_vif() left.                                                        *)
TimersMatchGroups ==
  /\ \A g \in Groups : Joined(g) =>
       \E n \in Pending :
         /\ n.id = uv_groups[g].al_timerid
         /\ {m \in Pending : m.func = "DelVif" /\ m.g = g /\ m.epoch = epoch} = {n}
  /\ \A n \in Range(Q) : Live(n) \/ n.epoch # epoch
  /\ \A n \in Range(expQ) : Live(n) \/ n.epoch # epoch \/ n.func = "SwitchVersion"

(* The times a leave or another router's query leaves a group. *)
ShortTimes == {LeaveTime} \cup {LastMemberQueryCount * tmo : tmo \in Tmos}

(* The modes in which a group does not obey end.  One that ignores leaves  *)
(* because a query is out (al_query) had its time shortened, so that it is *)
(* gone or heard of again within that time; one in IGMPv1 mode has the     *)
(* timer that ends the mode.                                               *)
ModesEnd ==
  \A g \in Groups : Joined(g) =>
    /\ uv_groups[g].al_query # NoTimer =>
         \E t \in ShortTimes : LeftTimer(Q, uv_groups[g].al_timerid) <= t
    /\ uv_groups[g].al_pv = 1 =>
         \E n \in Pending : /\ n.func = "SwitchVersion" /\ n.epoch = epoch
                            /\ n.id = uv_groups[g].al_versiontimer

(* Until the interface has been down, the LAN has one querier as far as    *)
(* this router knows: it asks unless it heard one with a lower address.    *)
OneQuerier ==
  /\ uv_querier # NoQuerier => uv_querier < Me
  /\ epoch = 0 => (isQuerier <=> uv_querier = NoQuerier)

(* The three timers of every group, kept in one queue of differences and   *)
(* found by number, give each group the single lifetime of GroupSpec.      *)
leftBar ==
  [g \in Groups |->
     IF ~Joined(g) THEN -2
     ELSE IF \E n \in Range(expQ) : n.func = "DelVif" /\ n.g = g /\ n.epoch = epoch
       THEN -1
       ELSE LeftTimer(Q, uv_groups[g].al_timerid)]

Membership == INSTANCE GroupSpec WITH left <- leftBar

MembershipSpec == Membership!Spec
=============================================================================
