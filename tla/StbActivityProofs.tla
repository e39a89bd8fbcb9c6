------------------------- MODULE StbActivityProofs -------------------------
(***************************************************************************)
(* The windows of log_stb_activity for any groups and any length of the    *)
(* table of entries.                                                       *)
(***************************************************************************)
EXTENDS StbActivity, SequenceTheorems, TLAPS

Scalars ==
  /\ get_play \in BOOLEAN /\ phase \in {"idle", "check", "recv"}
  /\ status \in {"Ok", "Timed Out", "Socket Error", "Socket Closed", "Recvfrom Error"}
  /\ group_ip \in GroupOrNone /\ new_group_ip \in GroupOrNone
  /\ new_entry_type \in {"none", "request", "report"}
  /\ gotRequest \in BOOLEAN /\ gotMembershipReport \in BOOLEAN /\ gotData \in BOOLEAN
  /\ igmp_dest \in GroupOrNone \cup {AllRouters}
  /\ timer \in {"fresh", "set", "expired"}
  /\ asked \in GroupOrNone /\ odd \in BOOLEAN /\ forgotten \in BOOLEAN

Table == stats \in Seq(Entries) /\ Len(stats) <= MaxStats

(* Without requests (-g) a window has its request from the start; a window *)
(* that follows a group has its request; and a request that was made, or a *)
(* report that was seen, has set the timer.                                *)
Armed ==
  phase # "idle" =>
    /\ get_play \/ gotRequest
    /\ group_ip # NoGroup => gotRequest
    /\ gotMembershipReport => group_ip # NoGroup
    /\ group_ip # NoGroup => timer # "fresh"
    /\ get_play /\ gotRequest => timer # "fresh"

(* A change ends its window, unless it is odd. *)
Pending == phase # "idle" /\ ~odd => new_group_ip = NoGroup

(* An entry of a group, or of none; a table of such entries. *)
Its(e, g) == e.of \in {NoGroup, g}
Own(t, g) == \A i \in DOMAIN t : Its(t[i], g)
Has(t, e) == \E i \in DOMAIN t : t[i] = e

(* The window that waits for data: what it has noted is of its own group,  *)
(* and so is the data it will recognise.                                   *)
Window ==
  phase # "idle" =>
    /\ ~gotData /\ status # "Ok"
    /\ igmp_dest \in {NoGroup, AllRouters, group_ip}
    /\ ~gotMembershipReport => igmp_dest = NoGroup
    /\ Own(stats, group_ip)
    /\ gotMembershipReport =>
         \/ Len(stats) = MaxStats
         \/ Has(stats, Report(group_ip))

Shape == Scalars /\ Table /\ Armed /\ Pending
IInv == Shape /\ Window /\ AskedIsFollowed /\ OkIsOwn
-----------------------------------------------------------------------------
(* What is in the table after entries were added to it. *)
LEMMA NotedOK ==
  ASSUME StbAssumption, NEW s \in Seq(Entries), NEW es \in Seq(Entries),
         Len(s) <= MaxStats
  PROVE  LET t == Noted(s, es) IN
         /\ t \in Seq(Entries) /\ Len(t) <= MaxStats
         /\ Len(t) = IF Len(s) + Len(es) <= MaxStats THEN Len(s) + Len(es)
                                                     ELSE MaxStats
         /\ \A i \in 1 .. Len(s) : t[i] = s[i]
         /\ \A i \in Len(s) + 1 .. Len(t) : t[i] = es[i - Len(s)]
<1> DEFINE all == s \o es
           n == IF Len(all) <= MaxStats THEN Len(all) ELSE MaxStats
<1>1. /\ all \in Seq(Entries) /\ Len(all) = Len(s) + Len(es)
      /\ \A i \in 1 .. Len(all) : all[i] = IF i <= Len(s) THEN s[i] ELSE es[i - Len(s)]
  BY ConcatProperties
<1>2. Noted(s, es) = SubSeq(all, 1, n)
  BY DEF Noted
<1>3. /\ Len(s) \in Nat /\ Len(es) \in Nat /\ Len(all) \in Nat /\ MaxStats \in Nat \ {0}
      /\ n \in Nat /\ n <= Len(all) /\ n <= MaxStats /\ Len(s) <= n
  BY <1>1 DEF StbAssumption
<1> HIDE DEF n, all
<1>4. /\ SubSeq(all, 1, n) \in Seq(Entries)
      /\ Len(SubSeq(all, 1, n)) = n
      /\ \A i \in 1 .. n : SubSeq(all, 1, n)[i] = all[i]
  <2>1. \A i \in 1 .. n : i \in 1 .. Len(all) /\ all[i] \in Entries
    BY <1>1, <1>3
  <2> QED  BY <1>1, <1>3, <2>1, SubSeqProperties
<1>5. n = IF Len(s) + Len(es) <= MaxStats THEN Len(s) + Len(es) ELSE MaxStats
  BY <1>1 DEF n
<1>6. \A i \in 1 .. Len(s) : SubSeq(all, 1, n)[i] = s[i]
  BY <1>1, <1>3, <1>4
<1>7. \A i \in Len(s) + 1 .. n : SubSeq(all, 1, n)[i] = es[i - Len(s)]
  BY <1>1, <1>3, <1>4
<1> QED  BY <1>2, <1>3, <1>4, <1>5, <1>6, <1>7

LEMMA EntriesOK ==
  /\ Other \in Entries /\ Other.of = NoGroup
  /\ \A g \in GroupOrNone : /\ Report(g) \in Entries /\ Report(g).of = g
                            /\ Udp(g) \in Entries /\ Udp(g).of = g
BY DEF Other, Report, Udp, Entries, GroupOrNone

(* Adding entries of the window's own group, or of none, leaves the table  *)
(* as the window wants it; the first of them is there, or the table full.  *)
LEMMA OwnNoted ==
  ASSUME StbAssumption, NEW s \in Seq(Entries), NEW es \in Seq(Entries),
         Len(s) <= MaxStats, NEW g,
         Own(s, g),
         Own(es, g)
  PROVE  LET t == Noted(s, es) IN
         /\ t \in Seq(Entries) /\ Len(t) <= MaxStats
         /\ Own(t, g)
         /\ \A e : Has(s, e) => Has(t, e)
         /\ Len(s) = MaxStats => Len(t) = MaxStats
         /\ Len(es) > 0 => Len(t) = MaxStats \/ Has(t, es[1])
         /\ Len(es) = 1 => Len(t) = MaxStats \/ (t # <<>> /\ t[Len(t)] = es[1])
<1> DEFINE t == Noted(s, es)
<1>1. /\ t \in Seq(Entries) /\ Len(t) <= MaxStats
      /\ Len(t) = IF Len(s) + Len(es) <= MaxStats THEN Len(s) + Len(es) ELSE MaxStats
      /\ \A i \in 1 .. Len(s) : t[i] = s[i]
      /\ \A i \in Len(s) + 1 .. Len(t) : t[i] = es[i - Len(s)]
  BY NotedOK
<1>2. /\ Len(s) \in Nat /\ Len(es) \in Nat /\ Len(t) \in Nat /\ MaxStats \in Nat
      /\ DOMAIN s = 1 .. Len(s) /\ DOMAIN es = 1 .. Len(es) /\ DOMAIN t = 1 .. Len(t)
  BY <1>1 DEF StbAssumption
<1> HIDE DEF t
<1>3. Len(s) <= Len(t) /\ Len(t) <= Len(s) + Len(es)
  BY <1>1, <1>2
<1>4. Own(t, g)
  <2> USE DEF Own, Its
  <2> SUFFICES ASSUME NEW i \in 1 .. Len(t) PROVE t[i].of \in {NoGroup, g}
    BY <1>2
  <2>1. CASE i <= Len(s)
    <3>1. i \in 1 .. Len(s) /\ t[i] = s[i]
      BY <1>1, <1>2, <2>1
    <3> QED  BY <1>2, <3>1
  <2>2. CASE i > Len(s)
    <3>1. i - Len(s) \in 1 .. Len(es) /\ i \in Len(s) + 1 .. Len(t)
      BY <1>2, <1>3, <2>2
    <3> QED  BY <1>1, <1>2, <3>1
  <2> QED  BY <1>2, <2>1, <2>2
<1>5. \A e : Has(s, e) => Has(t, e)
  <2>1. \A i \in DOMAIN s : i \in DOMAIN t /\ t[i] = s[i]
    BY <1>1, <1>2, <1>3
  <2> QED  BY <2>1 DEF Has
<1>6. Len(s) = MaxStats => Len(t) = MaxStats
  BY <1>1, <1>2, <1>3
<1>7. Len(es) > 0 => Len(t) = MaxStats
                       \/ (Len(s) + 1 \in 1 .. Len(t) /\ t[Len(s) + 1] = es[1])
  <2> SUFFICES ASSUME Len(es) > 0, Len(t) # MaxStats
               PROVE  Len(s) + 1 \in 1 .. Len(t) /\ t[Len(s) + 1] = es[1]
    OBVIOUS
  <2>1. Len(t) = Len(s) + Len(es)
    BY <1>1, <1>2
  <2>2. Len(s) + 1 \in Len(s) + 1 .. Len(t) /\ (Len(s) + 1) - Len(s) = 1
    BY <1>2, <2>1
  <2>3. t[Len(s) + 1] = es[(Len(s) + 1) - Len(s)]
    BY <1>1, <2>2
  <2>4. Len(s) + 1 \in 1 .. Len(t)
    <3>1. /\ Len(s) + 1 <= Len(t) /\ 1 <= Len(s) + 1
          /\ Len(s) + 1 \in Int /\ Len(t) \in Int
      BY <1>2, <2>1
    <3> QED  BY <3>1
  <2> QED  BY <2>2, <2>3, <2>4
<1>8. Len(es) = 1 => Len(t) = MaxStats \/ (t # <<>> /\ t[Len(t)] = es[1])
  <2> SUFFICES ASSUME Len(es) = 1, Len(t) # MaxStats
               PROVE  t # <<>> /\ t[Len(t)] = es[1]
    OBVIOUS
  <2>1. Len(t) = Len(s) + 1
    BY <1>1, <1>2
  <2>2. t[Len(s) + 1] = es[1] /\ Len(s) + 1 \in 1 .. Len(t)
    <3>1. Len(es) > 0
      OBVIOUS
    <3> QED  BY <1>7, <3>1, Zenon
  <2>3. t # <<>>
    BY <1>2, <2>1
  <2> QED  BY <2>1, <2>2, <2>3
<1>9. Len(es) > 0 => Len(t) = MaxStats \/ Has(t, es[1])
  BY <1>2, <1>7 DEF Has
<1> QED  BY <1>1, <1>4, <1>5, <1>6, <1>8, <1>9 DEF t

(* The same for one entry, as it is added most often, and as the first. *)
LEMMA OneNoted ==
  ASSUME StbAssumption, NEW s \in Seq(Entries), NEW e \in Entries,
         Len(s) <= MaxStats, NEW g,
         Own(s, g), Its(e, g)
  PROVE  LET t == Noted(s, <<e>>) IN
         /\ t \in Seq(Entries) /\ Len(t) <= MaxStats
         /\ Own(t, g)
         /\ \A x : Has(s, x) => Has(t, x)
         /\ Len(s) = MaxStats => Len(t) = MaxStats
         /\ Len(t) = MaxStats \/ Has(t, e)
         /\ Len(t) = MaxStats \/ (t # <<>> /\ t[Len(t)] = e)
<1> DEFINE es == <<e>>
<1>1. /\ es \in Seq(Entries) /\ Len(es) = 1 /\ es[1] = e /\ DOMAIN es = {1}
  OBVIOUS
<1> HIDE DEF es
<1>2. Own(es, g)
  BY <1>1 DEF Own
<1>3. Len(es) > 0
  BY <1>1
<1> DEFINE t == Noted(s, es)
<1>4. /\ t \in Seq(Entries) /\ Len(t) <= MaxStats
      /\ Own(t, g)
      /\ \A x : Has(s, x) => Has(t, x)
      /\ Len(s) = MaxStats => Len(t) = MaxStats
      /\ Len(t) = MaxStats \/ Has(t, e)
      /\ Len(t) = MaxStats \/ (t # <<>> /\ t[Len(t)] = e)
  BY <1>1, <1>2, <1>3, OwnNoted
<1> QED  BY <1>4 DEF es

LEMMA FirstNoted ==
  ASSUME StbAssumption, NEW e \in Entries, NEW g, Its(e, g)
  PROVE  LET t == Noted(<<>>, <<e>>) IN
         /\ t \in Seq(Entries) /\ Len(t) <= MaxStats
         /\ Own(t, g)
         /\ Len(t) = MaxStats \/ Has(t, e)
<1> DEFINE s == <<>>
<1>1. s \in Seq(Entries) /\ Len(s) <= MaxStats /\ DOMAIN s = {}
  BY DEF StbAssumption
<1> HIDE DEF s
<1>2. Own(s, g)
  BY <1>1 DEF Own
<1> DEFINE t == Noted(s, <<e>>)
<1>3. /\ t \in Seq(Entries) /\ Len(t) <= MaxStats
      /\ Own(t, g)
      /\ Len(t) = MaxStats \/ Has(t, e)
  BY <1>1, <1>2, OneNoted
<1> QED  BY <1>3 DEF s
-----------------------------------------------------------------------------
LEMMA InitInv == ASSUME StbAssumption, Init PROVE IInv
<1>1. <<>> \in Seq(Entries) /\ Len(<<>>) = 0
  BY EmptySeq
<1>2. Scalars
  BY DEF Init, Scalars, GroupOrNone
<1>3. Table
  BY <1>1 DEF StbAssumption, Init, Table
<1>4. Armed /\ Pending /\ Window /\ AskedIsFollowed /\ OkIsOwn
  BY DEF Init, Armed, Pending, Window, AskedIsFollowed, OkIsOwn
<1> QED  BY <1>2, <1>3, <1>4 DEF IInv, Shape

(* A step within a window, and one that ends it without data, that leave   *)
(* the group and the table alone. *)
LEMMA WindowEnded ==
  ASSUME IInv, phase' = "idle", status' # "Ok"
  PROVE  Armed' /\ Pending' /\ Window' /\ OkIsOwn'
BY DEF Armed, Pending, Window, OkIsOwn

LEMMA WatchKeeps == ASSUME StbAssumption, IInv, Watch PROVE IInv'
<1> USE DEF IInv, Shape
<1>1. /\ phase' \in {"check", "idle"} /\ status' \in {"Timed Out", "Socket Error"}
      /\ gotData' = FALSE /\ igmp_dest' = NoGroup /\ new_group_ip' = NoGroup
      /\ UNCHANGED <<get_play, new_entry_type>>
  BY DEF Watch
<1>4. /\ forgotten' \in {forgotten, TRUE}
      /\ asked' = IF new_group_ip # NoGroup \/ forgotten THEN asked ELSE NoGroup
      /\ odd' = (odd /\ new_group_ip \notin {NoGroup, asked})
  <2>1. forgotten' = forgotten \/ forgotten' = (forgotten \/ new_group_ip # NoGroup)
    BY DEF Watch
  <2>2. (forgotten \/ new_group_ip # NoGroup) \in {forgotten, TRUE}
    BY DEF Scalars
  <2> QED  BY <2>1, <2>2 DEF Watch
<1>5. /\ asked' \in GroupOrNone /\ odd' \in BOOLEAN /\ forgotten' \in BOOLEAN
      /\ ~forgotten' => ~forgotten
  BY <1>4 DEF Scalars, GroupOrNone
<1>2. CASE new_group_ip # NoGroup
  <2>1. Recovered
    BY <1>2 DEF Watch
  <2> DEFINE e == IF new_entry_type = "report" THEN Report(new_group_ip) ELSE Other
  <2>2. new_group_ip \in GroupOrNone
    BY DEF Scalars
  <2>3. e \in Entries /\ Its(e, new_group_ip)
    BY <2>2, EntriesOK DEF Its
  <2>4. /\ group_ip' = new_group_ip /\ timer' = "set" /\ gotRequest' = TRUE
        /\ gotMembershipReport' = (new_entry_type = "report")
        /\ stats' = Noted(<<>>, <<e>>)
    BY <2>1 DEF Recovered
  <2>5. e = Report(new_group_ip) \/ new_entry_type # "report"
    OBVIOUS
  <2> HIDE DEF e
  <2>7. /\ stats' \in Seq(Entries) /\ Len(stats') <= MaxStats
        /\ Own(stats', new_group_ip)
        /\ Len(stats') = MaxStats \/ Has(stats', e)
    BY <2>3, <2>4, FirstNoted
  <2>8. Scalars'
    BY <1>1, <1>5, <2>2, <2>4 DEF Scalars, GroupOrNone
  <2>11. Table'
    BY <2>7 DEF Table
  <2>9. Armed' /\ Pending' /\ OkIsOwn'
    BY <1>1, <1>2, <2>4 DEF Armed, Pending, OkIsOwn
  <2>12. AskedIsFollowed'
    \* the change that ended the last window was asked for, and is taken up
    <3> SUFFICES ASSUME ~odd', ~forgotten' PROVE asked' = group_ip'
      BY <1>1 DEF AskedIsFollowed
    <3>1. asked' = asked
      BY <1>2, <1>4
    <3>2. asked = new_group_ip
      <4>1. CASE odd
        BY <1>2, <1>4, <4>1
      <4>2. CASE ~odd
        BY <1>2, <1>5, <4>2 DEF AskedIsFollowed
      <4> QED  BY <4>1, <4>2
    <3> QED  BY <2>4, <3>1, <3>2
  <2>10. Window'
    BY <1>1, <2>4, <2>5, <2>7 DEF Window
  <2> QED  BY <2>8, <2>9, <2>10, <2>11, <2>12
<1>3. CASE new_group_ip = NoGroup
  <2>1. /\ group_ip' = NoGroup /\ timer' = "fresh" /\ stats' = <<>>
        /\ gotRequest' = ~get_play /\ gotMembershipReport' = FALSE
    BY <1>3 DEF Watch
  <2>2. Scalars'
    BY <1>1, <1>5, <2>1 DEF Scalars, GroupOrNone
  <2>3. Table'
    BY <2>1 DEF Table, StbAssumption
  <2>4. Armed' /\ Pending' /\ OkIsOwn'
    BY <1>1, <2>1 DEF Armed, Pending, OkIsOwn
  <2>7. AskedIsFollowed'
    BY <1>1, <1>3, <1>4, <1>5, <2>1 DEF AskedIsFollowed
  <2>5. Own(<<>>, group_ip')
    BY DEF Own
  <2>6. Window'
    BY <1>1, <2>1, <2>5 DEF Window
  <2> QED  BY <2>2, <2>3, <2>4, <2>6, <2>7
<1> QED  BY <1>2, <1>3

(* Most steps leave most of the scalars alone. *)
LEMMA ScalarsFrame ==
  ASSUME Scalars, phase' \in {"idle", "check", "recv"},
         status' \in {"Ok", "Timed Out", "Socket Error", "Socket Closed",
                     "Recvfrom Error"},
         timer' \in {"fresh", "set", "expired"},
         UNCHANGED <<get_play, group_ip, new_group_ip, new_entry_type,
                     gotRequest, gotMembershipReport, gotData, igmp_dest>>,
         asked' \in GroupOrNone, UNCHANGED <<odd, forgotten>>
  PROVE  Scalars'
BY DEF Scalars

LEMMA ScalarTypes ==
  ASSUME Scalars
  PROVE  /\ phase \in {"idle", "check", "recv"}
         /\ status \in {"Ok", "Timed Out", "Socket Error", "Socket Closed",
                        "Recvfrom Error"}
         /\ timer \in {"fresh", "set", "expired"}
         /\ asked \in GroupOrNone
BY DEF Scalars

LEMMA CheckKeeps == ASSUME IInv, Check PROVE IInv'
<1> USE DEF IInv, Shape
<1>1. phase # "idle" /\ phase' \in {"idle", "recv"}
      /\ UNCHANGED <<get_play, status, group_ip, new_group_ip,
                     new_entry_type, stats, gotRequest,
                     gotMembershipReport, gotData, igmp_dest, timer,
                     asked, odd, forgotten>>
  BY DEF Check, change, flags, history
<1>2. Scalars' /\ Table' /\ AskedIsFollowed'
  <2>1. Scalars'
    BY <1>1, ScalarTypes, ScalarsFrame
  <2>2. Table'
    BY <1>1 DEF Table
  <2>3. AskedIsFollowed'
    BY <1>1 DEF AskedIsFollowed
  <2> QED  BY <2>1, <2>2, <2>3
<1>3. Armed' /\ Pending' /\ Window' /\ OkIsOwn'
  <2>1. Armed'
    BY <1>1 DEF Armed
  <2>2. Pending'
    BY <1>1 DEF Pending
  <2>3. Window'
    BY <1>1 DEF Window
  <2>4. OkIsOwn'
    <3>1. status' # "Ok"
      BY <1>1 DEF Window
    <3> QED  BY <3>1 DEF OkIsOwn
  <2> QED  BY <2>1, <2>2, <2>3, <2>4
<1> QED  BY <1>2, <1>3

LEMMA ExpireKeeps == ASSUME IInv, Expire PROVE IInv'
<1> USE DEF IInv, Shape
<1>1. timer' = "expired"
      /\ UNCHANGED <<get_play, phase, status, group_ip, new_group_ip,
                     new_entry_type, stats, gotRequest,
                     gotMembershipReport, gotData, igmp_dest, asked, odd, forgotten>>
  BY DEF Expire, change, flags, history
<1>2. Scalars' /\ Table' /\ AskedIsFollowed'
  <2>1. Scalars'
    BY <1>1, ScalarTypes, ScalarsFrame
  <2>2. Table'
    BY <1>1 DEF Table
  <2>3. AskedIsFollowed'
    BY <1>1 DEF AskedIsFollowed
  <2> QED  BY <2>1, <2>2, <2>3
<1>3. Armed' /\ Pending' /\ Window' /\ OkIsOwn'
  <2>1. Armed'
    BY <1>1 DEF Armed
  <2>2. Pending'
    BY <1>1 DEF Pending
  <2>3. Window'
    BY <1>1 DEF Window
  <2>4. OkIsOwn'
    BY <1>1 DEF OkIsOwn
  <2> QED  BY <2>1, <2>2, <2>3, <2>4
<1> QED  BY <1>2, <1>3

LEMMA QuietKeeps == ASSUME IInv, Nothing \/ Broken PROVE IInv'
<1> USE DEF IInv, Shape
<1>1. /\ phase = "recv"
      /\ \/ phase' = "check" /\ UNCHANGED status
         \/ phase' = "idle" /\ status' \in {"Socket Closed", "Recvfrom Error"}
      /\ UNCHANGED <<get_play, group_ip, new_group_ip, new_entry_type,
                     stats, gotRequest, gotMembershipReport, gotData,
                     igmp_dest, timer, asked, odd, forgotten>>
  BY DEF Nothing, Broken, change, flags, history
<1>2. Scalars' /\ Table' /\ AskedIsFollowed'
  <2>1. Scalars'
    BY <1>1, ScalarTypes, ScalarsFrame
  <2>2. Table'
    BY <1>1 DEF Table
  <2>3. AskedIsFollowed'
    BY <1>1 DEF AskedIsFollowed
  <2> QED  BY <2>1, <2>2, <2>3
<1>3. Armed' /\ Pending' /\ Window' /\ OkIsOwn'
  <2>1. Armed'
    BY <1>1 DEF Armed
  <2>2. Pending'
    BY <1>1 DEF Pending
  <2>3. Window'
    BY <1>1 DEF Window
  <2>4. OkIsOwn'
    <3>1. status' # "Ok"
      BY <1>1 DEF Window
    <3> QED  BY <3>1 DEF OkIsOwn
  <2> QED  BY <2>1, <2>2, <2>3, <2>4
<1> QED  BY <1>2, <1>3

(* Entries of no group are added, and nothing else happens; the box may    *)
(* ask again for the group that is followed.                               *)
LEMMA NoteKeeps ==
  ASSUME StbAssumption, IInv, phase = "recv", stats' = Noted(stats, <<Other>>),
         UNCHANGED <<get_play, group_ip, change, flags, igmp_dest, timer, odd, forgotten>>,
         asked' \in {asked, group_ip}, Handled(TRUE)
  PROVE  IInv'
<1> USE DEF IInv, Shape
<1>0. UNCHANGED <<get_play, group_ip, new_group_ip, new_entry_type, gotRequest,
                  gotMembershipReport, gotData, igmp_dest, timer, odd, forgotten>>
  BY DEF change, flags
<1>1. phase' = "check" /\ status' = status
  BY DEF Handled, Window, flags
<1>2. Other \in Entries /\ Its(Other, group_ip)
  BY EntriesOK DEF Its
<1>3. /\ stats' \in Seq(Entries) /\ Len(stats') <= MaxStats
      /\ Own(stats', group_ip)
      /\ \A e : Has(stats, e) => Has(stats', e)
      /\ Len(stats) = MaxStats => Len(stats') = MaxStats
  <2>1. stats \in Seq(Entries) /\ Len(stats) <= MaxStats /\ Own(stats, group_ip)
    BY DEF Table, Window
  <2> QED  BY <1>2, <2>1, OneNoted
<1>4. Scalars' /\ Table' /\ AskedIsFollowed' /\ Armed' /\ Pending' /\ OkIsOwn'
  <2>1. Scalars'
    <3>1. asked' \in GroupOrNone
      BY DEF Scalars
    <3> QED  BY <1>0, <1>1, <3>1, ScalarTypes, ScalarsFrame
  <2>2. Table'
    BY <1>0, <1>1, <1>3 DEF Table
  <2>3. AskedIsFollowed'
    BY <1>0, <1>1 DEF AskedIsFollowed, Pending
  <2>4. Armed'
    BY <1>0, <1>1 DEF Armed
  <2>5. Pending'
    BY <1>0, <1>1 DEF Pending
  <2>6. OkIsOwn'
    BY <1>0, <1>1, <1>3 DEF OkIsOwn
  <2> QED  BY <2>1, <2>2, <2>3, <2>4, <2>5, <2>6
<1>5. Window'
  BY <1>0, <1>1, <1>3 DEF Window
<1> QED  BY <1>4, <1>5

LEMMA JoinedKeeps ==
  ASSUME StbAssumption, IInv, phase = "recv", NEW g \in Groups,
         NEW dest \in {g, AllRouters}, NEW more \in {<<>>, <<Other>>},
         Joined(g, dest, more), Handled(TRUE), UNCHANGED get_play
  PROVE  IInv'
<1> USE DEF IInv, Shape
<1> DEFINE old == IF group_ip = NoGroup THEN <<>> ELSE stats
           es == <<Report(g)>> \o more
<1>1. /\ gotRequest /\ group_ip \in {NoGroup, g} /\ g # NoGroup
      /\ group_ip' = g /\ igmp_dest' = dest /\ timer' = TimerOf(g)
      /\ stats' = Noted(old, es)
      /\ gotMembershipReport' = TRUE /\ gotData' = FALSE /\ asked' = g
      /\ odd' = (odd /\ new_group_ip # NoGroup) /\ forgotten' = FALSE
      /\ UNCHANGED <<gotRequest, change, get_play>>
  BY DEF Joined, StbAssumption
<1>2. phase' = "check" /\ status' = status
  BY <1>1 DEF Handled
<1>3. g \in GroupOrNone /\ dest \in GroupOrNone \cup {AllRouters}
  BY DEF GroupOrNone
<1>4. /\ Report(g) \in Entries /\ Report(g).of = g /\ Other \in Entries
      /\ Other.of = NoGroup
  BY <1>3, EntriesOK
<1>5. /\ es \in Seq(Entries) /\ Len(es) > 0 /\ es[1] = Report(g)
      /\ Own(es, g)
  <2>1. /\ <<Report(g)>> \in Seq(Entries) /\ Len(<<Report(g)>>) = 1
        /\ <<Report(g)>>[1] = Report(g)
    BY <1>4
  <2>2. /\ more \in Seq(Entries) /\ Len(more) \in Nat
        /\ \A i \in 1 .. Len(more) : more[i] = Other
    <3>1. CASE more = <<>>
      BY <3>1
    <3>2. CASE more = <<Other>>
      BY <1>4, <3>2
    <3> QED  BY <3>1, <3>2
  <2>3. /\ es \in Seq(Entries) /\ Len(es) = 1 + Len(more)
        /\ \A i \in 1 .. Len(es) : es[i] = IF i <= 1 THEN <<Report(g)>>[i] ELSE more[i - 1]
    BY <2>1, <2>2, ConcatProperties
  <2> HIDE DEF es
  <2>4. DOMAIN es = 1 .. Len(es) /\ Len(es) > 0 /\ es[1] = Report(g)
    BY <2>1, <2>2, <2>3
  <2>5. ASSUME NEW i \in DOMAIN es PROVE es[i].of \in {NoGroup, g}
    <3>1. CASE i = 1
      BY <1>4, <2>4, <3>1
    <3>2. CASE i # 1
      <4>1. i - 1 \in 1 .. Len(more) /\ ~(i <= 1)
        BY <2>2, <2>3, <2>4, <3>2
      <4> QED  BY <1>4, <2>2, <2>3, <2>4, <4>1
    <3> QED  BY <3>1, <3>2
  <2> QED  BY <2>3, <2>4, <2>5 DEF Own, Its
<1>6. /\ old \in Seq(Entries) /\ Len(old) <= MaxStats
      /\ Own(old, g)
  <2>1. CASE group_ip = NoGroup
    BY <2>1 DEF StbAssumption, Own
  <2>2. CASE group_ip = g
    BY <1>1, <2>2 DEF Table, Window
  <2> QED  BY <1>1, <2>1, <2>2
<1> HIDE DEF old, es
<1>7. /\ stats' \in Seq(Entries) /\ Len(stats') <= MaxStats
      /\ Own(stats', g)
      /\ Len(stats') = MaxStats \/ Has(stats', Report(g))
  BY <1>1, <1>5, <1>6, OwnNoted
<1>8. timer' \in {"set", "expired"}
  BY <1>1 DEF TimerOf, Armed, Scalars
<1>13. odd' \in BOOLEAN /\ (~odd' => new_group_ip' = NoGroup)
  BY <1>1 DEF Scalars, Pending, change
<1>9. Scalars' /\ Table'
  BY <1>1, <1>2, <1>3, <1>7, <1>8, <1>13 DEF Scalars, Table, change
<1>10. Armed' /\ Pending' /\ OkIsOwn'
  BY <1>1, <1>2, <1>8, <1>13 DEF Armed, Pending, OkIsOwn, change
<1>11. AskedIsFollowed'
  BY <1>1, <1>13 DEF AskedIsFollowed
<1>12. Window'
  BY <1>1, <1>2, <1>7 DEF Window
<1> QED  BY <1>9, <1>10, <1>11, <1>12

LEMMA V2ReportKeeps ==
  ASSUME StbAssumption, IInv, NEW g \in Groups, V2Report(g) PROVE IInv'
<1> USE DEF IInv, Shape
<1>1. CASE Joined(g, g, <<>>) /\ Handled(TRUE)
  BY <1>1, JoinedKeeps DEF V2Report
<1>2. CASE Changed(g, <<>>) /\ Handled(FALSE) /\ odd' = FALSE
  <2>1. /\ phase = "recv" /\ phase' = "idle" /\ status' = status /\ status # "Ok"
        /\ g # NoGroup /\ g \in GroupOrNone
        /\ new_group_ip' = g /\ new_entry_type' = "report" /\ asked' = g
        /\ odd' = FALSE
        /\ UNCHANGED <<get_play, group_ip, flags, igmp_dest, timer, forgotten>>
        /\ stats' = Noted(stats, <<>>)
    BY <1>2 DEF V2Report, Changed, Handled, Window, GroupOrNone, StbAssumption
  <2>2. Table'
    <3>1. <<>> \in Seq(Entries)
      OBVIOUS
    <3> QED  BY <2>1, <3>1, NotedOK DEF Table
  <2>3. Scalars' /\ AskedIsFollowed'
    BY <2>1 DEF Scalars, AskedIsFollowed, flags
  <2> QED  BY <2>1, <2>2, <2>3, WindowEnded
<1> QED  BY <1>1, <1>2 DEF V2Report

LEMMA V3ReportKeeps ==
  ASSUME StbAssumption, IInv, NEW g \in Groups, V3Report(g) PROVE IInv'
<1> USE DEF IInv, Shape
<1>0. phase = "recv" /\ Handled(TRUE) /\ UNCHANGED get_play
  BY DEF V3Report
<1>1. CASE Joined(g, AllRouters, <<Other>>)
  BY <1>0, <1>1, JoinedKeeps
<1>2. CASE Changed(g, <<Other>>) /\ odd' = TRUE
  <2>1. /\ new_group_ip' = g /\ new_entry_type' = "report" /\ asked' = g
        /\ g \in GroupOrNone
        /\ UNCHANGED <<group_ip, flags, igmp_dest, timer, forgotten>>
        /\ stats' = Noted(stats, <<Other>>)
    BY <1>2 DEF Changed, GroupOrNone
  <2>2. phase' = "check" /\ status' = status
    BY <1>0, <2>1 DEF Handled, Window, flags
  <2>3. Other \in Entries /\ Its(Other, group_ip)
    BY EntriesOK DEF Its
  <2>4. /\ stats' \in Seq(Entries) /\ Len(stats') <= MaxStats
        /\ Own(stats', group_ip)
        /\ \A e : Has(stats, e) => Has(stats', e)
        /\ Len(stats) = MaxStats => Len(stats') = MaxStats
    <3>1. stats \in Seq(Entries) /\ Len(stats) <= MaxStats /\ Own(stats, group_ip)
      BY <1>0 DEF Table, Window
    <3> QED  BY <2>1, <2>3, <3>1, OneNoted
  <2>5. Scalars' /\ Table' /\ Armed' /\ Pending' /\ AskedIsFollowed' /\ OkIsOwn'
    BY <1>0, <1>2, <2>1, <2>2, <2>4
       DEF Scalars, Table, Armed, Pending, AskedIsFollowed, OkIsOwn, flags
  <2>6. Window'
    BY <1>0, <2>1, <2>2, <2>4 DEF Window, flags
  <2> QED  BY <2>5, <2>6
<1> QED  BY <1>1, <1>2 DEF V3Report

(* The first data ends the window with Ok. *)
LEMMA DataKeeps ==
  ASSUME StbAssumption, IInv, NEW g \in Groups, Data(g) PROVE IInv'
<1> USE DEF IInv, Shape
<1>1. /\ phase = "recv" /\ gotMembershipReport /\ igmp_dest = g
      /\ gotData' = TRUE /\ Handled(TRUE)
      /\ UNCHANGED <<get_play, group_ip, change, gotRequest, gotMembershipReport,
                     igmp_dest, timer, asked, odd, forgotten>>
  BY DEF Data, IsData, history
<1>2. g = group_ip /\ g \in GroupOrNone /\ g # NoGroup
  BY <1>1 DEF Window, StbAssumption, GroupOrNone
<1>3. stats' = Noted(stats, <<Udp(g)>>)
  BY <1>1 DEF Data, Window
<1>4. phase' = "idle" /\ status' = "Ok"
  BY <1>1, <1>2 DEF Handled, Armed
<1>5. Udp(g) \in Entries /\ Its(Udp(g), g)
  BY <1>2, EntriesOK DEF Its
<1>6. /\ stats' \in Seq(Entries) /\ Len(stats') <= MaxStats
      /\ Own(stats', g)
      /\ \A e : Has(stats, e) => Has(stats', e)
      /\ Len(stats) = MaxStats => Len(stats') = MaxStats
      /\ Len(stats') = MaxStats \/ (stats' # <<>> /\ stats'[Len(stats')] = Udp(g))
  <2>1. stats \in Seq(Entries) /\ Len(stats) <= MaxStats /\ Own(stats, g)
    BY <1>1, <1>2 DEF Table, Window
  <2> QED  BY <1>3, <1>5, <2>1, OneNoted
<1>7. Len(stats') = MaxStats \/ Has(stats', Report(g))
  BY <1>1, <1>2, <1>6 DEF Window
<1>8. Scalars' /\ Table' /\ AskedIsFollowed'
  <2>1. Scalars'
    BY <1>1, <1>4, <1>6 DEF Scalars, change
  <2>2. Table'
    BY <1>1, <1>4, <1>6 DEF Table, change
  <2>3. AskedIsFollowed'
    BY <1>1, <1>4, <1>6 DEF AskedIsFollowed, change
  <2> QED  BY <2>1, <2>2, <2>3
<1>9. OkIsOwn'
  BY <1>1, <1>2, <1>6, <1>7 DEF OkIsOwn, Own, Its, Has
<1>10. Armed' /\ Pending' /\ Window'
  BY <1>4 DEF Armed, Pending, Window
<1> QED  BY <1>8, <1>9, <1>10

LEMMA PlayOtherKeeps ==
  ASSUME StbAssumption, IInv, NEW host \in GroupOrNone, PlayOther(host) PROVE IInv'
<1> USE DEF IInv, Shape
<1>1. /\ phase = "recv" /\ phase' = "idle" /\ status' = status /\ status # "Ok"
      /\ new_group_ip' \in GroupOrNone
      /\ host # NoGroup => new_group_ip' = host
      /\ new_entry_type' = "request"
      /\ asked' = (IF host = NoGroup THEN asked ELSE host)
      /\ UNCHANGED <<get_play, group_ip, stats, flags, igmp_dest, timer, forgotten>>
  BY DEF PlayOther, Handled, Window
<1>4. odd' \in BOOLEAN /\ (host = NoGroup => odd')
  BY DEF PlayOther
<1>2. Scalars' /\ Table'
  <2>1. asked' \in GroupOrNone
    BY <1>1 DEF Scalars
  <2> QED  BY <1>1, <1>4, <2>1 DEF Scalars, Table, flags
<1>3. AskedIsFollowed'
  BY <1>1, <1>4 DEF AskedIsFollowed
<1> QED  BY <1>1, <1>2, <1>3, WindowEnded

LEMMA PlayKeeps ==
  ASSUME StbAssumption, IInv, NEW host \in GroupOrNone, Play(host) PROVE IInv'
<1> USE DEF IInv, Shape
<1>1. CASE gotRequest
  <2>1. /\ phase = "recv" /\ stats' = Noted(stats, <<Other>>) /\ Handled(TRUE)
        /\ UNCHANGED <<get_play, group_ip, change, flags, igmp_dest, timer, odd, forgotten>>
        /\ asked' \in {asked, group_ip}
    BY <1>1 DEF Play, flags
  <2> QED  BY <2>1, NoteKeeps
<1>2. CASE ~gotRequest
  <2>1. /\ phase = "recv" /\ ~gotMembershipReport /\ group_ip = NoGroup
        /\ stats' = Noted(<<>>, <<Other>>)
        /\ gotRequest' = TRUE /\ timer' = "set" /\ group_ip' = host /\ asked' = host
        /\ forgotten' = FALSE
        /\ UNCHANGED <<get_play, change, gotMembershipReport, gotData, igmp_dest, odd>>
    BY <1>2 DEF Play, Armed
  <2>2. phase' = "check" /\ status' = status
    BY <1>2, <2>1 DEF Play, Handled
  <2>3. Other \in Entries /\ Its(Other, host)
    BY EntriesOK DEF Its
  <2>5. /\ stats' \in Seq(Entries) /\ Len(stats') <= MaxStats
        /\ Own(stats', host)
    BY <2>1, <2>3, FirstNoted
  <2>6. Scalars' /\ Table'
    BY <2>1, <2>2, <2>5 DEF Scalars, Table, change
  <2>7. Armed' /\ Pending' /\ OkIsOwn'
    BY <2>1, <2>2 DEF Armed, Pending, OkIsOwn, change
  <2>8. AskedIsFollowed'
    BY <2>1 DEF AskedIsFollowed, Pending, change
  <2>9. Window'
    BY <2>1, <2>2, <2>5 DEF Window
  <2> QED  BY <2>6, <2>7, <2>8, <2>9
<1> QED  BY <1>1, <1>2

THEOREM StepInv == ASSUME StbAssumption, IInv, [Next]_vars PROVE IInv'
<1> SUFFICES ASSUME Next \/ UNCHANGED vars PROVE IInv'
  OBVIOUS
<1>1. CASE Watch
  BY <1>1, WatchKeeps
<1>2. CASE Check
  BY <1>2, CheckKeeps
<1>3. CASE Expire
  BY <1>3, ExpireKeeps
<1>4. CASE Nothing \/ Broken
  BY <1>4, QuietKeeps
<1>5. CASE Note
  BY <1>5, NoteKeeps DEF Note, history
<1>6. CASE \E g \in Groups : V2Report(g) \/ V3Report(g) \/ Data(g)
  BY <1>6, V2ReportKeeps, V3ReportKeeps, DataKeeps
<1>7. CASE \E host \in GroupOrNone : Play(host) \/ PlayOther(host)
  BY <1>7, PlayKeeps, PlayOtherKeeps
<1>8. CASE UNCHANGED vars
  <2>1. UNCHANGED <<get_play, phase, status, group_ip, new_group_ip, new_entry_type,
                    stats, gotRequest, gotMembershipReport, gotData, igmp_dest,
                    timer, asked, odd, forgotten>>
    BY <1>8 DEF vars, change, flags, history
  <2>2. Scalars'
    <3>1. Scalars
      BY DEF IInv, Shape
    <3> QED  BY <2>1, <3>1, ScalarTypes, ScalarsFrame
  <2>4. Table' /\ Armed' /\ Pending'
    BY <2>1 DEF IInv, Shape, Table, Armed, Pending
  <2>3. Window' /\ AskedIsFollowed' /\ OkIsOwn'
    BY <2>1 DEF IInv, Window, AskedIsFollowed, OkIsOwn
  <2> QED  BY <2>2, <2>3, <2>4 DEF IInv, Shape
<1> QED  BY <1>1, <1>2, <1>3, <1>4, <1>5, <1>6, <1>7, <1>8 DEF Next

LEMMA Invariant == Spec => []IInv
<1> QED  BY InitInv, StepInv, StbAssumption, PTL DEF Spec

(* Every variable keeps its type, and the table of entries its length      *)
(* (MAX_STB_DATA_STATS), whatever the traffic.                             *)
THEOREM TypeCorrect == Spec => []TypeOK
<1>1. IInv => TypeOK
  BY DEF IInv, Shape, Scalars, Table, TypeOK
<1> QED  BY <1>1, Invariant, PTL

(* No window waits on a timer that was only made (packet_sniffer.cpp:298). *)
THEOREM AlwaysArmed == Spec => []TimerArmed
<1>1. IInv => TimerArmed
  BY DEF IInv, Shape, Armed, TimerArmed, Waiting
<1> QED  BY <1>1, Invariant, PTL

(* A line that says Ok is of its own group (packet_sniffer.cpp:538).       *)
THEOREM OkAlwaysOwn == Spec => []OkIsOwn
<1>1. IInv => OkIsOwn
  BY DEF IInv
<1> QED  BY <1>1, Invariant, PTL

(* The group asked for last is the one followed, now or in the next        *)
(* window, and in that window itself, until its line is written            *)
(* (packet_sniffer.cpp:191-216); but for an `odd` change, and, until the   *)
(* box asks again, one whose window could not be set up (228-262).         *)
THEOREM AskedAlwaysFollowed == Spec => []AskedIsFollowed
<1>1. IInv => AskedIsFollowed
  BY DEF IInv
<1> QED  BY <1>1, Invariant, PTL
=============================================================================
