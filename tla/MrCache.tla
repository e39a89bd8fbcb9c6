------------------------------ MODULE MrCache ------------------------------
(***************************************************************************)
(* monitor_mrt watches the kernel's multicast routes: every 100 ms it      *)
(* reads /proc/net/ip_mr_cache, compares the entries with those of the     *)
(* time before, and logs what is new, changed or removed.  A cache         *)
(* (mr_cache.c) remembers when an entry was last reported, so that the log *)
(* can say how long it took to change or go.                               *)
(*                                                                         *)
(* An entry is a (source, group) pair.  Snapshots are sorted and searched  *)
(* by the two addresses written one after the other, the cache by the      *)
(* addresses themselves.                                                   *)
(***************************************************************************)
EXTENDS Integers, FiniteSets

CONSTANTS
  Entries,      \* pairs (origin, group)
  Key,          \* Entries -> Nat: the order of group and origin, concatenated
  Iifs,         \* incoming interfaces, -1 while unresolved
  iif_num,      \* the interface of option -i
  MaxEntries,   \* MAX_ENTRIES
  MaxTime       \* bound: time

ASSUME MrAssumption ==
  /\ Key \in [Entries -> Nat]
  /\ Iifs \subseteq Int /\ iif_num \in Iifs
  /\ MaxEntries \in Nat /\ MaxTime \in Nat

Absent == -2                         \* the incoming interface of no entry
Tables == [Entries -> Iifs \cup {Absent}]
NoNode == [iif |-> Absent, millis |-> 0, status |-> "MRC_NEW"]
Nodes == [iif : Iifs, millis : 0 .. MaxTime,
          status : {"MRC_NEW", "MRC_RESOLVED", "MRC_UNRESOLVED"}]
InTable(t) == {e \in Entries : t[e] # Absent}

(* Two pairs of addresses can have the same text one after the other       *)
(* (239.1.1.1 12.0.0.1, 239.1.1.11 2.0.0.1): left out.                     *)
ASSUME KeyAssumption == \A e, f \in Entries : Key[e] = Key[f] => e = f

ASSUME AbsentAssumption == Absent \notin Iifs

VARIABLES
  kernel,     \* the routes the kernel has now
  entries2,   \* the snapshot before
  mrc,        \* the list of mr_cache.c, NoNode for what is not in it
  running, now,
  lines,      \* history: what the last comparison logged
  shadow,     \* history: the entries the log shows as present
  silent,     \* history: present, but entered unreported
  stale,      \* history: reported at start, and in no snapshot since
  since       \* history: when the log last named an entry that is there, or -1

history == <<lines, shadow, silent, stale, since>>
vars == <<kernel, entries2, mrc, running, now, history>>

(* The report at start names resolved entries only, and its snapshot is    *)
(* forgotten: the first of the loop is not compared with it.               *)
Init ==
  /\ kernel \in Tables
  /\ Cardinality(InTable(kernel)) < MaxEntries
  /\ entries2 = [e \in Entries |-> Absent]
  /\ mrc = [e \in Entries |-> NoNode]
  /\ running = TRUE /\ now = 0
  /\ lines = {}
  /\ shadow = {e \in Entries : kernel[e] = iif_num}
  /\ silent = {} /\ stale = shadow
  /\ since = [e \in Entries |-> -1]

(* External: the kernel and the routing daemon change the routes. *)
Kernel ==
  /\ running
  /\ \E e \in Entries, iif \in Iifs \cup {Absent} :
       /\ kernel[e] # iif
       /\ kernel' = [kernel EXCEPT ![e] = iif]
  /\ UNCHANGED <<entries2, mrc, running, now, history>>

Sleep ==
  /\ running /\ now < MaxTime /\ now' = now + 1
  /\ UNCHANGED <<kernel, entries2, mrc, running, history>>
-----------------------------------------------------------------------------
(* getDeltas(), for entries1 = the kernel's table *)

(* What bsearch does not find, or finds on another interface. *)
Fresh == InTable(kernel) \ InTable(entries2)
Changed == {e \in InTable(kernel) \cap InTable(entries2) :
              entries2[e] # kernel[e]}

(* A slip: only what the cache holds is looked for. *)
MutGone == {e \in InTable(entries2) : kernel[e] = Absent /\ mrc[e] # NoNode}

Gone == InTable(entries2) \ InTable(kernel)

Elapsed(e) == IF mrc[e] = NoNode THEN -1 ELSE now - mrc[e].millis

LastOf(S) == CHOOSE e \in S : \A f \in S : Key[f] <= Key[e]

(* millis where a removed entry is not in the cache: that of the removed   *)
(* entry before it that was, else what the first loop left, which is -1 or *)
(* the time of its last entry, or anything if the table is empty.          *)
Leftover(e, garbage) ==
  LET before == {f \in Gone : Key[f] < Key[e] /\ mrc[f] # NoNode} IN
  IF before # {} THEN Elapsed(LastOf(before))
  ELSE IF InTable(kernel) = {} THEN garbage
  ELSE IF LastOf(InTable(kernel)) \in Changed
         THEN Elapsed(LastOf(InTable(kernel))) ELSE -1

Lines(garbage) ==
  [kind : {"new"}, entry : Fresh, elapsed : {-1}]
    \cup {[kind |-> "changed", entry |-> e, elapsed |-> Elapsed(e)] : e \in Changed}
    \cup {[kind |-> "removed", entry |-> e,
           elapsed |-> IF mrc[e] = NoNode THEN Leftover(e, garbage) ELSE Elapsed(e)]
            : e \in Gone}

(* What mrc_add stores. *)
Node(e, status) == [iif |-> kernel[e], millis |-> now, status |-> status]

ChangedStatus(e) ==
  IF entries2[e] = iif_num THEN "MRC_RESOLVED" ELSE "MRC_UNRESOLVED"

(* A slip: a changed entry is added without deleting the old one, which    *)
(* mrc_add then leaves as it is.                                           *)
MutCached(e) ==
  CASE e \in Fresh -> Node(e, "MRC_NEW")
    [] e \in Changed /\ mrc[e] = NoNode -> Node(e, ChangedStatus(e))
    [] e \in Gone -> NoNode
    [] OTHER -> mrc[e]

(* mrc_delete and mrc_add for what is new or changed, mrc_delete for what  *)
(* is gone.                                                                *)
Cached(e) ==
  CASE e \in Fresh -> Node(e, "MRC_NEW")
    [] e \in Changed -> Node(e, ChangedStatus(e))
    [] e \in Gone -> NoNode
    [] OTHER -> mrc[e]
-----------------------------------------------------------------------------
TooMany == Cardinality(InTable(kernel)) >= MaxEntries

(* One turn of watchMrCache: nothing is compared with an empty table. *)
Watch ==
  /\ running /\ ~TooMany
  /\ IF InTable(entries2) # {}
       THEN /\ \E garbage \in -1 .. MaxTime : lines' = Lines(garbage)
            /\ mrc' = [e \in Entries |-> Cached(e)]
       ELSE lines' = {} /\ UNCHANGED mrc
  /\ entries2' = kernel
  /\ LET named(kinds) == {l.entry : l \in {m \in lines' : m.kind \in kinds}} IN
     /\ shadow' = (shadow \cup named({"new", "changed"})) \ named({"removed"})
     /\ since' = [e \in Entries |->
                    CASE e \in named({"new", "changed"}) -> now
                      [] e \in named({"removed"}) -> -1
                      [] OTHER -> since[e]]
     /\ silent' = ((IF InTable(entries2) = {} THEN InTable(kernel) ELSE silent)
                     \cap InTable(kernel)) \ named({"changed"})
     /\ stale' = stale \ InTable(kernel)
  /\ UNCHANGED <<kernel, running, now>>

(* getData exits the program when its array is full. *)
Overflow ==
  /\ running /\ TooMany
  /\ running' = FALSE
  /\ UNCHANGED <<kernel, entries2, mrc, now, history>>

Next == Kernel \/ Sleep \/ Watch \/ Overflow

Spec == Init /\ [][Next]_vars
-----------------------------------------------------------------------------
TypeOK ==
  /\ kernel \in Tables /\ entries2 \in Tables
  /\ mrc \in [Entries -> Nodes \cup {NoNode}]
  /\ running \in BOOLEAN /\ now \in 0 .. MaxTime
  /\ lines \subseteq [kind : {"new", "changed", "removed"}, entry : Entries,
                      elapsed : Int]
  /\ shadow \subseteq Entries /\ silent \subseteq Entries /\ stale \subseteq Entries
  /\ since \in [Entries -> -1 .. MaxTime]

(* The cache follows the table: what it holds is in the last snapshot, on  *)
(* the interface it has there, so that "existing entry found during add"   *)
(* (main.c:314) is never printed.                                          *)
CacheFollowsTable ==
  \A e \in Entries : mrc[e] # NoNode => mrc[e].iif = entries2[e]

(* Who reads the log knows the table: it shows nothing that is gone, but   *)
(* for what went between the report at start and the first snapshot; and   *)
(* everything that is there, but for what entered unreported, then or      *)
(* after the table was empty.                                              *)
LogShowsTable ==
  /\ shadow \subseteq InTable(entries2) \cup stale
  /\ InTable(entries2) \ shadow \subseteq silent

(* A time in the log belongs to the entry it stands beside: it is the time *)
(* since the log last named that entry, whatever the other entries did in  *)
(* between, and however often the entry itself came and went.              *)
ElapsedIsOwn ==
  [][\A l \in lines' :
       l.kind # "new" /\ since[l.entry] # -1
         => l.elapsed = now - since[l.entry]]_<<lines, since>>
=============================================================================
