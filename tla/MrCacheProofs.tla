--------------------------- MODULE MrCacheProofs ---------------------------
(***************************************************************************)
(* What the cache and the log of monitor_mrt show, for any routes and      *)
(* interfaces.                                                             *)
(***************************************************************************)
EXTENDS MrCache, TLAPS

Types ==
  /\ kernel \in Tables /\ entries2 \in Tables
  /\ mrc \in [Entries -> Nodes \cup {NoNode}]
  /\ now \in 0 .. MaxTime
  /\ since \in [Entries -> -1 .. MaxTime]

(* What the log named last is what the cache remembers. *)
SinceOK ==
  \A e \in Entries :
    since[e] # -1 => mrc[e] # NoNode /\ mrc[e].millis = since[e]

IInv == Types /\ CacheFollowsTable /\ LogShowsTable /\ SinceOK

Named(kinds) == {l.entry : l \in {m \in lines' : m.kind \in kinds}}
-----------------------------------------------------------------------------
(* Which entries the lines of a comparison name. *)
LEMMA LinesName ==
  ASSUME NEW garbage, lines' = Lines(garbage)
  PROVE  /\ Named({"new", "changed"}) = Fresh \cup Changed
         /\ Named({"removed"}) = Gone
<1> DEFINE line(e) == [kind |-> "changed", entry |-> e, elapsed |-> Elapsed(e)]
           removed(e) == [kind |-> "removed", entry |-> e,
                          elapsed |-> IF mrc[e] = NoNode THEN Leftover(e, garbage)
                                                         ELSE Elapsed(e)]
           new(e) == [kind |-> "new", entry |-> e, elapsed |-> -1]
<1>1. \A l \in lines' : \/ l.kind = "new" /\ l.entry \in Fresh
                        \/ l.kind = "changed" /\ l.entry \in Changed
                        \/ l.kind = "removed" /\ l.entry \in Gone
  BY DEF Lines
<1>2. \A e \in Fresh : new(e) \in lines'
  BY DEF Lines
<1>3. \A e \in Changed : line(e) \in lines'
  BY DEF Lines
<1>4. \A e \in Gone : removed(e) \in lines'
  BY DEF Lines
<1>5. \A e : /\ new(e).kind = "new" /\ new(e).entry = e
             /\ line(e).kind = "changed" /\ line(e).entry = e
             /\ removed(e).kind = "removed" /\ removed(e).entry = e
  OBVIOUS
<1> HIDE DEF line, removed, new
<1>6. Named({"new", "changed"}) \subseteq Fresh \cup Changed
      /\ Named({"removed"}) \subseteq Gone
  BY <1>1 DEF Named
<1>7. \A e \in Fresh \cup Changed : e \in Named({"new", "changed"})
  BY <1>2, <1>3, <1>5 DEF Named
<1>8. \A e \in Gone : e \in Named({"removed"})
  BY <1>4, <1>5 DEF Named
<1> QED  BY <1>6, <1>7, <1>8

LEMMA NodeOK ==
  ASSUME MrAssumption, AbsentAssumption, Types, NEW e \in InTable(kernel),
         NEW status \in {"MRC_NEW", "MRC_RESOLVED", "MRC_UNRESOLVED"}
  PROVE  /\ Node(e, status) \in Nodes
         /\ Node(e, status) # NoNode
         /\ Node(e, status).iif = kernel[e] /\ Node(e, status).millis = now
<1>1. kernel[e] \in Iifs
  BY DEF Types, Tables, InTable
<1> QED  BY <1>1 DEF Node, Nodes, NoNode, Types, AbsentAssumption

(* The four cases of an entry. *)
LEMMA CachedOK ==
  ASSUME MrAssumption, AbsentAssumption, IInv, NEW e \in Entries
  PROVE  /\ Cached(e) \in Nodes \cup {NoNode}
         /\ Cached(e) # NoNode => Cached(e).iif = kernel[e]
         /\ e \in Fresh \cup Changed => Cached(e) # NoNode /\ Cached(e).millis = now
         /\ e \notin Fresh \cup Changed \cup Gone => Cached(e) = mrc[e]
<1> USE DEF IInv
<1>1. CASE e \in Fresh
  <2>1. e \in InTable(kernel)
    BY <1>1 DEF Fresh
  <2>2. e \notin Gone /\ e \notin Changed
    BY <1>1 DEF Gone, Changed, Fresh
  <2>3. Cached(e) = Node(e, "MRC_NEW")
    BY <1>1, <2>2 DEF Cached
  <2> QED  BY <1>1, <2>1, <2>2, <2>3, NodeOK
<1>2. CASE e \in Changed
  <2>1. e \in InTable(kernel) /\ e \notin Fresh /\ e \notin Gone
    BY <1>2 DEF Changed, Fresh, Gone
  <2>2. Cached(e) = Node(e, ChangedStatus(e))
    BY <1>2, <2>1 DEF Cached
  <2>3. ChangedStatus(e) \in {"MRC_NEW", "MRC_RESOLVED", "MRC_UNRESOLVED"}
    BY DEF ChangedStatus
  <2> QED  BY <1>2, <2>1, <2>2, <2>3, NodeOK
<1>3. CASE e \in Gone
  <2>1. e \notin Fresh /\ e \notin Changed
    BY <1>3 DEF Gone, Fresh, Changed
  <2>2. Cached(e) = NoNode
    BY <1>3, <2>1 DEF Cached
  <2> QED  BY <1>3, <2>1, <2>2
<1>4. CASE e \notin Fresh \cup Changed \cup Gone
  <2>1. Cached(e) = mrc[e]
    BY <1>4 DEF Cached
  <2>2. entries2[e] = kernel[e]
    BY <1>4 DEF Fresh, Changed, Gone, InTable
  <2> QED  BY <1>4, <2>1, <2>2 DEF Types, CacheFollowsTable
<1> QED  BY <1>1, <1>2, <1>3, <1>4

LEMMA InitInv == ASSUME MrAssumption, AbsentAssumption, Init PROVE IInv
<1>1. 0 \in 0 .. MaxTime /\ -1 \in -1 .. MaxTime
  BY DEF MrAssumption
<1>2. Types
  BY <1>1 DEF Init, Types, Tables
<1>3. CacheFollowsTable /\ SinceOK
  BY DEF Init, CacheFollowsTable, SinceOK
<1>4. InTable(entries2) = {} /\ shadow = stale
  BY DEF Init, InTable
<1>5. LogShowsTable
  BY <1>4 DEF LogShowsTable
<1> QED  BY <1>2, <1>3, <1>5 DEF IInv

LEMMA WatchKeeps == ASSUME MrAssumption, AbsentAssumption, IInv, Watch PROVE IInv'
<1> USE DEF IInv
<1>1. /\ entries2' = kernel /\ UNCHANGED <<kernel, running, now>>
      /\ shadow' = (shadow \cup Named({"new", "changed"})) \ Named({"removed"})
      /\ since' = [e \in Entries |->
                     CASE e \in Named({"new", "changed"}) -> now
                       [] e \in Named({"removed"}) -> -1
                       [] OTHER -> since[e]]
      /\ silent' = ((IF InTable(entries2) = {} THEN InTable(kernel) ELSE silent)
                      \cap InTable(kernel)) \ Named({"changed"})
      /\ stale' = stale \ InTable(kernel)
  BY DEF Watch, Named
<1>2. /\ now \in 0 .. MaxTime /\ now \in -1 .. MaxTime /\ now # -1
      /\ -1 \in -1 .. MaxTime
  BY DEF Types, MrAssumption
<1>3. InTable(entries2)' = InTable(kernel)
  BY <1>1 DEF InTable
<1>4. CASE InTable(entries2) # {}
  <2>1. PICK garbage : lines' = Lines(garbage)
    BY <1>4 DEF Watch
  <2>2. /\ Named({"new", "changed"}) = Fresh \cup Changed
        /\ Named({"removed"}) = Gone
    BY <2>1, LinesName
  <2>3. Named({"changed"}) \subseteq Named({"new", "changed"})
    BY DEF Named
  <2>4. mrc' = [e \in Entries |-> Cached(e)]
    BY <1>4 DEF Watch
  <2>5. Fresh \cup Changed \subseteq InTable(kernel) /\ Gone \cap InTable(kernel) = {}
    BY DEF Fresh, Changed, Gone
  <2>6. /\ since' \in [Entries -> -1 .. MaxTime]
        /\ mrc' \in [Entries -> Nodes \cup {NoNode}]
    <3>1. \A e \in Entries : Cached(e) \in Nodes \cup {NoNode}
      BY CachedOK
    <3>2. mrc' \in [Entries -> Nodes \cup {NoNode}]
      BY <2>4, <3>1
    <3>3. \A e \in Entries : since[e] \in -1 .. MaxTime
      BY DEF Types
    <3>4. \A e \in Entries : since'[e] \in -1 .. MaxTime
      BY <1>1, <1>2, <3>3
    <3>5. since' \in [Entries -> -1 .. MaxTime]
      BY <1>1, <3>4
    <3> QED  BY <3>2, <3>5
  <2>7. Types'
    BY <1>1, <2>6 DEF Types
  <2>8. CacheFollowsTable'
    <3> SUFFICES ASSUME NEW e \in Entries, mrc'[e] # NoNode
                 PROVE  mrc'[e].iif = entries2'[e]
      BY DEF CacheFollowsTable
    <3>1. mrc'[e] = Cached(e)
      BY <2>4
    <3> QED  BY <1>1, <3>1, CachedOK
  <2>9. SinceOK'
    <3> SUFFICES ASSUME NEW e \in Entries, since'[e] # -1
                 PROVE  mrc'[e] # NoNode /\ mrc'[e].millis = since'[e]
      BY DEF SinceOK
    <3>1. mrc'[e] = Cached(e)
      BY <2>4
    <3>2. CASE e \in Fresh \cup Changed
      <4>1. since'[e] = now
        BY <1>1, <2>2, <3>2
      <4> QED  BY <3>1, <3>2, <4>1, CachedOK
    <3>3. CASE e \notin Fresh \cup Changed
      <4>1. e \notin Gone /\ since'[e] = since[e]
        BY <1>1, <2>2, <3>3
      <4>2. Cached(e) = mrc[e]
        BY <3>3, <4>1, CachedOK
      <4> QED  BY <3>1, <4>1, <4>2 DEF SinceOK
    <3> QED  BY <3>2, <3>3
  <2>10. LogShowsTable'
    <3>1. shadow' \subseteq InTable(kernel) \cup stale'
      <4>1. \A x \in InTable(entries2) : x \in InTable(kernel) \/ x \in Gone
        BY DEF Gone
      <4> QED  BY <1>1, <2>2, <2>5, <4>1 DEF LogShowsTable
    <3>2. InTable(kernel) \ shadow' \subseteq silent'
      <4>1. \A x \in InTable(kernel) : x \in InTable(entries2) \/ x \in Fresh
        BY DEF Fresh
      <4>2. silent' = (silent \cap InTable(kernel)) \ Named({"changed"})
        BY <1>1, <1>4
      <4> QED  BY <1>1, <2>2, <2>3, <2>5, <4>1, <4>2 DEF LogShowsTable
    <3> QED  BY <1>3, <3>1, <3>2 DEF LogShowsTable
  <2> QED  BY <2>7, <2>8, <2>9, <2>10
<1>5. CASE InTable(entries2) = {}
  <2>1. lines' = {} /\ mrc' = mrc
    BY <1>5 DEF Watch
  <2>2. \A kinds : Named(kinds) = {}
    BY <2>1 DEF Named
  <2>3. since' = since
    <3>1. \A e \in Entries : since'[e] = since[e]
      BY <1>1, <2>2
    <3> QED  BY <1>1, <3>1 DEF Types
  <2>4. shadow' = shadow /\ silent' = InTable(kernel)
    BY <1>1, <1>5, <2>2
  <2>5. Types' /\ SinceOK'
    BY <1>1, <2>1, <2>3 DEF Types, SinceOK
  <2>6. \A e \in Entries : mrc[e] = NoNode
    <3> SUFFICES ASSUME NEW e \in Entries, mrc[e] # NoNode PROVE FALSE
      OBVIOUS
    <3>1. mrc[e].iif = Absent
      BY <1>5 DEF InTable, CacheFollowsTable
    <3>2. mrc[e].iif \in Iifs
      BY DEF Types, Nodes
    <3> QED  BY <3>1, <3>2 DEF AbsentAssumption
  <2>7. CacheFollowsTable'
    BY <2>1, <2>6 DEF CacheFollowsTable
  <2>8. LogShowsTable'
    BY <1>1, <1>3, <1>5, <2>4 DEF LogShowsTable
  <2> QED  BY <2>5, <2>7, <2>8
<1> QED  BY <1>4, <1>5

THEOREM StepInv ==
  ASSUME MrAssumption, AbsentAssumption, IInv, [Next]_vars PROVE IInv'
<1> SUFFICES ASSUME Next \/ UNCHANGED vars PROVE IInv'
  OBVIOUS
<1> USE DEF IInv
<1>1. CASE Kernel
  <2>1. PICK e \in Entries, iif \in Iifs \cup {Absent} :
          kernel' = [kernel EXCEPT ![e] = iif]
    BY <1>1 DEF Kernel
  <2>2. kernel' \in Tables
    BY <2>1 DEF Types, Tables
  <2> QED  BY <1>1, <2>2 DEF Kernel, history, Types, CacheFollowsTable, LogShowsTable,
                             SinceOK, InTable
<1>2. CASE Sleep
  <2>1. now' \in 0 .. MaxTime
    BY <1>2 DEF Sleep, Types, MrAssumption
  <2> QED  BY <1>2, <2>1 DEF Sleep, history, Types, CacheFollowsTable, LogShowsTable,
                             SinceOK, InTable
<1>3. CASE Watch
  BY <1>3, WatchKeeps
<1>4. CASE Overflow
  BY <1>4 DEF Overflow, history, Types, CacheFollowsTable, LogShowsTable, SinceOK, InTable
<1>5. CASE UNCHANGED vars
  BY <1>5 DEF vars, history, Types, CacheFollowsTable, LogShowsTable, SinceOK, InTable
<1> QED  BY <1>1, <1>2, <1>3, <1>4, <1>5 DEF Next

LEMMA Invariant == Spec => []IInv
<1> QED  BY InitInv, StepInv, MrAssumption, AbsentAssumption, PTL DEF Spec

(* "existing entry found during add" (main.c:314) is never printed,        *)
(* whatever the routes do.                                                 *)
THEOREM CacheAlwaysFollows == Spec => []CacheFollowsTable
<1>1. IInv => CacheFollowsTable
  BY DEF IInv
<1> QED  BY <1>1, Invariant, PTL

(* The log shows what is in the table and nothing else, but for what       *)
(* getDeltas was not called for (main.c:431).                              *)
THEOREM LogAlwaysShows == Spec => []LogShowsTable
<1>1. IInv => LogShowsTable
  BY DEF IInv
<1> QED  BY <1>1, Invariant, PTL

LEMMA ElapsedOfStep ==
  ASSUME IInv, [Next]_vars
  PROVE  [\A l \in lines' : l.kind # "new" /\ since[l.entry] # -1
                             => l.elapsed = now - since[l.entry]]_<<lines, since>>
<1> SUFFICES ASSUME Next, ~UNCHANGED <<lines, since>>,
                    NEW l \in lines', l.kind # "new", since[l.entry] # -1
             PROVE  l.elapsed = now - since[l.entry]
  BY DEF vars, history
<1>1. Watch /\ lines' # {}
  BY DEF Next, Kernel, Sleep, Overflow, history
<1>2. PICK garbage : lines' = Lines(garbage)
  BY <1>1 DEF Watch
<1>3. l.entry \in Entries /\ (mrc[l.entry] # NoNode => l.elapsed = Elapsed(l.entry))
  BY <1>2 DEF Lines, Fresh, Changed, Gone, InTable
<1>4. mrc[l.entry] # NoNode /\ mrc[l.entry].millis = since[l.entry]
  BY <1>3 DEF IInv, SinceOK
<1> QED  BY <1>3, <1>4 DEF Elapsed

(* A time in the log is that of the entry beside it (main.c:340, 375).     *)
THEOREM ElapsedAlwaysOwn == Spec => ElapsedIsOwn
<1> QED  BY ElapsedOfStep, Invariant, PTL DEF Spec, ElapsedIsOwn
=============================================================================
