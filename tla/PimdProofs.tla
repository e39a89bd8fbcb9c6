----------------------------- MODULE PimdProofs -----------------------------
(***************************************************************************)
(* What holds of the two parts of pimd_netlink that are modelled.          *)
(*                                                                         *)
(* PimHello, the DR election, for any routers and priorities: beyond the   *)
(* types, the invariant IInv says where the absence of the option can come *)
(* from: an entry without it, a hello on the wire that will make one, and  *)
(* a pimd that is stale, are only there when such a hello was sent.        *)
(*                                                                         *)
(* IgmpGroups, the groups of an interface, for any groups, times and       *)
(* neighbours, and for a queue of timers of any length.  The queue is read *)
(* as the set Sched(Q) of its nodes, each with the time until it is due,   *)
(* of which the operators of Callout insert one, take one out, or take     *)
(* those that are due.  What is said of a queue of any length is shown by  *)
(* the least number for which it fails (UpTo).  The invariant IgmpInv says *)
(* which timers a group has and under which names, that the query of a     *)
(* leave comes before the end it announces, and that a group which is gone *)
(* has no timer left but the one that became due with its end.             *)
(***************************************************************************)
EXTENDS PimHello, IgmpGroups, FiniteSetTheorems, SequenceTheorems, WellFoundedInduction, TLAPS

-----------------------------------------------------------------------------
(* The designated router *)

Configured == \A p \in Pimds : prio[p] # NoPrio

Unmixed ==
  ~mixed =>
    /\ \A r \in Routers : wire[r] # {} => prio[r] # NoPrio
    /\ \A p \in Pimds : UsePrio(nbrs[p]) /\ ~stale[p]

TInv == TypeOK /\ Configured /\ Unmixed
IInv == TInv /\ RoleUpToDate /\ RegisterOnlyAsDR
-----------------------------------------------------------------------------
LEMMA OptionOK ==
  ASSUME HelloAssumption, TypeOK, NEW r \in Routers
  PROVE  /\ Option(r) \in Entries
         /\ Option(r) # Unknown
         /\ Option(r).present <=> prio[r] # NoPrio
         /\ prio[r] # NoPrio => Option(r).prio = prio[r]
<1>1. prio[r] \in Prios \cup {NoPrio} /\ genid[r] \in GenIDs
  BY DEF TypeOK
<1>2. Option(r).prio \in Prios \cup {0}
  BY <1>1 DEF Option
<1>3. Option(r) \in Entries
  BY <1>1, <1>2 DEF Option, Entries
<1>4. Option(r).prio # -1
  BY <1>2 DEF HelloAssumption
<1>5. Option(r) # Unknown
  BY <1>4 DEF Unknown
<1> QED  BY <1>3, <1>5 DEF Option

(* A table after a hello is a table. *)
LEMMA TableType ==
  ASSUME HelloAssumption, TypeOK, NEW p \in Pimds, NEW r \in Routers \ {p},
         NEW e \in Entries \cup {Unknown}
  PROVE  LET table == [nbrs[p] EXCEPT ![r] = e] IN
         /\ table \in [Routers -> Entries \cup {Unknown}]
         /\ table[p] = Unknown
         /\ table[r] = e
         /\ \A s \in Routers \ {r} : table[s] = nbrs[p][s]
<1>1. nbrs[p] \in [Routers -> Entries \cup {Unknown}] /\ nbrs[p][p] = Unknown
  BY DEF TypeOK
<1>2. p \in Routers
  BY DEF Routers
<1> QED  BY <1>1, <1>2

(* Who wins among routers with priorities wins without one of them. *)
LEMMA ElectedWithout ==
  ASSUME NEW p \in Pimds, NEW r \in Routers, NEW table, NEW without,
         DOMAIN table = Routers, DOMAIN without = Routers,
         without[r] = Unknown,
         \A s \in Routers \ {r} : without[s] = table[s],
         UsePrio(table), Elected(p, table)
  PROVE  Elected(p, without)
<1>1. Known(without) \subseteq Known(table)
  BY DEF Known
<1>2. \A s \in Known(without) : without[s] = table[s]
  BY DEF Known
<1> QED  BY <1>1, <1>2 DEF Elected, UsePrio

-----------------------------------------------------------------------------
(* What every change of a pimd's table preserves: a table of the right     *)
(* type, elected from at once, by a router that stays what it is.          *)
LEMMA HearKeeps ==
  ASSUME HelloAssumption, IInv, NEW p \in Pimds, NEW r \in Routers \ {p},
         NEW e \in Entries \cup {Unknown},
         ~mixed => (e # Unknown => e.present),
         Hear(p, [nbrs[p] EXCEPT ![r] = e]),
         UNCHANGED router
  PROVE  /\ nbrs' \in [Pimds -> [Routers -> Entries \cup {Unknown}]]
         /\ \A q \in Pimds : nbrs'[q][q] = Unknown
         /\ isDR' \in [Pimds -> BOOLEAN] /\ stale' \in [Pimds -> BOOLEAN]
         /\ ~mixed => \A q \in Pimds : UsePrio(nbrs'[q]) /\ ~stale'[q]
         /\ RoleUpToDate'
<1> DEFINE table == [nbrs[p] EXCEPT ![r] = e]
<1>1. /\ table \in [Routers -> Entries \cup {Unknown}]
      /\ table[p] = Unknown /\ table[r] = e
      /\ \A s \in Routers \ {r} : table[s] = nbrs[p][s]
  BY TableType DEF IInv, TInv
<1>2. nbrs' = [nbrs EXCEPT ![p] = table] /\ isDR' = [isDR EXCEPT ![p] = Elected(p, table)]
  BY DEF Hear
<1>3. nbrs \in [Pimds -> [Routers -> Entries \cup {Unknown}]] /\ isDR \in [Pimds -> BOOLEAN]
  BY DEF IInv, TInv, TypeOK
<1>4. nbrs'[p] = table /\ \A q \in Pimds \ {p} : nbrs'[q] = nbrs[q]
  BY <1>2, <1>3
<1>5. nbrs' \in [Pimds -> [Routers -> Entries \cup {Unknown}]]
  <2> HIDE DEF table
  <2> QED  BY <1>1, <1>2, <1>3
<1>6. \A q \in Pimds : nbrs'[q][q] = Unknown
  BY <1>1, <1>4 DEF IInv, TInv, TypeOK
<1>7. isDR' \in [Pimds -> BOOLEAN]
  <2>1. Elected(p, table) \in BOOLEAN
    BY DEF Elected
  <2> QED  BY <2>1, <1>2, <1>3
<1>8. /\ stale' \in [Pimds -> BOOLEAN]
      /\ \A q \in Pimds : q # p => stale'[q] = stale[q]
      /\ ~mixed => \A q \in Pimds : ~stale'[q]
  <2>1. stale \in [Pimds -> BOOLEAN] /\ stale' = [stale EXCEPT ![p] = FALSE]
    BY DEF Hear, IInv, TInv, TypeOK
  <2> QED  BY <2>1 DEF IInv, TInv, Unmixed
<1>9. ~mixed => \A q \in Pimds : UsePrio(nbrs'[q]) /\ ~stale'[q]
  <2> SUFFICES ASSUME ~mixed, NEW q \in Pimds, NEW s \in Known(nbrs'[q])
               PROVE  nbrs'[q][s].present
    BY <1>8 DEF UsePrio
  <2>0. s \in Routers /\ nbrs'[q][s] # Unknown
    BY DEF Known
  <2>1. CASE q = p /\ s = r
    BY <2>0, <2>1, <1>1, <1>4
  <2>2. CASE ~(q = p /\ s = r)
    <3>1. nbrs'[q][s] = nbrs[q][s]
      BY <2>0, <2>2, <1>1, <1>4
    <3> QED  BY <2>0, <3>1 DEF IInv, TInv, Unmixed, UsePrio, Known
  <2> QED  BY <2>1, <2>2
<1>10. RoleUpToDate'
  <2> SUFFICES ASSUME NEW q \in Pimds, up'[q], ~stale'[q]
               PROVE  isDR'[q] <=> Elected(q, nbrs[q])'
    BY DEF RoleUpToDate
  <2>1. up' = up /\ prio' = prio
    BY DEF router
  <2>2. Elected(q, nbrs[q])' <=> Elected(q, nbrs'[q])
    BY <2>1 DEF Elected, UsePrio, Known
  <2>3. CASE q = p
    <3>1. isDR'[p] = Elected(p, table)
      BY <1>2, <1>3
    <3> HIDE DEF table
    <3> QED  BY <2>2, <2>3, <3>1, <1>4
  <2>4. CASE q # p
    <3>1. isDR'[q] = isDR[q] /\ nbrs'[q] = nbrs[q]
      BY <2>4, <1>2, <1>3, <1>4
    <3>2. up[q] /\ ~stale[q]
      BY <1>8, <2>1, <2>4
    <3> QED  BY <2>2, <3>1, <3>2 DEF IInv, RoleUpToDate
  <2> QED  BY <2>3, <2>4
<1> QED  BY <1>5, <1>6, <1>7, <1>8, <1>9, <1>10

(* Deleting a neighbour never costs the register interface its right to    *)
(* be there.                                                               *)
LEMMA DeleteKeeps ==
  ASSUME HelloAssumption, IInv, NEW p \in Pimds, NEW r \in Routers \ {p}, up[p],
         DeleteNbr(p, r), UNCHANGED <<router, mixed>>
  PROVE  RegisterOnlyAsDR'
<1> SUFFICES ASSUME ~mixed, NEW q \in Pimds, register[q]
             PROVE  isDR'[q]
  BY DEF RegisterOnlyAsDR, DeleteNbr
<1>1. isDR[q]
  BY DEF IInv, RegisterOnlyAsDR
<1> DEFINE table == [nbrs[p] EXCEPT ![r] = Unknown]
<1>2. isDR' = [isDR EXCEPT ![p] = Elected(p, table)] /\ isDR \in [Pimds -> BOOLEAN]
  BY DEF DeleteNbr, Hear, IInv, TInv, TypeOK
<1>3. CASE q = p
  <2>1. UsePrio(nbrs[p]) /\ ~stale[p]
    BY DEF IInv, TInv, Unmixed
  <2>4. Elected(p, nbrs[p])
    BY <1>1, <1>3, <2>1 DEF IInv, RoleUpToDate
  <2>2. /\ DOMAIN table = Routers /\ DOMAIN nbrs[p] = Routers
        /\ table[r] = Unknown
        /\ \A s \in Routers \ {r} : table[s] = nbrs[p][s]
    BY TableType DEF IInv, TInv, TypeOK
  <2> HIDE DEF table
  <2>3. Elected(p, table)
    BY <2>1, <2>2, <2>4, ElectedWithout
  <2> QED  BY <1>2, <1>3, <2>3
<1>4. CASE q # p
  BY <1>1, <1>2, <1>4
<1> QED  BY <1>3, <1>4

(* Who loses the role in HearAndCleanUp has no register interface left.    *)
LEMMA CleanUpKeeps ==
  ASSUME IInv, NEW p \in Pimds, NEW table, HearAndCleanUp(p, table),
         UNCHANGED mixed
  PROVE  RegisterOnlyAsDR' /\ register' \in [Pimds -> BOOLEAN]
<1>1. /\ isDR' = [isDR EXCEPT ![p] = Elected(p, table)]
      /\ register' = [register EXCEPT ![p] = @ /\ ~(isDR[p] /\ ~isDR'[p])]
      /\ isDR \in [Pimds -> BOOLEAN] /\ register \in [Pimds -> BOOLEAN]
  BY DEF HearAndCleanUp, Hear, IInv, TInv, TypeOK
<1>2. register' \in [Pimds -> BOOLEAN]
  BY <1>1
<1>3. ASSUME ~mixed, NEW q \in Pimds, register'[q] PROVE isDR'[q]
  <2>1. register[q] /\ isDR[q]
    BY <1>1, <1>3 DEF IInv, RegisterOnlyAsDR
  <2>2. CASE q = p
    BY <1>1, <1>3, <2>1, <2>2
  <2>3. CASE q # p
    BY <1>1, <2>1, <2>3
  <2> QED  BY <2>2, <2>3
<1> QED  BY <1>2, <1>3 DEF RegisterOnlyAsDR

-----------------------------------------------------------------------------
(* No interface is up, nobody knows a neighbour.                           *)
LEMMA InitInv == ASSUME HelloAssumption, Init PROVE IInv
<1>1. TypeOK
  <2>1. /\ NoNbrs \in [Routers -> Entries \cup {Unknown}]
        /\ \A p \in Pimds : NoNbrs[p] = Unknown
    BY DEF NoNbrs, Routers
  <2>2. nbrs \in [Pimds -> [Routers -> Entries \cup {Unknown}]]
    BY <2>1 DEF Init
  <2>3. \A p \in Pimds : nbrs[p][p] = Unknown
    BY <2>1 DEF Init
  <2>4. wire \in [Routers -> SUBSET Pimds] /\ \A p \in Pimds : p \notin wire[p]
    BY DEF Init, Routers
  <2>5. stale \in [Pimds -> BOOLEAN] /\ isDR \in [Pimds -> BOOLEAN]
        /\ register \in [Pimds -> BOOLEAN] /\ mixed \in BOOLEAN
    BY DEF Init
  <2>6. prio \in [Routers -> Prios \cup {NoPrio}] /\ genid \in [Routers -> GenIDs]
        /\ up \in [Routers -> BOOLEAN]
    BY DEF Init, GenIDs
  <2> QED  BY <2>2, <2>3, <2>4, <2>5, <2>6 DEF TypeOK
<1>2. Unmixed
  BY DEF Init, Unmixed, NoNbrs, UsePrio, Known, Routers
<1>3. Configured
  <2>1. \A p \in Pimds : prio[p] \in Prios
    BY DEF Init, OwnPrios
  <2>2. NoPrio \notin Prios
    BY DEF HelloAssumption, NoPrio
  <2> QED  BY <2>1, <2>2 DEF Configured
<1>4. RoleUpToDate /\ RegisterOnlyAsDR
  BY DEF Init, RoleUpToDate, RegisterOnlyAsDR, Routers
<1> QED  BY <1>1, <1>2, <1>3, <1>4 DEF IInv, TInv

(* Nobody's role or table changes. *)
LEMMA QuietKeeps ==
  ASSUME IInv, UNCHANGED <<up, nbrs, isDR, stale>>,
         \A p \in Pimds : prio'[p] = prio[p]
  PROVE  Configured' /\ RoleUpToDate'
<1>1. ASSUME NEW p \in Pimds PROVE Elected(p, nbrs[p])' <=> Elected(p, nbrs[p])
  <2>1. nbrs' = nbrs /\ prio'[p] = prio[p]
    OBVIOUS
  <2>2. UsePrio(nbrs[p])' <=> UsePrio(nbrs[p])
    BY <2>1 DEF UsePrio, Known
  <2>3. Known(nbrs[p])' = Known(nbrs[p])
    BY <2>1 DEF Known
  <2> QED  BY <2>1, <2>2, <2>3 DEF Elected
<1> QED  BY <1>1 DEF IInv, TInv, Configured, RoleUpToDate

(* receive_pim_hello(): the three cases of the code, the last with and     *)
(* without an election.                                                    *)
LEMMA ReceiveKeeps ==
  ASSUME HelloAssumption, IInv, NEW r \in Routers, NEW p \in Pimds, Receive(r, p)
  PROVE  IInv'
<1>1. /\ p \in wire[r] /\ up[p] /\ UNCHANGED router /\ UNCHANGED mixed
      /\ up' = up /\ prio' = prio /\ genid' = genid
  BY DEF Receive, router
<1>2. r # p /\ r \in Routers \ {p} /\ p \in Routers
  BY <1>1 DEF IInv, TInv, TypeOK, Routers
<1>3. /\ Option(r) \in Entries /\ Option(r) # Unknown
      /\ Option(r).present <=> prio[r] # NoPrio
  BY OptionOK DEF IInv, TInv
<1>4. ~mixed => Option(r).present
  BY <1>1, <1>3 DEF IInv, TInv, Unmixed
<1>5. \/ wire' = [[wire EXCEPT ![r] = @ \ {p}] EXCEPT ![p] = Everybody(p)]
      \/ wire' = [wire EXCEPT ![r] = @ \ {p}]
  BY DEF Receive
<1>6. wire' \in [Routers -> SUBSET Pimds] /\ \A q \in Pimds : q \notin wire'[q]
  <2>1. \A s \in Routers : \/ wire'[s] \subseteq wire[s]
                           \/ s = p /\ wire'[s] = Everybody(p)
    BY <1>2, <1>5 DEF IInv, TInv, TypeOK
  <2>2. wire' \in [Routers -> SUBSET Pimds]
    BY <1>2, <1>5 DEF IInv, TInv, TypeOK, Everybody
  <2> QED  BY <2>1, <2>2 DEF IInv, TInv, TypeOK, Everybody, Routers
<1>7. ~mixed => \A s \in Routers : wire'[s] # {} => prio[s] # NoPrio
  <2> SUFFICES ASSUME ~mixed, NEW s \in Routers, wire'[s] # {}
               PROVE  prio[s] # NoPrio
    OBVIOUS
  <2>1. CASE s = p
    BY <2>1 DEF IInv, TInv, Configured
  <2>2. CASE s # p
    <3>1. wire'[s] \subseteq wire[s]
      BY <1>2, <1>5, <2>2 DEF IInv, TInv, TypeOK
    <3> QED  BY <3>1 DEF IInv, TInv, Unmixed
  <2> QED  BY <2>1, <2>2
<1>8. CASE HearAndCleanUp(p, [nbrs[p] EXCEPT ![r] = Option(r)])
  <2>1. Hear(p, [nbrs[p] EXCEPT ![r] = Option(r)])
    BY <1>8 DEF HearAndCleanUp
  <2>2. /\ nbrs' \in [Pimds -> [Routers -> Entries \cup {Unknown}]]
        /\ \A q \in Pimds : nbrs'[q][q] = Unknown
        /\ isDR' \in [Pimds -> BOOLEAN]
        /\ stale' \in [Pimds -> BOOLEAN] /\ RoleUpToDate'
        /\ ~mixed => \A q \in Pimds : UsePrio(nbrs'[q]) /\ ~stale'[q]
    BY <2>1, <1>1, <1>2, <1>3, <1>4, HearKeeps
  <2>3. RegisterOnlyAsDR' /\ register' \in [Pimds -> BOOLEAN]
    BY <1>1, <1>8, CleanUpKeeps
  <2> QED
    BY <1>1, <1>6, <1>7, <2>2, <2>3
    DEF IInv, TInv, TypeOK, Configured, Unmixed, UsePrio, Known
<1>9. CASE DeleteNbr(p, r)
  <2>1. Hear(p, [nbrs[p] EXCEPT ![r] = Unknown]) /\ UNCHANGED register
    BY <1>9 DEF DeleteNbr
  <2>2. /\ nbrs' \in [Pimds -> [Routers -> Entries \cup {Unknown}]]
        /\ \A q \in Pimds : nbrs'[q][q] = Unknown
        /\ isDR' \in [Pimds -> BOOLEAN]
        /\ stale' \in [Pimds -> BOOLEAN] /\ RoleUpToDate'
        /\ ~mixed => \A q \in Pimds : UsePrio(nbrs'[q]) /\ ~stale'[q]
    BY <2>1, <1>1, <1>2, HearKeeps
  <2>3. RegisterOnlyAsDR'
    BY <1>1, <1>2, <1>9, DeleteKeeps
  <2> QED
    BY <1>1, <1>6, <1>7, <2>1, <2>2, <2>3
    DEF IInv, TInv, TypeOK, Configured, Unmixed, UsePrio, Known
<1>10. ASSUME /\ nbrs[p][r] # Unknown /\ ~MustElect(p, r)
              /\ nbrs' = [nbrs EXCEPT ![p] = [nbrs[p] EXCEPT ![r] = Option(r)]]
              /\ stale' = [stale EXCEPT ![p] =
                             @ \/ nbrs[p][r].present # Option(r).present]
              /\ UNCHANGED <<isDR, register>>
       PROVE  IInv'
  <2>1. nbrs[p][r] \in Entries /\ stale \in [Pimds -> BOOLEAN]
    BY <1>2, <1>10 DEF IInv, TInv, TypeOK
  <2>2. CASE nbrs[p][r].present = Option(r).present
    \* the entry is the one it replaces
    <3>1. nbrs[p][r].prio = Option(r).prio /\ nbrs[p][r].genid = Option(r).genid
      BY <1>10 DEF MustElect
    <3>2. nbrs[p][r] = Option(r)
      BY <1>3, <2>1, <2>2, <3>1 DEF Entries
    <3>3. nbrs' = nbrs
      BY <1>2, <1>10, <3>2 DEF IInv, TInv, TypeOK
    <3>4. stale' = stale
      BY <1>10, <2>1, <2>2
    <3>5. Configured' /\ RoleUpToDate'
      BY <1>1, <1>10, <3>3, <3>4, QuietKeeps
    <3> QED
      BY <1>1, <1>6, <1>7, <1>10, <3>3, <3>4, <3>5
      DEF IInv, TInv, TypeOK, Unmixed, UsePrio, Known, RegisterOnlyAsDR
  <2>3. CASE nbrs[p][r].present # Option(r).present
    \* the one change that is missed: p is stale, and nothing is unmixed
    <3>1. stale' = [stale EXCEPT ![p] = TRUE] /\ stale'[p]
      BY <1>10, <2>1, <2>3
    <3>2. mixed /\ mixed'
      <4>1. ~nbrs[p][r].present \/ ~Option(r).present
        BY <1>3, <2>1, <2>3 DEF Entries
      <4>2. ~mixed => nbrs[p][r].present
        BY <1>10 DEF IInv, TInv, Unmixed, UsePrio, Known
      <4> QED  BY <1>1, <1>4, <4>1, <4>2
    <3>3. nbrs' \in [Pimds -> [Routers -> Entries \cup {Unknown}]]
          /\ \A q \in Pimds : nbrs'[q][q] = Unknown
      <4> DEFINE table == [nbrs[p] EXCEPT ![r] = Option(r)]
      <4>1. table \in [Routers -> Entries \cup {Unknown}] /\ table[p] = Unknown
        BY <1>2, <1>3, TableType DEF IInv, TInv
      <4>2. nbrs' = [nbrs EXCEPT ![p] = table]
        BY <1>10
      <4> HIDE DEF table
      <4> QED  BY <4>1, <4>2 DEF IInv, TInv, TypeOK
    <3>4. RoleUpToDate'
      <4> SUFFICES ASSUME NEW q \in Pimds, up'[q], ~stale'[q]
                   PROVE  isDR'[q] <=> Elected(q, nbrs[q])'
        BY DEF RoleUpToDate
      <4>1. q # p
        BY <3>1
      <4>2. /\ up[q] /\ ~stale[q] /\ isDR'[q] = isDR[q] /\ nbrs'[q] = nbrs[q]
            /\ prio' = prio
        BY <1>1, <1>10, <2>1, <3>1, <4>1 DEF IInv, TInv, TypeOK
      <4>3. Known(nbrs[q])' = Known(nbrs[q])
        BY <4>2 DEF Known
      <4>4. Elected(q, nbrs[q])' <=> Elected(q, nbrs[q])
        BY <4>2, <4>3 DEF Elected, UsePrio
      <4> QED  BY <4>2, <4>4 DEF IInv, RoleUpToDate
    <3>5. TypeOK'
      BY <1>1, <1>6, <1>10, <2>1, <3>1, <3>3 DEF IInv, TInv, TypeOK
    <3> QED
      BY <1>1, <3>2, <3>4, <3>5 DEF IInv, TInv, Configured, Unmixed, RegisterOnlyAsDR
  <2> QED  BY <2>2, <2>3
<1> QED  BY <1>8, <1>9, <1>10 DEF Receive

-----------------------------------------------------------------------------
(* A neighbour whose holdtime has passed: DeleteKeeps without a hello.     *)
LEMMA TimeoutKeeps ==
  ASSUME HelloAssumption, IInv, NEW r \in Routers, NEW p \in Pimds, Timeout(p, r)
  PROVE  IInv'
<1>1. /\ up[p] /\ UNCHANGED router /\ UNCHANGED mixed
      /\ up' = up /\ prio' = prio /\ genid' = genid /\ wire' = wire
      /\ register' = register
  BY DEF Timeout, router, DeleteNbr
<1>2. r \in Routers \ {p}
  BY DEF Timeout, IInv, TInv, TypeOK
<1>3. DeleteNbr(p, r) /\ Hear(p, [nbrs[p] EXCEPT ![r] = Unknown])
  BY DEF Timeout, DeleteNbr
<1>4. /\ nbrs' \in [Pimds -> [Routers -> Entries \cup {Unknown}]]
      /\ \A q \in Pimds : nbrs'[q][q] = Unknown
      /\ isDR' \in [Pimds -> BOOLEAN]
      /\ stale' \in [Pimds -> BOOLEAN] /\ RoleUpToDate'
      /\ ~mixed => \A q \in Pimds : UsePrio(nbrs'[q]) /\ ~stale'[q]
  BY <1>1, <1>2, <1>3, HearKeeps
<1>5. RegisterOnlyAsDR'
  BY <1>1, <1>2, <1>3, DeleteKeeps
<1> QED
  BY <1>1, <1>4, <1>5 DEF IInv, TInv, TypeOK, Configured, Unmixed, UsePrio, Known

(* start_vif(): an empty table, and the role.                              *)
LEMMA StartKeeps ==
  ASSUME HelloAssumption, IInv, NEW r \in Routers, Start(r)
  PROVE  IInv'
<1> USE DEF IInv, TInv
<1>1. TypeOK'
  <2>1. /\ up' \in [Routers -> BOOLEAN] /\ genid' \in [Routers -> GenIDs]
        /\ isDR' \in [Pimds -> BOOLEAN] /\ mixed' \in BOOLEAN
        /\ stale' \in [Pimds -> BOOLEAN]
    BY DEF Start, TypeOK, GenIDs
  <2>2. /\ nbrs' \in [Pimds -> [Routers -> Entries \cup {Unknown}]]
        /\ \A p \in Pimds : nbrs'[p][p] = Unknown
    BY DEF Start, TypeOK, NoNbrs, Routers
  <2>3. wire' \in [Routers -> SUBSET Pimds] /\ \A p \in Pimds : p \notin wire'[p]
    BY DEF Start, TypeOK, Everybody, Routers
  <2> QED  BY <2>1, <2>2, <2>3 DEF Start, TypeOK
<1>2. \A p \in Pimds : p # r => stale'[p] = stale[p]
  BY DEF Start, TypeOK
<1>3. Configured'
  BY DEF Start, Configured
<1>4. Unmixed'
  <2> SUFFICES ASSUME ~mixed'
               PROVE  /\ \A s \in Routers : wire'[s] # {} => prio[s] # NoPrio
                      /\ \A p \in Pimds : UsePrio(nbrs'[p]) /\ ~stale'[p]
    BY DEF Unmixed, Start, UsePrio, Known
  <2>1. ~mixed /\ prio[r] # NoPrio
    BY DEF Start
  <2>2. ASSUME NEW s \in Routers, wire'[s] # {} PROVE prio[s] # NoPrio
    BY <2>1, <2>2 DEF Start, Unmixed, TypeOK
  <2>3. ASSUME NEW p \in Pimds PROVE UsePrio(nbrs'[p]) /\ ~stale'[p]
    <3>0. ~stale'[p]
      BY <2>1 DEF Start, Unmixed
    <3>1. nbrs'[p] = NoNbrs \/ nbrs'[p] = nbrs[p]
      BY DEF Start
    <3>2. UsePrio(NoNbrs)
      BY DEF UsePrio, Known, NoNbrs
    <3> QED  BY <2>1, <3>0, <3>1, <3>2 DEF Unmixed
  <2> QED  BY <2>2, <2>3
<1>5. RoleUpToDate'
  <2> SUFFICES ASSUME NEW p \in Pimds, up'[p], ~stale'[p]
               PROVE  isDR'[p] <=> Elected(p, nbrs[p])'
    BY DEF RoleUpToDate
  <2>1. CASE p = r
    <3>1. nbrs'[p] = NoNbrs /\ isDR'[p]
      BY <2>1 DEF Start
    <3>2. Known(nbrs[p])' = {}
      BY <3>1 DEF Known, NoNbrs
    <3> QED  BY <3>1, <3>2 DEF Elected, UsePrio
  <2>2. CASE p # r
    <3>1. /\ nbrs'[p] = nbrs[p] /\ isDR'[p] = isDR[p] /\ prio' = prio /\ up[p]
          /\ ~stale[p]
      BY <1>2, <2>2 DEF Start, TypeOK, Routers
    <3>2. Known(nbrs[p])' = Known(nbrs[p])
      BY <3>1 DEF Known
    <3>3. Elected(p, nbrs[p])' <=> Elected(p, nbrs[p])
      BY <3>1, <3>2 DEF Elected, UsePrio
    <3> QED  BY <3>1, <3>3 DEF RoleUpToDate
  <2> QED  BY <2>1, <2>2
<1>6. RegisterOnlyAsDR'
  BY DEF Start, RegisterOnlyAsDR, TypeOK
<1> QED  BY <1>1, <1>3, <1>4, <1>5, <1>6

(* stop_vif(): what the last election does to an interface that is down    *)
(* is of no account.                                                       *)
LEMMA StopKeeps ==
  ASSUME HelloAssumption, IInv, NEW r \in Pimds, Stop(r)
  PROVE  IInv'
<1> USE DEF IInv, TInv
<1>0. r \in Routers /\ NoNbrs \in [Routers -> Entries \cup {Unknown}] /\ NoNbrs[r] = Unknown
  BY DEF Routers, NoNbrs
<1>1. TypeOK'
  <2>1. up' \in [Routers -> BOOLEAN] /\ register' \in [Pimds -> BOOLEAN]
    BY DEF Stop, TypeOK
  <2>2. isDR' \in [Pimds -> BOOLEAN] /\ stale' \in [Pimds -> BOOLEAN]
    BY DEF Stop, TypeOK
  <2>3. /\ nbrs' \in [Pimds -> [Routers -> Entries \cup {Unknown}]]
        /\ \A p \in Pimds : nbrs'[p][p] = Unknown
    BY <1>0 DEF Stop, TypeOK
  <2> QED  BY <2>1, <2>2, <2>3 DEF Stop, TypeOK
<1>2. \A p \in Pimds : nbrs'[p] = NoNbrs \/ (p # r /\ nbrs'[p] = nbrs[p])
  BY DEF Stop, TypeOK
<1>3. \A p \in Pimds : ~stale'[p] \/ (p # r /\ stale'[p] = stale[p])
  BY DEF Stop, TypeOK
<1>4. Configured'
  BY DEF Stop, Configured
<1>5. Unmixed'
  <2>1. UsePrio(NoNbrs)
    BY DEF UsePrio, Known, NoNbrs
  <2>2. ~mixed => \A p \in Pimds : UsePrio(nbrs'[p]) /\ ~stale'[p]
    BY <1>2, <1>3, <2>1 DEF Unmixed
  <2> QED  BY <2>2 DEF Stop, Unmixed, UsePrio, Known
<1>6. RoleUpToDate'
  <2> SUFFICES ASSUME NEW p \in Pimds, up'[p], ~stale'[p]
               PROVE  isDR'[p] <=> Elected(p, nbrs[p])'
    BY DEF RoleUpToDate
  <2>1. /\ p # r /\ nbrs'[p] = nbrs[p] /\ isDR'[p] = isDR[p] /\ prio' = prio /\ up[p]
        /\ ~stale[p]
    BY <1>0 DEF Stop, TypeOK, Routers
  <2>2. Known(nbrs[p])' = Known(nbrs[p])
    BY <2>1 DEF Known
  <2>3. Elected(p, nbrs[p])' <=> Elected(p, nbrs[p])
    BY <2>1, <2>2 DEF Elected, UsePrio
  <2> QED  BY <2>1, <2>3 DEF RoleUpToDate
<1>7. RegisterOnlyAsDR'
  BY DEF Stop, RegisterOnlyAsDR, TypeOK
<1> QED  BY <1>1, <1>4, <1>5, <1>6, <1>7

-----------------------------------------------------------------------------
(* The inductive invariant: the role follows every change of the table     *)
(* that receive_pim_hello(), delete_pim_nbr(), start_vif() and stop_vif()  *)
(* make, and no step leaves the register interface to who lost the role.   *)
THEOREM StepInv == ASSUME HelloAssumption, IInv, [Next]_vars PROVE IInv'
<1> SUFFICES ASSUME Next \/ UNCHANGED vars PROVE IInv'
  OBVIOUS
<1>1. ASSUME NEW r \in Routers, SendHello(r) PROVE IInv'
  <2>1. UNCHANGED <<up, nbrs, isDR, stale>> /\ prio' = prio /\ genid' = genid
        /\ register' = register
    BY <1>1 DEF SendHello, router
  <2>2. Configured' /\ RoleUpToDate'
    BY <2>1, QuietKeeps
  <2>3. TypeOK'
    BY <1>1, <2>1 DEF SendHello, IInv, TInv, TypeOK, Everybody, Routers
  <2>4. Unmixed'
    BY <1>1, <2>1 DEF SendHello, IInv, TInv, Unmixed, TypeOK, UsePrio, Known
  <2>5. RegisterOnlyAsDR'
    BY <1>1, <2>1 DEF SendHello, IInv, RegisterOnlyAsDR
  <2> QED  BY <2>2, <2>3, <2>4, <2>5 DEF IInv, TInv
<1>2. ASSUME NEW r \in Routers, NEW p \in Pimds, Lose(r, p) PROVE IInv'
  <2>1. UNCHANGED <<up, nbrs, isDR, stale>> /\ prio' = prio /\ genid' = genid
        /\ register' = register /\ mixed' = mixed
        /\ wire' = [wire EXCEPT ![r] = @ \ {p}]
    BY <1>2 DEF Lose, router
  <2>2. Configured' /\ RoleUpToDate'
    BY <2>1, QuietKeeps
  <2>3. TypeOK'
    BY <2>1 DEF IInv, TInv, TypeOK
  <2>4. Unmixed'
    BY <2>1 DEF IInv, TInv, Unmixed, TypeOK, UsePrio, Known
  <2>5. RegisterOnlyAsDR'
    BY <2>1 DEF IInv, RegisterOnlyAsDR
  <2> QED  BY <2>2, <2>3, <2>4, <2>5 DEF IInv, TInv
<1>3. ASSUME NEW p \in Pimds, CacheMiss(p) PROVE IInv'
  <2>1. UNCHANGED <<up, nbrs, isDR, stale>> /\ prio' = prio /\ genid' = genid
        /\ mixed' = mixed /\ wire' = wire
        /\ isDR[p] /\ register' = [register EXCEPT ![p] = TRUE]
    BY <1>3 DEF CacheMiss, router
  <2>2. Configured' /\ RoleUpToDate'
    BY <2>1, QuietKeeps
  <2>3. TypeOK'
    BY <2>1 DEF IInv, TInv, TypeOK
  <2>4. Unmixed'
    BY <2>1 DEF IInv, TInv, Unmixed, UsePrio, Known
  <2>5. RegisterOnlyAsDR'
    BY <2>1 DEF IInv, TInv, TypeOK, RegisterOnlyAsDR
  <2> QED  BY <2>2, <2>3, <2>4, <2>5 DEF IInv, TInv
<1>4. ASSUME NEW r \in Foreign, Leave(r) PROVE IInv'
  <2>0. r \in Routers /\ r \notin Pimds
    BY DEF HelloAssumption, Routers
  <2>1. /\ up' = [up EXCEPT ![r] = FALSE]
        /\ wire' = [wire EXCEPT ![r] = {}] \/ wire' = [wire EXCEPT ![r] = Everybody(r)]
        /\ mixed' = (mixed \/ prio[r] = NoPrio)
        /\ prio' = prio /\ genid' = genid /\ nbrs' = nbrs /\ isDR' = isDR
        /\ register' = register /\ stale' = stale
    BY <1>4 DEF Leave
  <2>2. Configured'
    BY <2>1 DEF IInv, TInv, Configured
  <2>3. TypeOK'
    BY <2>0, <2>1 DEF IInv, TInv, TypeOK, Everybody, Routers
  <2>4. Unmixed'
    BY <2>0, <2>1 DEF IInv, TInv, Unmixed, TypeOK, UsePrio, Known
  <2>5. RoleUpToDate'
    <3> SUFFICES ASSUME NEW p \in Pimds, up'[p], ~stale'[p]
                 PROVE  isDR'[p] <=> Elected(p, nbrs[p])'
      BY DEF RoleUpToDate
    <3>1. up[p] /\ ~stale[p]
      BY <2>0, <2>1 DEF IInv, TInv, TypeOK
    <3>2. Known(nbrs[p])' = Known(nbrs[p])
      BY <2>1 DEF Known
    <3>3. Elected(p, nbrs[p])' <=> Elected(p, nbrs[p])
      BY <2>1, <3>2 DEF Elected, UsePrio
    <3> QED  BY <2>1, <3>1, <3>3 DEF IInv, RoleUpToDate
  <2>6. RegisterOnlyAsDR'
    BY <2>1 DEF IInv, RegisterOnlyAsDR
  <2> QED  BY <2>2, <2>3, <2>4, <2>5, <2>6 DEF IInv, TInv
<1>5. ASSUME NEW r \in Foreign, Configure(r) PROVE IInv'
  <2>0. r \in Routers /\ r \notin Pimds
    BY DEF HelloAssumption, Routers
  <2>1. /\ UNCHANGED <<up, nbrs, isDR, stale>> /\ genid' = genid /\ register' = register
        /\ mixed' = mixed /\ wire' = [wire EXCEPT ![r] = {}]
    BY <1>5 DEF Configure
  <2>2. PICK n \in Prios \cup {NoPrio} : prio' = [prio EXCEPT ![r] = n]
    BY <1>5 DEF Configure
  <2>3. \A p \in Pimds : prio'[p] = prio[p]
    BY <2>0, <2>2 DEF IInv, TInv, TypeOK, Routers
  <2>4. Configured' /\ RoleUpToDate'
    BY <2>1, <2>3, QuietKeeps
  <2>5. TypeOK'
    BY <2>0, <2>1, <2>2 DEF IInv, TInv, TypeOK
  <2>6. Unmixed'
    <3>1. \A s \in Routers : wire'[s] # {} => s # r /\ wire[s] # {} /\ prio'[s] = prio[s]
      BY <2>0, <2>1, <2>2 DEF IInv, TInv, TypeOK
    <3> QED  BY <2>1, <3>1 DEF IInv, TInv, Unmixed, UsePrio, Known
  <2>7. RegisterOnlyAsDR'
    BY <2>1 DEF IInv, RegisterOnlyAsDR
  <2> QED  BY <2>4, <2>5, <2>6, <2>7 DEF IInv, TInv
<1>6. ASSUME UNCHANGED vars PROVE IInv'
  <2>1. /\ UNCHANGED <<up, nbrs, isDR, stale>> /\ prio' = prio /\ genid' = genid
        /\ register' = register /\ mixed' = mixed /\ wire' = wire
    BY <1>6 DEF vars, router
  <2>2. Configured' /\ RoleUpToDate'
    BY <2>1, QuietKeeps
  <2> QED
    BY <2>1, <2>2 DEF IInv, TInv, TypeOK, Unmixed, UsePrio, Known, RegisterOnlyAsDR
<1> QED
  BY <1>1, <1>2, <1>3, <1>4, <1>5, <1>6, StartKeeps, StopKeeps, ReceiveKeeps,
     TimeoutKeeps
  DEF Next

(* The types of the election, for any routers.                             *)
THEOREM Types == Spec => []TypeOK
<1>1. IInv => TypeOK
  BY DEF IInv, TInv
<1> QED  BY <1>1, InitInv, StepInv, HelloAssumption, PTL DEF Spec

(* Every pimd's role is at all times the one an election would give it:    *)
(* receive_pim_hello() leaves no election out that would change it but one *)
(* (a neighbour's going from priority 0 to no option or back, which makes  *)
(* the pimd `stale` until its next election), for any number of routers,   *)
(* lost hellos, restarts and priorities.                                   *)
THEOREM RoleAlwaysUpToDate == Spec => []RoleUpToDate
<1>1. IInv => RoleUpToDate
  BY DEF IInv
<1> QED  BY <1>1, InitInv, StepInv, HelloAssumption, PTL DEF Spec

(* Where all send the option, a router that lost the role has no register  *)
(* interface left, although delete_pim_nbr() does not look whether it did: *)
(* a router never loses the role to the departure of another one.          *)
THEOREM RegisterAlwaysOnlyAsDR == Spec => []RegisterOnlyAsDR
<1>1. IInv => RegisterOnlyAsDR
  BY DEF IInv
<1> QED  BY <1>1, InitInv, StepInv, HelloAssumption, PTL DEF Spec

(* An election from a table that is true elects nobody the rule does not.  *)
LEMMA UpToDateNoUsurper == ASSUME HelloAssumption, IInv PROVE NoUsurper
<1> SUFFICES ASSUME Settled, NEW p \in Pimds, up[p], isDR[p], ~stale[p]
             PROVE  Rightful(p)
  BY DEF NoUsurper
<1>1. Elected(p, nbrs[p])
  BY DEF IInv, RoleUpToDate
<1>2. p \in Routers /\ p \in Int /\ Routers \subseteq Int
  BY DEF HelloAssumption, Routers
<1>3. /\ prio[p] \in Prios /\ prio[p] # NoPrio
      /\ \A s \in Routers : prio[s] \in Int
  <2>1. prio \in [Routers -> Prios \cup {NoPrio}] /\ prio[p] # NoPrio
    BY DEF IInv, TInv, Configured, TypeOK
  <2>2. Prios \cup {NoPrio} \subseteq Int
    BY DEF HelloAssumption, NoPrio
  <2> QED  BY <1>2, <2>1, <2>2
<1>4. ASSUME NEW s \in Here, s # p
      PROVE  /\ s \in Known(nbrs[p])
             /\ nbrs[p][s].present <=> prio[s] # NoPrio
             /\ prio[s] # NoPrio => nbrs[p][s].prio = prio[s]
  <2>1. s \in Routers /\ nbrs[p][s] = Option(s)
    BY <1>4 DEF Here, Settled
  <2> QED  BY <2>1, OptionOK DEF Known, IInv, TInv
<1>5. ASSUME NEW s \in Known(nbrs[p]) PROVE s \in Here /\ s # p
  <2>1. s \in Routers /\ nbrs[p][s] # Unknown
    BY <1>5 DEF Known
  <2>2. s # p
    BY <2>1 DEF IInv, TInv, TypeOK
  <2> QED  BY <2>1, <2>2 DEF Settled, Here
<1>6. CASE \E s \in Here : prio[s] = NoPrio
  <2>1. ~UsePrio(nbrs[p])
    BY <1>3, <1>4, <1>6 DEF UsePrio
  <2>2. \A s \in Known(nbrs[p]) : s < p
    BY <1>1, <2>1 DEF Elected
  <2>3. ASSUME NEW s \in Here PROVE s <= p
    <3>1. CASE s = p
      BY <1>2, <3>1
    <3>2. CASE s # p
      <4>1. s \in Known(nbrs[p])
        BY <1>4, <3>2
      <4>2. s < p /\ s \in Int
        BY <1>2, <2>2, <4>1 DEF Known
      <4> QED  BY <1>2, <4>2
    <3> QED  BY <3>1, <3>2
  <2> QED  BY <1>6, <2>3 DEF Rightful
<1>7. CASE ~\E s \in Here : prio[s] = NoPrio
  <2>1. UsePrio(nbrs[p])
    BY <1>4, <1>5, <1>7 DEF UsePrio
  <2>2. \A s \in Here : s # p => prio[s] < prio[p] \/ (prio[s] <= prio[p] /\ s < p)
    BY <1>1, <1>4, <1>7, <2>1 DEF Elected
  <2>3. \A s \in Here : prio[s] < prio[p] \/ (prio[s] = prio[p] /\ s <= p)
    BY <1>2, <1>3, <2>2 DEF Here
  <2> QED  BY <1>7, <2>3 DEF Rightful
<1> QED  BY <1>6, <1>7

(* Once the routers know each other, no pimd has the role but the router   *)
(* that the rule of pim_proto.c:392 elects, and one that is stale; but for *)
(* those, two of them never both have it.  (That the router elected by the *)
(* rule has the role is not so.)                                           *)
THEOREM NeverUsurped == Spec => []NoUsurper
<1> QED  BY UpToDateNoUsurper, InitInv, StepInv, HelloAssumption, PTL DEF Spec

-----------------------------------------------------------------------------
(* The queue of timers, as sums *)

(* What holds of 0 and with every number of the next holds up to n.        *)
LEMMA UpTo ==
  ASSUME NEW n \in Nat, NEW S, 0 \in S, \A i \in 1 .. n : i - 1 \in S => i \in S
  PROVE  \A i \in 0 .. n : i \in S
<1> DEFINE T == {i \in 0 .. n : i \notin S}
<1> SUFFICES ASSUME T # {} PROVE FALSE
  OBVIOUS
<1>1. PICK x \in T : \A y \in T : ~(<<y, x>> \in OpToRel(<, Nat))
  <2>1. IsWellFoundedOn(OpToRel(<, Nat), Nat)
    BY NatLessThanWellFounded
  <2>2. T \subseteq Nat
    OBVIOUS
  <2> HIDE DEF T
  <2> QED BY <2>1, <2>2, WFMin
<1>2. x \in 1 .. n /\ x - 1 \in 0 .. n
  OBVIOUS
<1>3. x - 1 \notin T
  <2>1. x - 1 \in Nat /\ x \in Nat /\ x - 1 < x
    BY <1>2
  <2>2. <<x - 1, x>> \in OpToRel(<, Nat)
    BY <2>1 DEF OpToRel
  <2> QED BY <1>1, <2>2
<1> QED BY <1>2, <1>3

-----------------------------------------------------------------------------
(* The queue of timers *)

Timers == [id : UNION {IdsOf(f) : f \in Funcs}, g : Groups, time : Nat,
           func : Funcs, epoch : 0 .. MaxStops]

(* The times until the nodes are due are the sums of their fields.         *)
LEMMA DueSums ==
  ASSUME NEW q \in Seq(Timers)
  PROVE  /\ Due(q)[0] = 0
         /\ \A i \in 1 .. Len(q) : Due(q)[i] = Due(q)[i - 1] + q[i].time
         /\ \A i \in 0 .. Len(q) : Due(q)[i] \in Nat
<1> DEFINE Sums(n, f) ==
      f[0] = 0 /\ \A i \in 1 .. n : f[i] = f[i - 1] + q[i].time
           S == {n \in 0 .. Len(q) : \E f \in [0 .. n -> Nat] : Sums(n, f)}
<1>0. Len(q) \in Nat
  OBVIOUS
<1>1. ASSUME NEW i \in 1 .. Len(q) PROVE q[i].time \in Nat
  <2>1. q[i] \in Timers
    OBVIOUS
  <2> QED BY <2>1 DEF Timers
<1>2. 0 \in S
  <2>1. [i \in 0 .. 0 |-> 0] \in [0 .. 0 -> Nat]
    OBVIOUS
  <2>2. Sums(0, [i \in 0 .. 0 |-> 0])
    OBVIOUS
  <2>3. \E f \in [0 .. 0 -> Nat] : Sums(0, f)
    BY <2>1, <2>2
  <2> HIDE DEF Sums
  <2> QED BY <1>0, <2>3
<1>3. ASSUME NEW n \in 1 .. Len(q), n - 1 \in S
      PROVE  n \in S
  <2>1. PICK f \in [0 .. n - 1 -> Nat] : Sums(n - 1, f)
    BY <1>3
  <2> DEFINE h == [i \in 0 .. n |-> IF i = n THEN f[n - 1] + q[n].time ELSE f[i]]
  <2>2. h \in [0 .. n -> Nat]
    BY <1>0, <1>1
  <2>3. h[0] = 0
    BY <1>0, <2>1
  <2>4. ASSUME NEW i \in 1 .. n PROVE h[i] = h[i - 1] + q[i].time
    <3>1. CASE i = n
      BY <1>0, <3>1
    <3>2. CASE i # n
      <4>1. i \in 1 .. n - 1 /\ i \in 0 .. n /\ i - 1 \in 0 .. n /\ i - 1 # n
        BY <1>0, <3>2
      <4>2. h[i] = f[i] /\ h[i - 1] = f[i - 1]
        BY <3>2, <4>1
      <4>3. f[i] = f[i - 1] + q[i].time
        BY <2>1, <4>1
      <4> QED BY <4>2, <4>3
    <3> QED BY <3>1, <3>2
  <2>5. Sums(n, h)
    BY <2>3, <2>4
  <2> HIDE DEF h
  <2>6. \E d \in [0 .. n -> Nat] : Sums(n, d)
    BY <2>2, <2>5
  <2> HIDE DEF Sums
  <2>7. n \in 0 .. Len(q)
    BY <1>0
  <2> QED BY <2>6, <2>7
<1>4. Len(q) \in S
  <2>1. \A i \in 0 .. Len(q) : i \in S
    <3> HIDE DEF S
    <3> QED BY <1>0, <1>2, <1>3, UpTo
  <2>2. Len(q) \in 0 .. Len(q)
    BY <1>0
  <2> HIDE DEF S
  <2> QED BY <2>1, <2>2
<1>5. PICK f \in [0 .. Len(q) -> Nat] : Sums(Len(q), f)
  BY <1>4
<1> DEFINE Fix(d) ==
      d = [i \in 0 .. Len(q) |-> IF i = 0 THEN 0 ELSE d[i - 1] + q[i].time]
<1>6. Fix(f)
  <2>1. ASSUME NEW i \in 0 .. Len(q)
        PROVE  f[i] = IF i = 0 THEN 0 ELSE f[i - 1] + q[i].time
    BY <1>0, <1>5
  <2>2. f = [i \in 0 .. Len(q) |-> f[i]]
    OBVIOUS
  <2> QED BY <2>1, <2>2
<1>7. Due(q) = CHOOSE d : Fix(d)
  BY DEF Due
<1>8. Fix(Due(q))
  <2> HIDE DEF Fix
  <2> QED BY <1>6, <1>7
<1>9. Due(q)[0] = 0 /\ \A i \in 1 .. Len(q) : Due(q)[i] = Due(q)[i - 1] + q[i].time
  BY <1>0, <1>8
<1> DEFINE N == {i \in 0 .. Len(q) : Due(q)[i] \in Nat}
<1>10. 0 \in N
  BY <1>0, <1>9
<1>11. ASSUME NEW i \in 1 .. Len(q), i - 1 \in N PROVE i \in N
  <2>1. i \in 0 .. Len(q) /\ Due(q)[i - 1] \in Nat /\ q[i].time \in Nat
    BY <1>0, <1>1, <1>11
  <2>2. Due(q)[i] = Due(q)[i - 1] + q[i].time
    BY <1>9
  <2> QED BY <2>1, <2>2
<1>12. \A i \in 0 .. Len(q) : i \in N
  <2> HIDE DEF N
  <2> QED BY <1>0, <1>10, <1>11, UpTo
<1> QED BY <1>9, <1>12

(* No other sums are.                                                      *)
LEMMA DueOnly ==
  ASSUME NEW q \in Seq(Timers), NEW d, d[0] = 0,
         \A i \in 1 .. Len(q) : d[i] = d[i - 1] + q[i].time
  PROVE  \A i \in 0 .. Len(q) : Due(q)[i] = d[i]
<1> DEFINE S == {i \in 0 .. Len(q) : Due(q)[i] = d[i]}
<1>0. Len(q) \in Nat
  OBVIOUS
<1>1. 0 \in S
  BY <1>0, DueSums
<1>2. ASSUME NEW i \in 1 .. Len(q), i - 1 \in S PROVE i \in S
  <2>1. Due(q)[i] = Due(q)[i - 1] + q[i].time
    BY DueSums
  <2> QED BY <1>0, <1>2, <2>1
<1>3. \A i \in 0 .. Len(q) : i \in S
  <2> HIDE DEF S
  <2> QED BY <1>0, <1>1, <1>2, UpTo
<1> QED BY <1>3

(* A node is due no earlier than those before it.                          *)
LEMMA DueOrdered ==
  ASSUME NEW q \in Seq(Timers), NEW i \in 0 .. Len(q), NEW j \in 0 .. Len(q),
         i <= j
  PROVE  Due(q)[i] <= Due(q)[j]
<1> DEFINE S == {k \in 0 .. Len(q) : i <= k => Due(q)[i] <= Due(q)[k]}
<1>0. Len(q) \in Nat
  OBVIOUS
<1>1. 0 \in S
  BY <1>0, DueSums
<1>2. ASSUME NEW k \in 1 .. Len(q), k - 1 \in S PROVE k \in S
  <2>1. q[k].time \in Nat
    <3>1. q[k] \in Timers
      OBVIOUS
    <3> QED BY <3>1 DEF Timers
  <2>2. Due(q)[k] = Due(q)[k - 1] + q[k].time /\ Due(q)[k - 1] \in Nat
        /\ Due(q)[i] \in Nat /\ Due(q)[k] \in Nat
    BY <1>0, DueSums
  <2>3. CASE i = k
    BY <2>2, <2>3
  <2>4. CASE i # k
    BY <1>0, <1>2, <2>1, <2>2, <2>4
  <2> QED BY <2>3, <2>4
<1>3. \A k \in 0 .. Len(q) : k \in S
  <2> HIDE DEF S
  <2> QED BY <1>0, <1>1, <1>2, UpTo
<1> QED BY <1>3

(* A node with the time until it is due, and a queue without its order.    *)
Retime(n, t) == [n EXCEPT !.time = t]
Abs(q, i) == Retime(q[i], Due(q)[i])
Sched(q) == {Abs(q, i) : i \in 1 .. Len(q)}

Distinct(q) == \A i, j \in 1 .. Len(q) : q[i].id = q[j].id => i = j

(* The sequences the timers' operators return.                             *)
LEMMA Inserted ==
  ASSUME NEW q \in Seq(Timers), NEW at \in 1 .. Len(q) + 1, NEW n \in Timers
  PROVE  /\ InsertAt(q, at, n) \in Seq(Timers)
         /\ Len(InsertAt(q, at, n)) = Len(q) + 1
         /\ \A i \in 1 .. at - 1 : InsertAt(q, at, n)[i] = q[i]
         /\ InsertAt(q, at, n)[at] = n
         /\ \A i \in at .. Len(q) : InsertAt(q, at, n)[i + 1] = q[i]
<1> DEFINE a == SubSeq(q, 1, at - 1)
           b == <<n>>
           c == SubSeq(q, at, Len(q))
<1>0. Len(q) \in Nat /\ at \in Nat
  OBVIOUS
<1>1. /\ a \in Seq(Timers) /\ Len(a) = at - 1
      /\ \A i \in 1 .. at - 1 : a[i] = q[i]
  <2>1. \A i \in 1 .. at - 1 : q[i] \in Timers
    OBVIOUS
  <2> HIDE DEF Timers
  <2> QED BY <1>0, <2>1, SubSeqProperties
<1>2. b \in Seq(Timers) /\ Len(b) = 1 /\ b[1] = n
  OBVIOUS
<1>3. /\ c \in Seq(Timers) /\ Len(c) = Len(q) - at + 1
      /\ \A i \in 1 .. Len(q) - at + 1 : c[i] = q[at + i - 1]
  <2>1. \A i \in at .. Len(q) : q[i] \in Timers
    OBVIOUS
  <2> HIDE DEF Timers
  <2> QED BY <1>0, <2>1, SubSeqProperties
<1>4. InsertAt(q, at, n) = a \o b \o c
  BY DEF InsertAt
<1> HIDE DEF a, b, c, Timers
<1>5. /\ a \o b \in Seq(Timers) /\ Len(a \o b) = at
      /\ \A i \in 1 .. at : (a \o b)[i] = IF i <= at - 1 THEN a[i] ELSE b[i - (at - 1)]
  <2>1. /\ a \o b \in Seq(Timers) /\ Len(a \o b) = Len(a) + Len(b)
        /\ \A i \in 1 .. Len(a) + Len(b) :
             (a \o b)[i] = IF i <= Len(a) THEN a[i] ELSE b[i - Len(a)]
    BY <1>1, <1>2, ConcatProperties
  <2>2. Len(a) = at - 1 /\ Len(a) + Len(b) = at
    BY <1>0, <1>1, <1>2
  <2> QED BY <2>1, <2>2
<1>6. /\ (a \o b) \o c \in Seq(Timers) /\ Len((a \o b) \o c) = Len(q) + 1
      /\ \A i \in 1 .. Len(q) + 1 :
           ((a \o b) \o c)[i] = IF i <= at THEN (a \o b)[i] ELSE c[i - at]
  <2>1. Len(a \o b) + Len(c) = Len(q) + 1
    BY <1>0, <1>3, <1>5
  <2>2. /\ (a \o b) \o c \in Seq(Timers)
        /\ Len((a \o b) \o c) = Len(a \o b) + Len(c)
        /\ \A i \in 1 .. Len(a \o b) + Len(c) :
             ((a \o b) \o c)[i]
               = IF i <= Len(a \o b) THEN (a \o b)[i] ELSE c[i - Len(a \o b)]
    BY <1>3, <1>5, ConcatProperties
  <2>3. Len(a \o b) = at
    BY <1>5
  <2> QED BY <2>1, <2>2, <2>3
<1>7. ASSUME NEW i \in 1 .. at - 1 PROVE ((a \o b) \o c)[i] = q[i]
  BY <1>0, <1>1, <1>5, <1>6
<1>8. ((a \o b) \o c)[at] = n
  <2>1. at \in 1 .. at /\ at \in 1 .. Len(q) + 1 /\ at <= at /\ ~(at <= at - 1)
        /\ at - (at - 1) = 1
    BY <1>0
  <2>2. (a \o b)[at] = b[1]
    BY <1>5, <2>1
  <2>3. ((a \o b) \o c)[at] = (a \o b)[at]
    BY <1>6, <2>1
  <2> QED BY <1>2, <2>2, <2>3
<1>9. ASSUME NEW i \in at .. Len(q) PROVE ((a \o b) \o c)[i + 1] = q[i]
  <2>1. i + 1 \in 1 .. Len(q) + 1 /\ ~(i + 1 <= at) /\ i + 1 - at \in 1 .. Len(q) - at + 1
        /\ at + (i + 1 - at) - 1 = i
    BY <1>0
  <2>2. c[i + 1 - at] = q[i]
    BY <1>3, <2>1
  <2> QED BY <1>6, <2>1, <2>2
<1> QED BY <1>4, <1>6, <1>7, <1>8, <1>9

LEMMA Removed ==
  ASSUME NEW q \in Seq(Timers), NEW at \in 1 .. Len(q)
  PROVE  /\ RemoveAt(q, at) \in Seq(Timers)
         /\ Len(RemoveAt(q, at)) = Len(q) - 1
         /\ \A i \in 1 .. at - 1 : RemoveAt(q, at)[i] = q[i]
         /\ \A i \in at .. Len(q) - 1 : RemoveAt(q, at)[i] = q[i + 1]
<1> DEFINE a == SubSeq(q, 1, at - 1)
           c == SubSeq(q, at + 1, Len(q))
<1>0. Len(q) \in Nat /\ at \in Nat
  OBVIOUS
<1>1. /\ a \in Seq(Timers) /\ Len(a) = at - 1
      /\ \A i \in 1 .. at - 1 : a[i] = q[i]
  <2>1. \A i \in 1 .. at - 1 : q[i] \in Timers
    OBVIOUS
  <2> HIDE DEF Timers
  <2> QED BY <1>0, <2>1, SubSeqProperties
<1>3. /\ c \in Seq(Timers) /\ Len(c) = Len(q) - at
      /\ \A i \in 1 .. Len(q) - at : c[i] = q[at + i]
  <2>1. \A i \in at + 1 .. Len(q) : q[i] \in Timers
    OBVIOUS
  <2> HIDE DEF Timers
  <2>2. /\ c \in Seq(Timers)
        /\ Len(c) = IF at + 1 <= Len(q) THEN Len(q) - (at + 1) + 1 ELSE 0
        /\ \A i \in 1 .. Len(q) - (at + 1) + 1 : c[i] = q[at + 1 + i - 1]
    BY <1>0, <2>1, SubSeqProperties
  <2>3. Len(c) = Len(q) - at
    BY <1>0, <2>2
  <2>4. ASSUME NEW i \in 1 .. Len(q) - at PROVE c[i] = q[at + i]
    <3>1. i \in 1 .. Len(q) - (at + 1) + 1 /\ at + 1 + i - 1 = at + i
      BY <1>0
    <3> QED BY <2>2, <3>1
  <2> QED BY <2>2, <2>3, <2>4
<1>4. RemoveAt(q, at) = a \o c
  BY DEF RemoveAt
<1> HIDE DEF a, c, Timers
<1>6. /\ a \o c \in Seq(Timers) /\ Len(a \o c) = Len(q) - 1
      /\ \A i \in 1 .. Len(q) - 1 :
           (a \o c)[i] = IF i <= at - 1 THEN a[i] ELSE c[i - (at - 1)]
  <2>1. Len(a) + Len(c) = Len(q) - 1
    BY <1>0, <1>1, <1>3
  <2>2. /\ a \o c \in Seq(Timers) /\ Len(a \o c) = Len(a) + Len(c)
        /\ \A i \in 1 .. Len(a) + Len(c) :
             (a \o c)[i] = IF i <= Len(a) THEN a[i] ELSE c[i - Len(a)]
    BY <1>1, <1>3, ConcatProperties
  <2>3. Len(a) = at - 1
    BY <1>1
  <2> QED BY <2>1, <2>2, <2>3
<1>7. ASSUME NEW i \in 1 .. at - 1 PROVE (a \o c)[i] = q[i]
  BY <1>0, <1>1, <1>6
<1>9. ASSUME NEW i \in at .. Len(q) - 1 PROVE (a \o c)[i] = q[i + 1]
  <2>1. i \in 1 .. Len(q) - 1 /\ ~(i <= at - 1) /\ i - (at - 1) \in 1 .. Len(q) - at
        /\ at + (i - (at - 1)) = i + 1
    BY <1>0
  <2>2. c[i - (at - 1)] = q[i + 1]
    BY <1>3, <2>1
  <2> QED BY <1>6, <2>1, <2>2
<1> QED BY <1>4, <1>6, <1>7, <1>9

LEMMA MinLeast ==
  ASSUME NEW S \in SUBSET Nat, S # {}
  PROVE  Min(S) \in S /\ \A y \in S : Min(S) <= y
<1>1. PICK x \in S : \A y \in S : ~(<<y, x>> \in OpToRel(<, Nat))
  BY NatLessThanWellFounded, WFMin
<1>2. \A y \in S : x <= y
  <2>1. SUFFICES ASSUME NEW y \in S, ~(x <= y) PROVE FALSE
    OBVIOUS
  <2>2. x \in Nat /\ y \in Nat /\ y < x
    BY <2>1
  <2>3. <<y, x>> \in OpToRel(<, Nat)
    BY <2>2 DEF OpToRel
  <2> QED BY <1>1, <2>3
<1> QED BY <1>2 DEF Min

LEMMA Retimed ==
  ASSUME NEW n \in Timers, NEW t \in Nat
  PROVE  /\ Retime(n, t) \in Timers /\ Retime(n, t).time = t
         /\ Retime(n, t).id = n.id /\ Retime(n, t).func = n.func
         /\ Retime(n, t).g = n.g /\ Retime(n, t).epoch = n.epoch
         /\ \A u \in Nat : Retime(Retime(n, t), u) = Retime(n, u)
         /\ Retime(n, n.time) = n
         /\ n.time \in Nat
BY DEF Timers, Retime

LEMMA AbsFacts ==
  ASSUME NEW q \in Seq(Timers), NEW i \in 1 .. Len(q)
  PROVE  /\ q[i] \in Timers /\ Abs(q, i) \in Timers
         /\ Abs(q, i).id = q[i].id /\ Abs(q, i).func = q[i].func
         /\ Abs(q, i).g = q[i].g /\ Abs(q, i).epoch = q[i].epoch
         /\ Abs(q, i).time = Due(q)[i]
<1>1. q[i] \in Timers /\ Due(q)[i] \in Nat
  <2>1. i \in 0 .. Len(q)
    OBVIOUS
  <2> QED BY <2>1, DueSums
<1> QED BY <1>1, Retimed DEF Abs

LEMMA SetTimerPlaces ==
  ASSUME NEW q \in Seq(Timers), NEW node \in Timers
  PROVE  /\ SetTimer(q, node) \in Seq(Timers)
         /\ Len(SetTimer(q, node)) = Len(q) + 1
         /\ \E at \in 1 .. Len(q) + 1 :
              /\ \A i \in 1 .. at - 1 : Abs(SetTimer(q, node), i) = Abs(q, i)
              /\ Abs(SetTimer(q, node), at) = node
              /\ \A i \in at .. Len(q) :
                   Abs(SetTimer(q, node), i + 1) = Abs(q, i)
<1> DEFINE due == Due(q)
           later == {i \in DOMAIN q : node.time < due[i]}
           at == IF later = {} THEN Len(q) + 1 ELSE Min(later)
           offset == node.time - due[at - 1]
           rest == IF later = {} THEN q
                   ELSE [q EXCEPT ![at] = Retime(@, q[at].time - offset)]
           new == Retime(node, offset)
           r == InsertAt(rest, at, new)
<1>0. /\ Len(q) \in Nat /\ DOMAIN q = 1 .. Len(q) /\ node.time \in Nat
      /\ \A i \in 0 .. Len(q) : due[i] \in Nat
      /\ due[0] = 0
      /\ \A i \in 1 .. Len(q) : due[i] = due[i - 1] + q[i].time
      /\ \A i \in 1 .. Len(q) : q[i] \in Timers
  <2>1. node.time \in Nat
    BY DEF Timers
  <2> QED BY <2>1, DueSums
<1>1. SetTimer(q, node) = r
  BY DEF SetTimer, Retime
<1>2. /\ at \in 1 .. Len(q) + 1
      /\ due[at - 1] <= node.time
      /\ later # {} => at <= Len(q) /\ node.time < due[at]
      /\ later = {} => at = Len(q) + 1
  <2>1. CASE later = {}
    BY <1>0, <2>1
  <2>2. CASE later # {}
    <3>1. later \subseteq Nat
      BY <1>0
    <3>2. at \in later /\ \A y \in later : at <= y
      <4> HIDE DEF later
      <4> QED BY <2>2, <3>1, MinLeast
    <3>3. at \in 1 .. Len(q) /\ node.time < due[at]
      BY <1>0, <3>2
    <3>4. due[at - 1] <= node.time
      <4>1. CASE at = 1
        <5>1. at - 1 = 0
          BY <4>1
        <5> QED BY <1>0, <5>1
      <4>2. CASE at # 1
        <5>1. at - 1 \in 1 .. Len(q) /\ ~(at <= at - 1)
          <6> HIDE DEF at, later
          <6> QED BY <1>0, <3>3, <4>2
        <5>2. at - 1 \notin later
          BY <3>2, <5>1
        <5>3. due[at - 1] \in Nat
          BY <1>0, <5>1
        <5>4. ~(node.time < due[at - 1])
          <6> HIDE DEF at, due
          <6> QED BY <1>0, <5>1, <5>2
        <5>5. node.time \in Nat
          BY <1>0
        <5> HIDE DEF at, due, later
        <5> QED BY <5>3, <5>4, <5>5
      <4> QED BY <4>1, <4>2
    <3> HIDE DEF at, later
    <3> QED BY <1>0, <2>2, <3>3, <3>4
  <2> QED BY <2>1, <2>2
<1> HIDE DEF at, later
<1>3. offset \in Nat /\ offset = node.time - due[at - 1] /\ at - 1 \in 0 .. Len(q)
      /\ due[at - 1] \in Nat
  BY <1>0, <1>2
<1>4. new \in Timers /\ new.time = offset
      /\ \A u \in Nat : Retime(new, u) = Retime(node, u)
  <2> HIDE DEF offset
  <2> QED BY <1>3, Retimed
<1>5. /\ rest \in Seq(Timers) /\ Len(rest) = Len(q)
      /\ \A i \in 1 .. Len(q) : i # at => rest[i] = q[i]
      /\ at <= Len(q) =>
           /\ rest[at] = Retime(q[at], due[at] - node.time)
           /\ due[at] - node.time \in Nat
  <2>1. CASE later = {}
    BY <1>0, <1>2, <2>1
  <2>2. CASE later # {}
    <3>1. at \in 1 .. Len(q) /\ due[at] - node.time \in Nat
      BY <1>0, <1>2, <2>2
    <3>2. q[at].time - offset = due[at] - node.time
      <4>1. due[at] = due[at - 1] + q[at].time /\ due[at] \in Nat
            /\ q[at].time \in Nat
        BY <1>0, <3>1, Retimed
      <4>2. node.time \in Nat
        BY <1>0
      <4> QED BY <1>3, <4>1, <4>2
    <3>3. rest = [q EXCEPT ![at] = Retime(q[at], due[at] - node.time)]
      BY <2>2, <3>2
    <3> DEFINE t == due[at] - node.time
               m == Retime(q[at], t)
    <3>4. m \in Timers
      <4>1. q[at] \in Timers /\ t \in Nat
        BY <1>0, <3>1
      <4> HIDE DEF t
      <4> QED BY <4>1, Retimed
    <3>5. rest = [q EXCEPT ![at] = m]
      BY <3>3
    <3> HIDE DEF m, rest, Timers
    <3>6. /\ rest \in Seq(Timers) /\ Len(rest) = Len(q)
          /\ \A i \in 1 .. Len(q) : i # at => rest[i] = q[i]
          /\ rest[at] = m
      BY <1>0, <3>1, <3>4, <3>5
    <3> QED BY <3>1, <3>6 DEF m
  <2> QED BY <2>1, <2>2
<1> HIDE DEF rest, new, offset
<1>6. /\ r \in Seq(Timers) /\ Len(r) = Len(q) + 1
      /\ \A i \in 1 .. at - 1 : r[i] = rest[i]
      /\ r[at] = new
      /\ \A i \in at .. Len(q) : r[i + 1] = rest[i]
  <2>1. at \in 1 .. Len(rest) + 1 /\ Len(rest) = Len(q)
    BY <1>2, <1>5
  <2>2. /\ r \in Seq(Timers) /\ Len(r) = Len(rest) + 1
        /\ \A i \in 1 .. at - 1 : r[i] = rest[i]
        /\ r[at] = new
        /\ \A i \in at .. Len(rest) : r[i + 1] = rest[i]
    BY <1>4, <1>5, <2>1, Inserted
  <2> QED BY <2>1, <2>2
<1> HIDE DEF r
<1> DEFINE d == [i \in 0 .. Len(q) + 1 |->
                   IF i < at THEN due[i] ELSE IF i = at THEN node.time
                   ELSE due[i - 1]]
<1>7. d[0] = 0
  BY <1>0, <1>2
<1>8. ASSUME NEW i \in 1 .. Len(r) PROVE d[i] = d[i - 1] + r[i].time
  <2>0. i \in 1 .. Len(q) + 1 /\ i - 1 \in 0 .. Len(q) + 1 /\ i \in 0 .. Len(q) + 1
    BY <1>0, <1>6
  <2>1. CASE i < at
    <3>0. i \in 1 .. Len(q) /\ i \in 1 .. at - 1 /\ i # at
      BY <1>0, <1>2, <2>0, <2>1
    <3>1. r[i] = q[i] /\ i \in 1 .. Len(q)
      BY <1>5, <1>6, <3>0
    <3>2. d[i] = due[i] /\ d[i - 1] = due[i - 1]
      BY <1>0, <1>2, <2>0, <2>1
    <3> QED BY <1>0, <3>1, <3>2
  <2>2. CASE i = at
    <3>1. d[i] = node.time /\ d[i - 1] = due[at - 1]
      BY <1>0, <1>2, <2>0, <2>2
    <3>2. r[i].time = node.time - due[at - 1]
      BY <1>3, <1>4, <1>6, <2>2
    <3> QED BY <1>0, <1>3, <3>1, <3>2
  <2>3. CASE i = at + 1
    <3>1. d[i] = due[at] /\ d[i - 1] = node.time /\ at \in 1 .. Len(q)
      BY <1>0, <1>2, <2>0, <2>3
    <3>2. r[i] = rest[at]
      BY <1>6, <2>3, <3>1
    <3>3. r[i].time = due[at] - node.time
      <4> DEFINE t == due[at] - node.time
      <4>1. q[at] \in Timers /\ t \in Nat /\ r[i] = Retime(q[at], t)
        BY <1>0, <1>2, <1>5, <3>1, <3>2
      <4> HIDE DEF t
      <4>2. r[i].time = t
        BY <4>1, Retimed
      <4> QED BY <4>2 DEF t
    <3> QED BY <1>0, <3>1, <3>3
  <2>4. CASE i > at + 1
    <3>1. i - 1 \in at .. Len(q) /\ i - 1 # at /\ i - 1 \in 1 .. Len(q)
          /\ (i - 1) + 1 = i /\ (i - 1) - 1 = i - 2
      BY <1>0, <1>2, <2>0, <2>4
    <3>2. d[i] = due[i - 1] /\ d[i - 1] = due[i - 2]
      BY <1>0, <1>2, <2>0, <2>4, <3>1
    <3>3. r[i] = q[i - 1]
      BY <1>5, <1>6, <3>1
    <3>4. due[i - 1] = due[(i - 1) - 1] + q[i - 1].time
      BY <1>0, <3>1
    <3> QED BY <3>1, <3>2, <3>3, <3>4
  <2>5. i < at \/ i = at \/ i = at + 1 \/ i > at + 1
    <3>1. at \in Nat /\ i \in Nat
      BY <1>2, <2>0
    <3> QED BY <3>1
  <2> HIDE DEF d
  <2> QED BY <2>1, <2>2, <2>3, <2>4, <2>5
<1>9. \A i \in 0 .. Len(q) + 1 : Due(r)[i] = d[i]
  <2> HIDE DEF d
  <2>1. \A i \in 0 .. Len(r) : Due(r)[i] = d[i]
    BY <1>6, <1>7, <1>8, DueOnly
  <2> QED BY <1>6, <2>1
<1>10. ASSUME NEW i \in 1 .. at - 1 PROVE Abs(r, i) = Abs(q, i)
  <2>1. i \in 1 .. Len(q) /\ i \in 0 .. Len(q) + 1 /\ i < at /\ i # at
    BY <1>0, <1>2
  <2>2. r[i] = q[i] /\ Due(r)[i] = due[i]
    BY <1>5, <1>6, <1>9, <2>1
  <2> QED BY <2>2 DEF Abs
<1>11. Abs(r, at) = node
  <2>1. Due(r)[at] = node.time
    BY <1>0, <1>2, <1>9
  <2>2. Abs(r, at) = Retime(node, node.time)
    BY <1>0, <1>4, <1>6, <2>1 DEF Abs
  <2> QED BY <2>2, Retimed
<1>12. ASSUME NEW i \in at .. Len(q) PROVE Abs(r, i + 1) = Abs(q, i)
  <2>1. i \in 1 .. Len(q) /\ i + 1 \in 0 .. Len(q) + 1 /\ ~(i + 1 < at)
        /\ i + 1 # at /\ (i + 1) - 1 = i
    BY <1>0, <1>2
  <2>2. Due(r)[i + 1] = due[i]
    BY <1>9, <2>1
  <2>3. r[i + 1] = rest[i]
    BY <1>6
  <2>4. CASE i = at
    <3>1. \A u \in Nat : Retime(rest[at], u) = Retime(q[at], u)
      <4> DEFINE t == due[at] - node.time
      <4>1. q[at] \in Timers /\ t \in Nat /\ rest[at] = Retime(q[at], t)
        BY <1>0, <1>2, <1>5, <2>1, <2>4
      <4> HIDE DEF t
      <4> QED BY <4>1, Retimed
    <3>2. due[i] \in Nat
      BY <1>0, <2>1
    <3> QED BY <2>2, <2>3, <2>4, <3>1, <3>2 DEF Abs
  <2>5. CASE i # at
    BY <1>5, <2>1, <2>2, <2>3, <2>5 DEF Abs
  <2> QED BY <2>4, <2>5
<1> QED BY <1>1, <1>2, <1>6, <1>10, <1>11, <1>12

(* A timer taken out leaves the others due when they were.                 *)
LEMMA ClearTimerPlaces ==
  ASSUME NEW q \in Seq(Timers), NEW id, Places(q, id) # {}
  PROVE  /\ ClearTimer(q, id) \in Seq(Timers)
         /\ Len(ClearTimer(q, id)) = Len(q) - 1
         /\ \E at \in 1 .. Len(q) :
              /\ q[at].id = id
              /\ \A i \in 1 .. at - 1 : Abs(ClearTimer(q, id), i) = Abs(q, i)
              /\ \A i \in at .. Len(q) - 1 :
                   Abs(ClearTimer(q, id), i) = Abs(q, i + 1)
<1> DEFINE due == Due(q)
           at == Min(Places(q, id))
           rest == [i \in 1 .. Len(q) |->
                      IF i = at + 1 THEN Retime(q[i], q[i].time + q[at].time) ELSE q[i]]
           r == RemoveAt(rest, at)
<1>0. /\ Len(q) \in Nat /\ DOMAIN q = 1 .. Len(q)
      /\ \A i \in 0 .. Len(q) : due[i] \in Nat
      /\ due[0] = 0
      /\ \A i \in 1 .. Len(q) : due[i] = due[i - 1] + q[i].time
      /\ \A i \in 1 .. Len(q) : q[i] \in Timers /\ q[i].time \in Nat
  <2>1. \A i \in 1 .. Len(q) : q[i] \in Timers
    OBVIOUS
  <2>2. \A i \in 1 .. Len(q) : q[i].time \in Nat
    BY <2>1 DEF Timers
  <2> QED BY <2>1, <2>2, DueSums
<1>1. ClearTimer(q, id) = r
  BY <1>0 DEF ClearTimer, Retime
<1>2. at \in 1 .. Len(q) /\ q[at].id = id
  <2>1. Places(q, id) \subseteq Nat
    BY <1>0 DEF Places
  <2>2. at \in Places(q, id)
    BY <2>1, MinLeast
  <2> HIDE DEF at
  <2> QED BY <1>0, <2>2 DEF Places
<1> HIDE DEF at
<1>3. /\ rest \in Seq(Timers) /\ Len(rest) = Len(q)
      /\ \A i \in 1 .. Len(q) : i # at + 1 => rest[i] = q[i]
      /\ at + 1 \in 1 .. Len(q) =>
           rest[at + 1] = Retime(q[at + 1], q[at + 1].time + q[at].time)
  <2>1. ASSUME NEW i \in 1 .. Len(q)
        PROVE  (IF i = at + 1 THEN Retime(q[i], q[i].time + q[at].time) ELSE q[i]) \in Timers
    <3>1. q[i].time + q[at].time \in Nat /\ q[i] \in Timers
      BY <1>0, <1>2
    <3> QED BY <3>1, Retimed
  <2> HIDE DEF Timers
  <2> QED BY <1>0, <2>1
<1> HIDE DEF rest
<1>4. /\ r \in Seq(Timers) /\ Len(r) = Len(q) - 1
      /\ \A i \in 1 .. at - 1 : r[i] = rest[i]
      /\ \A i \in at .. Len(q) - 1 : r[i] = rest[i + 1]
  <2>1. at \in 1 .. Len(rest)
    BY <1>2, <1>3
  <2>2. /\ r \in Seq(Timers) /\ Len(r) = Len(rest) - 1
        /\ \A i \in 1 .. at - 1 : r[i] = rest[i]
        /\ \A i \in at .. Len(rest) - 1 : r[i] = rest[i + 1]
    BY <1>3, <2>1, Removed
  <2> QED BY <1>3, <2>2
<1> HIDE DEF r
<1> DEFINE d == [i \in 0 .. Len(q) - 1 |-> IF i < at THEN due[i] ELSE due[i + 1]]
<1>5. d[0] = 0
  BY <1>0, <1>2
<1>6. ASSUME NEW i \in 1 .. Len(r) PROVE d[i] = d[i - 1] + r[i].time
  <2>0. i \in 1 .. Len(q) - 1 /\ i - 1 \in 0 .. Len(q) - 1 /\ i \in 0 .. Len(q) - 1
        /\ i \in 1 .. Len(q) /\ i + 1 \in 1 .. Len(q)
    BY <1>0, <1>4
  <2>1. CASE i < at
    <3>0. i \in 1 .. at - 1 /\ i # at + 1
      BY <1>0, <1>2, <2>0, <2>1
    <3>1. r[i] = q[i]
      BY <1>3, <1>4, <2>0, <3>0
    <3>2. d[i] = due[i] /\ d[i - 1] = due[i - 1]
      BY <1>0, <1>2, <2>0, <2>1
    <3> QED BY <1>0, <2>0, <3>1, <3>2
  <2>2. CASE i = at
    <3>1. d[i] = due[at + 1] /\ d[i - 1] = due[at - 1]
      BY <1>0, <1>2, <2>0, <2>2
    <3>2. r[i] = Retime(q[at + 1], q[at + 1].time + q[at].time)
      BY <1>0, <1>2, <1>3, <1>4, <2>0, <2>2
    <3> DEFINE t == q[at + 1].time + q[at].time
    <3>3. q[at + 1] \in Timers /\ t \in Nat
      BY <1>0, <1>2, <2>0, <2>2
    <3>4. r[i].time = t
      <4> HIDE DEF t
      <4>1. r[i] = Retime(q[at + 1], t)
        BY <3>2 DEF t
      <4> QED BY <3>3, <4>1, Retimed
    <3>5. /\ due[at] = due[at - 1] + q[at].time
          /\ due[at + 1] = due[at] + q[at + 1].time
          /\ due[at - 1] \in Nat /\ q[at].time \in Nat /\ q[at + 1].time \in Nat
      <4>1. at \in 1 .. Len(q) /\ at + 1 \in 1 .. Len(q) /\ (at + 1) - 1 = at
            /\ at - 1 \in 0 .. Len(q)
        BY <1>0, <1>2, <2>0, <2>2
      <4> QED BY <1>0, <4>1
    <3> QED BY <3>1, <3>4, <3>5
  <2>3. CASE i > at
    <3>1. d[i] = due[i + 1] /\ d[i - 1] = due[i]
      <4>1. ~(i < at) /\ ~(i - 1 < at) /\ (i - 1) + 1 = i
        BY <1>2, <2>0, <2>3
      <4> QED BY <2>0, <4>1
    <3>2. r[i] = q[i + 1]
      <4>1. i \in at .. Len(q) - 1 /\ i + 1 # at + 1
        BY <1>0, <1>2, <2>0, <2>3
      <4> QED BY <1>3, <1>4, <2>0, <4>1
    <3>3. due[i + 1] = due[i] + q[i + 1].time
      <4>1. (i + 1) - 1 = i
        BY <2>0
      <4> QED BY <1>0, <2>0, <4>1
    <3> QED BY <3>1, <3>2, <3>3
  <2> QED BY <1>0, <1>2, <2>0, <2>1, <2>2, <2>3
<1>7. \A i \in 0 .. Len(q) - 1 : Due(r)[i] = d[i]
  <2> HIDE DEF d
  <2> QED BY <1>4, <1>5, <1>6, DueOnly
<1>8. ASSUME NEW i \in 1 .. at - 1 PROVE Abs(r, i) = Abs(q, i)
  <2>1. i \in 1 .. Len(q) /\ i \in 0 .. Len(q) - 1 /\ i < at /\ i # at + 1
    BY <1>0, <1>2
  <2>2. r[i] = q[i] /\ Due(r)[i] = due[i]
    BY <1>3, <1>4, <1>7, <2>1
  <2> QED BY <2>2 DEF Abs
<1>9. ASSUME NEW i \in at .. Len(q) - 1 PROVE Abs(r, i) = Abs(q, i + 1)
  <2>1. i + 1 \in 1 .. Len(q) /\ i \in 0 .. Len(q) - 1 /\ ~(i < at)
    BY <1>0, <1>2
  <2>2. Due(r)[i] = due[i + 1] /\ due[i + 1] \in Nat
    BY <1>0, <1>7, <2>1
  <2>3. r[i] = rest[i + 1]
    BY <1>4
  <2>4. CASE i = at
    <3> DEFINE t == q[at + 1].time + q[at].time
    <3>1. q[at + 1] \in Timers /\ t \in Nat /\ r[i] = Retime(q[at + 1], t)
      BY <1>0, <1>2, <1>3, <2>1, <2>3, <2>4
    <3> HIDE DEF t
    <3>2. Retime(r[i], due[i + 1]) = Retime(q[i + 1], due[i + 1])
      BY <2>2, <2>4, <3>1, Retimed
    <3> QED BY <2>2, <3>2 DEF Abs
  <2>5. CASE i # at
    <3>1. r[i] = q[i + 1]
      BY <1>2, <1>3, <2>1, <2>3, <2>5
    <3> QED BY <2>2, <3>1 DEF Abs
  <2> QED BY <2>4, <2>5
<1> QED BY <1>1, <1>2, <1>4, <1>8, <1>9

(* What the operators do to the timers, as a set.                          *)
LEMMA SetTimerAdds ==
  ASSUME NEW q \in Seq(Timers), NEW node \in Timers, Distinct(q),
         \A n \in Sched(q) : n.id # node.id
  PROVE  /\ SetTimer(q, node) \in Seq(Timers) /\ Distinct(SetTimer(q, node))
         /\ Sched(SetTimer(q, node)) = Sched(q) \cup {node}
<1> DEFINE r == SetTimer(q, node)
<1>1. /\ r \in Seq(Timers) /\ Len(r) = Len(q) + 1 /\ Len(q) \in Nat
  BY SetTimerPlaces
<1>2. PICK at \in 1 .. Len(q) + 1 :
        /\ \A i \in 1 .. at - 1 : Abs(r, i) = Abs(q, i)
        /\ Abs(r, at) = node
        /\ \A i \in at .. Len(q) : Abs(r, i + 1) = Abs(q, i)
  BY SetTimerPlaces
<1> HIDE DEF r
<1>3. ASSUME NEW i \in 1 .. Len(r), i # at
      PROVE  \E j \in 1 .. Len(q) :
               /\ Abs(r, i) = Abs(q, j) /\ r[i].id = q[j].id
               /\ j = IF i < at THEN i ELSE i - 1
  <2>1. CASE i < at
    <3>1. i \in 1 .. Len(q) /\ i \in 1 .. at - 1
      BY <1>1, <2>1
    <3>2. Abs(r, i) = Abs(q, i)
      BY <1>2, <3>1
    <3>3. Abs(r, i).id = r[i].id
      BY <1>1, AbsFacts
    <3>4. Abs(q, i).id = q[i].id
      BY <1>1, <3>1, AbsFacts
    <3> QED BY <2>1, <3>1, <3>2, <3>3, <3>4
  <2>2. CASE i > at
    <3>1. i - 1 \in 1 .. Len(q) /\ i - 1 \in at .. Len(q) /\ (i - 1) + 1 = i /\ ~(i < at)
      BY <1>1, <2>2
    <3>2. Abs(r, i) = Abs(q, i - 1)
      BY <1>2, <3>1
    <3>3. r[i].id = q[i - 1].id
      BY <1>1, <3>1, <3>2, AbsFacts
    <3> QED BY <3>1, <3>2, <3>3
  <2> QED BY <1>1, <1>3, <2>1, <2>2
<1>4. r[at].id = node.id
  BY <1>1, <1>2, AbsFacts
<1>5. ASSUME NEW j \in 1 .. Len(q) PROVE q[j].id # node.id
  BY AbsFacts DEF Sched
<1>6. Distinct(r)
  <2>1. ASSUME NEW i \in 1 .. Len(r), NEW j \in 1 .. Len(r), r[i].id = r[j].id
        PROVE  i = j
    <3>1. CASE i = at
      BY <1>3, <1>4, <1>5, <2>1, <3>1
    <3>2. CASE j = at
      BY <1>3, <1>4, <1>5, <2>1, <3>2
    <3>3. CASE i # at /\ j # at
      <4>1. PICK k \in 1 .. Len(q) :
              r[i].id = q[k].id /\ k = IF i < at THEN i ELSE i - 1
        BY <1>3, <3>3
      <4>2. PICK l \in 1 .. Len(q) :
              r[j].id = q[l].id /\ l = IF j < at THEN j ELSE j - 1
        BY <1>3, <3>3
      <4>3. k = l
        BY <2>1, <4>1, <4>2 DEF Distinct
      <4> QED BY <1>1, <3>3, <4>1, <4>2, <4>3
    <3> QED BY <3>1, <3>2, <3>3
  <2> QED BY <2>1 DEF Distinct
<1>7. Sched(r) \subseteq Sched(q) \cup {node}
  BY <1>2, <1>3 DEF Sched
<1>8. node \in Sched(r)
  BY <1>1, <1>2 DEF Sched
<1>9. ASSUME NEW j \in 1 .. Len(q) PROVE Abs(q, j) \in Sched(r)
  <2>1. CASE j < at
    BY <1>1, <1>2, <2>1 DEF Sched
  <2>2. CASE j >= at
    <3>1. j + 1 \in 1 .. Len(r) /\ j \in at .. Len(q)
      BY <1>1, <2>2
    <3> QED BY <1>2, <3>1 DEF Sched
  <2> QED BY <1>1, <2>1, <2>2
<1>10. Sched(q) \subseteq Sched(r)
  BY <1>9 DEF Sched
<1> QED BY <1>1, <1>6, <1>7, <1>8, <1>10 DEF r

LEMMA ClearTimerTakes ==
  ASSUME NEW q \in Seq(Timers), NEW id, Distinct(q)
  PROVE  /\ ClearTimer(q, id) \in Seq(Timers) /\ Distinct(ClearTimer(q, id))
         /\ Sched(ClearTimer(q, id)) = {n \in Sched(q) : n.id # id}
<1> DEFINE r == ClearTimer(q, id)
<1>0. CASE Places(q, id) = {}
  <2>1. r = q
    BY <1>0 DEF ClearTimer
  <2>2. \A n \in Sched(q) : n.id # id
    BY <1>0, AbsFacts DEF Sched, Places
  <2> QED BY <2>1, <2>2
<1>1. CASE Places(q, id) # {}
  <2>1. /\ r \in Seq(Timers) /\ Len(r) = Len(q) - 1 /\ Len(q) \in Nat
    BY <1>1, ClearTimerPlaces
  <2>2. PICK at \in 1 .. Len(q) :
          /\ q[at].id = id
          /\ \A i \in 1 .. at - 1 : Abs(r, i) = Abs(q, i)
          /\ \A i \in at .. Len(q) - 1 : Abs(r, i) = Abs(q, i + 1)
    BY <1>1, ClearTimerPlaces
  <2> HIDE DEF r
  <2>3. ASSUME NEW i \in 1 .. Len(r)
        PROVE  \E j \in 1 .. Len(q) :
                 /\ Abs(r, i) = Abs(q, j) /\ r[i].id = q[j].id
                 /\ j = IF i < at THEN i ELSE i + 1
    <3>1. CASE i < at
      <4>1. i \in 1 .. Len(q) /\ i \in 1 .. at - 1
        BY <2>1, <3>1
      <4>2. Abs(r, i) = Abs(q, i)
        BY <2>2, <4>1
      <4>3. Abs(r, i).id = r[i].id
        BY <2>1, AbsFacts
      <4>4. Abs(q, i).id = q[i].id
        BY <4>1, AbsFacts
      <4> QED BY <3>1, <4>1, <4>2, <4>3, <4>4
    <3>2. CASE i >= at
      <4>1. i + 1 \in 1 .. Len(q) /\ i \in at .. Len(q) - 1 /\ ~(i < at)
        BY <2>1, <3>2
      <4>2. Abs(r, i) = Abs(q, i + 1)
        BY <2>2, <4>1
      <4>3. Abs(r, i).id = r[i].id
        BY <2>1, AbsFacts
      <4>4. Abs(q, i + 1).id = q[i + 1].id
        BY <4>1, AbsFacts
      <4> QED BY <4>1, <4>2, <4>3, <4>4
    <3> QED BY <2>1, <3>1, <3>2
  <2>4. Distinct(r)
    <3>1. ASSUME NEW i \in 1 .. Len(r), NEW j \in 1 .. Len(r), r[i].id = r[j].id
          PROVE  i = j
      <4>1. PICK k \in 1 .. Len(q) :
              r[i].id = q[k].id /\ k = IF i < at THEN i ELSE i + 1
        BY <2>3
      <4>2. PICK l \in 1 .. Len(q) :
              r[j].id = q[l].id /\ l = IF j < at THEN j ELSE j + 1
        BY <2>3
      <4>3. k = l
        BY <3>1, <4>1, <4>2 DEF Distinct
      <4> QED BY <2>1, <4>1, <4>2, <4>3
    <3> QED BY <3>1 DEF Distinct
  <2>5. ASSUME NEW i \in 1 .. Len(r) PROVE Abs(r, i) \in {n \in Sched(q) : n.id # id}
    <3>1. PICK j \in 1 .. Len(q) : Abs(r, i) = Abs(q, j) /\ j = IF i < at THEN i ELSE i + 1
      BY <2>3
    <3>2. j # at
      BY <2>1, <3>1
    <3>3. q[j].id # id
      BY <2>2, <3>2 DEF Distinct
    <3>4. Abs(q, j).id = q[j].id
      BY AbsFacts
    <3> QED BY <3>1, <3>3, <3>4 DEF Sched
  <2>6. ASSUME NEW j \in 1 .. Len(q), Abs(q, j).id # id PROVE Abs(q, j) \in Sched(r)
    <3>0. j # at
      BY <2>2, <2>6, AbsFacts
    <3>1. CASE j < at
      <4>1. j \in 1 .. at - 1 /\ j \in 1 .. Len(r)
        BY <2>1, <3>1
      <4> QED BY <2>2, <4>1 DEF Sched
    <3>2. CASE j > at
      <4>1. j - 1 \in 1 .. Len(r) /\ j - 1 \in at .. Len(q) - 1 /\ (j - 1) + 1 = j
        BY <2>1, <3>2
      <4>2. Abs(r, j - 1) = Abs(q, j)
        BY <2>2, <4>1
      <4> QED BY <4>1, <4>2 DEF Sched
    <3> QED BY <2>1, <3>0, <3>1, <3>2
  <2>7. Sched(r) \subseteq {n \in Sched(q) : n.id # id}
    BY <2>5 DEF Sched
  <2>8. {n \in Sched(q) : n.id # id} \subseteq Sched(r)
    BY <2>6 DEF Sched
  <2> QED BY <2>1, <2>4, <2>7, <2>8 DEF r
<1> QED BY <1>0, <1>1

LEMMA LeftTimerTells ==
  ASSUME NEW q \in Seq(Timers), Distinct(q), NEW n \in Sched(q)
  PROVE  LeftTimer(q, n.id) = n.time
<1>1. PICK i \in 1 .. Len(q) : n = Abs(q, i)
  BY DEF Sched
<1>2. n.id = q[i].id /\ n.time = Due(q)[i]
  BY <1>1, AbsFacts
<1>3. Places(q, n.id) = {i}
  BY <1>2 DEF Places, Distinct
<1>4. Min({i}) = i
  <2> DEFINE S == {i}
  <2>1. S \in SUBSET Nat /\ S # {}
    OBVIOUS
  <2>2. Min(S) \in S
    <3> HIDE DEF S
    <3> QED BY <2>1, MinLeast
  <2> QED BY <2>2
<1> QED BY <1>2, <1>3, <1>4 DEF LeftTimer

LEMMA LeftTimerNone ==
  ASSUME NEW q \in Seq(Timers), NEW id, \A n \in Sched(q) : n.id # id
  PROVE  LeftTimer(q, id) = -1
<1>1. Places(q, id) = {}
  BY AbsFacts DEF Places, Sched
<1> QED BY <1>1 DEF LeftTimer

(* The nodes of the queue are its timers but for the time they hold.       *)
Like(n, m) ==
  n.id = m.id /\ n.func = m.func /\ n.g = m.g /\ n.epoch = m.epoch

LEMMA RangeSched ==
  ASSUME NEW q \in Seq(Timers)
  PROVE  /\ \A n \in Range(q) : n \in Timers /\ \E m \in Sched(q) : Like(n, m)
         /\ \A m \in Sched(q) : m \in Timers /\ \E n \in Range(q) : Like(n, m)
<1>1. ASSUME NEW i \in 1 .. Len(q)
      PROVE  /\ q[i] \in Timers /\ Abs(q, i) \in Timers /\ Like(q[i], Abs(q, i))
             /\ q[i] \in Range(q) /\ Abs(q, i) \in Sched(q)
  <2>1. q[i] \in Range(q)
    BY DEF Range
  <2> QED BY <2>1, AbsFacts DEF Like, Sched
<1>2. \A n \in Range(q) : \E i \in 1 .. Len(q) : n = q[i]
  BY DEF Range
<1>3. \A m \in Sched(q) : \E i \in 1 .. Len(q) : m = Abs(q, i)
  BY DEF Sched
<1> QED BY <1>1, <1>2, <1>3

LEMMA SchedUnique ==
  ASSUME NEW q \in Seq(Timers), Distinct(q), NEW n \in Sched(q), NEW m \in Sched(q),
         n.id = m.id
  PROVE  n = m
<1>1. PICK i \in 1 .. Len(q) : n = Abs(q, i)
  BY DEF Sched
<1>2. PICK j \in 1 .. Len(q) : m = Abs(q, j)
  BY DEF Sched
<1>3. q[i].id = q[j].id
  BY <1>1, <1>2, AbsFacts
<1> QED BY <1>1, <1>2, <1>3 DEF Distinct

(* The nodes that are due come first.                                      *)
LEMMA DueFirst ==
  ASSUME NEW q \in Seq(Timers), NEW e \in Nat
  PROVE  /\ DueCount(q, e) \in 0 .. Len(q)
         /\ \A i \in 1 .. Len(q) : Due(q)[i] <= e <=> i <= DueCount(q, e)
<1> DEFINE due == Due(q)
           late == {i \in 1 .. Len(q) : due[i] > e}
           k == IF late = {} THEN Len(q) ELSE Min(late) - 1
<1>0. /\ Len(q) \in Nat /\ DOMAIN q = 1 .. Len(q)
      /\ \A i \in 0 .. Len(q) : due[i] \in Nat
  BY DueSums
<1>1. /\ k \in 0 .. Len(q)
      /\ \A i \in 1 .. k : i \notin late
      /\ k < Len(q) => k + 1 \in late
  <2>1. CASE late = {}
    BY <1>0, <2>1
  <2>2. CASE late # {}
    <3>1. late \in SUBSET Nat /\ late \subseteq 1 .. Len(q)
      OBVIOUS
    <3> HIDE DEF late
    <3>2. Min(late) \in late /\ \A y \in late : Min(late) <= y
      BY <2>2, <3>1, MinLeast
    <3>3. k = Min(late) - 1
      BY <2>2
    <3> HIDE DEF k
    <3> DEFINE m == Min(late)
    <3>4. m \in 1 .. Len(q) /\ k = m - 1 /\ m \in late /\ \A y \in late : m <= y
      BY <3>1, <3>2, <3>3
    <3> HIDE DEF m
    <3>5. \A i \in 1 .. k : ~(m <= i)
      BY <1>0, <3>4
    <3>6. k \in 0 .. Len(q) /\ k + 1 = m
      BY <1>0, <3>4
    <3> QED BY <3>4, <3>5, <3>6
  <2> QED BY <2>1, <2>2
<1> HIDE DEF k
<1>2. ASSUME NEW i \in 1 .. Len(q) PROVE due[i] <= e <=> i <= k
  <2>1. CASE i <= k
    BY <1>0, <1>1, <2>1
  <2>2. CASE i > k
    <3>1. k + 1 \in 1 .. Len(q) /\ k + 1 <= i /\ due[k + 1] > e
      BY <1>0, <1>1, <2>2
    <3>2. due[k + 1] <= due[i]
      BY <1>0, <3>1, DueOrdered
    <3>3. due[i] \in Nat /\ due[k + 1] \in Nat
      BY <1>0, <3>1
    <3> QED BY <1>0, <1>1, <2>2, <3>1, <3>2, <3>3
  <2> QED BY <1>0, <1>1, <2>1, <2>2
<1>3. {i \in DOMAIN q : due[i] <= e} = 1 .. k
  BY <1>0, <1>1, <1>2
<1>4. DueCount(q, e) = k
  <2>1. DueCount(q, e) = Cardinality(1 .. k)
    BY <1>3 DEF DueCount
  <2> QED BY <1>1, <2>1, FS_Interval
<1> QED BY <1>1, <1>2, <1>4

LEMMA RemainingPlaces ==
  ASSUME NEW q \in Seq(Timers), NEW e \in Nat
  PROVE  /\ Remaining(q, e) \in Seq(Timers)
         /\ Len(Remaining(q, e)) = Len(q) - DueCount(q, e)
         /\ \A i \in 1 .. Len(q) - DueCount(q, e) :
              /\ Due(q)[DueCount(q, e) + i] - e \in Nat
              /\ Abs(Remaining(q, e), i)
                   = Retime(q[DueCount(q, e) + i], Due(q)[DueCount(q, e) + i] - e)
<1>k. PICK k : k = DueCount(q, e)
  OBVIOUS
<1> DEFINE due == Due(q)
           rest == SubSeq(q, k + 1, Len(q))
           r == Remaining(q, e)
<1>0. /\ Len(q) \in Nat /\ k \in 0 .. Len(q)
      /\ \A i \in 0 .. Len(q) : due[i] \in Nat
      /\ due[0] = 0
      /\ \A i \in 1 .. Len(q) : due[i] = due[i - 1] + q[i].time
      /\ \A i \in 1 .. Len(q) : q[i] \in Timers /\ q[i].time \in Nat
      /\ \A i \in 1 .. Len(q) : due[i] <= e <=> i <= k
  <2>1. \A i \in 1 .. Len(q) : q[i] \in Timers
    OBVIOUS
  <2>2. \A i \in 1 .. Len(q) : q[i].time \in Nat
    BY <2>1 DEF Timers
  <2>3. k \in 0 .. Len(q) /\ \A i \in 1 .. Len(q) : due[i] <= e <=> i <= k
    BY <1>k, DueFirst
  <2> QED BY <2>1, <2>2, <2>3, DueSums
<1>1. /\ rest \in Seq(Timers) /\ Len(rest) = Len(q) - k
      /\ \A i \in 1 .. Len(q) - k : rest[i] = q[k + i]
  <2>1. \A i \in k + 1 .. Len(q) : q[i] \in Timers
    BY <1>0
  <2> HIDE DEF Timers
  <2>2. /\ rest \in Seq(Timers)
        /\ Len(rest) = IF k + 1 <= Len(q) THEN Len(q) - (k + 1) + 1 ELSE 0
        /\ \A i \in 1 .. Len(q) - (k + 1) + 1 : rest[i] = q[k + 1 + i - 1]
    BY <1>0, <2>1, SubSeqProperties
  <2>3. Len(rest) = Len(q) - k
    BY <1>0, <2>2
  <2>4. ASSUME NEW i \in 1 .. Len(q) - k PROVE rest[i] = q[k + i]
    <3>1. i \in 1 .. Len(q) - (k + 1) + 1 /\ k + 1 + i - 1 = k + i
      BY <1>0
    <3> QED BY <2>2, <3>1
  <2> QED BY <2>2, <2>3, <2>4
<1>2. \A i \in 1 .. Len(q) - k : due[k + i] - e \in Nat
  <2>1. ASSUME NEW i \in 1 .. Len(q) - k PROVE due[k + i] - e \in Nat
    <3>1. k + i \in 1 .. Len(q) /\ ~(k + i <= k) /\ k + i \in 0 .. Len(q)
      BY <1>0
    <3>2. due[k + i] \in Nat /\ ~(due[k + i] <= e)
      BY <1>0, <3>1
    <3> QED BY <3>2
  <2> QED BY <2>1
<1>3. CASE k = Len(q)
  <2>1. rest = <<>>
    BY <1>0, <1>1, <1>3
  <2>2. r = rest
    BY <1>k, <2>1 DEF Remaining
  <2>3. /\ r \in Seq(Timers) /\ Len(r) = Len(q) - k
        /\ ~(\E i \in 1 .. Len(q) - k : TRUE)
    BY <1>0, <1>1, <1>3, <2>2
  <2> QED BY <1>k, <2>3
<1>4. CASE k # Len(q)
  <2> DEFINE t == due[k + 1] - e
             m == Retime(q[k + 1], t)
  <2>0. k + 1 \in 1 .. Len(q) /\ 1 \in 1 .. Len(q) - k /\ t \in Nat /\ q[k + 1] \in Timers
    BY <1>0, <1>2, <1>4
  <2>1. m \in Timers /\ m.time = t
    <3> HIDE DEF t
    <3> QED BY <2>0, Retimed
  <2>2. rest # <<>> /\ rest[1] = q[k + 1]
    <3>1. Len(rest) # 0 /\ rest[1] = q[k + 1]
      BY <1>0, <1>1, <2>0
    <3> HIDE DEF rest
    <3> QED BY <3>1
  <2>3. q[k + 1].time - (e - due[k]) = t
    <3>1. due[k + 1] = due[(k + 1) - 1] + q[k + 1].time /\ (k + 1) - 1 = k
          /\ due[k] \in Nat /\ q[k + 1].time \in Nat
      BY <1>0, <2>0
    <3> QED BY <3>1
  <2>4. r = [rest EXCEPT ![1] = m]
    <3>1. r = [rest EXCEPT ![1].time = @ - (e - due[k])]
      BY <1>k, <2>2 DEF Remaining
    <3>2. r = [rest EXCEPT ![1] = Retime(q[k + 1], q[k + 1].time - (e - due[k]))]
      BY <2>2, <3>1 DEF Retime
    <3> QED BY <2>3, <3>2
  <2> HIDE DEF m, rest, r
  <2>5. /\ r \in Seq(Timers) /\ Len(r) = Len(q) - k
        /\ r[1] = m /\ \A i \in 1 .. Len(q) - k : i # 1 => r[i] = q[k + i]
    <3> HIDE DEF Timers
    <3> QED BY <1>0, <1>1, <2>0, <2>1, <2>4
  <2> DEFINE d == [i \in 0 .. Len(q) - k |-> IF i = 0 THEN 0 ELSE due[k + i] - e]
  <2>6. d[0] = 0
    BY <1>0
  <2>7. ASSUME NEW i \in 1 .. Len(r) PROVE d[i] = d[i - 1] + r[i].time
    <3>0. i \in 1 .. Len(q) - k /\ i - 1 \in 0 .. Len(q) - k /\ i \in 0 .. Len(q) - k
          /\ k + i \in 1 .. Len(q) /\ i # 0
      BY <1>0, <2>5
    <3>1. CASE i = 1
      <4>1. d[i] = t /\ d[i - 1] = 0
        BY <3>0, <3>1
      <4>2. r[i].time = t
        BY <2>1, <2>5, <3>1
      <4> QED BY <2>0, <4>1, <4>2
    <3>2. CASE i # 1
      <4>1. d[i] = due[k + i] - e /\ d[i - 1] = due[k + i - 1] - e
        <5>1. k + (i - 1) = k + i - 1 /\ i - 1 # 0
          BY <1>0, <3>0, <3>2
        <5> QED BY <3>0, <5>1
      <4>2. r[i] = q[k + i]
        BY <2>5, <3>0, <3>2
      <4>3. due[k + i] = due[k + i - 1] + q[k + i].time
            /\ due[k + i - 1] \in Nat /\ q[k + i].time \in Nat
        <5>1. k + i - 1 \in 0 .. Len(q)
          BY <1>0, <3>0
        <5> QED BY <1>0, <3>0, <5>1
      <4> QED BY <4>1, <4>2, <4>3
    <3> QED BY <3>1, <3>2
  <2>8. \A i \in 0 .. Len(q) - k : Due(r)[i] = d[i]
    <3> HIDE DEF d
    <3> QED BY <2>5, <2>6, <2>7, DueOnly
  <2>9. ASSUME NEW i \in 1 .. Len(q) - k
        PROVE  Abs(r, i) = Retime(q[k + i], due[k + i] - e)
    <3>1. Due(r)[i] = due[k + i] - e
      <4>1. i \in 0 .. Len(q) - k /\ i # 0
        BY <1>0
      <4> QED BY <2>8, <4>1
    <3>2. CASE i = 1
      <4>1. Abs(r, i) = Retime(m, t)
        BY <2>5, <3>1, <3>2 DEF Abs
      <4>2. Retime(m, t) = Retime(q[k + 1], t)
        <5> HIDE DEF t
        <5> QED BY <2>0, Retimed DEF m
      <4> QED BY <3>2, <4>1, <4>2
    <3>3. CASE i # 1
      BY <2>5, <3>1, <3>3 DEF Abs
    <3> QED BY <3>2, <3>3
  <2> QED BY <1>2, <1>k, <2>5, <2>9 DEF r
<1> QED BY <1>k, <1>3, <1>4

(* Ageing splits the timers: those due are handed out in the order of      *)
(* their times, the others keep what is left of theirs.                    *)
LEMMA AgedRest ==
  ASSUME NEW q \in Seq(Timers), NEW e \in Nat, Distinct(q)
  PROVE  /\ Remaining(q, e) \in Seq(Timers) /\ Distinct(Remaining(q, e))
         /\ \A n \in Sched(Remaining(q, e)) :
              \E m \in Sched(q) : m.time > e /\ Like(n, m) /\ n.time = m.time - e
         /\ \A m \in Sched(q) : m.time > e =>
              \E n \in Sched(Remaining(q, e)) : Like(n, m) /\ n.time = m.time - e
<1> DEFINE r == Remaining(q, e)
<1>0. PICK k : k = DueCount(q, e)
  OBVIOUS
<1>1. /\ k \in 0 .. Len(q) /\ Len(q) \in Nat
      /\ \A i \in 1 .. Len(q) : Due(q)[i] <= e <=> i <= k
  <2>1. Len(q) \in Nat
    OBVIOUS
  <2> QED BY <1>0, <2>1, DueFirst
<1>2. /\ r \in Seq(Timers) /\ Len(r) = Len(q) - k
      /\ \A i \in 1 .. Len(q) - k :
           Due(q)[k + i] - e \in Nat /\ Abs(r, i) = Retime(q[k + i], Due(q)[k + i] - e)
  BY <1>0, RemainingPlaces
<1> HIDE DEF r
<1>3. ASSUME NEW i \in 1 .. Len(r)
      PROVE  /\ k + i \in 1 .. Len(q) /\ Abs(q, k + i) \in Sched(q)
             /\ Abs(q, k + i).time > e /\ Like(Abs(r, i), Abs(q, k + i))
             /\ Abs(r, i).time = Abs(q, k + i).time - e
             /\ r[i].id = q[k + i].id
  <2> DEFINE t == Due(q)[k + i] - e
  <2>1. k + i \in 1 .. Len(q) /\ ~(k + i <= k) /\ i \in 1 .. Len(q) - k
    BY <1>1, <1>2
  <2>2. q[k + i] \in Timers /\ t \in Nat /\ Abs(r, i) = Retime(q[k + i], t)
    BY <1>2, <2>1
  <2>3. Abs(r, i).time = t /\ Like(Abs(r, i), q[k + i])
    <3> HIDE DEF t
    <3> QED BY <2>2, Retimed DEF Like
  <2>4. Abs(q, k + i).time = Due(q)[k + i] /\ Like(q[k + i], Abs(q, k + i))
    BY <2>1, AbsFacts DEF Like
  <2>5. Abs(q, k + i).time > e
    <3>1. Due(q)[k + i] \in Nat /\ ~(Due(q)[k + i] <= e)
      <4>1. k + i \in 0 .. Len(q)
        BY <2>1
      <4> QED BY <1>1, <2>1, <4>1, DueSums
    <3> QED BY <2>4, <3>1
  <2>6. Abs(r, i).id = r[i].id
    BY <1>2, AbsFacts
  <2>7. Abs(q, k + i) \in Sched(q)
    BY <2>1 DEF Sched
  <2> QED BY <2>1, <2>3, <2>4, <2>5, <2>6, <2>7 DEF Like
<1>4. Distinct(r)
  <2>1. ASSUME NEW i \in 1 .. Len(r), NEW j \in 1 .. Len(r), r[i].id = r[j].id
        PROVE  i = j
    <3>1. q[k + i].id = q[k + j].id /\ k + i \in 1 .. Len(q) /\ k + j \in 1 .. Len(q)
      BY <1>3, <2>1
    <3>2. k + i = k + j
      BY <3>1 DEF Distinct
    <3> QED BY <1>1, <3>2
  <2> QED BY <2>1 DEF Distinct
<1>5. ASSUME NEW n \in Sched(r)
      PROVE  \E m \in Sched(q) : m.time > e /\ Like(n, m) /\ n.time = m.time - e
  <2>1. PICK i \in 1 .. Len(r) : n = Abs(r, i)
    BY DEF Sched
  <2> QED BY <1>3, <2>1
<1>6. ASSUME NEW m \in Sched(q), m.time > e
      PROVE  \E n \in Sched(r) : Like(n, m) /\ n.time = m.time - e
  <2>1. PICK j \in 1 .. Len(q) : m = Abs(q, j)
    BY DEF Sched
  <2>2. Due(q)[j] \in Nat /\ ~(Due(q)[j] <= e)
    <3>1. j \in 0 .. Len(q)
      OBVIOUS
    <3>2. m.time = Due(q)[j]
      BY <2>1, AbsFacts
    <3> QED BY <1>6, <3>1, <3>2, DueSums
  <2>3. j - k \in 1 .. Len(r) /\ k + (j - k) = j
    BY <1>1, <1>2, <2>2
  <2>4. Abs(r, j - k) \in Sched(r)
    BY <2>3 DEF Sched
  <2> QED BY <1>3, <2>1, <2>3, <2>4
<1> QED BY <1>2, <1>4, <1>5, <1>6 DEF r

LEMMA AgedDue ==
  ASSUME NEW q \in Seq(Timers), NEW e \in Nat, Distinct(q)
  PROVE  /\ Expired(q, e) \in Seq(Timers) /\ Distinct(Expired(q, e))
         /\ \A i \in 1 .. Len(Expired(q, e)) :
              \E m \in Sched(q) : m.time <= e /\ Like(Expired(q, e)[i], m)
         /\ \A m \in Sched(q) : m.time <= e =>
              \E i \in 1 .. Len(Expired(q, e)) : Like(Expired(q, e)[i], m)
         /\ \A i, j \in 1 .. Len(Expired(q, e)) : i < j =>
              \E m, l \in Sched(q) : /\ Like(Expired(q, e)[i], m)
                                     /\ Like(Expired(q, e)[j], l)
                                     /\ m.time <= l.time
<1> DEFINE k == DueCount(q, e)
           x == Expired(q, e)
<1>1. /\ k \in 0 .. Len(q) /\ Len(q) \in Nat
      /\ \A i \in 1 .. Len(q) : Due(q)[i] <= e <=> i <= k
  <2>1. Len(q) \in Nat
    OBVIOUS
  <2>2. /\ DueCount(q, e) \in 0 .. Len(q)
        /\ \A i \in 1 .. Len(q) : Due(q)[i] <= e <=> i <= DueCount(q, e)
    BY DueFirst
  <2> QED BY <2>1, <2>2
<1>2. x \in Seq(Timers) /\ Len(x) = k /\ \A i \in 1 .. k : x[i] = q[i]
  <2>1. \A i \in 1 .. k : q[i] \in Timers
    BY <1>1
  <2>2. x = SubSeq(q, 1, k)
    BY DEF Expired
  <2> HIDE DEF Timers, k, x
  <2> QED BY <1>1, <2>1, <2>2, SubSeqProperties
<1> HIDE DEF k, x
<1>3. ASSUME NEW i \in 1 .. Len(x)
      PROVE  /\ i \in 1 .. Len(q) /\ x[i] = q[i] /\ Abs(q, i) \in Sched(q)
             /\ Like(x[i], Abs(q, i)) /\ Abs(q, i).time = Due(q)[i] /\ Due(q)[i] <= e
  <2>1. i \in 1 .. Len(q) /\ x[i] = q[i]
    BY <1>1, <1>2
  <2>2. Due(q)[i] <= e
    BY <1>1, <1>2, <2>1
  <2>3. Abs(q, i) \in Sched(q)
    BY <2>1 DEF Sched
  <2> QED BY <2>1, <2>2, <2>3, AbsFacts DEF Like
<1>4. Distinct(x)
  BY <1>3 DEF Distinct
<1>5. ASSUME NEW m \in Sched(q), m.time <= e
      PROVE  \E i \in 1 .. Len(x) : Like(x[i], m)
  <2>1. PICK j \in 1 .. Len(q) : m = Abs(q, j)
    BY DEF Sched
  <2>2. j \in 1 .. Len(x)
    <3>1. m.time = Due(q)[j]
      BY <2>1, AbsFacts
    <3> QED BY <1>1, <1>2, <1>5, <3>1
  <2> QED BY <1>3, <2>1, <2>2
<1>6. ASSUME NEW i \in 1 .. Len(x), NEW j \in 1 .. Len(x), i < j
      PROVE  \E m, l \in Sched(q) : Like(x[i], m) /\ Like(x[j], l) /\ m.time <= l.time
  <2>1. Due(q)[i] <= Due(q)[j]
    <3>1. i \in 0 .. Len(q) /\ j \in 0 .. Len(q) /\ i <= j
      BY <1>1, <1>2, <1>6
    <3> QED BY <3>1, DueOrdered
  <2> QED BY <1>3, <2>1
<1>7. \A i \in 1 .. Len(x) : \E m \in Sched(q) : m.time <= e /\ Like(x[i], m)
  BY <1>3
<1> QED BY <1>2, <1>4, <1>5, <1>6, <1>7 DEF x

-----------------------------------------------------------------------------
(* The invariant *)

Name(f, g, e) == <<f, g, e, 1>>
Of(n, f, g, e) == n.func = f /\ n.g = g /\ n.epoch = e

Listaddrs(g, e) ==
  [al_pv : 1 .. 3, al_old : {0, OldAge},
   al_query : {NoTimer, Elsewhere, Name("SendQuery", g, e)},
   al_timerid : {Name("DelVif", g, e)},
   al_versiontimer : {NoTimer, Name("SwitchVersion", g, e)}]

(* What a group has of the timers S in the queue and E being handled.      *)
JoinedOK(l, S, E, g, e) ==
  /\ l \in Listaddrs(g, e)
  /\ \E n \in S \cup E : Of(n, "DelVif", g, e)
  /\ (\E n \in S \cup E : Of(n, "SendQuery", g, e)) =>
       l.al_query = Name("SendQuery", g, e)
  /\ (\E n \in S : Of(n, "SwitchVersion", g, e)) =>
       l.al_versiontimer = Name("SwitchVersion", g, e)
  /\ l.al_pv = 1 => /\ l.al_versiontimer = Name("SwitchVersion", g, e)
                    /\ \E n \in S \cup E : Of(n, "SwitchVersion", g, e)
  /\ l.al_query # NoTimer =>
       \A n \in S : Of(n, "DelVif", g, e) => \E t \in ShortTimes : n.time <= t

(* What is left of it when it is gone.                                     *)
GoneOK(S, E, g, e) ==
  /\ \A n \in S : ~(n.g = g /\ n.epoch = e)
  /\ \A n \in E : n.g = g /\ n.epoch = e => n.func = "SwitchVersion"

GroupOK(l, S, E, g, e) ==
  IF l = NoGroup THEN GoneOK(S, E, g, e) ELSE JoinedOK(l, S, E, g, e)

Named(S, e) ==
  \A n \in S : n \in Timers /\ n.id = Name(n.func, n.g, n.epoch) /\ n.epoch <= e

(* The query of a leave comes before the end it announces.                 *)
AskedFirst(S) ==
  \A n, m \in S : n.func = "SendQuery" /\ m.func = "DelVif" /\ n.g = m.g
                  /\ n.epoch = m.epoch => n.time < m.time

OrderOK(x) ==
  \A i, j \in 1 .. Len(x) :
    i < j /\ x[i].func = "DelVif" /\ x[j].func = "SendQuery" =>
      ~(x[i].g = x[j].g /\ x[i].epoch = x[j].epoch)

TimersOK(S, E, e) ==
  /\ Named(S, e) /\ Named(E, e) /\ AskedFirst(S)
  /\ \A n \in S, m \in E : n.id # m.id

QueuesOK(q, x, e) ==
  /\ q \in Seq(Timers) /\ x \in Seq(Timers) /\ Distinct(q) /\ Distinct(x)
  /\ TimersOK(Sched(q), Range(x), e) /\ OrderOK(x)

GroupsOK ==
  /\ uv_groups \in [Groups -> {NoGroup} \cup UNION {Listaddrs(g, epoch) : g \in Groups}]
  /\ \A g \in Groups : GroupOK(uv_groups[g], Sched(Q), Range(expQ), g, epoch)

VifOK ==
  /\ uv_querier \in Others \cup {NoQuerier} /\ al_timer \in 0 .. QuerierTimeout
  /\ isQuerier \in BOOLEAN /\ vifUp \in BOOLEAN /\ uv_igmpv1_warn \in {0, 1}
  /\ epoch \in 0 .. MaxStops /\ misused \in BOOLEAN
  /\ epoch = 0 => vifUp
  /\ OneQuerier

IgmpInv == QueuesOK(Q, expQ, epoch) /\ GroupsOK /\ VifOK

LEMMA Names ==
  ASSUME NEW f, NEW g, NEW e
  PROVE  /\ Name(f, g, e) # NoTimer /\ Name(f, g, e) # Elsewhere
         /\ \A f2, g2, e2 : Name(f, g, e) = Name(f2, g2, e2)
                              => f = f2 /\ g = g2 /\ e = e2
<1>1. ASSUME NEW f2, NEW g2, NEW e2, Name(f, g, e) = Name(f2, g2, e2)
      PROVE  f = f2 /\ g = g2 /\ e = e2
  BY <1>1 DEF Name
<1>2. Name(f, g, e) # NoTimer
  <2>1. Len(Name(f, g, e)) = 4 /\ Len(NoTimer) = 0
    BY DEF Name, NoTimer
  <2> QED BY <2>1
<1>3. Name(f, g, e) # Elsewhere
  <2>1. Len(Name(f, g, e)) = 4 /\ Len(Elsewhere) = 1
    BY DEF Name, Elsewhere
  <2> QED BY <2>1
<1> QED BY <1>1, <1>2, <1>3

LEMMA NoGroupKnown ==
  ASSUME NEW g, NEW e, NEW l \in Listaddrs(g, e)
  PROVE  l # NoGroup
BY Names DEF Listaddrs, NoGroup

(* A node that is taken out is found by its name.                          *)
LEMMA ClearNamed ==
  ASSUME NEW q \in Seq(Timers), Distinct(q), NEW f, NEW g, NEW e, Named(Sched(q), e),
         NEW id \in {NoTimer, Elsewhere, Name(f, g, e)},
         (\E n \in Sched(q) : Of(n, f, g, e)) => id = Name(f, g, e)
  PROVE  /\ ClearTimer(q, id) \in Seq(Timers) /\ Distinct(ClearTimer(q, id))
         /\ Named(Sched(ClearTimer(q, id)), e)
         /\ \A n : n \in Sched(ClearTimer(q, id)) <=> n \in Sched(q) /\ ~Of(n, f, g, e)
<1>1. ASSUME NEW n \in Sched(q)
      PROVE  n.id # id <=> ~Of(n, f, g, e)
  <2>1. n.id = Name(n.func, n.g, n.epoch)
    BY DEF Named
  <2>2. n.id = Name(f, g, e) <=> Of(n, f, g, e)
    BY <2>1, Names DEF Of
  <2>3. n.id # NoTimer /\ n.id # Elsewhere
    BY <2>1, Names
  <2> QED BY <2>2, <2>3
<1>2. Sched(ClearTimer(q, id)) = {n \in Sched(q) : n.id # id}
  BY ClearTimerTakes
<1>3. \A n : n \in Sched(ClearTimer(q, id)) <=> n \in Sched(q) /\ ~Of(n, f, g, e)
  BY <1>1, <1>2
<1> QED BY <1>3, ClearTimerTakes DEF Named

Node(f, g, e, t) ==
  [id |-> Name(f, g, e), time |-> t, func |-> f, g |-> g, epoch |-> e]

LEMMA NodeFacts ==
  ASSUME NEW f \in Funcs, NEW g \in Groups, NEW e \in 0 .. MaxStops, NEW t \in Nat
  PROVE  /\ Node(f, g, e, t) \in Timers
         /\ Node(f, g, e, t).id = Name(f, g, e) /\ Node(f, g, e, t).time = t
         /\ Node(f, g, e, t).func = f /\ Node(f, g, e, t).g = g
         /\ Node(f, g, e, t).epoch = e /\ Of(Node(f, g, e, t), f, g, e)
BY DEF Node, Timers, IdsOf, Name, Of

(* A node that is set has the name it should have.                         *)
LEMMA AddNamed ==
  ASSUME NEW q \in Seq(Timers), Distinct(q), NEW f \in Funcs, NEW g \in Groups,
         epoch \in 0 .. MaxStops, Named(Sched(q), epoch), NEW t \in Nat,
         \A n \in Sched(q) : ~Of(n, f, g, epoch)
  PROVE  /\ NewId(q, f, g) = Name(f, g, epoch)
         /\ Add(q, t, f, g) \in Seq(Timers) /\ Distinct(Add(q, t, f, g))
         /\ Named(Sched(Add(q, t, f, g)), epoch)
         /\ \A n : n \in Sched(Add(q, t, f, g)) <=>
                    n \in Sched(q) \/ n = Node(f, g, epoch, t)
<1>1. ASSUME NEW n \in Sched(q) PROVE n.id # Name(f, g, epoch)
  <2>1. n.id = Name(n.func, n.g, n.epoch)
    BY DEF Named
  <2> QED BY <2>1, Names DEF Of
<1>2. \A n \in Range(q) : n.id # Name(f, g, epoch)
  BY <1>1, RangeSched DEF Like
<1> DEFINE free == {k \in 1 .. Len(q) + 1 : \A n \in Range(q) : n.id # <<f, g, epoch, k>>}
<1>3. 1 \in free /\ free \in SUBSET Nat /\ free \subseteq 1 .. Len(q) + 1
  BY <1>2 DEF Name
<1>4. Min(free) = 1
  <2> HIDE DEF free
  <2>1. Min(free) \in free /\ Min(free) <= 1
    BY <1>3, MinLeast
  <2>2. Min(free) \in 1 .. Len(q) + 1
    BY <1>3, <2>1
  <2> QED BY <2>1, <2>2
<1>5. NewId(q, f, g) = Name(f, g, epoch)
  BY <1>4 DEF NewId, Name
<1> DEFINE node == Node(f, g, epoch, t)
<1>6. Add(q, t, f, g) = SetTimer(q, node)
  BY <1>5 DEF Add, Node
<1>7. node \in Timers /\ node.id = Name(f, g, epoch) /\ node.epoch <= epoch
      /\ node.func = f /\ node.g = g /\ node.epoch = epoch
  BY NodeFacts
<1> HIDE DEF node
<1>8. /\ SetTimer(q, node) \in Seq(Timers) /\ Distinct(SetTimer(q, node))
      /\ Sched(SetTimer(q, node)) = Sched(q) \cup {node}
  BY <1>1, <1>7, SetTimerAdds
<1>9. Named(Sched(q) \cup {node}, epoch)
  BY <1>7 DEF Named
<1>10. \A n : n \in Sched(SetTimer(q, node)) <=> n \in Sched(q) \/ n = node
  BY <1>8
<1> QED BY <1>5, <1>6, <1>8, <1>9, <1>10 DEF node

(* A group is none the worse for what happens to other timers.             *)
LEMMA GroupElsewhere ==
  ASSUME NEW l, NEW S, NEW E, NEW S2, NEW E2, NEW g, NEW e, GroupOK(l, S, E, g, e),
         \A n : n.g = g /\ n.epoch = e => (n \in S2 <=> n \in S) /\ (n \in E2 <=> n \in E)
  PROVE  GroupOK(l, S2, E2, g, e)
<1>1. CASE l = NoGroup
  BY <1>1 DEF GroupOK, GoneOK
<1>2. CASE l # NoGroup
  <2>1. JoinedOK(l, S, E, g, e)
    BY <1>2 DEF GroupOK
  <2>2. \A n, f : Of(n, f, g, e) => (n \in S2 <=> n \in S) /\ (n \in E2 <=> n \in E)
    BY DEF Of
  <2>3. JoinedOK(l, S2, E2, g, e)
    BY <2>1, <2>2 DEF JoinedOK
  <2> QED BY <1>2, <2>3 DEF GroupOK
<1> QED BY <1>1, <1>2

LEMMA EmptyFacts ==
  /\ \A n : n \notin Range(<<>>)
  /\ <<>> \in Seq(Timers) /\ Distinct(<<>>) /\ OrderOK(<<>>) /\ Sched(<<>>) = {}
<1>1. Len(<<>>) = 0 /\ DOMAIN <<>> = 1 .. 0
  OBVIOUS
<1>2. \A i : i \notin 1 .. 0
  OBVIOUS
<1> QED BY <1>1, <1>2 DEF Range, Distinct, OrderOK, Sched

(* Nothing is being handled, only the timers of one group change, and its  *)
(* lifetime becomes t.                                                     *)
Retimes(g, t) ==
  /\ expQ = <<>> /\ expQ' = expQ /\ epoch' = epoch
  /\ Q' \in Seq(Timers) /\ Distinct(Q') /\ Named(Sched(Q'), epoch)
  /\ \A n : ~(n.g = g /\ n.epoch = epoch) => (n \in Sched(Q') <=> n \in Sched(Q))
  /\ Node("DelVif", g, epoch, t) \in Sched(Q')
  /\ \A n, m \in Sched(Q') : Of(n, "SendQuery", g, epoch) /\ Of(m, "DelVif", g, epoch)
                              => n.time < m.time
  /\ \E l \in Listaddrs(g, epoch) :
       /\ uv_groups' = [uv_groups EXCEPT ![g] = l]
       /\ JoinedOK(l, Sched(Q'), {}, g, epoch)

LEMMA RetimesKeeps ==
  ASSUME IgmpInv, NEW g \in Groups, NEW t, Retimes(g, t)
  PROVE  QueuesOK(Q', expQ', epoch') /\ GroupsOK'
<1>0. /\ expQ = <<>> /\ expQ' = expQ /\ epoch' = epoch
      /\ Q' \in Seq(Timers) /\ Distinct(Q') /\ Named(Sched(Q'), epoch)
      /\ \A n : ~(n.g = g /\ n.epoch = epoch) => (n \in Sched(Q') <=> n \in Sched(Q))
      /\ \A n, m \in Sched(Q') : Of(n, "SendQuery", g, epoch) /\ Of(m, "DelVif", g, epoch)
                                  => n.time < m.time
  BY DEF Retimes
<1>l. PICK l \in Listaddrs(g, epoch) : /\ uv_groups' = [uv_groups EXCEPT ![g] = l]
                                        /\ JoinedOK(l, Sched(Q'), {}, g, epoch)
  BY DEF Retimes
<1>1. QueuesOK(Q', expQ', epoch')
  <2>1. AskedFirst(Sched(Q'))
    <3>1. ASSUME NEW n \in Sched(Q'), NEW m \in Sched(Q'), n.func = "SendQuery",
                 m.func = "DelVif", n.g = m.g, n.epoch = m.epoch
          PROVE  n.time < m.time
      <4>1. CASE n.g = g /\ n.epoch = epoch
        BY <1>0, <3>1, <4>1 DEF Of
      <4>2. CASE ~(n.g = g /\ n.epoch = epoch)
        <5>1. n \in Sched(Q) /\ m \in Sched(Q)
          BY <1>0, <3>1, <4>2
        <5>2. AskedFirst(Sched(Q))
          BY DEF IgmpInv, QueuesOK, TimersOK
        <5> QED BY <3>1, <5>1, <5>2 DEF AskedFirst
      <4> QED BY <4>1, <4>2
    <3> QED BY <3>1 DEF AskedFirst
  <2>2. TimersOK(Sched(Q'), Range(<<>>), epoch)
    BY <1>0, <2>1, EmptyFacts DEF TimersOK, Named
  <2> QED BY <1>0, <2>2, EmptyFacts DEF QueuesOK
<1>2. \A n : n \notin Range(expQ) /\ n \notin Range(expQ')
  BY <1>0, EmptyFacts
<1>3. uv_groups \in [Groups -> {NoGroup} \cup UNION {Listaddrs(h, epoch) : h \in Groups}]
  BY DEF IgmpInv, GroupsOK
<1>4. /\ uv_groups' \in [Groups -> {NoGroup} \cup UNION {Listaddrs(h, epoch') : h \in Groups}]
      /\ uv_groups'[g] = l /\ \A h \in Groups \ {g} : uv_groups'[h] = uv_groups[h]
  BY <1>0, <1>l, <1>3
<1>5. ASSUME NEW h \in Groups
      PROVE  GroupOK(uv_groups'[h], Sched(Q'), Range(expQ'), h, epoch')
  <2>1. CASE h = g
    <3>1. Range(expQ') = {}
      BY <1>2
    <3>2. l # NoGroup
      BY NoGroupKnown
    <3> QED BY <1>0, <1>4, <1>l, <2>1, <3>1, <3>2 DEF GroupOK
  <2>2. CASE h # g
    <3>1. GroupOK(uv_groups[h], Sched(Q), Range(expQ), h, epoch)
      BY DEF IgmpInv, GroupsOK
    <3>2. \A n : n.g = h /\ n.epoch = epoch =>
            (n \in Sched(Q') <=> n \in Sched(Q)) /\ (n \in Range(expQ') <=> n \in Range(expQ))
      BY <1>0, <1>2, <2>2
    <3>3. GroupOK(uv_groups[h], Sched(Q'), Range(expQ'), h, epoch)
      BY <3>1, <3>2, GroupElsewhere
    <3> QED BY <1>0, <1>4, <2>2, <3>3
  <2> QED BY <2>1, <2>2
<1> QED BY <1>1, <1>4, <1>5 DEF GroupsOK

(* What a report does.                                                     *)
LEMMA ReportEffect ==
  ASSUME IgmpAssumption, IgmpInv, NEW g \in Groups, NEW type \in OldReports \cup {"v3"},
         GroupReport(g, type)
  PROVE  Retimes(g, MembershipTimeout)
<1> DEFINE l == IF Joined(g) THEN Heard(uv_groups[g], type) ELSE NewGroup(type)
           older == TimesVersion(l, type)
           q1 == IF Joined(g) THEN Renewed(Q, uv_groups[g]) ELSE Q
           q2 == Add(q1, MembershipTimeout, "DelVif", g)
           q3 == ClearTimer(q2, l.al_versiontimer)
           q4 == Add(q3, MembershipTimeout, "SwitchVersion", g)
           l2 == [l EXCEPT !.al_timerid = NewId(q1, "DelVif", g),
                           !.al_versiontimer =
                             IF older THEN NewId(q3, "SwitchVersion", g) ELSE @]
           D == Node("DelVif", g, epoch, MembershipTimeout)
           V == Node("SwitchVersion", g, epoch, MembershipTimeout)
<1>0. /\ expQ = <<>> /\ expQ' = expQ /\ epoch' = epoch
      /\ Q' = IF older THEN q4 ELSE q2
      /\ uv_groups' = [uv_groups EXCEPT ![g] = l2]
  BY DEF GroupReport, Listening, Idle, vif
<1>1. /\ Q \in Seq(Timers) /\ Distinct(Q) /\ Named(Sched(Q), epoch)
      /\ epoch \in 0 .. MaxStops /\ MembershipTimeout \in Nat
      /\ GroupOK(uv_groups[g], Sched(Q), {}, g, epoch)
  <2>1. Range(expQ) = {}
    BY <1>0, EmptyFacts
  <2> QED BY <2>1 DEF IgmpInv, QueuesOK, TimersOK, GroupsOK, VifOK, IgmpAssumption
<1>2. /\ q1 \in Seq(Timers) /\ Distinct(q1) /\ Named(Sched(q1), epoch)
      /\ \A n : n \in Sched(q1) <=> n \in Sched(Q) /\ ~Of(n, "SendQuery", g, epoch)
                                     /\ ~Of(n, "DelVif", g, epoch)
  <2>1. CASE Joined(g)
    <3>0. PICK id : id = uv_groups[g].al_query
      OBVIOUS
    <3> DEFINE r == ClearTimer(Q, id)
    <3>1. JoinedOK(uv_groups[g], Sched(Q), {}, g, epoch)
      BY <1>1, <2>1 DEF GroupOK, Joined
    <3>2. /\ id \in {NoTimer, Elsewhere, Name("SendQuery", g, epoch)}
          /\ uv_groups[g].al_timerid = Name("DelVif", g, epoch)
      BY <3>0, <3>1 DEF JoinedOK, Listaddrs
    <3>3. (\E n \in Sched(Q) : Of(n, "SendQuery", g, epoch)) =>
             id = Name("SendQuery", g, epoch)
      BY <3>0, <3>1 DEF JoinedOK
    <3>4. /\ r \in Seq(Timers) /\ Distinct(r) /\ Named(Sched(r), epoch)
          /\ \A n : n \in Sched(r) <=> n \in Sched(Q) /\ ~Of(n, "SendQuery", g, epoch)
      BY <1>1, <3>2, <3>3, ClearNamed
    <3> HIDE DEF r
    <3>5. /\ ClearTimer(r, Name("DelVif", g, epoch)) \in Seq(Timers)
          /\ Distinct(ClearTimer(r, Name("DelVif", g, epoch)))
          /\ Named(Sched(ClearTimer(r, Name("DelVif", g, epoch))), epoch)
          /\ \A n : n \in Sched(ClearTimer(r, Name("DelVif", g, epoch))) <=>
                       n \in Sched(r) /\ ~Of(n, "DelVif", g, epoch)
      BY <3>4, ClearNamed
    <3>6. q1 = ClearTimer(r, Name("DelVif", g, epoch))
      BY <2>1, <3>0, <3>2 DEF Renewed, r
    <3> QED BY <3>4, <3>5, <3>6
  <2>2. CASE ~Joined(g)
    <3>1. \A n \in Sched(Q) : ~(n.g = g /\ n.epoch = epoch)
      BY <1>1, <2>2 DEF GroupOK, GoneOK, Joined
    <3> QED BY <1>1, <2>2, <3>1 DEF Of
  <2> QED BY <2>1, <2>2
<1>3. /\ l.al_pv \in 1 .. 3 /\ l.al_old \in {0, OldAge} /\ l.al_query = NoTimer
      /\ l.al_versiontimer \in {NoTimer, Name("SwitchVersion", g, epoch)}
      /\ (\E n \in Sched(q1) : Of(n, "SwitchVersion", g, epoch)) =>
           l.al_versiontimer = Name("SwitchVersion", g, epoch)
      /\ l.al_pv = 1 => \/ older
                        \/ /\ l.al_versiontimer = Name("SwitchVersion", g, epoch)
                           /\ \E n \in Sched(Q) : Of(n, "SwitchVersion", g, epoch)
      /\ l = [al_pv |-> l.al_pv, al_old |-> l.al_old, al_query |-> NoTimer,
              al_timerid |-> l.al_timerid, al_versiontimer |-> l.al_versiontimer]
  <2>0. PvOf(type) \in 1 .. 3 /\ (PvOf(type) = 1 => type \in OldReports)
    BY DEF PvOf, OldReports
  <2>1. CASE Joined(g)
    <3> DEFINE o == uv_groups[g]
               P == {o.al_pv, PvOf(type)}
    <3>1. JoinedOK(o, Sched(Q), {}, g, epoch)
      BY <1>1, <2>1 DEF GroupOK, Joined
    <3>2. /\ o.al_pv \in 1 .. 3 /\ o.al_old \in {0, OldAge}
          /\ o.al_versiontimer \in {NoTimer, Name("SwitchVersion", g, epoch)}
          /\ o = [al_pv |-> o.al_pv, al_old |-> o.al_old, al_query |-> o.al_query,
                  al_timerid |-> o.al_timerid, al_versiontimer |-> o.al_versiontimer]
      BY <3>1 DEF JoinedOK, Listaddrs
    <3>3. l = [al_pv |-> Min(P), al_old |-> IF type = "v1" THEN OldAge ELSE o.al_old,
               al_query |-> NoTimer, al_timerid |-> o.al_timerid,
               al_versiontimer |-> o.al_versiontimer]
      BY <2>1, <3>2 DEF Heard
    <3>4. Min(P) \in P
      <4>1. P \in SUBSET Nat /\ P # {}
        BY <2>0, <3>2
      <4> HIDE DEF P
      <4> QED BY <4>1, MinLeast
    <3>5. (\E n \in Sched(Q) : Of(n, "SwitchVersion", g, epoch)) =>
            o.al_versiontimer = Name("SwitchVersion", g, epoch)
      BY <3>1 DEF JoinedOK
    <3>6. o.al_pv = 1 => /\ o.al_versiontimer = Name("SwitchVersion", g, epoch)
                         /\ \E n \in Sched(Q) : Of(n, "SwitchVersion", g, epoch)
      BY <3>1 DEF JoinedOK
    <3>7. l.al_pv = Min(P) /\ l.al_versiontimer = o.al_versiontimer /\ l.al_query = NoTimer
          /\ l.al_old \in {0, OldAge}
      BY <3>2, <3>3
    <3>8. l.al_pv = 1 => o.al_pv = 1 \/ older
      BY <2>0, <3>4, <3>7 DEF TimesVersion
    <3>9. l.al_pv \in 1 .. 3
      BY <2>0, <3>2, <3>4, <3>7
    <3>10. (\E n \in Sched(q1) : Of(n, "SwitchVersion", g, epoch)) =>
             l.al_versiontimer = Name("SwitchVersion", g, epoch)
      <4>1. Sched(q1) \subseteq Sched(Q)
        BY <1>2
      <4> QED BY <3>5, <3>7, <4>1
    <3> QED BY <3>2, <3>3, <3>6, <3>7, <3>8, <3>9, <3>10
  <2>2. CASE ~Joined(g)
    <3>1. l = NewGroup(type)
      BY <2>2
    <3>2. \A n \in Sched(Q) : ~(n.g = g /\ n.epoch = epoch)
      BY <1>1, <2>2 DEF GroupOK, GoneOK, Joined
    <3>3. ~(\E n \in Sched(q1) : Of(n, "SwitchVersion", g, epoch))
      BY <1>2, <3>2 DEF Of
    <3>4. /\ l.al_pv = PvOf(type) /\ l.al_old \in {0, OldAge} /\ l.al_query = NoTimer
          /\ l.al_versiontimer = NoTimer
          /\ l = [al_pv |-> l.al_pv, al_old |-> l.al_old, al_query |-> NoTimer,
                  al_timerid |-> l.al_timerid, al_versiontimer |-> l.al_versiontimer]
      BY <3>1 DEF NewGroup
    <3>5. l.al_pv = 1 => older
      BY <2>0, <3>4 DEF TimesVersion
    <3> QED BY <2>0, <3>3, <3>4, <3>5
  <2> QED BY <2>1, <2>2
<1> HIDE DEF l, q1, older
<1>4. /\ q2 \in Seq(Timers) /\ Distinct(q2) /\ Named(Sched(q2), epoch)
      /\ \A n : n \in Sched(q2) <=> n \in Sched(q1) \/ n = D
      /\ NewId(q1, "DelVif", g) = Name("DelVif", g, epoch)
  <2>1. "DelVif" \in Funcs /\ \A n \in Sched(q1) : ~Of(n, "DelVif", g, epoch)
    BY <1>2 DEF Funcs
  <2> QED BY <1>1, <1>2, <2>1, AddNamed
<1> HIDE DEF q2
<1>5. /\ D.func = "DelVif" /\ D.g = g /\ D.epoch = epoch /\ Of(D, "DelVif", g, epoch)
      /\ V.func = "SwitchVersion" /\ V.g = g /\ V.epoch = epoch
      /\ Of(V, "SwitchVersion", g, epoch)
  BY DEF Node, Of
<1> HIDE DEF D, V
<1>6. /\ q3 \in Seq(Timers) /\ Distinct(q3) /\ Named(Sched(q3), epoch)
      /\ \A n : n \in Sched(q3) <=> n \in Sched(q2) /\ ~Of(n, "SwitchVersion", g, epoch)
  <2>1. (\E n \in Sched(q2) : Of(n, "SwitchVersion", g, epoch)) =>
           l.al_versiontimer = Name("SwitchVersion", g, epoch)
    BY <1>3, <1>4, <1>5 DEF Of
  <2>2. l.al_versiontimer \in {NoTimer, Elsewhere, Name("SwitchVersion", g, epoch)}
    BY <1>3
  <2>3. PICK id : id = l.al_versiontimer
    OBVIOUS
  <2>4. /\ id \in {NoTimer, Elsewhere, Name("SwitchVersion", g, epoch)}
        /\ (\E n \in Sched(q2) : Of(n, "SwitchVersion", g, epoch)) =>
             id = Name("SwitchVersion", g, epoch)
        /\ q3 = ClearTimer(q2, id)
    BY <2>1, <2>2, <2>3
  <2> HIDE DEF q3
  <2>5. q2 \in Seq(Timers) /\ Distinct(q2) /\ Named(Sched(q2), epoch)
    BY <1>4
  <2>6. /\ ClearTimer(q2, id) \in Seq(Timers) /\ Distinct(ClearTimer(q2, id))
        /\ Named(Sched(ClearTimer(q2, id)), epoch)
        /\ \A n : n \in Sched(ClearTimer(q2, id)) <=>
                   n \in Sched(q2) /\ ~Of(n, "SwitchVersion", g, epoch)
    BY <2>4, <2>5, ClearNamed, SMTT(20)
  <2> QED BY <2>4, <2>6
<1> HIDE DEF q3
<1>7. /\ q4 \in Seq(Timers) /\ Distinct(q4) /\ Named(Sched(q4), epoch)
      /\ \A n : n \in Sched(q4) <=> n \in Sched(q3) \/ n = V
      /\ NewId(q3, "SwitchVersion", g) = Name("SwitchVersion", g, epoch)
  <2>1. "SwitchVersion" \in Funcs /\ \A n \in Sched(q3) : ~Of(n, "SwitchVersion", g, epoch)
    BY <1>6 DEF Funcs
  <2> QED BY <1>1, <1>6, <2>1, AddNamed DEF V
<1> HIDE DEF q4
<1>8. /\ Q' \in Seq(Timers) /\ Distinct(Q') /\ Named(Sched(Q'), epoch)
  BY <1>0, <1>4, <1>7
<1>9. ASSUME NEW n
      PROVE  /\ ~(n.g = g /\ n.epoch = epoch) => (n \in Sched(Q') <=> n \in Sched(Q))
             /\ n \in Sched(Q') => ~Of(n, "SendQuery", g, epoch)
             /\ n \in Sched(q1) /\ ~older => n \in Sched(Q')
  BY <1>0, <1>2, <1>4, <1>5, <1>6, <1>7 DEF Of
<1>10. D \in Sched(Q') /\ (older => V \in Sched(Q'))
  BY <1>0, <1>4, <1>5, <1>6, <1>7 DEF Of
<1>11. l2 = [al_pv |-> l.al_pv, al_old |-> l.al_old, al_query |-> NoTimer,
             al_timerid |-> Name("DelVif", g, epoch),
             al_versiontimer |-> IF older THEN Name("SwitchVersion", g, epoch)
                                          ELSE l.al_versiontimer]
  <2>1. PICK pv, old, id, version :
          l = [al_pv |-> pv, al_old |-> old, al_query |-> NoTimer, al_timerid |-> id,
               al_versiontimer |-> version]
    BY <1>3
  <2>2. l.al_pv = pv /\ l.al_old = old /\ l.al_versiontimer = version
    BY <2>1
  <2>3. CASE older
    <3>1. l2 = [l EXCEPT !.al_timerid = Name("DelVif", g, epoch),
                         !.al_versiontimer = Name("SwitchVersion", g, epoch)]
      BY <1>4, <1>7, <2>3
    <3> HIDE DEF l2
    <3> QED BY <2>1, <2>2, <2>3, <3>1
  <2>4. CASE ~older
    <3>1. l2 = [l EXCEPT !.al_timerid = Name("DelVif", g, epoch),
                         !.al_versiontimer = l.al_versiontimer]
      BY <1>4, <2>4
    <3> HIDE DEF l2
    <3> QED BY <2>1, <2>2, <2>4, <3>1
  <2> QED BY <2>3, <2>4
<1> HIDE DEF l2
<1>12. l2 \in Listaddrs(g, epoch)
  BY <1>3, <1>11 DEF Listaddrs
<1>13. JoinedOK(l2, Sched(Q'), {}, g, epoch)
  <2>1. \E n \in Sched(Q') : Of(n, "DelVif", g, epoch)
    BY <1>5, <1>10
  <2>2. \A n \in Sched(Q') : ~Of(n, "SendQuery", g, epoch)
    BY <1>9
  <2>3. (\E n \in Sched(Q') : Of(n, "SwitchVersion", g, epoch)) =>
          l2.al_versiontimer = Name("SwitchVersion", g, epoch)
    <3>1. CASE older
      BY <1>11, <3>1
    <3>2. CASE ~older
      <4>1. \A n : n \in Sched(Q') <=> n \in Sched(q1) \/ n = D
        BY <1>0, <1>4, <3>2
      <4> QED BY <1>3, <1>5, <1>11, <3>2, <4>1 DEF Of
    <3> QED BY <3>1, <3>2
  <2>4. l2.al_pv = 1 => /\ l2.al_versiontimer = Name("SwitchVersion", g, epoch)
                        /\ \E n \in Sched(Q') : Of(n, "SwitchVersion", g, epoch)
    <3>1. CASE older
      BY <1>5, <1>10, <1>11, <3>1
    <3>2. CASE ~older
      <4>1. \A n \in Sched(Q) : Of(n, "SwitchVersion", g, epoch) => n \in Sched(Q')
        BY <1>2, <1>9, <3>2 DEF Of
      <4>2. l2.al_pv = l.al_pv /\ l2.al_versiontimer = l.al_versiontimer
        BY <1>11, <3>2
      <4> QED BY <1>3, <3>2, <4>1, <4>2
    <3> QED BY <3>1, <3>2
  <2>5. l2.al_query = NoTimer
    BY <1>11
  <2> QED BY <1>12, <2>1, <2>2, <2>3, <2>4, <2>5 DEF JoinedOK
<1>14. \A n \in Sched(Q') : ~Of(n, "SendQuery", g, epoch)
  BY <1>9
<1> QED BY <1>0, <1>8, <1>9, <1>10, <1>12, <1>13, <1>14 DEF D, Retimes

LEMMA LeaveTimes ==
  ASSUME IgmpAssumption
  PROVE  LeaveTime \in Nat /\ LastMemberQueryInterval < LeaveTime
<1> DEFINE i == LastMemberQueryInterval
           c == LastMemberQueryCount
<1>1. i \in Nat /\ i > 0 /\ c \in Nat /\ c > 0
  BY DEF IgmpAssumption
<1>2. LeaveTime = i * (c + 1)
  BY DEF LeaveTime
<1> HIDE DEF i, c
<1>3. i * (c + 1) = i * c + i /\ i * c \in Nat /\ i * c > 0
  BY <1>1
<1> QED BY <1>1, <1>2, <1>3 DEF i

LEMMA ShortNat ==
  ASSUME IgmpAssumption
  PROVE  ShortTimes \subseteq Nat
<1>1. ASSUME NEW tmo \in Tmos PROVE LastMemberQueryCount * tmo \in Nat
  <2>1. tmo \in Nat /\ LastMemberQueryCount \in Nat
    BY DEF IgmpAssumption
  <2> QED BY <2>1
<1> QED BY <1>1, LeaveTimes DEF ShortTimes

(* The timer that ends the group is taken out, for a group nobody asks for. *)
LEMMA EndCleared ==
  ASSUME IgmpInv, expQ = <<>>, NEW g \in Groups, Joined(g), uv_groups[g].al_query = NoTimer
  PROVE  /\ Q \in Seq(Timers) /\ Distinct(Q) /\ Named(Sched(Q), epoch)
         /\ epoch \in 0 .. MaxStops
         /\ JoinedOK(uv_groups[g], Sched(Q), {}, g, epoch)
         /\ uv_groups[g].al_timerid = Name("DelVif", g, epoch)
         /\ \A n \in Sched(Q) : ~Of(n, "SendQuery", g, epoch)
<1>1. /\ Q \in Seq(Timers) /\ Distinct(Q) /\ Named(Sched(Q), epoch)
      /\ epoch \in 0 .. MaxStops
      /\ GroupOK(uv_groups[g], Sched(Q), {}, g, epoch)
  <2>1. Range(expQ) = {}
    BY EmptyFacts
  <2> QED BY <2>1 DEF IgmpInv, QueuesOK, TimersOK, GroupsOK, VifOK
<1>2. JoinedOK(uv_groups[g], Sched(Q), {}, g, epoch)
  BY <1>1 DEF GroupOK, Joined
<1>3. uv_groups[g].al_timerid = Name("DelVif", g, epoch)
  BY <1>2 DEF JoinedOK, Listaddrs
<1>4. \A n \in Sched(Q) : ~Of(n, "SendQuery", g, epoch)
  BY <1>2, Names DEF JoinedOK
<1> QED BY <1>1, <1>2, <1>3, <1>4

Shortened(l, query, id) == [l EXCEPT !.al_query = query, !.al_timerid = id]

(* With a short lifetime set, the group still has what it needs.           *)
LEMMA ShortOK ==
  ASSUME NEW g, NEW e, NEW l, NEW S, JoinedOK(l, S, {}, g, e), NEW S2,
         NEW t \in Nat, t \in ShortTimes,
         NEW query \in {Elsewhere, Name("SendQuery", g, e)},
         NEW l2, l2 = Shortened(l, query, Name("DelVif", g, e)),
         Node("DelVif", g, e, t) \in S2,
         \A n \in S2 : Of(n, "DelVif", g, e) => n = Node("DelVif", g, e, t),
         \A n : Of(n, "SwitchVersion", g, e) => (n \in S2 <=> n \in S),
         (\E n \in S2 : Of(n, "SendQuery", g, e)) => query = Name("SendQuery", g, e)
  PROVE  l2 \in Listaddrs(g, e) /\ JoinedOK(l2, S2, {}, g, e)
<1>1. /\ l \in Listaddrs(g, e)
      /\ (\E n \in S : Of(n, "SwitchVersion", g, e)) =>
           l.al_versiontimer = Name("SwitchVersion", g, e)
      /\ l.al_pv = 1 => /\ l.al_versiontimer = Name("SwitchVersion", g, e)
                        /\ \E n \in S : Of(n, "SwitchVersion", g, e)
  BY DEF JoinedOK
<1>2. /\ l2 \in Listaddrs(g, e) /\ l2.al_query = query /\ l2.al_pv = l.al_pv
      /\ l2.al_versiontimer = l.al_versiontimer
  BY <1>1 DEF Listaddrs, Shortened
<1>3. Of(Node("DelVif", g, e, t), "DelVif", g, e) /\ Node("DelVif", g, e, t).time = t
  BY DEF Of, Node
<1>4. \A n \in S2 : Of(n, "DelVif", g, e) => \E u \in ShortTimes : n.time <= u
  <2>1. t <= t
    OBVIOUS
  <2> QED BY <1>3, <2>1
<1> QED BY <1>1, <1>2, <1>3, <1>4 DEF JoinedOK

LEMMA LeaveEffect ==
  ASSUME IgmpAssumption, IgmpInv, NEW g \in Groups, LeaveMessage(g)
  PROVE  Retimes(g, LeaveTime)
<1> DEFINE l == uv_groups[g]
           q1 == ClearTimer(Q, l.al_timerid)
           q2 == Add(q1, LastMemberQueryInterval, "SendQuery", g)
           q3 == Add(q2, LeaveTime, "DelVif", g)
           A == Node("SendQuery", g, epoch, LastMemberQueryInterval)
           D == Node("DelVif", g, epoch, LeaveTime)
           l2 == Shortened(l, Name("SendQuery", g, epoch), Name("DelVif", g, epoch))
<1>0. /\ expQ = <<>> /\ expQ' = expQ /\ epoch' = epoch /\ Joined(g)
      /\ l.al_query = NoTimer /\ Q' = q3
      /\ uv_groups' = [uv_groups EXCEPT ![g].al_query = NewId(q1, "SendQuery", g),
                                        ![g].al_timerid = NewId(q2, "DelVif", g)]
  BY DEF LeaveMessage, LeaveIgnored, Listening, Idle, vif
<1>e. /\ Q \in Seq(Timers) /\ Distinct(Q) /\ Named(Sched(Q), epoch)
      /\ epoch \in 0 .. MaxStops
      /\ JoinedOK(l, Sched(Q), {}, g, epoch)
      /\ l.al_timerid = Name("DelVif", g, epoch)
      /\ \A n \in Sched(Q) : ~Of(n, "SendQuery", g, epoch)
  BY <1>0, EndCleared
<1>1. /\ q1 \in Seq(Timers) /\ Distinct(q1) /\ Named(Sched(q1), epoch)
      /\ \A n : n \in Sched(q1) <=> n \in Sched(Q) /\ ~Of(n, "DelVif", g, epoch)
  <2>1. /\ ClearTimer(Q, Name("DelVif", g, epoch)) \in Seq(Timers)
        /\ Distinct(ClearTimer(Q, Name("DelVif", g, epoch)))
        /\ Named(Sched(ClearTimer(Q, Name("DelVif", g, epoch))), epoch)
        /\ \A n : n \in Sched(ClearTimer(Q, Name("DelVif", g, epoch))) <=>
                     n \in Sched(Q) /\ ~Of(n, "DelVif", g, epoch)
    BY <1>e, ClearNamed
  <2> QED BY <1>e, <2>1
<1> HIDE DEF q1
<1>2. /\ LeaveTime \in Nat /\ LastMemberQueryInterval \in Nat
      /\ LastMemberQueryInterval < LeaveTime /\ LeaveTime \in ShortTimes
  BY LeaveTimes DEF IgmpAssumption, ShortTimes
<1>3. /\ q2 \in Seq(Timers) /\ Distinct(q2) /\ Named(Sched(q2), epoch)
      /\ \A n : n \in Sched(q2) <=> n \in Sched(q1) \/ n = A
      /\ NewId(q1, "SendQuery", g) = Name("SendQuery", g, epoch)
  <2>1. "SendQuery" \in Funcs /\ \A n \in Sched(q1) : ~Of(n, "SendQuery", g, epoch)
    BY <1>1, <1>e DEF Funcs
  <2> QED BY <1>1, <1>2, <1>e, <2>1, AddNamed
<1> HIDE DEF q2
<1>4. /\ A.func = "SendQuery" /\ A.g = g /\ A.epoch = epoch
      /\ A.time = LastMemberQueryInterval
      /\ D.func = "DelVif" /\ D.g = g /\ D.epoch = epoch /\ D.time = LeaveTime
  BY DEF Node
<1> HIDE DEF A, D
<1>5. /\ q3 \in Seq(Timers) /\ Distinct(q3) /\ Named(Sched(q3), epoch)
      /\ \A n : n \in Sched(q3) <=> n \in Sched(q2) \/ n = D
      /\ NewId(q2, "DelVif", g) = Name("DelVif", g, epoch)
  <2>1. "DelVif" \in Funcs /\ \A n \in Sched(q2) : ~Of(n, "DelVif", g, epoch)
    BY <1>1, <1>3, <1>4, <1>e DEF Funcs, Of
  <2> QED BY <1>1, <1>2, <1>3, <1>e, <2>1, AddNamed DEF D
<1> HIDE DEF q3
<1>6. \A n : n \in Sched(Q') <=>
              \/ n \in Sched(Q) /\ ~Of(n, "DelVif", g, epoch)
              \/ n = A
              \/ n = D
  BY <1>0, <1>1, <1>3, <1>5
<1>7. /\ \A n \in Sched(Q') : Of(n, "DelVif", g, epoch) => n = D
      /\ \A n \in Sched(Q') : Of(n, "SendQuery", g, epoch) => n = A
      /\ \A n : Of(n, "SwitchVersion", g, epoch) => (n \in Sched(Q') <=> n \in Sched(Q))
  BY <1>4, <1>6, <1>e DEF Of
<1>8. l2 \in Listaddrs(g, epoch) /\ JoinedOK(l2, Sched(Q'), {}, g, epoch)
  <2>1. PICK query : query = Name("SendQuery", g, epoch)
    OBVIOUS
  <2>2. /\ query \in {Elsewhere, Name("SendQuery", g, epoch)}
        /\ l2 = Shortened(l, query, Name("DelVif", g, epoch))
    BY <2>1
  <2>3. D \in Sched(Q')
    BY <1>6
  <2> HIDE DEF l2, l
  <2> QED BY <1>2, <1>7, <1>e, <2>1, <2>2, <2>3, ShortOK DEF D
<1>9. uv_groups' = [uv_groups EXCEPT ![g] = l2]
  BY <1>0, <1>3, <1>5 DEF Shortened
<1>10. \A n : ~(n.g = g /\ n.epoch = epoch) => (n \in Sched(Q') <=> n \in Sched(Q))
  BY <1>4, <1>6 DEF Of
<1>11. \A n, m \in Sched(Q') : Of(n, "SendQuery", g, epoch) /\ Of(m, "DelVif", g, epoch)
                                => n.time < m.time
  BY <1>2, <1>4, <1>7
<1>12. D \in Sched(Q') /\ Q' \in Seq(Timers) /\ Distinct(Q') /\ Named(Sched(Q'), epoch)
  BY <1>0, <1>5, <1>6
<1> QED BY <1>0, <1>8, <1>9, <1>10, <1>11, <1>12 DEF Retimes, D

LEMMA ShortenEffect ==
  ASSUME IgmpAssumption, IgmpInv, NEW g, NEW tmo \in Tmos, expQ = <<>>, expQ' = expQ,
         epoch' = epoch, ShortenGroup(g, tmo)
  PROVE  \/ UNCHANGED <<uv_groups, Q>>
         \/ g \in Groups /\ Joined(g) /\ Retimes(g, LastMemberQueryCount * tmo)
<1> DEFINE l == uv_groups[g]
           t == LastMemberQueryCount * tmo
           q1 == ClearTimer(Q, l.al_timerid)
           q2 == Add(q1, t, "DelVif", g)
           D == Node("DelVif", g, epoch, t)
           l2 == Shortened(l, Elsewhere, Name("DelVif", g, epoch))
<1> SUFFICES ASSUME g \in Groups, Joined(g), l.al_query = NoTimer
             PROVE  Retimes(g, t)
  BY DEF ShortenGroup
<1>0. /\ Q' = q2
      /\ uv_groups' = [uv_groups EXCEPT ![g].al_query = Elsewhere,
                                        ![g].al_timerid = NewId(q1, "DelVif", g)]
  BY DEF ShortenGroup
<1>e. /\ Q \in Seq(Timers) /\ Distinct(Q) /\ Named(Sched(Q), epoch)
      /\ epoch \in 0 .. MaxStops
      /\ JoinedOK(l, Sched(Q), {}, g, epoch)
      /\ l.al_timerid = Name("DelVif", g, epoch)
      /\ \A n \in Sched(Q) : ~Of(n, "SendQuery", g, epoch)
  BY EndCleared
<1>1. /\ q1 \in Seq(Timers) /\ Distinct(q1) /\ Named(Sched(q1), epoch)
      /\ \A n : n \in Sched(q1) <=> n \in Sched(Q) /\ ~Of(n, "DelVif", g, epoch)
  <2>1. /\ ClearTimer(Q, Name("DelVif", g, epoch)) \in Seq(Timers)
        /\ Distinct(ClearTimer(Q, Name("DelVif", g, epoch)))
        /\ Named(Sched(ClearTimer(Q, Name("DelVif", g, epoch))), epoch)
        /\ \A n : n \in Sched(ClearTimer(Q, Name("DelVif", g, epoch))) <=>
                     n \in Sched(Q) /\ ~Of(n, "DelVif", g, epoch)
    BY <1>e, ClearNamed
  <2> QED BY <1>e, <2>1
<1> HIDE DEF q1
<1>2. t \in ShortTimes
  BY DEF ShortTimes
<1>3. t \in Nat
  BY <1>2, ShortNat
<1> HIDE DEF t
<1>4. D.func = "DelVif" /\ D.g = g /\ D.epoch = epoch /\ D.time = t
  BY DEF Node
<1>5. /\ q2 \in Seq(Timers) /\ Distinct(q2) /\ Named(Sched(q2), epoch)
      /\ \A n : n \in Sched(q2) <=> n \in Sched(q1) \/ n = D
      /\ NewId(q1, "DelVif", g) = Name("DelVif", g, epoch)
  <2>1. "DelVif" \in Funcs /\ \A n \in Sched(q1) : ~Of(n, "DelVif", g, epoch)
    BY <1>1, <1>e DEF Funcs
  <2> QED BY <1>1, <1>3, <1>e, <2>1, AddNamed
<1> HIDE DEF q2, D
<1>6. \A n : n \in Sched(Q') <=>
              (n \in Sched(Q) /\ ~Of(n, "DelVif", g, epoch)) \/ n = D
  BY <1>0, <1>1, <1>5
<1>7. /\ \A n \in Sched(Q') : Of(n, "DelVif", g, epoch) => n = D
      /\ \A n \in Sched(Q') : ~Of(n, "SendQuery", g, epoch)
      /\ \A n : Of(n, "SwitchVersion", g, epoch) => (n \in Sched(Q') <=> n \in Sched(Q))
  BY <1>4, <1>6, <1>e DEF Of
<1>8. l2 \in Listaddrs(g, epoch) /\ JoinedOK(l2, Sched(Q'), {}, g, epoch)
  <2>1. PICK query : query = Elsewhere
    OBVIOUS
  <2>2. /\ query \in {Elsewhere, Name("SendQuery", g, epoch)}
        /\ l2 = Shortened(l, query, Name("DelVif", g, epoch))
    BY <2>1
  <2>3. D \in Sched(Q')
    BY <1>6
  <2> HIDE DEF l2, l
  <2> QED BY <1>2, <1>3, <1>7, <1>e, <2>1, <2>2, <2>3, ShortOK DEF D
<1>9. uv_groups' = [uv_groups EXCEPT ![g] = l2]
  BY <1>0, <1>5 DEF Shortened
<1>10. \A n : ~(n.g = g /\ n.epoch = epoch) => (n \in Sched(Q') <=> n \in Sched(Q))
  BY <1>4, <1>6 DEF Of
<1>12. D \in Sched(Q') /\ Q' \in Seq(Timers) /\ Distinct(Q') /\ Named(Sched(Q'), epoch)
  BY <1>0, <1>5, <1>6
<1> QED BY <1>7, <1>8, <1>9, <1>10, <1>12 DEF Retimes, D

LEMMA Times ==
  ASSUME NEW n \in Timers
  PROVE  n.time \in Nat /\ n.func \in Funcs /\ n.g \in Groups /\ n.epoch \in 0 .. MaxStops
BY DEF Timers

(* Timers that keep their names, and lose the time that has gone by.       *)
Later(S, S2, E2, e) ==
  /\ \A n \in S2 : \E m \in S : m.time > e /\ Like(n, m) /\ n.time = m.time - e
  /\ \A m \in S : m.time > e => \E n \in S2 : Like(n, m) /\ n.time = m.time - e
  /\ \A n \in E2 : \E m \in S : m.time <= e /\ Like(n, m)
  /\ \A m \in S : m.time <= e => \E n \in E2 : Like(n, m)

LEMMA AgeQueueEffect ==
  ASSUME IgmpInv, NEW e \in Nat, AgeQueue(e)
  PROVE  /\ expQ = <<>> /\ epoch' = epoch /\ uv_groups' = uv_groups
         /\ Q' \in Seq(Timers) /\ expQ' \in Seq(Timers)
         /\ Distinct(Q') /\ Distinct(expQ') /\ OrderOK(expQ')
         /\ Later(Sched(Q), Sched(Q'), Range(expQ'), e)
<1>0. /\ expQ = <<>> /\ epoch' = epoch /\ uv_groups' = uv_groups
      /\ expQ' = Expired(Q, e) /\ Q' = Remaining(Q, e)
  BY DEF AgeQueue, Idle, vif
<1>1. /\ Q \in Seq(Timers) /\ Distinct(Q) /\ AskedFirst(Sched(Q))
  BY DEF IgmpInv, QueuesOK, TimersOK
<1> DEFINE S == Sched(Q)
           x == Expired(Q, e)
<1>2. /\ Q' \in Seq(Timers) /\ Distinct(Q')
      /\ \A n \in Sched(Q') : \E m \in S : m.time > e /\ Like(n, m) /\ n.time = m.time - e
      /\ \A m \in S : m.time > e =>
           \E n \in Sched(Q') : Like(n, m) /\ n.time = m.time - e
  BY <1>0, <1>1, AgedRest
<1>3. /\ x \in Seq(Timers) /\ Distinct(x)
      /\ \A i \in 1 .. Len(x) : \E m \in S : m.time <= e /\ Like(x[i], m)
      /\ \A m \in S : m.time <= e => \E i \in 1 .. Len(x) : Like(x[i], m)
      /\ \A i, j \in 1 .. Len(x) : i < j =>
           \E m, l \in S : Like(x[i], m) /\ Like(x[j], l) /\ m.time <= l.time
  BY <1>1, AgedDue
<1> HIDE DEF x
<1>4. /\ \A n \in Range(x) : \E i \in 1 .. Len(x) : n = x[i]
      /\ \A i \in 1 .. Len(x) : x[i] \in Range(x)
  <2>1. DOMAIN x = 1 .. Len(x)
    BY <1>3
  <2> QED BY <2>1 DEF Range
<1>5. Later(S, Sched(Q'), Range(x), e)
  <2>1. \A n \in Range(x) : \E m \in S : m.time <= e /\ Like(n, m)
    BY <1>3, <1>4
  <2>2. \A m \in S : m.time <= e => \E n \in Range(x) : Like(n, m)
    BY <1>3, <1>4
  <2> HIDE DEF S
  <2> QED BY <1>2, <2>1, <2>2 DEF Later
<1>6. OrderOK(x)
  <2>1. ASSUME NEW i \in 1 .. Len(x), NEW j \in 1 .. Len(x), i < j,
               x[i].func = "DelVif", x[j].func = "SendQuery",
               x[i].g = x[j].g, x[i].epoch = x[j].epoch
        PROVE  FALSE
    <3>1. PICK m \in S, l \in S :
            Like(x[i], m) /\ Like(x[j], l) /\ m.time <= l.time
      BY <1>3, <2>1
    <3>2. l.time < m.time
      BY <1>1, <2>1, <3>1 DEF AskedFirst, Like
    <3>3. l.time \in Nat /\ m.time \in Nat
      BY <1>1, RangeSched, Times
    <3> QED BY <3>1, <3>2, <3>3
  <2> QED BY <2>1 DEF OrderOK
<1> QED BY <1>0, <1>2, <1>3, <1>5, <1>6 DEF x

LEMMA LaterGroup ==
  ASSUME IgmpAssumption, NEW l, NEW S, NEW S2, NEW E2, NEW g, NEW e, NEW t \in Nat,
         S \subseteq Timers, GroupOK(l, S, {}, g, e), Later(S, S2, E2, t)
  PROVE  GroupOK(l, S2, E2, g, e)
<1>1. \A n \in S2 : \E m \in S : m.time > t /\ Like(n, m) /\ n.time = m.time - t
  BY DEF Later
<1>2. \A n \in E2 : \E m \in S : m.time <= t /\ Like(n, m)
  BY DEF Later
<1>3. \A m \in S : \E n \in S2 \cup E2 : Like(n, m)
  <2>1. ASSUME NEW m \in S PROVE \E n \in S2 \cup E2 : Like(n, m)
    <3>1. m.time \in Nat
      BY Times
    <3>2. CASE m.time > t
      BY <3>2 DEF Later
    <3>3. CASE m.time <= t
      BY <3>3 DEF Later
    <3> QED BY <3>1, <3>2, <3>3
  <2> QED BY <2>1
<1>4. \A n \in S2 \cup E2 : \E m \in S : Like(n, m)
  BY <1>1, <1>2
<1>5. \A n, m, f : Like(n, m) => (Of(n, f, g, e) <=> Of(m, f, g, e))
  BY DEF Like, Of
<1>6. CASE l = NoGroup
  <2>1. \A m \in S : ~(m.g = g /\ m.epoch = e)
    BY <1>6 DEF GroupOK, GoneOK
  <2>2. \A n \in S2 \cup E2 : ~(n.g = g /\ n.epoch = e)
    BY <1>4, <2>1 DEF Like
  <2> QED BY <1>6, <2>2 DEF GroupOK, GoneOK
<1>7. CASE l # NoGroup
  <2>1. JoinedOK(l, S, {}, g, e)
    BY <1>7 DEF GroupOK
  <2>2. \A f : (\E m \in S : Of(m, f, g, e)) <=> (\E n \in S2 \cup E2 : Of(n, f, g, e))
    BY <1>3, <1>4, <1>5
  <2>3. \E n \in S2 \cup E2 : Of(n, "DelVif", g, e)
    <3>1. \E m \in S : Of(m, "DelVif", g, e)
      BY <2>1 DEF JoinedOK
    <3> QED BY <2>2, <3>1
  <2>4. (\E n \in S2 \cup E2 : Of(n, "SendQuery", g, e)) =>
          l.al_query = Name("SendQuery", g, e)
    <3>1. (\E m \in S : Of(m, "SendQuery", g, e)) => l.al_query = Name("SendQuery", g, e)
      BY <2>1 DEF JoinedOK
    <3> QED BY <2>2, <3>1
  <2>5. (\E n \in S2 : Of(n, "SwitchVersion", g, e)) =>
          l.al_versiontimer = Name("SwitchVersion", g, e)
    <3>1. (\E m \in S : Of(m, "SwitchVersion", g, e)) =>
            l.al_versiontimer = Name("SwitchVersion", g, e)
      BY <2>1 DEF JoinedOK
    <3> QED BY <2>2, <3>1
  <2>6. l.al_pv = 1 => /\ l.al_versiontimer = Name("SwitchVersion", g, e)
                       /\ \E n \in S2 \cup E2 : Of(n, "SwitchVersion", g, e)
    <3>1. l.al_pv = 1 => /\ l.al_versiontimer = Name("SwitchVersion", g, e)
                         /\ \E m \in S : Of(m, "SwitchVersion", g, e)
      BY <2>1 DEF JoinedOK
    <3> QED BY <2>2, <3>1
  <2>7. ASSUME l.al_query # NoTimer, NEW n \in S2, Of(n, "DelVif", g, e)
        PROVE  \E u \in ShortTimes : n.time <= u
    <3>1. PICK m \in S : m.time > t /\ Like(n, m) /\ n.time = m.time - t
      BY <1>1
    <3>2. Of(m, "DelVif", g, e)
      BY <1>5, <2>7, <3>1
    <3>3. PICK u \in ShortTimes : m.time <= u
      BY <2>1, <2>7, <3>2 DEF JoinedOK
    <3>4. u \in Nat /\ m.time \in Nat
      BY ShortNat, Times
    <3> QED BY <3>1, <3>3, <3>4
  <2>8. l \in Listaddrs(g, e)
    BY <2>1 DEF JoinedOK
  <2>9. JoinedOK(l, S2, E2, g, e)
    BY <2>3, <2>4, <2>5, <2>6, <2>7, <2>8 DEF JoinedOK
  <2> QED BY <1>7, <2>9 DEF GroupOK
<1> QED BY <1>6, <1>7

LEMMA AgeQueueKeeps ==
  ASSUME IgmpAssumption, IgmpInv, NEW e \in Nat, AgeQueue(e)
  PROVE  QueuesOK(Q', expQ', epoch') /\ GroupsOK'
<1> DEFINE S == Sched(Q)
           S2 == Sched(Q')
           E2 == Range(expQ')
<1>0. /\ expQ = <<>> /\ epoch' = epoch /\ uv_groups' = uv_groups
      /\ Q' \in Seq(Timers) /\ expQ' \in Seq(Timers)
      /\ Distinct(Q') /\ Distinct(expQ') /\ OrderOK(expQ')
      /\ Later(S, S2, E2, e)
  BY AgeQueueEffect
<1>1. /\ Q \in Seq(Timers) /\ Distinct(Q) /\ Named(S, epoch) /\ AskedFirst(S)
      /\ \A h \in Groups : GroupOK(uv_groups[h], S, {}, h, epoch)
  <2>1. Range(expQ) = {}
    BY <1>0, EmptyFacts
  <2> QED BY <2>1 DEF IgmpInv, QueuesOK, TimersOK, GroupsOK
<1>2. S \subseteq Timers /\ S2 \subseteq Timers /\ E2 \subseteq Timers
  BY <1>0, <1>1, RangeSched
<1>3. \A n, m \in S : n.id = m.id => n = m
  BY <1>1, SchedUnique
<1> HIDE DEF S, S2, E2
<1>4. \A n \in S2 : \E m \in S : m.time > e /\ Like(n, m) /\ n.time = m.time - e
  BY <1>0 DEF Later
<1>5. \A n \in E2 : \E m \in S : m.time <= e /\ Like(n, m)
  BY <1>0 DEF Later
<1>6. Named(S2, epoch) /\ Named(E2, epoch)
  BY <1>1, <1>2, <1>4, <1>5 DEF Named, Like
<1>7. AskedFirst(S2)
  <2>1. ASSUME NEW n \in S2, NEW m \in S2, n.func = "SendQuery", m.func = "DelVif",
               n.g = m.g, n.epoch = m.epoch
        PROVE  n.time < m.time
    <3>1. PICK i \in S : Like(n, i) /\ n.time = i.time - e
      BY <1>4
    <3>2. PICK j \in S : Like(m, j) /\ m.time = j.time - e
      BY <1>4
    <3>3. i.time < j.time
      BY <1>1, <2>1, <3>1, <3>2 DEF AskedFirst, Like
    <3>4. i.time \in Nat /\ j.time \in Nat
      BY <1>2, Times
    <3> QED BY <3>1, <3>2, <3>3, <3>4
  <2> QED BY <2>1 DEF AskedFirst
<1>8. \A n \in S2, m \in E2 : n.id # m.id
  <2>1. ASSUME NEW n \in S2, NEW m \in E2, n.id = m.id
        PROVE  FALSE
    <3>1. PICK i \in S : Like(n, i) /\ i.time > e
      BY <1>4
    <3>2. PICK j \in S : Like(m, j) /\ j.time <= e
      BY <1>5
    <3>3. i = j
      BY <1>3, <2>1, <3>1, <3>2 DEF Like
    <3>4. i.time \in Nat
      BY <1>2, Times
    <3> QED BY <3>1, <3>2, <3>3, <3>4
  <2> QED BY <2>1
<1>9. QueuesOK(Q', expQ', epoch')
  BY <1>0, <1>6, <1>7, <1>8 DEF QueuesOK, TimersOK, S2, E2
<1>10. \A h \in Groups : GroupOK(uv_groups[h], S2, E2, h, epoch)
  BY <1>0, <1>1, <1>2, LaterGroup
<1>11. GroupsOK'
  BY <1>0, <1>10 DEF IgmpInv, GroupsOK, S2, E2
<1> QED BY <1>9, <1>11

(* The first node is taken off the ones being handled.                     *)
LEMMA Handled ==
  ASSUME NEW x \in Seq(Timers), x # <<>>, Distinct(x), OrderOK(x)
  PROVE  /\ Head(x) \in Timers /\ Head(x) \in Range(x)
         /\ Tail(x) \in Seq(Timers) /\ Distinct(Tail(x)) /\ OrderOK(Tail(x))
         /\ \A n : n \in Range(Tail(x)) <=> n \in Range(x) /\ n # Head(x)
         /\ \A n \in Range(Tail(x)) : n.id # Head(x).id
         /\ Head(x).func = "DelVif" =>
              \A n \in Range(Tail(x)) : n.func = "SendQuery" =>
                ~(n.g = Head(x).g /\ n.epoch = Head(x).epoch)
<1> DEFINE y == Tail(x)
<1>0. /\ Len(x) \in Nat /\ 1 \in 1 .. Len(x) /\ Head(x) = x[1] /\ DOMAIN x = 1 .. Len(x)
      /\ y \in Seq(Timers) /\ Len(y) = Len(x) - 1 /\ DOMAIN y = 1 .. Len(y)
      /\ \A i \in 1 .. Len(y) : y[i] = x[i + 1]
  <2> HIDE DEF Timers
  <2> QED OBVIOUS
<1> HIDE DEF y
<1>1. \A i \in 1 .. Len(y) : i + 1 \in 1 .. Len(x) /\ y[i] = x[i + 1]
  BY <1>0
<1>2. Head(x) \in Timers /\ Head(x) \in Range(x)
  BY <1>0 DEF Range
<1>3. Distinct(y)
  <2>1. ASSUME NEW i \in 1 .. Len(y), NEW j \in 1 .. Len(y), y[i].id = y[j].id
        PROVE  i = j
    <3>1. i + 1 = j + 1
      BY <1>1, <2>1 DEF Distinct
    <3> QED BY <3>1
  <2> QED BY <2>1 DEF Distinct
<1>4. OrderOK(y)
  <2>1. ASSUME NEW i \in 1 .. Len(y), NEW j \in 1 .. Len(y), i < j,
               y[i].func = "DelVif", y[j].func = "SendQuery",
               y[i].g = y[j].g, y[i].epoch = y[j].epoch
        PROVE  FALSE
    <3>1. i + 1 < j + 1
      BY <2>1
    <3> QED BY <1>1, <2>1, <3>1 DEF OrderOK
  <2> QED BY <2>1 DEF OrderOK
<1>5. ASSUME NEW i \in 1 .. Len(y)
      PROVE  /\ y[i].id # Head(x).id
             /\ Head(x).func = "DelVif" /\ y[i].func = "SendQuery" =>
                  ~(y[i].g = Head(x).g /\ y[i].epoch = Head(x).epoch)
  <2>1. i + 1 \in 1 .. Len(x) /\ i + 1 # 1 /\ 1 < i + 1 /\ y[i] = x[i + 1]
    BY <1>1
  <2>2. x[i + 1].id # x[1].id
    BY <1>0, <2>1 DEF Distinct
  <2>3. x[1].func = "DelVif" /\ x[i + 1].func = "SendQuery" =>
          ~(x[1].g = x[i + 1].g /\ x[1].epoch = x[i + 1].epoch)
    BY <1>0, <2>1 DEF OrderOK
  <2> QED BY <1>0, <2>1, <2>2, <2>3
<1>6. \A n \in Range(y) : \E i \in 1 .. Len(y) : n = y[i]
  BY <1>0 DEF Range
<1>7. ASSUME NEW n \in Range(y) PROVE n \in Range(x) /\ n # Head(x)
  BY <1>0, <1>1, <1>5, <1>6 DEF Range
<1>8. ASSUME NEW n \in Range(x), n # Head(x) PROVE n \in Range(y)
  <2>1. PICK i \in 1 .. Len(x) : n = x[i]
    BY <1>0 DEF Range
  <2>2. i - 1 \in 1 .. Len(y) /\ (i - 1) + 1 = i
    BY <1>0, <1>8, <2>1
  <2>3. y[i - 1] = n
    BY <1>1, <2>1, <2>2
  <2> QED BY <1>0, <2>2, <2>3 DEF Range
<1>9. \A n : n \in Range(y) <=> n \in Range(x) /\ n # Head(x)
  BY <1>7, <1>8
<1>10. \A n \in Range(y) : n.id # Head(x).id
  BY <1>5, <1>6
<1>11. Head(x).func = "DelVif" =>
         \A n \in Range(y) : n.func = "SendQuery" =>
           ~(n.g = Head(x).g /\ n.epoch = Head(x).epoch)
  BY <1>5, <1>6
<1> QED BY <1>0, <1>2, <1>3, <1>4, <1>9, <1>10, <1>11 DEF y

(* A timer that ends in silence: its group is gone, or does not notice.    *)
Silent(n) ==
  /\ Q' = Q
  /\ \A h \in Groups : h # n.g \/ n.epoch # epoch => uv_groups'[h] = uv_groups[h]
  /\ \A h \in Groups : Joined(h)' <=> Joined(h)
  /\ Joined(n.g) /\ n.epoch = epoch => n.func # "DelVif"

(* A timer that ends its group.                                            *)
Final(n) ==
  /\ n.func = "DelVif" /\ n.epoch = epoch /\ Joined(n.g)
  /\ uv_groups'[n.g] = NoGroup
  /\ \A h \in Groups \ {n.g} : uv_groups'[h] = uv_groups[h]
  /\ \A m : m.func = "DelVif" => (m \in Sched(Q') <=> m \in Sched(Q))

LEMMA HandleQueues ==
  ASSUME IgmpInv, NEW n, n = Head(expQ), expQ # <<>>, expQ' = Tail(expQ), epoch' = epoch,
         Q' \in Seq(Timers), Distinct(Q'), \A m \in Sched(Q') : m \in Sched(Q)
  PROVE  QueuesOK(Q', expQ', epoch')
<1>1. /\ expQ \in Seq(Timers) /\ Distinct(expQ) /\ OrderOK(expQ)
      /\ Named(Sched(Q), epoch) /\ Named(Range(expQ), epoch) /\ AskedFirst(Sched(Q))
      /\ \A i \in Sched(Q), m \in Range(expQ) : i.id # m.id
  BY DEF IgmpInv, QueuesOK, TimersOK
<1>2. /\ expQ' \in Seq(Timers) /\ Distinct(expQ') /\ OrderOK(expQ')
      /\ \A m \in Range(expQ') : m \in Range(expQ)
  BY <1>1, Handled
<1>3. Named(Sched(Q'), epoch) /\ Named(Range(expQ'), epoch) /\ AskedFirst(Sched(Q'))
  BY <1>1, <1>2 DEF Named, AskedFirst
<1>4. \A i \in Sched(Q'), m \in Range(expQ') : i.id # m.id
  BY <1>1, <1>2
<1> QED BY <1>2, <1>3, <1>4 DEF QueuesOK, TimersOK

LEMMA HandleKeeps ==
  ASSUME IgmpInv, Handle
  PROVE  /\ QueuesOK(Q', expQ', epoch') /\ GroupsOK' /\ epoch' = epoch
         /\ Silent(Head(expQ)) \/ Final(Head(expQ))
         /\ misused' \in BOOLEAN
<1> DEFINE n == Head(expQ)
           S == Sched(Q)
           E == Range(expQ)
           E2 == Range(expQ')
<1>0. /\ expQ # <<>> /\ expQ' = Tail(expQ) /\ epoch' = epoch
      /\ epoch \in 0 .. MaxStops /\ misused \in BOOLEAN
      /\ Q \in Seq(Timers) /\ Distinct(Q) /\ Named(S, epoch) /\ Named(E, epoch)
      /\ \A i \in S, m \in E : i.id # m.id
      /\ \A h \in Groups : GroupOK(uv_groups[h], S, E, h, epoch)
      /\ uv_groups \in [Groups -> {NoGroup} \cup UNION {Listaddrs(h, epoch) : h \in Groups}]
  BY DEF Handle, vif, IgmpInv, QueuesOK, TimersOK, GroupsOK, VifOK
<1>1. /\ n \in Timers /\ n \in E
      /\ \A m : m \in E2 <=> m \in E /\ m # n
      /\ \A m \in E2 : m.id # n.id
      /\ n.func = "DelVif" => \A m \in E2 : m.func = "SendQuery" =>
                                ~(m.g = n.g /\ m.epoch = n.epoch)
  <2>1. expQ \in Seq(Timers) /\ Distinct(expQ) /\ OrderOK(expQ)
    BY DEF IgmpInv, QueuesOK
  <2> QED BY <1>0, <2>1, Handled
<1>2. n.g \in Groups /\ n.func \in Funcs
  BY <1>1, Times
<1> HIDE DEF n, S, E, E2
(* No other timer has its purpose. *)
<1>3. \A m : m \in S \/ m \in E2 =>
               ~(m.func = n.func /\ m.g = n.g /\ m.epoch = n.epoch)
  <2>1. n.id = Name(n.func, n.g, n.epoch)
    BY <1>0, <1>1 DEF Named
  <2>2. ASSUME NEW m, m \in S \/ m \in E2 PROVE m.id = Name(m.func, m.g, m.epoch)
    BY <1>0, <1>1, <2>2 DEF Named
  <2> QED BY <1>0, <1>1, <2>1, <2>2
<1>4. ASSUME NEW h \in Groups, h # n.g \/ n.epoch # epoch, NEW S2,
             \A m : m.g = h /\ m.epoch = epoch => (m \in S2 <=> m \in S)
      PROVE  GroupOK(uv_groups[h], S2, E2, h, epoch)
  <2>1. \A m : m.g = h /\ m.epoch = epoch =>
               (m \in S2 <=> m \in S) /\ (m \in E2 <=> m \in E)
    BY <1>1, <1>4
  <2>2. GroupOK(uv_groups[h], S, E, h, epoch)
    BY <1>0
  <2> QED BY <2>1, <2>2, GroupElsewhere
<1>5. CASE ~Live(n)
  <2>1. Q' = Q /\ uv_groups' = uv_groups /\ misused' \in BOOLEAN
    BY <1>5 DEF Handle, n
  <2>2. QueuesOK(Q', expQ', epoch')
    BY <1>0, <2>1, HandleQueues
  <2>3. ASSUME NEW h \in Groups PROVE GroupOK(uv_groups[h], S, E2, h, epoch)
    <3>1. CASE h # n.g \/ n.epoch # epoch
      BY <1>4, <3>1
    <3>2. CASE h = n.g /\ n.epoch = epoch
      <4>1. uv_groups[h] = NoGroup /\ GroupOK(uv_groups[h], S, E, h, epoch)
        BY <1>0, <1>5, <3>2 DEF Live, Joined
      <4> QED BY <1>1, <4>1 DEF GroupOK, GoneOK
    <3> QED BY <3>1, <3>2
  <2>4. GroupsOK'
    BY <1>0, <2>1, <2>3 DEF GroupsOK, S, E2
  <2>5. Silent(n)
    BY <1>5, <2>1 DEF Silent, Live, Joined
  <2> QED BY <1>0, <2>1, <2>2, <2>4, <2>5 DEF n
<1>6. CASE Live(n)
  <2> DEFINE g == n.g
             l == uv_groups[g]
  <2>0. n.epoch = epoch /\ l # NoGroup /\ misused' = misused
    BY <1>6 DEF Handle, Live, Joined, n
  <2>1. JoinedOK(l, S, E, g, epoch)
    BY <1>0, <1>2, <2>0 DEF GroupOK
  <2>2. DelVif(n) \/ SendQuery(n) \/ SwitchVersion(n)
    BY <1>6 DEF Handle, n
  <2>3. CASE DelVif(n)
    <3> DEFINE r == ClearTimer(Q, l.al_query)
    <3>1. /\ n.func = "DelVif" /\ Q' = ClearTimer(r, l.al_versiontimer)
          /\ uv_groups' = [uv_groups EXCEPT ![g] = NoGroup]
      BY <2>3 DEF DelVif
    <3>2. PICK query, version : query = l.al_query /\ version = l.al_versiontimer
      OBVIOUS
    <3>3. /\ query \in {NoTimer, Elsewhere, Name("SendQuery", g, epoch)}
          /\ version \in {NoTimer, Elsewhere, Name("SwitchVersion", g, epoch)}
          /\ (\E m \in S : Of(m, "SendQuery", g, epoch)) =>
               query = Name("SendQuery", g, epoch)
          /\ (\E m \in S : Of(m, "SwitchVersion", g, epoch)) =>
               version = Name("SwitchVersion", g, epoch)
      BY <2>1, <3>2 DEF JoinedOK, Listaddrs
    <3>4. /\ r \in Seq(Timers) /\ Distinct(r) /\ Named(Sched(r), epoch)
          /\ \A m : m \in Sched(r) <=> m \in S /\ ~Of(m, "SendQuery", g, epoch)
      <4>1. r = ClearTimer(Q, query)
        BY <3>2
      <4> HIDE DEF r
      <4>2. /\ ClearTimer(Q, query) \in Seq(Timers) /\ Distinct(ClearTimer(Q, query))
            /\ Named(Sched(ClearTimer(Q, query)), epoch)
            /\ \A m : m \in Sched(ClearTimer(Q, query)) <=>
                        m \in Sched(Q) /\ ~Of(m, "SendQuery", g, epoch)
        <5>1. /\ query \in {NoTimer, Elsewhere, Name("SendQuery", g, epoch)}
              /\ (\E m \in Sched(Q) : Of(m, "SendQuery", g, epoch)) =>
                   query = Name("SendQuery", g, epoch)
          BY <3>3 DEF S
        <5>2. Q \in Seq(Timers) /\ Distinct(Q) /\ Named(Sched(Q), epoch)
          BY <1>0 DEF S
        <5> QED BY <5>1, <5>2, ClearNamed
      <4> QED BY <4>1, <4>2 DEF S
    <3> HIDE DEF r
    <3>5. /\ Q' \in Seq(Timers) /\ Distinct(Q')
          /\ \A m : m \in Sched(Q') <=>
                      m \in Sched(r) /\ ~Of(m, "SwitchVersion", g, epoch)
      <4>1. Q' = ClearTimer(r, version)
        BY <3>1, <3>2
      <4>2. (\E m \in Sched(r) : Of(m, "SwitchVersion", g, epoch)) =>
              version = Name("SwitchVersion", g, epoch)
        BY <3>3, <3>4
      <4>3. /\ ClearTimer(r, version) \in Seq(Timers) /\ Distinct(ClearTimer(r, version))
            /\ \A m : m \in Sched(ClearTimer(r, version)) <=>
                        m \in Sched(r) /\ ~Of(m, "SwitchVersion", g, epoch)
        <5>1. version \in {NoTimer, Elsewhere, Name("SwitchVersion", g, epoch)}
          BY <3>3
        <5>2. r \in Seq(Timers) /\ Distinct(r) /\ Named(Sched(r), epoch)
          BY <3>4
        <5> QED BY <4>2, <5>1, <5>2, ClearNamed
      <4> QED BY <4>1, <4>3
    <3>6. \A m : m \in Sched(Q') <=> m \in S /\ ~Of(m, "SendQuery", g, epoch)
                                   /\ ~Of(m, "SwitchVersion", g, epoch)
      BY <3>4, <3>5
    <3>7. QueuesOK(Q', expQ', epoch')
      BY <1>0, <3>5, <3>6, HandleQueues DEF S
    <3>8. GoneOK(Sched(Q'), E2, g, epoch)
      <4>1. ASSUME NEW m \in Sched(Q') PROVE ~(m.g = g /\ m.epoch = epoch)
        <5>1. m \in S /\ ~Of(m, "SendQuery", g, epoch) /\ ~Of(m, "SwitchVersion", g, epoch)
          BY <3>6
        <5>2. m.func \in Funcs
          <6>1. m \in Timers
            BY <1>0, <5>1 DEF Named
          <6> QED BY <6>1, Times
        <5> QED BY <1>3, <2>0, <3>1, <5>1, <5>2 DEF Of, Funcs
      <4>2. ASSUME NEW m \in E2, m.g = g, m.epoch = epoch PROVE m.func = "SwitchVersion"
        <5>1. m.func \in Funcs
          <6>1. m \in Timers
            BY <1>0, <1>1 DEF Named
          <6> QED BY <6>1, Times
        <5> QED BY <1>1, <1>3, <2>0, <3>1, <4>2, <5>1 DEF Funcs
      <4> QED BY <4>1, <4>2 DEF GoneOK
    <3>9. ASSUME NEW h \in Groups PROVE GroupOK(uv_groups'[h], Sched(Q'), E2, h, epoch)
      <4>1. CASE h = g
        <5>1. uv_groups'[h] = NoGroup
          BY <1>0, <3>1, <4>1
        <5> QED BY <3>8, <4>1, <5>1 DEF GroupOK
      <4>2. CASE h # g
        <5>1. \A m : m.g = h /\ m.epoch = epoch => (m \in Sched(Q') <=> m \in S)
          BY <3>6, <4>2 DEF Of
        <5>2. uv_groups'[h] = uv_groups[h]
          BY <1>0, <3>1, <4>2
        <5> QED BY <1>4, <4>2, <5>1, <5>2
      <4> QED BY <4>1, <4>2
    <3>10. GroupsOK'
      <4>1. uv_groups' \in [Groups -> {NoGroup} \cup UNION {Listaddrs(h, epoch) : h \in Groups}]
        BY <1>0, <3>1
      <4> QED BY <1>0, <3>9, <4>1 DEF GroupsOK, E2
    <3>11. Final(n)
      <4>1. uv_groups'[g] = NoGroup /\ \A h \in Groups \ {g} : uv_groups'[h] = uv_groups[h]
        BY <1>0, <1>2, <3>1
      <4>2. \A m : m.func = "DelVif" => (m \in Sched(Q') <=> m \in Sched(Q))
        BY <3>6 DEF Of, S
      <4> QED BY <2>0, <3>1, <4>1, <4>2 DEF Final, Joined
    <3> QED BY <1>0, <2>0, <3>7, <3>10, <3>11 DEF n
  <2>4. ASSUME NEW l2 \in Listaddrs(g, epoch), uv_groups' = [uv_groups EXCEPT ![g] = l2],
               Q' = Q, JoinedOK(l2, S, E2, g, epoch), n.func # "DelVif"
        PROVE  QueuesOK(Q', expQ', epoch') /\ GroupsOK' /\ Silent(n)
    <3>1. QueuesOK(Q', expQ', epoch')
      BY <1>0, <2>4, HandleQueues
    <3>2. l2 # NoGroup
      BY NoGroupKnown
    <3>3. uv_groups'[g] = l2 /\ \A h \in Groups \ {g} : uv_groups'[h] = uv_groups[h]
      BY <1>0, <1>2, <2>4
    <3>4. ASSUME NEW h \in Groups PROVE GroupOK(uv_groups'[h], S, E2, h, epoch)
      <4>1. CASE h = g
        BY <2>4, <3>2, <3>3, <4>1 DEF GroupOK
      <4>2. CASE h # g
        BY <1>4, <3>3, <4>2
      <4> QED BY <4>1, <4>2
    <3>5. uv_groups' \in [Groups -> {NoGroup} \cup UNION {Listaddrs(h, epoch) : h \in Groups}]
      BY <1>0, <1>2, <2>4
    <3>6. GroupsOK'
      BY <1>0, <2>4, <3>4, <3>5 DEF GroupsOK, S, E2
    <3>7. Silent(n)
      BY <2>0, <2>4, <3>2, <3>3 DEF Silent, Joined
    <3> QED BY <3>1, <3>6, <3>7
  <2>5. /\ l \in Listaddrs(g, epoch)
        /\ \E m \in S \cup E : Of(m, "DelVif", g, epoch)
        /\ (\E m \in S \cup E : Of(m, "SendQuery", g, epoch)) =>
             l.al_query = Name("SendQuery", g, epoch)
        /\ (\E m \in S : Of(m, "SwitchVersion", g, epoch)) =>
             l.al_versiontimer = Name("SwitchVersion", g, epoch)
        /\ l.al_pv = 1 => /\ l.al_versiontimer = Name("SwitchVersion", g, epoch)
                          /\ \E m \in S \cup E : Of(m, "SwitchVersion", g, epoch)
        /\ l.al_query # NoTimer =>
             \A m \in S : Of(m, "DelVif", g, epoch) => \E t \in ShortTimes : m.time <= t
    BY <2>1 DEF JoinedOK
  <2>6. CASE SendQuery(n)
    <3> DEFINE l2 == [l EXCEPT !.al_query = NoTimer]
    <3>1. n.func = "SendQuery" /\ Q' = Q /\ uv_groups' = [uv_groups EXCEPT ![g] = l2]
      BY <2>6 DEF SendQuery
    <3>2. /\ l2 \in Listaddrs(g, epoch) /\ l2.al_query = NoTimer /\ l2.al_pv = l.al_pv
          /\ l2.al_versiontimer = l.al_versiontimer
      BY <2>5 DEF Listaddrs
    <3> HIDE DEF l2
    <3>3. \A m \in S \cup E : ~Of(m, "SendQuery", g, epoch) => m \in S \cup E2
      BY <1>1, <2>0, <3>1 DEF Of
    <3>4. ~(\E m \in S \cup E2 : Of(m, "SendQuery", g, epoch))
      BY <1>3, <2>0, <3>1 DEF Of
    <3>5. \E m \in S \cup E2 : Of(m, "DelVif", g, epoch)
      BY <2>5, <3>3 DEF Of
    <3>6. l2.al_pv = 1 => /\ l2.al_versiontimer = Name("SwitchVersion", g, epoch)
                          /\ \E m \in S \cup E2 : Of(m, "SwitchVersion", g, epoch)
      BY <2>5, <3>2, <3>3 DEF Of
    <3>7. JoinedOK(l2, S, E2, g, epoch)
      BY <2>5, <3>2, <3>4, <3>5, <3>6 DEF JoinedOK
    <3> QED BY <1>0, <2>0, <2>4, <3>1, <3>2, <3>7 DEF n
  <2>7. CASE SwitchVersion(n)
    <3> DEFINE pv == IF l.al_pv < 3 THEN l.al_pv + 1 ELSE l.al_pv
               l2 == [l EXCEPT !.al_pv = pv]
    <3>1. n.func = "SwitchVersion" /\ Q' = Q /\ uv_groups' = [uv_groups EXCEPT ![g] = l2]
      BY <2>7 DEF SwitchVersion
    <3>2. l.al_pv \in 1 .. 3
      BY <2>5 DEF Listaddrs
    <3>3. pv \in 1 .. 3 /\ pv # 1
      BY <3>2
    <3> HIDE DEF pv
    <3>4. /\ l2 \in Listaddrs(g, epoch) /\ l2.al_query = l.al_query /\ l2.al_pv = pv
          /\ l2.al_versiontimer = l.al_versiontimer
      BY <2>5, <3>3 DEF Listaddrs
    <3> HIDE DEF l2
    <3>5. \A m \in S \cup E : ~Of(m, "SwitchVersion", g, epoch) => m \in S \cup E2
      BY <1>1, <2>0, <3>1 DEF Of
    <3>6. \E m \in S \cup E2 : Of(m, "DelVif", g, epoch)
      BY <2>5, <3>5 DEF Of
    <3>7. S \cup E2 \subseteq S \cup E
      BY <1>1
    <3>8. JoinedOK(l2, S, E2, g, epoch)
      BY <2>5, <3>3, <3>4, <3>6, <3>7 DEF JoinedOK
    <3> QED BY <1>0, <2>0, <2>4, <3>1, <3>4, <3>8 DEF n
  <2> QED BY <2>2, <2>3, <2>6, <2>7
<1> QED BY <1>5, <1>6

LEMMA IgmpQuietKeeps ==
  ASSUME IgmpInv, UNCHANGED <<uv_groups, Q, expQ, epoch>>
  PROVE  QueuesOK(Q', expQ', epoch') /\ GroupsOK'
BY DEF IgmpInv, GroupsOK

LEMMA VifKeeps ==
  ASSUME IgmpInv, UNCHANGED vif, misused' \in BOOLEAN
  PROVE  VifOK'
BY DEF IgmpInv, VifOK, OneQuerier, vif

LEMMA QueryKeeps ==
  ASSUME IgmpAssumption, IgmpInv, NEW src \in Others, NEW g, NEW tmo \in Tmos, NEW version,
         Query(src, g, tmo, version)
  PROVE  IgmpInv'
<1>0. /\ expQ = <<>> /\ expQ' = expQ /\ epoch' = epoch /\ vifUp' = vifUp
      /\ misused' = misused
  BY DEF Query, Listening, Idle
<1>1. src \in Nat /\ src # NoQuerier /\ Me \in Nat /\ Others \subseteq Nat \ {NoQuerier}
  BY DEF IgmpAssumption, NoQuerier
<1>2. /\ VifOK
      /\ uv_querier \in Others \cup {NoQuerier} /\ al_timer \in 0 .. QuerierTimeout
      /\ QuerierTimeout \in Nat /\ isQuerier \in BOOLEAN /\ uv_igmpv1_warn \in {0, 1}
      /\ uv_querier # NoQuerier => uv_querier < Me
      /\ epoch = 0 => (isQuerier <=> uv_querier = NoQuerier)
  BY DEF IgmpInv, VifOK, OneQuerier, IgmpAssumption
<1>3. uv_igmpv1_warn' \in {0, 1}
  BY <1>2 DEF Query
<1>4. CASE TooHigh(version) /\ uv_igmpv1_warn' = 0
  <2>1. UNCHANGED <<uv_groups, Q, uv_querier, al_timer, isQuerier>>
    BY <1>4 DEF Query
  <2>2. VifOK'
    BY <1>0, <1>2, <1>3, <2>1 DEF VifOK, OneQuerier
  <2> QED BY <1>0, <2>1, <2>2, IgmpQuietKeeps DEF IgmpInv
<1>5. CASE ~(TooHigh(version) /\ uv_igmpv1_warn' = 0)
  <2>1. /\ uv_querier' = IF src # uv_querier /\ Lower(src) THEN src ELSE uv_querier
        /\ al_timer' = IF uv_querier' = src THEN 0 ELSE al_timer
        /\ isQuerier' = (isQuerier /\ ~(uv_querier = NoQuerier /\ uv_querier' # NoQuerier))
        /\ ShortenGroup(g, tmo)
    BY <1>5 DEF Query
  <2>2. /\ uv_querier' \in Others \cup {NoQuerier}
        /\ al_timer' \in 0 .. QuerierTimeout
    BY <1>2, <2>1
  <2>3. uv_querier' # NoQuerier => uv_querier' < Me
    BY <1>1, <1>2, <2>1 DEF Lower
  <2>4. epoch = 0 => (isQuerier' <=> uv_querier' = NoQuerier)
    BY <1>1, <1>2, <2>1
  <2>5. isQuerier' \in BOOLEAN
    BY <2>1
  <2>6. VifOK'
    BY <1>0, <1>2, <1>3, <2>2, <2>3, <2>4, <2>5 DEF VifOK, OneQuerier
  <2>7. QueuesOK(Q', expQ', epoch') /\ GroupsOK'
    <3>1. CASE UNCHANGED <<uv_groups, Q>>
      BY <1>0, <3>1, IgmpQuietKeeps
    <3>2. CASE g \in Groups /\ Joined(g) /\ Retimes(g, LastMemberQueryCount * tmo)
      BY <3>2, RetimesKeeps
    <3> QED BY <1>0, <2>1, <3>1, <3>2, ShortenEffect
  <2> QED BY <2>6, <2>7 DEF IgmpInv
<1> QED BY <1>4, <1>5

LEMMA QueryGroupsKeeps ==
  ASSUME IgmpInv, QueryGroups, UNCHANGED <<Q, expQ, epoch>>
  PROVE  /\ QueuesOK(Q', expQ', epoch') /\ GroupsOK'
         /\ \A g \in Groups : Joined(g)' <=> Joined(g)
<1>0. /\ uv_groups \in [Groups -> {NoGroup} \cup UNION {Listaddrs(g, epoch) : g \in Groups}]
      /\ \A g \in Groups : GroupOK(uv_groups[g], Sched(Q), Range(expQ), g, epoch)
  BY DEF IgmpInv, GroupsOK
<1>1. ASSUME NEW g \in Groups
      PROVE  /\ uv_groups'[g] \in {NoGroup} \cup Listaddrs(g, epoch)
             /\ GroupOK(uv_groups'[g], Sched(Q), Range(expQ), g, epoch)
             /\ Joined(g)' <=> Joined(g)
  <2>1. CASE ~Joined(g)
    <3>1. uv_groups'[g] = NoGroup /\ uv_groups[g] = NoGroup
      BY <2>1 DEF QueryGroups, Joined
    <3> QED BY <1>0, <3>1 DEF Joined
  <2>2. CASE Joined(g)
    <3> DEFINE l == uv_groups[g]
               old == IF l.al_old > TIMER_INTERVAL THEN l.al_old - TIMER_INTERVAL ELSE 0
               l2 == [l EXCEPT !.al_old = old]
    <3>1. uv_groups'[g] = l2
      BY <2>2 DEF QueryGroups
    <3>2. JoinedOK(l, Sched(Q), Range(expQ), g, epoch)
      BY <1>0, <2>2 DEF GroupOK, Joined
    <3>3. l \in Listaddrs(g, epoch)
      BY <3>2 DEF JoinedOK
    <3>4. old = 0
      <4>1. l.al_old \in {0, OldAge}
        BY <3>3 DEF Listaddrs
      <4> QED BY <4>1 DEF OldAge, TIMER_INTERVAL
    <3> HIDE DEF old
    <3>5. /\ l2 \in Listaddrs(g, epoch) /\ l2.al_query = l.al_query /\ l2.al_pv = l.al_pv
          /\ l2.al_versiontimer = l.al_versiontimer /\ l2.al_timerid = l.al_timerid
      BY <3>3, <3>4 DEF Listaddrs
    <3> HIDE DEF l2
    <3>6. JoinedOK(l2, Sched(Q), Range(expQ), g, epoch)
      BY <3>2, <3>5 DEF JoinedOK
    <3>7. l2 # NoGroup
      BY <3>5, NoGroupKnown
    <3> QED BY <2>2, <3>1, <3>5, <3>6, <3>7 DEF GroupOK, Joined
  <2> QED BY <2>1, <2>2
<1>2. uv_groups' \in [Groups -> {NoGroup} \cup UNION {Listaddrs(g, epoch) : g \in Groups}]
  <2>1. DOMAIN uv_groups' = Groups /\ uv_groups' = [g \in Groups |-> uv_groups'[g]]
    BY DEF QueryGroups
  <2> QED BY <1>1, <2>1
<1>3. GroupsOK'
  BY <1>1, <1>2 DEF GroupsOK
<1> QED BY <1>1, <1>3 DEF IgmpInv

LEMMA AgeVifKeeps ==
  ASSUME IgmpAssumption, IgmpInv, AgeVif
  PROVE  IgmpInv'
<1>0. /\ UNCHANGED <<Q, expQ, epoch>> /\ vifUp' = vifUp /\ misused' = misused
      /\ uv_igmpv1_warn' = uv_igmpv1_warn
  BY DEF AgeVif, timers
<1>1. QueuesOK(Q', expQ', epoch') /\ GroupsOK'
  <2>1. QueryGroups \/ UNCHANGED uv_groups
    BY DEF AgeVif
  <2> QED BY <1>0, <2>1, IgmpQuietKeeps, QueryGroupsKeeps
<1>2. VifOK /\ QuerierTimeout \in Nat
  BY DEF IgmpInv, IgmpAssumption
<1>3. VifOK'
  <2>1. CASE /\ uv_querier # NoQuerier /\ al_timer + 1 > QuerierTimeout
             /\ uv_querier' = NoQuerier /\ al_timer' = 0 /\ BecomeQuerier
    BY <1>0, <1>2, <2>1 DEF VifOK, OneQuerier, BecomeQuerier
  <2>2. CASE /\ uv_querier = NoQuerier \/ al_timer + 1 <= QuerierTimeout
             /\ al_timer' = IF uv_querier = NoQuerier THEN 0 ELSE al_timer + 1
             /\ UNCHANGED <<uv_querier, isQuerier>>
    <3>1. al_timer' \in 0 .. QuerierTimeout
      BY <1>2, <2>2 DEF VifOK
    <3> QED BY <1>0, <1>2, <2>2, <3>1 DEF VifOK, OneQuerier
  <2> QED BY <2>1, <2>2 DEF AgeVif
<1> QED BY <1>1, <1>3 DEF IgmpInv

LEMMA StopVifKeeps ==
  ASSUME IgmpAssumption, IgmpInv, StopVif
  PROVE  IgmpInv'
<1>0. /\ expQ = <<>> /\ Q' = Q /\ expQ' = expQ /\ epoch' = epoch + 1
      /\ uv_groups' = [g \in Groups |-> NoGroup] /\ epoch < MaxStops /\ MaxStops \in Nat
      /\ uv_querier' = uv_querier /\ al_timer' = al_timer /\ misused' = misused
      /\ uv_igmpv1_warn' = uv_igmpv1_warn /\ vifUp' = FALSE /\ isQuerier' = FALSE
      /\ epoch \in 0 .. MaxStops
  BY DEF StopVif, Listening, Idle, timers, IgmpInv, VifOK, IgmpAssumption
<1>1. /\ Named(Sched(Q), epoch) /\ QueuesOK(Q, expQ, epoch)
      /\ Range(expQ) = {}
  BY <1>0, EmptyFacts DEF IgmpInv, QueuesOK, TimersOK
<1>2. \A n \in Sched(Q) : n \in Timers /\ n.epoch \in Nat /\ n.epoch <= epoch
  BY <1>1, Times DEF Named
<1>3. Named(Sched(Q), epoch + 1) /\ Named({}, epoch + 1)
  BY <1>0, <1>1, <1>2 DEF Named
<1>4. QueuesOK(Q', expQ', epoch')
  BY <1>0, <1>1, <1>3 DEF QueuesOK, TimersOK
<1>5. ASSUME NEW g \in Groups
      PROVE  GroupOK(uv_groups'[g], Sched(Q'), Range(expQ'), g, epoch')
  <2>1. GoneOK(Sched(Q), {}, g, epoch + 1)
    BY <1>0, <1>2 DEF GoneOK
  <2> QED BY <1>0, <1>1, <2>1 DEF GroupOK
<1>6. GroupsOK'
  BY <1>0, <1>5 DEF GroupsOK
<1>7. VifOK'
  <2>1. VifOK
    BY DEF IgmpInv
  <2>2. epoch' \in 0 .. MaxStops /\ epoch' # 0
    BY <1>0
  <2>3. /\ uv_querier' \in Others \cup {NoQuerier} /\ al_timer' \in 0 .. QuerierTimeout
        /\ uv_igmpv1_warn' \in {0, 1} /\ misused' \in BOOLEAN
        /\ uv_querier' # NoQuerier => uv_querier' < Me
    BY <1>0, <2>1 DEF VifOK, OneQuerier
  <2>4. isQuerier' \in BOOLEAN /\ vifUp' \in BOOLEAN
    BY <1>0
  <2> QED BY <2>2, <2>3, <2>4 DEF VifOK, OneQuerier
<1> QED BY <1>4, <1>6, <1>7 DEF IgmpInv

LEMMA InitIgmpInv ==
  ASSUME IgmpAssumption, IgmpInit
  PROVE  IgmpInv
<1>1. /\ Sched(Q) = {} /\ Range(expQ) = {} /\ Q \in Seq(Timers) /\ expQ \in Seq(Timers)
      /\ Distinct(Q) /\ Distinct(expQ) /\ OrderOK(expQ)
  BY EmptyFacts DEF IgmpInit
<1>2. QueuesOK(Q, expQ, epoch)
  BY <1>1 DEF QueuesOK, TimersOK, Named, AskedFirst
<1>3. GroupsOK
  BY <1>1 DEF GroupsOK, GroupOK, GoneOK, IgmpInit
<1>4. VifOK
  <2>1. /\ uv_querier = NoQuerier /\ al_timer = 0 /\ isQuerier = TRUE /\ vifUp = TRUE
        /\ uv_igmpv1_warn = 0 /\ epoch = 0 /\ misused = FALSE
    BY DEF IgmpInit
  <2>2. al_timer \in 0 .. QuerierTimeout /\ epoch \in 0 .. MaxStops
    BY <2>1 DEF IgmpAssumption
  <2>3. isQuerier \in BOOLEAN /\ vifUp \in BOOLEAN /\ misused \in BOOLEAN
    BY <2>1
  <2>4. epoch = 0 => (isQuerier <=> uv_querier = NoQuerier)
    BY <2>1
  <2> QED BY <2>1, <2>2, <2>3, <2>4 DEF VifOK, OneQuerier
<1> QED BY <1>2, <1>3, <1>4 DEF IgmpInv

(* The groups, the queue of timers and the querier stay in order.          *)
THEOREM IgmpStep ==
  ASSUME IgmpAssumption, IgmpInv, [IgmpNext]_igmpVars
  PROVE  IgmpInv'
<1>1. CASE UNCHANGED igmpVars
  <2>1. UNCHANGED <<uv_groups, Q, expQ, epoch>> /\ UNCHANGED vif /\ misused' = misused
    BY <1>1 DEF igmpVars, timers, vif
  <2>2. misused \in BOOLEAN
    BY DEF IgmpInv, VifOK
  <2> QED BY <2>1, <2>2, IgmpQuietKeeps, VifKeeps DEF IgmpInv
<1>2. CASE IgmpNext
  <2>0. misused \in BOOLEAN
    BY DEF IgmpInv, VifOK
  <2>1. ASSUME NEW g \in Groups, NEW type \in OldReports \cup {"v3"}, GroupReport(g, type)
        PROVE  IgmpInv'
    <3>1. VifOK'
      BY <2>0, <2>1, VifKeeps DEF GroupReport
    <3>2. Retimes(g, MembershipTimeout)
      BY <2>1, ReportEffect
    <3> QED BY <3>1, <3>2, RetimesKeeps DEF IgmpInv
  <2>2. ASSUME NEW g \in Groups, LeaveMessage(g) PROVE IgmpInv'
    <3>1. VifOK'
      BY <2>0, <2>2, VifKeeps DEF LeaveMessage
    <3>2. Retimes(g, LeaveTime)
      BY <2>2, LeaveEffect
    <3> QED BY <3>1, <3>2, RetimesKeeps DEF IgmpInv
  <2>3. ASSUME NEW src \in Others, NEW g \in Groups \cup {AllGroups}, NEW tmo \in Tmos,
               NEW version \in {2, 3}, Query(src, g, tmo, version)
        PROVE  IgmpInv'
    BY <2>3, QueryKeeps
  <2>4. ASSUME NEW t \in 1 .. MaxElapsed, AgeQueue(t) PROVE IgmpInv'
    <3>1. t \in Nat
      OBVIOUS
    <3>2. VifOK'
      BY <2>0, <2>4, VifKeeps DEF AgeQueue
    <3> QED BY <2>4, <3>1, <3>2, AgeQueueKeeps DEF IgmpInv
  <2>5. CASE Handle
    <3>1. UNCHANGED vif
      BY <2>5 DEF Handle
    <3> QED BY <2>5, <3>1, HandleKeeps, VifKeeps DEF IgmpInv
  <2>6. CASE AgeVif
    BY <2>6, AgeVifKeeps
  <2>7. CASE StopVif
    BY <2>7, StopVifKeeps
  <2>8. CASE StartVif
    <3>1. /\ UNCHANGED <<uv_groups, Q, expQ, epoch>> /\ vifUp' = TRUE /\ isQuerier' = TRUE
          /\ UNCHANGED <<uv_querier, al_timer, uv_igmpv1_warn, misused>> /\ ~vifUp
      BY <2>8 DEF StartVif, timers
    <3>2. VifOK'
      BY <3>1 DEF IgmpInv, VifOK, OneQuerier
    <3> QED BY <3>1, <3>2, IgmpQuietKeeps DEF IgmpInv
  <2> QED BY <1>2, <2>1, <2>2, <2>3, <2>4, <2>5, <2>6, <2>7, <2>8 DEF IgmpNext
<1> QED BY <1>1, <1>2

(* They are in order from the start, and so they stay.                     *)
THEOREM IgmpInvariant == IgmpSpec => []IgmpInv
<1>1. IgmpInit => IgmpInv
  BY IgmpAssumption, InitIgmpInv
<1>2. IgmpInv /\ [IgmpNext]_igmpVars => IgmpInv'
  BY IgmpAssumption, IgmpStep
<1> QED BY <1>1, <1>2, PTL DEF IgmpSpec

-----------------------------------------------------------------------------
(* What the runs check *)

(* The nodes of both queues are known by their names.                      *)
LEMMA PendingFacts ==
  ASSUME IgmpInv
  PROVE  /\ \A n \in Pending : n \in Timers /\ n.id = Name(n.func, n.g, n.epoch)
         /\ \A n, m \in Pending : n.id = m.id => n = m
         /\ \A n \in Range(Q) : \E m \in Sched(Q) : Like(n, m)
         /\ \A f, g, e : (\E n \in Sched(Q) \cup Range(expQ) : Of(n, f, g, e))
                           => \E n \in Pending : Of(n, f, g, e)
<1>0. /\ Q \in Seq(Timers) /\ expQ \in Seq(Timers) /\ Distinct(Q) /\ Distinct(expQ)
      /\ Named(Sched(Q), epoch) /\ Named(Range(expQ), epoch)
      /\ \A n \in Sched(Q), m \in Range(expQ) : n.id # m.id
  BY DEF IgmpInv, QueuesOK, TimersOK
<1>1. /\ \A n \in Range(Q) : n \in Timers /\ \E m \in Sched(Q) : Like(n, m)
      /\ \A m \in Sched(Q) : m \in Timers /\ \E n \in Range(Q) : Like(n, m)
  BY <1>0, RangeSched
<1>2. \A n \in Pending : n \in Timers /\ n.id = Name(n.func, n.g, n.epoch)
  <2>1. ASSUME NEW n \in Range(Q) PROVE n \in Timers /\ n.id = Name(n.func, n.g, n.epoch)
    <3>1. PICK m \in Sched(Q) : Like(n, m)
      BY <1>1
    <3>2. m.id = Name(m.func, m.g, m.epoch)
      BY <1>0 DEF Named
    <3> QED BY <1>1, <3>1, <3>2 DEF Like
  <2>2. ASSUME NEW n \in Range(expQ) PROVE n \in Timers /\ n.id = Name(n.func, n.g, n.epoch)
    BY <1>0 DEF Named
  <2> QED BY <2>1, <2>2 DEF Pending
<1>3. ASSUME NEW n \in Pending, NEW m \in Pending, n.id = m.id
      PROVE  n = m
  <2>1. ASSUME NEW a \in Range(Q), NEW b \in Range(expQ) PROVE a.id # b.id
    <3>1. PICK c \in Sched(Q) : Like(a, c)
      BY <1>1
    <3> QED BY <1>0, <3>1 DEF Like
  <2>2. ASSUME NEW q \in Seq(Timers), Distinct(q), NEW a \in Range(q), NEW b \in Range(q),
               a.id = b.id
        PROVE  a = b
    <3>1. PICK i \in 1 .. Len(q) : a = q[i]
      BY DEF Range
    <3>2. PICK j \in 1 .. Len(q) : b = q[j]
      BY DEF Range
    <3> QED BY <2>2, <3>1, <3>2 DEF Distinct
  <2>3. CASE n \in Range(Q) /\ m \in Range(Q)
    BY <1>0, <1>3, <2>2, <2>3
  <2>4. CASE n \in Range(expQ) /\ m \in Range(expQ)
    BY <1>0, <1>3, <2>2, <2>4
  <2> QED BY <1>3, <2>1, <2>3, <2>4 DEF Pending
<1>4. ASSUME NEW f, NEW g, NEW e, NEW n \in Sched(Q) \cup Range(expQ), Of(n, f, g, e)
      PROVE  \E m \in Pending : Of(m, f, g, e)
  <2>1. CASE n \in Sched(Q)
    <3>1. PICK m \in Range(Q) : Like(m, n)
      BY <1>1, <2>1
    <3>2. Of(m, f, g, e) /\ m \in Pending
      BY <1>4, <3>1 DEF Like, Of, Pending
    <3> QED BY <3>2
  <2>2. CASE n \in Range(expQ)
    BY <1>4, <2>2 DEF Pending
  <2> QED BY <2>1, <2>2
<1> QED BY <1>1, <1>2, <1>3, <1>4

LEMMA JoinedFacts ==
  ASSUME IgmpInv, NEW g \in Groups, Joined(g)
  PROVE  /\ JoinedOK(uv_groups[g], Sched(Q), Range(expQ), g, epoch)
         /\ uv_groups[g] \in Listaddrs(g, epoch)
         /\ uv_groups[g].al_timerid = Name("DelVif", g, epoch)
<1>1. JoinedOK(uv_groups[g], Sched(Q), Range(expQ), g, epoch)
  BY DEF IgmpInv, GroupsOK, GroupOK, Joined
<1>2. uv_groups[g] \in Listaddrs(g, epoch)
  BY <1>1 DEF JoinedOK
<1> QED BY <1>1, <1>2 DEF Listaddrs

(* Types: every group's listaddr, and every timer, has the fields it       *)
(* should have, and a timer's number is taken again when no timer has it.  *)
THEOREM IgmpTypeCorrect == IgmpSpec => []IgmpTypeOK
<1>1. ASSUME IgmpInv PROVE IgmpTypeOK
  <2>1. epoch \in 0 .. MaxStops /\ VifOK
    BY <1>1 DEF IgmpInv, VifOK
  <2>2. Pending \subseteq Timers
    BY <1>1, PendingFacts
  <2> DEFINE Records ==
        [al_pv : 1 .. 3, al_old : {0, OldAge},
         al_query : IdsOf("SendQuery") \cup {NoTimer, Elsewhere},
         al_timerid : IdsOf("DelVif"),
         al_versiontimer : IdsOf("SwitchVersion") \cup {NoTimer}]
  <2>3. ASSUME NEW g \in Groups PROVE Listaddrs(g, epoch) \subseteq Records
    <3>1. \A f : Name(f, g, epoch) \in IdsOf(f)
      BY <2>1 DEF Name, IdsOf
    <3> QED BY <3>1 DEF Listaddrs
  <2>4. uv_groups \in [Groups -> {NoGroup} \cup Records]
    <3> HIDE DEF Records
    <3>1. uv_groups \in [Groups -> {NoGroup} \cup UNION {Listaddrs(g, epoch) : g \in Groups}]
      BY <1>1 DEF IgmpInv, GroupsOK
    <3> QED BY <2>3, <3>1
  <2> QED BY <2>1, <2>2, <2>4 DEF IgmpTypeOK, VifOK, Timers
<1> QED BY <1>1, IgmpInvariant, PTL

(* Every group with members has the one timer that will delete it, and no  *)
(* timer is left for a group that is gone.                                 *)
THEOREM GroupsAlwaysTimed == IgmpSpec => []TimersMatchGroups
<1>1. ASSUME IgmpInv PROVE TimersMatchGroups
  <2>0. \A g \in Groups : GroupOK(uv_groups[g], Sched(Q), Range(expQ), g, epoch)
    BY <1>1 DEF IgmpInv, GroupsOK
  <2>1. ASSUME NEW g \in Groups, Joined(g)
        PROVE  \E n \in Pending :
                 /\ n.id = uv_groups[g].al_timerid
                 /\ {m \in Pending : m.func = "DelVif" /\ m.g = g /\ m.epoch = epoch} = {n}
    <3>1. \E n \in Sched(Q) \cup Range(expQ) : Of(n, "DelVif", g, epoch)
      BY <1>1, <2>1, JoinedFacts DEF JoinedOK
    <3>2. PICK n \in Pending : Of(n, "DelVif", g, epoch)
      BY <1>1, <3>1, PendingFacts
    <3>3. \A m \in Pending : Of(m, "DelVif", g, epoch) => m.id = Name("DelVif", g, epoch)
      BY <1>1, PendingFacts DEF Of
    <3>4. \A m \in Pending : Of(m, "DelVif", g, epoch) <=> m = n
      BY <1>1, <3>2, <3>3, PendingFacts
    <3>5. n.id = uv_groups[g].al_timerid
      BY <1>1, <2>1, <3>2, <3>3, JoinedFacts
    <3> QED BY <3>4, <3>5 DEF Of
  <2>2. ASSUME NEW n \in Range(Q), n.epoch = epoch PROVE Live(n)
    <3>1. PICK m \in Sched(Q) : Like(n, m)
      BY <1>1, PendingFacts
    <3>2. n.g \in Groups
      BY <1>1, PendingFacts, Times DEF Pending
    <3>3. ~GoneOK(Sched(Q), Range(expQ), n.g, epoch)
      BY <2>2, <3>1 DEF GoneOK, Like
    <3>4. uv_groups[n.g] # NoGroup
      BY <2>0, <3>2, <3>3 DEF GroupOK
    <3> QED BY <2>2, <3>4 DEF Live, Joined
  <2>3. ASSUME NEW n \in Range(expQ), n.epoch = epoch, n.func # "SwitchVersion" PROVE Live(n)
    <3>1. n.g \in Groups
      BY <1>1, PendingFacts, Times DEF Pending
    <3>2. ~GoneOK(Sched(Q), Range(expQ), n.g, epoch)
      BY <2>3 DEF GoneOK
    <3>3. uv_groups[n.g] # NoGroup
      BY <2>0, <3>1, <3>2 DEF GroupOK
    <3> QED BY <2>3, <3>3 DEF Live, Joined
  <2> QED BY <2>1, <2>2, <2>3 DEF TimersMatchGroups
<1> QED BY <1>1, IgmpInvariant, PTL

(* A group that ignores leaves is gone or heard of again within the time   *)
(* of a leave or of the query that was heard, and the IGMPv1 mode of a     *)
(* group has the timer that ends it.                                       *)
THEOREM ModesAlwaysEnd == IgmpSpec => []ModesEnd
<1>1. ASSUME IgmpInv PROVE ModesEnd
  <2> SUFFICES ASSUME NEW g \in Groups, Joined(g)
               PROVE  /\ uv_groups[g].al_query # NoTimer =>
                           \E t \in ShortTimes :
                             LeftTimer(Q, uv_groups[g].al_timerid) <= t
                      /\ uv_groups[g].al_pv = 1 =>
                           \E n \in Pending :
                             /\ n.func = "SwitchVersion" /\ n.epoch = epoch
                             /\ n.id = uv_groups[g].al_versiontimer
    BY DEF ModesEnd
  <2>0. /\ Q \in Seq(Timers) /\ Distinct(Q) /\ Named(Sched(Q), epoch)
    BY <1>1 DEF IgmpInv, QueuesOK, TimersOK
  <2>1. /\ JoinedOK(uv_groups[g], Sched(Q), Range(expQ), g, epoch)
        /\ uv_groups[g].al_timerid = Name("DelVif", g, epoch)
    BY <1>1, JoinedFacts
  <2>2. ASSUME uv_groups[g].al_query # NoTimer
        PROVE  \E t \in ShortTimes : LeftTimer(Q, uv_groups[g].al_timerid) <= t
    <3>1. CASE \E n \in Sched(Q) : n.id = Name("DelVif", g, epoch)
      <4>1. PICK n \in Sched(Q) : n.id = Name("DelVif", g, epoch)
        BY <3>1
      <4>2. n.id = Name(n.func, n.g, n.epoch)
        BY <2>0 DEF Named
      <4>3. Of(n, "DelVif", g, epoch)
        BY <4>1, <4>2, Names DEF Of
      <4>4. \E t \in ShortTimes : n.time <= t
        BY <2>1, <2>2, <4>3 DEF JoinedOK
      <4>5. LeftTimer(Q, n.id) = n.time
        BY <2>0, LeftTimerTells
      <4> QED BY <2>1, <4>1, <4>4, <4>5
    <3>2. CASE \A n \in Sched(Q) : n.id # Name("DelVif", g, epoch)
      <4>1. LeftTimer(Q, Name("DelVif", g, epoch)) = -1
        BY <2>0, <3>2, LeftTimerNone
      <4>2. LeaveTime \in ShortTimes /\ LeaveTime \in Nat
        BY IgmpAssumption, ShortNat DEF ShortTimes
      <4>3. -1 <= LeaveTime
        BY <4>2
      <4> QED BY <2>1, <4>1, <4>2, <4>3
    <3> QED BY <3>1, <3>2
  <2>3. ASSUME uv_groups[g].al_pv = 1
        PROVE  \E n \in Pending : /\ n.func = "SwitchVersion" /\ n.epoch = epoch
                                  /\ n.id = uv_groups[g].al_versiontimer
    <3>1. /\ uv_groups[g].al_versiontimer = Name("SwitchVersion", g, epoch)
          /\ \E n \in Sched(Q) \cup Range(expQ) : Of(n, "SwitchVersion", g, epoch)
      BY <2>1, <2>3 DEF JoinedOK
    <3>2. PICK n \in Pending : Of(n, "SwitchVersion", g, epoch)
      BY <1>1, <3>1, PendingFacts
    <3>3. n.id = Name("SwitchVersion", g, epoch)
      BY <1>1, <3>2, PendingFacts DEF Of
    <3> QED BY <3>1, <3>2, <3>3 DEF Of
  <2> QED BY <2>2, <2>3
<1> QED BY <1>1, IgmpInvariant, PTL

(* Until the interface has been down, this router is the querier unless it *)
(* knows of one with a lower address.                                      *)
THEOREM AlwaysOneQuerier == IgmpSpec => []OneQuerier
<1>1. IgmpInv => OneQuerier
  BY DEF IgmpInv, VifOK
<1> QED BY <1>1, IgmpInvariant, PTL

-----------------------------------------------------------------------------
(* The refinement of GroupSpec *)

(* The lifetime of a group with the listaddr l, from the timers in q and x. *)
Left(l, q, x, g, e) ==
  IF l = NoGroup THEN -2
  ELSE IF \E n \in Range(x) : n.func = "DelVif" /\ n.g = g /\ n.epoch = e THEN -1
  ELSE LeftTimer(q, l.al_timerid)

(* It is told by the timer that will delete the group.                     *)
LEMMA LeftTold ==
  ASSUME NEW l, NEW q, NEW x, NEW g, NEW e, QueuesOK(q, x, e),
         GroupOK(l, Sched(q), Range(x), g, e)
  PROVE  /\ l = NoGroup => Left(l, q, x, g, e) = -2
         /\ l # NoGroup =>
              \/ /\ Left(l, q, x, g, e) = -1
                 /\ \E n \in Range(x) : Of(n, "DelVif", g, e)
              \/ \E n \in Sched(q) : Of(n, "DelVif", g, e) /\ Left(l, q, x, g, e) = n.time
         /\ l # NoGroup =>
              /\ \A n \in Range(x) : Of(n, "DelVif", g, e) => Left(l, q, x, g, e) = -1
              /\ \A n \in Sched(q) : Of(n, "DelVif", g, e) => Left(l, q, x, g, e) = n.time
         /\ Left(l, q, x, g, e) \in {-2, -1} \cup Nat
         /\ Left(l, q, x, g, e) = -2 => l = NoGroup
<1>0. /\ q \in Seq(Timers) /\ Distinct(q) /\ Named(Sched(q), e) /\ Named(Range(x), e)
      /\ \A n \in Sched(q), m \in Range(x) : n.id # m.id
  BY DEF QueuesOK, TimersOK
<1>1. CASE l = NoGroup
  BY <1>1 DEF Left
<1>2. CASE l # NoGroup
  <2>1. JoinedOK(l, Sched(q), Range(x), g, e)
    BY <1>2 DEF GroupOK
  <2>2. /\ \E n \in Sched(q) \cup Range(x) : Of(n, "DelVif", g, e)
        /\ l.al_timerid = Name("DelVif", g, e)
    BY <2>1 DEF JoinedOK, Listaddrs
  <2>3. ASSUME NEW n \in Range(x), Of(n, "DelVif", g, e)
        PROVE  Left(l, q, x, g, e) = -1
    BY <1>2, <2>3 DEF Left, Of
  <2>4. ASSUME NEW n \in Sched(q), Of(n, "DelVif", g, e)
        PROVE  Left(l, q, x, g, e) = n.time /\ n.time \in Nat
    <3>1. n.id = Name("DelVif", g, e) /\ n \in Timers
      BY <1>0, <2>4 DEF Named, Of
    <3>2. \A m \in Range(x) : Of(m, "DelVif", g, e) => m.id = Name("DelVif", g, e)
      BY <1>0 DEF Named, Of
    <3>3. \A m \in Range(x) : ~Of(m, "DelVif", g, e)
      BY <1>0, <3>1, <3>2
    <3>4. Left(l, q, x, g, e) = LeftTimer(q, l.al_timerid)
      BY <1>2, <3>3 DEF Left, Of
    <3>5. LeftTimer(q, n.id) = n.time
      BY <1>0, LeftTimerTells
    <3> QED BY <2>2, <3>1, <3>4, <3>5, Times
  <2> QED BY <1>2, <2>2, <2>3, <2>4
<1> QED BY <1>1, <1>2

(* It stays while that timer does.                                         *)
LEMMA LeftSame ==
  ASSUME NEW l, NEW q, NEW x, NEW g, NEW e, QueuesOK(q, x, e),
         GroupOK(l, Sched(q), Range(x), g, e),
         NEW l2, NEW q2, NEW x2, QueuesOK(q2, x2, e),
         GroupOK(l2, Sched(q2), Range(x2), g, e),
         l2 = NoGroup <=> l = NoGroup,
         \A n \in Sched(q) : Of(n, "DelVif", g, e) => n \in Sched(q2),
         \A n \in Range(x) : Of(n, "DelVif", g, e) => n \in Range(x2)
  PROVE  Left(l2, q2, x2, g, e) = Left(l, q, x, g, e)
<1>1. CASE l = NoGroup
  BY <1>1, LeftTold
<1>2. CASE l # NoGroup
  <2>1. CASE \E n \in Range(x) : Of(n, "DelVif", g, e)
    <3>1. PICK n \in Range(x) : Of(n, "DelVif", g, e)
      BY <2>1
    <3>2. Left(l, q, x, g, e) = -1
      BY <1>2, <3>1, LeftTold
    <3>3. Left(l2, q2, x2, g, e) = -1
      BY <1>2, <3>1, LeftTold
    <3> QED BY <3>2, <3>3
  <2>2. CASE \E n \in Sched(q) : Of(n, "DelVif", g, e)
    <3>1. PICK n \in Sched(q) : Of(n, "DelVif", g, e)
      BY <2>2
    <3>2. Left(l, q, x, g, e) = n.time
      BY <1>2, <3>1, LeftTold
    <3>3. Left(l2, q2, x2, g, e) = n.time
      BY <1>2, <3>1, LeftTold
    <3> QED BY <3>2, <3>3
  <2> QED BY <1>2, <2>1, <2>2, LeftTold
<1> QED BY <1>1, <1>2

LEMMA InvGroups ==
  ASSUME IgmpInv
  PROVE  /\ QueuesOK(Q, expQ, epoch)
         /\ \A g \in Groups : GroupOK(uv_groups[g], Sched(Q), Range(expQ), g, epoch)
         /\ \A g \in Groups : leftBar[g] = Left(uv_groups[g], Q, expQ, g, epoch)
         /\ \A g \in Groups : leftBar[g] \in {-2, -1} \cup Nat
         /\ \A g \in Groups : leftBar[g] = -2 <=> ~Joined(g)
<1>1. /\ QueuesOK(Q, expQ, epoch)
      /\ \A g \in Groups : GroupOK(uv_groups[g], Sched(Q), Range(expQ), g, epoch)
  BY DEF IgmpInv, GroupsOK
<1>2. \A g \in Groups : leftBar[g] = Left(uv_groups[g], Q, expQ, g, epoch)
  BY DEF leftBar, Left, Joined
<1> QED BY <1>1, <1>2, LeftTold DEF Joined

LEMMA InvGroupsNext ==
  ASSUME IgmpInv'
  PROVE  /\ QueuesOK(Q', expQ', epoch')
         /\ \A g \in Groups : GroupOK(uv_groups'[g], Sched(Q'), Range(expQ'), g, epoch')
         /\ \A g \in Groups : leftBar'[g] = Left(uv_groups'[g], Q', expQ', g, epoch')
         /\ leftBar' \in [Groups -> {-2, -1} \cup Nat]
<1>1. /\ QueuesOK(Q', expQ', epoch')
      /\ \A g \in Groups : GroupOK(uv_groups'[g], Sched(Q'), Range(expQ'), g, epoch')
  BY DEF IgmpInv, GroupsOK
<1>2. leftBar' = [g \in Groups |-> Left(uv_groups'[g], Q', expQ', g, epoch')]
  BY DEF leftBar, Left, Joined
<1>3. \A g \in Groups : Left(uv_groups'[g], Q', expQ', g, epoch') \in {-2, -1} \cup Nat
  BY <1>1, LeftTold
<1> QED BY <1>1, <1>2, <1>3

(* Nobody is due while no timer is handled.                                *)
LEMMA NobodyIsDue ==
  ASSUME IgmpInv, expQ = <<>>
  PROVE  \A g \in Groups : leftBar[g] # -1 /\ \A n \in Range(expQ) : FALSE
<1>1. \A n : n \notin Range(expQ)
  BY EmptyFacts
<1> SUFFICES ASSUME NEW g \in Groups PROVE leftBar[g] # -1
  BY <1>1
<1>2. /\ leftBar[g] = Left(uv_groups[g], Q, expQ, g, epoch) /\ QueuesOK(Q, expQ, epoch)
      /\ GroupOK(uv_groups[g], Sched(Q), Range(expQ), g, epoch)
  BY InvGroups
<1>3. \A n \in Sched(Q) : n.time \in Nat
  BY <1>2, RangeSched, Times DEF QueuesOK
<1> QED BY <1>1, <1>2, <1>3, LeftTold

(* A group that is timed anew has the new time, and the others theirs.     *)
LEMMA RetimesLeft ==
  ASSUME IgmpInv, IgmpInv', NEW g \in Groups, NEW t, Retimes(g, t)
  PROVE  leftBar'[g] = t /\ \A h \in Groups \ {g} : leftBar'[h] = leftBar[h]
<1>0. /\ expQ' = expQ /\ epoch' = epoch
      /\ \A n : ~(n.g = g /\ n.epoch = epoch) => (n \in Sched(Q') <=> n \in Sched(Q))
      /\ Node("DelVif", g, epoch, t) \in Sched(Q')
  BY DEF Retimes
<1>1. PICK l \in Listaddrs(g, epoch) : uv_groups' = [uv_groups EXCEPT ![g] = l]
  BY DEF Retimes
<1>2. uv_groups'[g] = l /\ \A h \in Groups \ {g} : uv_groups'[h] = uv_groups[h]
  BY <1>1 DEF IgmpInv, GroupsOK
<1>3. l # NoGroup
  BY NoGroupKnown
<1>4. leftBar'[g] = t
  <2>1. /\ Of(Node("DelVif", g, epoch, t), "DelVif", g, epoch)
        /\ Node("DelVif", g, epoch, t).time = t
    BY DEF Node, Of
  <2> QED BY <1>0, <1>2, <1>3, <2>1, InvGroupsNext, LeftTold
<1>5. ASSUME NEW h \in Groups \ {g} PROVE leftBar'[h] = leftBar[h]
  <2>1. \A n : Of(n, "DelVif", h, epoch) => (n \in Sched(Q') <=> n \in Sched(Q))
    BY <1>0 DEF Of
  <2>2. Left(uv_groups'[h], Q', expQ', h, epoch) = Left(uv_groups[h], Q, expQ, h, epoch)
    BY <1>0, <1>2, <2>1, InvGroups, InvGroupsNext, LeftSame
  <2> QED BY <1>0, <2>2, InvGroups, InvGroupsNext
<1> QED BY <1>4, <1>5

(* Where the timers and the groups' existence stay, so do the lifetimes.   *)
LEMMA StillLeft ==
  ASSUME IgmpInv, IgmpInv', UNCHANGED <<Q, expQ, epoch>>,
         \A g \in Groups : Joined(g)' <=> Joined(g)
  PROVE  leftBar' = leftBar
<1>1. ASSUME NEW g \in Groups PROVE leftBar'[g] = leftBar[g]
  <2>1. uv_groups'[g] = NoGroup <=> uv_groups[g] = NoGroup
    BY DEF Joined
  <2>2. Left(uv_groups'[g], Q', expQ', g, epoch) = Left(uv_groups[g], Q, expQ, g, epoch)
    BY <2>1, InvGroups, InvGroupsNext, LeftSame
  <2> QED BY <2>2, InvGroups, InvGroupsNext
<1> QED BY <1>1 DEF leftBar

LEMMA AgedLeft ==
  ASSUME IgmpAssumption, IgmpInv, IgmpInv', NEW e \in Nat, AgeQueue(e), NEW g \in Groups
  PROVE  leftBar'[g] = CASE leftBar[g] = -2 -> -2
                         [] leftBar[g] \in 0 .. e -> -1
                         [] OTHER -> leftBar[g] - e
<1>0. /\ expQ = <<>> /\ epoch' = epoch /\ uv_groups' = uv_groups
      /\ Later(Sched(Q), Sched(Q'), Range(expQ'), e)
  BY AgeQueueEffect
<1>1. CASE uv_groups[g] = NoGroup
  <2>1. leftBar[g] = -2 /\ leftBar'[g] = -2
    BY <1>0, <1>1, InvGroups, InvGroupsNext, LeftTold
  <2> QED BY <2>1
<1>2. CASE uv_groups[g] # NoGroup
  <2>1. \A n : n \notin Range(expQ)
    BY <1>0, EmptyFacts
  <2>2. PICK m \in Sched(Q) : Of(m, "DelVif", g, epoch) /\ leftBar[g] = m.time
    BY <1>2, <2>1, InvGroups, LeftTold
  <2>3. m.time \in Nat
    BY <2>2, InvGroups, RangeSched, Times DEF QueuesOK
  <2>4. CASE m.time <= e
    <3>1. PICK n \in Range(expQ') : Like(n, m)
      BY <1>0, <2>4 DEF Later
    <3>2. Of(n, "DelVif", g, epoch)
      BY <2>2, <3>1 DEF Like, Of
    <3>3. leftBar'[g] = -1
      BY <1>0, <1>2, <3>2, InvGroupsNext, LeftTold
    <3> QED BY <2>2, <2>3, <2>4, <3>3
  <2>5. CASE m.time > e
    <3>1. PICK n \in Sched(Q') : Like(n, m) /\ n.time = m.time - e
      BY <1>0, <2>5 DEF Later
    <3>2. Of(n, "DelVif", g, epoch)
      BY <2>2, <3>1 DEF Like, Of
    <3>3. leftBar'[g] = m.time - e
      BY <1>0, <1>2, <3>1, <3>2, InvGroupsNext, LeftTold
    <3> QED BY <2>2, <2>3, <2>5, <3>3
  <2> QED BY <2>3, <2>4, <2>5
<1> QED BY <1>1, <1>2

LEMMA HandledLeft ==
  ASSUME IgmpInv, IgmpInv', Handle
  PROVE  \/ leftBar' = leftBar
         \/ \E g \in Groups : /\ leftBar[g] = -1 /\ leftBar'[g] = -2
                              /\ \A h \in Groups \ {g} : leftBar'[h] = leftBar[h]
<1> DEFINE n == Head(expQ)
<1>0. /\ expQ # <<>> /\ expQ' = Tail(expQ) /\ epoch' = epoch
      /\ expQ \in Seq(Timers) /\ Distinct(expQ) /\ OrderOK(expQ)
  BY HandleKeeps, InvGroups DEF Handle, QueuesOK
<1>1. /\ n \in Timers /\ n \in Range(expQ)
      /\ \A m : m \in Range(expQ') <=> m \in Range(expQ) /\ m # n
  BY <1>0, Handled
<1>2. n.g \in Groups
  BY <1>1, Times
<1> HIDE DEF n
<1>3. ASSUME NEW g \in Groups, uv_groups'[g] = NoGroup <=> uv_groups[g] = NoGroup,
             ~Of(n, "DelVif", g, epoch) \/ uv_groups[g] = NoGroup,
             \A m : m.func = "DelVif" => (m \in Sched(Q') <=> m \in Sched(Q))
      PROVE  leftBar'[g] = leftBar[g]
  <2>1. CASE uv_groups[g] = NoGroup
    BY <1>0, <1>3, <2>1, InvGroups, InvGroupsNext, LeftTold
  <2>2. CASE ~Of(n, "DelVif", g, epoch)
    <3>1. /\ \A m \in Sched(Q) : Of(m, "DelVif", g, epoch) => m \in Sched(Q')
          /\ \A m \in Range(expQ) : Of(m, "DelVif", g, epoch) => m \in Range(expQ')
      BY <1>1, <1>3, <2>2 DEF Of
    <3>2. Left(uv_groups'[g], Q', expQ', g, epoch) = Left(uv_groups[g], Q, expQ, g, epoch)
      BY <1>0, <1>3, <3>1, InvGroups, InvGroupsNext, LeftSame
    <3> QED BY <1>0, <3>2, InvGroups, InvGroupsNext
  <2> QED BY <1>3, <2>1, <2>2
<1>4. CASE Silent(n)
  <2>1. ASSUME NEW g \in Groups PROVE leftBar'[g] = leftBar[g]
    <3>1. uv_groups'[g] = NoGroup <=> uv_groups[g] = NoGroup
      BY <1>4 DEF Silent, Joined
    <3>2. ~Of(n, "DelVif", g, epoch) \/ uv_groups[g] = NoGroup
      BY <1>4 DEF Silent, Joined, Of
    <3>3. Q' = Q
      BY <1>4 DEF Silent
    <3> QED BY <1>3, <3>1, <3>2, <3>3
  <2> QED BY <2>1 DEF leftBar
<1>5. CASE Final(n)
  <2> DEFINE g == n.g
  <2>1. /\ Of(n, "DelVif", g, epoch) /\ uv_groups[g] # NoGroup /\ uv_groups'[g] = NoGroup
        /\ \A h \in Groups \ {g} : uv_groups'[h] = uv_groups[h]
        /\ \A m : m.func = "DelVif" => (m \in Sched(Q') <=> m \in Sched(Q))
    BY <1>5 DEF Final, Joined, Of
  <2>2. leftBar[g] = -1
    BY <1>1, <1>2, <2>1, InvGroups, LeftTold
  <2>3. leftBar'[g] = -2
    BY <1>0, <1>2, <2>1, InvGroupsNext, LeftTold
  <2>4. \A h \in Groups \ {g} : leftBar'[h] = leftBar[h]
    <3>1. \A h \in Groups \ {g} : ~Of(n, "DelVif", h, epoch)
      BY DEF Of
    <3> QED BY <1>3, <2>1, <3>1
  <2> QED BY <1>2, <2>2, <2>3, <2>4
<1> QED BY <1>4, <1>5, HandleKeeps DEF n

LEMMA StoppedLeft ==
  ASSUME IgmpInv', StopVif
  PROVE  \A g \in Groups : leftBar'[g] = -2
<1>1. \A g \in Groups : uv_groups'[g] = NoGroup
  BY DEF StopVif
<1> QED BY <1>1, InvGroupsNext, LeftTold

LEMMA MembershipInit ==
  ASSUME IgmpInit
  PROVE  Membership!Init
BY DEF IgmpInit, Membership!Init, Membership!Gone, leftBar, Joined

(* Every step changes at most one lifetime, as GroupSpec has it, or all of *)
(* them by the same time, or ends them all.                                *)
LEMMA MembershipStep ==
  ASSUME IgmpAssumption, IgmpInv, IgmpInv', [IgmpNext]_igmpVars
  PROVE  [Membership!Next]_leftBar
<1> USE DEF Membership!Gone, Membership!Due
<1>0. leftBar' \in [Groups -> {-2, -1} \cup Nat]
  BY InvGroupsNext
<1>1. ASSUME NEW g \in Groups, Retimes(g, MembershipTimeout)
      PROVE  Membership!Next
  <2>1. Membership!NobodyDue
    BY <1>1, NobodyIsDue DEF Retimes, Membership!NobodyDue
  <2>2. Membership!Report(g)
    BY <1>1, <2>1, RetimesLeft DEF Membership!Report, Membership!Becomes, Membership!Same
  <2> QED BY <1>0, <2>2 DEF Membership!Next
<1>2. ASSUME NEW g \in Groups, Joined(g), NEW t \in ShortTimes, Retimes(g, t)
      PROVE  Membership!Next
  <2>1. Membership!NobodyDue
    BY <1>2, NobodyIsDue DEF Retimes, Membership!NobodyDue
  <2>2. Membership!Becomes(g, t)
    BY <1>2, RetimesLeft DEF Membership!Becomes, Membership!Same
  <2>3. Membership!Shorten(g)
    BY <1>2, <2>1, <2>2, InvGroups DEF Membership!Shorten
  <2> QED BY <1>0, <2>3 DEF Membership!Next
<1>3. ASSUME NEW t \in 1 .. MaxElapsed, AgeQueue(t)
      PROVE  Membership!Next
  <2>1. Membership!NobodyDue
    BY <1>3, NobodyIsDue DEF AgeQueue, Idle, Membership!NobodyDue
  <2>2. t \in Nat
    OBVIOUS
  <2>3. Membership!Elapse(t)
    BY <1>3, <2>1, <2>2, AgedLeft DEF Membership!Elapse
  <2> QED BY <1>0, <2>3 DEF Membership!Next
<1>4. CASE Handle
  <2>1. ASSUME NEW g \in Groups, leftBar[g] = -1, leftBar'[g] = -2,
               \A h \in Groups \ {g} : leftBar'[h] = leftBar[h]
        PROVE  Membership!Next
    BY <1>0, <2>1 DEF Membership!Next, Membership!Expire, Membership!Becomes,
                      Membership!Same
  <2> QED BY <1>4, <2>1, HandledLeft
<1>5. CASE StopVif
  <2>1. Membership!Down
    BY <1>5, StoppedLeft DEF Membership!Down
  <2> QED BY <1>0, <2>1 DEF Membership!Next
<1>6. ASSUME NEW src \in Others, NEW g, NEW tmo \in Tmos, NEW version,
             Query(src, g, tmo, version)
      PROVE  [Membership!Next]_leftBar
  <2>1. expQ = <<>> /\ expQ' = expQ /\ epoch' = epoch
    BY <1>6 DEF Query, Listening, Idle
  <2>2. UNCHANGED <<uv_groups, Q>> \/ ShortenGroup(g, tmo)
    BY <1>6 DEF Query
  <2>3. CASE UNCHANGED <<uv_groups, Q>>
    <3>1. \A h \in Groups : Joined(h)' <=> Joined(h)
      BY <2>3 DEF Joined
    <3> QED BY <2>1, <2>3, <3>1, StillLeft
  <2>4. CASE g \in Groups /\ Joined(g) /\ Retimes(g, LastMemberQueryCount * tmo)
    <3>1. LastMemberQueryCount * tmo \in ShortTimes
      BY DEF ShortTimes
    <3> QED BY <1>2, <2>4, <3>1
  <2> QED BY <2>1, <2>2, <2>3, <2>4, ShortenEffect
<1>7. CASE AgeVif
  <2>1. UNCHANGED <<Q, expQ, epoch>> /\ (QueryGroups \/ UNCHANGED uv_groups)
    BY <1>7 DEF AgeVif, timers
  <2>2. \A g \in Groups : Joined(g)' <=> Joined(g)
    <3>1. CASE QueryGroups
      BY <2>1, <3>1, QueryGroupsKeeps
    <3>2. CASE UNCHANGED uv_groups
      BY <3>2 DEF Joined
    <3> QED BY <2>1, <3>1, <3>2
  <2> QED BY <2>1, <2>2, StillLeft
<1>8. CASE StartVif \/ UNCHANGED igmpVars
  <2>1. UNCHANGED <<uv_groups, Q, expQ, epoch>>
    BY <1>8 DEF StartVif, igmpVars, timers, vif
  <2>2. \A g \in Groups : Joined(g)' <=> Joined(g)
    BY <2>1 DEF Joined
  <2> QED BY <2>1, <2>2, StillLeft
<1>9. ASSUME NEW g \in Groups, NEW type \in OldReports \cup {"v3"}, GroupReport(g, type)
      PROVE  Membership!Next
  BY <1>1, <1>9, ReportEffect
<1>10. ASSUME NEW g \in Groups, LeaveMessage(g)
       PROVE  Membership!Next
  <2>1. Joined(g) /\ LeaveTime \in ShortTimes
    BY <1>10 DEF LeaveMessage, ShortTimes
  <2> QED BY <1>2, <1>10, <2>1, LeaveEffect
<1> QED BY <1>3, <1>4, <1>5, <1>6, <1>7, <1>8, <1>9, <1>10 DEF IgmpNext

(* The three timers of every group, kept in one queue of differences and   *)
(* found by number, give each group the one lifetime of GroupSpec.         *)
THEOREM MembershipImplemented == IgmpSpec => MembershipSpec
<1>1. IgmpInit => Membership!Init
  BY MembershipInit
<1>2. IgmpInv /\ IgmpInv' /\ [IgmpNext]_igmpVars => [Membership!Next]_leftBar
  BY IgmpAssumption, MembershipStep
<1> QED BY <1>1, <1>2, IgmpInvariant, PTL DEF IgmpSpec, MembershipSpec, Membership!Spec
=============================================================================
