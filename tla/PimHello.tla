------------------------------ MODULE PimHello ------------------------------
(***************************************************************************)
(* The designated router of a LAN (pimd_netlink, pim_proto.c).  Each pimd  *)
(* keeps the neighbours whose PIM hellos it hears, elects the DR from them *)
(* and itself, and only as the DR sends the data of local sources to the   *)
(* rendezvous point, through its register interface.                       *)
(*                                                                         *)
(* Routers are named by their address.  Those in Pimds run this code; the  *)
(* others stand for other implementations, which may leave the DR Priority *)
(* option out of their hellos, change it, and say good-bye.  A hello on    *)
(* the wire is what its sender would send now; it may be lost.  A          *)
(* neighbour's holdtime runs out whenever it likes: hellos may be lost.    *)
(*                                                                         *)
(* Priority 0 sent in the option is not the same as no option, but pimd    *)
(* keeps 0 for both and asks only whether that has changed: a neighbour    *)
(* that goes from one to the other changes who should be elected, and no   *)
(* election is held.  Such a pimd is `stale` until its next election; what *)
(* is shown below of the role is shown of the others.                      *)
(***************************************************************************)
EXTENDS Integers

CONSTANTS
  Pimds, Foreign,     \* addresses
  Prios               \* priorities

ASSUME HelloAssumption ==
  /\ Pimds \subseteq Nat /\ Foreign \subseteq Nat /\ Pimds \cap Foreign = {}
  /\ Prios \subseteq Nat

Routers == Pimds \cup Foreign
OwnPrios == Prios \ {0}   \* what pimd's configuration accepts
NoPrio == -1              \* the option is not sent
GenIDs == {0, 1}          \* a restart takes another one
Unknown == [prio |-> -1, present |-> FALSE, genid |-> 0]
Entries == [prio : Prios \cup {0}, present : BOOLEAN, genid : GenIDs]

VARIABLES
  up, prio, genid,        \* the routers
  nbrs,                   \* uv_pim_neighbors of every pimd
  isDR,                   \* VIFF_DR
  wire,                   \* router -> pimds its hello has not reached yet
  register,               \* the register interface is an oif of a local source
  mixed,                  \* history: a hello without the option was sent
  stale                   \* history: since its last election a pimd has heard
                          \* priority 0 become no option, or no option 0

router == <<up, prio, genid>>
vars == <<router, nbrs, isDR, wire, register, mixed, stale>>

NoNbrs == [r \in Routers |-> Unknown]
Known(table) == {r \in Routers : table[r] # Unknown}

Init ==
  /\ up = [r \in Routers |-> FALSE]
  /\ prio \in [Routers -> Prios] /\ \A p \in Pimds : prio[p] \in OwnPrios
  /\ genid = [r \in Routers |-> 0]
  /\ nbrs = [p \in Pimds |-> NoNbrs]
  /\ isDR = [p \in Pimds |-> FALSE]
  /\ wire = [r \in Routers |-> {}]
  /\ register = [p \in Pimds |-> FALSE]
  /\ mixed = FALSE
  /\ stale = [p \in Pimds |-> FALSE]
-----------------------------------------------------------------------------
(* restart_dr_election *)

(* A slip: the highest priority wins even where a router has none. *)
MutUsePrio(table) == TRUE

UsePrio(table) == \A r \in Known(table) : table[r].present

(* The highest priority wins, and among equals the address: but the tie is *)
(* broken by the highest of all addresses, not the highest of those with   *)
(* the best priority.  Without neighbours both hold.                       *)
Elected(p, table) ==
  \/ UsePrio(table) /\ \A r \in Known(table) : table[r].prio < prio[p]
  \/ /\ UsePrio(table) => \A r \in Known(table) : table[r].prio <= prio[p]
     /\ \A r \in Known(table) : r < p

Hear(p, table) ==
  /\ nbrs' = [nbrs EXCEPT ![p] = table]
  /\ isDR' = [isDR EXCEPT ![p] = Elected(p, table)]
  /\ stale' = [stale EXCEPT ![p] = FALSE]

(* A slip: the register interface stays. *)
MutHearAndCleanUp(p, table) == Hear(p, table) /\ UNCHANGED register

(* Who loses the role takes the register interface away. *)
HearAndCleanUp(p, table) ==
  /\ Hear(p, table)
  /\ register' = [register EXCEPT ![p] = @ /\ ~(isDR[p] /\ ~isDR'[p])]

(* delete_pim_nbr does not look at the result of the election. *)
DeleteNbr(p, r) ==
  /\ Hear(p, [nbrs[p] EXCEPT ![r] = Unknown])
  /\ UNCHANGED register
-----------------------------------------------------------------------------
Everybody(r) == Pimds \ {r}

(* What parse_pim_hello reads in the hello of r, no option being 0 to it;  *)
(* a foreign router that has gone sends holdtime 0.                        *)
Option(r) ==
  LET present == prio[r] # NoPrio IN
  [prio |-> IF present THEN prio[r] ELSE 0, present |-> present, genid |-> genid[r]]
GoodBye(r) == r \in Foreign /\ ~up[r]

(* send_pim_hello, from age_vifs *)
SendHello(r) ==
  /\ up[r]
  /\ wire' = [wire EXCEPT ![r] = Everybody(r)]
  /\ mixed' = (mixed \/ prio[r] = NoPrio)
  /\ UNCHANGED <<router, nbrs, isDR, register, stale>>

Lose(r, p) ==
  /\ p \in wire[r]
  /\ wire' = [wire EXCEPT ![r] = @ \ {p}]
  /\ UNCHANGED <<router, nbrs, isDR, register, mixed, stale>>

(* A slip: a neighbour that restarts or changes its priority is noted, and *)
(* no more.                                                                *)
MutMustElect(p, r) == FALSE

(* A known neighbour has restarted or has another priority; whether it     *)
(* sends one is not asked.                                                 *)
MustElect(p, r) ==
  nbrs[p][r].genid # Option(r).genid \/ nbrs[p][r].prio # Option(r).prio

(* receive_pim_hello *)
Receive(r, p) ==
  /\ p \in wire[r] /\ up[p]
  /\ LET table == [nbrs[p] EXCEPT ![r] = Option(r)]
         heard == [wire EXCEPT ![r] = @ \ {p}]
     IN  \/ /\ nbrs[p][r] = Unknown
            /\ wire' = [heard EXCEPT ![p] = Everybody(p)]
            /\ HearAndCleanUp(p, table)
         \/ /\ nbrs[p][r] # Unknown /\ GoodBye(r)
            /\ wire' = heard
            /\ DeleteNbr(p, r)
         \/ /\ nbrs[p][r] # Unknown /\ ~GoodBye(r)
            /\ wire' = heard
            /\ IF MustElect(p, r)
                 THEN HearAndCleanUp(p, table)
                 ELSE /\ nbrs' = [nbrs EXCEPT ![p] = table]
                      /\ stale' = [stale EXCEPT ![p] =
                                     @ \/ nbrs[p][r].present # Option(r).present]
                      /\ UNCHANGED <<isDR, register>>
  /\ UNCHANGED <<router, mixed>>

(* age_vifs: the holdtime of a neighbour has passed. *)
Timeout(p, r) ==
  /\ up[p] /\ nbrs[p][r] # Unknown
  /\ DeleteNbr(p, r)
  /\ UNCHANGED <<router, wire, mixed>>

(* process_cache_miss, for a source on the LAN *)
CacheMiss(p) ==
  /\ up[p] /\ isDR[p]
  /\ register' = [register EXCEPT ![p] = TRUE]
  /\ UNCHANGED <<router, nbrs, isDR, wire, mixed, stale>>
-----------------------------------------------------------------------------
(* start_vif; external for other routers. *)
Start(r) ==
  /\ ~up[r]
  /\ up' = [up EXCEPT ![r] = TRUE]
  /\ genid' = [genid EXCEPT ![r] = IF r \in Pimds THEN 1 - @ ELSE @]
  /\ nbrs' = [p \in Pimds |-> IF p = r THEN NoNbrs ELSE nbrs[p]]
  /\ isDR' = [p \in Pimds |-> p = r \/ isDR[p]]
  /\ stale' = [p \in Pimds |-> p # r /\ stale[p]]
  /\ wire' = [wire EXCEPT ![r] = Everybody(r)]
  /\ mixed' = (mixed \/ prio[r] = NoPrio)
  /\ UNCHANGED <<prio, register>>

(* stop_vif: no good-bye; the election after the last neighbour is deleted *)
(* marks the interface that is down as the DR.                             *)
Stop(p) ==
  /\ up[p]
  /\ up' = [up EXCEPT ![p] = FALSE]
  /\ nbrs' = [nbrs EXCEPT ![p] = NoNbrs]
  /\ isDR' = [isDR EXCEPT ![p] = Known(nbrs[p]) # {}]
  /\ register' = [register EXCEPT ![p] = FALSE]
  /\ stale' = [stale EXCEPT ![p] = FALSE]
  /\ UNCHANGED <<prio, genid, wire, mixed>>

(* External: another router goes, with a good-bye or without. *)
Leave(r) ==
  /\ up[r]
  /\ up' = [up EXCEPT ![r] = FALSE]
  /\ \E bye \in {{}, Everybody(r)} : wire' = [wire EXCEPT ![r] = bye]
  /\ mixed' = (mixed \/ prio[r] = NoPrio)
  /\ UNCHANGED <<prio, genid, nbrs, isDR, register, stale>>

(* External: another router is configured anew. *)
Configure(r) ==
  /\ up[r]
  /\ \E n \in Prios \cup {NoPrio} :
       n # prio[r] /\ prio' = [prio EXCEPT ![r] = n]
  /\ wire' = [wire EXCEPT ![r] = {}]
  /\ UNCHANGED <<up, genid, nbrs, isDR, register, mixed, stale>>

Next ==
  \/ \E r \in Routers : SendHello(r) \/ Start(r)
  \/ \E r \in Routers, p \in Pimds : Lose(r, p) \/ Receive(r, p) \/ Timeout(p, r)
  \/ \E p \in Pimds : CacheMiss(p) \/ Stop(p)
  \/ \E r \in Foreign : Leave(r) \/ Configure(r)

Spec == Init /\ [][Next]_vars
-----------------------------------------------------------------------------
TypeOK ==
  /\ up \in [Routers -> BOOLEAN]
  /\ prio \in [Routers -> Prios \cup {NoPrio}] /\ genid \in [Routers -> GenIDs]
  /\ nbrs \in [Pimds -> [Routers -> Entries \cup {Unknown}]]
  /\ \A p \in Pimds : nbrs[p][p] = Unknown
  /\ isDR \in [Pimds -> BOOLEAN] /\ register \in [Pimds -> BOOLEAN]
  /\ wire \in [Routers -> SUBSET Pimds] /\ \A p \in Pimds : p \notin wire[p]
  /\ mixed \in BOOLEAN /\ stale \in [Pimds -> BOOLEAN]

(* Whatever a pimd learns of its neighbours, and in whatever order, its    *)
(* role is the one an election now would give it: receive_pim_hello skips  *)
(* the election for most hellos, and the only change it misses by that is  *)
(* a neighbour's going from priority 0 to no option or back.               *)
RoleUpToDate ==
  \A p \in Pimds : up[p] /\ ~stale[p] => (isDR[p] <=> Elected(p, nbrs[p]))

(* The routers know each other. *)
Settled ==
  \A p \in Pimds : up[p] =>
    \A r \in Routers \ {p} :
      nbrs[p][r] = IF up[r] THEN Option(r) ELSE Unknown

(* The election of the comment at pim_proto.c:392. *)
Here == {r \in Routers : up[r]}
Rightful(r) ==
  IF \E s \in Here : prio[s] = NoPrio
    THEN \A s \in Here : s <= r
    ELSE \A s \in Here : prio[s] < prio[r] \/ (prio[s] = prio[r] /\ s <= r)

(* Once the routers know each other, no pimd takes the role from the       *)
(* router that all of them should elect, so that no two forward the same   *)
(* source; only one that is stale may keep what it no longer should have.  *)
NoUsurper ==
  Settled => \A p \in Pimds : up[p] /\ isDR[p] /\ ~stale[p] => Rightful(p)

(* The router that should be elected is: the highest address breaks the    *)
(* tie between those of the best priority (comment at pim_proto.c:392).    *)
TieBroken == Settled => \A p \in Pimds : up[p] /\ Rightful(p) => isDR[p]

(* Where every router sends its priority, none but the DR has the register *)
(* interface among the oifs of a local source, although delete_pim_nbr()   *)
(* does not look whether the election it restarts took the role away.      *)
RegisterOnlyAsDR ==
  ~mixed => \A p \in Pimds : register[p] => isDR[p]
=============================================================================
