----------------------------- MODULE GroupSpec -----------------------------
(***************************************************************************)
(* What the IGMP side of pimd promises of the groups on an interface: each *)
(* has one lifetime, which a report renews in full, a leave or another     *)
(* router's query sets to a short one, and only time uses up.  A group     *)
(* goes when its time is up, and never otherwise, unless the interface     *)
(* does.                                                                   *)
(***************************************************************************)
EXTENDS Integers

CONSTANTS Groups, MembershipTimeout, ShortTimes, MaxElapsed

VARIABLE left       \* per group: the time left, Due when it is up, or Gone

Gone == -2
Due == -1

Init == left = [g \in Groups |-> Gone]

NobodyDue == \A g \in Groups : left[g] # Due

(* The other groups keep their times. *)
Same(gs) == \A g \in gs : left'[g] = left[g]
Becomes(g, t) == left'[g] = t /\ Same(Groups \ {g})

Report(g) == Becomes(g, MembershipTimeout) /\ NobodyDue

Shorten(g) ==
  /\ NobodyDue /\ left[g] # Gone
  /\ \E t \in ShortTimes : Becomes(g, t)

Elapse(t) ==
  /\ NobodyDue
  /\ \A g \in Groups :
       left'[g] = CASE left[g] = Gone -> Gone
                    [] left[g] \in 0 .. t -> Due
                    [] OTHER -> left[g] - t

Expire(g) == left[g] = Due /\ Becomes(g, Gone)

Down == \A g \in Groups : left'[g] = Gone

Next ==
  /\ \/ \E g \in Groups : Report(g) \/ Shorten(g) \/ Expire(g)
     \/ \E t \in 1 .. MaxElapsed : Elapse(t)
     \/ Down
  /\ left' \in [Groups -> {Gone, Due} \cup Nat]

Spec == Init /\ [][Next]_left
=============================================================================
