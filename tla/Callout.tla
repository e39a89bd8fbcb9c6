------------------------------- MODULE Callout -------------------------------
(***************************************************************************)
(* The timers of pimd (callout.c): a queue in which each node holds the    *)
(* time after the node before it.  The operators take a queue, a sequence  *)
(* of nodes with the fields id, time and whatever the timer is for, and    *)
(* return the queue the code leaves.                                       *)
(***************************************************************************)
EXTENDS Integers, Sequences, SequencesExt, FiniteSetsExt

(* The time until each node is due. *)
Due(q) ==
  LET due[i \in 0 .. Len(q)] == IF i = 0 THEN 0 ELSE due[i - 1] + q[i].time
  IN  due

(* A slip: the node after the new one is not made relative to it. *)
MutSetTimer(q, node) ==
  LET due == Due(q)
      later == {i \in DOMAIN q : node.time < due[i]}
      at == IF later = {} THEN Len(q) + 1 ELSE Min(later)
  IN  InsertAt(q, at, [node EXCEPT !.time = @ - due[at - 1]])

(* timer_setTimer, with the delay as the node's time: before the first     *)
(* node that is due later.                                                 *)
SetTimer(q, node) ==
  LET due == Due(q)
      later == {i \in DOMAIN q : node.time < due[i]}
      at == IF later = {} THEN Len(q) + 1 ELSE Min(later)
      offset == node.time - due[at - 1]
      rest == IF later = {} THEN q ELSE [q EXCEPT ![at].time = @ - offset]
  IN  InsertAt(rest, at, [node EXCEPT !.time = offset])

Places(q, id) == {i \in DOMAIN q : q[i].id = id}

(* A slip: the node after it comes forward by the time taken out. *)
MutClearTimer(q, id) ==
  IF Places(q, id) = {} THEN q ELSE RemoveAt(q, Min(Places(q, id)))

(* timer_clearTimer: nothing for an id that is not in the queue. *)
ClearTimer(q, id) ==
  IF Places(q, id) = {} THEN q
  ELSE LET at == Min(Places(q, id)) IN
       RemoveAt([i \in DOMAIN q |->
                   IF i = at + 1 THEN [q[i] EXCEPT !.time = @ + q[at].time]
                                 ELSE q[i]], at)

(* timer_leftTimer *)
LeftTimer(q, id) ==
  LET at == Places(q, id) IN IF at = {} THEN -1 ELSE Due(q)[Min(at)]

(* age_callout_queue, which takes the nodes that are due off the queue     *)
(* before it calls the first of them.                                      *)
DueCount(q, elapsed) ==
  LET due == Due(q) IN Cardinality({i \in DOMAIN q : due[i] <= elapsed})

Expired(q, elapsed) == SubSeq(q, 1, DueCount(q, elapsed))

Remaining(q, elapsed) ==
  LET n == DueCount(q, elapsed)
      rest == SubSeq(q, n + 1, Len(q))
  IN  IF rest = <<>> THEN rest
      ELSE [rest EXCEPT ![1].time = @ - (elapsed - Due(q)[n])]
=============================================================================
