----------------------------- MODULE MCMrCache -----------------------------
(* Three routes, one interface and the unresolved one.  No two routes     *)
(* have the same addresses one after the other.                            *)
EXTENDS MrCache

MCEntries == 1 .. 3
MCKey == [e \in MCEntries |-> 4 - e]
MCIifs == {-1, 1}
=============================================================================
