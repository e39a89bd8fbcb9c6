--------------------------- MODULE MCStreamSession ---------------------------
(* Three sessions let a leaked reader meet the reader after the next; one  *)
(* read of prefetch() is enough to lose a shutdown before it.              *)
EXTENDS StreamSession

(* -z absent, or a value that means once together with -i. *)
Usual == {[once |-> o, url |-> TRUE] : o \in {"none", "FALSE"}}
=============================================================================
