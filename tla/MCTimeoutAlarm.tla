--------------------------- MODULE MCTimeoutAlarm ---------------------------
(* TimeoutAlarm on a coarse clock: the ratios of the constants are those   *)
(* of the code in order, not in size.                                      *)
EXTENDS TimeoutAlarm
=============================================================================
