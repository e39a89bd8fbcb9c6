-------------------------- MODULE MCQualityMonitor --------------------------
(* Three buffers, four packets of warm-up and up to nine packets: the       *)
(* window is replaced completely while it is being watched.                 *)
EXTENDS QualityMonitor

AllFaults == {"lose", "corrupt", "duplicate", "reorder"}
InOrder == {"lose", "corrupt"}
Measured == {"low", "high", "unset"}
AnyTiming == {"low", "high", "skip", "unset"}
=============================================================================
