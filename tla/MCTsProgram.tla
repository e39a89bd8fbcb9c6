---------------------------- MODULE MCTsProgram ----------------------------
(* Counters modulo 2, sections of three packets, two faults: every kind of  *)
(* gap, and the gap that a counter cannot show.                             *)
EXTENDS TsProgram
MCPes == {"audio"}
=============================================================================
