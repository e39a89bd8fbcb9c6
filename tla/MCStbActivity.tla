---------------------------- MODULE MCStbActivity ----------------------------
(* Three groups, so that a change can be taken back or overtaken; a table  *)
(* that is full after four entries.                                        *)
EXTENDS StbActivity

MCGroups == {"g1", "g2", "g3"}
=============================================================================
