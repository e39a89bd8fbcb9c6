----------------------------- MODULE MCPimHello -----------------------------
(* Two routers that run pimd, and another one with a lower address, so     *)
(* that a neighbour without the option, or with a tied priority, decides   *)
(* between the two.                                                        *)
EXTENDS PimHello

MCPimds == {5, 9}
MCForeign == {3}
MCPrios == {0, 1, 2}
=============================================================================
