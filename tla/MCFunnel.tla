------------------------------ MODULE MCFunnel ------------------------------
(* Model of Funnel for TLC: positions on a line, long enough for rectangles  *)
(* that match, that nearly match and that are far apart.                     *)
EXTENDS Funnel

Positions == 0..5
=============================================================================
