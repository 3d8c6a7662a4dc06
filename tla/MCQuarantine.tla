---------------------------- MODULE MCQuarantine ----------------------------
(***************************************************************************)
(* Quarantine for TLC: one isolation, two clients and the service loop, so *)
(* that two requests about one id meet, and a file that reappears.         *)
(***************************************************************************)
EXTENDS Quarantine

CONSTANTS i1, c1, c2
=============================================================================
