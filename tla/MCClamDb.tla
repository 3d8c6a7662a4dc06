------------------------------ MODULE MCClamDb ------------------------------
(***************************************************************************)
(* ClamDb for TLC: three versions of two containers and two generations,   *)
(* so that one container is reused while the other is fetched, and a       *)
(* restart meets a generation that is being replaced.                      *)
(***************************************************************************)
EXTENDS ClamDb
=============================================================================
