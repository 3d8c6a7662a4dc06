------------------------- MODULE MCServiceLifecycle -------------------------
(***************************************************************************)
(* ServiceLifecycle for TLC: a channel of one event is full as soon as a   *)
(* decision waits in it; two connections and one fault let a driver be     *)
(* lost and come back; a database still to be downloaded and two checks    *)
(* make readiness wait for all of them.                                    *)
(***************************************************************************)
EXTENDS ServiceLifecycle
=============================================================================
