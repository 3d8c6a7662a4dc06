---------------------------- MODULE MCIpcServer ----------------------------
(***************************************************************************)
(* IpcServer for TLC: one management instance, one recorder beside the     *)
(* service loop, a history of two entries read two at a time, and three    *)
(* calls, alerts, edits and faults between them.                           *)
(***************************************************************************)
EXTENDS IpcServer
=============================================================================
