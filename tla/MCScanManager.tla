---------------------------- MODULE MCScanManager ----------------------------
(***************************************************************************)
(* ScanManager for TLC: two files to scan, one to skip and one that cannot *)
(* be read, two workers, a queue of two and a list of one finding, so that *)
(* the walk, the pool and a cancellation overlap in every way.             *)
(***************************************************************************)
EXTENDS ScanManager

CONSTANTS f1, f2, f4, f5, w1, w2, alice

MCVerdict == [f \in Files |-> IF f = f1 THEN "Malicious" ELSE IF f = f2 THEN "Error" ELSE "Clean"]
=============================================================================
