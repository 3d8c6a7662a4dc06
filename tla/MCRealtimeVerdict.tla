------------------------ MODULE MCRealtimeVerdict ------------------------
(***************************************************************************)
(* RealtimeVerdict for TLC: definitions of version 2 convict what version  *)
(* 1 lets pass, and each write changes what is convicted.                  *)
(***************************************************************************)
EXTENDS RealtimeVerdict, TLC

MCEngineDetects == {<<e, 0>> : e \in 2..MaxEngine}
MCIndexDetects == {<<i, c>> : i \in 1..MaxIndex, c \in (0..MaxWrites) \ {0}}

Symmetry == Permutations(Requests) \cup Permutations(Workers)
=============================================================================
