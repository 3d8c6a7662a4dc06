------------------------- MODULE MCDefinitionUpdates -------------------------
(***************************************************************************)
(* Three sequences; the second exists twice, once re-signed with another   *)
(* expiry over the same payload.                                           *)
(***************************************************************************)
EXTENDS DefinitionUpdates

CONSTANTS b1, b2, b2r, b3
MCSequence == [b \in Bundles |-> IF b = b1 THEN 1 ELSE IF b = b3 THEN 3 ELSE 2]
MCDigest == [b \in Bundles |-> IF b = b1 THEN "one" ELSE IF b = b3 THEN "three" ELSE "two"]
MCExpiresAt == [b \in Bundles |-> IF b = b2 THEN 1 ELSE MaxTime + 1]
=============================================================================
