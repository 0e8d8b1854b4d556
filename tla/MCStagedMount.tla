--------------------------- MODULE MCStagedMount ----------------------------
(***************************************************************************)
(* Instance of StagedMount for TLC: a volume that is staged again while a  *)
(* gcsfuse of an earlier attempt is around, and another volume that needs  *)
(* the raised limit at the same time.                                      *)
(***************************************************************************)
EXTENDS StagedMount, TLC

CONSTANTS v1, v2

Limits   == v1 :> 2 @@ v2 :> 3
Attempts == v1 :> 2 @@ v2 :> 0
=============================================================================
