-------------------------- MODULE MCNodeRepublish ----------------------------
(***************************************************************************)
(* NodeKubelet with sidecar-mode targets only, for liveness.               *)
(***************************************************************************)
EXTENDS NodeKubelet, TLC

NoStaging == <<>>
=============================================================================
