---------------------------- MODULE MCMounterPod ----------------------------
(***************************************************************************)
(* An instance of MounterPodController for TLC.                            *)
(***************************************************************************)
EXTENDS MounterPodController
=============================================================================
