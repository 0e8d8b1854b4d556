------------------------------ MODULE MCSidecar ------------------------------
(***************************************************************************)
(* SidecarMount with a small Pod.                                          *)
(***************************************************************************)
EXTENDS SidecarMount, TLC

Symmetry == Permutations(Volumes)
=============================================================================
