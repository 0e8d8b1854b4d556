---------------------------- MODULE MCNodeSidecar ----------------------------
(***************************************************************************)
(* NodeServer with sidecar-mode volumes only.                              *)
(***************************************************************************)
EXTENDS NodeServer, TLC

NoStaging == [t \in SharedTargets |-> NoPath]

Symmetry == Permutations(Calls)

\* States that differ in the number of restarts only are one: the driver may
\* restart any number of times.  MaxRestarts exceeds the depth of the graph.
View == <<call, memory, disk, pods, kubelet>>
=============================================================================
