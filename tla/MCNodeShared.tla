---------------------------- MODULE MCNodeShared -----------------------------
(***************************************************************************)
(* NodeKubelet with one shared-mount volume.                               *)
(***************************************************************************)
EXTENDS NodeKubelet, TLC

CONSTANTS s1

NoLimit == -1

OneStaging == [t \in SharedTargets |-> s1]

Symmetry == Permutations(Calls) \cup Permutations(SharedTargets)

\* States that differ in the number of restarts only are one: the driver may
\* restart any number of times.  MaxRestarts exceeds the depth of the graph.
View == <<call, memory, disk, pods, kubelet>>
=============================================================================
