----------------------------- MODULE MCNetwork ------------------------------
(***************************************************************************)
(* Network on a node with three NICs, the last one of which lists a route  *)
(* without a gateway first.                                                *)
(***************************************************************************)
EXTENDS Network, TLC

Link(name, usable, gve, numa) == [name |-> name, usable |-> usable, gve |-> gve, numa |-> numa]
Hop(src, gw) == [src |-> src, gw |-> gw]

ThreeNICs ==
  << Link("lo", FALSE, FALSE, -1), Link("eth0", TRUE, TRUE, 0), Link("eth1", TRUE, FALSE, 1),
     Link("eth2", TRUE, TRUE, 1) >>

TheirRoutes ==
  [d \in {"lo", "eth0", "eth1", "eth2"} |->
     CASE d = "lo"   -> << >>
       [] d = "eth0" -> << Hop("ip0", "gw0") >>
       [] d = "eth1" -> << Hop("ip1", NilIP), Hop("ip1", "gw1") >>
       [] d = "eth2" -> << Hop("ip2", "gw2") >>]

Symmetry == Permutations(Calls)
=============================================================================
