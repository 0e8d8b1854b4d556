----------------------------- MODULE MCScanner ------------------------------
(***************************************************************************)
(* Instances of Scanner for TLC: a Pod uses the PVs that are scanned, or   *)
(* all; those in override mode may be of a class without a profile.        *)
(***************************************************************************)
EXTENDS Scanner, TLC

Scanned == PVs \ Override

ScannedOrAll == {[q \in Pods |-> S] : S \in {Scanned, PVs}}

AllSpecs ==
  [p \in PVs |-> IF p \in Override THEN {"valid", "plain"} ELSE {"valid", "scan", "period"}]

ValidSpecs == [p \in PVs |-> {"valid"}]
=============================================================================
