SPECIFICATION FairSpec
CONSTANTS
  PVs = {p1, p2}
  Pods = {q1}
  Claims <- ScannedOrAll
  Override = {p2}
  Specs <- AllSpecs
  LateSC = TRUE
  NoKey = none
  MaxPVChanges = 3
  MaxLag = 1
  MaxRestarts = 1
INVARIANT TypeOK
PROPERTIES ScannedBeforeUngated RescannedWhenOld GateRemoved
