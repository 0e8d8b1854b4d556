SPECIFICATION FairSpec
CONSTANTS
  PVs = {p1}
  Pods = {q1}
  Claims <- ScannedOrAll
  Override = {}
  Specs <- ValidSpecs
  LateSC = TRUE
  NoKey = none
  MaxPVChanges = 2
  MaxLag = 2
  MaxRestarts = 0
PROPERTY GateEventuallyRemoved
