SPECIFICATION Spec
CONSTANTS
  Calls = {c1, c2}
  Links <- ThreeNICs
  RoutesOf <- TheirRoutes
  Nodes = {0, 1}
  TableIds = {50, 51, 52, 53}
  OtherNames = {50}
  OtherRules = {52}
  NoDevice = NoDevice
  NoCall = NoCall
  NilIP = NilIP
  MaxRestarts = 1
SYMMETRY Symmetry
INVARIANTS
  TypeOK
  TableOfOneDevice
  SourceRouted
