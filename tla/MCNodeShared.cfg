SPECIFICATION KSpec
CONSTANTS
  Calls = {c1, c2}
  Targets = {}
  SharedTargets = {t1, t2}
  s1 = s1
  StagingPaths = {s1}
  StagingOf <- OneStaging
  Dynamic = {}
  SkipCheck = {}
  NoPath = NoPath
  MaxCollectors <- NoLimit
  MaxStates = 2
  MaxSessions = 2
  MaxPods = 1
  MaxRestarts = 100
  MaxKubeletRestarts = 0
SYMMETRY Symmetry
VIEW View
INVARIANTS
  StagingMonitorsStoppable
  UnstageLeavesNothing
PROPERTIES
  CheckedMountStays
