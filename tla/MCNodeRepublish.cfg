SPECIFICATION FairKSpec
CONSTANTS
  Calls = {c1, c2}
  Targets = {t1}
  SharedTargets = {}
  StagingPaths = {}
  StagingOf <- NoStaging
  Dynamic = {}
  SkipCheck = {}
  NoPath = NoPath
  MaxCollectors = 1
  MaxStates = 2
  MaxSessions = 3
  MaxPods = 0
  MaxRestarts = 1
  MaxKubeletRestarts = 1
PROPERTY MonitorEventuallyStarted
