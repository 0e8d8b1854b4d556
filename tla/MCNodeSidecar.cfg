SPECIFICATION Spec
CONSTANTS
  Calls = {c1, c2, c3}
  Targets = {t1, t2}
  SharedTargets = {}
  StagingPaths = {}
  StagingOf <- NoStaging
  Dynamic = {t2}
  SkipCheck = {}
  NoPath = NoPath
  MaxCollectors = 1
  MaxStates = 2
  MaxSessions = 3
  MaxPods = 0
  MaxRestarts = 100
SYMMETRY Symmetry
VIEW View
INVARIANTS
  TypeOK
  TargetMonitorsStoppable
  UnpublishLeavesNothing
  SizeIsCount
  CollectorLimit
  MonitoredVolumesChecked
PROPERTY ImplementsLifecycle
