SPECIFICATION Spec
CONSTANTS
  Volumes = {v1}
  NoVolume = NoVolume
  Native = TRUE
  RestartPolicy = "Always"
  MaxMounts = 3
  MaxFds = 2
  MaxForeign = 1
  MaxFaults = 2
  MaxNodeRestarts = 1
  MaxDeletions = 1
INVARIANTS
  TypeOK
  OwnDevice
  DescriptorsOwned
  ReadyMeansMounted
  ErrorStaysVisible
CHECK_DEADLOCK FALSE
