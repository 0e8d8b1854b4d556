SPECIFICATION FairSpec
CONSTANTS
  v1 = v1
  v2 = v2
  Volumes = {v1, v2}
  NoVolume = none
  Target <- Limits
  HostLimit = 1
  MaxAttempts <- Attempts
  MaxFaults = 1
INVARIANTS TypeOK LimitRestored StagedIsServed
PROPERTIES HandlerReturns FailedGcsfuseEnds
