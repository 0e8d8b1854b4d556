SPECIFICATION FairSpec
CONSTANTS
  Volumes = {v1, v2}
  NoVolume = NoVolume
  Native = FALSE
  RestartPolicy = "OnFailure"
  MaxMounts = 2
  MaxFds = 2
  MaxForeign = 0
  MaxFaults = 1
  MaxNodeRestarts = 0
  MaxDeletions = 0
PROPERTIES
  ServedOrReported
  SidecarTerminates
CHECK_DEADLOCK FALSE
