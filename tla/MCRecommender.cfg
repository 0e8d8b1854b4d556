SPECIFICATION Spec
CONSTANTS
  Requests <- AllRequests
  Ascii <- AllOptions
  mib = 4
  minMetadataStatCacheMBSize = 2
  metadataStatCacheBytesPerObjectFlat = 3
  metadataStatCacheBytesPerObjectHNS = 2
  Width = 10
INVARIANTS CachesFitBudgets UserOptionsWin
CHECK_DEADLOCK FALSE
