\* Sectors of two entries, clusters of two sectors; one read may fail.
SPECIFICATION Spec
CONSTANTS
  ENTRIES = 2
  sectors_per_cluster = 2
  LFN_MAX = 5
  Checksum <- MCChecksum
  Contents <- MCContents
  FileSectors = 3
  Mbrs <- MCMbrs
  MaxFaults = 1
  MaxCount = 5
INVARIANTS ListingIsRight ReadCountIsExact
PROPERTY CallsEnd
CHECK_DEADLOCK FALSE
