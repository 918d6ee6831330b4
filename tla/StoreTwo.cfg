SPECIFICATION FairSpec
CONSTANTS
  ci = ci
  dev = dev
  Clone = {ci, dev}
  Publisher = {ci, dev}
  Sha = {"s1", "s2", "s3"}
  NoBlob = NoBlob
  Keep = 1
  Alternate = TRUE
  MaxWrites = 3
  MaxFaults = 0
PROPERTIES PublishedStays
\* Publications are bounded; after the last one and a fetch all rest.
CHECK_DEADLOCK FALSE
