SPECIFICATION FairSpec
CONSTANTS
  ci = ci
  dev = dev
  Clone = {ci, dev}
  Publisher = {ci}
  Sha = {"s1", "s2", "s3"}
  NoBlob = NoBlob
  Keep = 1
  Alternate = FALSE
  MaxWrites = 4
  MaxFaults = 2
INVARIANTS BranchSound
PROPERTIES PublishedStays ReadersCatchUp
\* Publications are bounded; after the last one and a fetch all rest.
CHECK_DEADLOCK FALSE
