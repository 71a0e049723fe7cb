SPECIFICATION FairSpec
CONSTANTS
  Kinds = {"V1", "SC", "HC"}
  Delays = {0, 6, 7, 8}
  Gaps = {1, 8}
  Buses = {"clean", "lossy", "failing"}
  ChecksCrc = FALSE
  Window = 8
  BlockBytes = 2
  Addresses = 8
  Capacity = 3
  MaxCount = 3
  MaxMedia = 1
  Retries = 2
INVARIANTS TypeOK WritesStoreAPrefix
PROPERTIES ImplementsTransport ReadIsExact SingleBlockIsExact WriteReleasesCard InitializedIsReady CallsAreBounded CallsReturn
