SPECIFICATION Spec
CONSTANTS
  Kinds = {"V1", "SC", "HC"}
  Delays = {7}
  Gaps = {8}
  Buses = {"clean"}
  ChecksCrc = TRUE
  Window = 8
  BlockBytes = 2
  Addresses = 8
  Capacity = 3
  MaxCount = 2
  MaxMedia = 1
  Retries = 2
PROPERTIES VersionIsRecognized
