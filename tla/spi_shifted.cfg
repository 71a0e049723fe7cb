SPECIFICATION Spec
CONSTANTS
  Kinds = {"V1", "SC", "HC"}
  Delays = {5, 7}
  Gaps = {1}
  Buses = {"clean"}
  ChecksCrc = FALSE
  Window = 8
  BlockBytes = 2
  Addresses = 8
  Capacity = 3
  MaxCount = 2
  MaxMedia = 1
  Retries = 2
PROPERTIES ReadIsAsAsked
