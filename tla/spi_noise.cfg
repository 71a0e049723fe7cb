SPECIFICATION Spec
CONSTANTS
  Kinds = {"V1", "SC", "HC"}
  Delays = {6, 7, 8}
  Gaps = {1, 8}
  Buses = {"noisy"}
  ChecksCrc = FALSE
  Window = 8
  BlockBytes = 2
  Addresses = 8
  Capacity = 3
  MaxCount = 3
  MaxMedia = 1
  Retries = 1
INVARIANTS AddressedByItsUnit
PROPERTIES ReadIsIntact
