SPECIFICATION Spec
CONSTANTS
  Inst = {i1, i2}
  RecordsHandle = TRUE
  RecordsCsd = TRUE
  SpiOnly = TRUE
  Faulty = TRUE
  MaxWaiting = 3
  MediaIds = 3
SYMMETRY Symmetry
INVARIANTS TypeOK NoLeak PublishedIsReady ClaimsServeAChild PresentIsInitialized
PROPERTIES FailedStartRestores StopIsComplete CallsAreBounded ImplementsDriverBinding
