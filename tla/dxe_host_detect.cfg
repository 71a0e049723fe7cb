SPECIFICATION Spec
CONSTANTS
  Inst = {i1, i2}
  RecordsHandle = FALSE
  RecordsCsd = FALSE
  SpiOnly = FALSE
  Faulty = FALSE
  MaxWaiting = 3
  MediaIds = 3
SYMMETRY Symmetry
INVARIANT CardIsDetected
