SPECIFICATION Spec
CONSTANTS
  Inst = {i1, i2}
  RecordsHandle = TRUE
  RecordsCsd = TRUE
  SpiOnly = FALSE
  Faulty = TRUE
  MaxWaiting = 3
  MediaIds = 3
SYMMETRY Symmetry
INVARIANT ChildrenAreBacked
