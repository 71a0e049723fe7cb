SPECIFICATION FairSpec
CONSTANTS
  Inst = {i1, i2}
  RecordsHandle = FALSE
  RecordsCsd = FALSE
  SpiOnly = TRUE
  Faulty = TRUE
  MaxWaiting = 3
  MediaIds = 3
INVARIANTS NoRecursionWithoutHandle NothingPublishedWithoutCsd
PROPERTIES ModeIsFixed CallsReturn
