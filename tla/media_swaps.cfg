SPECIFICATION Spec
CONSTANTS
  FreshAnswers = TRUE
  Faulty = TRUE
  LastBlock = 1
  MaxMedia = 2
  MaxId = 5
INVARIANTS TypeOK GeometryIsOfNamedMedium
PROPERTIES ReadIsOfNamedMedium AbsenceIsReported OnlyEventsBringBack ImplementsRemovableMedia
