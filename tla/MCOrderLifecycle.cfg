SPECIFICATION Spec
CONSTANTS
  SeqId = {s1, s2}
  Char = {c1}
  kMaxLength = 1
  MaxFinite = 10
  Reasons <- MCReasons
  MaxErrors = 2
  MaxActions = 2
SYMMETRY MCSymmetry
INVARIANTS
  TypeOK
  JournalReconstructsRecords
  HistoriesAreLegal
  JournalNumbersReports
  CountersBalance
  ReasonIffRejected
  PrintedReportsTellTheState
PROPERTY OnlyLegalEffects
CHECK_DEADLOCK FALSE
