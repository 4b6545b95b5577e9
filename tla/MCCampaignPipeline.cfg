CONSTANTS
  Contacts = {c1, c2}
  Runs = {r1, r2}
  Workers = {w1, w2}
  BatchSize = 2
  MaxBatches = 1
  MaxAttempts = 2
  ReportedStatuses <- Reported
  WrittenStatuses <- AllStatuses
  Labels <- AllLabels
  QueueRuns = {q1, q2}
  MaxActions = 4
  MaxFaults = 1
  Faults <- AllFaults
SPECIFICATION PipelineSpec
CHECK_DEADLOCK FALSE
SYMMETRY Symmetry
INVARIANTS
  MaterialisedOnce
  SentCoversEverybody
  BarredIsNeverMailed
  CarriedOn
PROPERTIES
  ImplementsSendWorker
  OnlyTheReportRevives
