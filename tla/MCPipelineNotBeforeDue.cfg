CONSTANTS
  Contacts = {c1}
  Runs = {r1, r2}
  Workers = {w1}
  BatchSize = 2
  MaxBatches = 1
  MaxAttempts = 2
  ReportedStatuses <- Reported
  WrittenStatuses <- AllStatuses
  Labels <- AllLabels
  QueueRuns = {q1, q2}
  MaxActions = 4
  MaxFaults = 2
  Faults = {}
SPECIFICATION PipelineSpec
CHECK_DEADLOCK FALSE
PROPERTY NotBeforeDue
