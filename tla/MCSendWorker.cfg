CONSTANTS
  Contacts = {c1, c2}
  Runs = {r1, r2}
  Workers = {w1, w2}
  BatchSize = 1
  MaxBatches = 2
  MaxAttempts = 2
  ReportedStatuses <- Reported
  WrittenStatuses <- Written
  Labels <- Relabels
SPECIFICATION Spec
SYMMETRY Symmetry
INVARIANTS
  SlicesAreDisjoint
  SecondCopyNeedsALostCommit
  RowTellsTheTruth
PROPERTIES
  NoCopyAfterRecord
  ImplementsCampaignMail
