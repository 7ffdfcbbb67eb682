SPECIFICATION PartSpec
CONSTANTS
  Parts = 2
  SecondMs = 6
  CentisecondMs = 2
  Hz = 2
  MaxBoot = 11
  MaxBirth = 11
  MaxDelay = 4
  Builders = {b1, b2}
  Runs = {r1}
  Ids = {i1, i2}
  MaxMeddling = 2
  MaxBytes = 5
  Captures = {c1, c2}
  MaxLock = 3
  Environments = {e1, e2}
  MaxFaults = 2
  MaxRecords = 3
  InputFiles = {f}
  MaxText = 8
  MaxStations = 2
  MaxMeddles = 1
  Callers = {h1, h2}
  Names = {i1, i2}
  RecordKinds = {"report", "change"}
  MaxHappens = 3
  MaxSwaps = 1
  MaxAttempts = 2
  MaxChanges = 3
INVARIANTS AdoptionSound ReadsJoin RecordsStand RunFilesTrue TextsRead
PROPERTIES BuildsIntact UpdatesKept
CHECK_DEADLOCK FALSE
