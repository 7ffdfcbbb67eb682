SPECIFICATION PartSpec
CONSTANTS
  Steps <- MCSteps
  Requests <- MCRequests
  MaxAttempts = 3
  MaxLedger = 4
  MaxFaults = 3
  MaxRestarts = 2
  MaxPublicationFaults = 2
  MaxMounts = 3
  MaxChanges = 3
INVARIANTS RecordTrue
PROPERTIES RecordFinal NotificationTrue OutcomeEnds
CHECK_DEADLOCK FALSE
