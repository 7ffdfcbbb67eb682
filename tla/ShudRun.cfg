\* Three hosts, one after the other, and two failing calls; the solver may run for ever.
CONSTANTS
  MaxEpoch = 3
  MaxFaults = 2
SPECIFICATION FairSpec
INVARIANTS
  RunWithinReach
  ExitEvidenceWins
PROPERTIES
  SettledQuiet
  SignalsJustified
  ImplementsLifecycle
  CloseFinishes
  RunsEnd
\* A run that was withdrawn, or never accepted, has no further step.
CHECK_DEADLOCK FALSE
