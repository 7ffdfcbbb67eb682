SPECIFICATION Spec
CONSTANTS
  Reports = {r1}
  Jobs = {j1}
  Calls = {c1, c2}
  MaxMade = 2
  MaxFaults = 0
SYMMETRY Symmetry
INVARIANTS FailedSubmissionAddsNoLink
CHECK_DEADLOCK FALSE
