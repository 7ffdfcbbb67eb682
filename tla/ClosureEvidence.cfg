SPECIFICATION Spec
CONSTANTS
  f1 = f1
  A = A
  B = B
  Files = {f1}
  Commits = {A, B}
  Tree <- MCTree
  Contents <- MCContents
  Pin = A
  Guarded = {}
  Calls = {k1}
  Approvals = {a1, a2}
  MaxChanges = 1
  MaxBuilds = 2
  MaxRuns = 2
  MaxCases = 1
  MaxFaults = 2
SYMMETRY Symmetry
PROPERTIES ReportedOnEvidence ImplementsLife
CHECK_DEADLOCK FALSE
