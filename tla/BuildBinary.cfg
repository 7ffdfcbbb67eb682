SPECIFICATION Spec
CONSTANTS
  f1 = f1
  A = A
  B = B
  Files = {f1}
  Commits = {A, B}
  Tree <- MCTree
  Contents <- MCContents
  Pin = A
  Guarded = {}
  Calls = {k1}
  Approvals = {a1, a2}
  MaxChanges = 1
  MaxBuilds = 2
  MaxRuns = 2
  MaxCases = 1
  MaxFaults = 1
SYMMETRY Symmetry
PROPERTY CasesOnIntactBuilds
CHECK_DEADLOCK FALSE
