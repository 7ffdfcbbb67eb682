SPECIFICATION Spec
CONSTANTS
  f1 = f1
  A = A
  B = B
  Files = {f1, f2}
  Commits = {A, B}
  Tree <- MCTree
  Contents <- MCContents
  Pin = A
  Guarded = {f1}
  Calls = {k1, k2}
  Approvals = {a1, a2}
  MaxChanges = 1
  MaxBuilds = 1
  MaxRuns = 0
  MaxCases = 0
  MaxFaults = 1
SYMMETRY Symmetry
INVARIANTS PatchWithinFiles ApprovalsHold
CHECK_DEADLOCK FALSE
