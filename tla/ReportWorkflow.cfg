\* Two overlapping calls on two reports of a task with one run, or on one report of a
\* task with two; no symmetry, for CallsEnd is checked under fairness.
SPECIFICATION FairSpec
CONSTANTS
  Reports = {r1, r2}
  Jobs = {j1, j2}
  Calls = {c1, c2}
  MaxMade = 3
  MaxFaults = 1
PROPERTIES ReportsStand ImplementsOutcome CallsEnd
CHECK_DEADLOCK FALSE
