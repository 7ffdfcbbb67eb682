SPECIFICATION FairSpec
CONSTANTS
  Generation = {1}
  Events = {e1}
  Reports = {r1}
  MaxFaults = 1
INVARIANTS VerdictTrue
PROPERTIES AnswersOrderly GateEnds
CHECK_DEADLOCK FALSE
