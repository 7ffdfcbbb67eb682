SPECIFICATION PartSpec
CONSTANTS
  Generation = {1, 2}
  MaxPolls = 2
  MaxFaults = 1
  MaxChildren = 6
  MaxBetween = 1
  MaxCalls = 2
  Hasty = {"verify"}
  MaxMishaps = 1
  MaxEvents = 3
  PageSize = 2
  MaxReadings = 2
  MaxNoise = 1
INVARIANTS VerdictsTrue ReadingsTrue
PROPERTIES SignalsOwnRun GatesEnd
CHECK_DEADLOCK FALSE
