\* A setup begun while the unit of another start still runs.
SPECIFICATION Spec
CONSTANTS
  MaxRuns = 1
  MaxFails = 0
  Orphans = TRUE
INVARIANT NewsIsOurs
