\* Two updates, the second with a new model; a rollback that stops half-way; any run.
SPECIFICATION Spec
CONSTANTS
  Last = 3
  Models = {3}
  Content <- MCContent
  Bad = {}
  MaxRuns = 4
  MaxStops = 1
INVARIANT SameInBoth
