\* A save begins before anyone has looked for the one a crash tore.
SPECIFICATION Spec
CONSTANTS
  None = None
  Keys = {a, b}
  First = a
  Savers = {s1, s2}
  MaxCrashes = 1
  Apart = FALSE
INVARIANTS
  SharedIsTrue
