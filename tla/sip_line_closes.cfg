\* The connection goes while a call ends itself.
SPECIFICATION Spec
CONSTANTS
  Calls = {call1}
  None = None
  Punctual = TRUE
  BuildMayFail = FALSE
INVARIANTS
  SlotIsClaimedToTheEnd
