\* Three notes where two are kept.
SPECIFICATION Spec
CONSTANTS
  MaxSent = 3
  MaxNotes = 2
  MaxTurns = 2
PROPERTIES
  WordsAreAnswered
