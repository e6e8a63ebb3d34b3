\* The parts that answer: a reply or two.
SPECIFICATION MCSpec
CONSTANTS
  Consults = {k1}
  Tools = {t1}
  MAX_RENDERED = 1
  MaxRequests = 2
  MaxTurns = 1
  Calls = {c1, c2}
  Lasting = {c2}
  MaxSpeech = 2
  MaxRuns = 2
  MaxSent = 2
  MaxNotes = 1
  MaxNoteTurns = 2
  MaxSaid = 2
  MaxCuts = 1
  MaxPauses = 1
  MaxRare = 1
  SpokenAs <- MCSpokenAs
  MaxSpoken = 2
  MaxStops = 1
  MaxStray = 1
  MaxFaults = 1
  Peeks = TRUE
  MaxFinals = 3
  AskedAs <- MCAskedAs
  FinallyAs <- MCFinallyAs
  None = None
  MaxBehind = 2
  MaxTails = 1
INVARIANTS
  TypeOK
  NobodyForgotten
  ResultIsRead
  NothingHangs
  TextIsWhole
PROPERTIES
  CutsAreReadFirst
  NoNoteIsAnswered
  HeardIsWhatPlayed
  RepliesFitTurns
  FinalsFitTurns
