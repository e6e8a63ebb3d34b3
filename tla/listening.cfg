\* The parts that listen: two utterances.
SPECIFICATION MCSpec
CONSTANTS
  MaxReplies = 1
  MaxSpeech = 2
  Reports = TRUE
  SttHolds = TRUE
  MaxFaults = 1
  MaxWords = 1
  MaxDrafts = 2
  MaxStops = 1
  MaxWrites = 1
  Control = {c1}
  Plain = {plain}
  NoWords = NoWords
  MaxConsults = 1
  LastFrame = 2
  MaxRuns = 2
  MaxFails = 0
  Orphans = FALSE
  MaxDials = 3
  MaxMicFaults = 1
  MaxOthers = 1
INVARIANTS
  TypeOK
  SilenceIsOwned
  BargeInReachable
  RunControlIsTrue
  SetupIsFollowed
  FreshIsFresh
PROPERTIES
  LateWordsAreHeard
  AheadIsAsAsked
  UnaskedIsFirst
  TakenIsTheirs
