\* The phone line, a session on hold, and the settings.
SPECIFICATION MCSpec
CONSTANTS
  MaxQuestions = 2
  Calls = {call1, call2, call3}
  None = None
  Punctual = FALSE
  BuildMayFail = TRUE
  MaxCodes = 2
  MaxWrong = 2
  MaxStarts = 3
  MaxStops = 2
  Keys = {a, b}
  FirstKey = a
  Savers = {s1, s2}
  MaxCrashes = 1
  Apart = TRUE
  Phones = {p1, p2}
  MaxSignIns = 2
  MaxPastes = 1
  MAX_WRONG = 2
  OFFER = 1
  HELD = 1
  PENDING = 2
  SESSION = 3
  MaxPosts = 2
  MaxJoins = 1
  Last = 3
  Models = {3}
  Content <- MCContent
  BadEngines = {3}
  MaxRuns = 4
  MaxEngineStops = 1
  Max = 5
  FirstBrain = 0
  PhoneIn = {2, 3, 4, 5}
  BadBrains = {2}
  MaxBrainStops = 1
  WithOld = TRUE
  call1 = call1
  call2 = call2
  call3 = call3
INVARIANTS
  TypeOK
  NothingLeftOn
  ClaimsFollowCalls
  SharedKeyIsTrue
  BackAsItWas
  InstallIsWhole
PROPERTIES
  NoWrongTeardown
  PairingToItsEnd
  ScreenIsTheUsers
  SignInIsOwn
  IsSetupUnit
  InstallerAsTold
