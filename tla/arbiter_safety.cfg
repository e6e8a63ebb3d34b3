SPECIFICATION MCSpec
CONSTANTS
    alice1 = alice1
    alice2 = alice2
    kitchen = kitchen
    call1 = call1
    call2 = call2
    phone = phone
    alice = alice
    None = None
    MaxClaims = 4
    Talks = {alice1, alice2}
    Rooms = {kitchen}
    Calls = {call1, call2}
    Client <- MCClient
SYMMETRY CallSymmetry
INVARIANTS
    Inv
    EngineExclusive
    NobodyStranded
    HeldForALiveCall
    RefusedTouchedNothing
PROPERTIES
    NoClobber
    IsOneSlot
