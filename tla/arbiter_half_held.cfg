SPECIFICATION Spec
CONSTANTS
    alice1 = alice1
    alice2 = alice2
    kitchen = kitchen
    call1 = call1
    call2 = call2
    phone = phone
    alice = alice
    None = None
    MaxClaims = 5
    Talks = {alice1}
    Rooms = {}
    Calls = {call1}
    Client <- MCClient
INVARIANTS
    NotHalfHeld
