CONSTANTS
    Req = {r1, r2}
    NoRow = NoRow
    Row <- Rows
    first = first
    second = second
    Password = {first, second}
    Provider = {google, apple}
    MaxRow = 3
    MaxAttempts = 2
    MaxRequests = 2
    Ttl = 1
    Limit = 3
    Window = 1
    MaxTime = 2
    Scenes <- MCScenes
SPECIFICATION Spec
INVARIANTS TypeOK OneTime OneOpenCode GuessesAreCounted AuthenticatorIsProven ResetEndsSessions WindowBounds CountsTheWindow
PROPERTY AccountStands
SYMMETRY Slots
