CONSTANTS
    User = {u1, u2}
    House = {h1, h2}
    Req = {r1, r2}
    NoUser = NoUser
    NoHouse = NoHouse
    MaxCode = 2
SPECIFICATION FairSpec
PROPERTY RequestEnds
CHECK_DEADLOCK FALSE
