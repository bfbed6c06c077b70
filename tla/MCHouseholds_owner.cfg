CONSTANTS
    User = {u1, u2, u3}
    House = {h1, h2, h3}
    Req = {r1, r2}
    NoUser = NoUser
    NoHouse = NoHouse
    MaxCode = 1
SPECIFICATION Spec
PROPERTY TransferKeepsOwner
SYMMETRY Names
CHECK_DEADLOCK FALSE
