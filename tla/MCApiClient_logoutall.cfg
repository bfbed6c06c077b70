CONSTANTS
    Token = {t1, t2, t3}
    Req = {r1, r2}
    NoToken = NoToken
SPECIFICATION Spec
INVARIANTS LogoutAllEndsSessions
SYMMETRY Names
CHECK_DEADLOCK FALSE
