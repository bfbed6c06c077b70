CONSTANTS
    Token = {t1, t2, t3}
    Req = {r1, r2}
    NoToken = NoToken
SPECIFICATION Spec
INVARIANTS TypeOK KnownTokensDie ReuseFails StoredTokenLives
SYMMETRY Names
CHECK_DEADLOCK FALSE
