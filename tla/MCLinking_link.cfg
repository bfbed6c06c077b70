CONSTANTS
    Req = {r1, r2}
    NoRow = NoRow
    Row <- Rows
    Connection = {k1, k2}
    a1 = a1
    Authorization = {a1}
    PublicToken = {p1}
    Nickname = {n1}
    x1 = x1
    Security = {x1}
    Worth <- MCWorth
    Portfolios <- MCPortfolios
    Scenes <- MCScenes
    Mine = Mine
SPECIFICATION Spec
INVARIANTS TypeOK CredentialsKept
PROPERTIES ConnectedOnce OwnersEditsStand
SYMMETRY Names
