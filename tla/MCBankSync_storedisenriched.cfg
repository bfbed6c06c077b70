CONSTANTS
    Conn = {c1, c2}
    Req = {r1, r2}
    Kinds <- MCConnect
    MaxVersion = 1
    Feed <- MCFeed1
    Balance <- MCBalance
    Txn <- MCTxn
    Security <- MCSecurity
    NoRow = NoRow
    NoConn = NoConn
    MayWipe = {c1, c2}
    MayCrash = FALSE
SPECIFICATION Spec
INVARIANT StoredIsEnriched
CHECK_DEADLOCK FALSE
