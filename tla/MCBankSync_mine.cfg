CONSTANTS
    Conn = {c1, c2}
    Req = {r1, r2}
    Kinds <- MCSessions
    MaxVersion = 1
    Feed <- MCFeedTiny
    Balance <- MCBalance
    Txn <- MCTxn1
    Security <- MCNone
    NoRow = NoRow
    NoConn = NoConn
    MayWipe <- MCNone
    MayCrash = TRUE
SPECIFICATION Spec
INVARIANTS LedgerIsUnionOfImports ShownIsImported
PROPERTIES CleanCommitMirrorsBank
SYMMETRY Slots
