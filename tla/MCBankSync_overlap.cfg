CONSTANTS
    Conn = {c1}
    Req = {r1, r2}
    Kinds <- MCOverlap
    MaxVersion = 3
    Feed <- MCFeed
    Balance <- MCBalance
    Txn <- MCTxn
    Security <- MCSecurity
    NoRow = NoRow
    NoConn = NoConn
    MayWipe = {c1}
    MayCrash = TRUE
SPECIFICATION FairSpec
INVARIANTS TypeOK LedgerIsUnionOfImports ShownIsImported
PROPERTIES CleanCommitMirrorsBank ImplementsImportLog SyncEnds
