CONSTANTS
    Req = {r1, r2}
    NoRow = NoRow
    Row <- Rows
    House = {h1}
    Txn = {t1, t2, t3, t4, t5}
    t1 = t1
    t2 = t2
    t3 = t3
    t4 = t4
    t5 = t5
    h1 = h1
    coffee = coffee
    cafe = cafe
    food = food
    Descriptor = {coffee, cafe}
    Category = {food, fun}
    fun = fun
    Merchant = {m1}
    Home <- MCHome
    Descr <- MCDescr
    GlobalRule <- MCGlobal
    Similar <- MCNear
    Proposed = {fun}
    Bare = {t1, t2}
    Feeds <- MCFeeds
    MaxWork = 5
    Kinds = {"sync", "mine", "correct", "list"}
SPECIFICATION Spec
INVARIANTS TypeOK RulesWin DuplicatesAreBounded
PROPERTY CorrectionsStand
SYMMETRY Names
