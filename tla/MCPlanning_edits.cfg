CONSTANTS
    Req = {r1, r2}
    NoRow = NoRow
    Row <- Rows
    rent = rent
    dining = dining
    fun = fun
    Goal = {g1}
    Category = {rent, dining, fun}
    Protected = {rent}
    Icon = {cup, star}
    Color = {red, blue}
    Amount = {0, 4}
    Patches <- MCPatches
    MaxPlan = 2
    MaxMonth = 2
    FirstMonth = 2
    Ledgers <- MCLedgers
    Scenes <- MCScenes
SPECIFICATION Spec
INVARIANTS TypeOK AsIfOneByOne NothingDangles PlansAddUp
PROPERTY FullIsCompleted
SYMMETRY Slots
