SPECIFICATION Spec
CONSTANTS
    App = app
    Names = {app}
    Slots = {s1, s2}
    Requests <- MCRequests
    Limit = 2
    Window = 2
    Second = 2
    Watched <- MCWatched
INVARIANTS
    WindowBudget
    BudgetsAreSeparate
    BurstBound
    RetryAfterIsClose
