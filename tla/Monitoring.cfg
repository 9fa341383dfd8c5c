CONSTANTS
    Me = Me
    Nobody = Nobody
    Other = Other
    Pytest = Pytest
    Bash = Bash
    App = App
    Proj = Proj
    Unit = Unit
    Term = Term
    Pids = {1, 2, 3}
    Shells = {Bash}
    MaxTracked = 2
    TicksPerSecond = 2
    Scenarios <- MCScenarios
    Scope <- MCScope
    Sizes = {1, 2}
    Hour = 3
    MaxStart = 6
    Memory = 3
SPECIFICATION Spec
INVARIANTS
    MonitoringTypeOK
    EventsSustained
    StaleSustained
    NoticesSpaced
    IgnoredStaysQuiet
    WindowObserved
    OrdersLeafFirst
    GroupsHoldTrees
    StopsReported
    IgnoredAppsGone
    BookkeepingBounded
    BreachReported
