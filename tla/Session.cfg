CONSTANTS
    Unit1 = Unit1
    Hand = Hand
    Guard = Guard
    Worker = Worker
    Bin = Bin
    Odd = Odd
    Rel = Rel
    Mib = 16
    LastWord = 65535
    LastInt = 32767
    NaN = NaN
    Names = {Guard, Worker}
    Paths = {Bin, Odd, Rel}
    Absolute = {Bin, Odd}
    Utf8 = {Bin, Rel}
    Itself = Guard
    Daemons = {Unit1, Hand}
    NoEntry = NoEntry
    NoQuery = NoQuery
    Service = Unit1
    Texts <- MCTexts
    Targets <- MCTargets
    Budgets <- MCBudgets
SPECIFICATION Spec
CHECK_DEADLOCK FALSE
INVARIANTS
    SessionTypeOK
    ConfigIntact
    SaveSettles
    PoliciesFollow
    SoleDaemon
PROPERTIES
    IgnoresAtomically
    ServesAgain
    QueriesEnd
