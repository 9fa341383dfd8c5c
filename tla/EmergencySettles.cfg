SPECIFICATION FairEmergencySpec
CONSTANTS
    Enabled = TRUE
    Samples <- FewSamples
    Total = 128
    SwapTotal = 20
    WarningBp = 1500
    CriticalBp = 800
    RecoveryBp = 2000
    SwapBp = 9000
    Floor = 4
    CriticalPsi = 5
    CriticalSamples = 2
    Pids = {1, 2}
    Uids = {me}
    Me = me
    Images = {worker}
    Protected = {}
    MaxStart = 3
    ActionAvail = 8
    ActionPsi = 5
    Allowed = {worker}
    Exempt = {}
    TermGrace = 3
    Cooldown = 4
    NormalInterval = 3
    WarningInterval = 2
    CriticalInterval = 1
    Delays = {1, 3}
    me = me
    worker = worker
PROPERTIES
    CooldownKept
    PendingSettled
