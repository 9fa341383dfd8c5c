SPECIFICATION EmergencySpec
CONSTANTS
    Enabled = TRUE
    Samples <- MCSamples
    Total = 128
    SwapTotal = 20
    WarningBp = 1500
    CriticalBp = 800
    RecoveryBp = 2000
    SwapBp = 9000
    Floor = 4
    CriticalPsi = 5
    CriticalSamples = 2
    Pids = {1}
    Uids = {me, root}
    Me = me
    Images = {worker, app, shell, vip}
    Protected = {shell}
    MaxStart = 3
    ActionAvail = 8
    ActionPsi = 5
    Allowed = {worker}
    Exempt = {vip}
    TermGrace = 3
    Cooldown = 4
    NormalInterval = 3
    WarningInterval = 2
    CriticalInterval = 1
    Delays = {1, 2, 4}
    me = me
    root = root
    worker = worker
    app = app
    shell = shell
    vip = vip
PROPERTIES
    KillOnlyWhenCritical
