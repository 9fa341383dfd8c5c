SPECIFICATION PressureSpec
CONSTANTS
    Enabled = TRUE
    Samples <- SmallSamples
    Total = 16
    SwapTotal = 0
    WarningBp = 1500
    CriticalBp = 800
    RecoveryBp = 2000
    SwapBp = 9000
    Floor = 4
    CriticalPsi = 5
    CriticalSamples = 2
INVARIANT StableRecovery
