--------------------------- MODULE MemoryPressure ---------------------------
(***************************************************************************)
(* src/domain/memory_pressure.rs: the tracker that turns samples of        *)
(* available memory, swap use and PSI into a pressure level.  Memory is    *)
(* counted in units of the instance's choice, percentages in basis points, *)
(* as `percent` computes them.                                             *)
(***************************************************************************)
EXTENDS Integers

CONSTANTS
    Enabled,          \* memory_pressure.enabled
    Samples,          \* samples the kernel may report: [avail, swap, psi]
    Total, SwapTotal, \* memory and swap sizes
    WarningBp, CriticalBp, RecoveryBp, SwapBp, \* thresholds in basis points
    Floor,            \* emergency_available_bytes
    CriticalPsi,      \* critical_psi_full_avg10
    CriticalSamples   \* consecutive critical samples that enter Critical

Sample == [avail : Nat, swap : Nat, psi : Nat]

(* What Settings::validate asks of the thresholds; nothing relates Floor   *)
(* to RecoveryBp.                                                          *)
ASSUME PressureAssumption ==
    /\ Enabled \in BOOLEAN
    /\ Samples \subseteq Sample /\ Samples # {}
    /\ Total \in Nat /\ SwapTotal \in Nat
    /\ CriticalBp \in Nat /\ WarningBp \in Nat /\ RecoveryBp \in Nat /\ SwapBp \in Nat
    /\ CriticalBp < WarningBp /\ WarningBp < RecoveryBp
    /\ Floor \in Nat \ {0}
    /\ CriticalPsi \in Nat
    /\ CriticalSamples \in Nat \ {0}

VARIABLES
    level,            \* MemoryPressureTracker.level
    criticalSamples,  \* .critical_samples, saturating at CriticalSamples: it
                      \* is compared with that bound and nothing else
    sample            \* the sample of the last evaluation

pressureVars == <<level, criticalSamples, sample>>

Levels == {"Normal", "Warning", "Critical", "Recovery"}

PressureTypeOK ==
    /\ level \in Levels
    /\ criticalSamples \in 0..CriticalSamples
    /\ sample \in Samples

BasisPoints(value, total) ==
    IF total = 0 THEN 0
    ELSE LET bp == (value * 10000) \div total IN IF bp > 10000 THEN 10000 ELSE bp

AvailableBp(s) == BasisPoints(s.avail, Total)

AvailableWarning(s) == AvailableBp(s) <= WarningBp
AvailableCritical(s) == AvailableBp(s) <= CriticalBp
SwapCritical(s) == SwapTotal > 0 /\ BasisPoints(s.swap, SwapTotal) >= SwapBp
PsiCritical(s) == s.psi >= CriticalPsi
EmergencyFloor(s) == s.avail <= Floor

(* Mutant: the comparison the wrong way round.                             *)
RecoveredBug(s) == AvailableBp(s) <= RecoveryBp
AvailableRecovered(s) == AvailableBp(s) >= RecoveryBp

CriticalSignal(s) ==
    EmergencyFloor(s) \/ (AvailableCritical(s) /\ (SwapCritical(s) \/ PsiCritical(s)))

(* critical_samples after a sample: consecutive critical ones.             *)
Counted(n, s) ==
    IF ~Enabled \/ ~CriticalSignal(s) THEN 0
    ELSE IF n < CriticalSamples THEN n + 1 ELSE n

(* next_level, from a level and the updated counter.                       *)
NextLevel(from, n, s) ==
    IF ~Enabled THEN "Normal"
    ELSE IF from = "Critical"
    THEN IF AvailableRecovered(s) /\ ~PsiCritical(s) THEN "Recovery" ELSE "Critical"
    ELSE IF EmergencyFloor(s) \/ n >= CriticalSamples THEN "Critical"
    ELSE IF CriticalSignal(s) \/ AvailableWarning(s) \/ PsiCritical(s) THEN "Warning"
    ELSE "Normal"

PressureInit ==
    /\ level = "Normal"
    /\ criticalSamples = 0
    /\ sample \in Samples

(* evaluate: one sample, counter and level together.                       *)
Evaluate(s) ==
    /\ sample' = s
    /\ criticalSamples' = Counted(criticalSamples, s)
    /\ level' = NextLevel(level, criticalSamples', s)

EvaluateAny == \E s \in Samples : Evaluate(s)

PressureSpec == PressureInit /\ [][EvaluateAny]_pressureVars

-----------------------------------------------------------------------------
(* README, "Memory pressure and emergency mode": "Recovery uses a higher   *)
(* available-memory threshold to prevent rapid state oscillation".  The    *)
(* sample that ends Critical would not, repeated, start it again.          *)
StableRecovery ==
    level = "Recovery" =>
        NextLevel(level, Counted(criticalSamples, sample), sample) # "Critical"
=============================================================================
