-------------------------- MODULE EmergencyProofs --------------------------
(***************************************************************************)
(* For all settings, samples, delays and interleavings: the pressure       *)
(* tracker does not oscillate, and the automatic action is type correct,   *)
(* signals only its victim, respects protection and cooldown, and sends    *)
(* SIGKILL only after an unrelieved grace period.                          *)
(*                                                                         *)
(* The argument.  The tracker is stable as soon as the emergency floor     *)
(* lies below the recovery threshold, which Settings::validate does not    *)
(* ask for.  While an action is pending its victim is the process SIGTERM  *)
(* was sent to, the time since then and the time left make up the grace    *)
(* period, and no sample without the condition was read, because such a    *)
(* sample drops the action.  Finishing it hands those facts over to the    *)
(* SIGKILL stop.  The cooldown counts from the selection, which is no      *)
(* later than the signal, and nothing else resets it.                      *)
(***************************************************************************)
EXTENDS Emergency, ProcessesProofs

(* The pressure tracker.                                                   *)

(* What Recovery remembers of the sample that led to it.                   *)
RecoveredSample == level = "Recovery" => AvailableRecovered(sample)

PressureInv == PressureTypeOK /\ RecoveredSample

(* A share of memory is at least b basis points only if the value is.      *)
LEMMA BasisPointsBound ==
    ASSUME NEW v \in Nat, NEW t \in Nat, NEW b \in Nat \ {0},
           BasisPoints(v, t) >= b
    PROVE  b * t <= v * 10000
<1>1. t # 0
  BY DEF BasisPoints
<1>2. DEFINE q == (v * 10000) \div t
<1>3. q \in Int /\ q >= b
  BY <1>1 DEF BasisPoints
<1>4. t * q <= v * 10000
  BY <1>1
<1>5. t * b <= t * q
  <2> HIDE DEF q
  <2> QED BY <1>3
<1> QED BY <1>3, <1>4, <1>5

(* A sample that counts as recovered is neither critical by percentage nor *)
(* at the emergency floor.                                                 *)
LEMMA RecoveredIsSafe ==
    ASSUME Floor * 10000 < RecoveryBp * Total,
           NEW s \in Sample, AvailableRecovered(s)
    PROVE  ~CriticalSignal(s) /\ ~EmergencyFloor(s)
<1> USE PressureAssumption
<1>1. s.avail \in Nat
  BY DEF Sample
<1>2. RecoveryBp \in Nat \ {0}
  OBVIOUS
<1>3. RecoveryBp * Total <= s.avail * 10000
  BY <1>1, <1>2, BasisPointsBound DEF AvailableRecovered, AvailableBp
<1>4. ~EmergencyFloor(s)
  BY <1>1, <1>3 DEF EmergencyFloor
<1>5. AvailableBp(s) \in Int
  BY <1>1 DEF AvailableBp, BasisPoints
<1>6. ~AvailableCritical(s)
  BY <1>5 DEF AvailableCritical, AvailableRecovered
<1> QED
  BY <1>4, <1>6 DEF CriticalSignal

(* An evaluation keeps the types.                                          *)
LEMMA EvaluateTyped ==
    ASSUME PressureTypeOK, NEW s \in Samples, Evaluate(s)
    PROVE  PressureTypeOK'
<1> USE PressureAssumption
<1>1. criticalSamples' \in 0..CriticalSamples
  BY DEF Evaluate, Counted, PressureTypeOK
<1>2. level' \in Levels
  BY DEF Evaluate, NextLevel, Levels
<1> QED
  BY <1>1, <1>2 DEF Evaluate, PressureTypeOK

(* The tracker's invariant is inductive.                                   *)
LEMMA InitPressureInv == PressureInit => PressureInv
BY PressureAssumption
   DEF PressureInit, PressureInv, PressureTypeOK, RecoveredSample, Levels

LEMMA StepPressureInv ==
    PressureInv /\ [EvaluateAny]_pressureVars => PressureInv'
<1> SUFFICES ASSUME PressureInv, [EvaluateAny]_pressureVars
             PROVE  PressureInv'
  OBVIOUS
<1> USE PressureAssumption DEF PressureInv
<1>1. ASSUME NEW s \in Samples, Evaluate(s)
      PROVE  PressureInv'
  <2>1. RecoveredSample'
    BY <1>1 DEF Evaluate, NextLevel, RecoveredSample, AvailableRecovered,
                AvailableBp
  <2> QED
    BY <1>1, <2>1, EvaluateTyped
<1>2. CASE UNCHANGED pressureVars
  BY <1>2 DEF pressureVars, PressureTypeOK, RecoveredSample, AvailableRecovered,
              AvailableBp
<1> QED
  BY <1>1, <1>2 DEF EvaluateAny

(* README, "Recovery uses a higher available-memory threshold to prevent   *)
(* rapid state oscillation": true of every machine on which the emergency  *)
(* floor is a smaller share of memory than the recovery threshold.         *)
THEOREM RecoveryIsStable ==
    ASSUME Floor * 10000 < RecoveryBp * Total
    PROVE  PressureSpec => []StableRecovery
<1>1. PressureInv => StableRecovery
  <2> SUFFICES ASSUME PressureInv, level = "Recovery"
               PROVE  NextLevel(level, Counted(criticalSamples, sample), sample)
                        # "Critical"
    BY DEF StableRecovery
  <2>1. sample \in Sample /\ AvailableRecovered(sample)
    BY PressureAssumption DEF PressureInv, PressureTypeOK, RecoveredSample
  <2>2. ~CriticalSignal(sample) /\ ~EmergencyFloor(sample)
    BY <2>1, RecoveredIsSafe
  <2>3. Counted(criticalSamples, sample) = 0
    BY <2>2 DEF Counted
  <2> QED
    BY <2>2, <2>3, PressureAssumption DEF NextLevel
<1> QED
  BY <1>1, InitPressureInv, StepPressureInv, PTL DEF PressureSpec

-----------------------------------------------------------------------------
(* The automatic action.                                                   *)

Stopping(s) == phase \in {"check", "send"} /\ sig = s

Exclusive == phase # "idle" => ~pending

(* What the grace period owes to the SIGKILL that may end it.              *)
PendingInv ==
    pending => termed = InstanceOf(victim) /\ TermGrace <= termAge + left /\ ~eased

KillInv ==
    Stopping("KILL") =>
        policy.sigkill /\ termed = InstanceOf(victim) /\ TermGrace <= termAge /\ ~eased

(* The last SIGTERM is no younger than the last selection.                 *)
AgeInv ==
    /\ termed = NoInstance \/ sinceAction <= termAge
    /\ Stopping("TERM") => sinceAction = 0 /\ (termed = NoInstance \/ Cooldown <= termAge)

(* An unprotected program the victim runs now has been seen.               *)
PlainInv ==
    /\ phase = "check" /\ procs[victim.pid].start = victim.start
         /\ ~IsProtected(procs[victim.pid].image) => plain
    /\ phase = "send" => plain

Born == victim.start < births /\ report.who.start < births

IInv == EmergencyTypeOK /\ Exclusive /\ PendingInv /\ KillInv /\ AgeInv /\ PlainInv
        /\ Born /\ ReportIsTrue

-----------------------------------------------------------------------------
(* A permitted sample is one the action is called for.                     *)
LEMMA PermitsCalled ==
    ASSUME NEW lv, NEW s, Permits(lv, s) PROVE ~NotCalledFor(s)
BY DEF Permits, NotCalledFor

LEMMA InitIInv == EmergencyInit => IInv
<1> SUFFICES ASSUME EmergencyInit PROVE IInv
  OBVIOUS
<1> USE ProcessAssumption, EmergencyAssumption
<1>1. PressureTypeOK
  BY InitPressureInv DEF EmergencyInit, PressureInv
<1>2. EnvTypeOK /\ births = 2
  BY DEF EmergencyInit, EnvInit, EnvTypeOK, Process
<1>3. Nobody \in Identity /\ Nobody.start = 0
  BY DEF Nobody, Identity
<1>4. hit \in [sig : {"none", "TERM", "KILL"}, at : Instance] /\ termed \in Instance
  BY DEF EmergencyInit, NoSignal, Instance
<1>5. report \in [what : Reports, who : Identity] /\ report.who = Nobody
  BY <1>3 DEF EmergencyInit, Reports
<1>6. EmergencyTypeOK
  <2>1. /\ interval \in Nat /\ phase \in Phases /\ sig \in {"TERM", "KILL"}
        /\ pending \in BOOLEAN /\ plain \in BOOLEAN /\ eased \in BOOLEAN
    BY DEF EmergencyInit, Phases
  <2>2. /\ left \in 0..TermGrace /\ sinceAction \in 0..Cooldown
        /\ sinceScan \in 0..WarningInterval /\ termAge \in 0..Horizon
    BY DEF EmergencyInit, Horizon
  <2>3. policy \in [action : Actions, sigkill : BOOLEAN] /\ victim \in Identity
    BY <1>3 DEF EmergencyInit
  <2> QED
    BY <1>1, <1>2, <1>4, <1>5, <2>1, <2>2, <2>3 DEF EmergencyTypeOK
<1>7. Born
  BY <1>2, <1>3, <1>5 DEF EmergencyInit, Born
<1> QED
  BY <1>6, <1>7 DEF IInv, EmergencyInit, Exclusive, PendingInv, KillInv, AgeInv, PlainInv,
     Stopping, ReportIsTrue

(* Time passing keeps the deadlines in range, brings force_at no closer    *)
(* than the time that passed, and ages SIGTERM as much as the selection.   *)
LEMMA ElapseKeeps ==
    ASSUME EmergencyTypeOK, NEW d \in Delays, Elapse(d)
    PROVE  /\ left' \in 0..TermGrace /\ sinceAction' \in 0..Cooldown
           /\ sinceScan' \in 0..WarningInterval /\ termAge' \in 0..Horizon
           /\ TermGrace <= termAge + left => TermGrace <= termAge' + left'
           /\ sinceAction <= termAge => sinceAction' <= termAge'
<1> USE EmergencyAssumption DEF EmergencyTypeOK, Elapse, LeftAfter, Least, Horizon
<1>1. d \in Nat /\ d > 0
  OBVIOUS
<1>2. /\ left' \in 0..TermGrace /\ sinceAction' \in 0..Cooldown
      /\ sinceScan' \in 0..WarningInterval /\ termAge' \in 0..Horizon
  BY <1>1
<1>3. TermGrace <= termAge + left => TermGrace <= termAge' + left'
  BY <1>1
<1>4. sinceAction <= termAge => sinceAction' <= termAge'
  BY <1>1
<1> QED BY <1>2, <1>3, <1>4

LEMMA PollIInv ==
    ASSUME IInv, NEW s \in Samples, NEW d \in Delays, Poll(s, d)
    PROVE  IInv'
<1> USE EmergencyAssumption
<1>1. /\ left' \in 0..TermGrace /\ sinceAction' \in 0..Cooldown
      /\ sinceScan' \in 0..WarningInterval /\ termAge' \in 0..Horizon
      /\ TermGrace <= termAge + left => TermGrace <= termAge' + left'
      /\ sinceAction <= termAge => sinceAction' <= termAge'
  BY ElapseKeeps DEF IInv, Poll
<1>2. PressureTypeOK'
  BY EvaluateTyped DEF IInv, EmergencyTypeOK, Poll
<1>3. /\ phase = "idle" /\ hit' = NoSignal /\ plain' = ~IsProtected(procs[victim.pid].image)
      /\ interval' = IntervalOf(level') /\ eased' = (eased \/ NotCalledFor(s))
      /\ UNCHANGED <<procs, births, policy, victim, termed>>
  BY DEF Poll, envVars
<1>4. report' = report \/ report' = [what |-> "survived", who |-> victim]
  BY DEF Poll, Clear, FinishPending, Report
<1>5. /\ phase' \in {"idle", "scan", "check"} /\ sig' \in {"TERM", "KILL"}
      /\ pending' \in BOOLEAN
      /\ phase' # "idle" => ~pending'
      /\ pending' => pending /\ Permits(level', s)
      /\ phase' = "check" =>
           pending /\ left' = 0 /\ policy.sigkill /\ sig' = "KILL" /\ Permits(level', s)
  <2>1. phase' \in {"idle", "scan", "check"} /\ sig' \in {"TERM", "KILL"}
    BY <1>3 DEF Poll, Clear, FinishPending, ScanIfDue, IInv, EmergencyTypeOK
  <2>2. pending' \in BOOLEAN
    BY <1>3 DEF Poll, Clear, FinishPending, ScanIfDue, IInv, EmergencyTypeOK
  <2>3. phase' # "idle" => ~pending'
    BY <1>3 DEF Poll, Clear, FinishPending, ScanIfDue
  <2>4. pending' => pending /\ Permits(level', s)
    BY <1>3 DEF Poll, Clear, FinishPending, ScanIfDue
  <2>5. phase' = "check" =>
           pending /\ left' = 0 /\ policy.sigkill /\ sig' = "KILL" /\ Permits(level', s)
    BY <1>3 DEF Poll, Clear, FinishPending, ScanIfDue
  <2> QED BY <2>1, <2>2, <2>3, <2>4, <2>5
<1>6. report' \in [what : Reports, who : Identity] /\ report'.who \in {report.who, victim}
  BY <1>4 DEF IInv, EmergencyTypeOK, Reports
<1>7. EmergencyTypeOK'
  <2>1. interval' \in Nat
    BY <1>3 DEF IntervalOf
  <2>2. eased' \in BOOLEAN /\ plain' \in BOOLEAN
    BY <1>3 DEF IInv, EmergencyTypeOK
  <2>3. hit' \in [sig : {"none", "TERM", "KILL"}, at : Instance]
    BY <1>3 DEF NoSignal, Instance
  <2>4. EnvTypeOK'
    BY <1>3 DEF IInv, EmergencyTypeOK, EnvTypeOK
  <2> QED
    BY <1>1, <1>2, <1>3, <1>5, <1>6, <2>1, <2>2, <2>3, <2>4
       DEF IInv, EmergencyTypeOK, Phases
<1>8. Permits(level', s) => ~NotCalledFor(s)
  BY PermitsCalled
<1>9. PendingInv' /\ KillInv'
  BY <1>1, <1>3, <1>5, <1>7, <1>8
     DEF IInv, PendingInv, KillInv, Stopping, EmergencyTypeOK, InstanceOf
<1>10. AgeInv' /\ Exclusive'
  BY <1>1, <1>3, <1>5 DEF IInv, AgeInv, Exclusive, Stopping
<1>11. PlainInv' /\ Born'
  BY <1>3, <1>5, <1>6 DEF IInv, PlainInv, Born, IsProtected
<1>12. ReportIsTrue'
  BY <1>3, <1>4 DEF IInv, ReportIsTrue, Running
<1> QED BY <1>7, <1>9, <1>10, <1>11, <1>12 DEF IInv

LEMMA PollErrorIInv ==
    ASSUME IInv, NEW d \in Delays, PollError(d) PROVE IInv'
<1> USE EmergencyAssumption
<1>1. /\ left' \in 0..TermGrace /\ sinceAction' \in 0..Cooldown
      /\ sinceScan' \in 0..WarningInterval /\ termAge' \in 0..Horizon
      /\ TermGrace <= termAge + left => TermGrace <= termAge' + left'
      /\ sinceAction <= termAge => sinceAction' <= termAge'
  BY ElapseKeeps DEF IInv, PollError
<1>2. /\ phase = "idle" /\ interval' = NormalInterval
      /\ UNCHANGED <<level, criticalSamples, sample, procs, births, policy, phase, sig,
                     victim, pending, report, hit, plain, termed, eased>>
  BY DEF PollError, pressureVars, envVars
<1>3. EmergencyTypeOK'
  BY <1>1, <1>2 DEF IInv, EmergencyTypeOK, PressureTypeOK, EnvTypeOK
<1>4. PendingInv' /\ KillInv' /\ AgeInv' /\ Exclusive'
  BY <1>1, <1>2 DEF IInv, PendingInv, KillInv, AgeInv, Exclusive, Stopping, InstanceOf
<1>5. PlainInv' /\ Born' /\ ReportIsTrue'
  BY <1>2 DEF IInv, PlainInv, Born, ReportIsTrue, Running
<1> QED BY <1>3, <1>4, <1>5 DEF IInv

LEMMA SelectIInv ==
    ASSUME IInv, NEW p \in Pids, Select(p) PROVE IInv'
<1> USE EmergencyAssumption
<1>1. /\ phase = "scan" /\ sinceAction = Cooldown /\ ~pending
      /\ victim' = IdentityOf(p) /\ phase' = "check" /\ sig' = "TERM"
      /\ sinceAction' = 0 /\ sinceScan' = 0 /\ plain' = TRUE
      /\ UNCHANGED <<level, criticalSamples, sample, procs, births, policy, interval,
                     pending, left, report, hit, termed, termAge, eased>>
  BY DEF Select, Cooled, IInv, Exclusive, pressureVars, envVars
<1>2. victim' \in Identity /\ victim'.start < births
  BY <1>1 DEF IdentityOf, Identity, IInv, EmergencyTypeOK, EnvTypeOK, Process
<1>3. EmergencyTypeOK'
  BY <1>1, <1>2 DEF IInv, EmergencyTypeOK, PressureTypeOK, EnvTypeOK, Phases
<1>4. PendingInv' /\ KillInv' /\ AgeInv' /\ Exclusive'
  BY <1>1 DEF IInv, PendingInv, KillInv, AgeInv, Exclusive, Stopping, EmergencyTypeOK
<1>5. PlainInv' /\ Born' /\ ReportIsTrue'
  BY <1>1, <1>2 DEF IInv, PlainInv, Born, ReportIsTrue, Running
<1> QED BY <1>3, <1>4, <1>5 DEF IInv

LEMMA SelectNoneIInv == ASSUME IInv, SelectNone PROVE IInv'
<1> USE EmergencyAssumption
<1>1. /\ phase' = "idle" /\ sinceScan' = 0
      /\ UNCHANGED <<level, criticalSamples, sample, procs, births, policy, interval, sig,
                     victim, pending, left, sinceAction, report, hit, plain, termed,
                     termAge, eased>>
  BY DEF SelectNone, pressureVars, envVars, history
<1>2. EmergencyTypeOK'
  BY <1>1 DEF IInv, EmergencyTypeOK, PressureTypeOK, EnvTypeOK, Phases
<1>3. PendingInv' /\ KillInv' /\ AgeInv' /\ Exclusive'
  BY <1>1 DEF IInv, PendingInv, KillInv, AgeInv, Exclusive, Stopping, InstanceOf
<1>4. PlainInv' /\ Born' /\ ReportIsTrue'
  BY <1>1 DEF IInv, PlainInv, Born, ReportIsTrue, Running
<1> QED BY <1>2, <1>3, <1>4 DEF IInv

(* The phase, the report and nothing else may change in a refusal.         *)
LEMMA RefusedKeeps ==
    ASSUME IInv, phase \in {"check", "send"}, NEW verdict, Refused(verdict),
           verdict = "NotFound" => ~Running(victim),
           UNCHANGED <<pressureVars, envVars, policy, interval, sig, victim, pending, left,
                       sinceAction, sinceScan, history>>
    PROVE  IInv'
<1> USE EmergencyAssumption
<1>1. UNCHANGED <<level, criticalSamples, sample, procs, births, policy, interval, sig,
                  victim, pending, left, sinceAction, sinceScan, hit, plain, termed,
                  termAge, eased>>
  BY DEF pressureVars, envVars, history
<1>2. /\ phase' \in {"idle", "scan"} /\ ~pending
      /\ \/ report' = report
         \/ report' = [what |-> "exited", who |-> victim] /\ ~Running(victim)
         \/ report' = [what |-> "rejected", who |-> victim]
  BY DEF Refused, ScanIfDue, Report, IInv, Exclusive, EmergencyTypeOK
<1>3. report' \in [what : Reports, who : Identity] /\ report'.who \in {report.who, victim}
  BY <1>2 DEF IInv, EmergencyTypeOK, Reports
<1>4. EmergencyTypeOK'
  BY <1>1, <1>2, <1>3 DEF IInv, EmergencyTypeOK, PressureTypeOK, EnvTypeOK, Phases
<1>5. PendingInv' /\ KillInv' /\ AgeInv' /\ Exclusive'
  BY <1>1, <1>2 DEF IInv, PendingInv, KillInv, AgeInv, Exclusive, Stopping
<1>6. PlainInv' /\ Born'
  BY <1>1, <1>2, <1>3 DEF IInv, PlainInv, Born
<1>7. ReportIsTrue'
  BY <1>1, <1>2 DEF IInv, ReportIsTrue, Running
<1> QED BY <1>4, <1>5, <1>6, <1>7 DEF IInv

LEMMA CheckIInv == ASSUME IInv, Check PROVE IInv'
<1>1. /\ phase = "check"
      /\ UNCHANGED <<pressureVars, envVars, policy, interval, sig, victim, pending, left,
                     sinceAction, sinceScan, history>>
  BY DEF Check
<1>2. PICK verdict \in {Verdict(victim), "Inspection"} :
        \/ verdict = "ok" /\ phase' = "send" /\ UNCHANGED report
        \/ verdict # "ok" /\ Refused(verdict)
  BY DEF Check
<1>3. CASE verdict = "ok" /\ phase' = "send" /\ UNCHANGED report
  <2>1. UNCHANGED <<level, criticalSamples, sample, procs, births, policy, interval, sig,
                    victim, pending, left, sinceAction, sinceScan, hit, plain, termed,
                    termAge, eased>>
    BY <1>1 DEF pressureVars, envVars, history
  <2>2. Verdict(victim) = "ok"
    BY <1>2, <1>3
  <2>3. /\ procs[victim.pid].start = victim.start
        /\ ~IsProtected(procs[victim.pid].image)
    BY <2>2 DEF Verdict, IdentityOf
  <2>4. plain
    BY <1>1, <2>3 DEF IInv, PlainInv
  <2>5. EmergencyTypeOK'
    BY <1>3, <2>1 DEF IInv, EmergencyTypeOK, PressureTypeOK, EnvTypeOK, Phases
  <2>6. PendingInv' /\ KillInv' /\ AgeInv' /\ Exclusive'
    BY <1>1, <1>3, <2>1
       DEF IInv, PendingInv, KillInv, AgeInv, Exclusive, Stopping, InstanceOf
  <2>7. PlainInv' /\ Born' /\ ReportIsTrue'
    BY <1>3, <2>1, <2>4 DEF IInv, PlainInv, Born, ReportIsTrue, Running
  <2> QED BY <2>5, <2>6, <2>7 DEF IInv
<1>4. CASE verdict # "ok" /\ Refused(verdict)
  <2>1. verdict = "NotFound" => ~Running(victim)
    BY <1>2 DEF Verdict, Running
  <2> QED BY <1>1, <1>4, <2>1, RefusedKeeps
<1> QED BY <1>2, <1>3, <1>4

LEMMA SignalFailsIInv == ASSUME IInv, SignalFails PROVE IInv'
BY RefusedKeeps DEF SignalFails

(* What a delivered signal owes to the invariant.                          *)
LEMMA DeliverFacts ==
    ASSUME IInv, Deliver
    PROVE  /\ phase = "send" /\ plain /\ ~pending
           /\ hit' = [sig |-> sig, at |-> InstanceOf(victim)]
           /\ UNCHANGED <<level, criticalSamples, sample, procs, births, policy, interval,
                          sig, victim, sinceAction, sinceScan, plain>>
<1>1. procs[victim.pid].start = victim.start
  BY DEF Deliver, IdentityHolds, IdentityOf
<1> QED
  BY <1>1 DEF Deliver, IInv, Exclusive, PlainInv, InstanceOf, pressureVars, envVars

LEMMA DeliverIInv == ASSUME IInv, Deliver PROVE IInv'
<1> USE EmergencyAssumption
<1>1. /\ phase = "send" /\ plain /\ ~pending
      /\ hit' = [sig |-> sig, at |-> InstanceOf(victim)]
      /\ UNCHANGED <<level, criticalSamples, sample, procs, births, policy, interval,
                     sig, victim, sinceAction, sinceScan, plain>>
  BY DeliverFacts
<1>2. InstanceOf(victim) \in Instance /\ victim \in Identity
  BY DEF InstanceOf, Instance, Identity, IInv, EmergencyTypeOK
<1>3. hit' \in [sig : {"none", "TERM", "KILL"}, at : Instance]
  BY <1>1, <1>2 DEF IInv, EmergencyTypeOK
<1>4. CASE /\ sig = "TERM"
           /\ pending' = TRUE /\ left' = TermGrace
           /\ Report("sent") /\ phase' = "idle"
           /\ termed' = <<victim.pid, procs[victim.pid].start>>
           /\ termAge' = 0 /\ eased' = FALSE
  <2>1. termed' = InstanceOf(victim)
    BY <1>4 DEF Deliver, IdentityHolds, IdentityOf, InstanceOf
  <2>2. report' = [what |-> "sent", who |-> victim]
    BY <1>4 DEF Report
  <2>3. report' \in [what : Reports, who : Identity] /\ report'.who = victim
    BY <1>2, <2>2 DEF Reports
  <2>4. 0 \in 0..Horizon /\ TermGrace \in 0..TermGrace
    BY DEF Horizon
  <2>5. EmergencyTypeOK'
    BY <1>1, <1>2, <1>3, <1>4, <2>1, <2>3, <2>4
       DEF IInv, EmergencyTypeOK, PressureTypeOK, EnvTypeOK, Phases
  <2>6. sinceAction' = 0
    BY <1>1, <1>4 DEF IInv, AgeInv, Stopping
  <2>7. PendingInv' /\ KillInv' /\ AgeInv' /\ Exclusive'
    BY <1>1, <1>4, <2>1, <2>6
       DEF PendingInv, KillInv, AgeInv, Exclusive, Stopping, InstanceOf
  <2>8. PlainInv' /\ Born' /\ ReportIsTrue'
    BY <1>1, <1>4, <2>2, <2>3 DEF IInv, PlainInv, Born, ReportIsTrue
  <2> QED BY <2>5, <2>7, <2>8 DEF IInv
<1>5. CASE /\ sig = "KILL"
           /\ Report("killed") /\ ScanIfDue(sinceScan)
           /\ UNCHANGED <<pending, left, termed, termAge, eased>>
  <2>1. phase' \in {"idle", "scan"}
    BY <1>5 DEF ScanIfDue
  <2>2. report' = [what |-> "killed", who |-> victim]
    BY <1>5 DEF Report
  <2>3. report' \in [what : Reports, who : Identity] /\ report'.who = victim
    BY <1>2, <2>2 DEF Reports
  <2>4. EmergencyTypeOK'
    BY <1>1, <1>3, <1>5, <2>1, <2>3
       DEF IInv, EmergencyTypeOK, PressureTypeOK, EnvTypeOK, Phases
  <2>5. PendingInv' /\ KillInv' /\ AgeInv' /\ Exclusive'
    BY <1>1, <1>5, <2>1
       DEF IInv, PendingInv, KillInv, AgeInv, Exclusive, Stopping, InstanceOf
  <2>6. PlainInv' /\ Born' /\ ReportIsTrue'
    BY <1>1, <2>1, <2>2, <2>3 DEF IInv, PlainInv, Born, ReportIsTrue
  <2> QED BY <2>4, <2>5, <2>6 DEF IInv
<1> QED BY <1>4, <1>5 DEF Deliver

LEMMA EnvironmentIInv == ASSUME IInv, Environment PROVE IInv'
<1>1. EnvStep
  BY DEF Environment, EnvStep
<1>2. EnvTypeOK /\ EnvTypeOK' /\ births <= births' /\ births \in Nat /\ births' \in Nat
  <2>1. EnvTypeOK /\ EnvTypeOK'
    BY <1>1, StartsGrow DEF IInv, EmergencyTypeOK
  <2>2. births' = births \/ births' = births + 1
    BY DEF Environment, Exit, Reap, Spawn, SetUid, Exec
  <2> QED BY <2>1, <2>2 DEF EnvTypeOK
<1>3. /\ UNCHANGED <<level, criticalSamples, sample, policy, interval, phase, sig, victim,
                     pending, left, sinceAction, sinceScan, report, hit, termed, termAge,
                     eased>>
      /\ plain' \in BOOLEAN /\ (plain => plain')
  BY DEF Environment, pressureVars, daemonVars, history, IInv, EmergencyTypeOK
<1>4. EmergencyTypeOK'
  BY <1>2, <1>3 DEF IInv, EmergencyTypeOK, PressureTypeOK
<1>5. PendingInv' /\ KillInv' /\ AgeInv' /\ Exclusive'
  BY <1>3 DEF IInv, PendingInv, KillInv, AgeInv, Exclusive, Stopping, InstanceOf
<1>6. Born'
  <2>1. victim.start \in Nat /\ report.who.start \in Nat
    BY DEF IInv, EmergencyTypeOK, Identity
  <2> QED BY <1>2, <1>3, <2>1 DEF IInv, Born
<1>7. ReportIsTrue'
  <2>1. report.who \in Identity /\ report.who.start < births
    BY DEF IInv, EmergencyTypeOK, Born
  <2>2. ~Running(report.who) => (~Running(report.who))'
    BY <1>1, <1>2, <1>3, <2>1, StaysGone DEF Running
  <2> QED BY <1>3, <2>2 DEF IInv, ReportIsTrue
<1>8. PlainInv'
  <2>1. SUFFICES ASSUME phase = "check", procs'[victim.pid].start = victim.start,
                        ~IsProtected(procs'[victim.pid].image)
                 PROVE  plain'
    BY <1>3 DEF IInv, PlainInv, IsProtected
  <2>2. victim.pid \in Pids /\ victim.start \in Nat /\ victim.start < births
    BY DEF IInv, EmergencyTypeOK, Identity, Born
  <2>3. procs \in [Pids -> Process]
    BY <1>2 DEF EnvTypeOK
  <2>4. ASSUME NEW p \in Pids, Exit(p) \/ Reap(p) \/ Spawn(p) \/ \E u \in Uids : SetUid(p, u)
        PROVE  plain'
    <3>1. /\ procs[victim.pid].start = victim.start
          /\ procs'[victim.pid].image = procs[victim.pid].image
      BY <2>1, <2>2, <2>3, <2>4 DEF Exit, Reap, Spawn, SetUid, Process, EnvTypeOK
    <3> QED BY <1>3, <2>1, <3>1 DEF IInv, PlainInv, IsProtected
  <2>5. ASSUME NEW p \in Pids, NEW i \in Images, Exec(p, i),
               plain' = (plain \/ (p = victim.pid /\ ~IsProtected(i)))
        PROVE  plain'
    <3>1. CASE p = victim.pid
      BY <2>1, <2>2, <2>3, <2>5, <3>1 DEF Exec, Process, IsProtected
    <3>2. CASE p # victim.pid
      <4>1. procs'[victim.pid] = procs[victim.pid]
        BY <2>2, <2>3, <2>5, <3>2 DEF Exec
      <4> QED BY <1>3, <2>1, <4>1 DEF IInv, PlainInv, IsProtected
    <3> QED BY <3>1, <3>2
  <2> QED BY <2>4, <2>5 DEF Environment
<1> QED BY <1>4, <1>5, <1>6, <1>7, <1>8 DEF IInv

LEMMA StepIInv == IInv /\ [Next]_vars => IInv'
<1> SUFFICES ASSUME IInv, [Next]_vars PROVE IInv'
  OBVIOUS
<1>1. CASE PollAny \/ \E d \in Delays : PollError(d)
  BY <1>1, PollIInv, PollErrorIInv DEF PollAny
<1>2. CASE Work
  BY <1>2, SelectIInv, SelectNoneIInv, CheckIInv, DeliverIInv, SignalFailsIInv DEF Work
<1>3. CASE Environment
  BY <1>3, EnvironmentIInv
<1>4. CASE UNCHANGED vars
  <2>1. UNCHANGED <<level, criticalSamples, sample, procs, births, policy, interval, phase,
                    sig, victim, pending, left, sinceAction, sinceScan, report, hit, plain,
                    termed, termAge, eased>>
    BY <1>4 DEF vars, pressureVars, envVars, daemonVars, history
  <2>2. EmergencyTypeOK'
    BY <2>1 DEF IInv, EmergencyTypeOK, PressureTypeOK, EnvTypeOK
  <2>3. PendingInv' /\ KillInv' /\ AgeInv' /\ Exclusive'
    BY <2>1 DEF IInv, PendingInv, KillInv, AgeInv, Exclusive, Stopping, InstanceOf
  <2>4. PlainInv' /\ Born' /\ ReportIsTrue'
    BY <2>1 DEF IInv, PlainInv, Born, ReportIsTrue, Running, IsProtected
  <2> QED BY <2>2, <2>3, <2>4 DEF IInv
<1> QED BY <1>1, <1>2, <1>3, <1>4 DEF Next

-----------------------------------------------------------------------------
(* Every deadline stays in range and every report names an identity.       *)
THEOREM TypeCorrect == EmergencySpec => []EmergencyTypeOK
<1>1. IInv => EmergencyTypeOK BY DEF IInv
<1> QED BY InitIInv, StepIInv, <1>1, PTL DEF EmergencySpec

(* "exited after SIGTERM" in the status is never wrong, however PIDs are   *)
(* reused.                                                                 *)
THEOREM ReportTrue == EmergencySpec => []ReportIsTrue
<1>1. IInv => ReportIsTrue BY DEF IInv
<1> QED BY InitIInv, StepIInv, <1>1, PTL DEF EmergencySpec

(* Which step delivers a signal, and what held before it.                  *)
LEMMA HitIsDelivered ==
    ASSUME IInv, [Next]_vars, hit' # hit, hit' # NoSignal
    PROVE  /\ phase = "send" /\ plain
           /\ hit' = [sig |-> sig, at |-> InstanceOf(victim)]
<1>1. CASE Deliver
  BY <1>1, DeliverFacts
<1>2. CASE ~Deliver
  BY <1>2 DEF Next, PollAny, Poll, PollError, Work, Select, SelectNone, Check, SignalFails,
     Environment, vars, history
<1> QED BY <1>1, <1>2

(* No signal of the automatic action ever reaches another process than the *)
(* one the scan selected.                                                  *)
THEOREM VictimsOnly == EmergencySpec => OnlyVictims
<1>1. IInv /\ [Next]_vars =>
        [hit' # hit /\ hit' # NoSignal => hit'.at = InstanceOf(victim)]_vars
  BY HitIsDelivered
<1> QED BY InitIInv, StepIInv, <1>1, PTL DEF EmergencySpec, OnlyVictims

(* A process that ran a protected program all through a stop is spared,    *)
(* whatever it ran when it was selected or sent SIGTERM.                   *)
THEOREM ProtectedAreSpared == EmergencySpec => ProtectedSpared
<1>1. IInv /\ [Next]_vars => [hit' # hit /\ hit' # NoSignal => plain]_vars
  BY HitIsDelivered
<1> QED BY InitIInv, StepIInv, <1>1, PTL DEF EmergencySpec, ProtectedSpared

(* SIGKILL: opted in, to the process SIGTERM was sent to, a whole grace    *)
(* period later, no sample in between without the condition.               *)
THEOREM KillEarned == EmergencySpec => KillIsEarned
<1>1. ASSUME IInv, [Next]_vars, hit' # hit, hit'.sig = "KILL"
      PROVE  policy.sigkill /\ hit'.at = termed /\ termAge >= TermGrace /\ ~eased
  <2>1. hit' # NoSignal
    BY <1>1 DEF NoSignal
  <2>2. phase = "send" /\ hit' = [sig |-> sig, at |-> InstanceOf(victim)]
    BY <1>1, <2>1, HitIsDelivered
  <2>3. Stopping("KILL")
    BY <1>1, <2>2 DEF Stopping
  <2>4. termAge \in Int /\ TermGrace \in Int
    BY <1>1, EmergencyAssumption DEF IInv, EmergencyTypeOK
  <2> QED BY <1>1, <2>2, <2>3, <2>4 DEF IInv, KillInv
<1>2. IInv /\ [Next]_vars =>
        [hit' # hit /\ hit'.sig = "KILL" =>
           policy.sigkill /\ hit'.at = termed /\ termAge >= TermGrace /\ ~eased]_vars
  BY <1>1
<1> QED BY InitIInv, StepIInv, <1>2, PTL DEF EmergencySpec, KillIsEarned

(* Two SIGTERMs are at least the cooldown apart, refused ones, failed      *)
(* polls and dropped actions in between or not.                            *)
THEOREM CooldownHolds == EmergencySpec => CooldownKept
<1>1. ASSUME IInv, [Next]_vars, hit' # hit, hit'.sig = "TERM"
      PROVE  termed = NoInstance \/ termAge >= Cooldown
  <2>1. hit' # NoSignal
    BY <1>1 DEF NoSignal
  <2>2. phase = "send" /\ hit' = [sig |-> sig, at |-> InstanceOf(victim)]
    BY <1>1, <2>1, HitIsDelivered
  <2>3. Stopping("TERM")
    BY <1>1, <2>2 DEF Stopping
  <2>4. termAge \in Int /\ Cooldown \in Int
    BY <1>1, EmergencyAssumption DEF IInv, EmergencyTypeOK
  <2> QED BY <1>1, <2>3, <2>4 DEF IInv, AgeInv
<1>2. IInv /\ [Next]_vars =>
        [hit' # hit /\ hit'.sig = "TERM" =>
           termed = NoInstance \/ termAge >= Cooldown]_vars
  BY <1>1
<1> QED BY InitIInv, StepIInv, <1>2, PTL DEF EmergencySpec, CooldownKept

-----------------------------------------------------------------------------
(* The daemon drives the pressure tracker as its own specification says,   *)
(* so what holds of the tracker holds in the daemon: its pressure does not *)
(* oscillate where the floor lies below the recovery threshold.            *)
THEOREM DaemonTracksPressure == EmergencySpec => PressureSpec
<1>1. EmergencyInit => PressureInit
  BY DEF EmergencyInit
<1>2. ASSUME [Next]_vars PROVE [EvaluateAny]_pressureVars
  <2>1. CASE PollAny
    BY <2>1 DEF PollAny, Poll, EvaluateAny
  <2>2. CASE ~PollAny
    BY <1>2, <2>2 DEF Next, PollError, Work, Select, SelectNone, Check, Deliver, SignalFails,
       Environment, vars
  <2> QED BY <2>1, <2>2
<1> QED BY <1>1, <1>2, PTL DEF EmergencySpec, PressureSpec

THEOREM DaemonRecoveryIsStable ==
    ASSUME Floor * 10000 < RecoveryBp * Total
    PROVE  EmergencySpec => []StableRecovery
BY DaemonTracksPressure, RecoveryIsStable, PTL
=============================================================================
