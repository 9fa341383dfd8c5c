--------------------------- MODULE ProcessControl ---------------------------
(***************************************************************************)
(* The stop use cases of src/application/process_control.rs with the       *)
(* adapters they run on (process_sysinfo.rs, process_signals.rs) and the   *)
(* `stop` command of the CLI, one system call at a time, interleaved with  *)
(* the process table of module Processes.                                  *)
(*                                                                         *)
(* A request is one of                                                     *)
(*   "stop"      StopProcess: one process (emergency, single stop)         *)
(*   "workload"  StopWorkload: a tree, members already gone are skipped    *)
(*   "group"     StopWorkloadGroup: strict preflight of every member       *)
(*   "cli"       `stop PID [--kill [--yes]]`: StopAndWait, ForceStopProcess*)
(***************************************************************************)
EXTENDS Processes, Sequences

CONSTANTS
    Orders,     \* termination orders a request may carry: leaf first, root last
    Grace       \* grace period of StopAndWait, in polls of 100 ms

(* The orders the trackers build name no process twice (OrdersLeafFirst of *)
(* module Monitoring).                                                     *)
ASSUME ControlAssumption ==
    /\ Orders \subseteq Seq(Pids)
    /\ \A o \in Orders : o # <<>> /\ \A j, k \in DOMAIN o : o[j] = o[k] => j = k
    /\ Grace \in Nat

VARIABLES
    op,         \* the request: its kind, the identities to stop, --kill, --yes
    pc,         \* where the use case stands
    seen,       \* `find` refreshed the PID and reads its identity next
    cache,      \* sysinfo's entry per PID: start and program first seen
    looked,     \* history: the program the process ran at the last refresh
    todo,       \* identities the current loop still has to visit
    validated,  \* `validated`: identities that passed the preflight
    fd,         \* the instance (start time) the open pidfd refers to
    sig,        \* "TERM", or "KILL" in the second half of the CLI's stop
    waited,     \* WaitForExit: elapsed polls
    consent,    \* the user answered the SIGKILL prompt with the PID
    outcome,    \* what the use case returned
    sent,       \* history: signals delivered, as <<signal, instance>> records
    plain       \* history: instances seen running an unprotected program
                \* since the request was made

opVars == <<op, pc, seen, cache, looked, todo, validated, fd, sig, waited, consent,
            outcome, sent, plain>>
vars == <<envVars, opVars>>

Kinds == {"stop", "workload", "group", "cli"}
Multi == {"workload", "group"}
Phases == {"idle", "preflight", "validate", "open", "recheck", "send",
           "wait", "sleep", "confirm", "done"}
Outcomes == {"none", "ok", "exited", "NotFound", "WrongOwner",
             "IdentityChanged", "Protected", "Inspection", "Termination",
             "StillRunning", "Declined"}

Entry == [start : Nat, image : Images]
Instance == Pids \X Nat
InstanceOf(m) == <<m.pid, m.start>>
Requested == {op.order[k] : k \in DOMAIN op.order}
Target == Head(todo)

TypeOK ==
    /\ EnvTypeOK
    /\ op \in [kind : Kinds, order : Seq(Identity), kill : BOOLEAN, yes : BOOLEAN]
    /\ pc \in Phases
    /\ seen \in BOOLEAN
    /\ cache \in [Pids -> Entry]
    /\ looked \in Images
    /\ todo \in Seq(Identity)
    /\ validated \in Seq(Identity)
    /\ fd \in Nat
    /\ sig \in {"TERM", "KILL"}
    /\ waited \in 0..Grace
    /\ consent \in BOOLEAN
    /\ outcome \in Outcomes
    /\ sent \in Seq([sig : {"TERM", "KILL"}, pid : Pids, start : Nat])
    /\ plain \subseteq Instance

Unprotected == {<<p, procs[p].start>> : p \in {q \in Pids :
                   Present(q) /\ ~IsProtected(procs[q].image)}}

(* A fresh SysinfoProcessSource knows nothing (start times begin at 1); a  *)
(* snapshot or a find records every program it saw.                        *)
AnyImage == CHOOSE i \in Images : TRUE
FreshSource == [p \in Pids |-> [start |-> 0, image |-> AnyImage]]
Snapshot == [p \in Pids |-> IF procs[p].state = "alive"
                            THEN [start |-> procs[p].start, image |-> procs[p].image]
                            ELSE FreshSource[p]]

Init ==
    /\ EnvInit
    /\ op = [kind |-> "stop", order |-> <<>>, kill |-> FALSE, yes |-> FALSE]
    /\ pc = "idle"
    /\ seen = FALSE
    /\ cache = FreshSource /\ looked = AnyImage
    /\ todo = <<>> /\ validated = <<>>
    /\ fd = 0 /\ sig = "TERM" /\ waited = 0
    /\ consent = FALSE /\ outcome = "none"
    /\ sent = <<>> /\ plain = {}

(* A request names identities observed together: by the snapshot the CLI   *)
(* has just taken (its source keeps what it saw), or by the one a desktop  *)
(* notification was built from (the daemon stops with a fresh source).     *)
Begin(kind, order, kill, yes) ==
    /\ pc \in {"idle", "done"}
    /\ kind \in Multi \/ Len(order) = 1
    /\ kind = "cli" \/ ~kill
    /\ kill \/ ~yes
    /\ \A k \in DOMAIN order : procs[order[k]].state = "alive"
    /\ LET identities == [k \in DOMAIN order |-> IdentityOf(order[k])] IN
         /\ op' = [kind |-> kind, order |-> identities, kill |-> kill, yes |-> yes]
         /\ todo' = identities
    /\ pc' = IF kind \in Multi THEN "preflight" ELSE "validate"
    /\ \/ kind \in {"cli", "workload"} /\ cache' = Snapshot
       \/ kind # "cli" /\ cache' = FreshSource
    /\ looked' = AnyImage
    /\ seen' = FALSE /\ validated' = <<>> /\ fd' = 0 /\ sig' = "TERM"
    /\ waited' = 0 /\ consent' = FALSE /\ outcome' = "none" /\ sent' = <<>>
    /\ plain' = Unprotected
    /\ UNCHANGED envVars

Finish(result) ==
    /\ pc' = "done" /\ outcome' = result
    /\ UNCHANGED <<todo, validated>>

(* The next identity of the running loop; after the preflight loop the     *)
(* loop over `validated`; after that one the use case returns.             *)
NextMember(valid) ==
    LET preflight == pc = "preflight" IN
    /\ validated' = valid
    /\ \/ /\ Tail(todo) # <<>>
          /\ todo' = Tail(todo)
          /\ pc' = IF preflight THEN "preflight" ELSE "validate"
          /\ UNCHANGED outcome
       \/ /\ Tail(todo) = <<>> /\ preflight /\ valid # <<>>
          /\ todo' = valid
          /\ pc' = "validate"
          /\ UNCHANGED outcome
       \/ /\ Tail(todo) = <<>> /\ (preflight => valid = <<>>)
          /\ todo' = <<>>
          /\ pc' = "done" /\ outcome' = "ok"

-----------------------------------------------------------------------------
(* validate_process: find, then compare                                    *)

(* Going on with the same identity in another phase.                       *)
Enter(phase) == pc' = phase /\ UNCHANGED <<todo, validated, outcome>>

(* Definitions named ...Bug are mutants: each is a plausible slip in the   *)
(* definition after it and makes one of the properties below fail.         *)

(* A preflight that skips protected members instead of refusing.           *)
PreflightSkipsBug(verdict) ==
    \/ verdict = "ok" /\ NextMember(Append(validated, Target))
    \/ verdict \in {"NotFound", "Protected"} /\ op.kind = "workload" /\ NextMember(validated)
    \/ verdict \notin {"ok", "NotFound", "Protected"} /\ Finish(verdict)

(* What the preflight loop does with a verdict: only a workload skips      *)
(* members that are gone.                                                  *)
AfterPreflight(verdict) ==
    LET skip == verdict = "NotFound" /\ op.kind = "workload" IN
    \/ verdict = "ok" /\ NextMember(Append(validated, Target))
    \/ skip /\ NextMember(validated)
    \/ verdict # "ok" /\ ~skip /\ Finish(verdict)

(* A signalling loop that carries on after any refusal.                    *)
ValidateCarriesOnBug(verdict) ==
    \/ verdict = "ok" /\ Enter("open")
    \/ verdict # "ok" /\ op.kind \in Multi /\ NextMember(validated)
    \/ verdict # "ok" /\ op.kind \notin Multi /\ Finish(verdict)

(* What the signalling loop, StopProcess or ForceStopProcess does with it. *)
AfterValidate(verdict) ==
    LET skip == verdict = "NotFound" /\ op.kind \in Multi
        gone == verdict \in {"NotFound", "IdentityChanged"} /\ sig = "KILL"
    IN
    \/ verdict = "ok" /\ Enter("open")
    \/ skip /\ NextMember(validated)
    \/ gone /\ Finish("exited")
    \/ verdict # "ok" /\ ~skip /\ ~gone /\ Finish(verdict)

(* A poll that takes an unreadable process for an exited one; one that     *)
(* asks for SIGKILL at the first poll; one that never times out.           *)
PollErrorExitsBug(verdict) ==
    IF verdict \in {"ok", "Protected"} THEN Enter("sleep") ELSE Finish("exited")
PollSkipsGraceBug(verdict) ==
    IF verdict = "ok" /\ sig = "TERM" /\ op.kill
    THEN Enter("confirm")
    ELSE Finish("StillRunning")
PollForeverBug(verdict) ==
    IF verdict = "ok"
    THEN Enter(IF waited < Grace THEN "sleep" ELSE "wait")
    ELSE Finish("exited")

(* What WaitForExit does: anything but the exact identity means exited.    *)
AfterPoll(verdict) ==
    LET running == verdict \in {"ok", "Protected"}
        force == sig = "TERM" /\ op.kill
    IN
    \/ verdict \in {"NotFound", "WrongOwner", "IdentityChanged"} /\ Finish("exited")
    \/ verdict = "Inspection" /\ Finish(verdict)
    \/ running /\ waited < Grace /\ Enter("sleep")
    \/ running /\ waited = Grace /\ force /\ Enter("confirm")
    \/ running /\ waited = Grace /\ ~force /\ Finish("StillRunning")

Answer(verdict) ==
    \/ pc = "preflight" /\ AfterPreflight(verdict)
    \/ pc = "validate" /\ AfterValidate(verdict)
    \/ pc = "wait" /\ AfterPoll(verdict)

(* find, first half: sysinfo refreshes the PID.  An entry for the same     *)
(* process keeps its program (UpdateKind::OnlyIfNotSet).                   *)
Refresh ==
    /\ pc \in {"preflight", "validate", "wait"} /\ ~seen
    /\ LET p == Target.pid IN
         IF procs[p].state = "alive"
         THEN /\ seen' = TRUE
              /\ cache' = IF cache[p].start = procs[p].start THEN cache
                          ELSE [cache EXCEPT ![p] = [start |-> procs[p].start,
                                                     image |-> procs[p].image]]
              /\ looked' = procs[p].image
              /\ UNCHANGED <<pc, todo, validated, outcome>>
         ELSE /\ UNCHANGED <<seen, cache, looked>>
              /\ Answer("NotFound")
    /\ UNCHANGED <<envVars, op, fd, sig, waited, consent, sent, plain>>

(* find, second half: the identity comes from /proc, read separately.  The *)
(* read itself may fail (the process exits while its file is open).        *)
Verdict(m) ==
    IF ~Present(m.pid) THEN "NotFound"
    ELSE IF procs[m.pid].uid # Me THEN "WrongOwner"
    ELSE IF IdentityOf(m.pid) # m THEN "IdentityChanged"
    ELSE IF IsProtected(cache[m.pid].image) THEN "Protected"
    ELSE "ok"

ReadIdentity ==
    /\ seen
    /\ seen' = FALSE
    /\ Answer(Verdict(Target)) \/ Answer("Inspection")
    /\ UNCHANGED <<envVars, op, cache, looked, fd, sig, waited, consent, sent, plain>>

-----------------------------------------------------------------------------
(* send_signal: pidfd_open, identity check, pidfd_send_signal              *)

OpenPidfd ==
    /\ pc = "open"
    /\ IF Present(Target.pid)
       THEN fd' = procs[Target.pid].start /\ Enter("recheck")
       ELSE Finish("Termination") /\ UNCHANGED fd
    /\ UNCHANGED <<envVars, op, seen, cache, looked, sig, waited, consent, sent, plain>>

(* A recheck that only asks whether the PID is still taken.                *)
PidHoldsBug(m) == Present(m.pid)

(* The identity is read by PID while the pidfd is already open.            *)
IdentityHolds(m) == Present(m.pid) /\ IdentityOf(m.pid) = m

Recheck ==
    /\ pc = "recheck"
    /\ \/ IdentityHolds(Target) /\ Enter("send")
       \/ Finish("Termination")
    /\ UNCHANGED <<envVars, op, seen, cache, looked, fd, sig, waited, consent, sent, plain>>

(* The kernel takes the signal for the instance the pidfd was opened on    *)
(* and for no other: not once it was reaped, not if the owner changed.     *)
Accepted(p) == Present(p) /\ procs[p].start = fd /\ procs[p].uid = Me

(* A CLI that sends SIGTERM again while it waits.                          *)
TermAgainBug ==
    \/ op.kind = "stop" /\ Finish("ok")
    \/ op.kind = "cli" /\ Enter(IF sig = "TERM" THEN "validate" ELSE "wait")
    \/ op.kind \in Multi /\ NextMember(validated)

AfterSignal ==
    \/ op.kind = "stop" /\ Finish("ok")
    \/ op.kind = "cli" /\ Enter("wait")
    \/ op.kind \in Multi /\ NextMember(validated)

Send ==
    /\ pc = "send"
    /\ IF Accepted(Target.pid)
       THEN /\ sent' = Append(sent, [sig |-> sig, pid |-> Target.pid, start |-> fd])
            /\ waited' = 0
            /\ AfterSignal
       ELSE Finish("Termination") /\ UNCHANGED <<sent, waited>>
    /\ fd' = 0
    /\ UNCHANGED <<envVars, op, seen, cache, looked, sig, consent, plain>>

-----------------------------------------------------------------------------
(* WaitForExit's sleep and the CLI's SIGKILL prompt                        *)

(* A sleep lasts at least one poll interval; scheduling may stretch it.    *)
SleepUntil == (waited + 1)..Grace

Sleep ==
    /\ pc = "sleep"
    /\ waited' \in SleepUntil
    /\ pc' = "wait"
    /\ UNCHANGED <<envVars, op, seen, cache, looked, todo, validated, fd, sig, consent,
                   outcome, sent, plain>>

ForceNext == sig' = "KILL" /\ Enter("validate")

(* --yes skips the prompt.                                                 *)
SkipPrompt ==
    /\ pc = "confirm" /\ op.yes
    /\ ForceNext
    /\ UNCHANGED <<envVars, op, seen, cache, looked, fd, waited, consent, sent, plain>>

(* The user types the PID, or anything else (no terminal counts as that).  *)
Prompt ==
    /\ pc = "confirm" /\ ~op.yes
    /\ \/ consent' = TRUE /\ ForceNext
       \/ Finish("Declined") /\ UNCHANGED <<consent, sig>>
    /\ UNCHANGED <<envVars, op, seen, cache, looked, fd, waited, sent, plain>>

-----------------------------------------------------------------------------
Stopper == \/ Refresh \/ ReadIdentity
           \/ OpenPidfd \/ Recheck \/ Send
           \/ Sleep \/ SkipPrompt

Environment ==
    \/ \E p \in Pids :
         /\ \/ Exit(p) \/ Reap(p) \/ Spawn(p)
            \/ \E u \in Uids : SetUid(p, u)
         /\ UNCHANGED opVars
    \/ \E p \in Pids, i \in Images :
         /\ Exec(p, i)
         /\ plain' = plain \cup (IF IsProtected(i) THEN {}
                                 ELSE {<<p, procs[p].start>>})
         /\ UNCHANGED <<op, pc, seen, cache, looked, todo, validated, fd, sig, waited,
                        consent, outcome, sent>>

Next ==
    \/ \E kind \in Kinds, order \in Orders, kill, yes \in BOOLEAN :
         Begin(kind, order, kill, yes)
    \/ Stopper
    \/ Prompt
    \/ Environment

Spec == Init /\ [][Next]_vars

(* The stopping thread runs until it returns or waits for the user; the    *)
(* processes and the user owe nothing.                                     *)
FairSpec == Spec /\ WF_vars(Stopper)
-----------------------------------------------------------------------------
(* Properties                                                              *)

Signalled(m) == \E k \in DOMAIN sent : /\ sent[k].pid = m.pid
                                       /\ sent[k].start = m.start

(* A signal reaches only a process the request named, never one that took  *)
(* over its PID in the meantime: validate_process, and send_signal's check *)
(* between pidfd_open and pidfd_send_signal.                               *)
SignalsOnlyRequested ==
    \A k \in DOMAIN sent : <<sent[k].pid, sent[k].start>> \in {InstanceOf(m) : m \in Requested}

(* The preflight guards the whole request: once anything was signalled,    *)
(* every member that still runs is mine and was seen running an            *)
(* unprotected program; and a group was signalled only if every member     *)
(* passed (StopWorkload::execute and StopWorkloadGroup::execute).          *)
PreflightGuardsAll ==
    op.kind \in Multi /\ sent # <<>> =>
        \A m \in Requested :
            /\ Running(m) => m.uid = Me /\ InstanceOf(m) \in plain
            /\ op.kind = "group" => \E k \in DOMAIN validated : validated[k] = m

(* Leaf first, root last: a member is signalled only after every member    *)
(* before it in the order was signalled or has exited, so a failure part   *)
(* way down never leaves children of a stopped parent behind.              *)
LeafFirst ==
    \A k \in DOMAIN op.order : Signalled(op.order[k]) =>
        \A j \in 1..(k - 1) : Signalled(op.order[j]) \/ ~Running(op.order[j])

(* A stop that reports success left no requested process unsignalled, and  *)
(* one that reports "process exited" is right: the exact identity is gone  *)
(* (Ok of the use cases, StopOutcome::Exited, execute_stop's messages).    *)
OutcomeIsTrue ==
    /\ outcome = "ok" => \A m \in Requested : Signalled(m) \/ ~Running(m)
    /\ outcome = "exited" => \A m \in Requested :
           ~(Running(m) /\ procs[m.pid].uid = m.uid)

(* SIGKILL is the CLI's last resort: only after SIGTERM was accepted by    *)
(* the same process, the whole grace period passed, --kill was given and   *)
(* the user confirmed (execute_stop).                                      *)
KillIsLastResort ==
    [][\A k \in DOMAIN sent' \ DOMAIN sent :
          LET kill == sent'[k] IN kill.sig = "KILL" =>
            /\ op.kind = "cli" /\ op.kill
            /\ op.yes \/ consent
            /\ waited = Grace
            /\ \E j \in DOMAIN sent : sent[j] = [kill EXCEPT !.sig = "TERM"]]_vars

(* Every request returns, unless it waits for the user at the prompt: no   *)
(* outcome of a check loops, and WaitForExit's timeout ends its polling.   *)
RequestsReturn == [](pc # "idle" => <>(pc \in {"done", "confirm"}))

(* process_control.rs:107-110: "an exec into a protected program between   *)
(* the preflight and the signal is not terminated".  Stated without the    *)
(* race of the last system calls: the process ran the protected program    *)
(* already when its own second validation looked at it.                    *)
ExecIntoProtectedSurvives ==
    [][op.kind = "workload" =>
          \A k \in DOMAIN sent' \ DOMAIN sent : ~IsProtected(looked)]_vars

(* What the contract of a stop speaks of: who runs, and what was answered. *)
Living == {IdentityOf(p) : p \in {q \in Pids : procs[q].state = "alive"}}
Answered ==
    CASE pc \notin {"idle", "done"} -> "pending"
      [] pc = "idle" -> "none"
      [] pc = "done" /\ outcome = "ok" -> "stopped"
      [] pc = "done" /\ outcome = "exited" -> "exited"
      [] pc = "done" /\ outcome \in {"StillRunning", "Declined"} -> "running"
      [] OTHER -> "failed"

(* A request of any kind, one system call after the other while processes  *)
(* come and go, keeps the contract of a stop.                              *)
Contract == INSTANCE StopContract WITH
    living <- Living, asked <- op.order, signals <- sent, answer <- Answered
StopsAsPromised == Contract!Spec
=============================================================================
