------------------------ MODULE ProcessControlProofs ------------------------
(***************************************************************************)
(* For every process table, every set of requests and every interleaving:  *)
(* the use cases are type correct, a signal reaches only a process the     *)
(* request named, the preflight guards the whole request, leaves are       *)
(* signalled first, outcomes are true, SIGKILL is the last resort, and the *)
(* contract of a stop (StopContract) is kept step by step.                 *)
(*                                                                         *)
(* The argument for the first two.  The start time of a PID's holder never *)
(* decreases, and when a request is made its identities are the holders of *)
(* their PIDs.                                                             *)
(* So from then on start(pid) >= m.start.  The pidfd was opened on some    *)
(* holder, hence m.start <= fd <= start(pid) from then on; and the recheck *)
(* finds start(pid) = m.start while the pidfd is open, which squeezes fd   *)
(* to m.start.  A check before pidfd_open could not conclude that.         *)
(*                                                                         *)
(* The others rest on what the loops have left behind (StopInv).  A loop   *)
(* holds the rest of the sequence it started with, so the members before   *)
(* that rest are the ones it has judged: they passed, were signalled or    *)
(* have exited, and what has exited stays gone.  `find` reads the program  *)
(* and the identity at two moments; the cached start time lies between the *)
(* requested one and the holder's, so an identity that matches says the    *)
(* cached program is that instance's own.                                  *)
(***************************************************************************)
EXTENDS ProcessControl, ProcessesProofs

(* What the signalling loop relies on beyond the types.                    *)
Bookkeeping ==
    /\ \A k \in DOMAIN todo : todo[k] \in Requested
    /\ \A k \in DOMAIN validated : validated[k] \in Requested
    /\ pc \notin {"idle", "done"} => todo # <<>>
    /\ seen => pc \in {"preflight", "validate", "wait"}

NotBefore == \A m \in Requested : m.start <= procs[m.pid].start

Squeeze ==
    /\ pc \in {"recheck", "send"} =>
          Target.start <= fd /\ fd <= procs[Target.pid].start
    /\ pc = "send" => fd = Target.start

IInv == TypeOK /\ Bookkeeping /\ NotBefore /\ Squeeze /\ SignalsOnlyRequested

-----------------------------------------------------------------------------
(* The head of a non-empty sequence is one of its members, and so is every *)
(* member of its tail.                                                     *)
LEMMA HeadAndTail ==
    ASSUME NEW S, NEW s \in Seq(S), s # <<>>
    PROVE  /\ Head(s) \in S
           /\ Head(s) = s[1] /\ 1 \in DOMAIN s
           /\ Tail(s) \in Seq(S)
           /\ \A k \in DOMAIN Tail(s) : k + 1 \in DOMAIN s /\ Tail(s)[k] = s[k + 1]
    OBVIOUS

(* Appending one more member.                                              *)
LEMMA AppendMembers ==
    ASSUME NEW S, NEW s \in Seq(S), NEW x \in S
    PROVE  /\ Append(s, x) \in Seq(S)
           /\ \A k \in DOMAIN Append(s, x) :
                Append(s, x)[k] = x \/ (k \in DOMAIN s /\ Append(s, x)[k] = s[k])
    OBVIOUS

(* What every way of going on leaves in place, for an unchanged request.   *)
Onward ==
    /\ pc' \in Phases \ {"idle", "recheck", "send"}
    /\ outcome' \in Outcomes
    /\ todo' \in Seq(Identity) /\ validated' \in Seq(Identity)
    /\ \A k \in DOMAIN todo' : todo'[k] \in Requested
    /\ \A k \in DOMAIN validated' : validated'[k] \in Requested
    /\ pc' # "done" => todo' # <<>>

(* The loops only visit requested identities.                              *)
LEMMA NextMemberOnward ==
    ASSUME TypeOK, Bookkeeping, todo # <<>>,
           NEW valid \in Seq(Identity), \A k \in DOMAIN valid : valid[k] \in Requested,
           NextMember(valid)
    PROVE  Onward
<1>1. /\ Tail(todo) \in Seq(Identity)
      /\ \A k \in DOMAIN Tail(todo) : Tail(todo)[k] \in Requested
  BY HeadAndTail DEF TypeOK, Bookkeeping
<1>2. CASE Tail(todo) # <<>>
  BY <1>1, <1>2 DEF NextMember, Onward, TypeOK, Phases
<1>3. CASE Tail(todo) = <<>> /\ pc = "preflight" /\ valid # <<>>
  BY <1>1, <1>3 DEF NextMember, Onward, TypeOK, Phases
<1>4. CASE Tail(todo) = <<>> /\ (pc = "preflight" => valid = <<>>)
  <2>1. todo' = <<>> /\ pc' = "done" /\ outcome' = "ok" /\ validated' = valid
    BY <1>4 DEF NextMember
  <2>2. <<>> \in Seq(Identity) /\ \A k \in DOMAIN <<>> : <<>>[k] \in Requested
    OBVIOUS
  <2> QED BY <2>1, <2>2 DEF Onward, Phases, Outcomes
<1> QED BY <1>2, <1>3, <1>4

Verdicts == {"ok", "NotFound", "WrongOwner", "IdentityChanged", "Protected", "Inspection"}

(* Returning, and staying on the same identity.                            *)
LEMMA FinishOnward ==
    ASSUME TypeOK, Bookkeeping, NEW r \in Outcomes, Finish(r)
    PROVE  Onward
BY DEF Finish, Onward, TypeOK, Bookkeeping, Phases

LEMMA StayOnward ==
    ASSUME TypeOK, Bookkeeping, todo # <<>>, UNCHANGED <<todo, validated, outcome>>,
           pc' \in Phases \ {"idle", "done", "recheck", "send"}
    PROVE  Onward
BY DEF Onward, TypeOK, Bookkeeping, Phases

(* Every answer to a verdict of `find` goes on that way.                   *)
LEMMA AnswerOnward ==
    ASSUME TypeOK, Bookkeeping, NEW v \in Verdicts,
           pc \in {"preflight", "validate", "wait"}, Answer(v)
    PROVE  Onward
<1>0. todo # <<>> BY DEF Bookkeeping
<1>1. v \in Outcomes /\ {"exited", "StillRunning"} \subseteq Outcomes
  BY DEF Verdicts, Outcomes
<1>2. NextMember(validated) => Onward
  BY <1>0, NextMemberOnward DEF TypeOK, Bookkeeping
<1>3. NextMember(Append(validated, Target)) => Onward
  <2>1. Target \in Identity /\ Target \in Requested
    BY <1>0, HeadAndTail DEF Target, TypeOK, Bookkeeping
  <2>2. Append(validated, Target) \in Seq(Identity)
    BY <2>1, AppendMembers DEF TypeOK
  <2>3. \A k \in DOMAIN Append(validated, Target) : Append(validated, Target)[k] \in Requested
    BY <2>1, AppendMembers DEF TypeOK, Bookkeeping
  <2> QED BY <1>0, <2>2, <2>3, NextMemberOnward
<1>4. \A r \in Outcomes : Finish(r) => Onward
  BY FinishOnward
<1>5. UNCHANGED <<todo, validated, outcome>> /\ pc' \in {"open", "sleep", "confirm"} => Onward
  BY <1>0, StayOnward DEF Phases
<1>6. CASE pc = "preflight"
  <2>1. AfterPreflight(v) BY <1>6 DEF Answer
  <2> QED BY <2>1, <1>1, <1>2, <1>3, <1>4 DEF AfterPreflight
<1>7. CASE pc = "validate"
  <2>1. AfterValidate(v) BY <1>7 DEF Answer
  <2> QED BY <2>1, <1>1, <1>2, <1>4, <1>5 DEF AfterValidate, Enter
<1>8. CASE pc = "wait"
  <2>1. AfterPoll(v) BY <1>8 DEF Answer
  <2> QED BY <2>1, <1>1, <1>4, <1>5 DEF AfterPoll, Enter
<1> QED BY <1>6, <1>7, <1>8

-----------------------------------------------------------------------------
(* The invariant holds of every process table a behaviour may start in.    *)
LEMMA InitIInv == Init => IInv
<1> SUFFICES ASSUME Init PROVE IInv
  OBVIOUS
<1>1. EnvTypeOK
  BY DEF Init, EnvInit, EnvTypeOK, Process
<1>2. AnyImage \in Images
  BY ProcessAssumption DEF AnyImage
<1>3. TypeOK
  <2>1. op \in [kind : Kinds, order : Seq(Identity), kill : BOOLEAN, yes : BOOLEAN]
    BY DEF Init, Kinds
  <2>2. cache \in [Pids -> Entry]
    BY <1>2 DEF Init, FreshSource, Entry
  <2>3. /\ todo \in Seq(Identity) /\ validated \in Seq(Identity)
        /\ sent \in Seq([sig : {"TERM", "KILL"}, pid : Pids, start : Nat])
    BY DEF Init
  <2>4. waited \in 0..Grace
    BY ControlAssumption DEF Init
  <2>5. /\ pc \in Phases /\ outcome \in Outcomes /\ looked \in Images
        /\ seen \in BOOLEAN /\ consent \in BOOLEAN
        /\ fd \in Nat /\ sig \in {"TERM", "KILL"} /\ plain \subseteq Instance
    BY <1>2 DEF Init, Phases, Outcomes
  <2> QED BY <1>1, <2>1, <2>2, <2>3, <2>4, <2>5 DEF TypeOK
<1>4. Bookkeeping /\ NotBefore /\ Squeeze /\ SignalsOnlyRequested
  BY DEF Init, Bookkeeping, NotBefore, Squeeze, SignalsOnlyRequested, Requested
<1> QED BY <1>3, <1>4 DEF IInv

(* A step of the process table preserves the invariant.                    *)
LEMMA EnvironmentIInv ==
    ASSUME IInv, Environment
    PROVE  IInv'
<1>1. EnvStep
  BY DEF Environment, EnvStep
<1>2. EnvTypeOK' /\ \A p \in Pids : procs[p].start <= procs'[p].start
  BY <1>1, StartsGrow DEF IInv, TypeOK
<1>3. UNCHANGED <<op, pc, seen, cache, looked, todo, validated, fd, sig, waited,
                  consent, outcome, sent>>
  BY DEF Environment, opVars
<1>4. plain' \subseteq Instance
  BY DEF Environment, opVars, Exec, IInv, TypeOK, EnvTypeOK, Process, Instance
<1>5. TypeOK'
  BY <1>2, <1>3, <1>4 DEF IInv, TypeOK
<1>6. Bookkeeping' /\ SignalsOnlyRequested'
  BY <1>3 DEF IInv, Bookkeeping, SignalsOnlyRequested, Requested
<1>7. \A m \in Requested : m \in Identity
  BY DEF IInv, TypeOK, Requested
<1>8. \A m \in Identity : m.pid \in Pids /\ m.start \in Nat /\ procs[m.pid].start \in Nat
                          /\ procs'[m.pid].start \in Nat
  BY <1>2 DEF IInv, TypeOK, EnvTypeOK, Identity, Process
<1>9. NotBefore'
  BY <1>2, <1>3, <1>7, <1>8 DEF IInv, NotBefore, Requested
<1>10. Squeeze'
  <2> SUFFICES ASSUME pc \in {"recheck", "send"} PROVE Squeeze'
    BY <1>3 DEF Squeeze
  <2>1. Target \in Identity
    BY HeadAndTail DEF Target, IInv, TypeOK, Bookkeeping
  <2>2. Target' = Target
    BY <1>3 DEF Target
  <2>3. fd \in Nat BY DEF IInv, TypeOK
  <2> QED BY <1>2, <1>3, <1>8, <2>1, <2>2, <2>3 DEF IInv, Squeeze
<1> QED BY <1>5, <1>6, <1>9, <1>10 DEF IInv

-----------------------------------------------------------------------------
(* A new request names current holders of its PIDs.                        *)
LEMMA BeginIInv ==
    ASSUME IInv, NEW kind \in Kinds, NEW order \in Orders,
           NEW kill \in BOOLEAN, NEW yes \in BOOLEAN,
           Begin(kind, order, kill, yes)
    PROVE  IInv'
<1> DEFINE identities == [k \in DOMAIN order |-> IdentityOf(order[k])]
<1>1. order \in Seq(Pids) /\ order # <<>>
  BY ControlAssumption
<1>2. \A p \in Pids : procs[p] \in Process /\ IdentityOf(p) \in Identity
  BY DEF IInv, TypeOK, EnvTypeOK, Process, Identity, IdentityOf
<1>3. identities \in Seq(Identity) /\ identities # <<>>
  BY <1>1, <1>2
<1>4. /\ op' = [kind |-> kind, order |-> identities, kill |-> kill, yes |-> yes]
      /\ todo' = identities /\ validated' = <<>> /\ sent' = <<>>
      /\ pc' \in {"preflight", "validate"} /\ seen' = FALSE
      /\ UNCHANGED <<procs, births>>
  BY DEF Begin, envVars
<1>5. Requested' = {identities[k] : k \in DOMAIN identities}
  BY <1>4 DEF Requested
<1>6. TypeOK'
  <2>1. EnvTypeOK' BY <1>4 DEF IInv, TypeOK, EnvTypeOK
  <2>2. op' \in [kind : Kinds, order : Seq(Identity), kill : BOOLEAN, yes : BOOLEAN]
    BY <1>3, <1>4
  <2>3. AnyImage \in Images BY ProcessAssumption DEF AnyImage
  <2>4. Snapshot \in [Pids -> Entry] /\ FreshSource \in [Pids -> Entry]
    BY <1>2, <2>3 DEF Snapshot, FreshSource, Entry, Process
  <2>5. cache' \in [Pids -> Entry]
    BY <2>4 DEF Begin
  <2>6. Unprotected \subseteq Instance
    BY <1>2 DEF Unprotected, Instance, Process
  <2>7. waited' \in 0..Grace
    BY ControlAssumption DEF Begin
  <2>8. /\ validated' \in Seq(Identity)
        /\ sent' \in Seq([sig : {"TERM", "KILL"}, pid : Pids, start : Nat])
    BY <1>4
  <2>9. /\ pc' \in Phases /\ outcome' \in Outcomes /\ looked' \in Images
        /\ seen' \in BOOLEAN /\ consent' \in BOOLEAN
        /\ fd' \in Nat /\ sig' \in {"TERM", "KILL"} /\ plain' \subseteq Instance
    BY <1>4, <2>3, <2>6 DEF Begin, Phases, Outcomes
  <2> QED BY <1>3, <1>4, <2>1, <2>2, <2>5, <2>7, <2>8, <2>9 DEF TypeOK
<1>7. Bookkeeping'
  BY <1>3, <1>4, <1>5 DEF Bookkeeping
<1>8. NotBefore'
  <2> SUFFICES ASSUME NEW k \in DOMAIN order
               PROVE  IdentityOf(order[k]).start <= procs'[IdentityOf(order[k]).pid].start
    BY <1>3, <1>5 DEF NotBefore
  <2> QED BY <1>1, <1>2, <1>4 DEF IdentityOf, Process
<1>9. Squeeze' /\ SignalsOnlyRequested'
  BY <1>4 DEF Squeeze, SignalsOnlyRequested
<1> QED BY <1>6, <1>7, <1>8, <1>9 DEF IInv

(* Steps that go on without touching the request, the table or the signals *)
(* delivered preserve the invariant.                                       *)
LEMMA OnwardIInv ==
    ASSUME IInv, Onward, UNCHANGED <<envVars, op, sent, plain>>,
           cache' \in [Pids -> Entry], looked' \in Images,
           seen' \in BOOLEAN, consent' \in BOOLEAN, sig' \in {"TERM", "KILL"},
           fd' \in Nat, waited' \in 0..Grace,
           seen' => pc' \in {"preflight", "validate", "wait"}
    PROVE  IInv'
<1>1. Requested' = Requested
  BY DEF Requested
<1>2. TypeOK'
  BY DEF IInv, TypeOK, EnvTypeOK, envVars, Onward
<1>3. Bookkeeping'
  BY <1>1 DEF Onward, Bookkeeping
<1>4. NotBefore' /\ SignalsOnlyRequested'
  BY <1>1 DEF IInv, NotBefore, SignalsOnlyRequested, envVars
<1>5. Squeeze'
  BY DEF Squeeze, Onward
<1> QED BY <1>2, <1>3, <1>4, <1>5 DEF IInv

(* The requested identity the use case works on.                           *)
LEMMA TargetRequested ==
    ASSUME IInv, pc \notin {"idle", "done"}
    PROVE  Target \in Identity /\ Target \in Requested /\ todo # <<>>
BY HeadAndTail DEF Target, IInv, TypeOK, Bookkeeping

LEMMA RefreshIInv == ASSUME IInv, Refresh PROVE IInv'
<1>1. Target \in Identity /\ todo # <<>>
  BY TargetRequested DEF Refresh
<1>2. Target.pid \in Pids /\ procs[Target.pid] \in Process
  BY <1>1 DEF Identity, IInv, TypeOK, EnvTypeOK
<1>3. CASE procs[Target.pid].state = "alive"
  <2>1. Onward
    BY <1>1, <1>3, StayOnward DEF Refresh, IInv, TypeOK, Phases
  <2>2. cache' \in [Pids -> Entry] /\ looked' \in Images
    <3> DEFINE entry == [start |-> procs[Target.pid].start, image |-> procs[Target.pid].image]
    <3>1. entry \in Entry /\ procs[Target.pid].image \in Images
      BY <1>2 DEF Process, Entry
    <3>2. cache \in [Pids -> Entry]
      BY DEF IInv, TypeOK
    <3>3. cache' = cache \/ cache' = [cache EXCEPT ![Target.pid] = entry]
      BY <1>3 DEF Refresh
    <3>4. looked' = procs[Target.pid].image
      BY <1>3 DEF Refresh
    <3> HIDE DEF entry
    <3> QED BY <1>2, <3>1, <3>2, <3>3, <3>4
  <2>3. /\ UNCHANGED <<envVars, op, sent, plain, consent, sig, fd, waited, pc>>
        /\ seen' = TRUE /\ pc \in {"preflight", "validate", "wait"}
    BY <1>3 DEF Refresh
  <2> QED BY <2>1, <2>2, <2>3, OnwardIInv DEF IInv, TypeOK
<1>4. CASE procs[Target.pid].state # "alive"
  <2>1. Answer("NotFound") /\ pc \in {"preflight", "validate", "wait"}
    BY <1>4 DEF Refresh
  <2>2. Onward
    BY <2>1, AnswerOnward DEF IInv, Verdicts
  <2>3. /\ UNCHANGED <<envVars, op, sent, plain, consent, sig, fd, waited>>
        /\ UNCHANGED <<cache, looked, seen>> /\ seen = FALSE
    BY <1>4 DEF Refresh, IInv, TypeOK
  <2> QED BY <2>2, <2>3, OnwardIInv DEF IInv, TypeOK
<1> QED BY <1>3, <1>4

LEMMA ReadIdentityIInv == ASSUME IInv, ReadIdentity PROVE IInv'
<1>1. pc \in {"preflight", "validate", "wait"}
  BY DEF ReadIdentity, IInv, Bookkeeping
<1>2. Verdict(Target) \in Verdicts /\ "Inspection" \in Verdicts
  BY DEF Verdict, Verdicts
<1>3. Onward
  BY <1>1, <1>2, AnswerOnward DEF ReadIdentity, IInv
<1>4. /\ UNCHANGED <<envVars, op, sent, plain, consent, sig, fd, waited, cache, looked>>
      /\ seen' = FALSE
  BY DEF ReadIdentity
<1> QED BY <1>3, <1>4, OnwardIInv DEF IInv, TypeOK

(* The pidfd refers to a holder no older than the requested process.       *)
LEMMA OpenPidfdIInv == ASSUME IInv, OpenPidfd PROVE IInv'
<1>1. Target \in Identity /\ Target \in Requested /\ todo # <<>>
  BY TargetRequested DEF OpenPidfd
<1>2. Target.pid \in Pids /\ procs[Target.pid].start \in Nat
  BY <1>1 DEF Identity, IInv, TypeOK, EnvTypeOK, Process
<1>3. UNCHANGED <<envVars, op, sent, plain, consent, sig, waited, cache, looked, seen>>
      /\ seen = FALSE
  BY DEF OpenPidfd, IInv, TypeOK, Bookkeeping
<1>4. CASE Present(Target.pid)
  <2>1. fd' = procs[Target.pid].start /\ pc' = "recheck"
        /\ UNCHANGED <<todo, validated, outcome>>
    BY <1>4 DEF OpenPidfd, Enter
  <2>2. TypeOK'
    BY <1>2, <1>3, <2>1 DEF IInv, TypeOK, EnvTypeOK, envVars, Phases
  <2>3. Requested' = Requested /\ Target' = Target /\ procs' = procs
    BY <1>3, <2>1 DEF Requested, Target, envVars
  <2>4. Bookkeeping' /\ NotBefore' /\ SignalsOnlyRequested'
    BY <1>1, <1>3, <2>1, <2>3 DEF IInv, Bookkeeping, NotBefore, SignalsOnlyRequested
  <2>5. Squeeze'
    BY <1>1, <1>2, <2>1, <2>3 DEF Squeeze, IInv, NotBefore
  <2> QED BY <2>2, <2>4, <2>5 DEF IInv
<1>5. CASE ~Present(Target.pid)
  <2>1. Finish("Termination") /\ UNCHANGED fd
    BY <1>5 DEF OpenPidfd
  <2>2. Onward
    BY <2>1, FinishOnward DEF IInv, Outcomes
  <2> QED BY <1>3, <2>1, <2>2, OnwardIInv DEF IInv, TypeOK
<1> QED BY <1>4, <1>5

(* The recheck squeezes the pidfd's instance to the requested one.         *)
LEMMA RecheckIInv == ASSUME IInv, Recheck PROVE IInv'
<1>1. Target \in Identity /\ Target \in Requested /\ todo # <<>>
  BY TargetRequested DEF Recheck
<1>2. Target.pid \in Pids /\ procs[Target.pid].start \in Nat /\ Target.start \in Nat
  BY <1>1 DEF Identity, IInv, TypeOK, EnvTypeOK, Process
<1>3. UNCHANGED <<envVars, op, sent, plain, consent, sig, waited, cache, looked, seen, fd>>
      /\ seen = FALSE
  BY DEF Recheck, IInv, TypeOK, Bookkeeping
<1>4. CASE IdentityHolds(Target) /\ Enter("send")
  <2>1. pc' = "send" /\ UNCHANGED <<todo, validated, outcome>>
    BY <1>4 DEF Enter
  <2>2. TypeOK'
    BY <1>3, <2>1 DEF IInv, TypeOK, EnvTypeOK, envVars, Phases
  <2>3. Requested' = Requested /\ Target' = Target /\ procs' = procs /\ fd' = fd
    BY <1>3, <2>1 DEF Requested, Target, envVars
  <2>4. Bookkeeping' /\ NotBefore' /\ SignalsOnlyRequested'
    BY <1>1, <1>3, <2>1, <2>3 DEF IInv, Bookkeeping, NotBefore, SignalsOnlyRequested
  <2>5. procs[Target.pid].start = Target.start
    BY <1>4 DEF IdentityHolds, IdentityOf
  <2>6. Target.start <= fd /\ fd <= procs[Target.pid].start /\ fd \in Nat
    BY DEF Recheck, IInv, Squeeze, TypeOK
  <2>7. Squeeze'
    BY <1>2, <2>1, <2>3, <2>5, <2>6 DEF Squeeze
  <2> QED BY <2>2, <2>4, <2>7 DEF IInv
<1>5. CASE Finish("Termination")
  <2>1. Onward
    BY <1>5, FinishOnward DEF IInv, Outcomes
  <2> QED BY <1>3, <2>1, OnwardIInv DEF IInv, TypeOK
<1> QED BY <1>4, <1>5 DEF Recheck

LEMMA SendIInv == ASSUME IInv, Send PROVE IInv'
<1>1. Target \in Identity /\ Target \in Requested /\ todo # <<>>
  BY TargetRequested DEF Send
<1>2. Target.pid \in Pids /\ fd \in Nat /\ fd = Target.start
  BY <1>1 DEF Identity, Send, IInv, Squeeze, TypeOK
<1>3. UNCHANGED <<envVars, op, plain, consent, sig, cache, looked, seen>>
      /\ seen = FALSE /\ fd' = 0
  BY DEF Send, IInv, TypeOK, Bookkeeping
<1>4. Requested' = Requested
  BY <1>3 DEF Requested
<1>5. CASE Accepted(Target.pid)
  <2> DEFINE signal == [sig |-> sig, pid |-> Target.pid, start |-> fd]
             Signals == [sig : {"TERM", "KILL"}, pid : Pids, start : Nat]
  <2>1. sent' = Append(sent, signal) /\ waited' = 0 /\ AfterSignal
    BY <1>5 DEF Send
  <2>2. Onward
    <3>1. CASE op.kind = "stop" /\ Finish("ok")
      BY <3>1, FinishOnward DEF IInv, Outcomes
    <3>2. CASE op.kind = "cli" /\ Enter("wait")
      BY <1>1, <3>2, StayOnward DEF IInv, Enter, Phases
    <3>3. CASE op.kind \in Multi /\ NextMember(validated)
      BY <1>1, <3>3, NextMemberOnward DEF IInv, TypeOK, Bookkeeping
    <3> QED BY <2>1, <3>1, <3>2, <3>3 DEF AfterSignal
  <2>3. signal \in Signals /\ sent \in Seq(Signals)
    BY <1>2 DEF IInv, TypeOK
  <2>4. sent' \in Seq(Signals)
    BY <2>1, <2>3, AppendMembers
  <2>5. waited' \in 0..Grace
    BY <2>1, ControlAssumption
  <2>6. TypeOK'
    BY <1>3, <2>2, <2>4, <2>5 DEF IInv, TypeOK, EnvTypeOK, envVars, Onward
  <2>7. Bookkeeping' /\ Squeeze'
    BY <1>3, <1>4, <2>2 DEF Bookkeeping, Squeeze, Onward
  <2>8. NotBefore'
    BY <1>3, <1>4 DEF IInv, NotBefore, envVars
  <2>9. SignalsOnlyRequested'
    <3>1. \A k \in DOMAIN sent' : sent'[k] = signal \/ (k \in DOMAIN sent /\ sent'[k] = sent[k])
      BY <2>1, <2>3, AppendMembers
    <3>2. <<signal.pid, signal.start>> = InstanceOf(Target)
      BY <1>2 DEF InstanceOf
    <3> QED BY <1>1, <1>4, <3>1, <3>2 DEF IInv, SignalsOnlyRequested
  <2> QED BY <2>6, <2>7, <2>8, <2>9 DEF IInv
<1>6. CASE ~Accepted(Target.pid)
  <2>1. Finish("Termination") /\ UNCHANGED <<sent, waited>>
    BY <1>6 DEF Send
  <2>2. Onward
    BY <2>1, FinishOnward DEF IInv, Outcomes
  <2> QED BY <1>3, <2>1, <2>2, OnwardIInv DEF IInv, TypeOK
<1> QED BY <1>5, <1>6

LEMMA WaitingIInv == ASSUME IInv, Sleep \/ SkipPrompt \/ Prompt PROVE IInv'
<1>1. todo # <<>> /\ seen = FALSE
  BY TargetRequested DEF Sleep, SkipPrompt, Prompt, IInv, Bookkeeping, TypeOK
<1>2. CASE Sleep
  <2>1. Onward
    BY <1>1, <1>2, StayOnward DEF Sleep, IInv, Phases
  <2>2. waited' \in 0..Grace
    BY <1>2, ControlAssumption DEF Sleep, SleepUntil, IInv, TypeOK
  <2> QED BY <1>1, <1>2, <2>1, <2>2, OnwardIInv DEF Sleep, IInv, TypeOK
<1>3. CASE SkipPrompt \/ (Prompt /\ ForceNext)
  <2>1. Onward
    BY <1>1, <1>3, StayOnward DEF SkipPrompt, ForceNext, Enter, IInv, Phases
  <2>2. /\ UNCHANGED <<envVars, op, sent, plain, cache, looked, seen, fd, waited>>
        /\ consent' \in BOOLEAN /\ sig' = "KILL"
    BY <1>3 DEF SkipPrompt, Prompt, ForceNext, IInv, TypeOK
  <2> QED BY <1>1, <2>1, <2>2, OnwardIInv DEF IInv, TypeOK
<1>4. CASE Prompt /\ Finish("Declined") /\ UNCHANGED <<consent, sig>>
  <2>1. Onward
    BY <1>4, FinishOnward DEF IInv, Outcomes
  <2>2. UNCHANGED <<envVars, op, sent, plain, cache, looked, seen, fd, waited>>
    BY <1>4 DEF Prompt
  <2> QED BY <1>1, <1>4, <2>1, <2>2, OnwardIInv DEF IInv, TypeOK
<1> QED BY <1>2, <1>3, <1>4 DEF Prompt

LEMMA StepIInv == IInv /\ [Next]_vars => IInv'
<1> SUFFICES ASSUME IInv, [Next]_vars PROVE IInv'
  OBVIOUS
<1>1. CASE \E kind \in Kinds, order \in Orders, kill, yes \in BOOLEAN :
             Begin(kind, order, kill, yes)
  BY <1>1, BeginIInv
<1>2. CASE Stopper
  BY <1>2, RefreshIInv, ReadIdentityIInv, OpenPidfdIInv, RecheckIInv, SendIInv,
     WaitingIInv DEF Stopper
<1>3. CASE Prompt
  BY <1>3, WaitingIInv
<1>4. CASE Environment
  BY <1>4, EnvironmentIInv
<1>5. CASE UNCHANGED vars
  BY <1>5 DEF vars, envVars, opVars, IInv, TypeOK, EnvTypeOK, Bookkeeping, NotBefore,
     Squeeze, SignalsOnlyRequested, Requested, Target
<1> QED BY <1>1, <1>2, <1>3, <1>4, <1>5 DEF Next

-----------------------------------------------------------------------------
(* The types hold throughout: every identity the loops visit is one, every *)
(* wait stays within the grace period.                                     *)
THEOREM TypeCorrect == Spec => []TypeOK
<1>1. IInv => TypeOK BY DEF IInv
<1> QED BY InitIInv, StepIInv, <1>1, PTL DEF Spec

(* No signal ever reaches a process the request did not name, however PIDs *)
(* are reused between observation, validation and signal.                  *)
THEOREM SignalsSafe == Spec => []SignalsOnlyRequested
<1>1. IInv => SignalsOnlyRequested BY DEF IInv
<1> QED BY InitIInv, StepIInv, <1>1, PTL DEF Spec

-----------------------------------------------------------------------------
(* The loops: what the preflight establishes, what the signalling loop has *)
(* done so far, and what `find` may conclude from a cached program.        *)

(* HasPassed: the preflight accepted the member.  Gone: a workload's member *)
(* that has exited, which its loops skip.                                  *)
HasPassed(m) == \E n \in DOMAIN validated : validated[n] = m
Gone(m) == op.kind = "workload" /\ ~Running(m)

(* s is what is left of t.                                                 *)
Suffix(s, t) == Len(s) <= Len(t) /\ \A k \in DOMAIN s : s[k] = t[Len(t) - Len(s) + k]
Before(s, t) == Len(t) - Len(s)

(* The phases of the loop that signals, and those of WaitForExit and the   *)
(* prompt, which only the CLI reaches.                                     *)
Signalling == {"validate", "open", "recheck", "send"}
Waiting == {"wait", "sleep", "confirm"}

(* A request names each PID once, at a birth that has happened; `stop` and *)
(* the CLI name one process and never move on.                             *)
OrderInv ==
    /\ \A j, k \in DOMAIN op.order : op.order[j].pid = op.order[k].pid => j = k
    /\ op.kind \notin Multi => todo = op.order /\ Len(op.order) <= 1
    /\ \A m \in Requested : m.start < births /\ m.start > 0
    /\ \A p \in Pids : procs[p].start > 0

(* `validated` holds what the preflight saw, in the order of the request.  *)
PassedInv ==
    /\ \A n \in DOMAIN validated : validated[n].uid = Me /\ InstanceOf(validated[n]) \in plain
    /\ \A i, n \in DOMAIN validated, j, k \in DOMAIN op.order :
          i < n /\ op.order[j] = validated[i] /\ op.order[k] = validated[n] => j < k

(* Every member the preflight loop has left behind passed or is gone.      *)
PreflightInv ==
    pc = "preflight" =>
        /\ op.kind \in Multi /\ sent = <<>>
        /\ Suffix(todo, op.order)
        /\ \A n \in DOMAIN validated, k \in DOMAIN op.order :
              validated[n] = op.order[k] => k <= Before(todo, op.order)
        /\ \A k \in 1..Before(todo, op.order) : HasPassed(op.order[k]) \/ Gone(op.order[k])

(* Once the signalling loop runs, every member passed or is gone, those    *)
(* left behind were signalled or have exited, and no other was signalled.  *)
SignallingInv ==
    op.kind \in Multi /\ (pc \in Signalling \/ sent # <<>>) =>
        /\ Suffix(todo, validated)
        /\ \A m \in Requested : HasPassed(m) \/ Gone(m)
        /\ \A n \in 1..Before(todo, validated) :
              Signalled(validated[n]) \/ ~Running(validated[n])
        /\ \A n \in DOMAIN validated : Signalled(validated[n]) => n <= Before(todo, validated)
        /\ \A m \in Requested : Signalled(m) => HasPassed(m)

(* What the outcomes say; `exited` also needs the process to be mine, or a *)
(* process of another user that is still there would refute it.            *)
OutcomeInv ==
    /\ outcome = "ok" => \A m \in Requested : Signalled(m) \/ ~Running(m)
    /\ outcome = "exited" => \A m \in Requested :
           m.uid = Me /\ ~(Running(m) /\ procs[m.pid].uid = m.uid)

MembersInv == OrderInv /\ PassedInv /\ PreflightInv /\ SignallingInv /\ OutcomeInv

(* An instance whose program is visible, in the table or in the source's   *)
(* cache, and unprotected has been seen so; while `find` is between its two *)
(* reads the cached entry is no older than the request and no newer than   *)
(* the PID's holder.                                                       *)
CacheInv ==
    /\ \A m \in Requested :
         /\ Present(m.pid) /\ procs[m.pid].start = m.start /\ ~IsProtected(procs[m.pid].image)
              => InstanceOf(m) \in plain
         /\ cache[m.pid].start = m.start /\ ~IsProtected(cache[m.pid].image)
              => InstanceOf(m) \in plain
    /\ seen => /\ Target.start <= cache[Target.pid].start
               /\ cache[Target.pid].start <= procs[Target.pid].start

Terminated(m) ==
    \E j \in DOMAIN sent : sent[j] = [sig |-> "TERM", pid |-> m.pid, start |-> m.start]

(* What the CLI's two halves have established of their process.            *)
TargetInv ==
    /\ pc \in {"open", "recheck", "send"} => Target.uid = Me
    /\ pc \in Waiting \/ sig = "KILL" =>
          op.kind = "cli" /\ Target.uid = Me /\ Terminated(Target)
    /\ pc = "confirm" => op.kill /\ waited = Grace /\ sig = "TERM"
    /\ sig = "KILL" /\ pc \in Signalling => op.kill /\ (op.yes \/ consent) /\ waited = Grace

(* Stronger than the safety properties, and preserved on top of IInv.      *)
StopInv == MembersInv /\ CacheInv /\ TargetInv

-----------------------------------------------------------------------------

(* A loop over t that has s left visits the next member.                   *)
LEMMA TailSuffix ==
    ASSUME NEW S, NEW s \in Seq(S), NEW t \in Seq(S), s # <<>>, Suffix(s, t)
    PROVE  /\ Suffix(Tail(s), t)
           /\ Before(Tail(s), t) = Before(s, t) + 1
           /\ Before(s, t) + 1 \in DOMAIN t
           /\ Head(s) = t[Before(s, t) + 1]
<1>1. /\ Len(s) \in Nat /\ Len(s) >= 1 /\ Len(t) \in Nat /\ Len(s) <= Len(t)
      /\ DOMAIN s = 1..Len(s) /\ DOMAIN t = 1..Len(t)
  BY DEF Suffix
<1>2. Len(Tail(s)) = Len(s) - 1 /\ Tail(s) \in Seq(S)
  OBVIOUS
<1>3. DOMAIN Tail(s) = 1..(Len(s) - 1) /\ \A k \in 1..(Len(s) - 1) : Tail(s)[k] = s[k + 1]
  OBVIOUS
<1>4. \A k \in 1..Len(s) : s[k] = t[Len(t) - Len(s) + k]
  BY <1>1 DEF Suffix
<1>5. Suffix(Tail(s), t)
  <2> SUFFICES ASSUME NEW k \in 1..(Len(s) - 1)
               PROVE  Tail(s)[k] = t[Len(t) - (Len(s) - 1) + k]
    BY <1>1, <1>2, <1>3 DEF Suffix
  <2>1. k + 1 \in 1..Len(s) BY <1>1
  <2>2. Len(t) - Len(s) + (k + 1) = Len(t) - (Len(s) - 1) + k BY <1>1
  <2> QED BY <1>3, <1>4, <2>1, <2>2
<1>6. Before(Tail(s), t) = Before(s, t) + 1 /\ Before(s, t) + 1 \in DOMAIN t
  BY <1>1, <1>2 DEF Before
<1>7. Head(s) = s[1] OBVIOUS
<1> QED BY <1>1, <1>4, <1>5, <1>6, <1>7 DEF Before

(* It starts with all of t left.                                           *)
LEMMA WholeSuffix ==
    ASSUME NEW S, NEW s \in Seq(S)
    PROVE  Suffix(s, s) /\ Before(s, s) = 0
<1>1. Len(s) \in Nat /\ DOMAIN s = 1..Len(s) OBVIOUS
<1>2. \A k \in 1..Len(s) : Len(s) - Len(s) + k = k BY <1>1
<1>3. Suffix(s, s) BY <1>1, <1>2 DEF Suffix
<1>4. Before(s, s) = 0 BY <1>1 DEF Before
<1> QED BY <1>3, <1>4

(* With nothing left it has visited all of t.                              *)
LEMMA NoneLeft ==
    ASSUME NEW S, NEW t \in Seq(S)
    PROVE  Suffix(<<>>, t) /\ Before(<<>>, t) = Len(t)
BY DEF Suffix, Before

(* It has visited between none and all of t.                               *)
LEMMA SuffixBefore ==
    ASSUME NEW S, NEW s \in Seq(S), NEW t \in Seq(S), Suffix(s, t)
    PROVE  Before(s, t) \in 0..Len(t)
<1>1. Len(s) \in Nat /\ Len(t) \in Nat OBVIOUS
<1> QED BY <1>1 DEF Suffix, Before

(* The members of a request have different PIDs.                           *)
LEMMA OneHolder ==
    ASSUME IInv, OrderInv, NEW m \in Requested, NEW n \in Requested, m.pid = n.pid
    PROVE  m = n
BY DEF OrderInv, Requested

(* A requested identity and the process that holds its PID.                *)
LEMMA RequestedTypes ==
    ASSUME IInv, NEW m \in Requested
    PROVE  m \in Identity /\ m.pid \in Pids /\ m.start \in Nat /\ procs[m.pid] \in Process
<1>1. m \in Identity BY DEF IInv, TypeOK, Requested
<1>2. m.pid \in Pids /\ m.start \in Nat BY <1>1 DEF Identity
<1> QED BY <1>1, <1>2 DEF IInv, TypeOK, EnvTypeOK

(* A member is validated once.                                             *)
LEMMA ValidatedOnce ==
    ASSUME IInv, PassedInv, NEW i \in DOMAIN validated, NEW n \in DOMAIN validated,
           validated[i] = validated[n]
    PROVE  i = n
<1>1. i \in Int /\ n \in Int BY DEF IInv, TypeOK
<1>2. PICK j \in DOMAIN op.order : op.order[j] = validated[i]
  BY DEF IInv, Bookkeeping, Requested
<1>3. j \in Int BY DEF IInv, TypeOK
<1>4. ~(i < n) /\ ~(n < i) BY <1>2, <1>3 DEF PassedInv
<1> QED BY <1>1, <1>4

(* The signal that was just accepted is the first one for its process.     *)
SentTo(m) == \E g \in {"TERM", "KILL"} :
                sent' = Append(sent, [sig |-> g, pid |-> m.pid, start |-> m.start])

SignalledNow(m) == \E k \in DOMAIN sent' : /\ sent'[k].pid = m.pid
                                           /\ sent'[k].start = m.start

LEMMA OneMoreSignalled ==
    ASSUME IInv, OrderInv, NEW t \in Requested, SentTo(t), UNCHANGED op
    PROVE  /\ Requested' = Requested
           /\ sent' # <<>>
           /\ SignalledNow(t)
           /\ \A m \in Requested : Signalled(m) => SignalledNow(m)
           /\ \A m \in Requested : SignalledNow(m) => Signalled(m) \/ m = t
<1> DEFINE Signals == [sig : {"TERM", "KILL"}, pid : Pids, start : Nat]
<1>1. PICK g \in {"TERM", "KILL"} :
         sent' = Append(sent, [sig |-> g, pid |-> t.pid, start |-> t.start])
  BY DEF SentTo
<1> DEFINE signal == [sig |-> g, pid |-> t.pid, start |-> t.start]
<1>2. signal \in Signals /\ sent \in Seq(Signals)
  BY RequestedTypes DEF IInv, TypeOK
<1>3. /\ \A k \in DOMAIN sent' : sent'[k] = signal \/ (k \in DOMAIN sent /\ sent'[k] = sent[k])
      /\ \A k \in DOMAIN sent : k \in DOMAIN sent' /\ sent'[k] = sent[k]
      /\ \E k \in DOMAIN sent' : sent'[k] = signal
      /\ sent' # <<>>
  <2> HIDE DEF signal, Signals
  <2>1. sent' = Append(sent, signal) BY <1>1 DEF signal
  <2>2. Len(sent) + 1 \in DOMAIN sent' /\ sent'[Len(sent) + 1] = signal BY <1>2, <2>1
  <2> QED BY <1>2, <2>1, <2>2
<1>4. signal.pid = t.pid /\ signal.start = t.start
  OBVIOUS
<1>5. Requested' = Requested BY DEF Requested
<1>6. SignalledNow(t) BY <1>3, <1>4 DEF Signalled, SignalledNow
<1>7. \A m \in Requested : Signalled(m) => SignalledNow(m) BY <1>3 DEF Signalled, SignalledNow
<1>8. \A m \in Requested : SignalledNow(m) => Signalled(m) \/ m = t
  <2> HIDE DEF signal
  <2> QED BY <1>3, <1>4, OneHolder DEF Signalled, SignalledNow
<1> QED BY <1>3, <1>5, <1>6, <1>7, <1>8

-----------------------------------------------------------------------------
(* What a step that leaves the loops where they are preserves.             *)
LEMMA StayMembers ==
    ASSUME IInv, MembersInv, UNCHANGED <<envVars, op, plain, todo, validated, sent>>,
           pc' = "preflight" => pc = "preflight",
           pc' \in Signalling => pc \in Signalling \/ op.kind \notin Multi,
           OutcomeInv'
    PROVE  MembersInv'
<1>1. UNCHANGED <<procs, births>> /\ Requested' = Requested
  BY DEF envVars, Requested
<1>2. /\ \A m : Running(m)' = Running(m) /\ Gone(m)' = Gone(m)
      /\ \A m : HasPassed(m)' = HasPassed(m) /\ Signalled(m)' = Signalled(m)
  BY <1>1 DEF Running, Gone, HasPassed, Signalled
<1>3. OrderInv' BY <1>1 DEF MembersInv, OrderInv
<1>4. PassedInv' BY <1>1 DEF MembersInv, PassedInv
<1>5. PreflightInv' BY <1>2 DEF MembersInv, PreflightInv
<1>6. SignallingInv' BY <1>1, <1>2 DEF MembersInv, SignallingInv
<1> QED BY <1>3, <1>4, <1>5, <1>6 DEF MembersInv

(* The preflight loop goes on: the target passed, or it is gone.           *)
LEMMA PreflightMembers ==
    ASSUME IInv, MembersInv, pc = "preflight", UNCHANGED <<envVars, op, plain, sent>>,
           NEW valid, NextMember(valid),
           \/ valid = Append(validated, Target) /\ Target.uid = Me /\ InstanceOf(Target) \in plain
           \/ valid = validated /\ Gone(Target)
    PROVE  MembersInv'
<1> DEFINE passed == valid = Append(validated, Target)
           b == Before(todo, op.order)
<1>0. /\ todo # <<>> /\ Target \in Requested /\ Target \in Identity
      /\ op.order \in Seq(Identity) /\ todo \in Seq(Identity) /\ validated \in Seq(Identity)
  BY TargetRequested DEF IInv, TypeOK
<1>1. op.kind \in Multi /\ sent = <<>> /\ Suffix(todo, op.order)
  BY DEF MembersInv, PreflightInv
<1>2. /\ Suffix(Tail(todo), op.order) /\ Before(Tail(todo), op.order) = b + 1
      /\ b + 1 \in DOMAIN op.order /\ Target = op.order[b + 1]
  BY <1>0, <1>1, TailSuffix DEF Target
<1>3. b \in Nat /\ DOMAIN op.order \subseteq Nat
  BY <1>0, <1>1, SuffixBefore
<1>4. UNCHANGED <<procs, births>> /\ Requested' = Requested /\ validated' = valid
  BY DEF envVars, Requested, NextMember
<1>5. valid \in Seq(Identity)
  BY <1>0
<1>6. /\ \A n \in DOMAIN valid :
           /\ n \in Nat
           /\ \/ n \in DOMAIN validated /\ valid[n] = validated[n]
              \/ /\ passed /\ valid[n] = Target
                 /\ \A i \in DOMAIN validated : i < n
      /\ \A n \in DOMAIN validated : n \in DOMAIN valid /\ valid[n] = validated[n]
      /\ passed => \E n \in DOMAIN valid : valid[n] = Target
  <2>1. CASE passed
    <3> HIDE DEF b
    <3>1. /\ DOMAIN valid = 1..(Len(validated) + 1) /\ DOMAIN validated = 1..Len(validated)
          /\ Len(validated) \in Nat
      BY <1>0, <2>1
    <3>2. valid[Len(validated) + 1] = Target
      BY <1>0, <2>1
    <3>3. \A n \in DOMAIN validated : valid[n] = validated[n]
      BY <1>0, <2>1
    <3>4. Len(validated) + 1 \in DOMAIN valid BY <3>1
    <3>5. \A n \in DOMAIN validated : n \in DOMAIN valid BY <3>1
    <3>6. ASSUME NEW n \in DOMAIN valid
          PROVE  n \in Nat /\ (n \in DOMAIN validated \/ n = Len(validated) + 1)
      BY <3>1
    <3>7. \A i \in DOMAIN validated : i < Len(validated) + 1 BY <3>1
    <3> QED BY <2>1, <3>2, <3>3, <3>4, <3>5, <3>6, <3>7
  <2>2. CASE valid = validated /\ ~passed
    <3>1. \A n \in DOMAIN validated : n \in Nat BY <1>0
    <3> HIDE DEF passed
    <3> QED BY <2>2, <3>1
  <2>3. passed \/ valid = validated OBVIOUS
  <2> QED BY <2>1, <2>2, <2>3
<1>7. \A m \in Requested : HasPassed(m) \/ (passed /\ m = Target) => HasPassed(m)'
  BY <1>4, <1>6 DEF HasPassed
<1>8. \A m : Running(m)' = Running(m) /\ Gone(m)' = Gone(m) /\ Signalled(m)' = Signalled(m)
  BY <1>4 DEF Running, Gone, Signalled
<1>9. \A k \in 1..(b + 1) : HasPassed(op.order[k])' \/ Gone(op.order[k])'
  <2> TAKE k \in 1..(b + 1)
  <2>0. k \in DOMAIN op.order /\ op.order[k] \in Requested
    <3>1. DOMAIN op.order = 1..Len(op.order) BY <1>0
    <3> QED BY <1>2, <1>3, <3>1 DEF Requested
  <2>1. CASE k = b + 1
    BY <1>2, <1>7, <1>8, <2>0, <2>1
  <2>2. CASE k # b + 1
    <3>1. k \in 1..b BY <1>3, <2>2
    <3> QED BY <1>7, <1>8, <2>0, <3>1 DEF MembersInv, PreflightInv
  <2> QED BY <2>1, <2>2
<1>10. OrderInv'
  <2>1. \A m \in Requested' : m.start < births' /\ m.start > 0
    BY <1>4 DEF MembersInv, OrderInv
  <2> QED BY <1>1, <1>4, <2>1 DEF MembersInv, OrderInv
<1>11. \A n \in DOMAIN valid, k \in DOMAIN op.order : valid[n] = op.order[k] => k <= b + 1
  <2> SUFFICES ASSUME NEW n \in DOMAIN valid, NEW k \in DOMAIN op.order, valid[n] = op.order[k]
               PROVE  k <= b + 1
    OBVIOUS
  <2>1. CASE n \in DOMAIN validated /\ valid[n] = validated[n]
    <3>1. k <= b BY <2>1 DEF MembersInv, PreflightInv
    <3> QED BY <1>3, <3>1
  <2>2. CASE valid[n] = Target
    <3>1. k = b + 1 BY <1>2, <2>2 DEF MembersInv, OrderInv
    <3> QED BY <1>3, <3>1
  <2> QED BY <1>6, <2>1, <2>2
<1>12. PassedInv'
  <2>1. \A n \in DOMAIN valid : valid[n].uid = Me /\ InstanceOf(valid[n]) \in plain
    BY <1>6 DEF MembersInv, PassedInv
  <2>2. ASSUME NEW i \in DOMAIN valid, NEW n \in DOMAIN valid,
               NEW j \in DOMAIN op.order, NEW k \in DOMAIN op.order,
               i < n, op.order[j] = valid[i], op.order[k] = valid[n]
        PROVE  j < k
    <3>1. CASE n \in DOMAIN validated /\ valid[n] = validated[n]
      <4>1. i \in DOMAIN validated
        <5>1. DOMAIN validated = 1..Len(validated) /\ Len(validated) \in Nat BY <1>0
        <5> QED BY <1>6, <2>2, <3>1, <5>1
      <4> QED BY <1>6, <2>2, <3>1, <4>1 DEF MembersInv, PassedInv
    <3>2. CASE passed /\ valid[n] = Target /\ \A h \in DOMAIN validated : h < n
      <4>1. k = b + 1 BY <1>2, <2>2, <3>2 DEF MembersInv, OrderInv
      <4>2. i \in DOMAIN validated /\ valid[i] = validated[i]
        <5>1. DOMAIN validated = 1..Len(validated) /\ DOMAIN valid = 1..(Len(validated) + 1)
              /\ Len(validated) \in Nat
          BY <1>0, <3>2
        <5> QED BY <1>6, <2>2, <5>1
      <4>3. j <= b BY <2>2, <4>2 DEF MembersInv, PreflightInv
      <4> QED BY <1>3, <4>1, <4>3
    <3> QED BY <1>6, <3>1, <3>2
  <2> QED BY <1>4, <2>1, <2>2 DEF PassedInv
<1>13. CASE Tail(todo) # <<>>
  <2>1. todo' = Tail(todo) /\ pc' = "preflight" /\ outcome' = outcome
    BY <1>13 DEF NextMember
  <2>2. PreflightInv'
    BY <1>1, <1>2, <1>4, <1>9, <1>11, <2>1 DEF PreflightInv
  <2>3. SignallingInv' BY <1>1, <2>1 DEF SignallingInv, Signalling
  <2>4. OutcomeInv' BY <1>4, <1>8, <2>1 DEF MembersInv, OutcomeInv
  <2> QED BY <1>10, <1>12, <2>2, <2>3, <2>4 DEF MembersInv
<1>14. CASE Tail(todo) = <<>>
  <2>1. b + 1 = Len(op.order)
    BY <1>0, <1>2, <1>14, NoneLeft
  <2>2. \A m \in Requested : HasPassed(m)' \/ Gone(m)'
    <3>1. DOMAIN op.order = 1..Len(op.order) BY <1>0
    <3> QED BY <1>9, <2>1, <3>1 DEF Requested
  <2>3. CASE valid # <<>>
    <3>1. todo' = valid /\ pc' = "validate" /\ outcome' = outcome
      BY <1>14, <2>3 DEF NextMember
    <3>2. Suffix(todo', validated') /\ Before(todo', validated') = 0
      BY <1>4, <1>5, <3>1, WholeSuffix
    <3>3. \A m : ~Signalled(m)'
      BY <1>1 DEF Signalled
    <3>4. SignallingInv' BY <1>4, <2>2, <3>2, <3>3 DEF SignallingInv
    <3>5. OutcomeInv' BY <1>4, <1>8, <3>1 DEF MembersInv, OutcomeInv
    <3>6. PreflightInv' BY <3>1 DEF PreflightInv
    <3> QED BY <1>10, <1>12, <3>4, <3>5, <3>6 DEF MembersInv
  <2>4. CASE valid = <<>>
    <3>1. pc' = "done" /\ outcome' = "ok"
      BY <1>14, <2>4 DEF NextMember
    <3>2. \A m : ~HasPassed(m)' BY <1>4, <2>4 DEF HasPassed
    <3>3. OutcomeInv' BY <1>4, <1>8, <2>2, <3>1, <3>2 DEF OutcomeInv, Gone
    <3>4. PreflightInv' /\ SignallingInv'
      BY <1>1, <3>1 DEF PreflightInv, SignallingInv, Signalling
    <3> QED BY <1>10, <1>12, <3>3, <3>4 DEF MembersInv
  <2> QED BY <2>3, <2>4
<1> QED BY <1>13, <1>14

(* The signalling loop goes on: the target was signalled, or it is gone.   *)
LEMMA SignallingMembers ==
    ASSUME IInv, MembersInv, pc \in Signalling, op.kind \in Multi,
           UNCHANGED <<envVars, op, plain>>, NextMember(validated),
           (sent' = sent /\ ~Running(Target)) \/ SentTo(Target)
    PROVE  MembersInv'
<1> DEFINE b == Before(todo, validated)
<1>0. /\ todo # <<>> /\ Target \in Requested
      /\ op.order \in Seq(Identity) /\ todo \in Seq(Identity) /\ validated \in Seq(Identity)
  BY TargetRequested DEF IInv, TypeOK, Signalling
<1>1. Suffix(todo, validated) /\ \A m \in Requested : HasPassed(m) \/ Gone(m)
  BY DEF MembersInv, SignallingInv
<1>2. /\ Suffix(Tail(todo), validated) /\ Before(Tail(todo), validated) = b + 1
      /\ b + 1 \in DOMAIN validated /\ Target = validated[b + 1]
  BY <1>0, <1>1, TailSuffix DEF Target
<1>3. b \in Nat /\ DOMAIN validated = 1..Len(validated) /\ Len(validated) \in Nat
  BY <1>0, <1>1, SuffixBefore
<1>4. UNCHANGED <<procs, births, validated>> /\ Requested' = Requested
  BY DEF envVars, Requested, NextMember
<1>5. \A m : Running(m)' = Running(m) /\ Gone(m)' = Gone(m) /\ HasPassed(m)' = HasPassed(m)
  BY <1>4 DEF Running, Gone, HasPassed
<1>6. /\ \A m \in Requested : Signalled(m) => SignalledNow(m)
      /\ \A m \in Requested : SignalledNow(m) => Signalled(m) \/ (m = Target /\ SignalledNow(m))
      /\ SignalledNow(Target) \/ ~Running(Target)
  <2>1. CASE sent' = sent /\ ~Running(Target)
    BY <2>1 DEF Signalled, SignalledNow
  <2>2. CASE SentTo(Target)
    BY <1>0, <2>2, OneMoreSignalled DEF MembersInv
  <2> QED BY <2>1, <2>2
<1>7. \A n \in 1..(b + 1) : SignalledNow(validated[n]) \/ ~Running(validated[n])
  <2> TAKE n \in 1..(b + 1)
  <2>1. CASE n = b + 1
    BY <1>2, <1>5, <1>6, <2>1
  <2>2. CASE n # b + 1
    <3>1. n \in 1..b /\ n \in DOMAIN validated BY <1>2, <1>3, <2>2
    <3>2. Signalled(validated[n]) \/ ~Running(validated[n])
      BY <3>1 DEF MembersInv, SignallingInv
    <3>3. validated[n] \in Requested BY <3>1 DEF IInv, Bookkeeping
    <3> QED BY <1>5, <1>6, <3>2, <3>3
  <2> QED BY <2>1, <2>2
<1>8. \A n \in DOMAIN validated : SignalledNow(validated[n]) => n <= b + 1
  <2> SUFFICES ASSUME NEW n \in DOMAIN validated, SignalledNow(validated[n]) PROVE n <= b + 1
    OBVIOUS
  <2>1. validated[n] \in Requested BY DEF IInv, Bookkeeping
  <2>2. CASE Signalled(validated[n])
    <3>1. n <= b BY <2>2 DEF MembersInv, SignallingInv
    <3> QED BY <1>3, <3>1
  <2>3. CASE validated[n] = Target
    <3>1. n = b + 1 BY <1>2, <2>3, ValidatedOnce DEF MembersInv
    <3> QED BY <1>3, <3>1
  <2> QED BY <1>6, <2>1, <2>2, <2>3
<1>9. \A m \in Requested : SignalledNow(m) => HasPassed(m)'
  <2>1. HasPassed(Target) BY <1>2 DEF HasPassed
  <2>2. \A m \in Requested : Signalled(m) => HasPassed(m)
    BY DEF MembersInv, SignallingInv
  <2> QED BY <1>5, <1>6, <2>1, <2>2
<1>a. \A m : Signalled(m)' <=> SignalledNow(m)
  BY DEF Signalled, SignalledNow
<1>10. OrderInv'
  BY <1>4 DEF MembersInv, OrderInv
<1>11. PassedInv'
  BY <1>4 DEF MembersInv, PassedInv
<1>12. PreflightInv'
  BY DEF PreflightInv, NextMember, Signalling
<1>13. SignallingInv'
  <2>1. Suffix(todo', validated') /\ Before(todo', validated') = b + 1
    <3>1. todo' = Tail(todo)
      BY DEF NextMember, Signalling
    <3> QED BY <1>2, <1>4, <3>1
  <2> QED BY <1>1, <1>4, <1>5, <1>7, <1>8, <1>9, <1>a, <2>1 DEF SignallingInv
<1>14. OutcomeInv'
  <2>1. CASE Tail(todo) # <<>>
    <3>1. outcome' = outcome BY <2>1 DEF NextMember, Signalling
    <3> QED BY <1>4, <1>5, <1>6, <1>a, <3>1 DEF MembersInv, OutcomeInv
  <2>2. CASE Tail(todo) = <<>>
    <3>1. outcome' = "ok" BY <2>2 DEF NextMember, Signalling
    <3>2. b + 1 = Len(validated) BY <1>0, <1>2, <2>2, NoneLeft
    <3>3. \A n \in DOMAIN validated : SignalledNow(validated[n]) \/ ~Running(validated[n])
      BY <1>3, <1>7, <3>2
    <3>4. \A m \in Requested : SignalledNow(m) \/ ~Running(m)
      BY <1>1, <1>5, <3>3 DEF HasPassed, Gone
    <3> QED BY <1>4, <1>5, <1>a, <3>1, <3>4 DEF OutcomeInv
  <2> QED BY <2>1, <2>2
<1> QED BY <1>10, <1>11, <1>12, <1>13, <1>14 DEF MembersInv

(* A single process was signalled; the request ends or waits for its exit. *)
LEMMA SingleSignalMembers ==
    ASSUME IInv, MembersInv, pc = "send", SentTo(Target),
           UNCHANGED <<envVars, op, plain, todo, validated>>,
           \/ op.kind = "stop" /\ pc' = "done" /\ outcome' = "ok"
           \/ op.kind = "cli" /\ pc' = "wait" /\ UNCHANGED outcome
    PROVE  MembersInv'
<1>1. Target \in Requested /\ op.kind \notin Multi /\ op.order \in Seq(Identity)
  BY TargetRequested DEF Multi, IInv, TypeOK
<1>2. UNCHANGED <<procs, births>> /\ Requested' = Requested
  BY DEF envVars, Requested
<1>3. \A m : Running(m)' = Running(m)
  BY <1>2 DEF Running
<1>4. SignalledNow(Target) /\ \A m \in Requested : Signalled(m) => SignalledNow(m)
  BY <1>1, OneMoreSignalled DEF MembersInv
<1>5. \A m \in Requested : m = Target
  <2>1. Len(op.order) <= 1 /\ DOMAIN op.order = 1..Len(op.order) /\ Len(op.order) \in Nat
    BY <1>1 DEF MembersInv, OrderInv
  <2>2. \A j, k \in DOMAIN op.order : j = k BY <2>1
  <2> QED BY <1>1, <2>2 DEF Requested
<1>6. OrderInv' /\ PassedInv'
  BY <1>2 DEF MembersInv, OrderInv, PassedInv
<1>7. PreflightInv' /\ SignallingInv'
  BY <1>1 DEF PreflightInv, SignallingInv
<1>8. OutcomeInv'
  <2>1. \A m : Signalled(m)' <=> SignalledNow(m)
    BY DEF Signalled, SignalledNow
  <2>2. CASE op.kind = "stop"
    BY <1>2, <1>4, <1>5, <2>1, <2>2 DEF OutcomeInv
  <2>3. CASE op.kind = "cli"
    BY <1>2, <1>3, <1>4, <2>1, <2>3 DEF MembersInv, OutcomeInv
  <2> QED BY <2>2, <2>3
<1> QED BY <1>6, <1>7, <1>8 DEF MembersInv

-----------------------------------------------------------------------------
(* The process table moves on: what is gone stays gone, and no process is  *)
(* handed back to me.                                                      *)
LEMMA ProcessSteps ==
    ASSUME IInv, OrderInv, EnvStep, NEW m \in Requested
    PROVE  /\ m.start < births' /\ \A p \in Pids : procs'[p].start > 0
           /\ ~Running(m) => ~Running(m)'
           /\ m.uid = Me /\ ~(Running(m) /\ procs[m.pid].uid = Me)
                => ~(Running(m)' /\ procs'[m.pid].uid = Me)
           /\ Present(m.pid)' /\ procs'[m.pid].start = m.start
                => Present(m.pid) /\ procs[m.pid].start = m.start
<1>0. /\ m \in Identity /\ m.pid \in Pids /\ m.start \in Nat /\ EnvTypeOK
      /\ m.start < births /\ \A p \in Pids : procs[p].start > 0
  BY RequestedTypes DEF IInv, TypeOK, OrderInv
<1>1. PICK p \in Pids : \/ Exit(p) \/ Reap(p) \/ Spawn(p)
                        \/ \E u \in Uids : SetUid(p, u)
                        \/ \E i \in Images : Exec(p, i)
  BY DEF EnvStep
<1>2. procs[p] \in Process /\ procs[p].start \in Nat /\ births \in Nat
      /\ procs[m.pid] \in Process /\ procs[m.pid].start \in Nat
  BY <1>0 DEF EnvTypeOK, Process
<1>3. ~Running(m) => ~Running(m)'
  BY <1>0, StaysGone
<1>4. \A q \in Pids : procs[q].start <= procs'[q].start /\ procs[q].start \in Nat
                      /\ procs'[q].start \in Nat
  BY <1>0, StartsGrow DEF EnvTypeOK, Process
<1>5. \A q \in Pids : procs'[q].start > 0
  BY <1>0, <1>4
<1>6. CASE Exit(p)
  BY <1>0, <1>2, <1>3, <1>5, <1>6 DEF Exit, EnvTypeOK, Process, Running, Present
<1>7. CASE Reap(p)
  BY <1>0, <1>2, <1>3, <1>5, <1>7 DEF Reap, EnvTypeOK, Process, Running, Present
<1>8. CASE Spawn(p)
  <2>1. PICK u \in Uids, i \in Images :
          procs' = [procs EXCEPT ![p] = [state |-> "alive", uid |-> u,
                                         start |-> births, image |-> i]]
    BY <1>8 DEF Spawn
  <2>2. births' = births + 1 BY <1>8 DEF Spawn
  <2>3. CASE m.pid = p
    <3>1. procs'[m.pid].start = births BY <1>0, <2>1, <2>3 DEF EnvTypeOK
    <3> QED BY <1>0, <1>2, <1>3, <1>5, <2>2, <3>1 DEF Running
  <2>4. CASE m.pid # p
    <3>1. procs'[m.pid] = procs[m.pid] BY <1>0, <2>1, <2>4 DEF EnvTypeOK
    <3> QED BY <1>0, <1>2, <1>3, <1>5, <2>2, <3>1 DEF Running, Present
  <2> QED BY <2>3, <2>4
<1>9. CASE \E u \in Uids : SetUid(p, u)
  <2>1. PICK u \in Uids : SetUid(p, u)
    BY <1>9
  <2>2. CASE m.pid = p
    <3>1. procs'[p].uid = u /\ procs'[p].start = procs[p].start
          /\ procs'[p].state = procs[p].state
      BY <1>0, <1>2, <2>1 DEF SetUid, EnvTypeOK, Process
    <3> QED BY <1>0, <1>2, <1>3, <1>5, <2>1, <2>2, <3>1 DEF SetUid, Running, Present
  <2>3. CASE m.pid # p
    <3>1. procs'[m.pid] = procs[m.pid] BY <1>0, <2>1, <2>3 DEF SetUid, EnvTypeOK
    <3> QED BY <1>0, <1>2, <1>3, <1>5, <2>1, <3>1 DEF SetUid, Running, Present
  <2> QED BY <2>2, <2>3
<1>10. CASE \E i \in Images : Exec(p, i)
  BY <1>0, <1>2, <1>3, <1>5, <1>10 DEF Exec, EnvTypeOK, Process, Running, Present
<1> QED BY <1>1, <1>6, <1>7, <1>8, <1>9, <1>10

(* The process table moves on: no loop's bookkeeping breaks.               *)
LEMMA EnvironmentMembers ==
    ASSUME IInv, MembersInv, Environment
    PROVE  MembersInv'
<1>1. EnvStep
  BY DEF Environment, EnvStep
<1>2. UNCHANGED <<op, pc, seen, cache, looked, todo, validated, fd, sig, waited,
                  consent, outcome, sent>>
  BY DEF Environment, opVars
<1>3. plain \subseteq plain'
  BY DEF Environment, opVars
<1>4. Requested' = Requested
  BY <1>2 DEF Requested
<1>5. OrderInv
  BY DEF MembersInv
<1>6. /\ \A m : HasPassed(m)' = HasPassed(m) /\ Signalled(m)' = Signalled(m)
      /\ \A m \in Requested : ~Running(m) => ~Running(m)'
      /\ \A m \in Requested : Gone(m) => Gone(m)'
  BY <1>1, <1>2, <1>5, ProcessSteps DEF HasPassed, Signalled, Gone
<1>7. OrderInv'
  <2>1. \A p \in Pids : procs'[p].start > 0
    <3>1. \A p \in Pids : procs[p].start <= procs'[p].start /\ procs[p].start \in Nat
                          /\ procs'[p].start \in Nat
      BY <1>1, StartsGrow DEF IInv, TypeOK, EnvTypeOK, Process
    <3> QED BY <1>5, <3>1 DEF OrderInv
  <2>2. \A m \in Requested : m.start < births' /\ m.start > 0
    BY <1>1, <1>5, ProcessSteps DEF OrderInv
  <2> QED BY <1>2, <1>4, <1>5, <2>1, <2>2 DEF OrderInv
<1>8. PassedInv'
  BY <1>2, <1>3 DEF MembersInv, PassedInv
<1>9. op.order \in Seq(Identity) /\ todo \in Seq(Identity) /\ validated \in Seq(Identity)
  BY DEF IInv, TypeOK
<1>10. PreflightInv'
  <2> SUFFICES ASSUME pc = "preflight" PROVE PreflightInv'
    BY <1>2 DEF PreflightInv
  <2>1. Before(todo, op.order) \in 0..Len(op.order)
    BY <1>9, SuffixBefore DEF MembersInv, PreflightInv
  <2>2. \A k \in 1..Before(todo, op.order) : op.order[k] \in Requested
    BY <1>9, <2>1 DEF Requested
  <2>3. \A k \in 1..Before(todo, op.order) : HasPassed(op.order[k])' \/ Gone(op.order[k])'
    BY <1>2, <1>6, <2>2 DEF MembersInv, PreflightInv
  <2> QED BY <1>2, <2>3 DEF MembersInv, PreflightInv
<1>11. SignallingInv'
  <2> SUFFICES ASSUME op.kind \in Multi, pc \in Signalling \/ sent # <<>> PROVE SignallingInv'
    BY <1>2 DEF SignallingInv
  <2>1. Before(todo, validated) \in 0..Len(validated)
    BY <1>9, SuffixBefore DEF MembersInv, SignallingInv
  <2>2. \A n \in DOMAIN validated : validated[n] \in Requested
    BY DEF IInv, Bookkeeping
  <2>3. \A n \in 1..Before(todo, validated) : n \in DOMAIN validated
    BY <1>9, <2>1
  <2>4. \A n \in 1..Before(todo, validated) :
          Signalled(validated[n])' \/ ~Running(validated[n])'
    BY <1>2, <1>6, <2>2, <2>3 DEF MembersInv, SignallingInv
  <2> QED BY <1>2, <1>4, <1>6, <2>4 DEF MembersInv, SignallingInv
<1>12. OutcomeInv'
  <2>1. outcome = "ok" => \A m \in Requested : Signalled(m)' \/ ~Running(m)'
    BY <1>6 DEF MembersInv, OutcomeInv
  <2>2. outcome = "exited" => \A m \in Requested :
           m.uid = Me /\ ~(Running(m)' /\ procs'[m.pid].uid = m.uid)
    BY <1>1, <1>5, ProcessSteps DEF MembersInv, OutcomeInv
  <2> QED BY <1>2, <1>4, <2>1, <2>2 DEF OutcomeInv
<1> QED BY <1>7, <1>8, <1>10, <1>11, <1>12 DEF MembersInv

(* A new request starts with nothing visited and nothing signalled.        *)
LEMMA BeginMembers ==
    ASSUME IInv, MembersInv, NEW kind \in Kinds, NEW order \in Orders,
           NEW kill \in BOOLEAN, NEW yes \in BOOLEAN,
           Begin(kind, order, kill, yes)
    PROVE  MembersInv'
<1> DEFINE identities == [k \in DOMAIN order |-> IdentityOf(order[k])]
<1>1. /\ order \in Seq(Pids) /\ order # <<>>
      /\ \A j, k \in DOMAIN order : order[j] = order[k] => j = k
  BY ControlAssumption
<1>2. /\ op' = [kind |-> kind, order |-> identities, kill |-> kill, yes |-> yes]
      /\ todo' = identities /\ validated' = <<>> /\ sent' = <<>> /\ outcome' = "none"
      /\ pc' = (IF kind \in Multi THEN "preflight" ELSE "validate")
      /\ kind \in Multi \/ Len(order) = 1
      /\ UNCHANGED <<procs, births>>
  BY DEF Begin, envVars
<1>3. \A p \in Pids : IdentityOf(p) \in Identity
  BY DEF IInv, TypeOK, EnvTypeOK, Process, Identity, IdentityOf
<1>4. identities \in Seq(Identity) /\ Len(identities) = Len(order)
      /\ DOMAIN identities = DOMAIN order
  BY <1>1, <1>3
<1>5. OrderInv'
  <2>1. \A j, k \in DOMAIN identities : identities[j].pid = identities[k].pid => j = k
    BY <1>1 DEF IdentityOf
  <2>2. \A k \in DOMAIN identities :
           identities[k].start < births /\ identities[k].start > 0
    BY <1>1, <1>4 DEF MembersInv, OrderInv, IInv, TypeOK, EnvTypeOK, IdentityOf
  <2>3. Requested' = {identities[k] : k \in DOMAIN identities}
    BY <1>2 DEF Requested
  <2> HIDE DEF identities
  <2>4. kind \notin Multi => Len(identities) <= 1
    BY <1>2, <1>4
  <2> QED BY <1>2, <2>1, <2>2, <2>3, <2>4 DEF MembersInv, OrderInv
<1>6. PassedInv' BY <1>2 DEF PassedInv
<1>7. PreflightInv'
  <2> HIDE DEF identities
  <2>1. Suffix(identities, identities) /\ Before(identities, identities) = 0
    BY <1>4, WholeSuffix
  <2> QED BY <1>2, <2>1 DEF PreflightInv
<1>8. SignallingInv' BY <1>2 DEF SignallingInv, Signalling
<1>9. OutcomeInv' BY <1>2 DEF OutcomeInv
<1> QED BY <1>5, <1>6, <1>7, <1>8, <1>9 DEF MembersInv

-----------------------------------------------------------------------------
(* What `find` reads: the program its source keeps is one the very         *)
(* instance ran, once the identity turns out to be the requested one.      *)
LEMMA VerdictOk ==
    ASSUME IInv, CacheInv, seen, Target \in Requested, Verdict(Target) = "ok"
    PROVE  Target.uid = Me /\ InstanceOf(Target) \in plain
<1>1. /\ Target \in Identity /\ Target.pid \in Pids /\ Target.start \in Nat
      /\ procs[Target.pid] \in Process
  BY RequestedTypes
<1>2. /\ procs[Target.pid].uid = Me /\ IdentityOf(Target.pid) = Target
      /\ ~IsProtected(cache[Target.pid].image)
  BY DEF Verdict
<1>3. procs[Target.pid].start = Target.start /\ Target.uid = Me
  BY <1>2 DEF IdentityOf
<1>4. cache[Target.pid].start \in Nat
  BY <1>1 DEF IInv, TypeOK, Entry
<1>5. cache[Target.pid].start = Target.start
  BY <1>1, <1>3, <1>4 DEF CacheInv
<1> QED BY <1>2, <1>3, <1>5 DEF CacheInv

(* Steps that read nothing keep the cache's invariant.                     *)
LEMMA NothingReadCache ==
    ASSUME IInv, CacheInv, UNCHANGED <<envVars, op, cache, plain>>, seen' = FALSE
    PROVE  CacheInv'
BY DEF CacheInv, envVars, Requested, Present, InstanceOf

(* A program shown by an exec is recorded; a new process is a new instance. *)
LEMMA EnvironmentCache ==
    ASSUME IInv, OrderInv, CacheInv, Environment
    PROVE  CacheInv'
<1>1. EnvStep
  BY DEF Environment, EnvStep
<1>2. UNCHANGED <<op, pc, seen, cache, looked, todo>>
  BY DEF Environment, opVars
<1>3. plain \subseteq plain'
  BY DEF Environment, opVars
<1>4. Requested' = Requested
  BY <1>2 DEF Requested
<1>5. ASSUME NEW m \in Requested, Present(m.pid)', procs'[m.pid].start = m.start,
             ~IsProtected(procs'[m.pid].image)
      PROVE  InstanceOf(m) \in plain'
  <2>1. m.pid \in Pids /\ m.start \in Nat /\ procs[m.pid] \in Process /\ procs \in [Pids -> Process]
    BY RequestedTypes DEF IInv, TypeOK, EnvTypeOK
  <2>2. Present(m.pid) /\ procs[m.pid].start = m.start
    BY <1>1, <1>5, ProcessSteps
  <2>3. ASSUME procs'[m.pid].image = procs[m.pid].image
        PROVE  InstanceOf(m) \in plain'
    BY <1>3, <1>5, <2>2, <2>3 DEF CacheInv
  <2>4. CASE \E p \in Pids : Exit(p) \/ Reap(p) \/ \E u \in Uids : SetUid(p, u)
    BY <2>1, <2>3, <2>4 DEF Exit, Reap, SetUid, Process
  <2>5. CASE \E p \in Pids : Spawn(p)
    <3>1. PICK p \in Pids : Spawn(p) BY <2>5
    <3>2. p # m.pid BY <2>2, <3>1 DEF Spawn, Present
    <3>3. procs'[m.pid] = procs[m.pid] BY <2>1, <3>1, <3>2 DEF Spawn
    <3> QED BY <2>3, <3>3
  <2>6. CASE \E p \in Pids, i \in Images :
               /\ Exec(p, i)
               /\ plain' = plain \cup (IF IsProtected(i) THEN {}
                                       ELSE {<<p, procs[p].start>>})
    <3>1. PICK p \in Pids, i \in Images :
               /\ Exec(p, i)
               /\ plain' = plain \cup (IF IsProtected(i) THEN {}
                                       ELSE {<<p, procs[p].start>>})
      BY <2>6
    <3>2. CASE p = m.pid
      <4>1. procs'[m.pid].image = i BY <2>1, <3>1, <3>2 DEF Exec, Process
      <4> QED BY <1>5, <2>2, <3>1, <3>2, <4>1 DEF InstanceOf
    <3>3. CASE p # m.pid
      <4>1. procs'[m.pid] = procs[m.pid] BY <2>1, <3>1, <3>3 DEF Exec
      <4> QED BY <2>3, <4>1
    <3> QED BY <3>2, <3>3
  <2> QED BY <2>4, <2>5, <2>6 DEF Environment
<1>6. \A m \in Requested : cache[m.pid].start = m.start /\ ~IsProtected(cache[m.pid].image)
        => InstanceOf(m) \in plain'
  BY <1>3 DEF CacheInv
<1>7. seen => /\ Target.start <= cache[Target.pid].start
              /\ cache[Target.pid].start <= procs'[Target.pid].start
  <2> SUFFICES ASSUME seen PROVE cache[Target.pid].start <= procs'[Target.pid].start
    BY DEF CacheInv
  <2>1. Target \in Requested
    BY TargetRequested DEF IInv, Bookkeeping
  <2>2. Target.pid \in Pids /\ cache[Target.pid].start \in Nat
    BY <2>1, RequestedTypes DEF IInv, TypeOK, Entry
  <2>3. procs[Target.pid].start <= procs'[Target.pid].start
        /\ procs[Target.pid].start \in Nat /\ procs'[Target.pid].start \in Nat
    BY <1>1, <2>2, StartsGrow DEF IInv, TypeOK, EnvTypeOK, Process
  <2> QED BY <2>2, <2>3 DEF CacheInv
<1>8. Target' = Target BY <1>2 DEF Target
<1> QED BY <1>2, <1>4, <1>5, <1>6, <1>7, <1>8 DEF CacheInv, InstanceOf, Present

(* A new request records what is unprotected; the source it starts with    *)
(* knows the same or nothing.                                              *)
LEMMA BeginCache ==
    ASSUME IInv, OrderInv, NEW kind \in Kinds, NEW order \in Orders,
           NEW kill \in BOOLEAN, NEW yes \in BOOLEAN,
           Begin(kind, order, kill, yes), OrderInv', IInv'
    PROVE  CacheInv'
<1>1. /\ plain' = Unprotected /\ seen' = FALSE /\ UNCHANGED <<procs, births>>
      /\ cache' = Snapshot \/ cache' = FreshSource
  BY DEF Begin, envVars
<1> SUFFICES ASSUME NEW m \in Requested'
             PROVE  /\ Present(m.pid) /\ procs[m.pid].start = m.start
                            /\ ~IsProtected(procs[m.pid].image)
                         => InstanceOf(m) \in Unprotected
                    /\ cache'[m.pid].start = m.start /\ ~IsProtected(cache'[m.pid].image)
                         => InstanceOf(m) \in Unprotected
  BY <1>1 DEF CacheInv, Present, InstanceOf
<1>2. m.start > 0 /\ m.start \in Nat /\ m.pid \in Pids
  <2>1. m \in Identity BY DEF IInv, TypeOK, Requested
  <2> QED BY <2>1 DEF OrderInv, Identity
<1>3. Present(m.pid) /\ procs[m.pid].start = m.start /\ ~IsProtected(procs[m.pid].image)
        => InstanceOf(m) \in Unprotected
  BY <1>2 DEF Unprotected, InstanceOf
<1>4. CASE cache' = FreshSource
  BY <1>2, <1>3, <1>4 DEF FreshSource
<1>5. CASE cache' = Snapshot
  BY <1>2, <1>3, <1>5 DEF Snapshot, FreshSource, Present
<1> QED BY <1>1, <1>3, <1>4, <1>5

(* A refresh replaces the entry of an older process and no other.          *)
LEMMA RefreshCache ==
    ASSUME IInv, CacheInv, Refresh
    PROVE  CacheInv'
<1>1. UNCHANGED <<procs, births, op, plain>> /\ pc \in {"preflight", "validate", "wait"}
      /\ seen = FALSE
  BY DEF Refresh, envVars, IInv, TypeOK
<1>2. Target \in Requested /\ Target.pid \in Pids /\ cache \in [Pids -> Entry]
  BY <1>1, TargetRequested, RequestedTypes DEF IInv, TypeOK
<1>3. CASE procs[Target.pid].state # "alive"
  <2>1. cache' = cache /\ seen' = FALSE
    BY <1>1, <1>3 DEF Refresh
  <2> QED BY <1>1, <2>1, NothingReadCache DEF envVars
<1>4. CASE procs[Target.pid].state = "alive"
  <2> DEFINE entry == [start |-> procs[Target.pid].start, image |-> procs[Target.pid].image]
  <2>1. /\ \/ cache' = cache /\ cache[Target.pid].start = procs[Target.pid].start
           \/ cache' = [cache EXCEPT ![Target.pid] = entry]
        /\ UNCHANGED todo
    BY <1>4 DEF Refresh
  <2>2. Target' = Target /\ Requested' = Requested
    BY <1>1, <2>1 DEF Target, Requested
  <2>3. cache'[Target.pid].start = procs[Target.pid].start
    BY <1>2, <2>1
  <2>4. Target.start <= procs[Target.pid].start /\ procs[Target.pid].start \in Nat
    BY <1>2, RequestedTypes DEF IInv, NotBefore, Process
  <2>5. ASSUME NEW m \in Requested, cache'[m.pid].start = m.start,
               ~IsProtected(cache'[m.pid].image)
        PROVE  InstanceOf(m) \in plain
    <3>1. CASE cache'[m.pid] = cache[m.pid]
      BY <2>5, <3>1 DEF CacheInv
    <3>2. CASE m.pid = Target.pid /\ cache'[m.pid] = entry
      BY <1>4, <2>5, <3>2 DEF CacheInv, Present
    <3>3. m.pid \in Pids BY RequestedTypes
    <3> HIDE DEF entry
    <3> QED BY <1>2, <2>1, <3>1, <3>2, <3>3
  <2>6. \A m \in Requested : Present(m.pid) /\ procs[m.pid].start = m.start
            /\ ~IsProtected(procs[m.pid].image) => InstanceOf(m) \in plain
    BY DEF CacheInv
  <2>7. Target.start <= cache'[Target.pid].start
        /\ cache'[Target.pid].start <= procs[Target.pid].start
    BY <2>3, <2>4
  <2> QED BY <1>1, <2>2, <2>5, <2>6, <2>7 DEF CacheInv, InstanceOf, Present
<1> QED BY <1>3, <1>4

-----------------------------------------------------------------------------
(* `stop` and the CLI stop one process.                                    *)
LEMMA SoleTarget ==
    ASSUME IInv, OrderInv, op.kind \notin Multi, pc \notin {"idle", "done"}, NEW m \in Requested
    PROVE  m = Target
<1>1. Target \in Requested BY TargetRequested
<1>2. Len(op.order) <= 1 /\ DOMAIN op.order = 1..Len(op.order) /\ Len(op.order) \in Nat
  BY DEF OrderInv, IInv, TypeOK
<1>3. \A j, k \in DOMAIN op.order : j = k BY <1>2
<1> QED BY <1>1, <1>3 DEF Requested

(* What `exited` reports of a process of mine.                             *)
Exited(m) == m.uid = Me => ~(Running(m) /\ procs[m.pid].uid = m.uid)

(* An outcome stays true while nothing it speaks of changes.               *)
LEMMA SameOutcome ==
    ASSUME OutcomeInv, UNCHANGED <<envVars, op, outcome, sent>>
    PROVE  OutcomeInv'
BY DEF OutcomeInv, envVars, Requested, Signalled, Running

(* The use case returns an error, or finds its one process gone.           *)
LEMMA FinishStop ==
    ASSUME IInv, MembersInv, TargetInv, pc \notin {"idle", "done"},
           UNCHANGED <<envVars, op, plain, sent, sig, waited, consent>>,
           NEW r, Finish(r), r # "ok",
           r = "exited" => op.kind = "cli" /\ Target.uid = Me /\ Exited(Target)
    PROVE  MembersInv' /\ TargetInv'
<1>1. pc' = "done" /\ outcome' = r /\ UNCHANGED <<todo, validated>>
  BY DEF Finish
<1>2. OutcomeInv'
  <2>1. Requested' = Requested /\ UNCHANGED procs
    BY DEF Requested, envVars
  <2>2. r = "exited" => \A m \in Requested : m = Target
    BY SoleTarget DEF MembersInv, Multi
  <2> QED BY <1>1, <2>1, <2>2 DEF OutcomeInv, Exited, Running
<1>3. MembersInv'
  BY <1>1, <1>2, StayMembers DEF Signalling
<1>4. TargetInv'
  BY <1>1 DEF TargetInv, Target, Terminated, Waiting, Signalling
<1> QED BY <1>3, <1>4

(* The use case goes on with the same process.                             *)
LEMMA EnterStop ==
    ASSUME IInv, MembersInv, UNCHANGED <<envVars, op, plain, sent>>,
           NEW phase, Enter(phase), phase # "preflight",
           phase \in Signalling => pc \in Signalling \/ op.kind = "cli"
    PROVE  MembersInv' /\ Target' = Target
<1>1. pc' = phase /\ UNCHANGED <<todo, validated, outcome>>
  BY DEF Enter
<1>2. OutcomeInv' BY <1>1, SameOutcome DEF MembersInv
<1>3. MembersInv' BY <1>1, <1>2, StayMembers DEF Multi
<1> QED BY <1>1, <1>3 DEF Target

(* A loop over several processes never reaches the CLI's second half.      *)
LEMMA LoopTarget ==
    ASSUME TargetInv, op.kind \in Multi, UNCHANGED <<op, sig>>,
           pc' \in {"preflight", "validate", "done"}
    PROVE  TargetInv'
BY DEF TargetInv, Multi, Waiting, Signalling

(* What a verdict of `find` establishes.                                   *)
Judged(v) ==
    /\ v = "ok" => Target.uid = Me /\ InstanceOf(Target) \in plain
    /\ v = "NotFound" => ~Running(Target)
    /\ v \in {"NotFound", "WrongOwner", "IdentityChanged"} => Exited(Target)

(* Every answer to a verdict preserves the invariant.                      *)
LEMMA AnswerStop ==
    ASSUME IInv, MembersInv, TargetInv, NEW v \in Verdicts, Judged(v), Answer(v),
           pc \in {"preflight", "validate", "wait"},
           UNCHANGED <<envVars, op, plain, sent, fd, sig, waited, consent>>
    PROVE  MembersInv' /\ TargetInv'
<1>1. ASSUME NEW r, Finish(r), r # "ok",
             r = "exited" => op.kind = "cli" /\ Target.uid = Me /\ Exited(Target)
      PROVE  MembersInv' /\ TargetInv'
  BY <1>1, FinishStop
<1>2. v # "exited" BY DEF Verdicts
<1>3. CASE pc = "preflight"
  <2>1. AfterPreflight(v) /\ op.kind \in Multi
    BY <1>3 DEF Answer, MembersInv, PreflightInv
  <2>2. ASSUME NEW valid, NextMember(valid) PROVE pc' \in {"preflight", "validate", "done"}
    BY <2>2 DEF NextMember
  <2>3. CASE v = "ok" /\ NextMember(Append(validated, Target))
    BY <1>3, <2>1, <2>2, <2>3, PreflightMembers, LoopTarget DEF Judged
  <2>4. CASE v = "NotFound" /\ op.kind = "workload" /\ NextMember(validated)
    BY <1>3, <2>1, <2>2, <2>4, PreflightMembers, LoopTarget DEF Judged, Gone
  <2>5. CASE v # "ok" /\ Finish(v)
    BY <1>1, <1>2, <2>5
  <2> QED BY <2>1, <2>3, <2>4, <2>5 DEF AfterPreflight
<1>4. CASE pc = "validate"
  <2>1. AfterValidate(v)
    BY <1>4 DEF Answer
  <2>2. CASE v = "ok" /\ Enter("open")
    <3>1. MembersInv' /\ Target' = Target /\ pc' = "open"
      BY <1>4, <2>2, EnterStop DEF Signalling, Enter
    <3>2. TargetInv'
      BY <1>4, <2>2, <3>1 DEF Judged, TargetInv, Terminated, Signalling, Waiting
    <3> QED BY <3>1, <3>2
  <2>3. CASE v = "NotFound" /\ op.kind \in Multi /\ NextMember(validated)
    <3>1. pc' \in {"preflight", "validate", "done"} BY <2>3 DEF NextMember
    <3> QED BY <1>4, <2>3, <3>1, SignallingMembers, LoopTarget DEF Judged, Signalling
  <2>4. CASE v \in {"NotFound", "IdentityChanged"} /\ sig = "KILL" /\ Finish("exited")
    BY <1>1, <2>4 DEF Judged, TargetInv
  <2>5. CASE v # "ok" /\ Finish(v)
    BY <1>1, <1>2, <2>5
  <2> QED BY <2>1, <2>2, <2>3, <2>4, <2>5 DEF AfterValidate
<1>5. CASE pc = "wait"
  <2>1. AfterPoll(v) /\ op.kind = "cli" /\ Target.uid = Me
    BY <1>5 DEF Answer, TargetInv, Waiting
  <2>2. CASE v \in {"NotFound", "WrongOwner", "IdentityChanged"} /\ Finish("exited")
    BY <1>1, <2>1, <2>2 DEF Judged
  <2>3. CASE v = "Inspection" /\ Finish(v)
    BY <1>1, <2>3
  <2>4. CASE Finish("StillRunning")
    BY <1>1, <2>4
  <2>5. CASE \/ Enter("sleep")
             \/ waited = Grace /\ sig = "TERM" /\ op.kill /\ Enter("confirm")
    <3>1. MembersInv' /\ Target' = Target /\ pc' \in {"sleep", "confirm"}
      BY <1>5, <2>5, EnterStop DEF Signalling, Enter
    <3>2. TargetInv'
      BY <1>5, <2>5, <3>1 DEF Enter, TargetInv, Terminated, Signalling, Waiting
    <3> QED BY <3>1, <3>2
  <2> QED BY <2>1, <2>2, <2>3, <2>4, <2>5 DEF AfterPoll
<1> QED BY <1>3, <1>4, <1>5

(* The steps of the use cases, one by one.                                 *)
LEMMA RefreshStop == ASSUME IInv, StopInv, Refresh PROVE StopInv'
<1>1. /\ UNCHANGED <<envVars, op, fd, sig, waited, consent, sent, plain>>
      /\ pc \in {"preflight", "validate", "wait"} /\ seen = FALSE
  BY DEF Refresh, IInv, TypeOK
<1>2. CacheInv' BY RefreshCache DEF StopInv
<1>3. CASE procs[Target.pid].state = "alive"
  <2>1. UNCHANGED <<pc, todo, validated, outcome>>
    BY <1>3 DEF Refresh
  <2>2. MembersInv'
    BY <1>1, <2>1, SameOutcome, StayMembers DEF StopInv, MembersInv
  <2>3. TargetInv'
    BY <1>1, <2>1 DEF StopInv, TargetInv, Target, Terminated
  <2> QED BY <1>2, <2>2, <2>3 DEF StopInv
<1>4. CASE procs[Target.pid].state # "alive"
  <2>1. Answer("NotFound") BY <1>4 DEF Refresh
  <2>2. Judged("NotFound") BY <1>4 DEF Judged, Exited, Running
  <2> QED BY <1>1, <1>2, <2>1, <2>2, AnswerStop DEF StopInv, Verdicts
<1> QED BY <1>3, <1>4

LEMMA ReadIdentityStop == ASSUME IInv, StopInv, ReadIdentity PROVE StopInv'
<1>1. /\ UNCHANGED <<envVars, op, cache, looked, fd, sig, waited, consent, sent, plain>>
      /\ pc \in {"preflight", "validate", "wait"} /\ seen /\ seen' = FALSE
  BY DEF ReadIdentity, IInv, Bookkeeping
<1>2. CacheInv'
  BY <1>1, NothingReadCache DEF StopInv
<1>3. Target \in Requested /\ Target \in Identity
  BY <1>1, TargetRequested
<1>4. Judged(Verdict(Target))
  <2>1. Verdict(Target) = "ok" => Target.uid = Me /\ InstanceOf(Target) \in plain
    BY <1>1, <1>3, VerdictOk DEF StopInv
  <2>2. Verdict(Target) = "NotFound" => ~Running(Target)
    BY DEF Verdict, Present, Running
  <2>3. Verdict(Target) = "WrongOwner" => Exited(Target)
    BY DEF Verdict, Exited
  <2>4. Verdict(Target) = "IdentityChanged" => Exited(Target)
    BY <1>3 DEF Verdict, Exited, Identity, IdentityOf, Running
  <2> QED BY <2>1, <2>2, <2>3, <2>4 DEF Judged, Exited
<1>5. Judged("Inspection") BY DEF Judged
<1>6. Verdict(Target) \in Verdicts /\ "Inspection" \in Verdicts
  BY DEF Verdict, Verdicts
<1>7. PICK v \in Verdicts : Answer(v) /\ Judged(v)
  BY <1>4, <1>5, <1>6 DEF ReadIdentity
<1>8. MembersInv' /\ TargetInv'
  BY <1>1, <1>7, AnswerStop DEF StopInv
<1> QED BY <1>2, <1>8 DEF StopInv

LEMMA OpenRecheckStop == ASSUME IInv, StopInv, OpenPidfd \/ Recheck PROVE StopInv'
<1>1. /\ UNCHANGED <<envVars, op, seen, cache, looked, sig, waited, consent, sent, plain>>
      /\ pc \in {"open", "recheck"} /\ seen' = FALSE
  BY DEF OpenPidfd, Recheck, IInv, TypeOK, Bookkeeping
<1>2. CacheInv'
  BY <1>1, NothingReadCache DEF StopInv
<1>3. CASE Finish("Termination")
  BY <1>1, <1>2, <1>3, FinishStop DEF StopInv
<1>4. CASE Enter("recheck") \/ Enter("send")
  <2>1. MembersInv' /\ Target' = Target /\ pc' \in {"recheck", "send"}
    BY <1>1, <1>4, EnterStop DEF StopInv, Signalling, Enter
  <2>2. TargetInv'
    BY <1>1, <2>1 DEF StopInv, TargetInv, Terminated, Signalling, Waiting
  <2> QED BY <1>2, <2>1, <2>2 DEF StopInv
<1> QED BY <1>3, <1>4 DEF OpenPidfd, Recheck

LEMMA SendStop == ASSUME IInv, StopInv, Send PROVE StopInv'
<1>1. /\ UNCHANGED <<envVars, op, seen, cache, looked, sig, consent, plain>>
      /\ pc = "send" /\ seen' = FALSE /\ fd = Target.start
  BY DEF Send, IInv, TypeOK, Bookkeeping, Squeeze
<1>2. CacheInv'
  BY <1>1, NothingReadCache DEF StopInv
<1>3. CASE Accepted(Target.pid)
  <2>1. sent' = Append(sent, [sig |-> sig, pid |-> Target.pid, start |-> Target.start])
        /\ waited' = 0 /\ AfterSignal
    BY <1>1, <1>3 DEF Send
  <2>2. SentTo(Target)
    BY <2>1 DEF SentTo, IInv, TypeOK
  <2>3. CASE op.kind = "stop" /\ Finish("ok")
    <3>1. MembersInv'
      BY <1>1, <2>2, <2>3, SingleSignalMembers DEF StopInv, Finish
    <3>2. sig # "KILL"
      BY <2>3 DEF StopInv, TargetInv
    <3>3. TargetInv'
      BY <1>1, <2>3, <3>2 DEF TargetInv, Finish, Waiting, Signalling
    <3> QED BY <1>2, <3>1, <3>3 DEF StopInv
  <2>4. CASE op.kind = "cli" /\ Enter("wait")
    <3>1. MembersInv' /\ Target' = Target
      BY <1>1, <2>2, <2>4, SingleSignalMembers DEF StopInv, Enter, Target
    <3>2. Terminated(Target)'
      <4> DEFINE Signals == [sig : {"TERM", "KILL"}, pid : Pids, start : Nat]
                 signal == [sig |-> sig, pid |-> Target.pid, start |-> Target.start]
      <4>1. sent \in Seq(Signals) /\ signal \in Signals
        BY <1>1, TargetRequested, RequestedTypes DEF IInv, TypeOK
      <4>2. sent' = Append(sent, signal) BY <2>1
      <4>3. CASE sig = "TERM"
        <5> HIDE DEF signal, Signals
        <5>1. Len(sent) + 1 \in DOMAIN sent' /\ sent'[Len(sent) + 1] = signal
          BY <4>1, <4>2
        <5> QED BY <3>1, <4>3, <5>1 DEF Terminated, signal
      <4>4. CASE sig = "KILL"
        <5>1. Terminated(Target) BY <4>4 DEF StopInv, TargetInv
        <5> HIDE DEF signal, Signals
        <5>2. \A j \in DOMAIN sent : j \in DOMAIN sent' /\ sent'[j] = sent[j]
          BY <4>1, <4>2
        <5> QED BY <3>1, <5>1, <5>2 DEF Terminated
      <4> QED BY <4>3, <4>4 DEF IInv, TypeOK
    <3>3. TargetInv'
      BY <1>1, <2>4, <3>1, <3>2 DEF StopInv, TargetInv, Enter, Waiting, Signalling
    <3> QED BY <1>2, <3>1, <3>3 DEF StopInv
  <2>5. CASE op.kind \in Multi /\ NextMember(validated)
    <3>1. pc' \in {"preflight", "validate", "done"} BY <2>5 DEF NextMember
    <3>2. MembersInv'
      BY <1>1, <2>2, <2>5, SignallingMembers DEF StopInv, Signalling
    <3> QED BY <1>1, <1>2, <2>5, <3>1, <3>2, LoopTarget DEF StopInv
  <2> QED BY <2>1, <2>3, <2>4, <2>5 DEF AfterSignal
<1>4. CASE ~Accepted(Target.pid)
  <2>1. Finish("Termination") /\ UNCHANGED <<sent, waited>>
    BY <1>4 DEF Send
  <2> QED BY <1>1, <1>2, <2>1, FinishStop DEF StopInv
<1> QED BY <1>3, <1>4

LEMMA WaitingStop == ASSUME IInv, StopInv, Sleep \/ SkipPrompt \/ Prompt PROVE StopInv'
<1>1. /\ UNCHANGED <<envVars, op, seen, cache, looked, fd, sent, plain>>
      /\ pc \in {"sleep", "confirm"} /\ seen' = FALSE
  BY DEF Sleep, SkipPrompt, Prompt, IInv, TypeOK, Bookkeeping
<1>2. CacheInv'
  BY <1>1, NothingReadCache DEF StopInv
<1>3. op.kind = "cli" /\ Target.uid = Me /\ Terminated(Target)
  BY <1>1 DEF StopInv, TargetInv, Waiting
<1>4. CASE Sleep
  <2>1. pc' = "wait" /\ UNCHANGED <<todo, validated, outcome, sig, consent>>
    BY <1>4 DEF Sleep
  <2>2. MembersInv'
    BY <1>1, <2>1, SameOutcome, StayMembers DEF StopInv, MembersInv, Signalling
  <2>3. TargetInv'
    BY <1>1, <1>3, <2>1 DEF TargetInv, Target, Terminated, Waiting, Signalling
  <2> QED BY <1>2, <2>2, <2>3 DEF StopInv
<1>5. CASE ForceNext /\ (SkipPrompt \/ (Prompt /\ consent' = TRUE))
  <2>1. /\ pc = "confirm" /\ pc' = "validate" /\ sig' = "KILL" /\ waited' = waited
        /\ op.yes \/ consent' = TRUE
    BY <1>5 DEF ForceNext, SkipPrompt, Prompt, Enter
  <2>2. MembersInv' /\ Target' = Target
    BY <1>1, <1>3, <1>5, EnterStop DEF StopInv, ForceNext
  <2>3. TargetInv'
    BY <1>1, <1>3, <2>1, <2>2 DEF StopInv, TargetInv, Terminated, Waiting, Signalling
  <2> QED BY <1>2, <2>2, <2>3 DEF StopInv
<1>6. CASE Prompt /\ Finish("Declined") /\ UNCHANGED <<consent, sig>>
  <2>1. UNCHANGED waited BY <1>6 DEF Prompt
  <2> QED BY <1>1, <1>2, <1>6, <2>1, FinishStop DEF StopInv
<1> QED BY <1>4, <1>5, <1>6 DEF SkipPrompt, Prompt

LEMMA BeginStop ==
    ASSUME IInv, StopInv, NEW kind \in Kinds, NEW order \in Orders,
           NEW kill \in BOOLEAN, NEW yes \in BOOLEAN,
           Begin(kind, order, kill, yes)
    PROVE  StopInv'
<1>1. MembersInv' BY BeginMembers DEF StopInv
<1>2. CacheInv'
  BY <1>1, BeginIInv, BeginCache DEF StopInv, MembersInv
<1>3. pc' \in {"preflight", "validate"} /\ sig' = "TERM"
  BY DEF Begin
<1>4. TargetInv' BY <1>3 DEF TargetInv, Waiting
<1> QED BY <1>1, <1>2, <1>4 DEF StopInv

(* Before the first request there is nothing to be wrong about.            *)
LEMMA InitStop == Init => StopInv
<1> SUFFICES ASSUME Init PROVE StopInv
  OBVIOUS
<1>1. /\ Requested = {} /\ op.order = <<>> /\ op.kind = "stop" /\ todo = <<>>
      /\ pc = "idle" /\ sig = "TERM" /\ outcome = "none" /\ validated = <<>>
      /\ sent = <<>> /\ seen = FALSE
  BY DEF Init, Requested
<1>2. \A p \in Pids : procs[p].start > 0
  BY DEF Init, EnvInit
<1>3. OrderInv /\ PassedInv BY <1>1, <1>2 DEF OrderInv, PassedInv
<1>4. PreflightInv /\ SignallingInv /\ OutcomeInv
  BY <1>1 DEF PreflightInv, SignallingInv, OutcomeInv, Signalling
<1>5. CacheInv /\ TargetInv
  BY <1>1 DEF CacheInv, TargetInv, Waiting
<1> QED BY <1>3, <1>4, <1>5 DEF StopInv, MembersInv

LEMMA StepStop == IInv /\ StopInv /\ [Next]_vars => StopInv'
<1> SUFFICES ASSUME IInv, StopInv, [Next]_vars PROVE StopInv'
  OBVIOUS
<1>1. CASE \E kind \in Kinds, order \in Orders, kill, yes \in BOOLEAN :
             Begin(kind, order, kill, yes)
  BY <1>1, BeginStop
<1>2. CASE Stopper
  BY <1>2, RefreshStop, ReadIdentityStop, OpenRecheckStop, SendStop, WaitingStop
     DEF Stopper
<1>3. CASE Prompt
  BY <1>3, WaitingStop
<1>4. CASE Environment
  <2>1. UNCHANGED <<op, pc, todo, sig, waited, consent, sent>>
    BY <1>4 DEF Environment, opVars
  <2>2. TargetInv'
    BY <2>1 DEF StopInv, TargetInv, Target, Terminated
  <2> QED BY <1>4, <2>2, EnvironmentMembers, EnvironmentCache DEF StopInv, MembersInv
<1>5. CASE UNCHANGED vars
  <2>1. UNCHANGED <<procs, births, op, pc, seen, cache, todo, validated, sig, waited,
                    consent, outcome, sent, plain>>
    BY <1>5 DEF vars, envVars, opVars
  <2>2. MembersInv'
    BY <2>1, SameOutcome, StayMembers DEF StopInv, MembersInv, envVars
  <2>3. CacheInv' /\ TargetInv'
    BY <2>1 DEF StopInv, CacheInv, TargetInv, Target, Terminated, Requested, Present, InstanceOf
  <2> QED BY <2>2, <2>3 DEF StopInv
<1> QED BY <1>1, <1>2, <1>3, <1>4, <1>5 DEF Next

(* What the loops have left behind guards the whole request.               *)
LEMMA GuardsNow == IInv /\ StopInv => PreflightGuardsAll
<1> SUFFICES ASSUME IInv, StopInv, op.kind \in Multi, sent # <<>>, NEW m \in Requested
             PROVE  /\ Running(m) => m.uid = Me /\ InstanceOf(m) \in plain
                    /\ op.kind = "group" => HasPassed(m)
  BY DEF PreflightGuardsAll, HasPassed
<1>1. HasPassed(m) \/ Gone(m)
  BY DEF StopInv, MembersInv, SignallingInv
<1> QED BY <1>1 DEF StopInv, MembersInv, PassedInv, HasPassed, Gone

(* And it is in the order of the request.                                  *)
LEMMA LeafFirstNow == IInv /\ StopInv => LeafFirst
<1> SUFFICES ASSUME IInv, StopInv, NEW k \in DOMAIN op.order, Signalled(op.order[k]),
                    NEW j \in 1..(k - 1)
             PROVE  Signalled(op.order[j]) \/ ~Running(op.order[j])
  BY DEF LeafFirst
<1>1. /\ k \in Nat /\ j \in DOMAIN op.order /\ j < k /\ k <= Len(op.order)
      /\ Len(op.order) \in Nat
  <2>1. DOMAIN op.order = 1..Len(op.order) /\ Len(op.order) \in Nat
    BY DEF IInv, TypeOK
  <2> QED BY <2>1
<1>2. op.kind \in Multi
  <2>1. ~(Len(op.order) <= 1) BY <1>1
  <2> QED BY <2>1 DEF StopInv, MembersInv, OrderInv
<1>3. sent # <<>> BY DEF Signalled
<1>4. op.order[j] \in Requested /\ op.order[k] \in Requested
  BY <1>1 DEF Requested
<1>5. /\ Suffix(todo, validated) /\ HasPassed(op.order[k])
      /\ HasPassed(op.order[j]) \/ Gone(op.order[j])
  BY <1>2, <1>3, <1>4 DEF StopInv, MembersInv, SignallingInv
<1>6. CASE Gone(op.order[j]) BY <1>6 DEF Gone
<1>7. CASE HasPassed(op.order[j])
  <2>1. PICK i \in DOMAIN validated : validated[i] = op.order[j] BY <1>7 DEF HasPassed
  <2>2. PICK n \in DOMAIN validated : validated[n] = op.order[k] BY <1>5 DEF HasPassed
  <2>3. i \in Nat /\ n \in Nat /\ i >= 1 BY DEF IInv, TypeOK
  <2>4. i # n BY <1>1, <2>1, <2>2 DEF StopInv, MembersInv, OrderInv
  <2>5. ~(n < i) BY <1>1, <2>1, <2>2 DEF StopInv, MembersInv, PassedInv
  <2>6. n <= Before(todo, validated)
    BY <1>2, <1>3, <2>2 DEF StopInv, MembersInv, SignallingInv
  <2>7. Before(todo, validated) \in Nat
    BY <1>5, SuffixBefore DEF IInv, TypeOK
  <2>8. i \in 1..Before(todo, validated) BY <2>3, <2>4, <2>5, <2>6, <2>7
  <2> QED BY <1>2, <1>3, <2>1, <2>8 DEF StopInv, MembersInv, SignallingInv
<1> QED BY <1>5, <1>6, <1>7

(* Once anything was signalled every member that still runs is mine and was *)
(* seen running an unprotected program, and no member of a group was left  *)
(* out of the preflight, whatever the processes do in between.             *)
THEOREM PreflightGuards == Spec => []PreflightGuardsAll
BY InitIInv, StepIInv, InitStop, StepStop, GuardsNow, PTL DEF Spec

(* No process is signalled before the members ahead of it in its order were *)
(* signalled or have exited.                                               *)
THEOREM LeavesFirst == Spec => []LeafFirst
BY InitIInv, StepIInv, InitStop, StepStop, LeafFirstNow, PTL DEF Spec

(* Success leaves no requested process unsignalled, and `exited` is true   *)
(* when it is reported and ever after.                                     *)
THEOREM OutcomesTrue == Spec => []OutcomeIsTrue
<1>1. StopInv => OutcomeIsTrue BY DEF StopInv, MembersInv, OutcomeInv, OutcomeIsTrue
<1> QED BY InitIInv, StepIInv, InitStop, StepStop, <1>1, PTL DEF Spec

(* SIGKILL follows an accepted SIGTERM to the same instance, a full grace  *)
(* period, --kill and a confirmation.                                      *)
THEOREM KillsLast == Spec => KillIsLastResort
<1> DEFINE LastResort == \A k \in DOMAIN sent' \ DOMAIN sent :
          LET kill == sent'[k] IN kill.sig = "KILL" =>
            /\ op.kind = "cli" /\ op.kill
            /\ op.yes \/ consent
            /\ waited = Grace
            /\ \E j \in DOMAIN sent : sent[j] = [kill EXCEPT !.sig = "TERM"]
<1>1. ASSUME IInv, StopInv, [Next]_vars PROVE [LastResort]_vars
  <2>1. CASE DOMAIN sent' \subseteq DOMAIN sent
    BY <2>1
  <2>2. CASE Send /\ Accepted(Target.pid)
    <3> DEFINE Signals == [sig : {"TERM", "KILL"}, pid : Pids, start : Nat]
               signal == [sig |-> sig, pid |-> Target.pid, start |-> Target.start]
    <3>1. sent' = Append(sent, signal) /\ pc = "send"
      BY <1>1, <2>2 DEF Send, IInv, Squeeze
    <3>2. sent \in Seq(Signals)
      BY <1>1 DEF IInv, TypeOK
    <3>3. \A k \in DOMAIN sent' \ DOMAIN sent : sent'[k] = signal
      <4> HIDE DEF signal, Signals
      <4> QED BY <3>1, <3>2
    <3>4. signal.sig = "KILL" =>
            /\ op.kind = "cli" /\ op.kill
            /\ op.yes \/ consent
            /\ waited = Grace
            /\ \E j \in DOMAIN sent : sent[j] = [signal EXCEPT !.sig = "TERM"]
      BY <1>1, <3>1 DEF StopInv, TargetInv, Terminated, Signalling
    <3> HIDE DEF signal
    <3> QED BY <3>3, <3>4
  <2>3. CASE \E kind \in Kinds, order \in Orders, kill, yes \in BOOLEAN :
               Begin(kind, order, kill, yes)
    <3>1. sent' = <<>> BY <2>3 DEF Begin
    <3> QED BY <2>1, <3>1
  <2>4. CASE sent' = sent BY <2>1, <2>4
  <2>5. (Send /\ Accepted(Target.pid)) \/ sent' = sent
          \/ \E kind \in Kinds, order \in Orders, kill, yes \in BOOLEAN :
               Begin(kind, order, kill, yes)
    BY <1>1 DEF Next, Stopper, Refresh, ReadIdentity, OpenPidfd, Recheck, Send, Sleep, SkipPrompt,
       Prompt, Environment, vars, opVars
  <2> QED BY <2>2, <2>3, <2>4, <2>5
<1> QED BY InitIInv, StepIInv, InitStop, StepStop, <1>1, PTL DEF Spec, KillIsLastResort

-----------------------------------------------------------------------------
(* The contract of a stop.                                                 *)

(* Whoever was not mine when asked for keeps its owner; whoever was        *)
(* signalled was told to end first; and a request for one process tells it *)
(* once before it waits or kills.                                          *)
OwnersInv == \A m \in Requested : Running(m) /\ m.uid # Me => procs[m.pid].uid = m.uid
ToldInv == \A m \in Requested : Signalled(m) => Terminated(m)
OnceInv ==
    op.kind \notin Multi =>
        /\ pc \in Signalling /\ sig = "TERM" => sent = <<>>
        /\ (pc \in Waiting /\ sig = "TERM") \/ (pc \in Signalling /\ sig = "KILL")
              => sent = <<[sig |-> "TERM", pid |-> Target.pid, start |-> Target.start]>>

ContractInv == OwnersInv /\ ToldInv /\ OnceInv

(* The contract's words for a process that runs, now and after a step.     *)
LivingIn(table) == {[pid |-> p, uid |-> table[p].uid, start |-> table[p].start] :
                      p \in {q \in Pids : table[q].state = "alive"}}

LEMMA LivingMembers ==
    ASSUME NEW table \in [Pids -> Process], NEW m \in Identity
    PROVE  /\ m \in LivingIn(table) <=> /\ table[m.pid].state = "alive"
                                       /\ table[m.pid].start = m.start
                                       /\ table[m.pid].uid = m.uid
           /\ (\E i \in LivingIn(table) : i.pid = m.pid /\ i.start = m.start)
                 <=> table[m.pid].state = "alive" /\ table[m.pid].start = m.start
<1>1. m.pid \in Pids /\ m = [pid |-> m.pid, uid |-> m.uid, start |-> m.start]
  BY DEF Identity
<1>2. ASSUME NEW i \in LivingIn(table), i.pid = m.pid
      PROVE  /\ table[m.pid].state = "alive" /\ table[m.pid].start = i.start
             /\ table[m.pid].uid = i.uid
  BY <1>2 DEF LivingIn
<1>3. ASSUME table[m.pid].state = "alive"
      PROVE  [pid |-> m.pid, uid |-> table[m.pid].uid, start |-> table[m.pid].start]
               \in LivingIn(table)
  <2>1. m.pid \in {q \in Pids : table[q].state = "alive"} BY <1>1, <1>3
  <2> QED BY <2>1, Zenon DEF LivingIn
<1>4. ASSUME table[m.pid].state = "alive", table[m.pid].start = m.start
      PROVE  \E i \in LivingIn(table) : i.pid = m.pid /\ i.start = m.start
  BY <1>3, <1>4
<1>5. ASSUME table[m.pid].state = "alive", table[m.pid].start = m.start, table[m.pid].uid = m.uid
      PROVE  m \in LivingIn(table)
  BY <1>1, <1>3, <1>5
<1> QED BY <1>2, <1>4, <1>5

LEMMA LivesNow ==
    ASSUME EnvTypeOK, NEW m \in Identity
    PROVE  /\ Contract!Lives(m) <=> Running(m)
           /\ Contract!AsAsked(m) <=> Running(m) /\ procs[m.pid].uid = m.uid
<1>1. Living = LivingIn(procs) BY DEF Living, LivingIn, IdentityOf
<1>2. procs \in [Pids -> Process] BY DEF EnvTypeOK
<1> QED BY <1>1, <1>2, LivingMembers DEF Contract!Lives, Contract!AsAsked, Running

LEMMA LivesNext ==
    ASSUME EnvTypeOK', NEW m \in Identity
    PROVE  /\ Contract!Lives(m)' <=> Running(m)'
           /\ Contract!AsAsked(m)' <=> Running(m)' /\ procs'[m.pid].uid = m.uid
<1>1. Living' = LivingIn(procs') BY DEF Living, LivingIn, IdentityOf
<1>2. procs' \in [Pids -> Process] BY DEF EnvTypeOK
<1> QED BY <1>1, <1>2, LivingMembers DEF Contract!Lives, Contract!AsAsked, Running

(* A step of a use case that gets no signal accepted.                      *)
Quiet ==
    /\ UNCHANGED <<envVars, op, sent>>
    /\ pc \notin {"idle", "done"} /\ pc' # "idle"
    /\ op.kind \notin Multi =>
         \/ pc' = "done"
         \/ pc' \in Signalling /\ pc \in Signalling /\ sig' = sig
         \/ pc' \in Waiting /\ pc \in Waiting /\ sig' = sig
         \/ pc' = "validate" /\ pc = "confirm" /\ sig' = "KILL"
    /\ pc' = "done" /\ outcome' \in {"exited", "StillRunning", "Declined"}
         => pc \in Waiting \/ sig = "KILL"

LEMMA AnswerQuiet ==
    ASSUME MembersInv, NEW v \in Verdicts, Answer(v),
           pc \in {"preflight", "validate", "wait"}, UNCHANGED <<envVars, op, sent, sig>>
    PROVE  Quiet
<1>1. v \notin {"exited", "StillRunning", "Declined"} BY DEF Verdicts
<1>2. CASE pc = "preflight"
  <2>1. AfterPreflight(v) /\ op.kind \in Multi
    BY <1>2 DEF Answer, MembersInv, PreflightInv
  <2>2. ASSUME NEW valid, NextMember(valid)
        PROVE  pc' # "idle" /\ (pc' = "done" => outcome' = "ok")
    BY <1>2, <2>2 DEF NextMember
  <2> QED BY <1>1, <1>2, <2>1, <2>2 DEF AfterPreflight, Finish, Quiet
<1>3. CASE pc = "validate"
  <2>1. AfterValidate(v) BY <1>3 DEF Answer
  <2>2. CASE v = "ok" /\ Enter("open")
    BY <1>3, <2>2 DEF Enter, Quiet, Signalling
  <2>3. CASE op.kind \in Multi /\ NextMember(validated)
    BY <1>3, <2>3 DEF NextMember, Quiet
  <2>4. CASE sig = "KILL" /\ Finish("exited")
    BY <1>3, <2>4 DEF Finish, Quiet
  <2>5. CASE Finish(v)
    BY <1>1, <1>3, <2>5 DEF Finish, Quiet
  <2> QED BY <2>1, <2>2, <2>3, <2>4, <2>5 DEF AfterValidate
<1>4. CASE pc = "wait"
  BY <1>4 DEF Answer, AfterPoll, Enter, Finish, Quiet, Waiting
<1> QED BY <1>2, <1>3, <1>4

LEMMA QuietSteps ==
    ASSUME IInv, StopInv,
           \/ Refresh \/ ReadIdentity \/ OpenPidfd \/ Recheck
           \/ Send /\ ~Accepted(Target.pid)
           \/ Sleep \/ SkipPrompt \/ Prompt
    PROVE  Quiet
<1>1. CASE Refresh
  <2>1. UNCHANGED <<envVars, op, sent, sig>> /\ pc \in {"preflight", "validate", "wait"}
    BY <1>1 DEF Refresh
  <2>2. CASE Answer("NotFound")
    BY <2>1, <2>2, AnswerQuiet DEF StopInv, Verdicts
  <2>3. CASE pc' = pc
    BY <2>1, <2>3 DEF Quiet, MembersInv, PreflightInv, StopInv, Signalling, Waiting
  <2> QED BY <1>1, <2>2, <2>3 DEF Refresh
<1>2. CASE ReadIdentity
  <2>1. UNCHANGED <<envVars, op, sent, sig>> /\ pc \in {"preflight", "validate", "wait"}
    BY <1>2 DEF ReadIdentity, IInv, Bookkeeping
  <2>2. Verdict(Target) \in Verdicts /\ "Inspection" \in Verdicts
    BY DEF Verdict, Verdicts
  <2> QED BY <1>2, <2>1, <2>2, AnswerQuiet DEF ReadIdentity, StopInv
<1>3. CASE OpenPidfd \/ Recheck
  BY <1>3 DEF OpenPidfd, Recheck, Enter, Finish, Quiet, Signalling
<1>4. CASE Send /\ ~Accepted(Target.pid)
  BY <1>4 DEF Send, Finish, Quiet
<1>5. CASE Sleep
  BY <1>5 DEF Sleep, Quiet, Waiting
<1>6. CASE SkipPrompt \/ Prompt
  BY <1>6 DEF SkipPrompt, Prompt, ForceNext, Enter, Finish, Quiet, Waiting
<1> QED BY <1>1, <1>2, <1>3, <1>4, <1>5, <1>6

LEMMA QuietContract ==
    ASSUME IInv, StopInv, StopInv', ContractInv, Quiet
    PROVE  ContractInv'
<1>1. Requested' = Requested /\ UNCHANGED <<procs, op, sent>>
  BY DEF Quiet, envVars, Requested
<1>2. OwnersInv' /\ ToldInv'
  BY <1>1 DEF ContractInv, OwnersInv, ToldInv, Running, Signalled, Terminated
<1>3. OnceInv'
  <2> SUFFICES ASSUME op.kind \notin Multi PROVE OnceInv'
    BY <1>1 DEF OnceInv
  <2>1. Target' = Target
    BY <1>1 DEF StopInv, MembersInv, OrderInv, Target
  <2>2. pc = "confirm" => sig = "TERM"
    BY DEF StopInv, TargetInv
  <2> QED BY <1>1, <2>1, <2>2 DEF Quiet, ContractInv, OnceInv, Signalling, Waiting
<1> QED BY <1>2, <1>3 DEF ContractInv

LEMMA OneMember ==
    ASSUME NEW S, NEW s \in Seq(S), s # <<>>, Len(s) <= 1
    PROVE  Len(s) = 1
<1>1. Len(s) \in Nat /\ DOMAIN s = 1..Len(s) OBVIOUS
<1>2. 1 \in DOMAIN s BY HeadAndTail
<1> QED BY <1>1, <1>2

(* The request of one process names it and nothing else.                   *)
LEMMA SoleOrder ==
    ASSUME IInv, StopInv, op.kind \notin Multi, pc \notin {"idle", "done"}
    PROVE  Len(op.order) = 1 /\ op.order[1] = Target
<1>1. op.order \in Seq(Identity) /\ todo # <<>> BY TargetRequested DEF IInv, TypeOK
<1>2. todo = op.order BY DEF StopInv, MembersInv, OrderInv
<1>3. Len(op.order) <= 1 BY DEF StopInv, MembersInv, OrderInv
<1>4. op.order # <<>> BY <1>1, <1>2
<1>5. Len(op.order) = 1 BY <1>1, <1>3, <1>4, OneMember
<1>6. Head(op.order) = op.order[1] BY <1>1, <1>4, HeadAndTail
<1>7. Target = op.order[1] BY <1>2, <1>6 DEF Target
<1> QED BY <1>5, <1>7

(* A step that gets its signal accepted.                                   *)
Heard ==
    /\ UNCHANGED <<envVars, op, sig>> /\ pc = "send"
    /\ sent' = Append(sent, [sig |-> sig, pid |-> Target.pid, start |-> Target.start])
    /\ Target.uid = Me /\ procs[Target.pid].uid = Me /\ procs[Target.pid].start = Target.start
    /\ \/ op.kind = "stop" /\ pc' = "done" /\ outcome' = "ok"
       \/ op.kind = "cli" /\ pc' = "wait"
       \/ op.kind \in Multi /\ pc' # "idle" /\ (pc' = "done" => outcome' = "ok")

LEMMA AcceptedHeard ==
    ASSUME IInv, StopInv, Send, Accepted(Target.pid)
    PROVE  Heard
<1>1. pc = "send" /\ fd = Target.start /\ UNCHANGED <<envVars, op, sig>>
  BY DEF Send, IInv, Squeeze
<1>2. sent' = Append(sent, [sig |-> sig, pid |-> Target.pid, start |-> Target.start])
      /\ AfterSignal
  BY <1>1 DEF Send
<1>3. Target.uid = Me BY <1>1 DEF StopInv, TargetInv
<1>4. procs[Target.pid].uid = Me /\ procs[Target.pid].start = Target.start
  BY <1>1 DEF Accepted
<1>5. NextMember(validated) => pc' # "idle" /\ (pc' = "done" => outcome' = "ok")
  BY <1>1 DEF NextMember
<1> QED BY <1>1, <1>2, <1>3, <1>4, <1>5 DEF AfterSignal, Enter, Finish, Heard

(* The signal is added to those sent before.                               *)
LEMMA HeardSent ==
    ASSUME IInv, StopInv, Heard
    PROVE  /\ sent' # <<>> /\ Len(sent) + 1 \in DOMAIN sent'
           /\ sent'[Len(sent) + 1] = [sig |-> sig, pid |-> Target.pid, start |-> Target.start]
           /\ \A k \in DOMAIN sent : k \in DOMAIN sent' /\ sent'[k] = sent[k]
           /\ \A m \in Requested : Terminated(m) => Terminated(m)'
           /\ SentTo(Target) /\ Target \in Requested
<1> DEFINE Signals == [sig : {"TERM", "KILL"}, pid : Pids, start : Nat]
           signal == [sig |-> sig, pid |-> Target.pid, start |-> Target.start]
<1>1. Target \in Requested BY TargetRequested DEF Heard
<1>2. sent \in Seq(Signals) /\ signal \in Signals /\ sig \in {"TERM", "KILL"}
  BY <1>1, RequestedTypes DEF IInv, TypeOK
<1>3. sent' = Append(sent, signal) BY DEF Heard
<1>4. /\ sent' # <<>> /\ Len(sent) + 1 \in DOMAIN sent' /\ sent'[Len(sent) + 1] = signal
      /\ \A k \in DOMAIN sent : k \in DOMAIN sent' /\ sent'[k] = sent[k]
  <2> HIDE DEF Signals, signal
  <2> QED BY <1>2, <1>3
<1>5. SentTo(Target) BY <1>2, <1>3 DEF SentTo
<1>6. \A m \in Requested : Terminated(m) => Terminated(m)' BY <1>4 DEF Terminated
<1> QED BY <1>1, <1>4, <1>5, <1>6

(* One process is told once, and killed only after that.                   *)
LEMMA HeardContract ==
    ASSUME IInv, StopInv, StopInv', ContractInv, Heard
    PROVE  ContractInv'
<1>1. Requested' = Requested /\ UNCHANGED <<procs, op>>
  BY DEF Heard, envVars, Requested
<1>2. OwnersInv' BY <1>1 DEF ContractInv, OwnersInv, Running
<1>3. ASSUME NEW m \in Requested, m = Target PROVE Terminated(m)'
  <2>1. CASE sig = "TERM"
    BY <1>3, <2>1, HeardSent DEF Terminated
  <2>2. CASE sig = "KILL"
    <3>1. Terminated(m) BY <1>3, <2>2 DEF StopInv, TargetInv
    <3> QED BY <3>1, HeardSent
  <2> QED BY <2>1, <2>2 DEF IInv, TypeOK
<1>4. ToldInv'
  <2>1. ASSUME NEW m \in Requested, Signalled(m)' PROVE Terminated(m)'
    <3>1. SignalledNow(m) BY <2>1 DEF SignalledNow, Signalled
    <3>2. Signalled(m) \/ m = Target
      BY <3>1, HeardSent, OneMoreSignalled DEF StopInv, MembersInv, Heard
    <3>3. Signalled(m) => Terminated(m)' BY HeardSent DEF ContractInv, ToldInv
    <3> QED BY <1>3, <3>2, <3>3
  <2> QED BY <1>1, <2>1 DEF ToldInv
<1>5. OnceInv'
  <2> SUFFICES ASSUME op.kind = "cli", pc' = "wait", sig = "TERM"
               PROVE  sent' = <<[sig |-> "TERM", pid |-> Target.pid, start |-> Target.start]>>
                      /\ Target' = Target
    BY <1>1 DEF Heard, OnceInv, Signalling, Waiting, Multi
  <2>1. sent = <<>> BY DEF Heard, ContractInv, OnceInv, Signalling, Multi
  <2>2. Target' = Target
    BY <1>1 DEF StopInv, MembersInv, OrderInv, Target, Multi
  <2> QED BY <2>1, <2>2 DEF Heard
<1> QED BY <1>2, <1>4, <1>5 DEF ContractInv

-----------------------------------------------------------------------------
(* A new request, and the processes' own steps.                            *)
LEMMA BeginContract ==
    ASSUME IInv, NEW kind \in Kinds, NEW order \in Orders,
           NEW kill \in BOOLEAN, NEW yes \in BOOLEAN,
           Begin(kind, order, kill, yes)
    PROVE  ContractInv'
<1>1. /\ sent' = <<>> /\ pc' \in {"preflight", "validate"} /\ sig' = "TERM"
      /\ UNCHANGED procs
      /\ op'.order = [k \in DOMAIN order |-> IdentityOf(order[k])]
  BY DEF Begin, envVars
<1>2. OwnersInv'
  BY <1>1 DEF OwnersInv, Requested, Running, IdentityOf
<1>3. ToldInv' BY <1>1 DEF ToldInv, Signalled
<1>4. OnceInv' BY <1>1 DEF OnceInv, Waiting
<1> QED BY <1>2, <1>3, <1>4 DEF ContractInv

(* A process only gives itself away.                                       *)
LEMMA OwnersStep ==
    ASSUME IInv, StopInv, OwnersInv, EnvStep, NEW m \in Requested
    PROVE  Running(m)' => /\ Running(m)
                          /\ m.uid # Me => procs'[m.pid].uid = m.uid
                          /\ procs'[m.pid].uid = m.uid => procs[m.pid].uid = m.uid
<1>0. m \in Identity /\ m.pid \in Pids /\ procs \in [Pids -> Process]
  BY RequestedTypes DEF IInv, TypeOK, EnvTypeOK
<1>1. ~Running(m) => ~Running(m)'
  BY ProcessSteps DEF StopInv, MembersInv
<1> SUFFICES ASSUME Running(m)', Running(m)
             PROVE  /\ m.uid # Me => procs'[m.pid].uid = m.uid
                    /\ procs'[m.pid].uid = m.uid => procs[m.pid].uid = m.uid
  BY <1>1
<1>2. PICK p \in Pids : \/ Exit(p) \/ Reap(p) \/ Spawn(p)
                        \/ \E u \in Uids : SetUid(p, u)
                        \/ \E i \in Images : Exec(p, i)
  BY DEF EnvStep
<1>3. m.uid # Me => procs[m.pid].uid = m.uid
  BY DEF OwnersInv
<1>4. CASE procs'[m.pid].uid = procs[m.pid].uid
  BY <1>3, <1>4
<1>5. CASE Exit(p) \/ Reap(p) \/ \E i \in Images : Exec(p, i)
  BY <1>0, <1>4, <1>5 DEF Exit, Reap, Exec, Process
<1>6. CASE Spawn(p)
  <2>1. p # m.pid BY <1>6 DEF Spawn, Running
  <2>2. procs'[m.pid] = procs[m.pid] BY <1>0, <1>6, <2>1 DEF Spawn
  <2> QED BY <1>4, <2>2
<1>7. CASE \E u \in Uids : SetUid(p, u)
  <2>1. PICK u \in Uids : SetUid(p, u) BY <1>7
  <2>2. CASE p = m.pid
    <3>1. procs[m.pid].uid = Me /\ u # Me BY <2>1, <2>2 DEF SetUid
    <3>2. procs'[m.pid].uid = u BY <1>0, <2>1, <2>2 DEF SetUid, Process
    <3> QED BY <1>3, <3>1, <3>2
  <2>3. CASE p # m.pid
    <3>1. procs'[m.pid] = procs[m.pid] BY <1>0, <2>1, <2>3 DEF SetUid
    <3> QED BY <1>4, <3>1
  <2> QED BY <2>2, <2>3
<1> QED BY <1>2, <1>5, <1>6, <1>7

LEMMA EnvironmentContract ==
    ASSUME IInv, StopInv, ContractInv, Environment
    PROVE  ContractInv'
<1>1. EnvStep BY DEF Environment, EnvStep
<1>2. UNCHANGED <<op, pc, todo, sig, sent>> BY DEF Environment, opVars
<1>3. OwnersInv'
  BY <1>1, <1>2, OwnersStep DEF ContractInv, OwnersInv, Requested
<1>4. ToldInv' /\ OnceInv'
  BY <1>2 DEF ContractInv, ToldInv, OnceInv, Requested, Signalled, Terminated, Target
<1> QED BY <1>3, <1>4 DEF ContractInv

LEMMA InitContract == Init => ContractInv
BY DEF Init, ContractInv, OwnersInv, ToldInv, OnceInv, Requested, Signalling, Waiting

(* Every step is a quiet one, a signal, a new request or one of the        *)
(* processes'.                                                             *)
LEMMA StepKinds ==
    ASSUME IInv, StopInv, [Next]_vars
    PROVE  \/ Quiet \/ Heard \/ Environment \/ UNCHANGED vars
           \/ \E kind \in Kinds, order \in Orders, kill, yes \in BOOLEAN :
                Begin(kind, order, kill, yes)
BY QuietSteps, AcceptedHeard DEF Next, Stopper

LEMMA StepContract == IInv /\ StopInv /\ ContractInv /\ [Next]_vars => ContractInv'
<1> SUFFICES ASSUME IInv, StopInv, ContractInv, [Next]_vars PROVE ContractInv'
  OBVIOUS
<1>1. StopInv' BY StepStop
<1>2. CASE UNCHANGED vars
  <2>1. UNCHANGED <<procs, op, pc, todo, sig, sent>>
    BY <1>2 DEF vars, envVars, opVars
  <2> QED BY <2>1 DEF ContractInv, OwnersInv, ToldInv, OnceInv, Requested, Running, Signalled,
             Terminated, Target
<1> QED BY <1>1, <1>2, StepKinds, QuietContract, HeardContract, EnvironmentContract,
           BeginContract

-----------------------------------------------------------------------------
(* Step by step, the contract.                                             *)

(* What is answered, phase by phase.                                       *)
LEMMA Answers ==
    /\ pc \notin {"idle", "done"} <=> Answered = "pending"
    /\ pc = "done" =>
         /\ outcome = "ok" => Answered = "stopped"
         /\ outcome = "exited" => Answered = "exited"
         /\ outcome \in {"StillRunning", "Declined"} => Answered = "running"
         /\ outcome \notin {"ok", "exited", "StillRunning", "Declined"} => Answered = "failed"
BY DEF Answered

LEMMA AnswersNext ==
    /\ pc' \notin {"idle", "done"} <=> Answered' = "pending"
    /\ pc' = "done" =>
         /\ outcome' = "ok" => Answered' = "stopped"
         /\ outcome' = "exited" => Answered' = "exited"
         /\ outcome' \in {"StillRunning", "Declined"} => Answered' = "running"
         /\ outcome' \notin {"ok", "exited", "StillRunning", "Declined"} => Answered' = "failed"
BY DEF Answered

(* Who was told, and who is finished with, in the contract's words.        *)
LEMMA ToldNow ==
    ASSUME IInv, StopInv, ContractInv, NEW m \in Requested
    PROVE  /\ Contract!Told(m) <=> Terminated(m)
           /\ Signalled(m) => Contract!Told(m)
           /\ Contract!Lives(m) <=> Running(m)
           /\ Contract!AsAsked(m) <=> Running(m) /\ procs[m.pid].uid = m.uid
           /\ Contract!Finished(m) <=> Terminated(m) \/ ~Running(m)
<1>1. m \in Identity /\ EnvTypeOK BY RequestedTypes DEF IInv, TypeOK
<1>2. Contract!Told(m) <=> Terminated(m)
  BY DEF Contract!Told, Contract!Signal, Terminated
<1>3. Signalled(m) => Terminated(m) BY DEF ContractInv, ToldInv
<1> QED BY <1>1, <1>2, <1>3, LivesNow DEF Contract!Finished

LEMMA OrderMembers ==
    ASSUME IInv, NEW k \in DOMAIN op.order
    PROVE  op.order[k] \in Requested /\ op.order[k] \in Identity
BY DEF Requested, IInv, TypeOK

(* A quiet step goes unnoticed or gives a true answer.                     *)
LEMMA QuietKeeps ==
    ASSUME IInv, StopInv, ContractInv, StopInv', Quiet
    PROVE  Contract!Return \/ UNCHANGED Contract!contractVars
<1>1. UNCHANGED <<procs, op, sent>> /\ Requested' = Requested
  BY DEF Quiet, envVars, Requested
<1>2. UNCHANGED <<Living, op.order, sent>>
  BY <1>1 DEF Living, IdentityOf
<1>3. Answered = "pending" BY Answers DEF Quiet
<1>4. CASE pc' # "done"
  <2>1. Answered' = "pending" BY <1>4, AnswersNext DEF Quiet
  <2> QED BY <1>2, <1>3, <2>1 DEF Contract!contractVars
<1>5. CASE pc' = "done"
  <2>1. ASSUME outcome' = "ok", NEW k \in DOMAIN op.order
        PROVE  Contract!Finished(op.order[k])
    <3>1. op.order[k] \in Requested BY OrderMembers
    <3>2. Signalled(op.order[k]) \/ ~Running(op.order[k])
      <4>1. Signalled(op.order[k])' \/ ~Running(op.order[k])'
        BY <1>1, <2>1, <3>1 DEF StopInv, MembersInv, OutcomeInv
      <4> QED BY <1>1, <4>1 DEF Signalled, Running
    <3> QED BY <3>1, <3>2, ToldNow DEF ContractInv, ToldInv
  <2>2. ASSUME outcome' \in {"exited", "StillRunning", "Declined"}, NEW k \in DOMAIN op.order
        PROVE  Contract!Told(op.order[k])
    <3>1. op.order[k] \in Requested BY OrderMembers
    <3>2. op.kind = "cli" /\ Terminated(Target)
      BY <1>5, <2>2 DEF Quiet, StopInv, TargetInv
    <3>3. op.order[k] = Target
      BY <3>1, <3>2, SoleTarget DEF StopInv, MembersInv, Multi, Quiet
    <3> QED BY <3>1, <3>2, <3>3, ToldNow
  <2>3. ASSUME outcome' = "exited", NEW k \in DOMAIN op.order
        PROVE  ~Contract!AsAsked(op.order[k])
    <3>1. op.order[k] \in Requested BY OrderMembers
    <3>2. ~(Running(op.order[k]) /\ procs[op.order[k].pid].uid = op.order[k].uid)
      BY <1>1, <2>3, <3>1 DEF StopInv, MembersInv, OutcomeInv, Running
    <3> QED BY <3>1, <3>2, ToldNow
  <2>4. \/ Answered' = "stopped" /\ outcome' = "ok"
        \/ Answered' = "exited" /\ outcome' = "exited"
        \/ Answered' = "running" /\ outcome' \in {"StillRunning", "Declined"}
        \/ Answered' = "failed"
    BY <1>5, AnswersNext
  <2> QED BY <1>2, <1>3, <2>1, <2>2, <2>3, <2>4 DEF Contract!Return
<1> QED BY <1>4, <1>5

(* The same once a step is done.                                           *)
LEMMA LoopsNext == IInv' /\ StopInv' => PreflightGuardsAll' /\ LeafFirst'
BY GuardsNow, LeafFirstNow, PTL

(* An accepted signal is the next in the order, or the last resort.        *)
LEMMA HeardKeeps ==
    ASSUME IInv, StopInv, ContractInv, IInv', StopInv', Heard
    PROVE  (\E k \in DOMAIN op.order : Contract!Tell(k)) \/ Contract!Kill
<1>1. UNCHANGED <<procs, op>> /\ Requested' = Requested
  BY DEF Heard, envVars, Requested
<1>2. UNCHANGED <<Living, op.order>>
  BY <1>1 DEF Living, IdentityOf
<1>3. Answered = "pending" BY Answers DEF Heard
<1>4. Target \in Requested /\ SentTo(Target) /\ sent' # <<>>
  BY HeardSent
<1>5. PICK k \in DOMAIN op.order : op.order[k] = Target
  BY <1>4 DEF Requested
<1>6. Contract!Lives(Target) => Contract!AsAsked(Target)
  BY <1>4, ToldNow DEF Heard
<1>7. /\ \A m \in Requested : Signalled(m) => SignalledNow(m)
      /\ \A m \in Requested : SignalledNow(m) => Signalled(m) \/ m = Target
      /\ SignalledNow(Target)
  BY <1>4, OneMoreSignalled DEF StopInv, MembersInv, Heard
<1>8. \A m \in Requested : Signalled(m)' <=> SignalledNow(m)
  BY DEF Signalled, SignalledNow
<1>9. CASE sig = "KILL"
  <2>1. op.kind = "cli" /\ pc' = "wait"
    BY <1>9 DEF Heard, StopInv, TargetInv, Multi
  <2>2. sent = <<[sig |-> "TERM", pid |-> Target.pid, start |-> Target.start]>>
    BY <1>9, <2>1 DEF Heard, ContractInv, OnceInv, Signalling, Multi
  <2>3. Len(op.order) = 1 /\ op.order[1] = Target
    BY <2>1, SoleOrder DEF Multi, Heard
  <2>4. Answered' = "pending" BY <2>1, AnswersNext
  <2> QED BY <1>2, <1>3, <1>6, <1>9, <2>2, <2>3, <2>4 DEF Contract!Kill, Contract!Signal, Heard
<1>10. CASE sig = "TERM"
  <2>1. ~Contract!Told(Target)
    <3>1. CASE op.kind \notin Multi
      <4>1. sent = <<>>
        BY <1>10, <3>1 DEF Heard, ContractInv, OnceInv, Signalling
      <4> QED BY <4>1 DEF Contract!Told
    <3>2. CASE op.kind \in Multi
      <4>1. Suffix(todo, validated)
        BY <3>2 DEF Heard, StopInv, MembersInv, SignallingInv, Signalling
      <4>2. /\ Before(todo, validated) + 1 \in DOMAIN validated
            /\ Target = validated[Before(todo, validated) + 1]
        BY <4>1, TailSuffix, TargetRequested DEF Target, Heard, IInv, TypeOK
      <4>3. Before(todo, validated) \in Nat
        BY <4>1, SuffixBefore DEF IInv, TypeOK
      <4>4. Signalled(Target) => Before(todo, validated) + 1 <= Before(todo, validated)
        BY <3>2, <4>2 DEF Heard, StopInv, MembersInv, SignallingInv, Signalling
      <4>5. ~Signalled(Target) BY <4>3, <4>4
      <4>6. Terminated(Target) => Signalled(Target) BY DEF Terminated, Signalled
      <4> QED BY <1>4, <4>5, <4>6, ToldNow
    <3> QED BY <3>1, <3>2
  <2>2. ASSUME NEW j \in 1..(k - 1) PROVE Contract!Finished(op.order[j])
    <3>1. j \in DOMAIN op.order /\ j # k
      <4>1. DOMAIN op.order = 1..Len(op.order) /\ Len(op.order) \in Nat
        BY DEF IInv, TypeOK
      <4> QED BY <4>1
    <3>2. op.order[j] \in Requested /\ op.order[j] # Target
      BY <1>5, <3>1, OrderMembers DEF StopInv, MembersInv, OrderInv
    <3>3. Signalled(op.order[j])' \/ ~Running(op.order[j])'
      <4>1. LeafFirst' BY LoopsNext
      <4>2. Signalled(op.order[k])' BY <1>1, <1>5, <1>7 DEF Signalled, SignalledNow
      <4> QED BY <1>1, <3>1, <4>1, <4>2 DEF LeafFirst
    <3>4. Signalled(op.order[j]) \/ ~Running(op.order[j])
      BY <1>1, <1>7, <1>8, <3>2, <3>3 DEF Running
    <3> QED BY <3>2, <3>4, ToldNow DEF ContractInv, ToldInv
  <2>3. ASSUME NEW j \in DOMAIN op.order, Contract!Lives(op.order[j])
        PROVE  op.order[j].uid = Me
    <3>1. op.order[j] \in Requested /\ Running(op.order[j])
      BY <2>3, OrderMembers, ToldNow
    <3>2. CASE op.kind \notin Multi
      BY <3>1, <3>2, SoleTarget DEF Heard, StopInv, MembersInv
    <3>3. CASE op.kind \in Multi
      <4>1. PreflightGuardsAll' BY LoopsNext
      <4> QED BY <1>1, <1>4, <3>1, <3>3, <4>1 DEF PreflightGuardsAll, Running
    <3> QED BY <3>2, <3>3
  <2>4. sent' = Append(sent, Contract!Signal("TERM", op.order[k]))
    BY <1>5, <1>10 DEF Heard, Contract!Signal
  <2>5. \/ Answered' = "pending"
        \/ Answered' = "stopped" /\ \A j \in DOMAIN op.order : j = k \/ Contract!Finished(op.order[j])
    <3>1. CASE pc' # "done"
      BY <3>1, AnswersNext DEF Heard, Multi
    <3>2. CASE pc' = "done"
      <4>1. outcome' = "ok" BY <3>2 DEF Heard
      <4>2. ASSUME NEW j \in DOMAIN op.order, j # k PROVE Contract!Finished(op.order[j])
        <5>1. op.order[j] \in Requested /\ op.order[j] # Target
          BY <1>5, <4>2, OrderMembers DEF StopInv, MembersInv, OrderInv
        <5>2. Signalled(op.order[j])' \/ ~Running(op.order[j])'
          BY <1>1, <4>1, <5>1 DEF StopInv, MembersInv, OutcomeInv
        <5>3. Signalled(op.order[j]) \/ ~Running(op.order[j])
          BY <1>1, <1>7, <1>8, <5>1, <5>2 DEF Running
        <5> QED BY <5>1, <5>3, ToldNow DEF ContractInv, ToldInv
      <4> QED BY <3>2, <4>1, <4>2, AnswersNext
    <3> QED BY <3>1, <3>2
  <2>6. Contract!Tell(k)
    BY <1>2, <1>3, <1>5, <1>6, <2>1, <2>2, <2>3, <2>4, <2>5 DEF Contract!Tell
  <2> QED BY <2>6
<1> QED BY <1>9, <1>10 DEF IInv, TypeOK

(* A request asks for processes as they are.                               *)
LEMMA BeginKeeps ==
    ASSUME IInv, IInv', NEW kind \in Kinds, NEW order \in Orders,
           NEW kill \in BOOLEAN, NEW yes \in BOOLEAN,
           Begin(kind, order, kill, yes)
    PROVE  Contract!Ask
<1>1. order \in Seq(Pids) /\ order # <<>>
  BY ControlAssumption
<1>2. /\ pc \in {"idle", "done"} /\ pc' \in {"preflight", "validate"}
      /\ sent' = <<>> /\ UNCHANGED procs
      /\ op'.order = [k \in DOMAIN order |-> IdentityOf(order[k])]
      /\ \A k \in DOMAIN order : procs[order[k]].state = "alive"
  BY DEF Begin, envVars
<1>3. Answered # "pending" /\ Answered' = "pending"
  BY <1>2, Answers, AnswersNext
<1>4. op'.order # <<>> BY <1>1, <1>2
<1>5. ASSUME NEW k \in DOMAIN op'.order PROVE Contract!AsAsked(op'.order[k])
  <2>1. op'.order[k] \in Identity BY DEF IInv, TypeOK
  <2>2. Running(op'.order[k]) /\ procs[op'.order[k].pid].uid = op'.order[k].uid
    BY <1>2 DEF Running, IdentityOf
  <2> QED BY <2>1, <2>2, LivesNow DEF IInv, TypeOK
<1>6. UNCHANGED Living BY <1>2 DEF Living, IdentityOf
<1> QED BY <1>2, <1>3, <1>4, <1>5, <1>6 DEF Contract!Ask

(* Who has ended, or changed hands, does not come back.                    *)
LEMMA EnvironmentKeeps ==
    ASSUME IInv, IInv', StopInv, ContractInv, Environment
    PROVE  Contract!World
<1>1. EnvStep BY DEF Environment, EnvStep
<1>2. UNCHANGED <<op, pc, outcome, sent>> BY DEF Environment, opVars
<1>3. UNCHANGED Answered BY <1>2 DEF Answered
<1>4. ASSUME NEW k \in DOMAIN op.order
      PROVE  /\ Contract!Lives(op.order[k])' => Contract!Lives(op.order[k])
             /\ Contract!AsAsked(op.order[k])' => Contract!AsAsked(op.order[k])
  <2>1. PICK m \in Requested : m = op.order[k] BY OrderMembers
  <2>2. m \in Identity BY RequestedTypes
  <2>3. Contract!Lives(op.order[k])' = Contract!Lives(m)'
        /\ Contract!AsAsked(op.order[k])' = Contract!AsAsked(m)'
    BY <1>2, <2>1
  <2>4. Running(m)' => Running(m) /\ (procs'[m.pid].uid = m.uid => procs[m.pid].uid = m.uid)
    BY <1>1, OwnersStep DEF ContractInv
  <2>5. /\ Contract!Lives(m)' <=> Running(m)'
        /\ Contract!AsAsked(m)' <=> Running(m)' /\ procs'[m.pid].uid = m.uid
    BY <2>2, LivesNext DEF IInv, TypeOK
  <2> QED BY <2>1, <2>3, <2>4, <2>5, ToldNow
<1> QED BY <1>2, <1>3, <1>4 DEF Contract!World

LEMMA InitKeeps == Init => Contract!Init
BY DEF Init, Contract!Init, Answered

LEMMA StepKeeps ==
    IInv /\ IInv' /\ StopInv /\ StopInv' /\ ContractInv /\ [Next]_vars
      => [Contract!Next]_Contract!contractVars
<1> SUFFICES ASSUME IInv, IInv', StopInv, StopInv', ContractInv, [Next]_vars
             PROVE  [Contract!Next]_Contract!contractVars
  OBVIOUS
<1>1. CASE Quiet
  BY <1>1, QuietKeeps DEF Contract!Next
<1>2. CASE Heard
  BY <1>2, HeardKeeps DEF Contract!Next
<1>3. CASE Environment
  BY <1>3, EnvironmentKeeps DEF Contract!Next
<1>4. CASE UNCHANGED vars
  BY <1>4 DEF vars, envVars, opVars, Living, IdentityOf, Answered, Contract!contractVars
<1>5. CASE \E kind \in Kinds, order \in Orders, kill, yes \in BOOLEAN :
             Begin(kind, order, kill, yes)
  BY <1>5, BeginKeeps DEF Contract!Next
<1> QED BY <1>1, <1>2, <1>3, <1>4, <1>5, StepKinds

(* A request of any kind keeps the contract of a stop: those asked for are *)
(* told to end, in order, once each, and nobody else; killed is only who   *)
(* was told alone; and the answer is true.                                 *)
THEOREM KeepsContract == Spec => StopsAsPromised
BY InitIInv, StepIInv, InitStop, StepStop, InitContract, StepContract, InitKeeps, StepKeeps,
   PTL DEF Spec, StopsAsPromised, Contract!Spec
=============================================================================
