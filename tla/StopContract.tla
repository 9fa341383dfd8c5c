---------------------------- MODULE StopContract ----------------------------
(***************************************************************************)
(* What a stop promises, abstractly, whoever asks and however many: those  *)
(* asked for are told to end, in the order asked, once each, and nobody    *)
(* else; killed is only who was asked for alone and has been told; and the *)
(* answer is true.  Processes end and change hands at any time.            *)
(***************************************************************************)
EXTENDS Integers, Sequences

CONSTANT Me  \* the user Resource Guard runs as

VARIABLES
    living,   \* the processes that run: PID, owner and start time
    asked,    \* the identities to stop, leaf first
    signals,  \* what the kernel delivered, first to last
    answer    \* "none" before the first request, "pending", or what was said

contractVars == <<living, asked, signals, answer>>

Signal(sig, m) == [sig |-> sig, pid |-> m.pid, start |-> m.start]
Told(m) == \E k \in DOMAIN signals : signals[k] = Signal("TERM", m)
AsAsked(m) == m \in living
Lives(m) == \E i \in living : i.pid = m.pid /\ i.start = m.start
Finished(m) == Told(m) \/ ~Lives(m)

Init == asked = <<>> /\ signals = <<>> /\ answer = "none"

Ask ==
    /\ answer # "pending" /\ answer' = "pending"
    /\ asked' # <<>> /\ \A k \in DOMAIN asked' : AsAsked(asked'[k])
    /\ signals' = <<>>
    /\ UNCHANGED living

(* Nobody is told before those ahead of it are finished with, nor while    *)
(* anyone lives who was asked for and is not the user's.  With the last    *)
(* the answer may come at once.                                            *)
Tell(k) ==
    /\ answer = "pending"
    /\ ~Told(asked[k]) /\ \A j \in 1..(k - 1) : Finished(asked[j])
    /\ Lives(asked[k]) => AsAsked(asked[k])
    /\ \A j \in DOMAIN asked : Lives(asked[j]) => asked[j].uid = Me
    /\ signals' = Append(signals, Signal("TERM", asked[k]))
    /\ \/ answer' = "pending"
       \/ answer' = "stopped" /\ \A j \in DOMAIN asked : j = k \/ Finished(asked[j])
    /\ UNCHANGED <<living, asked>>

Kill ==
    /\ answer = "pending"
    /\ Len(asked) = 1 /\ signals = <<Signal("TERM", asked[1])>>
    /\ Lives(asked[1]) => AsAsked(asked[1])
    /\ signals' = Append(signals, Signal("KILL", asked[1]))
    /\ UNCHANGED <<living, asked, answer>>

Return ==
    /\ answer = "pending"
    /\ \/ answer' = "stopped" /\ \A k \in DOMAIN asked : Finished(asked[k])
       \/ answer' = "exited" /\ \A k \in DOMAIN asked : Told(asked[k]) /\ ~AsAsked(asked[k])
       \/ answer' = "running" /\ \A k \in DOMAIN asked : Told(asked[k])
       \/ answer' = "failed"
    /\ UNCHANGED <<living, asked, signals>>

(* Who was asked for and has ended, or changed hands, does not come back.  *)
World ==
    /\ UNCHANGED <<asked, signals, answer>>
    /\ \A k \in DOMAIN asked :
          /\ Lives(asked[k])' => Lives(asked[k])
          /\ AsAsked(asked[k])' => AsAsked(asked[k])

Next == World \/ Ask \/ (\E k \in DOMAIN asked : Tell(k)) \/ Kill \/ Return

Spec == Init /\ [][Next]_contractVars
=============================================================================
