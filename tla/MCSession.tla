---------------------------- MODULE MCSession ----------------------------
(***************************************************************************)
(* A unit and a daemon started by hand, one machine word of 16 bits with a *)
(* MiB of 16 bytes, a text whose sizes and minutes saturate, one that is   *)
(* not valid and one that does not parse.                                  *)
(***************************************************************************)
EXTENDS Session, TLC

CONSTANTS Unit1, Hand, Guard, Worker, Bin, Odd, Rel

MCTexts == {Text(("max_memory" :> 20000) @@ ("growth_window" :> 2000) @@ ("ignored_names" :> {Worker})),
            Text("poll_interval" :> 0), Malformed}

MCTargets == {[kind |-> "event", name |-> Worker, executable |-> {Bin}],
              [kind |-> "event", name |-> Worker, executable |-> {}],
              [kind |-> "tree", name |-> Worker, executable |-> {Bin}],
              [kind |-> "app", name |-> Worker, executable |-> {Odd}],
              [kind |-> "app", name |-> Worker, executable |-> {}]}

Budget(crashes, edits, clicks, starts, stops, queries) ==
    [crashes |-> crashes, edits |-> edits, clicks |-> clicks, starts |-> starts,
     stops |-> stops, queries |-> queries]

(* Two clicks among crashes and edits; two daemons; a client.              *)
MCBudgets == {Budget(1, 1, 2, 0, 0, 0), Budget(2, 0, 1, 1, 1, 0), Budget(1, 0, 0, 2, 1, 1)}
=============================================================================
