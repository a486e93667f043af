----------------------------- MODULE MCDecision -----------------------------
(* Constants for model checking Decision.tla.                              *)
EXTENDS Decision

CONSTANTS alice, bob

Quorum(n, who) == [kind |-> "quorum", need |-> n, who |-> who]
Wait(n, who) == [kind |-> "delay", need |-> n, who |-> who]
Text(m, gates) == [deny |-> FALSE, material |-> <<m>>, gates |-> gates]
Refusal == [deny |-> TRUE, material |-> <<"none">>, gates |-> <<>>]

(* Two approvals out of two people, never revised.                         *)
QuorumOnly == <<Text("a", <<Quorum(2, {alice, bob})>>)>>

(* A wait that one person may cancel.                                      *)
WaitOnly == <<Text("a", <<Wait(1, {alice})>>)>>

(* The approver set and the wait grow, the shape changes, the text denies. *)
Revisions == <<Text("a", <<Quorum(1, {alice}), Wait(1, {alice})>>),
               Text("a", <<Quorum(2, {alice, bob}), Wait(2, {alice})>>),
               Text("b", <<Wait(1, {alice})>>),
               Refusal>>
=============================================================================
