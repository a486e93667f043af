-------------------------- MODULE DecisionLifecycle --------------------------
(***************************************************************************)
(* What internal/decision/lifecycle.go promises about one decision: it is  *)
(* created once, it moves along one declared edge out of pending, and the  *)
(* audit log holds exactly one decision.resolved entry for that move.      *)
(* This is the abstract specification that Decision.tla implements.        *)
(***************************************************************************)
EXTENDS Naturals, Sequences

VARIABLES
    state,        \* decisions.state, "absent" before the row is inserted
    resolutions   \* the decision.resolved audit entries, in chain order

lifecycleVars == <<state, resolutions>>

States == {"pending", "allowed", "denied", "expired", "cancelled"}
Terminal == States \ {"pending"}

(* The transition table: one edge out of pending per trigger.              *)
Transitions == [challenges_satisfied |-> "allowed",
                challenge_failed     |-> "denied",
                revalidation         |-> "denied",
                expiry               |-> "expired",
                cancellation         |-> "cancelled"]
Triggers == DOMAIN Transitions

(* lifecycle.Next refuses an unknown state, an unknown transition and      *)
(* every edge out of a terminal state; otherwise it answers t.To().        *)
Legal(from, trigger) == from = "pending" /\ trigger \in Triggers

TypeOK == /\ state \in States \cup {"absent"}
          /\ resolutions \in Seq(Terminal)

Init == state = "absent" /\ resolutions = <<>>

Create == /\ state = "absent"
          /\ state' = "pending"
          /\ UNCHANGED resolutions

Resolve(trigger) == /\ Legal(state, trigger)
                    /\ state' = Transitions[trigger]
                    /\ resolutions' = Append(resolutions, Transitions[trigger])

Next == Create \/ \E trigger \in Triggers : Resolve(trigger)

Spec == Init /\ [][Next]_lifecycleVars

-----------------------------------------------------------------------------
(* The log and the row agree: no resolution while the decision is absent   *)
(* or pending, and exactly one afterwards, naming the state it reached     *)
(* (lifecycle.go: "how two sweepers racing the same expired decision end   *)
(* up resolving it once").                                                 *)
ResolvedExactlyOnce ==
    resolutions = IF state \in Terminal THEN <<state>> ELSE <<>>
=============================================================================
