---------------------------- MODULE RevisionGate ----------------------------
(***************************************************************************)
(* What serialize.go promises about policy revisions: one revision at a    *)
(* time holds the gate, a revision gets one turn, and only the holder can  *)
(* take effect, once. Governance.tla implements this.                      *)
(***************************************************************************)
CONSTANTS Proposals, Nobody

VARIABLES
    holder,    \* the revision in state pending, or Nobody
    waiting,   \* revisions that have not had their turn
    inForce    \* revisions that took effect

gateVars == <<holder, waiting, inForce>>

Init == holder = Nobody /\ waiting = Proposals /\ inForce = {}

(* insertProposal, onto a free gate or over a proposal it supersedes.      *)
Take(p) == /\ p \in waiting
           /\ holder' = p
           /\ waiting' = waiting \ {p}
           /\ UNCHANGED inForce

(* withdrawn, rejected or discarded.                                       *)
Release == /\ holder # Nobody
           /\ holder' = Nobody
           /\ UNCHANGED <<waiting, inForce>>

TakeEffect == /\ holder # Nobody
              /\ holder' = Nobody
              /\ inForce' = inForce \cup {holder}
              /\ UNCHANGED waiting

Next == (\E p \in Proposals : Take(p)) \/ Release \/ TakeEffect

Spec == Init /\ [][Next]_gateVars

=============================================================================
