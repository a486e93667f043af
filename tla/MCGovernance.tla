---------------------------- MODULE MCGovernance ----------------------------
(* Small instances of Governance for TLC.                                  *)
EXTENDS Governance, TLC

CONSTANTS p1, p2, r1, alice, bob

TwoAuthors == (p1 :> alice) @@ (p2 :> bob)
OneAuthor == [p \in Proposals |-> alice]

TenantEdits == [op : {"add", "modify", "drop"}]
Modifications == [op : {"modify"}]
QuorumEdits == [quorum : 0 .. 2]
AllEdits == TenantEdits \cup QuorumEdits

(* Three instances in one run; each keeps to the constants it names, and   *)
(* only p1 is withdrawn.                                                   *)
(*   race        two file submissions and a reconciler, one kind of edit   *)
(*   contention  two proposals on either path, break-glass, no reconciler  *)
(*   alone       one proposal of any kind, a reconciler and a crash        *)
VARIABLE scenario

Within ==
    CASE scenario = "race" ->
           /\ crashes' = 0 /\ resets' = 0 /\ quorum' <= 1 /\ withdraw'[p2] = "no"
           /\ \A p \in Proposals : pc'[p] # "idle" =>
                 rev'[p].origin = "file" /\ rev'[p].change \in Modifications
      [] scenario = "contention" ->
           /\ crashes' = 0 /\ quorum' <= 1 /\ withdraw'[p2] = "no" /\ pc'[r1] = "idle"
           /\ \A p \in Proposals : rev'[p].change \in TenantEdits
      [] OTHER -> resets' = 0 /\ pc'[p2] = "idle"

MCInit == Init /\ scenario \in {"race", "contention", "alone"}
MCNext == Next /\ Within /\ UNCHANGED scenario
MCSpec == MCInit /\ [][MCNext]_<<vars, scenario>>

(* Where there is no reconciler to be fair to, nothing is claimed.         *)
MCFairSpec == MCSpec /\ Fairness
=============================================================================
