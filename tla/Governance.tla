----------------------------- MODULE Governance -----------------------------
(***************************************************************************)
(* Policy revisions: Propose, the governance decision that gates one,      *)
(* Reconcile and Apply, Withdraw, supersession, the lock and break-glass.  *)
(*                                                                         *)
(* Propose and Apply read on the pool and write in separate transactions;  *)
(* each read or transaction is an action. The governance decision is kept  *)
(* to its state and its approvals (Decision.tla is the detailed account).  *)
(***************************************************************************)
EXTENDS Integers, FiniteSetsExt

CONSTANTS
    Proposals,     \* calls of Propose; a revision is named after its call
    Reconcilers,   \* goroutines in Reconcile (the loop, and after approvals)
    Admins,        \* the approver set of the governance quorum
    Author,        \* [Proposals -> Admins]
    Changes,       \* the deltas that may be proposed
    Origins,       \* the authoring paths in use: "form" and "file"
    Floor,         \* the operator's MinApprovers
    MaxCrashes,    \* bound: actors that may die half way
    MaxResets,     \* bound: break-glass runs
    Nobody         \* no revision

(* A change adds, modifies or drops the tenant's policy, or sets the       *)
(* governance quorum (0 removes it).                                       *)
Deltas == [op : {"add", "modify", "drop"}] \cup [quorum : Nat]
TenantChange(c) == "op" \in DOMAIN c

Actors == Proposals \cup Reconcilers

ASSUME ActorsAssumption ==
    Proposals \cap Reconcilers = {} /\ Nobody \notin Proposals /\ IsFiniteSet(Admins)
ASSUME InputsAssumption ==
    Author \in [Proposals -> Admins] /\ Changes \subseteq Deltas /\ Origins \subseteq {"form", "file"}
ASSUME GovernanceBounds == {Floor, MaxCrashes, MaxResets} \subseteq Nat

VARIABLES
    quorum,    \* threshold of the reserved policy in force, 0 before the lock
    token,     \* the bootstrap token: "live" or "spent"
    held,      \* is the tenant's policy in the effective set
    version,   \* how many revisions of the tenant's set took effect
    rev,       \* policy_revisions
    dec,       \* the governance decisions, by revision
    votes,     \* who approved each of them
    pc, mem,   \* where each actor is and what it has read
    withdraw,  \* what a Withdraw in progress has read of the revision
    crashes, resets

policySet == <<quorum, token, held, version>>
decisions == <<dec, votes>>
bounds == <<crashes, resets>>
vars == <<policySet, rev, decisions, pc, mem, withdraw, bounds>>

NoChange == [op |-> "modify"]
NoRev == [state |-> "none", attached |-> FALSE, origin |-> "form", change |-> NoChange,
          need |-> 0, via |-> "none", judged |-> 0, on |-> 0]
NoMem == [target |-> Nobody, via |-> "none", snapshot |-> 0]

Init ==
    /\ quorum = 0 /\ token = "live" /\ held = TRUE /\ version = 0
    /\ rev = [p \in Proposals |-> NoRev]
    /\ dec = [p \in Proposals |-> "none"] /\ votes = [p \in Proposals |-> {}]
    /\ pc = [a \in Actors |-> "idle"] /\ mem = [a \in Actors |-> NoMem]
    /\ withdraw = [p \in Proposals |-> "no"]
    /\ crashes = 0 /\ resets = 0

Goto(a, l) == pc' = [pc EXCEPT ![a] = l]
Stay(a, l) == Goto(a, l) /\ UNCHANGED mem
(* Propose is called once per revision; a reconciler starts over.          *)
Finish(a) == /\ Goto(a, IF a \in Proposals THEN "done" ELSE "idle")
             /\ mem' = [mem EXCEPT ![a] = NoMem]
Pending == {p \in Proposals : rev[p].state = "pending"}

-----------------------------------------------------------------------------
(* Propose.                                                                *)

(* Mutant: a file submission replaces whatever is open.                     *)
SupersedesAny(open, incoming) == incoming = "file"

(* supersedes: only the file path replaces its own.                        *)
Supersedes(open, incoming) == open = incoming /\ incoming = "file"

(* Delta.Result: what a delta needs of the set it is applied to.           *)
Applies(c) == TenantChange(c) => (c.op = "add" <=> ~held)

(* Require: the quorum in force, the larger one for a delta that weakens   *)
(* governance, and the floor; nothing before the lock.                     *)
Weakening(c) == IF TenantChange(c) THEN c.op = "drop" ELSE c.quorum < quorum
Require(c) ==
    LET threshold == IF Weakening(c) /\ ~TenantChange(c) THEN Max({quorum, c.quorum}) ELSE quorum
    IN  IF quorum = 0 THEN 0 ELSE Max({threshold, Floor})
Reachable(need, p) == need <= Cardinality(Admins \ {Author[p]})

(* gate: refused while another revision is open that is not to be replaced.*)
MayPropose(origin) == \A q \in Pending : Supersedes(rev[q].origin, origin)

(* CheckSatisfiable and validateOutcome: a quorum the delta sets can be    *)
(* met and is not taken away after the lock, and the delta fits the set.   *)
Admissible(c) ==
    /\ Applies(c)
    /\ ~TenantChange(c) => /\ c.quorum <= Cardinality(Admins)
                           /\ quorum > 0 => c.quorum > 0

(* gate, then assess: everything it concludes is from the state it reads.  *)
Assess(p, origin, c) ==
    /\ pc[p] = "idle"
    /\ MayPropose(origin)
    /\ Admissible(c)
    /\ Reachable(Require(c), p)
    /\ rev' = [rev EXCEPT ![p] = [NoRev EXCEPT !.origin = origin, !.change = c,
                                               !.need = Require(c)]]
    /\ Stay(p, IF quorum = 0 THEN "verify" ELSE "insert")
    /\ UNCHANGED <<policySet, decisions, withdraw, bounds>>

(* Bootstrap.Verify, outside any transaction.                              *)
Verify(p) ==
    /\ pc[p] = "verify"
    /\ IF token = "live" THEN Stay(p, "insert") ELSE Finish(p)
    /\ UNCHANGED <<policySet, rev, decisions, withdraw, bounds>>

Close(p, s) == [rev EXCEPT ![p].state = s]

(* cancelDecision: a decision already resolved is left as it is.           *)
CancelDecision(p) == [dec EXCEPT ![p] = IF @ = "pending" THEN "cancelled" ELSE @]

(* Mutant: no unique index on the pending state.                            *)
InsertProposalNoIndex(p) ==
    /\ pc[p] = "insert"
    /\ rev' = Close(p, "pending")
    /\ Stay(p, "decide")
    /\ UNCHANGED <<policySet, decisions, withdraw, bounds>>

(* supersede: the open revision is closed and its decision goes with it.   *)
Supersede(q, p) ==
    /\ Supersedes(rev[q].origin, rev[p].origin)
    /\ rev' = [Close(q, "superseded") EXCEPT ![p].state = "pending"]
    /\ dec' = IF rev[q].attached THEN CancelDecision(q) ELSE dec

(* insertProposal: supersede and INSERT in one transaction; the partial    *)
(* unique index admits one pending row.                                    *)
InsertProposal(p) ==
    /\ pc[p] = "insert"
    /\ \/ /\ Pending = {}
          /\ rev' = Close(p, "pending")
          /\ Stay(p, "decide")
          /\ UNCHANGED dec
       \/ \E q \in Pending : Supersede(q, p) /\ Stay(p, "decide")
       \/ /\ \E q \in Pending : ~Supersedes(rev[q].origin, rev[p].origin)
          /\ Finish(p)
          /\ UNCHANGED <<rev, dec>>
    /\ UNCHANGED <<policySet, votes, withdraw, bounds>>

(* decide: CreateDecision, and advance in a later transaction, which       *)
(* allows a decision with nothing to collect.                              *)
OpenDecision(p) ==
    /\ pc[p] = "decide"
    /\ dec' = [dec EXCEPT ![p] = "pending"]
    /\ Stay(p, "settle")
    /\ UNCHANGED <<policySet, rev, votes, withdraw, bounds>>

SettleDecision(p) ==
    /\ pc[p] = "settle"
    /\ dec' = [dec EXCEPT ![p] = IF @ = "pending" /\ rev[p].need = 0 THEN "allowed" ELSE @]
    /\ Stay(p, IF dec'[p] = "allowed" THEN "attach_apply" ELSE "attach")
    /\ UNCHANGED <<policySet, rev, votes, withdraw, bounds>>

(* decide failed: the row goes unless somebody got to it first.            *)
Discard(p) ==
    /\ pc[p] \in {"decide", "settle"}
    /\ rev' = IF rev[p].state = "pending" /\ ~rev[p].attached THEN Close(p, "discarded") ELSE rev
    /\ Finish(p)
    /\ UNCHANGED <<policySet, decisions, withdraw, bounds>>

(* A statement of its own, whatever state the revision is in by now; then  *)
(* Apply straight away when the decision came back allowed.                *)
Attach(p) ==
    /\ pc[p] \in {"attach", "attach_apply"}
    /\ rev' = [rev EXCEPT ![p].attached = TRUE]
    /\ IF pc[p] = "attach_apply"
       THEN Goto(p, "get") /\ mem' = [mem EXCEPT ![p] = [NoMem EXCEPT !.target = p]]
       ELSE Finish(p)
    /\ UNCHANGED <<policySet, decisions, withdraw, bounds>>

-----------------------------------------------------------------------------
(* Apply, by the proposer or by a reconciler.                              *)

Reconcile(r) ==
    /\ pc[r] = "idle"
    /\ \E p \in Pending : mem' = [mem EXCEPT ![r] = [NoMem EXCEPT !.target = p]]
    /\ Goto(r, "get")
    /\ UNCHANGED <<policySet, rev, decisions, withdraw, bounds>>

(* Get: no decision on the row means there is none to wait for.            *)
ApplyGet(a) ==
    /\ pc[a] = "get"
    /\ LET v == rev[mem[a].target]
       IN  CASE v.state # "pending" -> Finish(a)
             [] v.state = "pending" /\ v.attached -> Stay(a, "check")
             [] OTHER -> Stay(a, "plan")
    /\ UNCHANGED <<policySet, rev, decisions, withdraw, bounds>>

(* Mutant: anything but allowed is still to be approved.                    *)
ApplyCheckNoReject(a) ==
    /\ pc[a] = "check"
    /\ \/ /\ dec[mem[a].target] = "allowed"
          /\ Goto(a, "plan")
          /\ mem' = [mem EXCEPT ![a].via = "decision"]
       \/ dec[mem[a].target] # "allowed" /\ Finish(a)
    /\ UNCHANGED <<policySet, rev, decisions, withdraw, bounds>>

ApplyCheck(a) ==
    /\ pc[a] = "check"
    /\ LET d == dec[mem[a].target]
       IN  \/ /\ d = "allowed"
              /\ Goto(a, "plan")
              /\ mem' = [mem EXCEPT ![a].via = "decision"]
           \/ /\ d = "pending"
              /\ Finish(a)
           \/ /\ d \notin {"allowed", "pending"}
              /\ Stay(a, "reject")
    /\ UNCHANGED <<policySet, rev, decisions, withdraw, bounds>>

(* tenantSet and Result, on the pool: the set the open decisions are about *)
(* to be judged against. A delta that no longer fits is an error.          *)
ApplyPlan(a) ==
    /\ pc[a] = "plan"
    /\ IF Applies(rev[mem[a].target].change)
       THEN Goto(a, "apply") /\ mem' = [mem EXCEPT ![a].snapshot = version]
       ELSE Finish(a)
    /\ UNCHANGED <<policySet, rev, decisions, withdraw, bounds>>

(* Mutant: closeProposal does not test the state it replaces.               *)
ApplyCommitAlways(a) ==
    /\ pc[a] = "apply"
    /\ LET p == mem[a].target
           c == rev[p].change
       IN  /\ rev' = [rev EXCEPT ![p] = [@ EXCEPT !.state = "applied",
                           !.via = mem[a].via, !.judged = mem[a].snapshot, !.on = version]]
           /\ IF TenantChange(c)
              THEN held' = (c.op # "drop") /\ version' = version + 1 /\ UNCHANGED quorum
              ELSE quorum' = c.quorum /\ UNCHANGED <<held, version>>
    /\ Finish(a)
    /\ UNCHANGED <<token, decisions, withdraw, bounds>>

(* One transaction; closeProposal finding the row no longer pending rolls  *)
(* all of it back.                                                         *)
ApplyCommit(a) ==
    /\ pc[a] = "apply"
    /\ LET p == mem[a].target
           c == rev[p].change
       IN  IF rev[p].state # "pending" THEN UNCHANGED <<policySet, rev>>
           ELSE /\ rev' = [rev EXCEPT ![p] = [@ EXCEPT !.state = "applied",
                                !.via = mem[a].via, !.judged = mem[a].snapshot, !.on = version]]
                /\ IF TenantChange(c)
                   THEN held' = (c.op # "drop") /\ version' = version + 1 /\ UNCHANGED quorum
                   ELSE quorum' = c.quorum /\ UNCHANGED <<held, version>>
                /\ UNCHANGED token
    /\ Finish(a)
    /\ UNCHANGED <<decisions, withdraw, bounds>>

ApplyReject(a) ==
    /\ pc[a] = "reject"
    /\ LET p == mem[a].target
       IN  rev' = IF rev[p].state = "pending" THEN Close(p, "rejected") ELSE rev
    /\ Finish(a)
    /\ UNCHANGED <<policySet, decisions, withdraw, bounds>>

-----------------------------------------------------------------------------
(* Withdraw, by the proposer: the read takes no lock on the row.           *)
WithdrawRead(p) ==
    /\ withdraw[p] = "no" /\ rev[p].state = "pending"
    /\ withdraw' = [withdraw EXCEPT ![p] = IF rev[p].attached THEN "gated" ELSE "bare"]
    /\ UNCHANGED <<policySet, rev, decisions, pc, mem, bounds>>

WithdrawClose(p) ==
    /\ withdraw[p] \in {"gated", "bare"}
    /\ withdraw' = [withdraw EXCEPT ![p] = "over"]
    /\ IF rev[p].state = "pending"
       THEN /\ rev' = Close(p, "withdrawn")
            /\ dec' = IF withdraw[p] = "gated" THEN CancelDecision(p) ELSE dec
       ELSE UNCHANGED <<rev, dec>>
    /\ UNCHANGED <<policySet, votes, pc, mem, bounds>>

-----------------------------------------------------------------------------
(* Mutant: the proposer stays eligible.                                     *)
ApproveByAnyone(p, who) ==
    /\ dec[p] = "pending" /\ rev[p].need > 0
    /\ who \in Admins \ votes[p]
    /\ votes' = [votes EXCEPT ![p] = @ \cup {who}]
    /\ dec' = [dec EXCEPT ![p] = IF Cardinality(votes'[p]) >= rev[p].need THEN "allowed" ELSE @]
    /\ UNCHANGED <<policySet, rev, pc, mem, withdraw, bounds>>

(* The decision, from outside: approvals by anyone but the proposer, and   *)
(* the sweeper.                                                            *)
Approve(p, who) ==
    /\ dec[p] = "pending" /\ rev[p].need > 0
    /\ who \in Admins \ (votes[p] \cup {Author[p]})
    /\ votes' = [votes EXCEPT ![p] = @ \cup {who}]
    /\ dec' = [dec EXCEPT ![p] = IF Cardinality(votes'[p]) >= rev[p].need THEN "allowed" ELSE @]
    /\ UNCHANGED <<policySet, rev, pc, mem, withdraw, bounds>>

Expire(p) ==
    /\ dec[p] = "pending"
    /\ dec' = [dec EXCEPT ![p] = "expired"]
    /\ UNCHANGED <<policySet, rev, votes, pc, mem, withdraw, bounds>>

(* Lock: the transaction tests the mode and spends the token itself.       *)
Lock(threshold) ==
    /\ token = "live" /\ quorum = 0
    /\ quorum' = threshold
    /\ token' = "spent"
    /\ UNCHANGED <<held, version, rev, decisions, pc, mem, withdraw, bounds>>

(* refuseIfRunning and refuseIfClaimed: no process is up.                   *)
Quiet == /\ \A a \in Actors : pc[a] \in {"idle", "done"}
         /\ \A p \in Proposals : withdraw[p] \in {"no", "over"}

(* BreakGlass runs only while no process holds an audit writer.            *)
BreakGlass ==
    /\ resets < MaxResets /\ Quiet
    /\ quorum' = 0 /\ token' = "live" /\ resets' = resets + 1
    /\ UNCHANGED <<held, version, rev, decisions, pc, mem, withdraw, crashes>>

Crash(a) ==
    /\ pc[a] \notin {"idle", "done"} /\ crashes < MaxCrashes
    /\ crashes' = crashes + 1
    /\ Finish(a)
    /\ UNCHANGED <<policySet, rev, decisions, withdraw, resets>>

-----------------------------------------------------------------------------
Apply(a) == \/ ApplyGet(a) \/ ApplyCheck(a) \/ ApplyPlan(a)
            \/ ApplyCommit(a) \/ ApplyReject(a)

Propose(p) == \/ \E origin \in Origins, c \in Changes : Assess(p, origin, c)
              \/ Verify(p) \/ InsertProposal(p) \/ OpenDecision(p) \/ SettleDecision(p)
              \/ Discard(p) \/ Attach(p) \/ Apply(p)

Reconciler(r) == Reconcile(r) \/ Apply(r)

Next == \/ \E p \in Proposals : Propose(p) \/ WithdrawRead(p) \/ WithdrawClose(p) \/ Expire(p)
        \/ \E p \in Proposals, who \in Admins : Approve(p, who)
        \/ \E r \in Reconcilers : Reconciler(r)
        \/ \E threshold \in 1 .. Cardinality(Admins) : Lock(threshold)
        \/ BreakGlass
        \/ \E a \in Actors : Crash(a)

Spec == Init /\ [][Next]_vars

(* The reconcile loop runs, and the sweeper ends a decision nobody         *)
(* approved. Nothing is assumed of proposers, approvers or withdrawals.    *)
Fairness == /\ \A r \in Reconcilers : WF_vars(Reconciler(r))
            /\ \A p \in Proposals : WF_vars(Expire(p))
FairSpec == Spec /\ Fairness

-----------------------------------------------------------------------------
(* Types.                                                                  *)
RevStates == {"none", "pending", "applied", "withdrawn", "rejected", "superseded", "discarded"}
DecStates == {"none", "pending", "allowed", "denied", "expired", "cancelled"}
Labels == {"idle", "verify", "insert", "decide", "settle", "attach", "attach_apply",
           "get", "check", "plan", "apply", "reject", "done"}
Revisions == [state : RevStates, attached : BOOLEAN, origin : {"form", "file"}, change : Deltas,
              need : Nat, via : {"none", "decision"}, judged : Nat, on : Nat]
Memories == [target : Proposals \cup {Nobody}, via : {"none", "decision"}, snapshot : Nat]

TypeOK ==
    /\ quorum \in Nat /\ token \in {"live", "spent"} /\ held \in BOOLEAN /\ version \in Nat
    /\ rev \in [Proposals -> Revisions]
    /\ dec \in [Proposals -> DecStates] /\ votes \in [Proposals -> SUBSET Admins]
    /\ pc \in [Actors -> Labels] /\ mem \in [Actors -> Memories]
    /\ withdraw \in [Proposals -> {"no", "gated", "bare", "over"}]
    /\ crashes \in Nat /\ resets \in Nat

-----------------------------------------------------------------------------
(* Properties.                                                             *)

(* The pending row is the gate: one holder, one turn per revision, and a   *)
(* revision takes effect once however many reconcilers and proposers apply *)
(* it at the same time (serialize.go, closeProposal).                      *)
Gate == INSTANCE RevisionGate WITH
    holder <- IF Pending = {} THEN Nobody ELSE CHOOSE p \in Pending : TRUE,
    waiting <- {p \in Proposals : rev[p].state = "none"},
    inForce <- {p \in Proposals : rev[p].state = "applied"}
ImplementsGate == Gate!Spec

(* Apply builds the set that open decisions are re-judged against before   *)
(* its transaction; when the revision commits, that set is still the one   *)
(* in force.                                                               *)
JudgedOnSetInForce == \A p \in Proposals : rev[p].state = "applied" => rev[p].judged = rev[p].on

(* serialize.go, supersede: a proposal made at the console is never        *)
(* replaced by another authoring path, however the check outside the       *)
(* transaction and the one inside it interleave.                           *)
ConsoleProposalKept ==
    [][\A p \in Pending : rev[p].origin = "form" => rev'[p].state # "superseded"]_vars

(* A revision applied on the strength of its decision has its quorum, and  *)
(* its proposer is not part of it (Propose: "with the proposer removed     *)
(* from the eligible set").                                                *)
AppliedOnQuorum ==
    \A p \in Proposals : (rev[p].state = "applied" /\ rev[p].via = "decision") =>
        /\ dec[p] = "allowed"
        /\ Cardinality(votes[p]) >= rev[p].need
        /\ Author[p] \notin votes[p]

(* Migration 000005: decision_id "is null only in solo-admin mode before   *)
(* the lock": a revision that needs approvals never takes effect without   *)
(* its decision.                                                           *)
NullOnlyBeforeLock ==
    \A p \in Proposals : (rev[p].state = "applied" /\ rev[p].need > 0) => rev[p].via = "decision"

(* A revision does not hold the gate for ever: the reconcile loop closes   *)
(* it once its decision has resolved, and the lifetime cap resolves it.    *)
GateReleased == \A p \in Proposals : rev[p].state = "pending" ~> rev[p].state # "pending"
=============================================================================
