--------------------------- MODULE GovernanceProofs -------------------------
(***************************************************************************)
(* What holds of policy revisions for any number of proposals, reconcilers *)
(* and administrators, any deltas and any number of crashes and resets.    *)
(*                                                                         *)
(* The properties rest on one another: that two revisions are never open   *)
(* at once (OneOpen) is what keeps an applier's plan current while another *)
(* actor applies (Planned), and a resolved decision staying resolved is    *)
(* what lets Apply test it before its transaction (Trusted).               *)
(***************************************************************************)
EXTENDS Governance, FiniteSetTheorems, TLAPS

Before == {"idle", "verify", "insert"}
After == {"decide", "settle", "attach", "attach_apply"}
Applying == {"get", "check", "plan", "apply", "reject"}

(* Where Propose is tells what the revision and its decision can be.       *)
Placed == \A p \in Proposals :
    /\ pc[p] \in Before => rev[p].state = "none"
    /\ pc[p] \in Before \cup {"decide"} => dec[p] = "none"
    /\ pc[p] \in After => rev[p].state # "none"

(* The partial unique index.                                               *)
OneOpen == \A p, q \in Proposals :
    (rev[p].state = "pending" /\ rev[q].state = "pending") => p = q

(* An applier works on a revision that was opened.                         *)
Aimed == \A a \in Actors : pc[a] \in Applying =>
    mem[a].target \in Proposals /\ rev[mem[a].target].state # "none"

(* What it planned on is current as long as its revision is open.          *)
Planned == \A a \in Actors :
    (pc[a] = "apply" /\ rev[mem[a].target].state = "pending") => mem[a].snapshot = version

(* An allowed decision has its quorum, and an applier that saw one allowed *)
(* still finds it so.                                                      *)
Backed == \A p \in Proposals :
    /\ Author[p] \notin votes[p]
    /\ dec[p] = "allowed" => Cardinality(votes[p]) >= rev[p].need
Trusted == \A a \in Actors : mem[a].via = "decision" =>
    mem[a].target \in Proposals /\ dec[mem[a].target] = "allowed"

Inv == /\ TypeOK /\ Placed /\ OneOpen /\ Aimed /\ Planned /\ Backed /\ Trusted
       /\ AppliedOnQuorum /\ JudgedOnSetInForce

-----------------------------------------------------------------------------
(* The number of approvals a proposal needs is a number (Require).         *)
LEMMA RequireType ==
    ASSUME TypeOK, NEW c \in Changes
    PROVE  Require(c) \in Nat
<1>1. \A m, n \in Nat : Max({m, n}) \in Nat
  <2> SUFFICES ASSUME NEW m \in Nat, NEW n \in Nat PROVE Max({m, n}) \in Nat
      OBVIOUS
  <2>1. \E x \in {m, n} : \A y \in {m, n} : x >= y
      OBVIOUS
  <2>2. Max({m, n}) \in {m, n}
      BY <2>1 DEF Max
  <2> QED
      BY <2>2
<1>2. c \in Deltas /\ quorum \in Nat /\ Floor \in Nat
    BY InputsAssumption, GovernanceBounds DEF TypeOK
<1>3. ~TenantChange(c) => c.quorum \in Nat
    BY <1>2 DEF Deltas, TenantChange
<1> QED
    BY <1>1, <1>2, <1>3 DEF Require

(* Changing a revision's state leaves everything else of it (closeProposal)*)
StateOnly(n, r, p, s) ==
    /\ n \in [Proposals -> Revisions]
    /\ \A q \in Proposals :
          /\ n[q].state = IF q = p THEN s ELSE r[q].state
          /\ n[q].need = r[q].need /\ n[q].via = r[q].via
          /\ n[q].judged = r[q].judged /\ n[q].on = r[q].on

(* closeProposal changes the state of the one proposal it names.           *)
LEMMA CloseFacts ==
    ASSUME NEW r \in [Proposals -> Revisions], NEW p \in Proposals, NEW s \in RevStates
    PROVE  StateOnly([r EXCEPT ![p].state = s], r, p, s)
<1> DEFINE v == [r[p] EXCEPT !.state = s]
<1>1. /\ v \in Revisions /\ v.state = s /\ v.need = r[p].need /\ v.via = r[p].via
      /\ v.judged = r[p].judged /\ v.on = r[p].on
    BY DEF Revisions
<1> HIDE DEF v
<1>2. StateOnly([r EXCEPT ![p] = v], r, p, s)
    BY <1>1 DEF StateOnly
<1> QED
    BY <1>2 DEF v

(* A step that leaves the revisions, the decisions and the policy set      *)
(* alone, and moves one actor, keeps the invariant if what the actor now   *)
(* remembers is in order.                                                  *)
LEMMA MoveStep ==
    ASSUME Inv, NEW a \in Actors, NEW l \in Labels, NEW m \in Memories,
           pc' = [pc EXCEPT ![a] = l], mem' = [mem EXCEPT ![a] = m],
           UNCHANGED <<policySet, rev, decisions>>,
           withdraw' \in [Proposals -> {"no", "gated", "bare", "over"}],
           crashes' \in Nat, resets' \in Nat,
           a \in Proposals /\ l \in Before => rev[a].state = "none" /\ dec[a] = "none",
           a \in Proposals /\ l = "decide" => dec[a] = "none",
           a \in Proposals /\ l \in After => rev[a].state # "none",
           l \in Applying => m.target \in Proposals /\ rev[m.target].state # "none",
           (l = "apply" /\ rev[m.target].state = "pending") => m.snapshot = version,
           m.via = "decision" => m.target \in Proposals /\ dec[m.target] = "allowed"
    PROVE  Inv'
<1>1. TypeOK'
    BY DEF Inv, TypeOK, policySet, decisions
<1>2. pc \in [Actors -> Labels] /\ mem \in [Actors -> Memories] /\ Proposals \subseteq Actors
    BY DEF Inv, TypeOK, Actors
<1>3. Placed'
    BY <1>2 DEF Inv, Placed, decisions
<1>4. OneOpen' /\ Backed' /\ AppliedOnQuorum' /\ JudgedOnSetInForce'
    BY DEF Inv, OneOpen, Backed, AppliedOnQuorum, JudgedOnSetInForce, decisions
<1>5. Aimed'
    BY <1>2 DEF Inv, Aimed
<1>6. Planned'
    BY <1>2 DEF Inv, Planned, policySet
<1>7. Trusted'
    BY <1>2 DEF Inv, Trusted, decisions
<1> QED
    BY <1>1, <1>3, <1>4, <1>5, <1>6, <1>7 DEF Inv
(* Leaving a call ends it well: a proposer is done, a reconciler is idle.  *)
LEMMA FinishFacts ==
    ASSUME NEW a \in Actors
    PROVE  /\ NoMem \in Memories /\ NoMem.via = "none"
           /\ (IF a \in Proposals THEN "done" ELSE "idle") \in Labels
           /\ (IF a \in Proposals THEN "done" ELSE "idle") \notin After \cup Applying
           /\ a \in Proposals => (IF a \in Proposals THEN "done" ELSE "idle") \notin Before
BY DEF NoMem, Memories, Labels, After, Applying, Before

(* A call that ends without writing anything keeps the invariant.          *)
LEMMA FinishStep ==
    ASSUME Inv, NEW a \in Actors, Finish(a), UNCHANGED <<policySet, rev, decisions, withdraw>>,
           crashes' \in Nat, resets' \in Nat
    PROVE  Inv'
<1> DEFINE l == IF a \in Proposals THEN "done" ELSE "idle"
<1>1. /\ NoMem \in Memories /\ NoMem.via = "none" /\ l \in Labels
      /\ l \notin After \cup Applying /\ (a \in Proposals => l \notin Before)
    BY FinishFacts
<1>2. l # "apply" /\ l # "decide"
    OBVIOUS
<1>3. pc' = [pc EXCEPT ![a] = l] /\ mem' = [mem EXCEPT ![a] = NoMem]
    BY DEF Finish, Goto
<1>4. withdraw' \in [Proposals -> {"no", "gated", "bare", "over"}]
    BY DEF Inv, TypeOK
<1> HIDE DEF l
<1> QED
    BY <1>1, <1>2, <1>3, <1>4, MoveStep

(* An actor that keeps its memory moves to another label.                  *)
LEMMA StayStep ==
    ASSUME Inv, NEW a \in Actors, NEW l \in Labels, Stay(a, l),
           UNCHANGED <<policySet, rev, decisions, withdraw, bounds>>,
           a \in Proposals /\ l \in Before => rev[a].state = "none" /\ dec[a] = "none",
           a \in Proposals => l \notin After,
           l \in Applying => pc[a] \in Applying, l # "apply"
    PROVE  Inv'
<1>1. mem[a] \in Memories /\ mem \in [Actors -> Memories]
    BY DEF Inv, TypeOK
<1>2. pc' = [pc EXCEPT ![a] = l] /\ mem' = [mem EXCEPT ![a] = mem[a]]
    BY <1>1 DEF Stay, Goto
<1>3. mem[a].via = "decision" => mem[a].target \in Proposals /\ dec[mem[a].target] = "allowed"
    BY DEF Inv, Trusted
<1>4. l \in Applying => mem[a].target \in Proposals /\ rev[mem[a].target].state # "none"
    BY DEF Inv, Aimed
<1>5. /\ withdraw' \in [Proposals -> {"no", "gated", "bare", "over"}]
      /\ crashes' \in Nat /\ resets' \in Nat
    BY DEF Inv, TypeOK, bounds
<1>6. a \in Proposals => l # "decide"
    BY DEF After
<1> QED
    BY <1>1, <1>2, <1>3, <1>4, <1>5, <1>6, MoveStep
-----------------------------------------------------------------------------
(* The reads of Propose and Apply, and a crash, keep the invariant.        *)
LEMMA ReadsKeep ==
    ASSUME Inv,
           \/ \E p \in Proposals : Verify(p)
           \/ \E r \in Reconcilers : Reconcile(r)
           \/ \E a \in Actors : ApplyGet(a) \/ ApplyCheck(a) \/ ApplyPlan(a) \/ Crash(a)
    PROVE  Inv'
<1>a. Proposals \subseteq Actors /\ Reconcilers \subseteq Actors
    BY DEF Actors
<1>t. /\ pc \in [Actors -> Labels] /\ mem \in [Actors -> Memories]
      /\ version \in Nat /\ crashes \in Nat /\ resets \in Nat
      /\ withdraw \in [Proposals -> {"no", "gated", "bare", "over"}]
    BY DEF Inv, TypeOK
<1>1. ASSUME NEW p \in Proposals, Verify(p) PROVE Inv'
  <2>1. UNCHANGED <<policySet, rev, decisions, withdraw, bounds>> /\ UNCHANGED <<crashes, resets>>
      BY <1>1 DEF Verify, bounds
  <2>2. CASE Stay(p, "insert")
    <3>1. rev[p].state = "none" /\ dec[p] = "none"
        BY <1>1 DEF Verify, Inv, Placed, Before
    <3>2. "insert" \in Labels /\ "insert" \notin After /\ "insert" \notin Applying
        BY DEF Labels, After, Applying
    <3> QED
        BY <1>a, <2>1, <2>2, <3>1, <3>2, StayStep
  <2>3. CASE Finish(p)
      BY <1>a, <1>t, <2>1, <2>3, FinishStep
  <2> QED
      BY <1>1, <2>2, <2>3 DEF Verify
<1>2. ASSUME NEW r \in Reconcilers, Reconcile(r) PROVE Inv'
  <2>1. PICK p \in Pending : mem' = [mem EXCEPT ![r] = [NoMem EXCEPT !.target = p]]
      BY <1>2 DEF Reconcile
  <2> DEFINE m == [NoMem EXCEPT !.target = p]
  <2>2. p \in Proposals /\ rev[p].state = "pending" /\ r \notin Proposals
      BY <2>1, ActorsAssumption DEF Pending
  <2>3. m \in Memories /\ m.target = p /\ m.via = "none"
      BY <2>2 DEF NoMem, Memories
  <2>4. pc' = [pc EXCEPT ![r] = "get"] /\ mem' = [mem EXCEPT ![r] = m] /\ "get" \in Labels
      BY <1>2, <2>1 DEF Reconcile, Goto, Labels
  <2>5. UNCHANGED <<policySet, rev, decisions>> /\ UNCHANGED <<withdraw, crashes, resets>>
      BY <1>2 DEF Reconcile, bounds
  <2> HIDE DEF m
  <2> QED
      BY <1>a, <1>t, <2>2, <2>3, <2>4, <2>5, MoveStep
<1>3. ASSUME NEW a \in Actors, ApplyGet(a) PROVE Inv'
  <2>1. UNCHANGED <<policySet, rev, decisions, withdraw, bounds>> /\ UNCHANGED <<crashes, resets>>
      BY <1>3 DEF ApplyGet, bounds
  <2>2. pc[a] \in Applying
      BY <1>3 DEF ApplyGet, Applying
  <2>3. CASE Finish(a)
      BY <1>t, <2>1, <2>3, FinishStep
  <2>4. ASSUME NEW l \in {"check", "plan"}, Stay(a, l) PROVE Inv'
    <3>1. l \in Labels /\ l \notin Before /\ l \notin After /\ l # "apply"
        BY DEF Labels, Before, After
    <3> QED
        BY <2>1, <2>2, <2>4, <3>1, StayStep
  <2> QED
      BY <1>3, <2>3, <2>4 DEF ApplyGet
<1>4. ASSUME NEW a \in Actors, ApplyCheck(a) PROVE Inv'
  <2>1. UNCHANGED <<policySet, rev, decisions, withdraw, bounds>> /\ UNCHANGED <<crashes, resets>>
      BY <1>4 DEF ApplyCheck, bounds
  <2>2. pc[a] \in Applying
      BY <1>4 DEF ApplyCheck, Applying
  <2>3. CASE Finish(a)
      BY <1>t, <2>1, <2>3, FinishStep
  <2>4. CASE Stay(a, "reject")
    <3>1. "reject" \in Labels /\ "reject" \notin Before /\ "reject" \notin After
        BY DEF Labels, Before, After
    <3> QED
        BY <2>1, <2>2, <2>4, <3>1, StayStep
  <2>5. CASE /\ dec[mem[a].target] = "allowed"
             /\ Goto(a, "plan") /\ mem' = [mem EXCEPT ![a].via = "decision"]
    <3> DEFINE m == [mem[a] EXCEPT !.via = "decision"]
    <3>1. m \in Memories /\ m.target = mem[a].target
        BY <1>t DEF Memories
    <3>2. pc' = [pc EXCEPT ![a] = "plan"] /\ mem' = [mem EXCEPT ![a] = m]
        BY <2>5 DEF Goto
    <3>3. mem[a].target \in Proposals /\ rev[mem[a].target].state # "none"
        BY <2>2 DEF Inv, Aimed
    <3>4. "plan" \in Labels /\ "plan" \notin Before /\ "plan" \notin After
        BY DEF Labels, Before, After
    <3>5. UNCHANGED <<policySet, rev, decisions>> /\ UNCHANGED withdraw
        BY <2>1
    <3>6. dec[m.target] = "allowed"
        BY <2>5, <3>1
    <3> HIDE DEF m
    <3> QED
        BY <1>t, <2>1, <3>1, <3>2, <3>3, <3>4, <3>5, <3>6, MoveStep
  <2> QED
      BY <1>4, <2>3, <2>4, <2>5 DEF ApplyCheck
<1>5. ASSUME NEW a \in Actors, ApplyPlan(a) PROVE Inv'
  <2>1. UNCHANGED <<policySet, rev, decisions, withdraw, bounds>> /\ UNCHANGED <<crashes, resets>>
      BY <1>5 DEF ApplyPlan, bounds
  <2>2. pc[a] \in Applying
      BY <1>5 DEF ApplyPlan, Applying
  <2>3. CASE Finish(a)
      BY <1>t, <2>1, <2>3, FinishStep
  <2>4. CASE Goto(a, "apply") /\ mem' = [mem EXCEPT ![a].snapshot = version]
    <3> DEFINE m == [mem[a] EXCEPT !.snapshot = version]
    <3>1. m \in Memories /\ m.target = mem[a].target /\ m.via = mem[a].via /\ m.snapshot = version
        BY <1>t DEF Memories
    <3>2. pc' = [pc EXCEPT ![a] = "apply"] /\ mem' = [mem EXCEPT ![a] = m]
        BY <2>4 DEF Goto
    <3>3. mem[a].target \in Proposals /\ rev[mem[a].target].state # "none"
        BY <2>2 DEF Inv, Aimed
    <3>4. mem[a].via = "decision" => dec[mem[a].target] = "allowed"
        BY DEF Inv, Trusted
    <3>5. "apply" \in Labels /\ "apply" \notin Before /\ "apply" \notin After
        BY DEF Labels, Before, After
    <3>6. UNCHANGED <<policySet, rev, decisions>> /\ UNCHANGED withdraw
        BY <2>1
    <3> HIDE DEF m
    <3> QED
        BY <1>t, <2>1, <3>1, <3>2, <3>3, <3>4, <3>5, <3>6, MoveStep
  <2> QED
      BY <1>5, <2>3, <2>4 DEF ApplyPlan
<1>6. ASSUME NEW a \in Actors, Crash(a) PROVE Inv'
  <2>1. Finish(a) /\ UNCHANGED <<policySet, rev, decisions, withdraw>>
      BY <1>6 DEF Crash
  <2>2. crashes' \in Nat /\ resets' \in Nat
      BY <1>t, <1>6 DEF Crash
  <2> QED
      BY <2>1, <2>2, FinishStep
<1> QED
    BY <1>1, <1>2, <1>3, <1>4, <1>5, <1>6

(* A step that moves no actor and leaves revisions, decisions and the      *)
(* tenant's set alone: Lock, BreakGlass, the read of Withdraw, stuttering. *)
LEMMA StillStep ==
    ASSUME Inv, TypeOK', UNCHANGED <<version, rev, dec, votes, pc, mem>>
    PROVE  Inv'
<1>1. Placed' /\ OneOpen' /\ Aimed' /\ Planned'
    BY DEF Inv, Placed, OneOpen, Aimed, Planned
<1>2. Backed' /\ Trusted' /\ AppliedOnQuorum' /\ JudgedOnSetInForce'
    BY DEF Inv, Backed, Trusted, AppliedOnQuorum, JudgedOnSetInForce
<1> QED
    BY <1>1, <1>2 DEF Inv

(* Those steps, one by one.                                                *)
LEMMA StillKeeps ==
    ASSUME Inv,
           \/ \E p \in Proposals : WithdrawRead(p)
           \/ \E threshold \in 1 .. Cardinality(Admins) : Lock(threshold)
           \/ BreakGlass
           \/ UNCHANGED vars
    PROVE  Inv'
<1>1. ASSUME NEW p \in Proposals, WithdrawRead(p) PROVE Inv'
  <2>1. TypeOK'
      BY <1>1 DEF WithdrawRead, Inv, TypeOK, policySet, decisions, bounds
  <2> QED
      BY <1>1, <2>1, StillStep DEF WithdrawRead, policySet, decisions
<1>2. ASSUME NEW threshold \in 1 .. Cardinality(Admins), Lock(threshold) PROVE Inv'
  <2>1. threshold \in Nat
      BY ActorsAssumption, FS_CardinalityType
  <2>2. TypeOK'
      BY <1>2, <2>1 DEF Lock, Inv, TypeOK, decisions, bounds
  <2> QED
      BY <1>2, <2>2, StillStep DEF Lock, decisions
<1>3. CASE BreakGlass
  <2>1. TypeOK'
      BY <1>3 DEF BreakGlass, Inv, TypeOK, decisions
  <2> QED
      BY <1>3, <2>1, StillStep DEF BreakGlass, decisions
<1>4. CASE UNCHANGED vars
  <2>1. TypeOK'
      BY <1>4 DEF vars, Inv, TypeOK, policySet, decisions, bounds
  <2> QED
      BY <1>4, <2>1, StillStep DEF vars, policySet, decisions
<1> QED
    BY <1>1, <1>2, <1>3, <1>4
-----------------------------------------------------------------------------
(* What a step may do to the decisions: an allowed one is final with its   *)
(* votes and its threshold, and one that becomes allowed has its quorum.   *)
DecisionsMove ==
    /\ \A p \in Proposals : dec[p] = "allowed" =>
           dec'[p] = "allowed" /\ votes'[p] = votes[p] /\ rev'[p].need = rev[p].need
    /\ \A p \in Proposals : (dec[p] # "allowed" /\ dec'[p] = "allowed") =>
           Cardinality(votes'[p]) >= rev'[p].need
    /\ \A p \in Proposals : Author[p] \notin votes'[p]
    /\ \A a \in Actors : mem'[a].via = "decision" =>
           mem'[a].target = mem[a].target /\ mem[a].via = "decision"
    /\ \A p \in Proposals : (rev'[p].state = "applied" /\ rev'[p].via = "decision") =>
           (rev[p].state = "applied" /\ rev[p].via = "decision") \/ dec[p] = "allowed"

(* Such a step keeps what applying relies on (Apply, ResolveDecision).     *)
LEMMA DecisionsKept ==
    ASSUME Inv, DecisionsMove
    PROVE  Backed' /\ Trusted' /\ AppliedOnQuorum'
<1>1. Backed'
    BY DEF Inv, DecisionsMove, Backed
<1>2. Trusted'
    BY DEF Inv, DecisionsMove, Trusted
<1>3. AppliedOnQuorum'
    BY <1>1 DEF Inv, DecisionsMove, Backed, AppliedOnQuorum
<1> QED
    BY <1>1, <1>2, <1>3

(* What a step may do to the revisions: one opens when no other is open,   *)
(* the set in force moves only when none stays open, and an applier keeps  *)
(* its plan or starts on a revision that was opened.                       *)
RevisionsMove ==
    /\ \A p \in Proposals : rev[p].state # "none" => rev'[p].state # "none"
    /\ \A p \in Proposals : (rev'[p].state = "pending" /\ rev[p].state # "pending") =>
           rev[p].state = "none" /\ \A q \in Proposals : q # p => rev'[q].state # "pending"
    /\ \A p \in Proposals : rev'[p].state = "applied" =>
           \/ rev[p].state = "applied" /\ rev'[p].judged = rev[p].judged /\ rev'[p].on = rev[p].on
           \/ rev'[p].judged = rev'[p].on
    /\ version' = version \/ \A p \in Proposals : rev'[p].state # "pending"
    /\ \A a \in Actors : pc'[a] \in Applying =>
           \/ pc'[a] = pc[a] /\ mem'[a] = mem[a]
           \/ /\ pc'[a] # "apply"
              /\ mem'[a].target \in Proposals /\ rev'[mem'[a].target].state # "none"

(* Such a step keeps the gate and every plan made under it.                *)
LEMMA RevisionsKept ==
    ASSUME Inv, RevisionsMove
    PROVE  OneOpen' /\ Aimed' /\ Planned' /\ JudgedOnSetInForce'
<1>1. OneOpen'
    BY DEF Inv, RevisionsMove, OneOpen
<1>2. Aimed'
    BY DEF Inv, RevisionsMove, Aimed
<1>3. Planned'
  <2> SUFFICES ASSUME NEW a \in Actors, pc'[a] = "apply", rev'[mem'[a].target].state = "pending"
               PROVE  mem'[a].snapshot = version'
      BY DEF Planned
  <2>1. pc'[a] \in Applying
      BY DEF Applying
  <2>2. pc[a] = "apply" /\ mem'[a] = mem[a]
      BY <2>1 DEF RevisionsMove
  <2>3. mem[a].target \in Proposals /\ rev[mem[a].target].state # "none"
      BY <2>2 DEF Inv, Aimed, Applying
  <2>4. rev[mem[a].target].state = "pending"
      BY <2>2, <2>3 DEF RevisionsMove
  <2>5. version' = version
      BY <2>2, <2>3 DEF RevisionsMove
  <2> QED
      BY <2>2, <2>4, <2>5 DEF Inv, Planned
<1>4. JudgedOnSetInForce'
    BY DEF Inv, RevisionsMove, JudgedOnSetInForce
<1> QED
    BY <1>1, <1>2, <1>3, <1>4

(* The two together.                                                       *)
LEMMA ChangeStep ==
    ASSUME Inv, TypeOK', Placed', DecisionsMove, RevisionsMove
    PROVE  Inv'
BY DecisionsKept, RevisionsKept DEF Inv

-----------------------------------------------------------------------------
(* Decisions are opened, settled, approved and expire (decide, Submit and  *)
(* the sweeper).                                                           *)
LEMMA DecideKeeps ==
    ASSUME Inv,
           \/ \E p \in Proposals : OpenDecision(p) \/ SettleDecision(p) \/ Expire(p)
           \/ \E p \in Proposals, who \in Admins : Approve(p, who)
    PROVE  Inv'
<1>a. Proposals \subseteq Actors
    BY DEF Actors
<1>t. /\ pc \in [Actors -> Labels] /\ mem \in [Actors -> Memories] /\ rev \in [Proposals -> Revisions]
      /\ dec \in [Proposals -> DecStates] /\ votes \in [Proposals -> SUBSET Admins]
    BY DEF Inv, TypeOK
<1>n. \A p \in Proposals : rev[p].need \in Nat
    BY <1>t DEF Revisions
<1>c. \A p \in Proposals : Cardinality(votes[p]) \in Nat
    BY <1>t, ActorsAssumption, FS_Subset, FS_CardinalityType
<1>1. ASSUME NEW p \in Proposals, OpenDecision(p) PROVE Inv'
  <2>1. /\ dec' = [dec EXCEPT ![p] = "pending"] /\ pc' = [pc EXCEPT ![p] = "settle"]
        /\ UNCHANGED <<policySet, rev, votes, withdraw, bounds, mem>>
      BY <1>1 DEF OpenDecision, Stay, Goto
  <2>2. dec[p] = "none" /\ pc[p] = "decide"
      BY <1>1 DEF OpenDecision, Inv, Placed
  <2>3. TypeOK'
      BY <1>t, <2>1 DEF Inv, TypeOK, policySet, bounds, Labels, DecStates
  <2>4. Placed'
      BY <1>a, <1>t, <2>1, <2>2 DEF Inv, Placed, Before, After
  <2>5. DecisionsMove
      BY <1>t, <2>1, <2>2 DEF Inv, DecisionsMove, Backed
  <2>6. RevisionsMove
      BY <1>a, <1>t, <2>1 DEF Inv, RevisionsMove, JudgedOnSetInForce, policySet, Applying
  <2> QED
      BY <2>3, <2>4, <2>5, <2>6, ChangeStep
<1>2. ASSUME NEW p \in Proposals, SettleDecision(p) PROVE Inv'
  <2> DEFINE l == IF dec'[p] = "allowed" THEN "attach_apply" ELSE "attach"
             d == IF dec[p] = "pending" /\ rev[p].need = 0 THEN "allowed" ELSE dec[p]
  <2>1. /\ dec' = [dec EXCEPT ![p] = d] /\ pc' = [pc EXCEPT ![p] = l]
        /\ UNCHANGED <<policySet, rev, votes, withdraw, bounds, mem>>
      BY <1>2 DEF SettleDecision, Stay, Goto
  <2>2. pc[p] = "settle" /\ l \in Labels /\ l \notin Applying /\ l \notin Before \cup {"decide"}
      BY <1>2 DEF SettleDecision, Labels, Applying, Before
  <2>3. d \in DecStates /\ (dec[p] = "allowed" => d = "allowed")
        /\ (dec[p] # "allowed" /\ d = "allowed" => rev[p].need = 0)
      BY <1>t DEF DecStates
  <2> HIDE DEF l, d
  <2>4. TypeOK'
      BY <1>t, <2>1, <2>2, <2>3 DEF Inv, TypeOK, policySet, bounds
  <2>5. Placed'
    <3>1. rev[p].state # "none"
        BY <2>2 DEF Inv, Placed, After
    <3> QED
        BY <1>a, <1>t, <2>1, <2>2, <3>1 DEF Inv, Placed
  <2>6. DecisionsMove
      BY <1>t, <1>c, <2>1, <2>3 DEF Inv, DecisionsMove, Backed
  <2>7. RevisionsMove
      BY <1>a, <1>t, <2>1, <2>2 DEF Inv, RevisionsMove, JudgedOnSetInForce, policySet
  <2> QED
      BY <2>4, <2>5, <2>6, <2>7, ChangeStep
<1>3. ASSUME NEW p \in Proposals, Expire(p) PROVE Inv'
  <2>1. /\ dec[p] = "pending" /\ dec' = [dec EXCEPT ![p] = "expired"]
        /\ UNCHANGED <<policySet, rev, votes, pc, mem, withdraw, bounds>>
      BY <1>3 DEF Expire
  <2>2. TypeOK'
      BY <1>t, <2>1 DEF Inv, TypeOK, policySet, bounds, DecStates
  <2>3. Placed'
      BY <1>t, <2>1 DEF Inv, Placed
  <2>4. DecisionsMove
      BY <1>t, <2>1 DEF Inv, DecisionsMove, Backed
  <2>5. RevisionsMove
      BY <2>1 DEF Inv, RevisionsMove, JudgedOnSetInForce, policySet
  <2> QED
      BY <2>2, <2>3, <2>4, <2>5, ChangeStep
<1>4. ASSUME NEW p \in Proposals, NEW who \in Admins, Approve(p, who) PROVE Inv'
  <2> DEFINE d == IF Cardinality(votes'[p]) >= rev[p].need THEN "allowed" ELSE dec[p]
  <2>1. /\ dec[p] = "pending" /\ dec' = [dec EXCEPT ![p] = d]
        /\ votes' = [votes EXCEPT ![p] = votes[p] \cup {who}] /\ who # Author[p]
        /\ UNCHANGED <<policySet, rev, pc, mem, withdraw, bounds>>
      BY <1>4 DEF Approve
  <2>2. d \in DecStates /\ d # "none" /\ (d = "allowed" => Cardinality(votes'[p]) >= rev[p].need)
      BY <1>t, <2>1 DEF DecStates
  <2> HIDE DEF d
  <2>3. TypeOK'
      BY <1>t, <2>1, <2>2 DEF Inv, TypeOK, policySet, bounds
  <2>4. Placed'
      BY <1>t, <2>1, <2>2 DEF Inv, Placed
  <2>5. DecisionsMove
    <3>1. \A q \in Proposals : dec[q] = "allowed" => q # p
        BY <2>1
    <3>2. \A q \in Proposals : q # p => votes'[q] = votes[q] /\ dec'[q] = dec[q]
        BY <1>t, <2>1
    <3>3. \A q \in Proposals : Author[q] \notin votes'[q]
        BY <1>t, <2>1 DEF Inv, Backed
    <3>4. dec'[p] = d
        BY <1>t, <2>1
    <3> QED
        BY <2>1, <2>2, <3>1, <3>2, <3>3, <3>4 DEF DecisionsMove
  <2>6. RevisionsMove
      BY <2>1 DEF Inv, RevisionsMove, JudgedOnSetInForce, policySet
  <2> QED
      BY <2>3, <2>4, <2>5, <2>6, ChangeStep
<1> QED
    BY <1>1, <1>2, <1>3, <1>4
-----------------------------------------------------------------------------
(* Revisions are assessed: nothing anybody else looks at changes (assess). *)
LEMMA AssessKeeps ==
    ASSUME Inv, NEW p \in Proposals, NEW origin \in Origins, NEW c \in Changes,
           Assess(p, origin, c)
    PROVE  Inv' /\ \A q \in Proposals : rev'[q].state = rev[q].state
<1>t. /\ pc \in [Actors -> Labels] /\ mem \in [Actors -> Memories] /\ rev \in [Proposals -> Revisions]
      /\ dec \in [Proposals -> DecStates] /\ votes \in [Proposals -> SUBSET Admins] /\ p \in Actors
    BY DEF Inv, TypeOK, Actors
<1> DEFINE v == [NoRev EXCEPT !.origin = origin, !.change = c, !.need = Require(c)]
           l == IF quorum = 0 THEN "verify" ELSE "insert"
<1>1. /\ rev' = [rev EXCEPT ![p] = v] /\ pc' = [pc EXCEPT ![p] = l] /\ UNCHANGED mem
      /\ UNCHANGED <<policySet, decisions, withdraw, bounds>>
    BY DEF Assess, Stay, Goto
<1>2. pc[p] = "idle" /\ rev[p].state = "none" /\ dec[p] = "none"
    BY DEF Assess, Inv, Placed, Before
<1>3. Require(c) \in Nat /\ c \in Deltas /\ origin \in {"form", "file"}
    BY RequireType, InputsAssumption DEF Inv
<1>4. v \in Revisions /\ v.state = "none"
    BY <1>3 DEF NoRev, Revisions, RevStates
<1>5. l \in Labels /\ l \in Before /\ l \notin After /\ l \notin Applying
    BY DEF Labels, Before, After, Applying
<1> HIDE DEF v, l
<1>6. rev' \in [Proposals -> Revisions] /\ rev'[p] = v /\ \A q \in Proposals : q # p => rev'[q] = rev[q]
    BY <1>t, <1>1, <1>4
<1>7. TypeOK'
    BY <1>t, <1>1, <1>5, <1>6 DEF Inv, TypeOK, policySet, decisions, bounds
<1>8. Placed'
    BY <1>t, <1>1, <1>2, <1>4, <1>5, <1>6 DEF Inv, Placed, decisions, Actors
<1>9. DecisionsMove
    BY <1>t, <1>1, <1>2, <1>4, <1>6 DEF Inv, DecisionsMove, Backed, decisions
<1>10. RevisionsMove
    BY <1>t, <1>1, <1>2, <1>4, <1>5, <1>6 DEF Inv, RevisionsMove, JudgedOnSetInForce, policySet
<1> QED
    BY <1>2, <1>4, <1>6, <1>7, <1>8, <1>9, <1>10, ChangeStep

(* A revision opens: the gate is free, or what held it is superseded in    *)
(* the same transaction (insertProposal).                                  *)
Opens(p) ==
    /\ rev[p].state = "none" /\ rev'[p].state = "pending"
    /\ \A q \in Proposals \ {p} :
           \/ rev'[q].state = rev[q].state /\ rev[q].state # "pending"
           \/ rev[q].state = "pending" /\ rev'[q].state = "superseded"

(* insertProposal opens the revision or ends the call.                     *)
LEMMA InsertKeeps ==
    ASSUME Inv, NEW p \in Proposals, InsertProposal(p)
    PROVE  Inv' /\ (Opens(p) \/ UNCHANGED rev)
<1>t. /\ pc \in [Actors -> Labels] /\ mem \in [Actors -> Memories] /\ rev \in [Proposals -> Revisions]
      /\ dec \in [Proposals -> DecStates] /\ votes \in [Proposals -> SUBSET Admins] /\ p \in Actors
    BY DEF Inv, TypeOK, Actors
<1>1. rev[p].state = "none" /\ dec[p] = "none" /\ UNCHANGED <<policySet, votes, withdraw, bounds>>
    BY DEF InsertProposal, Inv, Placed, Before
<1>2. "decide" \in Labels /\ "decide" \in After /\ "decide" \notin Before /\ "decide" \notin Applying
    BY DEF Labels, After, Before, Applying
<1>3. ASSUME Stay(p, "decide"), rev' \in [Proposals -> Revisions], dec' \in [Proposals -> DecStates],
             Opens(p), \A q \in Proposals : /\ rev'[q].need = rev[q].need /\ rev'[q].via = rev[q].via
                                            /\ rev'[q].judged = rev[q].judged /\ rev'[q].on = rev[q].on,
             \A q \in Proposals : dec'[q] = dec[q] \/ (dec[q] = "pending" /\ dec'[q] = "cancelled")
      PROVE  Inv'
  <2>1. pc' = [pc EXCEPT ![p] = "decide"] /\ mem' = mem
      BY <1>3 DEF Stay, Goto
  <2>2. TypeOK'
      BY <1>t, <1>1, <1>2, <1>3, <2>1 DEF Inv, TypeOK, policySet, bounds
  <2>3. Placed'
      BY <1>t, <1>1, <1>2, <1>3, <2>1 DEF Inv, Placed, Opens, Actors
  <2>4. DecisionsMove
      BY <1>t, <1>1, <1>3, <2>1 DEF Inv, DecisionsMove, Backed, Opens
  <2>5. RevisionsMove
    <3>1. \A a \in Actors : pc'[a] \in Applying => pc'[a] = pc[a] /\ mem'[a] = mem[a]
        BY <1>t, <1>2, <2>1
    <3>2. /\ rev[p].state = "none" /\ rev'[p].state = "pending"
          /\ \A q \in Proposals \ {p} : \/ rev'[q].state = rev[q].state /\ rev[q].state # "pending"
                                        \/ rev[q].state = "pending" /\ rev'[q].state = "superseded"
        BY <1>3 DEF Opens
    <3>3. \A q \in Proposals : rev[q].state # "none" => rev'[q].state # "none"
        BY <3>2
    <3>4. \A q \in Proposals : (rev'[q].state = "pending" /\ rev[q].state # "pending") =>
              rev[q].state = "none" /\ \A r \in Proposals : r # q => rev'[r].state # "pending"
        BY <3>2
    <3>5. \A q \in Proposals : rev'[q].state = "applied" =>
              rev[q].state = "applied" /\ rev'[q].judged = rev[q].judged /\ rev'[q].on = rev[q].on
        BY <1>3, <3>2
    <3>6. version' = version
        BY <1>1 DEF policySet
    <3> QED
        BY <3>1, <3>3, <3>4, <3>5, <3>6, Zenon DEF RevisionsMove
  <2> QED
      BY <2>2, <2>3, <2>4, <2>5, ChangeStep
<1>4. ASSUME Pending = {}, rev' = Close(p, "pending"), Stay(p, "decide"), UNCHANGED dec
      PROVE  Inv' /\ Opens(p)
  <2>1. "pending" \in RevStates
      BY DEF RevStates
  <2>2. StateOnly(rev', rev, p, "pending")
      BY <1>t, <1>4, <2>1, CloseFacts DEF Close
  <2>3. Opens(p)
      BY <1>1, <1>4, <2>2 DEF Opens, Pending, StateOnly
  <2> QED
      BY <1>t, <1>3, <1>4, <2>2, <2>3 DEF StateOnly
<1>5. ASSUME NEW q \in Pending,
             rev' = [Close(q, "superseded") EXCEPT ![p].state = "pending"],
             dec' = IF rev[q].attached THEN CancelDecision(q) ELSE dec, Stay(p, "decide")
      PROVE  Inv' /\ Opens(p)
  <2>1. q \in Proposals /\ rev[q].state = "pending" /\ q # p
      BY <1>1, <1>5 DEF Pending
  <2>2. "pending" \in RevStates /\ "superseded" \in RevStates
      BY DEF RevStates
  <2> DEFINE mid == Close(q, "superseded")
  <2>3. StateOnly(mid, rev, q, "superseded")
      BY <1>t, <2>1, <2>2, CloseFacts DEF Close
  <2> HIDE DEF mid
  <2>7. rev' = [mid EXCEPT ![p].state = "pending"]
      BY <1>5 DEF mid
  <2>8. mid \in [Proposals -> Revisions]
      BY <2>3 DEF StateOnly
  <2>4. StateOnly(rev', mid, p, "pending")
      BY <2>2, <2>7, <2>8, CloseFacts
  <2>5. Opens(p)
      BY <1>1, <2>1, <2>3, <2>4 DEF Opens, Inv, OneOpen, StateOnly
  <2>6. /\ dec' \in [Proposals -> DecStates]
        /\ \A x \in Proposals : dec'[x] = dec[x] \/ (dec[x] = "pending" /\ dec'[x] = "cancelled")
      BY <1>t, <1>5, <2>1 DEF CancelDecision, DecStates
  <2> QED
      BY <1>3, <1>5, <2>3, <2>4, <2>5, <2>6 DEF StateOnly
<1>6. CASE Finish(p) /\ UNCHANGED <<rev, dec>>
  <2>1. UNCHANGED <<policySet, rev, decisions, withdraw>> /\ crashes' \in Nat /\ resets' \in Nat
      BY <1>1, <1>6 DEF decisions, bounds, Inv, TypeOK
  <2> QED
      BY <1>t, <1>6, <2>1, FinishStep
<1> QED
    BY <1>4, <1>5, <1>6 DEF InsertProposal, Supersede
-----------------------------------------------------------------------------
(* An open revision closes, or none changes state.                         *)
Closes(p, s) ==
    /\ rev[p].state = "pending" /\ rev'[p].state = s
    /\ \A q \in Proposals \ {p} : rev'[q].state = rev[q].state
Unmoved == \A q \in Proposals : rev'[q].state = rev[q].state

(* Attaching the decision's identifier moves no revision (Propose).        *)
LEMMA AttachKeeps ==
    ASSUME Inv, NEW p \in Proposals, Attach(p)
    PROVE  Inv' /\ Unmoved
<1>t. /\ pc \in [Actors -> Labels] /\ mem \in [Actors -> Memories] /\ rev \in [Proposals -> Revisions]
      /\ dec \in [Proposals -> DecStates] /\ votes \in [Proposals -> SUBSET Admins] /\ p \in Actors
    BY DEF Inv, TypeOK, Actors
<1>1. UNCHANGED <<policySet, decisions, withdraw, bounds>> /\ rev[p].state # "none"
    BY DEF Attach, Inv, Placed, After
<1> DEFINE v == [rev[p] EXCEPT !.attached = TRUE]
<1>2. /\ v \in Revisions /\ v.state = rev[p].state /\ v.need = rev[p].need /\ v.via = rev[p].via
      /\ v.judged = rev[p].judged /\ v.on = rev[p].on
    BY <1>t DEF Revisions
<1>3. rev' = [rev EXCEPT ![p] = v]
    BY DEF Attach
<1> HIDE DEF v
<1>4. /\ rev' \in [Proposals -> Revisions]
      /\ \A q \in Proposals :
            /\ rev'[q].state = rev[q].state /\ rev'[q].need = rev[q].need /\ rev'[q].via = rev[q].via
            /\ rev'[q].judged = rev[q].judged /\ rev'[q].on = rev[q].on
    BY <1>t, <1>2, <1>3
<1>5. PICK l \in {"get", "done"}, m \in Memories :
          /\ pc' = [pc EXCEPT ![p] = l] /\ mem' = [mem EXCEPT ![p] = m]
          /\ m.via = "none" /\ (l = "get" => m.target = p)
  <2>1. [NoMem EXCEPT !.target = p] \in Memories /\ NoMem \in Memories /\ NoMem.via = "none"
        /\ [NoMem EXCEPT !.target = p].target = p /\ [NoMem EXCEPT !.target = p].via = "none"
      BY DEF NoMem, Memories
  <2> QED
      BY <2>1 DEF Attach, Finish, Goto
<1>6. l \in Labels /\ l \notin Before \cup After \cup {"apply"} /\ (l \in Applying => l = "get")
    BY DEF Labels, Before, After, Applying
<1>7. TypeOK'
    BY <1>t, <1>1, <1>4, <1>5, <1>6 DEF Inv, TypeOK, policySet, decisions, bounds
<1>8. Placed'
    BY <1>t, <1>1, <1>4, <1>5, <1>6 DEF Inv, Placed, decisions, Actors, After
<1>9. DecisionsMove
    BY <1>t, <1>1, <1>4, <1>5 DEF Inv, DecisionsMove, Backed, decisions
<1>10. RevisionsMove
    BY <1>t, <1>1, <1>4, <1>5, <1>6 DEF Inv, RevisionsMove, JudgedOnSetInForce, policySet
<1> QED
    BY <1>4, <1>7, <1>8, <1>9, <1>10, ChangeStep DEF Unmoved

(* Closing a revision whose call or whose applier ends with it: discarded, *)
(* rejected, or already closed by somebody else (discard, reject).         *)
LEMMA EndKeeps ==
    ASSUME Inv, NEW a \in Actors, NEW p \in Proposals, NEW s \in RevStates \ {"none", "pending", "applied"},
           Finish(a), UNCHANGED <<policySet, decisions, withdraw, bounds>>,
           UNCHANGED rev \/ (rev[p].state = "pending" /\ rev' = Close(p, s))
    PROVE  Inv' /\ (Closes(p, s) \/ UNCHANGED rev)
<1>t. /\ pc \in [Actors -> Labels] /\ mem \in [Actors -> Memories] /\ rev \in [Proposals -> Revisions]
      /\ dec \in [Proposals -> DecStates] /\ votes \in [Proposals -> SUBSET Admins]
      /\ crashes \in Nat /\ resets \in Nat
    BY DEF Inv, TypeOK
<1>1. CASE UNCHANGED rev
  <2>1. UNCHANGED <<policySet, rev, decisions, withdraw>> /\ crashes' \in Nat /\ resets' \in Nat
      BY <1>t, <1>1 DEF bounds
  <2> QED
      BY <1>1, <2>1, FinishStep
<1>2. CASE rev[p].state = "pending" /\ rev' = Close(p, s)
  <2> DEFINE l == IF a \in Proposals THEN "done" ELSE "idle"
  <2>1. StateOnly(rev', rev, p, s)
      BY <1>t, <1>2, CloseFacts DEF Close
  <2>2. /\ NoMem \in Memories /\ NoMem.via = "none" /\ l \in Labels
        /\ l \notin After \cup Applying /\ (a \in Proposals => l \notin Before \cup {"decide"})
      BY FinishFacts
  <2>3. pc' = [pc EXCEPT ![a] = l] /\ mem' = [mem EXCEPT ![a] = NoMem]
      BY DEF Finish, Goto
  <2> HIDE DEF l
  <2>4. TypeOK'
      BY <1>t, <2>1, <2>2, <2>3 DEF Inv, TypeOK, policySet, decisions, bounds, StateOnly
  <2>5. Placed'
      BY <1>t, <1>2, <2>1, <2>2, <2>3 DEF Inv, Placed, decisions, Actors, StateOnly
  <2>6. DecisionsMove
      BY <1>t, <2>1, <2>2, <2>3 DEF Inv, DecisionsMove, Backed, decisions, StateOnly
  <2>7. RevisionsMove
      BY <1>t, <1>2, <2>1, <2>2, <2>3
      DEF Inv, RevisionsMove, JudgedOnSetInForce, policySet, StateOnly
  <2>8. Closes(p, s)
      BY <1>2, <2>1 DEF Closes, StateOnly
  <2> QED
      BY <2>4, <2>5, <2>6, <2>7, <2>8, ChangeStep
<1> QED
    BY <1>1, <1>2

(* Withdraw closes the revision it read, with its decision, if it still is *)
(* open.                                                                   *)
LEMMA WithdrawKeeps ==
    ASSUME Inv, NEW p \in Proposals, WithdrawClose(p)
    PROVE  Inv' /\ (Closes(p, "withdrawn") \/ UNCHANGED rev)
<1>t. /\ rev \in [Proposals -> Revisions] /\ dec \in [Proposals -> DecStates]
      /\ withdraw \in [Proposals -> {"no", "gated", "bare", "over"}]
    BY DEF Inv, TypeOK
<1>1. UNCHANGED <<policySet, votes, pc, mem, bounds>> /\ withdraw' = [withdraw EXCEPT ![p] = "over"]
    BY DEF WithdrawClose
<1>2. CASE UNCHANGED <<rev, dec>>
  <2>1. TypeOK'
      BY <1>t, <1>1, <1>2 DEF Inv, TypeOK, policySet, bounds
  <2> QED
      BY <1>1, <1>2, <2>1, StillStep DEF policySet
<1>3. CASE /\ rev[p].state = "pending" /\ rev' = Close(p, "withdrawn")
           /\ dec' = IF withdraw[p] = "gated" THEN CancelDecision(p) ELSE dec
  <2>1. "withdrawn" \in RevStates
      BY DEF RevStates
  <2>2. StateOnly(rev', rev, p, "withdrawn")
      BY <1>t, <1>3, <2>1, CloseFacts DEF Close
  <2>3. /\ dec' \in [Proposals -> DecStates]
        /\ \A x \in Proposals : dec'[x] = dec[x] \/ (dec[x] = "pending" /\ dec'[x] = "cancelled")
      BY <1>t, <1>3 DEF CancelDecision, DecStates
  <2>4. TypeOK'
      BY <1>t, <1>1, <2>2, <2>3 DEF Inv, TypeOK, policySet, bounds, StateOnly
  <2>5. Placed'
    <3> SUFFICES ASSUME NEW x \in Proposals
                 PROVE  /\ pc[x] \in Before => rev'[x].state = "none"
                        /\ pc[x] \in Before \cup {"decide"} => dec'[x] = "none"
                        /\ pc[x] \in After => rev'[x].state # "none"
        BY <1>1, Zenon DEF Placed
    <3>1. /\ pc[x] \in Before => rev[x].state = "none"
          /\ pc[x] \in Before \cup {"decide"} => dec[x] = "none"
          /\ pc[x] \in After => rev[x].state # "none"
        BY DEF Inv, Placed
    <3>2. rev'[x].state = IF x = p THEN "withdrawn" ELSE rev[x].state
        BY <2>2 DEF StateOnly
    <3> QED
        BY <1>3, <2>3, <3>1, <3>2
  <2>6. DecisionsMove
      BY <1>1, <2>2, <2>3 DEF Inv, DecisionsMove, Backed, StateOnly
  <2>7. RevisionsMove
      BY <1>1, <1>3, <2>2 DEF Inv, RevisionsMove, JudgedOnSetInForce, policySet, StateOnly
  <2>8. Closes(p, "withdrawn")
      BY <1>3, <2>2 DEF Closes, StateOnly
  <2> QED
      BY <2>4, <2>5, <2>6, <2>7, <2>8, ChangeStep
<1> QED
    BY <1>2, <1>3 DEF WithdrawClose

(* Apply's transaction closes the only open revision as it moves the set   *)
(* in force, so every other plan is for a revision that is closed (Apply). *)
LEMMA CommitKeeps ==
    ASSUME Inv, NEW a \in Actors, ApplyCommit(a)
    PROVE  Inv' /\ (Closes(mem[a].target, "applied") \/ UNCHANGED rev)
<1> DEFINE p == mem[a].target
           c == rev[p].change
           v == [rev[p] EXCEPT !.state = "applied", !.via = mem[a].via,
                               !.judged = mem[a].snapshot, !.on = version]
           l == IF a \in Proposals THEN "done" ELSE "idle"
<1>t. /\ pc \in [Actors -> Labels] /\ mem \in [Actors -> Memories] /\ rev \in [Proposals -> Revisions]
      /\ dec \in [Proposals -> DecStates] /\ votes \in [Proposals -> SUBSET Admins]
      /\ crashes \in Nat /\ resets \in Nat /\ version \in Nat /\ quorum \in Nat
      /\ token \in {"live", "spent"} /\ held \in BOOLEAN
    BY DEF Inv, TypeOK
<1>1. p \in Proposals /\ pc[a] = "apply"
    BY DEF ApplyCommit, Inv, Aimed, Applying
<1>2. UNCHANGED <<decisions, withdraw, bounds>> /\ Finish(a)
    BY DEF ApplyCommit
<1>3. CASE UNCHANGED <<policySet, rev>>
  <2>1. UNCHANGED <<policySet, rev, decisions, withdraw>> /\ crashes' \in Nat /\ resets' \in Nat
      BY <1>t, <1>2, <1>3 DEF bounds
  <2> QED
      BY <1>2, <1>3, <2>1, FinishStep
<1>4. CASE rev[p].state = "pending"
  <2>1. /\ rev' = [rev EXCEPT ![p] = v] /\ UNCHANGED token
        /\ IF TenantChange(c)
           THEN held' = (c.op # "drop") /\ version' = version + 1 /\ UNCHANGED quorum
           ELSE quorum' = c.quorum /\ UNCHANGED <<held, version>>
      BY <1>4 DEF ApplyCommit
  <2>2. c \in Deltas /\ (~TenantChange(c) => c.quorum \in Nat)
      BY <1>t, <1>1 DEF Revisions, Deltas, TenantChange
  <2>3. quorum' \in Nat /\ version' \in Nat /\ held' \in BOOLEAN /\ token' \in {"live", "spent"}
    <3>1. quorum' \in Nat /\ version' \in Nat
        BY <1>t, <2>1, <2>2
    <3>2. held' = held \/ held' = (c.op # "drop")
        BY <2>1
    <3>3. (c.op # "drop") \in BOOLEAN
        BY Zenon
    <3>4. held' \in BOOLEAN
        BY <1>t, <3>2, <3>3, Zenon
    <3> QED
        BY <1>t, <2>1, <3>1, <3>4
  <2>4. mem[a].snapshot = version /\ mem[a] \in Memories
      BY <1>t, <1>1, <1>4 DEF Inv, Planned
  <2>5. mem[a].via = "decision" => dec[p] = "allowed"
      BY DEF Inv, Trusted
  <2>6. /\ v \in Revisions /\ v.state = "applied" /\ v.need = rev[p].need /\ v.via = mem[a].via
        /\ v.judged = v.on
    <3>1. rev[p] \in Revisions /\ "applied" \in RevStates /\ version \in Nat
        BY <1>t, <1>1 DEF RevStates
    <3>2. mem[a].via \in {"none", "decision"} /\ mem[a].snapshot \in Nat
        BY <2>4 DEF Memories
    <3> HIDE DEF p
    <3>3. v \in Revisions
        BY <3>1, <3>2 DEF Revisions
    <3>4. v.state = "applied" /\ v.need = rev[p].need /\ v.via = mem[a].via
          /\ v.judged = mem[a].snapshot /\ v.on = version
        BY <3>1 DEF Revisions
    <3> QED
        BY <2>4, <3>3, <3>4
  <2>7. /\ NoMem \in Memories /\ NoMem.via = "none" /\ l \in Labels
        /\ l \notin After \cup Applying /\ (a \in Proposals => l \notin Before \cup {"decide"})
      BY FinishFacts
  <2>8. pc' = [pc EXCEPT ![a] = l] /\ mem' = [mem EXCEPT ![a] = NoMem]
      BY <1>2 DEF Finish, Goto
  <2>9. \A q \in Proposals : rev[q].state = "pending" => q = p
      BY <1>1, <1>4 DEF Inv, OneOpen
  <2> HIDE DEF p, c, v, l
  <2>10. /\ rev' \in [Proposals -> Revisions] /\ rev'[p] = v
         /\ \A q \in Proposals : q # p => rev'[q] = rev[q]
      BY <1>t, <1>1, <2>1, <2>6
  <2>11. TypeOK'
      BY <1>t, <1>2, <2>3, <2>7, <2>8, <2>10 DEF Inv, TypeOK, decisions, bounds
  <2>12. Placed'
      BY <1>t, <1>1, <1>2, <1>4, <2>6, <2>7, <2>8, <2>10 DEF Inv, Placed, decisions, Actors
  <2>13. DecisionsMove
      BY <1>t, <1>1, <1>2, <2>5, <2>6, <2>7, <2>8, <2>10 DEF Inv, DecisionsMove, Backed, decisions
  <2>14. RevisionsMove
      BY <1>t, <1>1, <2>6, <2>7, <2>8, <2>9, <2>10 DEF Inv, RevisionsMove, JudgedOnSetInForce
  <2>15. Closes(p, "applied")
      BY <1>1, <1>4, <2>6, <2>10 DEF Closes
  <2> QED
      BY <2>11, <2>12, <2>13, <2>14, <2>15, ChangeStep DEF p
<1> QED
    BY <1>3, <1>4 DEF ApplyCommit
-----------------------------------------------------------------------------
(* Seen from the gate, a step opens a revision, closes the open one, or    *)
(* does nothing.                                                           *)
GateMove == \/ \E p \in Proposals : Opens(p)
            \/ \E p \in Proposals, s \in RevStates \ {"none", "pending"} : Closes(p, s)
            \/ Unmoved

(* The revisions no process has touched yet satisfy everything.            *)
LEMMA InitInv == Init => Inv
<1> SUFFICES ASSUME Init PROVE Inv
    OBVIOUS
<1>1. NoRev \in Revisions /\ NoMem \in Memories /\ NoRev.state = "none" /\ NoMem.via = "none"
    BY DEF NoRev, NoChange, Revisions, RevStates, Deltas, NoMem, Memories
<1>2. TypeOK
    BY <1>1 DEF Init, TypeOK, DecStates, Labels
<1>3. Placed
    BY <1>1 DEF Init, Placed, After, Actors
<1>4. OneOpen /\ JudgedOnSetInForce /\ AppliedOnQuorum
    BY <1>1 DEF Init, OneOpen, JudgedOnSetInForce, AppliedOnQuorum
<1>5. Aimed /\ Planned
    BY DEF Init, Aimed, Planned, Applying
<1>6. Backed /\ Trusted
    BY <1>1 DEF Init, Backed, Trusted
<1> QED
    BY <1>2, <1>3, <1>4, <1>5, <1>6 DEF Inv

(* Every step keeps the invariant and is a move of the gate.               *)
LEMMA NextInv == Inv /\ [Next]_vars => Inv' /\ GateMove
<1> SUFFICES ASSUME Inv, [Next]_vars PROVE Inv' /\ GateMove
    OBVIOUS
<1>a. Proposals \subseteq Actors /\ Reconcilers \subseteq Actors
    BY DEF Actors
<1>u. UNCHANGED rev => GateMove
    BY DEF GateMove, Unmoved
<1>1. ASSUME \/ \E p \in Proposals : Verify(p)
             \/ \E r \in Reconcilers : Reconcile(r)
             \/ \E a \in Actors : ApplyGet(a) \/ ApplyCheck(a) \/ ApplyPlan(a) \/ Crash(a)
      PROVE  Inv' /\ GateMove
  <2>1. UNCHANGED rev
      BY <1>1 DEF Verify, Reconcile, ApplyGet, ApplyCheck, ApplyPlan, Crash
  <2> QED
      BY <1>1, <1>u, <2>1, ReadsKeep
<1>2. ASSUME \/ \E p \in Proposals : WithdrawRead(p)
             \/ \E threshold \in 1 .. Cardinality(Admins) : Lock(threshold)
             \/ BreakGlass \/ UNCHANGED vars
      PROVE  Inv' /\ GateMove
  <2>1. UNCHANGED rev
      BY <1>2 DEF WithdrawRead, Lock, BreakGlass, vars
  <2> QED
      BY <1>2, <1>u, <2>1, StillKeeps
<1>3. ASSUME \/ \E p \in Proposals : OpenDecision(p) \/ SettleDecision(p) \/ Expire(p)
             \/ \E p \in Proposals, who \in Admins : Approve(p, who)
      PROVE  Inv' /\ GateMove
  <2>1. UNCHANGED rev
      BY <1>3 DEF OpenDecision, SettleDecision, Expire, Approve
  <2> QED
      BY <1>3, <1>u, <2>1, DecideKeeps
<1>4. ASSUME NEW p \in Proposals, NEW origin \in Origins, NEW c \in Changes, Assess(p, origin, c)
      PROVE  Inv' /\ GateMove
    BY <1>4, AssessKeeps DEF GateMove, Unmoved
<1>5. ASSUME NEW p \in Proposals, InsertProposal(p) PROVE Inv' /\ GateMove
    BY <1>5, <1>u, InsertKeeps DEF GateMove
<1>6. ASSUME NEW p \in Proposals, Attach(p) PROVE Inv' /\ GateMove
    BY <1>6, AttachKeeps DEF GateMove
<1>7. ASSUME NEW p \in Proposals, Discard(p) PROVE Inv' /\ GateMove
  <2>1. "discarded" \in RevStates \ {"none", "pending", "applied"}
      BY DEF RevStates
  <2>2. /\ Finish(p) /\ UNCHANGED <<policySet, decisions, withdraw, bounds>>
        /\ UNCHANGED rev \/ (rev[p].state = "pending" /\ rev' = Close(p, "discarded"))
      BY <1>7 DEF Discard
  <2>3. Inv' /\ (Closes(p, "discarded") \/ UNCHANGED rev)
      BY <1>a, <2>1, <2>2, EndKeeps
  <2> QED
      BY <1>u, <2>1, <2>3 DEF GateMove
<1>8. ASSUME NEW a \in Actors, ApplyReject(a) PROVE Inv' /\ GateMove
  <2>1. "rejected" \in RevStates \ {"none", "pending", "applied"}
      BY DEF RevStates
  <2>2. mem[a].target \in Proposals
      BY <1>8 DEF ApplyReject, Inv, Aimed, Applying
  <2>3. /\ Finish(a) /\ UNCHANGED <<policySet, decisions, withdraw, bounds>>
        /\ \/ UNCHANGED rev
           \/ rev[mem[a].target].state = "pending" /\ rev' = Close(mem[a].target, "rejected")
      BY <1>8 DEF ApplyReject
  <2>4. Inv' /\ (Closes(mem[a].target, "rejected") \/ UNCHANGED rev)
      BY <2>1, <2>2, <2>3, EndKeeps
  <2> QED
      BY <1>u, <2>1, <2>2, <2>4 DEF GateMove
<1>9. ASSUME NEW p \in Proposals, WithdrawClose(p) PROVE Inv' /\ GateMove
  <2>1. "withdrawn" \in RevStates \ {"none", "pending"}
      BY DEF RevStates
  <2> QED
      BY <1>9, <1>u, <2>1, WithdrawKeeps DEF GateMove
<1>10. ASSUME NEW a \in Actors, ApplyCommit(a) PROVE Inv' /\ GateMove
  <2>1. "applied" \in RevStates \ {"none", "pending"}
      BY DEF RevStates
  <2>2. mem[a].target \in Proposals
      BY <1>10 DEF ApplyCommit, Inv, Aimed, Applying
  <2> QED
      BY <1>10, <1>u, <2>1, <2>2, CommitKeeps DEF GateMove
<1> QED
    BY <1>a, <1>1, <1>2, <1>3, <1>4, <1>5, <1>6, <1>7, <1>8, <1>9, <1>10
    DEF Next, Propose, Reconciler, Apply

(* The holder of the gate is the open revision, if there is one.           *)
Holder == IF Pending = {} THEN Nobody ELSE CHOOSE p \in Pending : TRUE

(* While one proposal is pending, it is the one the gate names.            *)
LEMMA HolderIs ==
    ASSUME OneOpen, NEW p \in Pending
    PROVE  Holder = p
<1>1. Pending # {} /\ \A q \in Pending : q = p
    BY DEF Pending, OneOpen
<1> QED
    BY <1>1 DEF Holder

(* A move of the gate is a step of RevisionGate, or leaves it alone.       *)
LEMMA GateStep ==
    ASSUME Inv, Inv', GateMove
    PROVE  [Gate!Next]_(Gate!gateVars)
<1> DEFINE W == {p \in Proposals : rev[p].state = "none"}
           F == {p \in Proposals : rev[p].state = "applied"}
<1>o. OneOpen /\ OneOpen'
    BY DEF Inv
<1>1. ASSUME NEW p \in Proposals, Opens(p) PROVE Gate!Take(p)
  <2>1. Holder' = p
    <3>1. p \in Pending'
        BY <1>1 DEF Opens, Pending
    <3>2. Pending' # {} /\ \A q \in Pending' : q = p
        BY <1>o, <3>1 DEF Pending, OneOpen
    <3> QED
        BY <3>2 DEF Holder
  <2>2. p \in W /\ W' = W \ {p} /\ F' = F
      BY <1>1 DEF Opens
  <2> QED
      BY <2>1, <2>2 DEF Gate!Take, Holder
<1>2. ASSUME NEW p \in Proposals, NEW s \in RevStates \ {"none", "pending"}, Closes(p, s)
      PROVE  Gate!Release \/ Gate!TakeEffect
  <2>1. p \in Pending /\ p # Nobody
      BY <1>2, ActorsAssumption DEF Closes, Pending
  <2>2. Holder = p
      BY <1>o, <2>1, HolderIs
  <2>3. Pending' = {}
      BY <1>o, <1>2 DEF Closes, Pending, OneOpen
  <2>4. Holder' = Nobody
      BY <2>3 DEF Holder
  <2>5. W' = W
      BY <1>2 DEF Closes
  <2>6. F' = IF s = "applied" THEN F \cup {p} ELSE F
      BY <1>2 DEF Closes
  <2> QED
      BY <2>1, <2>2, <2>4, <2>5, <2>6 DEF Gate!Release, Gate!TakeEffect, Holder
<1>3. CASE Unmoved
  <2>1. Pending' = Pending /\ W' = W /\ F' = F
      BY <1>3 DEF Unmoved, Pending
  <2>2. Holder' = Holder
      BY <2>1 DEF Holder
  <2> QED
      BY <2>1, <2>2 DEF Gate!gateVars, Holder
<1> QED
    BY <1>1, <1>2, <1>3 DEF GateMove, Gate!Next

-----------------------------------------------------------------------------
(* The state of every call, revision and decision has its type.            *)
THEOREM GovernanceTypeCorrect == Spec => []TypeOK
<1>1. Inv => TypeOK
    BY DEF Inv
<1> QED
    BY <1>1, InitInv, NextInv, PTL DEF Spec

(* Revisions pass the gate one at a time and take effect at most once,     *)
(* however many proposers, reconcilers and withdrawals race                *)
(* (serialize.go, insertProposal, closeProposal).                          *)
THEOREM GovernanceImplementsGate == Spec => ImplementsGate
<1>1. Init => Gate!Init
  <2> SUFFICES ASSUME Init PROVE Gate!Init
      OBVIOUS
  <2>1. \A p \in Proposals : rev[p].state = "none"
      BY DEF Init, NoRev
  <2>2. Pending = {}
      BY <2>1 DEF Pending
  <2> QED
      BY <2>1, <2>2 DEF Gate!Init
<1>2. Inv /\ Inv' /\ GateMove => [Gate!Next]_(Gate!gateVars)
    BY GateStep
<1> QED
    BY <1>1, <1>2, InitInv, NextInv, PTL DEF Spec, ImplementsGate, Gate!Spec

(* When a revision commits, the set its open decisions were judged on      *)
(* outside the transaction is the set in force (Apply).                    *)
THEOREM GovernanceJudgedOnSetInForce == Spec => []JudgedOnSetInForce
<1>1. Inv => JudgedOnSetInForce
    BY DEF Inv
<1> QED
    BY <1>1, InitInv, NextInv, PTL DEF Spec

(* A revision applied on its decision has the quorum that was required of  *)
(* it, without its proposer's vote (Propose, Apply).                       *)
THEOREM GovernanceAppliedOnQuorum == Spec => []AppliedOnQuorum
<1>1. Inv => AppliedOnQuorum
    BY DEF Inv
<1> QED
    BY <1>1, InitInv, NextInv, PTL DEF Spec

(* Only the supersede of insertProposal closes a revision as superseded,   *)
(* and it tests the origin of the row it closes in its own transaction.    *)
LEMMA ConsoleStep ==
    ASSUME TypeOK, [Next]_vars, NEW x \in Proposals, rev[x].state = "pending", rev[x].origin = "form"
    PROVE  rev'[x].state # "superseded"
<1>1. rev \in [Proposals -> Revisions]
    BY DEF TypeOK
<1>2. CASE rev' = rev
    BY <1>2
<1>3. ASSUME NEW p \in Proposals, NEW origin \in Origins, NEW c \in Changes, Assess(p, origin, c)
      PROVE  rev'[x].state # "superseded"
  <2> DEFINE r == [NoRev EXCEPT !.origin = origin, !.change = c, !.need = Require(c)]
  <2>1. rev' = [rev EXCEPT ![p] = r]
      BY <1>3 DEF Assess
  <2>2. r.state = "none"
      BY DEF NoRev
  <2> HIDE DEF r
  <2> QED
      BY <1>1, <2>1, <2>2
<1>4. ASSUME NEW p \in Proposals, NEW s \in RevStates \ {"superseded"}, rev' = Close(p, s)
      PROVE  rev'[x].state # "superseded"
    BY <1>1, <1>4 DEF Close, Revisions
<1>5. ASSUME NEW p \in Proposals, InsertProposal(p) PROVE rev'[x].state # "superseded"
  <2>1. CASE rev' = Close(p, "pending")
      BY <1>4, <2>1 DEF RevStates
  <2>2. ASSUME NEW q \in Pending, Supersede(q, p) PROVE rev'[x].state # "superseded"
    <3>1. q # x /\ rev' = [Close(q, "superseded") EXCEPT ![p].state = "pending"]
        BY <2>2 DEF Supersede, Supersedes
    <3>2. /\ Close(q, "superseded") \in [Proposals -> Revisions]
          /\ Close(q, "superseded")[x].state = "pending"
        BY <1>1, <3>1 DEF Close, Pending, Revisions, RevStates
    <3> QED
        BY <3>1, <3>2 DEF Revisions
  <2> QED
      BY <1>2, <1>5, <2>1, <2>2 DEF InsertProposal
<1>6. ASSUME NEW p \in Proposals, Discard(p) \/ WithdrawClose(p) PROVE rev'[x].state # "superseded"
    BY <1>2, <1>4, <1>6 DEF Discard, WithdrawClose, RevStates
<1>7. ASSUME NEW p \in Proposals, Attach(p) PROVE rev'[x].state # "superseded"
    BY <1>1, <1>7 DEF Attach, Revisions
<1>8. ASSUME NEW a \in Actors, ApplyReject(a) PROVE rev'[x].state # "superseded"
  <2>1. rev' = rev \/ rev' = [rev EXCEPT ![mem[a].target].state = "rejected"]
      BY <1>8 DEF ApplyReject, Close
  <2> QED
      BY <1>1, <2>1 DEF Revisions
<1>9. ASSUME NEW a \in Actors, ApplyCommit(a) PROVE rev'[x].state # "superseded"
  <2> DEFINE p == mem[a].target
             r == [rev[p] EXCEPT !.state = "applied", !.via = mem[a].via,
                                 !.judged = mem[a].snapshot, !.on = version]
  <2>1. rev' = rev \/ rev' = [rev EXCEPT ![p] = r]
      BY <1>9 DEF ApplyCommit
  <2>2. p \in Proposals => r.state = "applied"
      BY <1>1 DEF Revisions
  <2> HIDE DEF r
  <2> QED
      BY <1>1, <2>1, <2>2
<1>10. ASSUME NEW a \in Actors, Apply(a) PROVE rev'[x].state # "superseded"
    BY <1>2, <1>8, <1>9, <1>10 DEF Apply, ApplyGet, ApplyCheck, ApplyPlan
<1>11. ASSUME NEW p \in Proposals, Propose(p) PROVE rev'[x].state # "superseded"
  <2>1. p \in Actors
      BY DEF Actors
  <2> QED
      BY <1>2, <1>3, <1>5, <1>6, <1>7, <1>10, <1>11, <2>1 DEF Propose, Verify, OpenDecision, SettleDecision
<1>12. ASSUME NEW r \in Reconcilers, Reconciler(r) PROVE rev'[x].state # "superseded"
  <2>1. r \in Actors
      BY DEF Actors
  <2> QED
      BY <1>2, <1>10, <1>12, <2>1 DEF Reconciler, Reconcile
<1>13. CASE \/ \E p \in Proposals : WithdrawRead(p) \/ Expire(p)
            \/ \E p \in Proposals, who \in Admins : Approve(p, who)
            \/ \E threshold \in 1 .. Cardinality(Admins) : Lock(threshold)
            \/ BreakGlass \/ (\E a \in Actors : Crash(a)) \/ UNCHANGED vars
    BY <1>2, <1>13 DEF WithdrawRead, Expire, Approve, Lock, BreakGlass, Crash, vars
<1> QED
    BY <1>6, <1>11, <1>12, <1>13 DEF Next

(* A proposal made at the console is never replaced by another authoring   *)
(* path, however the check outside the transaction and the one inside it   *)
(* interleave (serialize.go, supersede).                                   *)
THEOREM GovernanceConsoleProposalKept == Spec => ConsoleProposalKept
<1>1. TypeOK /\ [Next]_vars =>
          [\A p \in Pending : rev[p].origin = "form" => rev'[p].state # "superseded"]_vars
    BY ConsoleStep DEF Pending
<1> QED
    BY <1>1, GovernanceTypeCorrect, PTL DEF Spec, ConsoleProposalKept
=============================================================================
