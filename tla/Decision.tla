------------------------------ MODULE Decision ------------------------------
(***************************************************************************)
(* One decision row, its challenge rows and its approvals, and everything  *)
(* that runs against them: Decide, Submit, advance, the sweeper, a policy  *)
(* revision and a governance withdrawal.                                   *)
(*                                                                         *)
(* A request reads with plain SELECTs on the pool and writes with separate *)
(* audited transactions, so each statement (or transaction) is an action   *)
(* and what was read stays in the request's memory, possibly stale.        *)
(* Requests that share one idempotency key share the row: this module is   *)
(* all the activity on one such key.                                       *)
(***************************************************************************)
EXTENDS Integers, Sequences, FiniteSetsExt

CONSTANTS
    Requests,     \* API request goroutines (of any number of processes)
    Sweepers,     \* one sweeper goroutine per process
    People,       \* the identities approvals and cancellations come from
    NoOne,        \* "no submitter" in a request's memory
    Policies,     \* the policy texts that become effective, in order
    TTL,          \* the decision lifetime
    MaxTime,      \* bound: the clock stops here
    LastDecide,   \* bound: no decision is opened after this time
    MaxCrashes,   \* bound: how many requests may die half way
    Reserved      \* TRUE for a decision of the governance policy

Workers == Requests \cup Sweepers
NoTime == -1
NoHash == <<>>

(* A gate is [kind, need, who]: a quorum of `need` out of `who`, or a wait *)
(* of `need` that `who` may cancel. A policy text is [deny, material,      *)
(* gates]; material stands for the policy id, obligations and facts.       *)
Gates == [kind : {"quorum", "delay"}, need : Nat \ {0}, who : SUBSET People]
ASSUME WorkersAssumption == Requests \cap Sweepers = {} /\ NoOne \notin People
ASSUME BoundsAssumption == {MaxTime, LastDecide, MaxCrashes} \subseteq Nat /\ TTL \in Nat \ {0}
ASSUME PoliciesAssumption ==
    /\ Len(Policies) \in Nat \ {0}
    /\ \A v \in 1 .. Len(Policies) : /\ Policies[v].deny \in BOOLEAN
                                     /\ Policies[v].gates \in Seq(Gates)

VARIABLES
    now,             \* the wall clock
    effective,       \* the policy version in force
    state, pinned, material, expires, nextDeadline,   \* the decisions row
    rows,            \* challenge_progress, by ordinal
    approvals,       \* the approvals table
    resolutions,     \* audit: decision.resolved entries
    auditApprovals,  \* audit: every approval ever recorded
    auditCancels,    \* audit: ordinals whose cancellation was recorded
    pc, mem,         \* where each goroutine is and what it has read
    crashes

row == <<state, pinned, material, expires, nextDeadline>>
tables == <<row, rows, approvals>>
audit == <<resolutions, auditApprovals, auditCancels>>
vars == <<now, effective, tables, audit, pc, mem, crashes>>

Lifecycle == INSTANCE DecisionLifecycle
Terminal == Lifecycle!Terminal

-----------------------------------------------------------------------------
(* Pure pieces.                                                            *)

(* ApprovalBindingHash: material and approver set, never the threshold.    *)
BindingHash(m, who) == <<m, who>>

IsExpired(at, deadline) == at >= deadline

(* nextDeadline and refreshNextDeadline: the earliest of the decision's    *)
(* own expiry and the timers of the challenges still pending.              *)
PendingTimers(rs) ==
    {rs[o].deadline : o \in {p \in DOMAIN rs : rs[p].state = "pending"}} \ {NoTime}
Earliest(exp, rs) == Min({exp} \cup PendingTimers(rs))

(* Quorum.Issue: no timer of its own, only evidence ends it.               *)
IssueQuorum(g, m) ==
    [kind |-> "quorum", state |-> "pending", deadline |-> NoTime,
     detail |-> [need |-> g.need, who |-> g.who, hash |-> BindingHash(m, g.who),
                 release |-> NoTime, cancelled |-> FALSE]]

(* Delay.Issue: the deadline is the moment the wait releases.              *)
IssueDelay(g, at) ==
    [kind |-> "delay", state |-> "pending", deadline |-> at + g.need,
     detail |-> [need |-> g.need, who |-> g.who, hash |-> NoHash,
                 release |-> at + g.need, cancelled |-> FALSE]]

Issue(g, m, at) == IF g.kind = "quorum" THEN IssueQuorum(g, m) ELSE IssueDelay(g, at)

IssueAll(v, at) ==
    [o \in DOMAIN Policies[v].gates |-> Issue(Policies[v].gates[o], Policies[v].material, at)]

(* A timer later than the lifetime pushes expires_at out to it.            *)
ExpiresAfter(at, rs) ==
    Max({at + TTL} \cup {rs[o].deadline : o \in DOMAIN rs})

Count(o) == Cardinality({a.who : a \in {b \in approvals : b.ord = o}})

(* Mutant: the quorum trusts its stored state instead of counting.         *)
QuorumStatusStored(o, r) == r.state

(* Quorum.Status: counted from the approvals table on every call.          *)
QuorumStatus(o, r) == IF Count(o) >= r.detail.need THEN "satisfied" ELSE "pending"

(* Delay.Status: a cancellation in the detail comes before the release.    *)
DelayStatus(r, at) ==
    CASE r.detail.cancelled -> "failed"
      [] ~r.detail.cancelled /\ at >= r.detail.release -> "satisfied"
      [] OTHER -> "pending"

(* The handler's answer for a row that is not terminal.                    *)
HandlerStatus(o, r, at) ==
    IF r.kind = "quorum" THEN QuorumStatus(o, r) ELSE DelayStatus(r, at)

(* advance: a timer that ran out on a challenge still pending fails it.    *)
Settled(o, r, at) ==
    IF HandlerStatus(o, r, at) = "pending" /\ r.deadline # NoTime /\ at >= r.deadline
    THEN "failed" ELSE HandlerStatus(o, r, at)

-----------------------------------------------------------------------------
(* Memory of a goroutine between two statements.                           *)
NoDetail == [need |-> 0, who |-> {}, hash |-> NoHash, release |-> NoTime, cancelled |-> FALSE]
Blank == [at |-> 0, who |-> NoOne, ord |-> 0, version |-> 0, material |-> NoHash,
          expires |-> 0, rows |-> <<>>, out |-> "pending", detail |-> NoDetail,
          satisfied |-> 0, failed |-> 0]

Goto(w, l, m) == pc' = [pc EXCEPT ![w] = l] /\ mem' = [mem EXCEPT ![w] = m]
Return(w) == Goto(w, "idle", Blank)

Init ==
    /\ now = 0 /\ effective = 1
    /\ state = "absent" /\ pinned = 0 /\ material = NoHash
    /\ expires = 0 /\ nextDeadline = NoTime
    /\ rows = <<>> /\ approvals = {}
    /\ resolutions = <<>> /\ auditApprovals = {} /\ auditCancels = {}
    /\ pc = [w \in Workers |-> "idle"] /\ mem = [w \in Workers |-> Blank]
    /\ crashes = 0

-----------------------------------------------------------------------------
(* The two audited writes every path ends in.                              *)

(* Mutant: the scheduler column is not refreshed with the row.              *)
SetChallengeStateOnly(o, s, detail) ==
    /\ rows' = [rows EXCEPT ![o] = [@ EXCEPT !.state = s, !.detail = detail]]
    /\ UNCHANGED row

(* AuditWriter.SetChallengeState: unconditional on what the row holds now. *)
(* The scheduler column is recomputed only while the decision is pending.  *)
SetChallengeState(o, s, detail) ==
    /\ rows' = [rows EXCEPT ![o] = [@ EXCEPT !.state = s, !.detail = detail]]
    /\ nextDeadline' = IF state = "pending" THEN Earliest(expires, rows') ELSE nextDeadline
    /\ UNCHANGED <<state, pinned, material, expires>>

(* Mutant: UPDATE without the WHERE state = 'pending'.                      *)
ResolveDecisionAlways(to) ==
    /\ state' = to
    /\ nextDeadline' = NoTime
    /\ resolutions' = Append(resolutions, to)
    /\ UNCHANGED <<pinned, material, expires>>

(* AuditWriter.ResolveDecision: UPDATE ... WHERE state = 'pending'; losing *)
(* the race is not an error.                                               *)
ResolveDecision(to) ==
    IF state = "pending"
    THEN /\ state' = to
         /\ nextDeadline' = NoTime
         /\ resolutions' = Append(resolutions, to)
         /\ UNCHANGED <<pinned, material, expires>>
    ELSE UNCHANGED <<row, resolutions>>

-----------------------------------------------------------------------------
(* Decide.                                                                 *)

(* The idempotency lookup, then the evaluation under the policy set in     *)
(* force. A row already under the key goes to advance; a deny ends here.   *)
DecideEvaluate(w) ==
    /\ pc[w] = "idle"
    /\ \/ /\ state # "absent"
          /\ Goto(w, "advance", [Blank EXCEPT !.at = now])
       \/ /\ state = "absent" /\ now <= LastDecide
          /\ ~Policies[effective].deny
          /\ Goto(w, "issue", [Blank EXCEPT !.at = now, !.ord = effective])
    /\ UNCHANGED <<now, effective, tables, audit, crashes>>

(* Pin the stored version, then issue every challenge of the evaluated     *)
(* text. The pin is a second read and may see a later version.             *)
DecideIssue(w) ==
    /\ pc[w] = "issue"
    /\ LET m == mem[w]
           rs == IssueAll(m.ord, m.at)
       IN  Goto(w, "create", [m EXCEPT !.version = effective,
                                       !.material = Policies[m.ord].material,
                                       !.rows = rs,
                                       !.expires = ExpiresAfter(m.at, rs)])
    /\ UNCHANGED <<now, effective, tables, audit, crashes>>

(* AuditWriter.CreateDecision; the loser of a keyed race advances the      *)
(* winner's row instead.                                                   *)
DecideCreate(w) ==
    /\ pc[w] = "create"
    /\ IF state = "absent"
       THEN /\ state' = "pending"
            /\ pinned' = mem[w].version
            /\ material' = mem[w].material
            /\ expires' = mem[w].expires
            /\ rows' = mem[w].rows
            /\ nextDeadline' = Earliest(expires', rows')
            /\ UNCHANGED approvals
       ELSE UNCHANGED tables
    /\ Goto(w, "advance", [Blank EXCEPT !.at = mem[w].at])
    /\ UNCHANGED <<now, effective, audit, crashes>>

-----------------------------------------------------------------------------
(* Submit.                                                                 *)

(* GetDecision. EnsureActive and the pending test judge this read, so a    *)
(* decision that fails them is refused whatever happens next.              *)
SubmitRead(w, p, o) ==
    /\ pc[w] = "idle"
    /\ state = "pending" /\ ~IsExpired(now, expires)
    /\ Goto(w, "collect", [Blank EXCEPT !.at = now, !.who = p, !.ord = o,
                                        !.material = material, !.expires = expires])
    /\ UNCHANGED <<now, effective, tables, audit, crashes>>

(* ChallengeProgressFor, then standing, stillCollecting and the handler's  *)
(* own checks. A quorum re-derives the binding hash from the decision it   *)
(* read and compares it with the one in the detail it read.                *)
Collecting(m) ==
    /\ m.ord \in DOMAIN rows
    /\ m.who \in rows[m.ord].detail.who
    /\ rows[m.ord].state = "pending"
    /\ rows[m.ord].deadline # NoTime => m.at < rows[m.ord].deadline

(* Quorum.Submit re-derives the binding hash before it takes the vote.     *)
Bound(m, r) == r.kind = "quorum" => BindingHash(m.material, r.detail.who) = r.detail.hash

(* Delay.Submit has one answer: the wait is cancelled, the challenge failed.*)
Cancelled(m, r) == [m EXCEPT !.out = "failed", !.detail = [r.detail EXCEPT !.cancelled = TRUE]]

SubmitCheck(w) ==
    /\ pc[w] = "collect"
    /\ LET m == mem[w]
           r == rows[m.ord]
       IN  \/ /\ Collecting(m) /\ Bound(m, r) /\ r.kind = "quorum"
              /\ Goto(w, "approve", [m EXCEPT !.detail = r.detail])
           \/ /\ Collecting(m) /\ r.kind = "delay"
              /\ Goto(w, "record", Cancelled(m, r))
           \/ /\ ~(Collecting(m) /\ Bound(m, r))
              /\ Return(w)
    /\ UNCHANGED <<now, effective, tables, audit, crashes>>

(* AuditWriter.RecordApproval: the foreign key needs the challenge row,    *)
(* and a second vote by the same person is a conflict that adds nothing.   *)
RecordApproval(w) ==
    /\ pc[w] = "approve"
    /\ LET m == mem[w]
           vote == [ord |-> m.ord, who |-> m.who, hash |-> m.detail.hash]
       IN  IF m.ord \notin DOMAIN rows
           THEN Return(w) /\ UNCHANGED <<approvals, auditApprovals>>
           ELSE /\ Goto(w, "count", m)
                /\ IF \E a \in approvals : a.ord = m.ord /\ a.who = m.who
                   THEN UNCHANGED <<approvals, auditApprovals>>
                   ELSE /\ approvals' = approvals \cup {vote}
                        /\ auditApprovals' = auditApprovals \cup {vote}
    /\ UNCHANGED <<now, effective, row, rows, resolutions, auditCancels, crashes>>

(* Mutant: one approval short.                                             *)
CountApprovalsShort(w) ==
    /\ pc[w] = "count"
    /\ Goto(w, "record", [mem[w] EXCEPT
           !.out = IF Count(mem[w].ord) + 1 >= mem[w].detail.need THEN "satisfied" ELSE "pending"])
    /\ UNCHANGED <<now, effective, tables, audit, crashes>>

(* Quorum.count and reached, against the threshold read with the detail.   *)
CountApprovals(w) ==
    /\ pc[w] = "count"
    /\ Goto(w, "record", [mem[w] EXCEPT
           !.out = IF Count(mem[w].ord) >= mem[w].detail.need THEN "satisfied" ELSE "pending"])
    /\ UNCHANGED <<now, effective, tables, audit, crashes>>

(* Submit's SetChallengeState, with the state the handler answered and the *)
(* detail that was read before the handler ran.                            *)
SubmitRecord(w) ==
    /\ pc[w] = "record"
    /\ LET m == mem[w]
       IN  IF m.ord \notin DOMAIN rows
           THEN Return(w) /\ UNCHANGED <<row, rows, auditCancels>>
           ELSE /\ SetChallengeState(m.ord, m.out, m.detail)
                /\ auditCancels' = IF m.detail.cancelled THEN auditCancels \cup {m.ord}
                                                         ELSE auditCancels
                /\ Goto(w, "advance", [Blank EXCEPT !.at = m.at])
    /\ UNCHANGED <<now, effective, approvals, resolutions, auditApprovals, crashes>>

-----------------------------------------------------------------------------
(* advance, with the clock the caller read on entry.                       *)

(* Mutant: advance does not look at the deadline.                           *)
AdvanceReadAnytime(w) ==
    /\ pc[w] = "advance"
    /\ IF state = "pending" THEN Goto(w, "progress", mem[w]) ELSE Return(w)
    /\ UNCHANGED <<now, effective, tables, audit, crashes>>

(* GetDecision: a decision that is over, or past its deadline, is left     *)
(* alone.                                                                  *)
AdvanceRead(w) ==
    /\ pc[w] = "advance"
    /\ IF state = "pending" /\ ~IsExpired(mem[w].at, expires)
       THEN Goto(w, "progress", mem[w])
       ELSE Return(w)
    /\ UNCHANGED <<now, effective, tables, audit, crashes>>

(* ChallengeProgressFor.                                                   *)
AdvanceProgress(w) ==
    /\ pc[w] = "progress"
    /\ Goto(w, "settle", [mem[w] EXCEPT !.rows = rows, !.ord = 1])
    /\ UNCHANGED <<now, effective, tables, audit, crashes>>

Tally(m, s) == [m EXCEPT !.ord = @ + 1,
                         !.satisfied = IF s = "satisfied" THEN @ + 1 ELSE @,
                         !.failed = IF s \in {"failed", "cancelled"} THEN @ + 1 ELSE @]

(* One turn of the loop over the rows that were read. A terminal row is    *)
(* counted as it stands; otherwise the handler is asked, and an answer     *)
(* other than pending has to be written first.                             *)
AdvanceSettle(w) ==
    /\ pc[w] = "settle"
    /\ mem[w].ord \in DOMAIN mem[w].rows
    /\ LET m == mem[w]
           r == m.rows[m.ord]
           s == IF r.state = "pending" THEN Settled(m.ord, r, m.at) ELSE r.state
       IN  IF r.state = "pending" /\ s # "pending"
           THEN Goto(w, "write", [m EXCEPT !.out = s])
           ELSE Goto(w, "settle", Tally(m, s))
    /\ UNCHANGED <<now, effective, tables, audit, crashes>>

(* advance's SetChallengeState, with the detail that was read.             *)
AdvanceWrite(w) ==
    /\ pc[w] = "write"
    /\ LET m == mem[w]
       IN  IF m.ord \notin DOMAIN rows
           THEN Return(w) /\ UNCHANGED <<row, rows>>
           ELSE /\ SetChallengeState(m.ord, m.out, m.rows[m.ord].detail)
                /\ Goto(w, "settle", Tally(m, m.out))
    /\ UNCHANGED <<now, effective, approvals, audit, crashes>>

(* The loop is over: a failure denies, all satisfied allows, anything else *)
(* stays pending.                                                          *)
AdvanceDecide(w) ==
    /\ pc[w] = "settle"
    /\ mem[w].ord \notin DOMAIN mem[w].rows
    /\ LET m == mem[w]
       IN  CASE m.failed > 0 -> Goto(w, "resolve", [m EXCEPT !.out = "denied"])
             [] m.failed = 0 /\ m.satisfied = Len(m.rows) ->
                   Goto(w, "resolve", [m EXCEPT !.out = "allowed"])
             [] OTHER -> Return(w)
    /\ UNCHANGED <<now, effective, tables, audit, crashes>>

Resolve(w) ==
    /\ pc[w] = "resolve"
    /\ ResolveDecision(mem[w].out)
    /\ Return(w)
    /\ UNCHANGED <<now, effective, rows, approvals, auditApprovals, auditCancels, crashes>>

-----------------------------------------------------------------------------
(* Mutant: the sweeper only serves challenge timers.                        *)
SweepClaimTimers(w) ==
    /\ pc[w] = "idle"
    /\ state = "pending" /\ nextDeadline # NoTime /\ nextDeadline <= now
    /\ Goto(w, "advance", [Blank EXCEPT !.at = now])
    /\ UNCHANGED <<now, effective, tables, audit, crashes>>

(* Sweeper.SweepOnce: the claim commits before the work it selects starts. *)
SweepClaim(w) ==
    /\ pc[w] = "idle"
    /\ state = "pending" /\ nextDeadline # NoTime /\ nextDeadline <= now
    /\ IF IsExpired(now, expires)
       THEN Goto(w, "resolve", [Blank EXCEPT !.at = now, !.out = "expired"])
       ELSE Goto(w, "advance", [Blank EXCEPT !.at = now])
    /\ UNCHANGED <<now, effective, tables, audit, crashes>>

-----------------------------------------------------------------------------
(* Revalidator.Apply, in the transaction that makes a revision effective.  *)

SameShape(gates) ==
    /\ DOMAIN rows = DOMAIN gates
    /\ \A o \in DOMAIN rows : rows[o].kind = gates[o].kind

(* rebindQuorum: approvals stay only if the hash did; the state is counted *)
(* again either way, because a jsonb detail never compares equal byte for  *)
(* byte with a freshly encoded one.                                        *)
Preserves(o, g, m) == rows[o].detail.hash = BindingHash(m, g.who)
RebindQuorum(o, g, m) ==
    LET have == IF Preserves(o, g, m) THEN Count(o) ELSE 0
    IN  [rows[o] EXCEPT !.detail = Issue(g, m, now).detail,
                        !.state = IF have >= g.need THEN "satisfied" ELSE "pending"]

(* rebindDelay: a new duration counts from when the wait began, never from *)
(* now; a recorded cancellation stays; the timer may not pass expires_at.  *)
TimerMoved(o, g) == g.kind = "delay" /\ rows[o].detail.need # g.need
RebindDelay(o, g) ==
    LET release == IF TimerMoved(o, g)
                   THEN rows[o].detail.release - rows[o].detail.need + g.need
                   ELSE rows[o].detail.release
        moved == [rows[o] EXCEPT !.detail = [@ EXCEPT !.need = g.need, !.who = g.who,
                                                      !.release = release]]
    IN  IF TimerMoved(o, g)
        THEN [moved EXCEPT
                !.deadline = Min({release, expires}),
                !.state = IF @ = "pending" THEN HandlerStatus(o, moved, now) ELSE @]
        ELSE moved

Rebind(v) ==
    LET p == Policies[v]
    IN  [o \in DOMAIN rows |-> IF p.gates[o].kind = "quorum"
                               THEN RebindQuorum(o, p.gates[o], p.material)
                               ELSE RebindDelay(o, p.gates[o])]

(* reopenChallenges: every row anew, its timer clamped to expires_at, and  *)
(* every approval gone with the old rows.                                  *)
Reopen(v) ==
    LET rs == IssueAll(v, now)
    IN  [o \in DOMAIN rs |-> IF rs[o].deadline > expires
                             THEN [rs[o] EXCEPT !.deadline = expires] ELSE rs[o]]

(* challengeTally and the resolution inside the same transaction.          *)
AfterTally(rs) ==
    CASE \E o \in DOMAIN rs : rs[o].state \in {"failed", "cancelled"} -> "denied"
      [] \A o \in DOMAIN rs : rs[o].state = "satisfied" -> "allowed"
      [] OTHER -> "pending"

Revaluate(v) ==
    LET p == Policies[v]
        same == SameShape(p.gates)
        moved == ~same \/ \E o \in DOMAIN rows : TimerMoved(o, p.gates[o])
    IN  IF p.deny
        THEN ResolveDecision("denied") /\ UNCHANGED <<rows, approvals>>
        ELSE /\ rows' = IF same THEN Rebind(v) ELSE Reopen(v)
             /\ approvals' = IF same
                             THEN {a \in approvals : p.gates[a.ord].kind = "quorum" =>
                                       Preserves(a.ord, p.gates[a.ord], p.material)}
                             ELSE {}
             /\ pinned' = v
             /\ material' = p.material
             /\ state' = AfterTally(rows')
             /\ resolutions' = IF state' = "pending" THEN resolutions
                                                     ELSE Append(resolutions, state')
             /\ nextDeadline' = CASE state' # "pending" -> NoTime
                                  [] state' = "pending" /\ moved -> Earliest(expires, rows')
                                  [] OTHER -> nextDeadline
             /\ UNCHANGED expires

(* governance.Apply: the revision becomes effective and every open tenant  *)
(* decision is re-judged; grandfathering leaves it as it is.               *)
Revise(mode) ==
    /\ effective < Len(Policies)
    /\ effective' = effective + 1
    /\ IF mode = "revaluate" /\ ~Reserved /\ state = "pending" /\ ~IsExpired(now, expires)
       THEN Revaluate(effective + 1)
       ELSE UNCHANGED <<tables, resolutions>>
    /\ UNCHANGED <<now, auditApprovals, auditCancels, pc, mem, crashes>>

(* governance.cancelDecision: a withdrawn revision takes its decision and  *)
(* that decision's pending challenges down.                                *)
CancelDecision ==
    /\ Reserved /\ state = "pending"
    /\ ResolveDecision("cancelled")
    /\ rows' = [o \in DOMAIN rows |-> IF rows[o].state = "pending"
                                      THEN [rows[o] EXCEPT !.state = "cancelled"]
                                      ELSE rows[o]]
    /\ UNCHANGED <<now, effective, approvals, auditApprovals, auditCancels, pc, mem, crashes>>

-----------------------------------------------------------------------------
Tick == /\ now < MaxTime
        /\ now' = now + 1
        /\ UNCHANGED <<effective, tables, audit, pc, mem, crashes>>

(* A process dies, or a request is cancelled, between two statements.      *)
Crash(w) == /\ pc[w] # "idle" /\ crashes < MaxCrashes
            /\ crashes' = crashes + 1
            /\ Return(w)
            /\ UNCHANGED <<now, effective, tables, audit>>

Step(w) == \/ AdvanceRead(w) \/ AdvanceProgress(w) \/ AdvanceSettle(w)
           \/ AdvanceWrite(w) \/ AdvanceDecide(w) \/ Resolve(w)

Request(w) == \/ DecideEvaluate(w) \/ DecideIssue(w) \/ DecideCreate(w)
              \/ \E p \in People, o \in DOMAIN rows : SubmitRead(w, p, o)
              \/ SubmitCheck(w) \/ RecordApproval(w) \/ CountApprovals(w)
              \/ SubmitRecord(w) \/ Step(w)

Sweep(w) == SweepClaim(w) \/ Step(w)

Next == \/ \E w \in Requests : Request(w)
        \/ \E w \in Sweepers : Sweep(w)
        \/ \E mode \in {"revaluate", "grandfather"} : Revise(mode)
        \/ CancelDecision
        \/ \E w \in Workers : Crash(w)
        \/ Tick

Spec == Init /\ [][Next]_vars

(* A sweeper keeps its ticker and the clock runs. Nothing is assumed of    *)
(* the requests: they may stop anywhere.                                   *)
Fairness == WF_vars(Tick) /\ \A w \in Sweepers : WF_vars(Sweep(w))
FairSpec == Spec /\ Fairness

-----------------------------------------------------------------------------
(* Types.                                                                  *)
Materials == {NoHash} \cup {Policies[v].material : v \in 1 .. Len(Policies)}
Hashes == {NoHash} \cup {BindingHash(m, S) : m \in Materials, S \in SUBSET People}
ChallengeStates == {"pending", "satisfied", "failed", "cancelled"}
Details == [need : Nat, who : SUBSET People, hash : Hashes, release : Int, cancelled : BOOLEAN]
Rows == [kind : {"quorum", "delay"}, state : ChallengeStates, deadline : Int, detail : Details]
Votes == [ord : Nat, who : People, hash : Hashes]
Labels == {"idle", "issue", "create", "collect", "approve", "count", "record",
           "advance", "progress", "settle", "write", "resolve"}
Memories == [at : Nat, who : People \cup {NoOne}, ord : Nat, version : Nat,
             material : Materials, expires : Int, rows : Seq(Rows),
             out : ChallengeStates \cup Terminal, detail : Details,
             satisfied : Nat, failed : Nat]

TypeOK ==
    /\ now \in Nat /\ effective \in 1 .. Len(Policies) /\ crashes \in Nat
    /\ state \in Lifecycle!States \cup {"absent"}
    /\ pinned \in Nat /\ material \in Materials
    /\ expires \in Int /\ nextDeadline \in Int
    /\ rows \in Seq(Rows) /\ approvals \in SUBSET Votes
    /\ resolutions \in Seq(Terminal)
    /\ auditApprovals \in SUBSET Votes /\ auditCancels \in SUBSET Nat
    /\ pc \in [Workers -> Labels] /\ mem \in [Workers -> Memories]

-----------------------------------------------------------------------------
(* Properties.                                                             *)

(* Every interleaving of deciders, submitters, sweepers, crashes and       *)
(* revisions is a behaviour of the lifecycle table: one creation, one edge *)
(* out of pending, one decision.resolved entry (lifecycle.go, Next).       *)
ImplementsLifecycle == Lifecycle!Spec

(* The row and the audit log never disagree about how it ended.            *)
ResolvedExactlyOnce == Lifecycle!ResolvedExactlyOnce

(* While a decision is open the scheduler column is exactly the earliest   *)
(* of its expiry and its pending timers, whoever wrote the rows last, so   *)
(* the sweeper neither misses a timer nor wakes for one that is gone       *)
(* (store.refreshNextDeadline: "cannot drift from the rows it summarizes").*)
SchedulerExact ==
    /\ state = "pending" => nextDeadline = Earliest(expires, rows)
    /\ state # "pending" => nextDeadline = NoTime

(* Without a revision an allow rests on evidence that is still there: a    *)
(* full quorum of distinct approvers, each audited and bound to the terms  *)
(* on the row, and a wait that is really over.                             *)
AllowedOnEvidence ==
    state = "allowed" /\ effective = 1 =>
        \A o \in DOMAIN rows :
            /\ rows[o].kind = "quorum" =>
                  Cardinality({a.who : a \in {b \in approvals \cap auditApprovals :
                                  b.ord = o /\ b.hash = rows[o].detail.hash}})
                      >= rows[o].detail.need
            /\ rows[o].kind = "delay" => now >= rows[o].detail.release

(* If nobody crashed, a quorum-gated decision whose thresholds are met is  *)
(* not left open once every request has returned: whichever order the      *)
(* submitters' unconditional writes landed in, somebody's settle saw the   *)
(* full count (Quorum.Status: "the evidence is the one that has to win").  *)
(* A revision may still undo it: a settle that read the gate before the    *)
(* rebind writes the old detail back, threshold included.                  *)
MetQuorumIsSettled ==
    (state = "pending" /\ crashes = 0 /\ effective = 1 /\ \A w \in Workers : pc[w] = "idle")
        => \E o \in DOMAIN rows : rows[o].kind = "delay" \/ Count(o) < rows[o].detail.need

(* Once the deadline has passed and no request that entered before it is   *)
(* still running, a pending decision can only expire or be cancelled       *)
(* (service.Submit: "That is the whole reason the sweeper is allowed to be *)
(* late").                                                                 *)
LateRequestsOnlyExpire ==
    [][(state = "pending" /\ IsExpired(now, expires)
          /\ \A w \in Workers : pc[w] = "idle" \/ IsExpired(mem[w].at, expires))
         => state' \in {"pending", "expired", "cancelled"}]_vars

(* Every decision that was opened is eventually resolved, though requests  *)
(* may stop at any statement: the sweeper alone is enough.                 *)
EveryDecisionResolves == state = "pending" ~> state \in Terminal

(* delay.go, Status: "A cancellation recorded during the wait wins over    *)
(* the wait finishing".                                                    *)
CancellationWins == auditCancels # {} => state # "allowed"
=============================================================================
