----------------------- MODULE DecisionEvidenceProofs -----------------------
(***************************************************************************)
(* What an allow rests on, and who sees to it that a met quorum becomes    *)
(* one, for any number of requests, sweepers, people and gates.            *)
(*                                                                         *)
(* As long as no revision re-judges the decision, the evidence of a gate   *)
(* never shrinks and its terms never change, so a judgment made on what    *)
(* was read earlier is still right when it is written (EvidenceInv). From  *)
(* the moment the last vote is in, some goroutine is on its way to an      *)
(* allow (CarriedInv).                                                     *)
(***************************************************************************)
EXTENDS DecisionProofs, FiniteSetTheorems

Voters(o) == {a.who : a \in {b \in approvals : b.ord = o}}
Evidence(o) ==
    IF rows[o].kind = "quorum" THEN Count(o) >= rows[o].detail.need ELSE now >= rows[o].detail.release
SameTerms(d, e) == d.need = e.need /\ d.hash = e.hash /\ d.release = e.release

(* The loop of advance carries the gates it read and a tally that is full  *)
(* only if every gate so far has its evidence.                             *)
Read(o, r) ==
    /\ r.kind = rows[o].kind /\ SameTerms(r.detail, rows[o].detail)
    /\ r.state = "satisfied" => Evidence(o)
    /\ rows[o].kind = "quorum" => r.deadline = NoTime
    /\ rows[o].kind = "quorum" /\ state = "pending" => r.state \in {"pending", "satisfied"}
Reading(m) ==
    /\ DOMAIN m.rows = DOMAIN rows /\ \A o \in DOMAIN rows : Read(o, m.rows[o])
    /\ m.ord \in 1 .. Len(m.rows) + 1 /\ m.satisfied < m.ord
    /\ m.satisfied + 1 = m.ord => \A o \in DOMAIN rows : o < m.ord => Evidence(o)

(* What a goroutine carries from one statement to the next.                *)
Backed(l, m) ==
    /\ m.at <= now
    /\ l = "create" => m.at < m.expires /\ \A o \in DOMAIN m.rows : m.rows[o].state = "pending"
    /\ l \in {"collect", "approve", "count", "record"} => state # "absent" /\ m.at < expires
    /\ l \in {"approve", "count", "record"} =>
          m.ord \in DOMAIN rows /\ SameTerms(m.detail, rows[m.ord].detail)
    /\ l \in {"approve", "count"} => rows[m.ord].kind = "quorum"
    /\ l = "record" =>
          /\ m.out = "satisfied" => Evidence(m.ord)
          /\ rows[m.ord].kind = "quorum" => m.out \in {"pending", "satisfied"}
    /\ l \in {"advance", "progress"} => m.satisfied = 0 /\ m.failed = 0
    /\ l \in {"settle", "write"} => Reading(m)
    /\ l = "write" =>
          /\ m.ord \in DOMAIN rows /\ (m.out = "satisfied" => Evidence(m.ord))
          /\ rows[m.ord].kind = "quorum" /\ state = "pending" => m.out = "satisfied"
    /\ l = "resolve" /\ m.out = "allowed" => \A o \in DOMAIN rows : Evidence(o)

(* What the tables hold.                                                   *)
Stored ==
    /\ approvals \subseteq auditApprovals /\ \A o \in Nat : IsFiniteSet(Voters(o))
    /\ state = "absent" => approvals = {}
    /\ \A a \in approvals : a.ord \in DOMAIN rows /\ a.hash = rows[a.ord].detail.hash
    /\ \A o \in DOMAIN rows : rows[o].state = "satisfied" => Evidence(o)
    /\ state = "pending" =>
          \A o \in DOMAIN rows : rows[o].kind = "quorum" => rows[o].state \in {"pending", "satisfied"}
    /\ state = "allowed" => \A o \in DOMAIN rows : Evidence(o)
EvidenceInv == effective = 1 => Stored /\ \A w \in Workers : Backed(pc[w], mem[w])

(* A step that takes no evidence and no terms away.                        *)
Grows ==
    /\ DOMAIN rows' = DOMAIN rows
    /\ \A o \in DOMAIN rows : rows'[o].kind = rows[o].kind /\ SameTerms(rows'[o].detail, rows[o].detail)
    /\ approvals \subseteq approvals' /\ \A o \in Nat : IsFiniteSet(Voters(o)')
    /\ now <= now'
    /\ state # "absent" => state' # "absent" /\ expires' = expires
    /\ state' = "pending" => state = "pending"

(* The state a step starts from, and what is known of where it ends.       *)
Before == WellTyped /\ SchedulerInv /\ EnteredInv /\ EvidenceInv /\ effective = 1

(* More approvals never lower a count.                                     *)
LEMMA CountGrows ==
  ASSUME NEW o, approvals \subseteq approvals', IsFiniteSet(Voters(o)')
  PROVE  Count(o) \in Nat /\ Count(o)' \in Nat /\ Count(o) <= Count(o)'
<1>1. Voters(o) \in SUBSET Voters(o)'
  BY DEF Voters
<1>2. IsFiniteSet(Voters(o)) /\ Cardinality(Voters(o)) <= Cardinality(Voters(o)')
  BY <1>1, FS_Subset
<1>3. Cardinality(Voters(o)) \in Nat /\ Cardinality(Voters(o)') \in Nat
  BY <1>2, FS_CardinalityType
<1> QED
  BY <1>2, <1>3 DEF Count, Voters

(* Evidence once there stays there.                                        *)
LEMMA EvidenceGrows ==
  ASSUME WellTyped, WellTyped', Grows, NEW o \in DOMAIN rows, Evidence(o)
  PROVE  Evidence(o)'
<1>1. rows \in Seq(Rows) /\ now \in Nat /\ now' \in Nat
  BY DEF WellTyped, TypeOK
<1>2. o \in Nat /\ rows[o] \in Rows
  BY <1>1
<1>3. rows[o].detail.need \in Nat /\ rows[o].detail.release \in Int
  BY <1>2 DEF Rows, Details
<1>4. /\ rows'[o].kind = rows[o].kind /\ rows'[o].detail.need = rows[o].detail.need
      /\ rows'[o].detail.release = rows[o].detail.release /\ now <= now'
  BY DEF Grows, SameTerms
<1>5. Count(o) \in Nat /\ Count(o)' \in Nat /\ Count(o) <= Count(o)'
  BY <1>2, CountGrows DEF Grows
<1>6. CASE rows[o].kind = "quorum"
  BY <1>3, <1>4, <1>5, <1>6 DEF Evidence
<1>7. CASE rows[o].kind # "quorum"
  BY <1>1, <1>3, <1>4, <1>7 DEF Evidence
<1> QED
  BY <1>6, <1>7

(* What the loop read stays true of the rows.                              *)
LEMMA ReadingGrows ==
  ASSUME WellTyped, WellTyped', Grows, NEW m \in Memories, Reading(m)
  PROVE  Reading(m)'
<1>1. \A o \in DOMAIN rows : Evidence(o) => Evidence(o)'
  BY EvidenceGrows
<1>2. DOMAIN rows' = DOMAIN rows /\ (state' = "pending" => state = "pending")
  BY DEF Grows
<1>3. ASSUME NEW o \in DOMAIN rows, NEW r, Read(o, r) PROVE Read(o, r)'
  <2>1. rows'[o].kind = rows[o].kind /\ SameTerms(rows'[o].detail, rows[o].detail)
    BY DEF Grows
  <2> QED
    BY <1>1, <1>2, <1>3, <2>1 DEF Read, SameTerms
<1> QED
  BY <1>1, <1>2, <1>3 DEF Reading

(* What a goroutine carries stays true while the others move.              *)
LEMMA BackedGrows ==
  ASSUME WellTyped, WellTyped', Grows, NEW l, NEW m \in Memories, Backed(l, m)
  PROVE  Backed(l, m)'
<1>1. \A o \in DOMAIN rows : Evidence(o) => Evidence(o)'
  BY EvidenceGrows
<1>2. /\ DOMAIN rows' = DOMAIN rows /\ (state' = "pending" => state = "pending")
      /\ state # "absent" => state' # "absent" /\ expires' = expires
      /\ \A o \in DOMAIN rows : rows'[o].kind = rows[o].kind /\ SameTerms(rows'[o].detail, rows[o].detail)
  BY DEF Grows
<1>3. (m.at <= now)'
  <2>1. m.at \in Nat /\ now \in Nat /\ now' \in Nat
    BY DEF Memories, WellTyped, TypeOK
  <2>2. m.at <= now /\ now <= now'
    BY DEF Grows, Backed
  <2> QED
    BY <2>1, <2>2
<1>4. l \in {"settle", "write"} => Reading(m)'
  BY ReadingGrows DEF Backed
<1>5. l \in {"approve", "count", "record"} =>
          m.ord \in DOMAIN rows' /\ SameTerms(m.detail, rows'[m.ord].detail)
  BY <1>2 DEF Backed, SameTerms
<1>6. l \in {"approve", "count", "record", "write"} => rows'[m.ord].kind = rows[m.ord].kind
  BY <1>2 DEF Backed
<1>7. (/\ l = "record" =>
          /\ m.out = "satisfied" => Evidence(m.ord)
          /\ rows[m.ord].kind = "quorum" => m.out \in {"pending", "satisfied"})'
  BY <1>1, <1>6 DEF Backed
<1>8. (/\ l = "write" =>
          /\ m.ord \in DOMAIN rows /\ (m.out = "satisfied" => Evidence(m.ord))
          /\ rows[m.ord].kind = "quorum" /\ state = "pending" => m.out = "satisfied")'
  BY <1>1, <1>2, <1>6 DEF Backed
<1>9. (l = "resolve" /\ m.out = "allowed" => \A o \in DOMAIN rows : Evidence(o))'
  BY <1>1, <1>2 DEF Backed
<1>10. (l \in {"collect", "approve", "count", "record"} => state # "absent" /\ m.at < expires)'
  BY <1>2 DEF Backed
<1> QED
  BY <1>3, <1>4, <1>5, <1>6, <1>7, <1>8, <1>9, <1>10 DEF Backed

(* What is said of a label and its locals holds of whoever is there.       *)
LEMMA BackedHere ==
  ASSUME NEW u, NEW l, NEW m, Backed(l, m)', pc'[u] = l, mem'[u] = m
  PROVE  Backed(pc[u], mem[u])'
  BY SMTT(30) DEF Backed, Reading, Read

(* A goroutine's step keeps the invariant if it shrinks nothing and what   *)
(* it writes and carries is backed.                                        *)
LEMMA StepKeepsEvidence ==
  ASSUME Before, WellTyped', Grows, Stored', NEW w \in Workers, NEW l, NEW m, Goto(w, l, m), Backed(l, m)'
  PROVE  EvidenceInv'
<1>1. /\ pc' = [pc EXCEPT ![w] = l] /\ mem' = [mem EXCEPT ![w] = m]
      /\ DOMAIN pc = Workers /\ mem \in [Workers -> Memories] /\ WellTyped
  BY DEF Before, Goto, WellTyped, TypeOK
<1>2. ASSUME NEW u \in Workers PROVE Backed(pc[u], mem[u])'
  <2>1. CASE u = w
    <3>1. pc'[u] = l /\ mem'[u] = m
      BY <1>1, <2>1
    <3> QED
      BY <3>1, BackedHere
  <2>2. CASE u # w
    <3>1. pc'[u] = pc[u] /\ mem'[u] = mem[u]
      BY <1>1, <2>2
    <3>2. mem[u] \in Memories /\ Backed(pc[u], mem[u])
      BY <1>1 DEF Before, EvidenceInv
    <3>3. PICK ll, mm : ll = pc[u] /\ mm = mem[u]
      OBVIOUS
    <3>4. mm \in Memories /\ Backed(ll, mm)
      BY <3>2, <3>3
    <3>5. Backed(ll, mm)'
      BY <1>1, <3>4, BackedGrows
    <3>6. pc'[u] = ll /\ mem'[u] = mm
      BY <3>1, <3>3
    <3> QED
      BY <3>5, <3>6, BackedHere
  <2> QED
    BY <2>1, <2>2
<1> QED
  BY <1>2 DEF EvidenceInv

(* A step that leaves tables and audit log alone.                          *)
LEMMA QuietStored ==
  ASSUME Before, WellTyped', UNCHANGED <<tables, auditApprovals>>, now <= now'
  PROVE  Grows /\ Stored'
<1>1. /\ UNCHANGED <<state, expires, rows, approvals, auditApprovals>> /\ Stored
  BY DEF tables, row, Before, EvidenceInv
<1>2. \A o : Voters(o)' = Voters(o)
  BY <1>1 DEF Voters
<1>3. Grows
  BY <1>1, <1>2 DEF Grows, SameTerms, Stored
<1>4. \A o \in DOMAIN rows : Evidence(o) => Evidence(o)'
  BY <1>3, EvidenceGrows DEF Before
<1>5. Stored'
  BY <1>1, <1>2, <1>4 DEF Stored
<1> QED
  BY <1>3, <1>5

(* A challenge state written over, with the terms the row has.             *)
LEMMA WriteStored ==
  ASSUME Before, WellTyped', NEW o \in DOMAIN rows, NEW s \in ChallengeStates, NEW d \in Details,
         SetChallengeState(o, s, d), UNCHANGED <<now, approvals, auditApprovals>>,
         SameTerms(d, rows[o].detail), s = "satisfied" => Evidence(o),
         rows[o].kind = "quorum" /\ state = "pending" => s \in {"pending", "satisfied"}
  PROVE  Grows /\ Stored'
<1>1. rows \in Seq(Rows) /\ Stored /\ now \in Nat
  BY DEF Before, WellTyped, TypeOK, EvidenceInv
<1>2. /\ rows' = [rows EXCEPT ![o] = [@ EXCEPT !.state = s, !.detail = d]]
      /\ UNCHANGED <<state, expires>>
  BY DEF SetChallengeState
<1>3. /\ DOMAIN rows' = DOMAIN rows /\ rows'[o] = [rows[o] EXCEPT !.state = s, !.detail = d]
      /\ \A p \in DOMAIN rows : p # o => rows'[p] = rows[p]
  BY <1>1, <1>2, WrittenRowType, Zenon
<1>4. rows[o] \in Rows
  BY <1>1
<1>5. rows'[o].kind = rows[o].kind /\ rows'[o].state = s /\ rows'[o].detail = d
  BY <1>3, <1>4 DEF Rows
<1>6. \A p \in DOMAIN rows : rows'[p].kind = rows[p].kind /\ SameTerms(rows'[p].detail, rows[p].detail)
  BY <1>3, <1>5, Zenon DEF SameTerms
<1>7. \A p : Voters(p)' = Voters(p)
  BY DEF Voters
<1>8. Grows
  BY <1>1, <1>2, <1>3, <1>6, <1>7 DEF Grows, Stored
<1>9. \A p \in DOMAIN rows : Evidence(p) => Evidence(p)'
  BY <1>8, EvidenceGrows DEF Before
<1>10. \A p \in DOMAIN rows : rows'[p].state = "satisfied" => Evidence(p)'
  BY <1>1, <1>3, <1>5, <1>9, Zenon DEF Stored
<1>11. \A a \in approvals : a.ord \in DOMAIN rows /\ a.hash = rows'[a.ord].detail.hash
  BY <1>1, <1>6 DEF Stored, SameTerms
<1>12. state = "pending" =>
          \A p \in DOMAIN rows : rows'[p].kind = "quorum" => rows'[p].state \in {"pending", "satisfied"}
  BY <1>1, <1>3, <1>5, Zenon DEF Stored
<1>13. Stored'
  BY <1>1, <1>2, <1>3, <1>7, <1>9, <1>10, <1>11, <1>12 DEF Stored
<1> QED
  BY <1>8, <1>13

(* A vote is recorded, bound to the terms of its gate.                     *)
LEMMA VoteStored ==
  ASSUME Before, WellTyped', NEW w \in Workers, RecordApproval(w)
  PROVE  Grows /\ Stored'
<1> DEFINE m == mem[w]
           vote == [ord |-> m.ord, who |-> m.who, hash |-> m.detail.hash]
<1>1. /\ UNCHANGED <<state, expires, rows, now>> /\ Stored /\ Backed("approve", m) /\ now \in Nat
      /\ m.ord \in Nat
  BY Zenon DEF RecordApproval, row, Before, EvidenceInv, WellTyped, TypeOK, Memories
<1>2. m.ord \in DOMAIN rows /\ m.detail.hash = rows[m.ord].detail.hash /\ state # "absent"
  BY <1>1 DEF Backed, SameTerms
<1>3. \/ approvals' = approvals /\ auditApprovals' = auditApprovals
      \/ approvals' = approvals \cup {vote} /\ auditApprovals' = auditApprovals \cup {vote}
  BY DEF RecordApproval
<1>4. vote.ord = m.ord /\ vote.who = m.who /\ vote.hash = m.detail.hash
  OBVIOUS
<1> HIDE DEF vote, m
<1>5. ASSUME NEW o \in Nat PROVE IsFiniteSet(Voters(o)')
  <2>1. IsFiniteSet(Voters(o))
    BY <1>1 DEF Stored
  <2>2. IsFiniteSet(Voters(o) \cup {m.who})
    BY <2>1, FS_AddElement
  <2>3. Voters(o)' \in SUBSET (Voters(o) \cup {m.who})
    BY <1>3, <1>4 DEF Voters
  <2> QED
    BY <2>2, <2>3, FS_Subset
<1>6. Grows
  BY <1>1, <1>3, <1>5 DEF Grows, SameTerms
<1>7. \A o \in DOMAIN rows : Evidence(o) => Evidence(o)'
  BY <1>6, EvidenceGrows DEF Before
<1>8. \A a \in approvals' : a.ord \in DOMAIN rows /\ a.hash = rows[a.ord].detail.hash
  BY <1>1, <1>2, <1>3, <1>4 DEF Stored
<1>9. approvals' \subseteq auditApprovals'
  BY <1>1, <1>3 DEF Stored
<1>10. Stored'
  BY <1>1, <1>2, <1>5, <1>7, <1>8, <1>9 DEF Stored
<1> QED
  BY <1>6, <1>10

(* A resolution; an allow has its evidence.                                *)
LEMMA ResolveStored ==
  ASSUME Before, WellTyped', NEW to, to \notin {"absent", "pending"}, ResolveDecision(to),
         UNCHANGED <<now, rows, approvals, auditApprovals>>,
         to = "allowed" => \A o \in DOMAIN rows : Evidence(o)
  PROVE  Grows /\ Stored'
<1>1. Stored /\ now \in Nat /\ expires' = expires /\ (state' = state \/ (state = "pending" /\ state' = to))
  BY DEF Before, EvidenceInv, ResolveDecision, row, WellTyped, TypeOK
<1>2. \A o : Voters(o)' = Voters(o)
  BY DEF Voters
<1>3. Grows
  BY <1>1, <1>2 DEF Grows, SameTerms, Stored
<1>4. \A o \in DOMAIN rows : Evidence(o) => Evidence(o)'
  BY <1>3, EvidenceGrows DEF Before
<1>5. Stored'
  BY <1>1, <1>2, <1>4 DEF Stored
<1> QED
  BY <1>3, <1>5

(* A goroutine that starts afresh carries nothing to back.                 *)
LEMMA BlankIsBacked ==
  ASSUME NEW at \in Nat, at <= now', NEW l \in {"idle", "issue", "advance"}, NEW m,
         m.at = at, m.satisfied = 0, m.failed = 0
  PROVE  Backed(l, m)'
  BY DEF Backed

(* A goroutine that returns or starts afresh, the tables left alone.       *)
LEMMA FreshKeepsEvidence ==
  ASSUME Before, WellTyped', UNCHANGED <<tables, auditApprovals, now, effective>>,
         NEW w \in Workers, NEW l \in {"idle", "issue", "advance"}, NEW m, Goto(w, l, m),
         NEW at \in Nat, at <= now, m.at = at, m.satisfied = 0, m.failed = 0
  PROVE  EvidenceInv'
<1>1. now \in Nat /\ now <= now'
  BY DEF Before, WellTyped, TypeOK
<1>2. Grows /\ Stored'
  BY <1>1, QuietStored
<1>3. Backed(l, m)'
  BY BlankIsBacked
<1> QED
  BY <1>2, <1>3, StepKeepsEvidence

(* The fields of an empty memory.                                          *)
LEMMA BlankFields ==
  /\ Blank.at = 0 /\ Blank.satisfied = 0 /\ Blank.failed = 0
  /\ \A t : LET m == [Blank EXCEPT !.at = t] IN m.at = t /\ m.satisfied = 0 /\ m.failed = 0
  BY DEF Blank

(* A goroutine that returns.                                               *)
LEMMA ReturnKeepsEvidence ==
  ASSUME Before, WellTyped', UNCHANGED <<tables, auditApprovals, now, effective>>,
         NEW w \in Workers, Return(w)
  PROVE  EvidenceInv'
<1>1. now \in Nat /\ 0 \in Nat /\ 0 <= now
  BY DEF Before, WellTyped, TypeOK
<1> QED
  BY <1>1, FreshKeepsEvidence, BlankFields DEF Return

(* A new decision expires after the time it was issued at.                 *)
LEMMA ExpiresLater ==
  ASSUME NEW rs \in Seq(Rows), NEW at \in Nat
  PROVE  at < ExpiresAfter(at, rs)
<1> DEFINE f == [o \in 1 .. Len(rs) |-> rs[o].deadline]
           S == {at + TTL} \cup {rs[o].deadline : o \in DOMAIN rs}
<1>0. Len(rs) \in Nat /\ DOMAIN rs = 1 .. Len(rs) /\ \A o \in DOMAIN rs : rs[o] \in Rows
  OBVIOUS
<1>1. \A o \in DOMAIN rs : rs[o].deadline \in Int
  BY <1>0 DEF Rows
<1>2. f \in [1 .. Len(rs) -> Int]
  BY <1>0, <1>1
<1>3. PICK b \in Nat : \A o \in 1 .. Len(rs) : f[o] <= b
  <2> HIDE DEF f
  <2> QED
    BY <1>0, <1>2, BoundedRange, Zenon
<1>4. TTL \in Nat \ {0} /\ at + TTL \in Nat
  BY BoundsAssumption
<1>5. S \in SUBSET Int /\ S # {} /\ at + TTL + b \in Int /\ at + TTL \in S
  BY <1>1, <1>4
<1>6. \A t \in S : t <= at + TTL + b
  BY <1>0, <1>1, <1>3, <1>4
<1>7. Max(S) \in S /\ Max(S) >= at + TTL
  <2> HIDE DEF S
  <2> QED
    BY <1>5, <1>6, MaxIsMember, Zenon
<1>8. Max(S) \in Int
  BY <1>5, <1>7
<1>9. at < Max(S)
  <2> HIDE DEF S
  <2> QED
    BY <1>4, <1>7, <1>8
<1> QED
  BY <1>9 DEF ExpiresAfter

(* Decide's reads, and the rows it is about to insert.                     *)
LEMMA DecideKeepsEvidence ==
  ASSUME Before, WellTyped', NEW w \in Workers, DecideEvaluate(w) \/ DecideIssue(w)
  PROVE  EvidenceInv'
<1>0. /\ UNCHANGED <<tables, auditApprovals, now, effective>> /\ now \in Nat /\ now <= now
      /\ mem[w] \in Memories /\ Carries(pc[w], mem[w]) /\ Backed(pc[w], mem[w])
  BY DEF DecideEvaluate, DecideIssue, audit, Before, WellTyped, TypeOK, EvidenceInv
<1>1. CASE DecideEvaluate(w)
  <2>1. CASE Goto(w, "advance", [Blank EXCEPT !.at = now])
    BY <1>0, <2>1, FreshKeepsEvidence, BlankFields, Zenon
  <2>2. CASE Goto(w, "issue", [Blank EXCEPT !.at = now, !.ord = effective])
    <3> DEFINE m == [Blank EXCEPT !.at = now, !.ord = effective]
    <3>1. m.at = now /\ m.satisfied = 0 /\ m.failed = 0
      BY DEF Blank
    <3> HIDE DEF m
    <3> QED
      BY <1>0, <2>2, <3>1, FreshKeepsEvidence, Zenon DEF m
  <2> QED
    BY <1>1, <2>1, <2>2 DEF DecideEvaluate
<1>2. CASE DecideIssue(w)
  <2> DEFINE rs == IssueAll(mem[w].ord, mem[w].at)
             e == ExpiresAfter(mem[w].at, rs)
             k == [mem[w] EXCEPT !.version = effective,
                                 !.material = Policies[mem[w].ord].material,
                                 !.rows = rs,
                                 !.expires = e]
  <2>1. mem[w].ord \in 1 .. Len(Policies) /\ mem[w].at \in Nat /\ mem[w].at <= now
    BY <1>0, <1>2 DEF DecideIssue, Carries, Memories, Backed
  <2>2. rs \in Seq(Rows)
    BY <2>1, IssueType
  <2>3. \A o \in DOMAIN rs : rs[o].state = "pending"
    BY Zenon DEF IssueAll, Issue, IssueQuorum, IssueDelay
  <2>4. mem[w].at < e
    <3> HIDE DEF rs
    <3> QED
      BY <2>1, <2>2, ExpiresLater
  <2> HIDE DEF rs, e
  <2>5. k.rows = rs /\ k.expires = e /\ k.at = mem[w].at
    BY <1>0 DEF Memories
  <2>6. Goto(w, "create", k)
    BY <1>2 DEF DecideIssue, rs, e
  <2> HIDE DEF k
  <2>7. PICK m : m = k
    OBVIOUS
  <2>8. /\ Goto(w, "create", m) /\ m.at < m.expires /\ m.at <= now
        /\ \A o \in DOMAIN m.rows : m.rows[o].state = "pending"
    BY <2>1, <2>3, <2>4, <2>5, <2>6, <2>7
  <2>9. Backed("create", m)'
    BY <1>0, <2>8, Zenon DEF Backed
  <2> QED
    BY <1>0, <2>8, <2>9, QuietStored, StepKeepsEvidence
<1> QED
  BY <1>1, <1>2

(* The decision is inserted: every gate is pending and no vote is in.      *)
LEMMA CreateKeepsEvidence ==
  ASSUME Before, WellTyped', NEW w \in Workers, DecideCreate(w)
  PROVE  EvidenceInv'
<1> DEFINE m == [Blank EXCEPT !.at = mem[w].at]
<1>0. /\ UNCHANGED <<auditApprovals, now, effective>> /\ now \in Nat
      /\ mem \in [Workers -> Memories] /\ Backed("create", mem[w]) /\ Goto(w, "advance", m)
      /\ DOMAIN pc = Workers
  BY DEF DecideCreate, audit, Before, WellTyped, TypeOK, EvidenceInv
<1>1. m.at = mem[w].at /\ m.satisfied = 0 /\ m.failed = 0 /\ mem[w].at \in Nat /\ mem[w].at <= now
  BY <1>0, BlankFields DEF Backed, Memories
<1> HIDE DEF m
<1>2. CASE state # "absent"
  <2>1. UNCHANGED tables
    BY <1>2 DEF DecideCreate
  <2> QED
    BY <1>0, <1>1, <2>1, FreshKeepsEvidence
<1>3. CASE state = "absent"
  <2>1. /\ state' = "pending" /\ rows' = mem[w].rows /\ approvals' = approvals
        /\ Stored /\ approvals = {}
    BY <1>3 DEF DecideCreate, Before, EvidenceInv, Stored
  <2>2. \A o : Voters(o)' = Voters(o)
    BY <2>1 DEF Voters
  <2>3. \A o \in DOMAIN rows' : rows'[o].state = "pending"
    BY <1>0, <2>1, Zenon DEF Backed
  <2>4. Stored'
    BY <1>0, <2>1, <2>2, <2>3, Zenon DEF Stored
  <2>5. pc' = [pc EXCEPT ![w] = "advance"] /\ mem' = [mem EXCEPT ![w] = m]
    BY <1>0 DEF Goto
  <2>6. ASSUME NEW u \in Workers PROVE Backed(pc[u], mem[u])'
    <3>1. CASE u = w
      <4>1. pc'[u] = "advance" /\ mem'[u] = m
        BY <1>0, <2>5, <3>1
      <4> QED
        BY <1>0, <1>1, <4>1, Zenon DEF Backed
    <3>2. CASE u # w
      <4>1. pc'[u] = pc[u] /\ mem'[u] = mem[u]
        BY <1>0, <2>5, <3>2
      <4>2. /\ Backed(pc[u], mem[u]) /\ EnteredInTime(pc[u], mem[u])
        BY DEF Before, EvidenceInv, EnteredInv
      <4>3. /\ pc[u] \notin {"collect", "approve", "count", "record", "progress", "settle", "write"}
            /\ ~(pc[u] = "resolve" /\ mem[u].out = "allowed")
        BY <1>3, <4>2, Zenon DEF Backed, EnteredInTime
      <4> QED
        BY <1>0, <4>1, <4>2, <4>3, Zenon DEF Backed
    <3> QED
      BY <3>1, <3>2, Zenon
  <2> QED
    BY <2>4, <2>6 DEF EvidenceInv
<1> QED
  BY <1>2, <1>3

(* Submit reads the decision and the challenge.                            *)
LEMMA SubmitReadsKeepEvidence ==
  ASSUME Before, WellTyped', NEW w \in Workers,
         SubmitCheck(w) \/ CountApprovals(w) \/ (\E p \in People, o \in DOMAIN rows : SubmitRead(w, p, o))
  PROVE  EvidenceInv'
<1>a. UNCHANGED <<tables, auditApprovals, now, effective>>
  BY Zenon DEF SubmitRead, SubmitCheck, CountApprovals, audit
<1>0. /\ UNCHANGED <<tables, auditApprovals, now, effective>> /\ now \in Nat /\ now <= now' /\ expires \in Int
      /\ mem[w] \in Memories /\ Backed(pc[w], mem[w])
  BY <1>a DEF Before, WellTyped, TypeOK, EvidenceInv
<1>1. Grows /\ Stored' /\ rows' = rows /\ state' = state /\ expires' = expires
  BY <1>0, QuietStored, Zenon DEF tables, row
<1>2. ASSUME NEW l, NEW m, Goto(w, l, m), Backed(l, m)' PROVE EvidenceInv'
  BY <1>1, <1>2, StepKeepsEvidence
<1>3. ASSUME NEW p, NEW o, SubmitRead(w, p, o) PROVE EvidenceInv'
  <2> DEFINE k == [Blank EXCEPT !.at = now, !.who = p, !.ord = o, !.material = material, !.expires = expires]
  <2>1. k.at = now
    BY DEF Blank
  <2>a. state = "pending" /\ ~IsExpired(now, expires) /\ Goto(w, "collect", k)
    BY <1>3, Zenon DEF SubmitRead
  <2> HIDE DEF k
  <2>2. state = "pending" /\ now < expires /\ Goto(w, "collect", k)
    BY <1>0, <2>a DEF IsExpired
  <2>3. PICK m : m = k
    OBVIOUS
  <2>4. m.at = now
    BY <2>1, <2>3
  <2>5. Backed("collect", m)'
    BY <1>0, <1>1, <2>2, <2>4, Zenon DEF Backed
  <2> QED
    BY <1>2, <2>2, <2>3, <2>5
<1>4. CASE SubmitCheck(w)
  <2> DEFINE r == rows[mem[w].ord]
             ka == [mem[w] EXCEPT !.detail = r.detail]
             kd == Cancelled(mem[w], r)
  <2>1. mem[w].at <= now /\ mem[w].at < expires /\ state # "absent"
    BY <1>0, <1>4 DEF SubmitCheck, Backed
  <2>2. CASE mem[w].ord \in DOMAIN rows /\ r.kind = "quorum" /\ Goto(w, "approve", ka)
    <3>1. ka.at = mem[w].at /\ ka.ord = mem[w].ord /\ ka.detail = r.detail
      BY <1>0 DEF Memories
    <3> HIDE DEF ka
    <3>2. PICK m : m = ka
      OBVIOUS
    <3>3. /\ m.at <= now /\ m.at < expires /\ m.ord \in DOMAIN rows /\ rows[m.ord].kind = "quorum"
          /\ SameTerms(m.detail, rows[m.ord].detail)
      BY <2>1, <2>2, <3>1, <3>2, Zenon DEF SameTerms
    <3>4. Backed("approve", m)'
      BY <1>0, <1>1, <2>1, <3>3, Zenon DEF Backed
    <3> QED
      BY <1>2, <2>2, <3>2, <3>4, Zenon
  <2>3. CASE mem[w].ord \in DOMAIN rows /\ r.kind = "delay" /\ Goto(w, "record", kd)
    <3>0. rows \in Seq(Rows)
      BY Zenon DEF Before, WellTyped, TypeOK
    <3>1. rows \in Seq(Rows) /\ r \in Rows
      BY <2>3, <3>0
    <3>2. SameTerms([r.detail EXCEPT !.cancelled = TRUE], r.detail)
      BY <3>1 DEF Rows, Details, SameTerms
    <3>3. /\ kd.at = mem[w].at /\ kd.ord = mem[w].ord /\ kd.out = "failed"
          /\ kd.detail = [r.detail EXCEPT !.cancelled = TRUE]
      BY <1>0 DEF Memories, Cancelled
    <3> HIDE DEF kd
    <3>4. PICK m : m = kd
      OBVIOUS
    <3>5. /\ m.at <= now /\ m.at < expires /\ m.ord \in DOMAIN rows /\ rows[m.ord].kind = "delay"
          /\ SameTerms(m.detail, rows[m.ord].detail) /\ m.out = "failed"
      BY <2>1, <2>3, <3>2, <3>3, <3>4
    <3>6. Backed("record", m)'
      BY <1>0, <1>1, <2>1, <3>5, Zenon DEF Backed
    <3> QED
      BY <1>2, <2>3, <3>4, <3>6, Zenon
  <2>4. CASE Return(w)
    BY <1>0, <2>4, ReturnKeepsEvidence, Zenon
  <2> QED
    BY <1>4, <2>2, <2>3, <2>4, Zenon DEF SubmitCheck, Collecting
<1>5. CASE CountApprovals(w)
  <2> DEFINE s == IF Count(mem[w].ord) >= mem[w].detail.need THEN "satisfied" ELSE "pending"
             k == [mem[w] EXCEPT !.out = s]
  <2>1. /\ mem[w].at <= now /\ mem[w].at < expires /\ state # "absent" /\ mem[w].ord \in DOMAIN rows
        /\ SameTerms(mem[w].detail, rows[mem[w].ord].detail) /\ rows[mem[w].ord].kind = "quorum"
    BY <1>0, <1>5 DEF CountApprovals, Backed
  <2>2. s \in {"pending", "satisfied"} /\ (s = "satisfied" => Evidence(mem[w].ord))
    BY <2>1 DEF Evidence, SameTerms
  <2>3. Goto(w, "record", k)
    BY <1>5 DEF CountApprovals
  <2> HIDE DEF s
  <2>4. k.at = mem[w].at /\ k.ord = mem[w].ord /\ k.detail = mem[w].detail /\ k.out = s
    BY <1>0 DEF Memories
  <2> HIDE DEF k
  <2>5. PICK m : m = k
    OBVIOUS
  <2>6. /\ m.at <= now /\ m.at < expires /\ m.ord \in DOMAIN rows
        /\ SameTerms(m.detail, rows[m.ord].detail)
        /\ m.out \in {"pending", "satisfied"} /\ (m.out = "satisfied" => Evidence(m.ord))
    BY <2>1, <2>2, <2>4, <2>5
  <2>7. m.out = "satisfied" => Evidence(m.ord)'
    BY <1>1, <2>6, EvidenceGrows DEF Before
  <2>8. Backed("record", m)'
    BY <1>0, <1>1, <2>1, <2>6, <2>7, Zenon DEF Backed
  <2> QED
    BY <1>2, <2>3, <2>5, <2>8
<1> QED
  BY <1>3, <1>4, <1>5

(* Submit records the vote, and then the state the handler answered.       *)
LEMMA SubmitWritesKeepEvidence ==
  ASSUME Before, WellTyped', NEW w \in Workers, RecordApproval(w) \/ SubmitRecord(w)
  PROVE  EvidenceInv' /\ Grows
<1>0. /\ now' = now /\ now \in Nat /\ mem[w] \in Memories
      /\ Carries(pc[w], mem[w]) /\ Backed(pc[w], mem[w])
  BY DEF RecordApproval, SubmitRecord, Before, WellTyped, TypeOK, EvidenceInv
<1>1. CASE RecordApproval(w)
  <2>1. Grows /\ Stored'
    BY <1>1, VoteStored
  <2>2. PICK m : m = mem[w]
    OBVIOUS
  <2>3. m \in Memories /\ Backed("approve", m) /\ m.ord \in DOMAIN rows
    BY <1>0, <1>1, <2>2, Zenon DEF RecordApproval, Backed
  <2>4. Backed("approve", m)'
    BY <2>1, <2>3, BackedGrows DEF Before
  <2>5. Backed("count", m)'
    BY <2>4, Zenon DEF Backed
  <2>6. Goto(w, "count", m)
    BY <1>1, <2>2, <2>3 DEF RecordApproval
  <2> QED
    BY <2>1, <2>5, <2>6, StepKeepsEvidence
<1>2. CASE SubmitRecord(w)
  <2> DEFINE k == [Blank EXCEPT !.at = mem[w].at]
  <2>1. /\ mem[w].ord \in DOMAIN rows /\ SameTerms(mem[w].detail, rows[mem[w].ord].detail)
        /\ mem[w].out = "satisfied" => Evidence(mem[w].ord)
        /\ rows[mem[w].ord].kind = "quorum" => mem[w].out \in {"pending", "satisfied"}
        /\ mem[w].at <= now
    BY <1>0, <1>2 DEF SubmitRecord, Backed
  <2>2. mem[w].out \in ChallengeStates /\ mem[w].detail \in Details /\ mem[w].at \in Nat
    BY <1>0, <1>2 DEF SubmitRecord, Carries, Memories
  <2>3. /\ SetChallengeState(mem[w].ord, mem[w].out, mem[w].detail) /\ Goto(w, "advance", k)
        /\ UNCHANGED <<now, approvals, auditApprovals>>
    BY <1>2, <2>1 DEF SubmitRecord
  <2>4. Grows /\ Stored'
    BY <2>1, <2>2, <2>3, WriteStored
  <2>5. k.at = mem[w].at /\ k.satisfied = 0 /\ k.failed = 0
    BY BlankFields
  <2> HIDE DEF k
  <2>6. PICK m : m = k
    OBVIOUS
  <2>7. Backed("advance", m)'
    BY <1>0, <2>1, <2>5, <2>6, Zenon DEF Backed
  <2> QED
    BY <2>3, <2>4, <2>6, <2>7, StepKeepsEvidence
<1> QED
  BY <1>1, <1>2

(* A step that only reads.                                                 *)
LEMMA ReadKeepsEvidence ==
  ASSUME Before, WellTyped', UNCHANGED <<tables, auditApprovals, now, effective>>,
         NEW w \in Workers, NEW l, NEW m \in Memories, Goto(w, l, m), Backed(l, m)
  PROVE  EvidenceInv'
<1>1. now <= now' /\ WellTyped
  BY DEF Before, WellTyped, TypeOK
<1>2. Grows /\ Stored'
  BY <1>1, QuietStored
<1>3. Backed(l, m)'
  BY <1>1, <1>2, BackedGrows
<1> QED
  BY <1>2, <1>3, StepKeepsEvidence

(* The loop starts on the rows as they are.                                *)
LEMMA FreshReading ==
  ASSUME Before, NEW m \in Memories, m.rows = rows, m.ord = 1, m.satisfied = 0
  PROVE  Reading(m)
<1>1. rows \in Seq(Rows) /\ Len(rows) \in Nat /\ Stored /\ QuorumsHaveNoTimer(rows)
  BY DEF Before, WellTyped, TypeOK, EvidenceInv, SchedulerInv
<1>2. ASSUME NEW o \in DOMAIN rows PROVE Read(o, m.rows[o])
  BY <1>1 DEF Read, SameTerms, Stored, QuorumsHaveNoTimer
<1>3. m.ord \in 1 .. Len(m.rows) + 1 /\ m.satisfied < m.ord
  BY <1>1
<1>4. \A o \in DOMAIN rows : ~(o < m.ord)
  BY <1>1
<1> QED
  BY <1>2, <1>3, <1>4 DEF Reading

(* The tally counts a gate as satisfied only if its evidence is there.     *)
LEMMA TallyReading ==
  ASSUME WellTyped, NEW m \in Memories, Reading(m), m.ord \in DOMAIN m.rows,
         NEW s, s = "satisfied" => Evidence(m.ord)
  PROVE  Reading(Tally(m, s)) /\ Tally(m, s).at = m.at
<1> DEFINE t == Tally(m, s)
<1>1. /\ t.rows = m.rows /\ t.ord = m.ord + 1 /\ t.at = m.at
      /\ t.satisfied = IF s = "satisfied" THEN m.satisfied + 1 ELSE m.satisfied
  BY DEF Tally, Memories
<1> HIDE DEF t
<1>2. m.ord \in Nat /\ m.satisfied \in Nat /\ m.rows \in Seq(Rows) /\ Len(m.rows) \in Nat /\ rows \in Seq(Rows)
  BY DEF Memories, WellTyped, TypeOK
<1>3. /\ DOMAIN m.rows = DOMAIN rows /\ (\A o \in DOMAIN rows : Read(o, m.rows[o]))
      /\ m.satisfied < m.ord
      /\ m.satisfied + 1 = m.ord => \A o \in DOMAIN rows : o < m.ord => Evidence(o)
  BY DEF Reading
<1>4. t.ord \in 1 .. Len(t.rows) + 1 /\ t.satisfied < t.ord
  BY <1>1, <1>2, <1>3
<1>5. ASSUME t.satisfied + 1 = t.ord, NEW o \in DOMAIN rows, o < t.ord PROVE Evidence(o)
  <2>1. s = "satisfied" /\ m.satisfied + 1 = m.ord
    BY <1>1, <1>2, <1>3, <1>5
  <2>2. o \in Nat /\ (o < m.ord \/ o = m.ord)
    BY <1>1, <1>2, <1>5
  <2> QED
    BY <1>3, <2>1, <2>2
<1>6. Reading(t)
  BY <1>1, <1>3, <1>4, <1>5 DEF Reading
<1> QED
  BY <1>1, <1>6 DEF t

(* The handler answers on evidence, and a quorum never fails on its own.   *)
LEMMA SettledOnEvidence ==
  ASSUME WellTyped, NEW o \in DOMAIN rows, NEW r \in Rows, Read(o, r), NEW at \in Nat, at <= now
  PROVE  /\ Settled(o, r, at) = "satisfied" => Evidence(o)
         /\ rows[o].kind = "quorum" => Settled(o, r, at) \in {"pending", "satisfied"}
         /\ Settled(o, r, at) \in ChallengeStates
<1>1. rows[o] \in Rows /\ now \in Nat
  BY DEF WellTyped, TypeOK
<1>2. /\ r.kind = rows[o].kind /\ r.detail.need = rows[o].detail.need
      /\ r.detail.release = rows[o].detail.release /\ r.detail.release \in Int
      /\ rows[o].kind = "quorum" => r.deadline = NoTime
      /\ r.kind \in {"quorum", "delay"}
  BY DEF Read, SameTerms, Rows, Details
<1>3. CASE r.kind = "quorum"
  <2>1. Settled(o, r, at) = QuorumStatus(o, r)
    BY <1>2, <1>3 DEF Settled, HandlerStatus
  <2> QED
    BY <1>2, <1>3, <2>1, Zenon DEF QuorumStatus, Evidence, ChallengeStates
<1>4. CASE r.kind = "delay"
  <2>1. DelayStatus(r, at) = "satisfied" => at >= r.detail.release
    BY DEF DelayStatus
  <2>2. DelayStatus(r, at) \in {"failed", "pending", "satisfied"}
    BY DEF DelayStatus
  <2>3. /\ Settled(o, r, at) \in {DelayStatus(r, at), "failed"}
    BY <1>4 DEF Settled, HandlerStatus
  <2>4. Settled(o, r, at) = "satisfied" => now >= rows[o].detail.release
    BY <1>1, <1>2, <2>1, <2>3
  <2> QED
    BY <1>2, <1>4, <2>2, <2>3, <2>4 DEF Evidence, ChallengeStates
<1> QED
  BY <1>2, <1>3, <1>4

(* advance reads the decision, then its rows.                              *)
LEMMA AdvanceReadsKeepEvidence ==
  ASSUME Before, WellTyped', NEW w \in Workers, AdvanceRead(w) \/ AdvanceProgress(w)
  PROVE  EvidenceInv'
<1>1. UNCHANGED <<tables, auditApprovals, now, effective>>
  BY DEF AdvanceRead, AdvanceProgress, audit
<1>2. /\ mem[w] \in Memories /\ Backed(pc[w], mem[w]) /\ rows \in Seq(Rows)
  BY DEF Before, WellTyped, TypeOK, EvidenceInv
<1>3. CASE AdvanceRead(w)
  <2>1. CASE Goto(w, "progress", mem[w])
    <3>1. Backed("progress", mem[w])
      BY <1>2, <1>3, Zenon DEF AdvanceRead, Backed
    <3> QED
      BY <1>1, <1>2, <2>1, <3>1, ReadKeepsEvidence, Zenon
  <2>2. CASE Return(w)
    BY <1>1, <2>2, ReturnKeepsEvidence
  <2> QED
    BY <1>3, <2>1, <2>2 DEF AdvanceRead
<1>4. CASE AdvanceProgress(w)
  <2> DEFINE k == [mem[w] EXCEPT !.rows = rows, !.ord = 1]
  <2>1. Goto(w, "settle", k) /\ Backed("progress", mem[w])
    BY <1>2, <1>4 DEF AdvanceProgress
  <2>2. k \in Memories /\ k.rows = rows /\ k.ord = 1 /\ k.satisfied = mem[w].satisfied /\ k.at = mem[w].at
    BY <1>2, Zenon DEF Memories
  <2> HIDE DEF k
  <2>3. k.satisfied = 0 /\ k.at <= now
    BY <2>1, <2>2, Zenon DEF Backed
  <2>4. Reading(k)
    BY <2>2, <2>3, FreshReading
  <2>5. Backed("settle", k)
    BY <2>3, <2>4 DEF Backed
  <2> QED
    BY <1>1, <2>1, <2>2, <2>5, ReadKeepsEvidence
<1> QED
  BY <1>3, <1>4

(* One turn of the loop.                                                   *)
LEMMA SettleKeepsEvidence ==
  ASSUME Before, WellTyped', NEW w \in Workers, AdvanceSettle(w)
  PROVE  EvidenceInv'
<1> DEFINE m == mem[w]
           r == m.rows[m.ord]
           s == IF r.state = "pending" THEN Settled(m.ord, r, m.at) ELSE r.state
           k == [m EXCEPT !.out = s]
<1>1. UNCHANGED <<tables, auditApprovals, now, effective>>
  BY Zenon DEF AdvanceSettle, audit
<1>2. /\ m \in Memories /\ Backed("settle", m) /\ WellTyped /\ m.ord \in DOMAIN m.rows
      /\ m.rows \in Seq(Rows) /\ m.at \in Nat
  BY Zenon DEF AdvanceSettle, Before, WellTyped, TypeOK, EvidenceInv, Memories
<1>3. /\ Reading(m) /\ m.at <= now /\ m.ord \in DOMAIN rows /\ Read(m.ord, r) /\ r \in Rows
  <2>1. Reading(m) /\ m.at <= now
    BY <1>2, Zenon DEF Backed
  <2>2. m.ord \in DOMAIN rows /\ Read(m.ord, r)
    BY <1>2, <2>1, Zenon DEF Reading
  <2>3. r \in Rows
    BY <1>2
  <2> QED
    BY <2>1, <2>2, <2>3, Zenon
<1>4. /\ Settled(m.ord, r, m.at) = "satisfied" => Evidence(m.ord)
      /\ rows[m.ord].kind = "quorum" => Settled(m.ord, r, m.at) \in {"pending", "satisfied"}
      /\ Settled(m.ord, r, m.at) \in ChallengeStates
  BY <1>2, <1>3, SettledOnEvidence, Zenon
<1>5. (s = "satisfied" => Evidence(m.ord)) /\ s \in ChallengeStates
  BY <1>3, <1>4, Zenon DEF Read, Rows
<1>6. CASE r.state = "pending" /\ s # "pending" /\ Goto(w, "write", k)
  <2>1. rows[m.ord].kind = "quorum" => s = "satisfied"
    BY <1>4, <1>6
  <2> HIDE DEF s
  <2>2. /\ k \in Memories /\ k.at = m.at /\ k.out = s /\ k.ord = m.ord /\ k.rows = m.rows
        /\ k.satisfied = m.satisfied
    BY <1>2, <1>5 DEF Memories
  <2> HIDE DEF k
  <2>3. Reading(k)
    BY <1>3, <2>2, Zenon DEF Reading
  <2>4. Backed("write", k)
    BY <1>3, <1>5, <2>1, <2>2, <2>3, Zenon DEF Backed
  <2> QED
    BY <1>1, <1>6, <2>2, <2>4, ReadKeepsEvidence, Zenon
<1>7. CASE Goto(w, "settle", Tally(m, s))
  <2> HIDE DEF s
  <2>1. Reading(Tally(m, s)) /\ Tally(m, s).at = m.at
    BY <1>2, <1>3, <1>5, TallyReading, Zenon
  <2>2. Tally(m, s) \in Memories
    BY <1>2, TallyType
  <2>3. Backed("settle", Tally(m, s))
    BY <1>3, <2>1, Zenon DEF Backed
  <2> QED
    BY <1>1, <1>7, <2>2, <2>3, ReadKeepsEvidence
<1> QED
  BY <1>6, <1>7, Zenon DEF AdvanceSettle

(* The loop writes what it settled, with the detail that was read.         *)
LEMMA AdvanceWriteKeepsEvidence ==
  ASSUME Before, WellTyped', NEW w \in Workers, AdvanceWrite(w)
  PROVE  EvidenceInv' /\ Grows
<1>1. PICK m : m = mem[w]
  OBVIOUS
<1> DEFINE d == m.rows[m.ord].detail
<1>2. /\ m \in Memories /\ Backed("write", m) /\ Carries("write", m) /\ WellTyped
      /\ UNCHANGED <<now, approvals, auditApprovals>>
  BY <1>1, Zenon DEF AdvanceWrite, Before, WellTyped, TypeOK, EvidenceInv, audit
<1>3. /\ m.ord \in DOMAIN rows /\ m.at <= now /\ Reading(m) /\ (m.out = "satisfied" => Evidence(m.ord))
      /\ rows[m.ord].kind = "quorum" /\ state = "pending" => m.out = "satisfied"
      /\ m.out \in ChallengeStates /\ m.ord \in DOMAIN m.rows
  BY <1>2, Zenon DEF Backed, Carries
<1>4. SameTerms(d, rows[m.ord].detail)
  BY <1>3 DEF Reading, Read
<1>5. d \in Details
  <2>1. m.rows \in Seq(Rows)
    BY <1>2 DEF Memories
  <2>2. m.rows[m.ord] \in Rows
    BY <1>3, <2>1
  <2> QED
    BY <2>2 DEF Rows
<1>6. SetChallengeState(m.ord, m.out, d) /\ Goto(w, "settle", Tally(m, m.out))
  BY <1>1, <1>3, Zenon DEF AdvanceWrite
<1> HIDE DEF d
<1>7. Grows /\ Stored'
  BY <1>2, <1>3, <1>4, <1>5, <1>6, WriteStored, Zenon
<1>8. PICK t : t = Tally(m, m.out)
  OBVIOUS
<1>9. t \in Memories /\ Reading(t) /\ t.at = m.at
  BY <1>2, <1>3, <1>8, TallyReading, TallyType, Zenon
<1>10. Backed("settle", t)
  BY <1>3, <1>9 DEF Backed
<1>11. Backed("settle", t)'
  BY <1>2, <1>7, <1>9, <1>10, BackedGrows
<1> QED
  BY <1>6, <1>7, <1>8, <1>11, StepKeepsEvidence

(* The loop is over: a full tally means that every gate has its evidence.  *)
LEMMA AdvanceDecideKeepsEvidence ==
  ASSUME Before, WellTyped', NEW w \in Workers, AdvanceDecide(w)
  PROVE  EvidenceInv'
<1> DEFINE m == mem[w]
           kd == [m EXCEPT !.out = "denied"]
           ka == [m EXCEPT !.out = "allowed"]
<1>1. UNCHANGED <<tables, auditApprovals, now, effective>>
  BY DEF AdvanceDecide, audit
<1>2. /\ m \in Memories /\ Backed("settle", m) /\ m.ord \notin DOMAIN m.rows
      /\ m.rows \in Seq(Rows) /\ m.ord \in Nat /\ m.satisfied \in Nat /\ rows \in Seq(Rows)
  BY Zenon DEF AdvanceDecide, Before, WellTyped, TypeOK, EvidenceInv, Memories
<1>3. Reading(m) /\ m.at <= now
  BY <1>2, Zenon DEF Backed
<1>a. "denied" \in Terminal /\ "allowed" \in Terminal
  BY DEF Terminal, Lifecycle!Terminal, Lifecycle!States
<1>4. CASE Goto(w, "resolve", kd)
  <2>1. kd \in Memories /\ kd.at = m.at /\ kd.out = "denied"
    BY <1>2, <1>a, Zenon DEF Memories
  <2> HIDE DEF kd
  <2>2. Backed("resolve", kd)
    BY <1>3, <2>1, Zenon DEF Backed
  <2> QED
    BY <1>1, <1>4, <2>1, <2>2, ReadKeepsEvidence
<1>5. CASE m.satisfied = Len(m.rows) /\ Goto(w, "resolve", ka)
  <2>1. ka \in Memories /\ ka.at = m.at
    BY <1>2, <1>a, Zenon DEF Memories
  <2>2. m.ord = Len(m.rows) + 1 /\ DOMAIN m.rows = 1 .. Len(m.rows) /\ Len(m.rows) \in Nat
    BY <1>2, <1>3 DEF Reading
  <2>3. ASSUME NEW o \in DOMAIN rows PROVE Evidence(o)
    <3>1. o \in 1 .. Len(m.rows) /\ o < m.ord /\ m.satisfied + 1 = m.ord
      BY <1>3, <1>5, <2>2 DEF Reading
    <3> QED
      BY <1>3, <3>1 DEF Reading
  <2> HIDE DEF ka
  <2>4. Backed("resolve", ka)
    BY <1>3, <2>1, <2>3, Zenon DEF Backed
  <2> QED
    BY <1>1, <1>5, <2>1, <2>4, ReadKeepsEvidence, Zenon
<1>6. CASE Return(w)
  BY <1>1, <1>6, ReturnKeepsEvidence
<1> QED
  BY <1>4, <1>5, <1>6 DEF AdvanceDecide

(* The resolution is an allow only on the evidence of every gate.          *)
LEMMA ResolveKeepsEvidence ==
  ASSUME Before, WellTyped', NEW w \in Workers, Resolve(w)
  PROVE  EvidenceInv'
<1>1. PICK to : to = mem[w].out
  OBVIOUS
<1>2. /\ ResolveDecision(to) /\ Return(w) /\ UNCHANGED <<now, rows, approvals, auditApprovals>>
      /\ Backed("resolve", mem[w]) /\ Carries("resolve", mem[w]) /\ now \in Nat
  BY <1>1 DEF Resolve, Before, WellTyped, TypeOK, EvidenceInv
<1>3. to \notin {"absent", "pending"} /\ (to = "allowed" => \A o \in DOMAIN rows : Evidence(o))
  BY <1>1, <1>2, Zenon DEF Backed, Carries
<1>4. Grows /\ Stored'
  BY <1>2, <1>3, ResolveStored
<1>5. PICK m : m = Blank
  OBVIOUS
<1>6. Backed("idle", m)'
  BY <1>2, <1>5, BlankFields DEF Backed
<1> QED
  BY <1>2, <1>4, <1>5, <1>6, StepKeepsEvidence DEF Return

(* The sweeper's claim and a goroutine that dies carry no evidence.        *)
LEMMA ClaimKeepsEvidence ==
  ASSUME Before, WellTyped', NEW w \in Workers, SweepClaim(w) \/ Crash(w)
  PROVE  EvidenceInv'
<1>1. UNCHANGED <<tables, auditApprovals, now, effective>> /\ now \in Nat
  BY DEF SweepClaim, Crash, audit, Before, WellTyped, TypeOK
<1> DEFINE ka == [Blank EXCEPT !.at = now]
           ke == [Blank EXCEPT !.at = now, !.out = "expired"]
<1>2. CASE Goto(w, "advance", ka)
  <2>1. ka.at = now /\ ka.satisfied = 0 /\ ka.failed = 0
    BY BlankFields
  <2> HIDE DEF ka
  <2> QED
    BY <1>1, <1>2, <2>1, FreshKeepsEvidence
<1>3. CASE Goto(w, "resolve", ke)
  <2>1. "expired" \in Terminal
    BY DEF Terminal, Lifecycle!Terminal, Lifecycle!States
  <2>2. ke \in Memories /\ ke.at = now /\ ke.out = "expired"
    BY <1>1, <2>1, BlankType, Zenon DEF Blank, Memories
  <2> HIDE DEF ke
  <2>3. Backed("resolve", ke)
    <3>1. ke.at <= now
      BY <1>1, <2>2
    <3> QED
      BY <2>2, <3>1, Zenon DEF Backed
  <2> QED
    BY <1>1, <1>3, <2>2, <2>3, ReadKeepsEvidence
<1>4. CASE Return(w)
  BY <1>1, <1>4, ReturnKeepsEvidence
<1> QED
  BY <1>2, <1>3, <1>4 DEF SweepClaim, Crash

(* A step in which no goroutine moves.                                     *)
LEMMA StillKeepsEvidence ==
  ASSUME Before, WellTyped', Grows, Stored', UNCHANGED <<pc, mem>>
  PROVE  EvidenceInv'
<1>1. ASSUME NEW u \in Workers PROVE Backed(pc[u], mem[u])'
  <2>1. PICK l, m : l = pc[u] /\ m = mem[u]
    OBVIOUS
  <2>2. m \in Memories /\ Backed(l, m) /\ WellTyped /\ pc'[u] = l /\ mem'[u] = m
    BY <2>1 DEF Before, WellTyped, TypeOK, EvidenceInv
  <2>3. Backed(l, m)'
    BY <2>2, BackedGrows, Zenon
  <2> QED
    BY <2>2, <2>3, BackedHere
<1> QED
  BY <1>1 DEF EvidenceInv

(* A withdrawal ends the decision, and with it its pending challenges.     *)
LEMMA CancelKeepsEvidence ==
  ASSUME Before, WellTyped', CancelDecision
  PROVE  EvidenceInv'
<1>1. /\ rows \in Seq(Rows) /\ Stored /\ now \in Nat
  BY DEF Before, WellTyped, TypeOK, EvidenceInv
<1>2. /\ state = "pending" /\ state' = "cancelled" /\ expires' = expires
      /\ UNCHANGED <<now, approvals, auditApprovals, pc, mem>>
  BY DEF CancelDecision, ResolveDecision
<1>3. rows' = [o \in DOMAIN rows |-> IF rows[o].state = "pending"
                                     THEN [rows[o] EXCEPT !.state = "cancelled"] ELSE rows[o]]
  BY DEF CancelDecision
<1>4. ASSUME NEW o \in DOMAIN rows
      PROVE  /\ rows'[o].kind = rows[o].kind /\ rows'[o].detail = rows[o].detail
             /\ rows'[o].state = "satisfied" => rows[o].state = "satisfied"
  <2>1. rows[o] \in Rows /\ rows'[o] = IF rows[o].state = "pending"
                                       THEN [rows[o] EXCEPT !.state = "cancelled"] ELSE rows[o]
    BY <1>1, <1>3
  <2> QED
    BY <2>1 DEF Rows
<1>5. DOMAIN rows' = DOMAIN rows /\ \A o \in Nat : Voters(o)' = Voters(o)
  BY <1>2, <1>3 DEF Voters
<1>6. Grows
  BY <1>1, <1>2, <1>4, <1>5 DEF Grows, SameTerms, Stored
<1>7. ASSUME NEW o \in DOMAIN rows, rows'[o].state = "satisfied" PROVE Evidence(o)'
  BY <1>1, <1>4, <1>6, <1>7, EvidenceGrows, Zenon DEF Stored, Before
<1>8. \A a \in approvals : a.ord \in DOMAIN rows /\ a.hash = rows'[a.ord].detail.hash
  BY <1>1, <1>4 DEF Stored
<1>9. Stored'
  BY <1>1, <1>2, <1>5, <1>7, <1>8, Zenon DEF Stored
<1> QED
  BY <1>2, <1>6, <1>9, StillKeepsEvidence

(* The database starts without a decision and without evidence.            *)
LEMMA InitEvidence == Init => EvidenceInv
<1> SUFFICES ASSUME Init PROVE EvidenceInv
  OBVIOUS
<1>1. rows = <<>> /\ approvals = {} /\ state = "absent" /\ DOMAIN rows = {} /\ now = 0
  BY DEF Init
<1>2. ASSUME NEW o \in Nat PROVE IsFiniteSet(Voters(o))
  <2>1. Voters(o) = {}
    BY <1>1 DEF Voters
  <2> QED
    BY <2>1, FS_EmptySet
<1>3. Stored
  BY <1>1, <1>2 DEF Stored
<1>4. ASSUME NEW w \in Workers PROVE Backed(pc[w], mem[w])
  <2>1. pc[w] = "idle" /\ mem[w] = Blank
    BY DEF Init
  <2> QED
    BY <1>1, <2>1, BlankFields DEF Backed
<1> QED
  BY <1>3, <1>4 DEF EvidenceInv

(* Every step preserves it; a revision ends what it is about.              *)
LEMMA NextKeepsEvidence ==
  WellTyped /\ SchedulerInv /\ EnteredInv /\ EvidenceInv /\ [Next]_vars => EvidenceInv'
<1> SUFFICES ASSUME WellTyped, SchedulerInv, EnteredInv, EvidenceInv, [Next]_vars PROVE EvidenceInv'
  OBVIOUS
<1>1. WellTyped' /\ effective \in Nat \ {0}
  BY NextTyped DEF WellTyped, TypeOK
<1>2. ASSUME NEW mode, Revise(mode) PROVE EvidenceInv'
  <2>1. effective' = effective + 1
    BY <1>2, Zenon DEF Revise
  <2>2. effective' # 1
    BY <1>1, <2>1
  <2> QED
    BY <2>2, Zenon DEF EvidenceInv
<1>3. CASE effective' # 1
  BY <1>3 DEF EvidenceInv
<1>4. CASE effective' = 1 /\ ~(\E mode \in {"revaluate", "grandfather"} : Revise(mode))
  <2>1. effective = 1
    <3>1. ASSUME NEW w \in Workers, Request(w) \/ Sweep(w) PROVE effective' = effective
      BY <3>1, Zenon DEF Request, Sweep, Step, DecideEvaluate, DecideIssue, DecideCreate, SubmitRead,
                  SubmitCheck, RecordApproval, CountApprovals, SubmitRecord, AdvanceRead,
                  AdvanceProgress, AdvanceSettle, AdvanceWrite, AdvanceDecide, Resolve, SweepClaim
    <3> QED
      BY <1>4, <3>1 DEF Next, Workers, CancelDecision, Crash, Tick, vars
  <2>2. Before
    BY <2>1 DEF Before
  <2>3. ASSUME NEW w \in Workers, Request(w) \/ Sweep(w) PROVE EvidenceInv'
    BY <1>1, <2>2, <2>3, DecideKeepsEvidence, CreateKeepsEvidence, SubmitReadsKeepEvidence,
       SubmitWritesKeepEvidence, AdvanceReadsKeepEvidence, SettleKeepsEvidence,
       AdvanceWriteKeepsEvidence, AdvanceDecideKeepsEvidence, ResolveKeepsEvidence,
       ClaimKeepsEvidence
    DEF Request, Sweep, Step
  <2>4. CASE CancelDecision
    BY <1>1, <2>2, <2>4, CancelKeepsEvidence
  <2>5. ASSUME NEW w \in Workers, Crash(w) PROVE EvidenceInv'
    BY <1>1, <2>2, <2>5, ClaimKeepsEvidence
  <2>6. CASE Tick \/ UNCHANGED vars
    <3>1. UNCHANGED <<tables, auditApprovals, pc, mem>> /\ now <= now'
      BY <2>6 DEF Tick, vars, audit, WellTyped, TypeOK
    <3> QED
      BY <1>1, <2>2, <3>1, QuietStored, StillKeepsEvidence
  <2> QED
    BY <1>4, <2>3, <2>4, <2>5, <2>6 DEF Next, Workers
<1> QED
  BY <1>2, <1>3, <1>4

(* Before a decision is created there is nothing to schedule or to enter.  *)
LEMMA InitScheduler == Init => SchedulerInv /\ EnteredInv
<1> SUFFICES ASSUME Init PROVE SchedulerInv /\ EnteredInv
  OBVIOUS
<1>1. state = "absent" /\ nextDeadline = NoTime /\ rows = <<>> /\ pc = [w \in Workers |-> "idle"]
  BY Zenon DEF Init
<1>2. SchedulerInv
  BY <1>1 DEF SchedulerInv, SchedulerExact, QuorumsHaveNoTimer
<1>3. EnteredInv
  BY <1>1 DEF EnteredInv, EnteredInTime
<1> QED
  BY <1>2, <1>3, Zenon

(* The evidence the gates rest on: what the tables hold and what every     *)
(* goroutine carries, in every reachable state before a revision.          *)
THEOREM DecisionEvidence == Spec => []EvidenceInv
  BY InitScheduler, InitEvidence, DecisionWellTyped, NextKeepsScheduler, NextKeepsEntered,
     NextKeepsEvidence, PTL DEF Spec

(* Without a revision an allow rests on evidence that is still there: the  *)
(* approvals that count are all audited and bound to the terms on the row, *)
(* and a wait that allowed is really over.                                 *)
THEOREM DecisionAllowedOnEvidence == Spec => []AllowedOnEvidence
<1>1. WellTyped /\ EvidenceInv => AllowedOnEvidence
  <2> SUFFICES ASSUME WellTyped, EvidenceInv, state = "allowed", effective = 1, NEW o \in DOMAIN rows
               PROVE  /\ rows[o].kind = "quorum" =>
                            Cardinality({a.who : a \in {b \in approvals \cap auditApprovals :
                                b.ord = o /\ b.hash = rows[o].detail.hash}}) >= rows[o].detail.need
                      /\ rows[o].kind = "delay" => now >= rows[o].detail.release
    BY DEF AllowedOnEvidence
  <2>1. Evidence(o) /\ Stored
    BY DEF EvidenceInv, Stored
  <2>2. {b \in approvals \cap auditApprovals : b.ord = o /\ b.hash = rows[o].detail.hash}
          = {b \in approvals : b.ord = o}
    BY <2>1, Zenon DEF Stored
  <2> QED
    BY <2>1, <2>2 DEF Evidence, Count
<1> QED
  BY <1>1, DecisionWellTyped, DecisionEvidence, PTL

-----------------------------------------------------------------------------
(* A met quorum is settled.  From the moment the last vote is in, some     *)
(* goroutine is on its way to an allow: the voter, or one whose advance    *)
(* has found every gate so far satisfied.                                  *)
Met == \A o \in DOMAIN rows : rows[o].kind = "quorum" /\ Count(o) >= rows[o].detail.need
Carrier(l, m) ==
    \/ l \in {"count", "record", "progress"}
    \/ l = "advance" /\ m.at < expires
    \/ l \in {"settle", "write"} /\ m.satisfied + 1 = m.ord /\ m.failed = 0
    \/ l = "resolve" /\ m.out = "allowed"
CarriedInv ==
    effective = 1 /\ crashes = 0 /\ state = "pending" /\ Met => \E w \in Workers : Carrier(pc[w], mem[w])

(* While the loop of a carrier runs, the next gate is found satisfied.     *)
LEMMA CarrierSettles ==
  ASSUME Before, NEW w \in Workers, AdvanceSettle(w), state = "pending", Met,
         Carrier(pc[w], mem[w])
  PROVE  Carrier(pc'[w], mem'[w])
<1> DEFINE m == mem[w]
           r == m.rows[m.ord]
           s == IF r.state = "pending" THEN Settled(m.ord, r, m.at) ELSE r.state
           k == [m EXCEPT !.out = s]
           t == Tally(m, s)
<1>1. /\ m \in Memories /\ Backed("settle", m) /\ m.ord \in DOMAIN m.rows /\ pc[w] = "settle"
      /\ w \in DOMAIN pc /\ w \in DOMAIN mem
  BY DEF AdvanceSettle, Before, WellTyped, TypeOK, EvidenceInv
<1>2. /\ m.ord \in DOMAIN rows /\ Read(m.ord, r) /\ m.satisfied \in Nat /\ m.ord \in Nat
  BY <1>1, Zenon DEF Backed, Reading, Memories
<1>3. m.satisfied + 1 = m.ord /\ m.failed = 0
  BY <1>1 DEF Carrier
<1>4. /\ r.kind = "quorum" /\ r.state \in {"pending", "satisfied"} /\ r.deadline = NoTime
      /\ Count(m.ord) >= r.detail.need
  BY <1>2, Zenon DEF Read, Met, SameTerms
<1>5. Settled(m.ord, r, m.at) = "satisfied"
  BY <1>4, Zenon DEF Settled, HandlerStatus, QuorumStatus
<1>6. s = "satisfied"
  BY <1>4, <1>5, Zenon
<1>7. k.satisfied = m.satisfied /\ k.ord = m.ord /\ k.failed = m.failed
  BY <1>1 DEF Memories
<1>8. t.satisfied = m.satisfied + 1 /\ t.ord = m.ord + 1 /\ t.failed = m.failed
  BY <1>1, <1>6 DEF Tally, Memories
<1>9. Goto(w, "write", k) \/ Goto(w, "settle", t)
  BY Zenon DEF AdvanceSettle
<1> HIDE DEF k, t, s, r
<1>10. CASE Goto(w, "write", k)
  <2>1. pc'[w] = "write" /\ mem'[w] = k
    BY <1>1, <1>10 DEF Goto
  <2> QED
    BY <1>3, <1>7, <2>1 DEF Carrier
<1>11. CASE Goto(w, "settle", t)
  <2>1. pc'[w] = "settle" /\ mem'[w] = t
    BY <1>1, <1>11 DEF Goto
  <2>2. t.satisfied + 1 = t.ord /\ t.failed = 0
    BY <1>3, <1>8
  <2> QED
    BY <2>1, <2>2 DEF Carrier
<1> QED
  BY <1>9, <1>10, <1>11

(* The write of a carrier is a satisfied one, and at the end of the loop   *)
(* it has the full tally.                                                  *)
LEMMA CarrierFinishes ==
  ASSUME Before, NEW w \in Workers, AdvanceWrite(w) \/ AdvanceDecide(w), state = "pending", Met,
         Carrier(pc[w], mem[w])
  PROVE  Carrier(pc'[w], mem'[w])
<1> DEFINE m == mem[w]
           k == [m EXCEPT !.out = "allowed"]
           t == Tally(m, m.out)
<1>1. /\ m \in Memories /\ Backed(pc[w], m) /\ pc[w] \in {"settle", "write"}
      /\ w \in DOMAIN pc /\ w \in DOMAIN mem
  BY DEF AdvanceWrite, AdvanceDecide, Before, WellTyped, TypeOK, EvidenceInv
<1>2. /\ m.satisfied \in Nat /\ m.ord \in Nat /\ m.rows \in Seq(Rows)
      /\ m.satisfied + 1 = m.ord /\ m.failed = 0 /\ Reading(m)
  BY <1>1, Zenon DEF Memories, Carrier, Backed
<1>3. CASE AdvanceWrite(w)
  <2>1. m.ord \in DOMAIN rows /\ m.out = "satisfied"
    BY <1>1, <1>3, Zenon DEF AdvanceWrite, Backed, Met
  <2>2. t.satisfied = m.satisfied + 1 /\ t.ord = m.ord + 1 /\ t.failed = m.failed
    BY <1>1, <2>1 DEF Tally, Memories
  <2>3. Goto(w, "settle", t)
    BY <1>3, <2>1, Zenon DEF AdvanceWrite
  <2> HIDE DEF t
  <2>4. pc'[w] = "settle" /\ mem'[w] = t
    BY <1>1, <2>3 DEF Goto
  <2>5. t.satisfied + 1 = t.ord /\ t.failed = 0
    BY <1>2, <2>2, Zenon
  <2> QED
    BY <2>4, <2>5, Zenon DEF Carrier
<1>4. CASE AdvanceDecide(w)
  <2>1. m.ord \notin DOMAIN m.rows /\ m.ord \in 1 .. Len(m.rows) + 1 /\ Len(m.rows) \in Nat
        /\ DOMAIN m.rows = 1 .. Len(m.rows)
    BY <1>2, <1>4 DEF AdvanceDecide, Reading
  <2>2. m.satisfied = Len(m.rows) /\ ~(m.failed > 0)
    BY <1>2, <2>1
  <2>3. Goto(w, "resolve", k)
    BY <1>2, <1>4, <2>2 DEF AdvanceDecide
  <2>4. k.out = "allowed"
    BY <1>1 DEF Memories
  <2> HIDE DEF k
  <2>5. pc'[w] = "resolve" /\ mem'[w] = k
    BY <1>1, <2>3 DEF Goto
  <2> QED
    BY <2>4, <2>5, Zenon DEF Carrier
<1> QED
  BY <1>3, <1>4, Zenon

(* A carrier stays one until it resolves the decision.                     *)
LEMMA CarrierStays ==
  ASSUME Before, NEW w \in Workers, Request(w) \/ Sweep(w), state = "pending", state' = "pending",
         expires' = expires, Met, Carrier(pc[w], mem[w])
  PROVE  (Carrier(pc[w], mem[w]))'
<1>1. /\ mem[w] \in Memories /\ Backed(pc[w], mem[w]) /\ w \in DOMAIN pc /\ w \in DOMAIN mem
      /\ expires \in Int /\ mem[w].at \in Nat
  BY Zenon DEF Before, WellTyped, TypeOK, EvidenceInv, Memories
<1>2. ASSUME Carrier(pc'[w], mem'[w]) PROVE (Carrier(pc[w], mem[w]))'
  BY <1>2, Zenon DEF Carrier
<1>3. CASE CountApprovals(w)
  BY <1>1, <1>3 DEF CountApprovals, Goto, Carrier
<1>4. CASE SubmitRecord(w)
  <2> DEFINE k == [Blank EXCEPT !.at = mem[w].at]
  <2>1. mem[w].ord \in DOMAIN rows /\ mem[w].at < expires
    BY <1>1, <1>4 DEF SubmitRecord, Backed
  <2>2. Goto(w, "advance", k) /\ k.at = mem[w].at
    BY <1>4, <2>1, BlankFields DEF SubmitRecord
  <2> HIDE DEF k
  <2>3. pc'[w] = "advance" /\ mem'[w] = k
    BY <1>1, <2>2 DEF Goto
  <2> QED
    BY <2>1, <2>2, <2>3, Zenon DEF Carrier
<1>5. CASE AdvanceRead(w)
  <2>1. mem[w].at < expires
    BY <1>5, Zenon DEF AdvanceRead, Carrier
  <2>2. Goto(w, "progress", mem[w])
    <3>1. ~IsExpired(mem[w].at, expires)
      BY <1>1, <2>1 DEF IsExpired
    <3> QED
      BY <1>5, <3>1, Zenon DEF AdvanceRead
  <2> QED
    BY <1>1, <2>2 DEF Goto, Carrier
<1>6. CASE AdvanceProgress(w)
  <2> DEFINE k == [mem[w] EXCEPT !.rows = rows, !.ord = 1]
  <2>1. mem[w].satisfied = 0 /\ mem[w].failed = 0 /\ Goto(w, "settle", k)
    BY <1>1, <1>6 DEF AdvanceProgress, Backed
  <2>2. k.ord = 1 /\ k.satisfied = mem[w].satisfied /\ k.failed = mem[w].failed
    BY <1>1 DEF Memories
  <2> HIDE DEF k
  <2>3. pc'[w] = "settle" /\ mem'[w] = k
    BY <1>1, <2>1 DEF Goto
  <2>4. k.satisfied + 1 = k.ord /\ k.failed = 0
    BY <2>1, <2>2
  <2> QED
    BY <2>3, <2>4, Zenon DEF Carrier
<1>7. CASE AdvanceSettle(w)
  BY <1>2, <1>7, CarrierSettles, Zenon
<1>8. CASE AdvanceWrite(w) \/ AdvanceDecide(w)
  BY <1>2, <1>8, CarrierFinishes
<1>9. CASE Resolve(w)
  BY <1>9 DEF Resolve, ResolveDecision, Carrier
<1>10. ~(pc[w] \in {"idle", "issue", "create", "collect", "approve"})
  BY DEF Carrier
<1> QED
  BY <1>3, <1>4, <1>5, <1>6, <1>7, <1>8, <1>9, <1>10, Zenon
  DEF Request, Sweep, Step, DecideEvaluate, DecideIssue, DecideCreate, SubmitRead, SubmitCheck,
      RecordApproval, SweepClaim

(* A step moves one goroutine.                                             *)
LEMMA OthersStay ==
  ASSUME WellTyped, NEW w \in Workers, Request(w) \/ Sweep(w), NEW u \in Workers, u # w
  PROVE  pc'[u] = pc[u] /\ mem'[u] = mem[u]
<1>1. DOMAIN pc = Workers /\ DOMAIN mem = Workers
  BY DEF WellTyped, TypeOK
<1>2. ASSUME NEW l, NEW m, Goto(w, l, m) PROVE pc'[u] = pc[u] /\ mem'[u] = mem[u]
  BY <1>1, <1>2 DEF Goto
<1>3. CASE DecideEvaluate(w) \/ DecideIssue(w) \/ DecideCreate(w)
  BY <1>2, <1>3 DEF DecideEvaluate, DecideIssue, DecideCreate
<1>4. CASE (\E p \in People, o \in DOMAIN rows : SubmitRead(w, p, o)) \/ SubmitCheck(w)
  BY <1>2, <1>4, Zenon DEF SubmitRead, SubmitCheck, Return
<1>5. CASE RecordApproval(w) \/ CountApprovals(w) \/ SubmitRecord(w)
  BY <1>2, <1>5 DEF RecordApproval, CountApprovals, SubmitRecord, Return
<1>6. CASE AdvanceRead(w) \/ AdvanceProgress(w) \/ AdvanceSettle(w)
  BY <1>2, <1>6, Zenon DEF AdvanceRead, AdvanceProgress, AdvanceSettle, Return
<1>7. CASE AdvanceWrite(w) \/ AdvanceDecide(w)
  BY <1>2, <1>7 DEF AdvanceWrite, AdvanceDecide, Return
<1>8. CASE Resolve(w) \/ SweepClaim(w)
  BY <1>2, <1>8 DEF Resolve, SweepClaim, Return
<1> QED
  BY <1>3, <1>4, <1>5, <1>6, <1>7, <1>8, Zenon DEF Request, Sweep, Step

(* Only a new decision, a vote or a resolution changes more than the       *)
(* states of the rows.                                                     *)
LEMMA TermsStay ==
  ASSUME Before, WellTyped', NEW w \in Workers, Request(w) \/ Sweep(w),
         ~(state = "absent" /\ DecideCreate(w)), ~RecordApproval(w), state' = "pending"
  PROVE  Grows /\ approvals' = approvals
<1>2. CASE SubmitRecord(w)
  BY <1>2, SubmitWritesKeepEvidence DEF SubmitRecord
<1>3. CASE AdvanceWrite(w)
  BY <1>3, AdvanceWriteKeepsEvidence, Zenon DEF AdvanceWrite
<1>4. ASSUME UNCHANGED <<tables, auditApprovals, now>> PROVE Grows /\ approvals' = approvals
  <2>1. now <= now' /\ approvals' = approvals
    BY <1>4 DEF tables, Before, WellTyped, TypeOK
  <2> QED
    BY <1>4, <2>1, QuietStored
<1>5. CASE Resolve(w)
  <2>1. UNCHANGED <<row, rows, approvals, auditApprovals, now>>
    <3>1. mem[w].out # "pending"
      BY <1>5, Zenon DEF Resolve, Before, WellTyped, Carries
    <3> QED
      BY <1>5, <3>1, Zenon DEF Resolve, ResolveDecision
  <2> QED
    BY <1>4, <2>1 DEF tables
<1>6. CASE DecideEvaluate(w) \/ DecideIssue(w)
  BY <1>4, <1>6 DEF DecideEvaluate, DecideIssue, audit
<1>7. CASE DecideCreate(w)
  BY <1>4, <1>7 DEF DecideCreate, audit
<1>8. CASE (\E p \in People, o \in DOMAIN rows : SubmitRead(w, p, o)) \/ SubmitCheck(w) \/ CountApprovals(w)
  BY <1>4, <1>8, Zenon DEF SubmitRead, SubmitCheck, CountApprovals, audit
<1>9. CASE AdvanceRead(w) \/ AdvanceProgress(w) \/ AdvanceSettle(w) \/ AdvanceDecide(w)
  BY <1>4, <1>9, Zenon DEF AdvanceRead, AdvanceProgress, AdvanceSettle, AdvanceDecide, audit
<1>10. CASE SweepClaim(w)
  BY <1>4, <1>10 DEF SweepClaim, audit
<1> QED
  BY <1>2, <1>3, <1>5, <1>6, <1>7, <1>8, <1>9, <1>10 DEF Request, Sweep, Step

(* The thresholds are met only by a vote.                                  *)
LEMMA MetBefore ==
  ASSUME Grows, approvals' = approvals, Met'
  PROVE  Met
<1> SUFFICES ASSUME NEW o \in DOMAIN rows
             PROVE  rows[o].kind = "quorum" /\ Count(o) >= rows[o].detail.need
  BY DEF Met
<1>1. /\ o \in DOMAIN rows' /\ rows'[o].kind = rows[o].kind
      /\ rows'[o].detail.need = rows[o].detail.need
  BY DEF Grows, SameTerms
<1>2. Count(o)' = Count(o)
  BY DEF Count
<1>3. rows'[o].kind = "quorum" /\ Count(o)' >= rows'[o].detail.need
  BY <1>1 DEF Met
<1> QED
  BY <1>1, <1>2, <1>3

(* Every step of a goroutine keeps a carrier.                              *)
LEMMA WorkerKeepsCarried ==
  ASSUME Before, WellTyped', CarriedInv, NEW w \in Workers, Request(w) \/ Sweep(w)
  PROVE  CarriedInv'
<1> SUFFICES ASSUME crashes' = 0, state' = "pending", Met'
             PROVE  \E u \in Workers : (Carrier(pc[u], mem[u]))'
  BY DEF CarriedInv
<1>0. /\ DOMAIN pc = Workers /\ DOMAIN mem = Workers /\ Backed(pc[w], mem[w])
      /\ effective = 1 /\ WellTyped /\ expires \in Int
  BY DEF Before, WellTyped, TypeOK, EvidenceInv
<1>1. CASE state = "absent" /\ DecideCreate(w)
  <2> DEFINE k == [Blank EXCEPT !.at = mem[w].at]
  <2>1. k.at = mem[w].at /\ Goto(w, "advance", k) /\ expires' = mem[w].expires /\ pc[w] = "create"
    BY <1>1, BlankFields DEF DecideCreate
  <2>2. mem[w].at < mem[w].expires
    BY <1>0, <2>1 DEF Backed
  <2> HIDE DEF k
  <2>3. pc'[w] = "advance" /\ mem'[w] = k
    BY <1>0, <2>1 DEF Goto
  <2> QED
    BY <2>1, <2>2, <2>3, Zenon DEF Carrier
<1>2. CASE RecordApproval(w)
  <2>1. Goto(w, "count", mem[w])
    BY <1>0, <1>2, Zenon DEF RecordApproval, Backed
  <2> QED
    BY <1>0, <2>1 DEF Goto, Carrier
<1>3. CASE ~(state = "absent" /\ DecideCreate(w)) /\ ~RecordApproval(w)
  <2>1. Grows /\ approvals' = approvals
    BY <1>3, TermsStay
  <2>2. Met /\ state = "pending" /\ expires' = expires
    BY <2>1, MetBefore, Zenon DEF Grows
  <2>3. crashes = 0
    BY Zenon DEF Request, Sweep, Step, DecideEvaluate, DecideIssue, DecideCreate, SubmitRead,
           SubmitCheck, RecordApproval, CountApprovals, SubmitRecord, AdvanceRead,
           AdvanceProgress, AdvanceSettle, AdvanceWrite, AdvanceDecide, Resolve, SweepClaim
  <2>4. PICK u \in Workers : Carrier(pc[u], mem[u])
    BY <1>0, <2>2, <2>3, Zenon DEF CarriedInv
  <2>5. CASE u = w
    BY <2>2, <2>4, <2>5, CarrierStays, Zenon
  <2>6. CASE u # w
    <3>1. pc'[u] = pc[u] /\ mem'[u] = mem[u]
      BY <1>0, <2>6, OthersStay, Zenon
    <3> QED
      BY <2>2, <2>4, <3>1 DEF Carrier
  <2> QED
    BY <2>5, <2>6
<1> QED
  BY <1>1, <1>2, <1>3, Zenon

(* So does every other step, unless it revises the policy, ends the        *)
(* decision or kills a goroutine.                                          *)
LEMMA NextKeepsCarried ==
  WellTyped /\ SchedulerInv /\ EnteredInv /\ EvidenceInv /\ CarriedInv /\ [Next]_vars => CarriedInv'
<1> SUFFICES ASSUME WellTyped, SchedulerInv, EnteredInv, EvidenceInv, CarriedInv, [Next]_vars
             PROVE  CarriedInv'
  OBVIOUS
<1>0. WellTyped'
  BY NextTyped, Zenon
<1>t. effective \in 1 .. Len(Policies) /\ crashes \in Nat
  BY DEF WellTyped, TypeOK
<1>1. WellTyped' /\ effective \in Nat \ {0} /\ crashes \in Nat
  BY <1>0, <1>t
<1>2. ASSUME NEW w \in Workers, Request(w) \/ Sweep(w) PROVE CarriedInv'
  <2>1. effective' = effective
    BY <1>2, Zenon DEF Request, Sweep, Step, DecideEvaluate, DecideIssue, DecideCreate, SubmitRead,
                SubmitCheck, RecordApproval, CountApprovals, SubmitRecord, AdvanceRead,
                AdvanceProgress, AdvanceSettle, AdvanceWrite, AdvanceDecide, Resolve, SweepClaim
  <2>2. CASE effective = 1
    BY <1>1, <1>2, <2>2, WorkerKeepsCarried DEF Before
  <2> QED
    BY <2>1, <2>2 DEF CarriedInv
<1>3. ASSUME NEW mode, Revise(mode) PROVE CarriedInv'
  <2>1. effective' = effective + 1
    BY <1>3, Zenon DEF Revise
  <2>2. effective' # 1
    BY <1>1, <2>1
  <2> QED
    BY <2>2, Zenon DEF CarriedInv
<1>4. CASE CancelDecision
  BY <1>4 DEF CancelDecision, ResolveDecision, CarriedInv
<1>5. ASSUME NEW w \in Workers, Crash(w) PROVE CarriedInv'
  <2>1. crashes' = crashes + 1
    BY <1>5, Zenon DEF Crash
  <2>2. crashes' # 0
    BY <1>1, <2>1
  <2> QED
    BY <2>2, Zenon DEF CarriedInv
<1>6. CASE Tick \/ UNCHANGED vars
  <2>1. UNCHANGED <<effective, tables, pc, mem, crashes>>
    BY <1>6 DEF Tick, vars
  <2> QED
    BY <2>1, Zenon DEF CarriedInv, Met, Carrier, Count, tables, row
<1> QED
  BY <1>2, <1>3, <1>4, <1>5, <1>6 DEF Next, Workers

(* If nobody crashed and no revision moved the terms, a quorum-gated       *)
(* decision whose thresholds are met is not left open once every request   *)
(* has returned: the submitters' unconditional writes may land in any      *)
(* order, somebody's settle has seen the full count.                       *)
THEOREM DecisionMetQuorumIsSettled == Spec => []MetQuorumIsSettled
<1>1. Init => CarriedInv
  <2>1. Init => state = "absent"
    BY Zenon DEF Init
  <2> QED
    BY <2>1 DEF CarriedInv
<1>2. WellTyped /\ EvidenceInv /\ CarriedInv => MetQuorumIsSettled
  <2> SUFFICES ASSUME WellTyped, EvidenceInv, CarriedInv, effective = 1, state = "pending", crashes = 0,
                      \A w \in Workers : pc[w] = "idle"
               PROVE  \E o \in DOMAIN rows : rows[o].kind = "delay" \/ Count(o) < rows[o].detail.need
    BY DEF MetQuorumIsSettled
  <2>1. ~Met
    BY DEF CarriedInv, Carrier
  <2>2. PICK o \in DOMAIN rows : ~(rows[o].kind = "quorum" /\ Count(o) >= rows[o].detail.need)
    BY <2>1 DEF Met
  <2>3. rows \in Seq(Rows) /\ o \in Nat /\ rows[o] \in Rows /\ IsFiniteSet(Voters(o))
    <3>1. rows \in Seq(Rows) /\ Stored
      BY Zenon DEF WellTyped, TypeOK, EvidenceInv
    <3>2. o \in Nat /\ rows[o] \in Rows
      BY <3>1
    <3> QED
      BY <3>1, <3>2, Zenon DEF Stored
  <2>4. Count(o) \in Nat
    BY <2>3, FS_CardinalityType DEF Count, Voters
  <2>5. rows[o].detail.need \in Nat /\ rows[o].kind \in {"quorum", "delay"}
    BY <2>3 DEF Rows, Details
  <2> QED
    BY <2>2, <2>4, <2>5
<1> QED
  BY <1>1, <1>2, InitScheduler, DecisionWellTyped, DecisionEvidence, NextKeepsScheduler, NextKeepsEntered,
     NextKeepsCarried, PTL DEF Spec
=============================================================================
