--------------------------- MODULE DecisionProofs ---------------------------
(***************************************************************************)
(* Proofs about Decision.tla for any number of requests, sweepers, people  *)
(* and policy texts.                                                       *)
(***************************************************************************)
EXTENDS Decision, WellFoundedInduction, TLAPS

-----------------------------------------------------------------------------
(* Sets of numbers.                                                        *)

(* A nonempty set of naturals has a least element.                         *)
LEMMA NatMin ==
  ASSUME NEW S \in SUBSET Nat, S # {}
  PROVE  \E t \in S : \A u \in S : t <= u
<1>1. PICK t \in S : \A u \in S : ~(<<u, t>> \in OpToRel(<, Nat))
  BY NatLessThanWellFounded, WFMin, Zenon
<1>2. \A u, v \in Nat : u < v => <<u, v>> \in OpToRel(<, Nat)
  BY Zenon DEF OpToRel
<1>3. \A u \in S : ~(u < t)
  BY <1>1, <1>2, Zenon
<1>4. QED
  BY <1>3

(* Induction: a set that holds 0 and every successor of its members holds  *)
(* every natural.                                                          *)
LEMMA SetInduction ==
  ASSUME NEW T, 0 \in T, \A n \in Nat : n \in T => n + 1 \in T
  PROVE  \A n \in Nat : n \in T
<1>1. SUFFICES ASSUME Nat \ T # {} PROVE FALSE
  OBVIOUS
<1>2. PICK k \in Nat \ T : \A u \in Nat \ T : k <= u
  BY <1>1, NatMin, Zenon
<1>3. k - 1 \in Nat /\ k - 1 \notin Nat \ T
  BY <1>2
<1>4. QED
  BY <1>2, <1>3

(* The values of an integer function on 1 .. n have an upper bound.        *)
LEMMA BoundedRange ==
  ASSUME NEW n \in Nat, NEW f \in [1 .. n -> Int]
  PROVE  \E b \in Nat : \A i \in 1 .. n : f[i] <= b
<1> DEFINE T == {k \in Nat : k <= n => \E b \in Nat : \A i \in 1 .. k : f[i] <= b}
<1>1. 0 \in T
  <2>1. \A i \in 1 .. 0 : f[i] <= 0
    OBVIOUS
  <2> QED
    BY <2>1
<1>2. ASSUME NEW k \in Nat, k \in T, k + 1 <= n
      PROVE  \E c \in Nat : \A i \in 1 .. k + 1 : f[i] <= c
  <2>1. PICK b \in Nat : \A i \in 1 .. k : f[i] <= b
    BY <1>2
  <2>2. k + 1 \in 1 .. n /\ f[k + 1] \in Int
    BY <1>2
  <2>3. CASE f[k + 1] <= b
    BY <2>1, <2>2, <2>3
  <2>4. CASE ~(f[k + 1] <= b)
    <3>1. f[k + 1] \in Nat
      BY <2>2, <2>4
    <3>2. \A i \in 1 .. k + 1 : f[i] <= f[k + 1]
      BY <2>1, <2>2, <2>4
    <3> QED
      BY <3>1, <3>2, Zenon
  <2> QED
    BY <2>3, <2>4
<1>3. ASSUME NEW k \in Nat, k \in T PROVE k + 1 \in T
  <2>1. CASE k + 1 <= n
    <3>1. \E c \in Nat : \A i \in 1 .. k + 1 : f[i] <= c
      <4> HIDE DEF T
      <4> QED
        BY <1>2, <1>3, <2>1
    <3> QED
      BY <3>1
  <2>2. CASE ~(k + 1 <= n)
    BY <2>2
  <2> QED
    BY <2>1, <2>2
<1>4. n \in T
  <2> HIDE DEF T
  <2> QED
    BY <1>1, <1>3, SetInduction, Zenon
<1>5. QED
  BY <1>4

(* Min picks the least element of a nonempty set with a lower bound.       *)
LEMMA MinIsMember ==
  ASSUME NEW S \in SUBSET Int, S # {}, NEW b \in Int, \A t \in S : b <= t
  PROVE  Min(S) \in S /\ \A u \in S : Min(S) <= u
<1> DEFINE D == {t - b : t \in S}
<1>1. D \in SUBSET Nat /\ D # {}
  <2>1. \A t \in S : t - b \in Nat
    OBVIOUS
  <2> QED
    BY <2>1, Zenon
<1>2. PICK d \in D : \A e \in D : d <= e
  <2> HIDE DEF D
  <2> QED
    BY <1>1, NatMin
<1>3. PICK t \in S : d = t - b
  BY <1>2
<1>4. \A u \in S : t <= u
  <2> TAKE u \in S
  <2>1. u - b \in D
    OBVIOUS
  <2>2. d <= u - b
    BY <1>2, <2>1
  <2> QED
    BY <1>3, <2>2
<1>5. QED
  BY <1>3, <1>4, Zenon DEF Min

(* Max picks the greatest element of a bounded nonempty set.            *)
LEMMA MaxIsMember ==
  ASSUME NEW S \in SUBSET Int, S # {}, NEW b \in Int, \A t \in S : t <= b
  PROVE  Max(S) \in S /\ \A u \in S : Max(S) >= u
<1> DEFINE D == {b - t : t \in S}
<1>1. D \in SUBSET Nat /\ D # {}
  <2>1. \A t \in S : b - t \in Nat
    OBVIOUS
  <2> QED
    BY <2>1
<1>2. PICK d \in D : \A e \in D : d <= e
  <2> HIDE DEF D
  <2> QED
    BY <1>1, NatMin
<1>3. PICK t \in S : d = b - t
  BY <1>2
<1>4. \A u \in S : t >= u
  BY <1>2, <1>3
<1>5. QED
  BY <1>3, <1>4, Zenon DEF Max

-----------------------------------------------------------------------------
(* What the operators return.                                              *)

(* A challenge row written over keeps the table well formed.               *)
LEMMA WrittenRowType ==
  ASSUME NEW rs \in Seq(Rows), NEW o \in DOMAIN rs,
         NEW s \in ChallengeStates, NEW d \in Details
  PROVE  LET ws == [rs EXCEPT ![o] = [@ EXCEPT !.state = s, !.detail = d]]
         IN  /\ ws \in Seq(Rows)
             /\ DOMAIN ws = DOMAIN rs
             /\ ws[o] = [rs[o] EXCEPT !.state = s, !.detail = d]
             /\ \A p \in DOMAIN rs : p # o => ws[p] = rs[p]
<1> DEFINE r == [rs[o] EXCEPT !.state = s, !.detail = d]
<1>1. rs[o] \in Rows /\ o \in 1 .. Len(rs)
  OBVIOUS
<1>2. r \in Rows
  BY <1>1, Zenon DEF Rows
<1>3. QED
  BY <1>1, <1>2

(* Issuing the gates of a text gives one well-formed row per gate.         *)
LEMMA IssueType ==
  ASSUME NEW v \in 1 .. Len(Policies), NEW at \in Nat
  PROVE  /\ IssueAll(v, at) \in Seq(Rows)
         /\ DOMAIN IssueAll(v, at) = DOMAIN Policies[v].gates
<1> DEFINE gs == Policies[v].gates
           m == Policies[v].material
<1>1. gs \in Seq(Gates)
  BY PoliciesAssumption
<1>2. ASSUME NEW g \in Gates PROVE Issue(g, m, at) \in Rows
  <2>1. m \in Materials
    BY DEF Materials
  <2>2. BindingHash(m, g.who) \in Hashes
    BY <2>1 DEF Hashes, Gates
  <2>3. NoHash \in Hashes
    BY DEF Hashes
  <2>4. Issue(g, m, at).detail \in Details
    BY <2>2, <2>3 DEF Issue, IssueQuorum, IssueDelay, Details, Gates, NoTime
  <2> QED
    BY <2>4 DEF Issue, IssueQuorum, IssueDelay, Rows, ChallengeStates, Gates, NoTime
<1>3. \A o \in 1 .. Len(gs) : Issue(gs[o], m, at) \in Rows
  BY <1>1, <1>2
<1>4. QED
  BY <1>1, <1>3 DEF IssueAll

(* The expiry of a new decision and the scheduler column are times.        *)
LEMMA ExpiresType ==
  ASSUME NEW rs \in Seq(Rows), NEW at \in Nat
  PROVE  ExpiresAfter(at, rs) \in Int
<1> DEFINE f == [o \in 1 .. Len(rs) |-> rs[o].deadline]
           S == {at + TTL} \cup {rs[o].deadline : o \in DOMAIN rs}
<1>0. Len(rs) \in Nat /\ DOMAIN rs = 1 .. Len(rs) /\ \A o \in DOMAIN rs : rs[o] \in Rows
  OBVIOUS
<1>1. \A o \in DOMAIN rs : rs[o].deadline \in Int
  BY <1>0 DEF Rows
<1>1a. f \in [1 .. Len(rs) -> Int]
  BY <1>0, <1>1
<1>2. PICK b \in Nat : \A o \in 1 .. Len(rs) : f[o] <= b
  <2> HIDE DEF f
  <2> QED
    BY <1>0, <1>1a, BoundedRange, Zenon
<1>3. at + TTL \in Nat
  BY BoundsAssumption
<1>4. S \in SUBSET Int /\ S # {} /\ at + TTL + b \in Int
  BY <1>1, <1>3
<1>5. \A t \in S : t <= at + TTL + b
  BY <1>0, <1>1, <1>2, <1>3
<1>6. Max(S) \in S
  <2> HIDE DEF S
  <2> QED
    BY <1>4, <1>5, MaxIsMember, Zenon
<1>7. QED
  BY <1>4, <1>6 DEF ExpiresAfter

(* The scheduler's column is an integer, whatever timers are open.         *)
LEMMA EarliestType ==
  ASSUME NEW rs \in Seq(Rows), NEW exp \in Int
  PROVE  Earliest(exp, rs) \in Int
<1> DEFINE f == [o \in 1 .. Len(rs) |-> -rs[o].deadline]
           S == {exp} \cup PendingTimers(rs)
<1>0. Len(rs) \in Nat /\ DOMAIN rs = 1 .. Len(rs) /\ \A o \in DOMAIN rs : rs[o] \in Rows
  OBVIOUS
<1>1. \A o \in DOMAIN rs : rs[o].deadline \in Int
  BY <1>0 DEF Rows
<1>1a. f \in [1 .. Len(rs) -> Int]
  BY <1>0, <1>1
<1>2. PICK b \in Nat : \A o \in 1 .. Len(rs) : f[o] <= b
  <2> HIDE DEF f
  <2> QED
    BY <1>0, <1>1a, BoundedRange, Zenon
<1>3. \A o \in DOMAIN rs : rs[o].deadline \in Int /\ -b <= rs[o].deadline
  BY <1>0, <1>1, <1>2
<1>4. PICK c \in Int : c <= exp /\ c <= -b
  OBVIOUS
<1>5. S \in SUBSET Int /\ S # {} /\ \A t \in S : c <= t
  BY <1>3, <1>4 DEF PendingTimers
<1>6. Min(S) \in S
  <2> HIDE DEF S
  <2> QED
    BY <1>5, MinIsMember
<1>7. QED
  BY <1>5, <1>6 DEF Earliest

(* A handler answers one of the challenge states.                          *)
LEMMA StatusType ==
  ASSUME NEW o, NEW r, NEW at
  PROVE  HandlerStatus(o, r, at) \in ChallengeStates /\ Settled(o, r, at) \in ChallengeStates
  BY DEF HandlerStatus, QuorumStatus, DelayStatus, Settled, ChallengeStates

(* The earlier of two deadlines is an integer.                             *)
LEMMA PairMin ==
  ASSUME NEW a \in Int, NEW b \in Int
  PROVE  Min({a, b}) \in Int
<1>1. PICK c \in Int : c <= a /\ c <= b
  OBVIOUS
<1>2. {a, b} \in SUBSET Int /\ {a, b} # {} /\ \A t \in {a, b} : c <= t
  BY <1>1
<1>3. Min({a, b}) \in {a, b}
  BY <1>2, MinIsMember
<1>4. QED
  BY <1>2, <1>3

(* Rebinding and reopening the challenges under a new text keep the table  *)
(* well formed.                                                            *)
LEMMA RebindType ==
  ASSUME TypeOK, NEW v \in 1 .. Len(Policies), SameShape(Policies[v].gates)
  PROVE  Rebind(v) \in Seq(Rows) /\ DOMAIN Rebind(v) = DOMAIN rows
<1> DEFINE gs == Policies[v].gates
           m == Policies[v].material
<1>1. gs \in Seq(Gates) /\ DOMAIN gs = DOMAIN rows
  BY PoliciesAssumption DEF SameShape
<1>2. rows \in Seq(Rows) /\ now \in Nat /\ expires \in Int
  BY DEF TypeOK
<1>3. ASSUME NEW o \in DOMAIN rows PROVE RebindQuorum(o, gs[o], m) \in Rows
  <2>1. rows[o] \in Rows /\ gs[o] \in Gates
    BY <1>1, <1>2
  <2>2. BindingHash(m, gs[o].who) \in Hashes /\ NoHash \in Hashes
    BY <2>1 DEF Hashes, Materials, Gates
  <2>3. Issue(gs[o], m, now).detail \in Details
    BY <1>2, <2>1, <2>2 DEF Issue, IssueQuorum, IssueDelay, Details, Gates, NoTime
  <2> QED
    BY <2>1, <2>3, Zenon DEF RebindQuorum, Rows, ChallengeStates
<1>4. ASSUME NEW o \in DOMAIN rows PROVE RebindDelay(o, gs[o]) \in Rows
  <2>1. rows[o] \in Rows /\ gs[o] \in Gates
    BY <1>1, <1>2
  <2> DEFINE release == IF TimerMoved(o, gs[o])
                        THEN rows[o].detail.release - rows[o].detail.need + gs[o].need
                        ELSE rows[o].detail.release
             moved == [rows[o] EXCEPT !.detail = [@ EXCEPT !.need = gs[o].need,
                                        !.who = gs[o].who, !.release = release]]
  <2>2. release \in Int
    BY <2>1 DEF Rows, Details, Gates
  <2>3. Min({release, expires}) \in Int
    BY <1>2, <2>2, PairMin
  <2>4. moved \in Rows
    BY <2>1, <2>2, Zenon DEF Rows, Details, Gates
  <2>5. HandlerStatus(o, moved, now) \in ChallengeStates
    BY StatusType
  <2> HIDE DEF release
  <2>6. [moved EXCEPT !.deadline = Min({release, expires}),
                      !.state = IF @ = "pending" THEN HandlerStatus(o, moved, now) ELSE @] \in Rows
    <3> HIDE DEF moved
    <3> QED
      BY <2>3, <2>4, <2>5, Zenon DEF Rows
  <2> QED
    BY <2>4, <2>6, Zenon DEF RebindDelay, release
<1>5. QED
  BY <1>1, <1>2, <1>3, <1>4 DEF Rebind

(* reopenChallenges issues a well-typed table.                             *)
LEMMA ReopenType ==
  ASSUME TypeOK, NEW v \in 1 .. Len(Policies)
  PROVE  Reopen(v) \in Seq(Rows)
<1>1. now \in Nat /\ expires \in Int
  BY DEF TypeOK
<1> DEFINE rs == IssueAll(v, now)
<1>2. rs \in Seq(Rows)
  BY <1>1, IssueType
<1>3. \A o \in DOMAIN rs : [rs[o] EXCEPT !.deadline = expires] \in Rows
  <2> HIDE DEF rs
  <2>1. \A o \in DOMAIN rs : rs[o] \in Rows
    BY <1>2
  <2> QED
    BY <1>1, <2>1 DEF Rows
<1>4. QED
  <2> HIDE DEF rs
  <2>1. Reopen(v) = [o \in DOMAIN rs |-> IF rs[o].deadline > expires
                             THEN [rs[o] EXCEPT !.deadline = expires] ELSE rs[o]]
    BY DEF Reopen, rs
  <2> QED
    BY <1>2, <1>3, <2>1

-----------------------------------------------------------------------------
(* Type correctness.                                                       *)

(* A goroutine that holds nothing is well typed.                           *)
LEMMA BlankType == Blank \in Memories /\ NoDetail \in Details
<1>1. NoDetail \in Details
  BY DEF NoDetail, Details, Hashes, NoTime
<1>2. NoHash \in Materials /\ <<>> \in Seq(Rows)
  BY DEF Materials
<1>3. QED
  BY <1>1, <1>2 DEF Blank, Memories, ChallengeStates

(* A step that only moves one goroutine keeps pc and mem well typed.       *)
LEMMA GotoType ==
  ASSUME TypeOK, NEW w \in Workers, NEW l \in Labels, NEW m \in Memories, Goto(w, l, m)
  PROVE  pc' \in [Workers -> Labels] /\ mem' \in [Workers -> Memories]
  BY DEF TypeOK, Goto

(* Returning from a call leaves the goroutines well typed.                 *)
LEMMA ReturnType ==
  ASSUME TypeOK, NEW w \in Workers, Return(w)
  PROVE  pc' \in [Workers -> Labels] /\ mem' \in [Workers -> Memories]
  BY GotoType, BlankType DEF Return, Labels

(* The two audited writes keep the tables well typed.                      *)
LEMMA SetChallengeStateType ==
  ASSUME TypeOK, NEW o \in DOMAIN rows, NEW s \in ChallengeStates, NEW d \in Details,
         SetChallengeState(o, s, d)
  PROVE  rows' \in Seq(Rows) /\ nextDeadline' \in Int
<1>1. rows \in Seq(Rows) /\ expires \in Int /\ nextDeadline \in Int
  BY DEF TypeOK
<1>2. rows' = [rows EXCEPT ![o] = [@ EXCEPT !.state = s, !.detail = d]]
  BY DEF SetChallengeState
<1>3. rows' \in Seq(Rows)
  BY <1>1, <1>2, WrittenRowType, Zenon
<1>4. Earliest(expires, rows') \in Int
  BY <1>1, <1>3, EarliestType
<1>5. QED
  BY <1>1, <1>3, <1>4 DEF SetChallengeState

(* ResolveDecision writes a legal state, an integer deadline and a         *)
(* terminal audit entry.                                                   *)
LEMMA ResolveDecisionType ==
  ASSUME TypeOK, NEW to \in Terminal, ResolveDecision(to)
  PROVE  /\ state' \in Lifecycle!States \cup {"absent"}
         /\ nextDeadline' \in Int /\ resolutions' \in Seq(Terminal)
         /\ UNCHANGED <<pinned, material, expires>>
<1>1. Terminal \subseteq Lifecycle!States
  BY DEF Terminal, Lifecycle!Terminal
<1>2. resolutions \in Seq(Terminal) => Append(resolutions, to) \in Seq(Terminal)
  OBVIOUS
<1>3. CASE state = "pending"
  <2>1. /\ state' = to /\ nextDeadline' = NoTime /\ resolutions' = Append(resolutions, to)
        /\ UNCHANGED <<pinned, material, expires>>
    BY <1>3, Zenon DEF ResolveDecision
  <2>2. nextDeadline' \in Int /\ resolutions \in Seq(Terminal)
    BY <2>1 DEF NoTime, TypeOK
  <2> QED
    BY <1>1, <1>2, <2>1, <2>2, Zenon
<1>4. CASE state # "pending"
  BY <1>4 DEF TypeOK, ResolveDecision, row
<1>5. QED
  BY <1>3, <1>4

(* TypeOK needs to know a little about what a goroutine carries from one   *)
(* statement to the next.                                                  *)
Carries(l, m) ==
    /\ l = "issue" => m.ord \in 1 .. Len(Policies)
    /\ l = "approve" => m.who \in People
    /\ l = "record" => m.out \in ChallengeStates
    /\ l = "write" => m.out \in ChallengeStates /\ m.ord \in DOMAIN m.rows
    /\ l = "resolve" => m.out \in {"allowed", "denied", "expired"}
WellTyped == TypeOK /\ \A w \in Workers : Carries(pc[w], mem[w])

(* A step to a label keeps what every goroutine carries.                   *)
LEMMA GotoTyped ==
  ASSUME WellTyped, NEW w \in Workers, NEW l \in Labels, NEW m \in Memories, Carries(l, m),
         Goto(w, l, m)
  PROVE  /\ pc' \in [Workers -> Labels] /\ mem' \in [Workers -> Memories]
         /\ \A v \in Workers : Carries(pc'[v], mem'[v])
  BY GotoType DEF WellTyped, Goto, TypeOK

(* Returning keeps what every goroutine carries.                           *)
LEMMA ReturnTyped ==
  ASSUME WellTyped, NEW w \in Workers, Return(w)
  PROVE  /\ pc' \in [Workers -> Labels] /\ mem' \in [Workers -> Memories]
         /\ \A v \in Workers : Carries(pc'[v], mem'[v])
  BY GotoTyped, BlankType DEF Return, Labels, Carries

(* A step that reads and moves on.                                         *)
LEMMA ReadTyped ==
  ASSUME WellTyped, UNCHANGED <<now, effective, tables, audit, crashes>>,
         pc' \in [Workers -> Labels], mem' \in [Workers -> Memories],
         \A v \in Workers : Carries(pc'[v], mem'[v])
  PROVE  WellTyped'
  BY DEF WellTyped, TypeOK, tables, row, audit

(* Decide's three steps preserve the type invariant.                       *)
LEMMA DecideTyped ==
  ASSUME WellTyped, NEW w \in Workers,
         DecideEvaluate(w) \/ DecideIssue(w) \/ DecideCreate(w)
  PROVE  WellTyped'
<1> USE DEF Labels
<1>0. /\ now \in Nat /\ effective \in 1 .. Len(Policies) /\ effective \in Nat
      /\ mem[w] \in Memories /\ Carries(pc[w], mem[w])
  BY PoliciesAssumption DEF WellTyped, TypeOK
<1>1. CASE DecideEvaluate(w)
  <2>1. [Blank EXCEPT !.at = now] \in Memories /\ Carries("advance", [Blank EXCEPT !.at = now])
    BY <1>0, BlankType, Zenon DEF Memories, Carries
  <2>2. /\ [Blank EXCEPT !.at = now, !.ord = effective] \in Memories
        /\ Carries("issue", [Blank EXCEPT !.at = now, !.ord = effective])
    <3> DEFINE m == [Blank EXCEPT !.at = now, !.ord = effective]
    <3>1. m \in Memories
      BY <1>0, BlankType, Zenon DEF Memories
    <3>2. m.ord = effective
      BY BlankType DEF Memories
    <3> QED
      BY <1>0, <3>1, <3>2 DEF Carries
  <2>3. CASE Goto(w, "advance", [Blank EXCEPT !.at = now])
    BY <1>1, <2>1, <2>3, GotoTyped, ReadTyped DEF DecideEvaluate
  <2>4. CASE Goto(w, "issue", [Blank EXCEPT !.at = now, !.ord = effective])
    BY <1>1, <2>2, <2>4, GotoTyped, ReadTyped DEF DecideEvaluate
  <2> QED
    BY <1>1, <2>3, <2>4 DEF DecideEvaluate
<1>2. CASE DecideIssue(w)
  <2> DEFINE rs == IssueAll(mem[w].ord, mem[w].at)
             m == [mem[w] EXCEPT !.version = effective,
                                 !.material = Policies[mem[w].ord].material,
                                 !.rows = rs,
                                 !.expires = ExpiresAfter(mem[w].at, rs)]
  <2>1. mem[w].ord \in 1 .. Len(Policies) /\ mem[w].at \in Nat
    BY <1>0, <1>2 DEF DecideIssue, Carries, Memories
  <2>2. rs \in Seq(Rows)
    BY <2>1, IssueType
  <2>3. ExpiresAfter(mem[w].at, rs) \in Int
    <3> HIDE DEF rs
    <3> QED
      BY <2>1, <2>2, ExpiresType
  <2>4. Policies[mem[w].ord].material \in Materials
    BY <2>1 DEF Materials
  <2>5. m \in Memories /\ Carries("create", m)
    <3> HIDE DEF rs
    <3>1. m \in Memories
      BY <1>0, <2>2, <2>3, <2>4, Zenon DEF Memories
    <3>2. Carries("create", m)
      BY DEF Carries
    <3> QED
      BY <3>1, <3>2
  <2>6. Goto(w, "create", m) /\ UNCHANGED <<now, effective, tables, audit, crashes>>
    BY <1>2 DEF DecideIssue
  <2> HIDE DEF m
  <2> QED
    BY <2>5, <2>6, GotoTyped, ReadTyped
<1>3. CASE DecideCreate(w)
  <2> DEFINE m == [Blank EXCEPT !.at = mem[w].at]
  <2>1. m \in Memories /\ Carries("advance", m)
    BY <1>0, BlankType, Zenon DEF Memories, Carries
  <2>2. /\ pc' \in [Workers -> Labels] /\ mem' \in [Workers -> Memories]
        /\ \A v \in Workers : Carries(pc'[v], mem'[v])
    BY <1>3, <2>1, GotoTyped DEF DecideCreate
  <2>3. CASE state = "absent"
    <3>1. /\ state' = "pending" /\ pinned' = mem[w].version /\ material' = mem[w].material
          /\ expires' = mem[w].expires /\ rows' = mem[w].rows
          /\ nextDeadline' = Earliest(expires', rows')
          /\ UNCHANGED <<approvals, now, effective, audit, crashes>>
      BY <1>3, <2>3 DEF DecideCreate
    <3>2. rows' \in Seq(Rows) /\ expires' \in Int /\ pinned' \in Nat /\ material' \in Materials
      BY <1>0, <3>1 DEF Memories
    <3>3. nextDeadline' \in Int
      BY <3>1, <3>2, EarliestType
    <3> QED
      BY <2>2, <3>1, <3>2, <3>3 DEF WellTyped, TypeOK, audit, Lifecycle!States
  <2>4. CASE state # "absent"
    BY <1>3, <2>2, <2>4, ReadTyped DEF DecideCreate
  <2> QED
    BY <2>3, <2>4
<1>4. QED
  BY <1>1, <1>2, <1>3

(* Submit's steps, up to the challenge write, preserve the type invariant. *)
LEMMA SubmitTyped ==
  ASSUME WellTyped, NEW w \in Workers,
         \/ \E p \in People, o \in DOMAIN rows : SubmitRead(w, p, o)
         \/ SubmitCheck(w) \/ RecordApproval(w) \/ CountApprovals(w) \/ SubmitRecord(w)
  PROVE  WellTyped'
<1> USE DEF Labels
<1>0. /\ now \in Nat /\ material \in Materials /\ expires \in Int /\ rows \in Seq(Rows)
      /\ mem[w] \in Memories /\ Carries(pc[w], mem[w])
  BY DEF WellTyped, TypeOK
<1>1. ASSUME NEW p \in People, NEW o \in DOMAIN rows, SubmitRead(w, p, o) PROVE WellTyped'
  <2> DEFINE m == [Blank EXCEPT !.at = now, !.who = p, !.ord = o,
                                !.material = material, !.expires = expires]
  <2>1. o \in Nat
    BY <1>0
  <2>2. m \in Memories
    BY <1>0, <2>1, BlankType, Zenon DEF Memories
  <2>3. Carries("collect", m)
    BY DEF Carries
  <2> HIDE DEF m
  <2>4. Goto(w, "collect", m) /\ UNCHANGED <<now, effective, tables, audit, crashes>>
    BY <1>1, Zenon DEF SubmitRead, m
  <2> QED
    BY <2>2, <2>3, <2>4, GotoTyped, ReadTyped
<1>2. CASE SubmitCheck(w)
  <2> DEFINE d == rows[mem[w].ord].detail
             dc == [d EXCEPT !.cancelled = TRUE]
             ma == [mem[w] EXCEPT !.detail = d]
             mr == [mem[w] EXCEPT !.out = "failed", !.detail = dc]
  <2>1. UNCHANGED <<now, effective, tables, audit, crashes>>
    BY <1>2 DEF SubmitCheck, Cancelled
  <2>2. CASE Collecting(mem[w]) /\ Goto(w, "approve", ma)
    <3>1. rows[mem[w].ord] \in Rows /\ mem[w].who \in d.who
      BY <1>0, <2>2 DEF Collecting
    <3>2. d \in Details /\ mem[w].who \in People
      BY <3>1 DEF Rows, Details
    <3> HIDE DEF d
    <3>3. ma \in Memories /\ ma.who = mem[w].who
      BY <1>0, <3>2, Zenon DEF Memories
    <3>4. Carries("approve", ma)
      BY <3>2, <3>3 DEF Carries
    <3> QED
      BY <2>1, <2>2, <3>3, <3>4, GotoTyped, ReadTyped
  <2>3. CASE Collecting(mem[w]) /\ Goto(w, "record", mr)
    <3>1. rows[mem[w].ord] \in Rows
      BY <1>0, <2>3 DEF Collecting
    <3>2. dc \in Details
      BY <3>1, Zenon DEF Rows, Details
    <3> HIDE DEF dc
    <3>3. mr \in Memories /\ mr.out = "failed"
      BY <1>0, <3>2, Zenon DEF Memories, ChallengeStates
    <3>4. Carries("record", mr)
      BY <3>3 DEF Carries, ChallengeStates
    <3> QED
      BY <2>1, <2>3, <3>3, <3>4, GotoTyped, ReadTyped
  <2>4. CASE Return(w)
    BY <2>1, <2>4, ReturnTyped, ReadTyped
  <2> QED
    BY <1>2, <2>2, <2>3, <2>4 DEF SubmitCheck, Cancelled
<1>3. CASE RecordApproval(w)
  <2> DEFINE vote == [ord |-> mem[w].ord, who |-> mem[w].who, hash |-> mem[w].detail.hash]
  <2>1. mem[w].who \in People /\ mem[w].detail \in Details /\ mem[w].ord \in Nat
    BY <1>0, <1>3 DEF RecordApproval, Carries, Memories
  <2>2. vote \in Votes
    BY <2>1 DEF Votes, Details
  <2> HIDE DEF vote
  <2>3. /\ pc' \in [Workers -> Labels] /\ mem' \in [Workers -> Memories]
        /\ \A v \in Workers : Carries(pc'[v], mem'[v])
    <3>1. Carries("count", mem[w])
      BY DEF Carries
    <3>2. Return(w) \/ Goto(w, "count", mem[w])
      BY <1>3 DEF RecordApproval
    <3> QED
      BY <1>0, <3>1, <3>2, GotoTyped, ReturnTyped
  <2>4. /\ approvals' = approvals \/ approvals' = approvals \cup {vote}
        /\ auditApprovals' = auditApprovals \/ auditApprovals' = auditApprovals \cup {vote}
        /\ UNCHANGED <<now, effective, row, rows, resolutions, auditCancels, crashes>>
    BY <1>3 DEF RecordApproval, vote
  <2> QED
    BY <2>2, <2>3, <2>4 DEF WellTyped, TypeOK, row
<1>4. CASE CountApprovals(w)
  <2> DEFINE s == IF Count(mem[w].ord) >= mem[w].detail.need THEN "satisfied" ELSE "pending"
             m == [mem[w] EXCEPT !.out = s]
  <2>1. s \in ChallengeStates
    BY DEF ChallengeStates
  <2> HIDE DEF s
  <2>2. m \in Memories /\ m.out = s
    BY <1>0, <2>1, Zenon DEF Memories
  <2>3. Carries("record", m)
    BY <2>1, <2>2 DEF Carries
  <2>4. Goto(w, "record", m) /\ UNCHANGED <<now, effective, tables, audit, crashes>>
    BY <1>4 DEF CountApprovals, s
  <2> QED
    BY <2>2, <2>3, <2>4, GotoTyped, ReadTyped
<1>5. CASE SubmitRecord(w)
  <2>1. mem[w].out \in ChallengeStates /\ mem[w].detail \in Details /\ mem[w].at \in Nat
        /\ mem[w].ord \in Nat
    BY <1>0, <1>5 DEF SubmitRecord, Carries, Memories
  <2>2. CASE mem[w].ord \notin DOMAIN rows
    BY <1>5, <2>2, ReturnTyped, ReadTyped DEF SubmitRecord, tables, audit
  <2>3. CASE mem[w].ord \in DOMAIN rows
    <3> DEFINE m == [Blank EXCEPT !.at = mem[w].at]
    <3>1. m \in Memories /\ Carries("advance", m)
      BY <2>1, BlankType DEF Memories, Carries
    <3>2. /\ SetChallengeState(mem[w].ord, mem[w].out, mem[w].detail)
          /\ Goto(w, "advance", m)
          /\ auditCancels' = auditCancels \/ auditCancels' = auditCancels \cup {mem[w].ord}
          /\ UNCHANGED <<now, effective, approvals, resolutions, auditApprovals, crashes>>
      BY <1>5, <2>3 DEF SubmitRecord
    <3>3. rows' \in Seq(Rows) /\ nextDeadline' \in Int
      BY <2>1, <2>3, <3>2, SetChallengeStateType DEF WellTyped
    <3>4. UNCHANGED <<state, pinned, material, expires>>
      BY <3>2 DEF SetChallengeState
    <3>5. /\ pc' \in [Workers -> Labels] /\ mem' \in [Workers -> Memories]
          /\ \A v \in Workers : Carries(pc'[v], mem'[v])
      BY <3>1, <3>2, GotoTyped
    <3> QED
      BY <2>1, <3>2, <3>3, <3>4, <3>5 DEF WellTyped, TypeOK
  <2> QED
    BY <2>2, <2>3
<1>6. QED
  BY <1>1, <1>2, <1>3, <1>4, <1>5

(* Counting one settled challenge moves advance to the next ordinal and    *)
(* changes only its counters.                                              *)
LEMMA TallyType ==
  ASSUME NEW m \in Memories, NEW s
  PROVE  /\ Tally(m, s) \in Memories
         /\ Tally(m, s).rows = m.rows /\ Tally(m, s).ord = m.ord + 1 /\ Tally(m, s).at = m.at
<1> DEFINE o == m.ord + 1
           a == IF s = "satisfied" THEN m.satisfied + 1 ELSE m.satisfied
           b == IF s \in {"failed", "cancelled"} THEN m.failed + 1 ELSE m.failed
           t == [m EXCEPT !.ord = o, !.satisfied = a, !.failed = b]
<1>1. o \in Nat /\ a \in Nat /\ b \in Nat
  BY DEF Memories
<1>2. Tally(m, s) = t
  BY DEF Tally, Memories
<1> HIDE DEF o, a, b
<1>3. t \in Memories /\ t.rows = m.rows /\ t.ord = o /\ t.at = m.at
  BY <1>1, Zenon DEF Memories
<1>4. QED
  BY <1>2, <1>3 DEF o

(* The steps of advance, which requests and sweepers share, preserve the   *)
(* type invariant.                                                         *)
LEMMA AdvanceTyped ==
  ASSUME WellTyped, NEW w \in Workers, Step(w)
  PROVE  WellTyped'
<1> USE DEF Labels
<1>0. /\ now \in Nat /\ rows \in Seq(Rows) /\ mem[w] \in Memories /\ Carries(pc[w], mem[w])
  BY DEF WellTyped, TypeOK
<1>1. CASE AdvanceRead(w)
  <2>1. Carries("progress", mem[w])
    BY DEF Carries
  <2>2. Return(w) \/ Goto(w, "progress", mem[w])
    BY <1>1 DEF AdvanceRead
  <2>3. UNCHANGED <<now, effective, tables, audit, crashes>>
    BY <1>1 DEF AdvanceRead
  <2> QED
    BY <1>0, <2>1, <2>2, <2>3, GotoTyped, ReturnTyped, ReadTyped
<1>2. CASE AdvanceProgress(w)
  <2> DEFINE m == [mem[w] EXCEPT !.rows = rows, !.ord = 1]
  <2>1. m \in Memories
    BY <1>0, Zenon DEF Memories
  <2>2. Carries("settle", m)
    BY DEF Carries
  <2> HIDE DEF m
  <2>3. Goto(w, "settle", m) /\ UNCHANGED <<now, effective, tables, audit, crashes>>
    BY <1>2 DEF AdvanceProgress, m
  <2> QED
    BY <2>1, <2>2, <2>3, GotoTyped, ReadTyped
<1>3. CASE AdvanceSettle(w)
  <2> DEFINE r == mem[w].rows[mem[w].ord]
             s == IF r.state = "pending" THEN Settled(mem[w].ord, r, mem[w].at) ELSE r.state
             m == [mem[w] EXCEPT !.out = s]
  <2>1. mem[w].ord \in DOMAIN mem[w].rows /\ UNCHANGED <<now, effective, tables, audit, crashes>>
        /\ (Goto(w, "write", m) \/ Goto(w, "settle", Tally(mem[w], s)))
    BY <1>3 DEF AdvanceSettle
  <2>2. r \in Rows
    BY <1>0, <2>1 DEF Memories
  <2>3. s \in ChallengeStates
    BY <2>2, StatusType DEF Rows
  <2> HIDE DEF s
  <2>4. m \in Memories /\ m.out = s /\ m.ord = mem[w].ord /\ m.rows = mem[w].rows
    BY <1>0, <2>3 DEF Memories
  <2>5. Carries("write", m)
    BY <2>1, <2>3, <2>4 DEF Carries
  <2>6. Tally(mem[w], s) \in Memories /\ Carries("settle", Tally(mem[w], s))
    BY <1>0, TallyType DEF Carries
  <2> HIDE DEF m
  <2> QED
    BY <2>1, <2>4, <2>5, <2>6, GotoTyped, ReadTyped
<1>4. CASE AdvanceWrite(w)
  <2>1. CASE mem[w].ord \notin DOMAIN rows
    BY <1>4, <2>1, ReturnTyped, ReadTyped DEF AdvanceWrite, tables
  <2>2. CASE mem[w].ord \in DOMAIN rows
    <3> DEFINE d == mem[w].rows[mem[w].ord].detail
               m == Tally(mem[w], mem[w].out)
    <3>1. mem[w].out \in ChallengeStates /\ mem[w].ord \in DOMAIN mem[w].rows
      BY <1>0, <1>4 DEF AdvanceWrite, Carries
    <3>2. d \in Details
      <4>1. mem[w].rows \in Seq(Rows)
        BY <1>0 DEF Memories
      <4>2. mem[w].rows[mem[w].ord] \in Rows
        BY <3>1, <4>1
      <4> QED
        BY <4>2 DEF Rows
    <3>3. m \in Memories /\ Carries("settle", m)
      BY <1>0, TallyType DEF Carries
    <3> HIDE DEF m
    <3>4. /\ SetChallengeState(mem[w].ord, mem[w].out, d)
          /\ Goto(w, "settle", m)
          /\ UNCHANGED <<now, effective, approvals, audit, crashes>>
      BY <1>4, <2>2 DEF AdvanceWrite, m
    <3> HIDE DEF d
    <3>5. rows' \in Seq(Rows) /\ nextDeadline' \in Int
      BY <2>2, <3>1, <3>2, <3>4, SetChallengeStateType DEF WellTyped
    <3>6. UNCHANGED <<state, pinned, material, expires>>
      BY <3>4 DEF SetChallengeState
    <3>7. /\ pc' \in [Workers -> Labels] /\ mem' \in [Workers -> Memories]
          /\ \A v \in Workers : Carries(pc'[v], mem'[v])
      BY <3>3, <3>4, GotoTyped
    <3> QED
      BY <3>4, <3>5, <3>6, <3>7 DEF WellTyped, TypeOK, audit
  <2> QED
    BY <2>1, <2>2
<1>5. CASE AdvanceDecide(w)
  <2> DEFINE md == [mem[w] EXCEPT !.out = "denied"]
             ma == [mem[w] EXCEPT !.out = "allowed"]
  <2>1. UNCHANGED <<now, effective, tables, audit, crashes>>
        /\ (Goto(w, "resolve", md) \/ Goto(w, "resolve", ma) \/ Return(w))
    BY <1>5 DEF AdvanceDecide
  <2>2. {"denied", "allowed"} \subseteq Terminal
    BY DEF Terminal, Lifecycle!Terminal, Lifecycle!States
  <2>3. /\ md \in Memories /\ md.out = "denied"
        /\ ma \in Memories /\ ma.out = "allowed"
    BY <1>0, <2>2, Zenon DEF Memories
  <2> HIDE DEF ma, md
  <2>4. Carries("resolve", md) /\ Carries("resolve", ma)
    BY <2>3 DEF Carries
  <2> QED
    BY <2>1, <2>3, <2>4, GotoTyped, ReturnTyped, ReadTyped
<1>6. CASE Resolve(w)
  <2>1. mem[w].out \in Terminal
    BY <1>0, <1>6 DEF Resolve, Carries, Terminal, Lifecycle!Terminal, Lifecycle!States
  <2>2. /\ ResolveDecision(mem[w].out) /\ Return(w)
        /\ UNCHANGED <<now, effective, rows, approvals, auditApprovals, auditCancels, crashes>>
    BY <1>6 DEF Resolve
  <2>3. /\ state' \in Lifecycle!States \cup {"absent"}
        /\ nextDeadline' \in Int /\ resolutions' \in Seq(Terminal)
        /\ UNCHANGED <<pinned, material, expires>>
    BY <2>1, <2>2, ResolveDecisionType DEF WellTyped
  <2>4. /\ pc' \in [Workers -> Labels] /\ mem' \in [Workers -> Memories]
        /\ \A v \in Workers : Carries(pc'[v], mem'[v])
    BY <2>2, ReturnTyped
  <2> QED
    BY <2>2, <2>3, <2>4 DEF WellTyped, TypeOK
<1>7. QED
  BY <1>1, <1>2, <1>3, <1>4, <1>5, <1>6 DEF Step

(* Claiming a due decision preserves the type invariant.                   *)
LEMMA SweepTyped ==
  ASSUME WellTyped, NEW w \in Workers, SweepClaim(w)
  PROVE  WellTyped'
<1> USE DEF Labels
<1> DEFINE me == [Blank EXCEPT !.at = now, !.out = "expired"]
           ma == [Blank EXCEPT !.at = now]
<1>1. UNCHANGED <<now, effective, tables, audit, crashes>>
      /\ (Goto(w, "resolve", me) \/ Goto(w, "advance", ma))
  BY DEF SweepClaim
<1>2. now \in Nat /\ "expired" \in Terminal
  BY DEF WellTyped, TypeOK, Terminal, Lifecycle!Terminal, Lifecycle!States
<1>3. me \in Memories /\ me.out = "expired" /\ ma \in Memories
  BY <1>2, BlankType, Zenon DEF Memories
<1> HIDE DEF me, ma
<1>4. Carries("resolve", me) /\ Carries("advance", ma)
  BY <1>3 DEF Carries
<1>5. QED
  BY <1>1, <1>3, <1>4, GotoTyped, ReadTyped

(* Applying a policy revision preserves the type invariant.                *)
LEMMA ReviseTyped ==
  ASSUME WellTyped, NEW mode, Revise(mode)
  PROVE  WellTyped'
<1>0. /\ effective \in Nat /\ effective + 1 \in 1 .. Len(Policies)
      /\ effective' = effective + 1
      /\ UNCHANGED <<now, auditApprovals, auditCancels, pc, mem, crashes>>
  BY PoliciesAssumption DEF Revise, WellTyped, TypeOK
<1>1. CASE UNCHANGED <<tables, resolutions>>
  BY <1>0, <1>1 DEF WellTyped, TypeOK, tables, row
<1>2. CASE Revaluate(effective + 1)
  <2> DEFINE v == effective + 1
             p == Policies[v]
  <2>1. CASE p.deny
    <3>1. ResolveDecision("denied") /\ UNCHANGED <<rows, approvals>>
      BY <1>2, <2>1 DEF Revaluate
    <3>2. "denied" \in Terminal
      BY DEF Terminal, Lifecycle!Terminal, Lifecycle!States
    <3>3. /\ state' \in Lifecycle!States \cup {"absent"}
          /\ nextDeadline' \in Int /\ resolutions' \in Seq(Terminal)
          /\ UNCHANGED <<pinned, material, expires>>
      BY <3>1, <3>2, ResolveDecisionType DEF WellTyped
    <3> QED
      BY <1>0, <3>1, <3>3 DEF WellTyped, TypeOK
  <2>2. CASE ~p.deny
    <3>1. /\ rows' = IF SameShape(p.gates) THEN Rebind(v) ELSE Reopen(v)
          /\ approvals' \subseteq approvals
          /\ pinned' = v /\ material' = p.material /\ state' = AfterTally(rows')
          /\ resolutions' = IF state' = "pending" THEN resolutions
                                                  ELSE Append(resolutions, state')
          /\ nextDeadline' \in {NoTime, Earliest(expires, rows'), nextDeadline}
          /\ expires' = expires
      BY <1>2, <2>2 DEF Revaluate
    <3>2. rows' \in Seq(Rows)
      BY <1>0, <3>1, RebindType, ReopenType DEF WellTyped
    <3>3. nextDeadline' \in Int
      BY <3>1, <3>2, EarliestType DEF WellTyped, TypeOK, NoTime
    <3>4. state' \in {"allowed", "denied", "pending"}
      BY <3>1 DEF AfterTally
    <3>5. resolutions' \in Seq(Terminal)
      <4>1. state' # "pending" => state' \in Terminal
        BY <3>4 DEF Terminal, Lifecycle!Terminal, Lifecycle!States
      <4> QED
        BY <3>1, <4>1 DEF WellTyped, TypeOK
    <3>6. state' \in Lifecycle!States
      BY <3>4 DEF Lifecycle!States
    <3>7. material' \in Materials
      BY <1>0, <3>1 DEF Materials
    <3> QED
      BY <1>0, <3>1, <3>2, <3>3, <3>5, <3>6, <3>7 DEF WellTyped, TypeOK
  <2> QED
    BY <2>1, <2>2
<1>3. QED
  BY <1>1, <1>2 DEF Revise

(* A cancelled decision takes its pending challenges down with it.         *)
LEMMA CancelledRowsType ==
  ASSUME NEW rs \in Seq(Rows)
  PROVE  [o \in DOMAIN rs |-> IF rs[o].state = "pending"
                              THEN [rs[o] EXCEPT !.state = "cancelled"] ELSE rs[o]] \in Seq(Rows)
<1>1. \A o \in DOMAIN rs : rs[o] \in Rows
  OBVIOUS
<1>2. \A o \in DOMAIN rs : [rs[o] EXCEPT !.state = "cancelled"] \in Rows
  BY <1>1 DEF Rows, ChallengeStates
<1>3. QED
  BY <1>1, <1>2

(* The empty database is well typed.                                       *)
LEMMA InitTyped == Init => WellTyped
<1> SUFFICES ASSUME Init PROVE WellTyped
  OBVIOUS
<1>1. NoHash \in Materials /\ <<>> \in Seq(Rows) /\ <<>> \in Seq(Terminal)
  BY DEF Materials
<1>2. TypeOK
  BY <1>1, BlankType, PoliciesAssumption DEF Init, TypeOK, Labels, NoTime
<1>3. ASSUME NEW w \in Workers PROVE Carries(pc[w], mem[w])
  BY DEF Init, Carries
<1>4. QED
  BY <1>2, <1>3 DEF WellTyped

(* Every step preserves the type invariant.                                *)
LEMMA NextTyped == WellTyped /\ [Next]_vars => WellTyped'
<1> SUFFICES ASSUME WellTyped, [Next]_vars PROVE WellTyped'
  OBVIOUS
<1>1. ASSUME NEW w \in Requests, Request(w) PROVE WellTyped'
  BY <1>1, DecideTyped, SubmitTyped, AdvanceTyped DEF Request, Workers
<1>2. ASSUME NEW w \in Sweepers, Sweep(w) PROVE WellTyped'
  BY <1>2, SweepTyped, AdvanceTyped DEF Sweep, Workers
<1>3. ASSUME NEW mode, Revise(mode) PROVE WellTyped'
  BY <1>3, ReviseTyped
<1>4. CASE CancelDecision
  <2>1. "cancelled" \in Terminal
    BY DEF Terminal, Lifecycle!Terminal, Lifecycle!States
  <2>2. rows' \in Seq(Rows)
    BY <1>4, CancelledRowsType DEF CancelDecision, WellTyped, TypeOK
  <2>3. /\ state' \in Lifecycle!States \cup {"absent"}
        /\ nextDeadline' \in Int /\ resolutions' \in Seq(Terminal)
        /\ UNCHANGED <<pinned, material, expires>>
    BY <1>4, <2>1, ResolveDecisionType DEF CancelDecision, WellTyped
  <2>4. UNCHANGED <<now, effective, approvals, auditApprovals, auditCancels, pc, mem, crashes>>
    BY <1>4 DEF CancelDecision
  <2> QED
    BY <2>2, <2>3, <2>4 DEF WellTyped, TypeOK
<1>5. ASSUME NEW w \in Workers, Crash(w) PROVE WellTyped'
  <2>1. /\ pc' \in [Workers -> Labels] /\ mem' \in [Workers -> Memories]
        /\ \A v \in Workers : Carries(pc'[v], mem'[v])
    BY <1>5, ReturnTyped DEF Crash
  <2> QED
    BY <1>5, <2>1 DEF Crash, WellTyped, TypeOK, tables, row, audit
<1>6. CASE Tick
  BY <1>6 DEF Tick, WellTyped, TypeOK, tables, row, audit
<1>7. CASE UNCHANGED vars
  BY <1>7 DEF vars, WellTyped, TypeOK, tables, row, audit
<1>8. QED
  BY <1>1, <1>2, <1>3, <1>4, <1>5, <1>6, <1>7 DEF Next

(* Every reachable state is well typed, and so is what each goroutine      *)
(* carries between two statements of its handler.                          *)
THEOREM DecisionWellTyped == Spec => []WellTyped
<1>1. QED
  BY InitTyped, NextTyped, PTL DEF Spec

(* The tables, the audit trail and every goroutine's memory keep their     *)
(* types.                                                                  *)
THEOREM DecisionTypeCorrect == Spec => []TypeOK
<1>1. WellTyped => TypeOK
  BY DEF WellTyped
<1>2. QED
  BY <1>1, DecisionWellTyped, PTL

-----------------------------------------------------------------------------
(* Decision implements DecisionLifecycle.                                  *)

(* Every terminal state the code writes is the target of some trigger.     *)
LEMMA ResolveIsLegal ==
  ASSUME NEW to \in Terminal, state = "pending", state' = to,
         resolutions' = Append(resolutions, to)
  PROVE  Lifecycle!Next
<1>1. PICK trigger \in Lifecycle!Triggers : Lifecycle!Transitions[trigger] = to
  BY DEF Terminal, Lifecycle!Terminal, Lifecycle!States, Lifecycle!Triggers, Lifecycle!Transitions
<1>2. Lifecycle!Resolve(trigger)
  BY <1>1 DEF Lifecycle!Resolve, Lifecycle!Legal
<1>3. QED
  BY <1>2 DEF Lifecycle!Next

(* ResolveDecision is one legal transition, or it leaves the row alone.    *)
LEMMA ResolveDecisionStep ==
  ASSUME NEW to \in Terminal, ResolveDecision(to)
  PROVE  [Lifecycle!Next]_<<state, resolutions>>
  BY ResolveIsLegal DEF ResolveDecision, row

(* A goroutine's step creates the decision, resolves it, or leaves both    *)
(* the row's state and the audit entries alone.                            *)
LEMMA WorkerStepRefines ==
  ASSUME WellTyped, NEW w \in Workers, Request(w) \/ Sweep(w)
  PROVE  [Lifecycle!Next]_<<state, resolutions>>
<1>1. CASE DecideCreate(w)
  BY <1>1 DEF DecideCreate, Lifecycle!Next, Lifecycle!Create, tables, row, audit
<1>2. CASE Resolve(w)
  <2>1. mem[w].out \in Terminal
    BY <1>2 DEF Resolve, WellTyped, Carries, Terminal, Lifecycle!Terminal, Lifecycle!States
  <2> QED
    BY <1>2, <2>1, ResolveDecisionStep DEF Resolve
<1>3. CASE SubmitRecord(w) \/ AdvanceWrite(w)
  BY <1>3 DEF SubmitRecord, AdvanceWrite, SetChallengeState, row, audit
<1>4. CASE RecordApproval(w)
  BY <1>4 DEF RecordApproval, row
<1>5. CASE UNCHANGED <<now, effective, tables, audit, crashes>>
  BY <1>5 DEF tables, row, audit
<1>6. QED
  BY <1>1, <1>2, <1>3, <1>4, <1>5, Zenon
  DEF Request, Sweep, Step, DecideEvaluate, DecideIssue, SubmitRead, SubmitCheck, CountApprovals,
      AdvanceRead, AdvanceProgress, AdvanceSettle, AdvanceDecide, SweepClaim

(* Every step is a step of the lifecycle table or a stutter.               *)
LEMMA NextRefines == WellTyped /\ [Next]_vars => [Lifecycle!Next]_<<state, resolutions>>
<1> SUFFICES ASSUME WellTyped, [Next]_vars PROVE [Lifecycle!Next]_<<state, resolutions>>
  OBVIOUS
<1>1. {"denied", "allowed", "cancelled"} \subseteq Terminal
  BY DEF Terminal, Lifecycle!Terminal, Lifecycle!States
<1>2. ASSUME NEW mode, Revise(mode) PROVE [Lifecycle!Next]_<<state, resolutions>>
  <2>1. CASE UNCHANGED <<tables, resolutions>>
    BY <2>1 DEF tables, row
  <2>2. CASE state = "pending" /\ Revaluate(effective + 1)
    <3> DEFINE p == Policies[effective + 1]
    <3>1. CASE p.deny
      BY <1>1, <2>2, <3>1, ResolveDecisionStep DEF Revaluate
    <3>2. CASE ~p.deny
      <4>1. /\ state' = AfterTally(rows')
            /\ resolutions' = IF state' = "pending" THEN resolutions
                                                    ELSE Append(resolutions, state')
        BY <2>2, <3>2 DEF Revaluate
      <4>2. state' \in {"denied", "allowed", "pending"}
        BY <4>1 DEF AfterTally
      <4> QED
        BY <1>1, <2>2, <4>1, <4>2, ResolveIsLegal
    <3> QED
      BY <3>1, <3>2
  <2> QED
    BY <1>2, <2>1, <2>2 DEF Revise
<1>3. CASE CancelDecision
  BY <1>1, <1>3, ResolveDecisionStep DEF CancelDecision
<1>4. CASE \E w \in Workers : Crash(w)
  BY <1>4 DEF Crash, tables, row, audit
<1>5. CASE Tick
  BY <1>5 DEF Tick, tables, row, audit
<1>6. CASE UNCHANGED vars
  BY <1>6 DEF vars, tables, row, audit
<1>7. QED
  BY <1>2, <1>3, <1>4, <1>5, <1>6, WorkerStepRefines DEF Next, Workers

(* Whatever the interleaving of deciders, submitters, sweepers, crashes,   *)
(* revisions and withdrawals, a decision is created once and leaves        *)
(* pending along one edge of lifecycle.go's table, with one audit entry.   *)
THEOREM DecisionImplementsLifecycle == Spec => ImplementsLifecycle
<1>1. Init => Lifecycle!Init
  BY DEF Init, Lifecycle!Init
<1>2. QED
  BY <1>1, DecisionWellTyped, NextRefines, PTL
  DEF Spec, ImplementsLifecycle, Lifecycle!Spec, Lifecycle!lifecycleVars

(* The row and the audit log agree on how the decision ended: two sweepers *)
(* or submitters racing for the same row append one decision.resolved.     *)
THEOREM DecisionResolvedExactlyOnce == Spec => []ResolvedExactlyOnce
<1> USE DEF ResolvedExactlyOnce, Lifecycle!ResolvedExactlyOnce, Lifecycle!Terminal, Lifecycle!States
<1>1. Lifecycle!Init => ResolvedExactlyOnce
  BY DEF Lifecycle!Init
<1>2. ResolvedExactlyOnce /\ [Lifecycle!Next]_<<state, resolutions>> => ResolvedExactlyOnce'
  <2> SUFFICES ASSUME ResolvedExactlyOnce, [Lifecycle!Next]_<<state, resolutions>>
               PROVE  ResolvedExactlyOnce'
    OBVIOUS
  <2>1. CASE Lifecycle!Create
    BY <2>1 DEF Lifecycle!Create
  <2>2. ASSUME NEW t \in Lifecycle!Triggers, Lifecycle!Resolve(t) PROVE ResolvedExactlyOnce'
    BY <2>2 DEF Lifecycle!Resolve, Lifecycle!Legal, Lifecycle!Triggers, Lifecycle!Transitions
  <2>3. CASE UNCHANGED <<state, resolutions>>
    BY <2>3
  <2> QED
    BY <2>1, <2>2, <2>3 DEF Lifecycle!Next
<1>3. QED
  BY <1>1, <1>2, DecisionImplementsLifecycle, PTL
  DEF ImplementsLifecycle, Lifecycle!Spec, Lifecycle!lifecycleVars

-----------------------------------------------------------------------------
(* The scheduler column.                                                   *)

(* Rebinding without moving a timer skips the recomputation of the column, *)
(* which is right only because a quorum never has a timer of its own.      *)
QuorumsHaveNoTimer(rs) == \A o \in DOMAIN rs : rs[o].kind = "quorum" => rs[o].deadline = NoTime
SchedulerInv ==
    /\ SchedulerExact
    /\ QuorumsHaveNoTimer(rows)
    /\ \A w \in Workers : pc[w] = "create" => QuorumsHaveNoTimer(mem[w].rows)

(* Writing a challenge state refreshes the column in the same transaction. *)
LEMMA WriteKeepsScheduler ==
  ASSUME WellTyped, SchedulerInv, NEW o \in DOMAIN rows, NEW s \in ChallengeStates,
         NEW d \in Details, SetChallengeState(o, s, d)
  PROVE  SchedulerExact' /\ QuorumsHaveNoTimer(rows')
<1>1. rows \in Seq(Rows)
  BY DEF WellTyped, TypeOK
<1>2. /\ rows' = [rows EXCEPT ![o] = [@ EXCEPT !.state = s, !.detail = d]]
      /\ UNCHANGED <<state, expires>>
      /\ nextDeadline' = IF state = "pending" THEN Earliest(expires, rows') ELSE nextDeadline
  BY DEF SetChallengeState
<1>3. /\ DOMAIN rows' = DOMAIN rows /\ rows'[o] = [rows[o] EXCEPT !.state = s, !.detail = d]
      /\ \A p \in DOMAIN rows : p # o => rows'[p] = rows[p]
  BY <1>1, <1>2, WrittenRowType, Zenon
<1>4. rows[o] \in Rows
  BY <1>1
<1>5. rows'[o].kind = rows[o].kind /\ rows'[o].deadline = rows[o].deadline
  BY <1>3, <1>4 DEF Rows
<1>6. QuorumsHaveNoTimer(rows')
  BY <1>3, <1>5, Zenon DEF SchedulerInv, QuorumsHaveNoTimer
<1>7. SchedulerExact'
  BY <1>2 DEF SchedulerInv, SchedulerExact
<1>8. QED
  BY <1>6, <1>7

(* Issuing gives no quorum a timer.                                        *)
LEMMA IssuedQuorumsHaveNoTimer ==
  ASSUME NEW v \in 1 .. Len(Policies), NEW at
  PROVE  QuorumsHaveNoTimer(IssueAll(v, at))
  BY Zenon DEF QuorumsHaveNoTimer, IssueAll, Issue, IssueQuorum, IssueDelay

(* What a goroutine's move must leave behind for SchedulerInv.             *)
LEMMA GotoKeepsScheduler ==
  ASSUME WellTyped, SchedulerInv, NEW w \in Workers, NEW l, NEW m, Goto(w, l, m),
         l = "create" => QuorumsHaveNoTimer(m.rows)
  PROVE  \A u \in Workers : pc'[u] = "create" => QuorumsHaveNoTimer(mem'[u].rows)
  BY DEF WellTyped, TypeOK, SchedulerInv, Goto

(* A goroutine that returns carries no issued rows on to create.           *)
LEMMA ReturnKeepsScheduler ==
  ASSUME WellTyped, SchedulerInv, NEW w \in Workers, Return(w)
  PROVE  \A u \in Workers : pc'[u] = "create" => QuorumsHaveNoTimer(mem'[u].rows)
  BY GotoKeepsScheduler, Zenon DEF Return

(* A step that leaves the tables alone and does not arrive at "create".    *)
LEMMA QuietKeepsScheduler ==
  ASSUME WellTyped, SchedulerInv, NEW w \in Workers, NEW l, NEW m, Goto(w, l, m), l # "create",
         UNCHANGED tables
  PROVE  SchedulerInv'
<1>1. \A u \in Workers : pc'[u] = "create" => QuorumsHaveNoTimer(mem'[u].rows)
  BY GotoKeepsScheduler
<1>2. QED
  BY <1>1 DEF SchedulerInv, SchedulerExact, tables, row

(* A request's or a sweeper's step keeps the scheduler's column exact.     *)
LEMMA WorkerKeepsScheduler ==
  ASSUME WellTyped, SchedulerInv, NEW w \in Workers, Request(w) \/ Sweep(w)
  PROVE  SchedulerInv'
<1>0. mem[w] \in Memories /\ Carries(pc[w], mem[w])
  BY DEF WellTyped, TypeOK
<1>1. CASE DecideIssue(w)
  <2> DEFINE rs == IssueAll(mem[w].ord, mem[w].at)
             m == [mem[w] EXCEPT !.version = effective,
                                 !.material = Policies[mem[w].ord].material,
                                 !.rows = rs,
                                 !.expires = ExpiresAfter(mem[w].at, rs)]
  <2>1. QuorumsHaveNoTimer(rs)
    BY <1>0, <1>1, IssuedQuorumsHaveNoTimer DEF DecideIssue, Carries
  <2>2. Goto(w, "create", m) /\ UNCHANGED tables
    BY <1>1 DEF DecideIssue
  <2>3. m.rows = rs
    <3> HIDE DEF rs
    <3> QED
      BY <1>0 DEF Memories
  <2> HIDE DEF m
  <2>4. \A u \in Workers : pc'[u] = "create" => QuorumsHaveNoTimer(mem'[u].rows)
    BY <2>1, <2>2, <2>3, GotoKeepsScheduler
  <2> QED
    BY <2>2, <2>4 DEF SchedulerInv, SchedulerExact, tables, row
<1>2. CASE DecideCreate(w)
  <2> DEFINE m == [Blank EXCEPT !.at = mem[w].at]
  <2>1. Goto(w, "advance", m)
    BY <1>2 DEF DecideCreate
  <2>2. CASE state = "absent"
    <3>1. /\ state' = "pending" /\ rows' = mem[w].rows
          /\ nextDeadline' = Earliest(expires', rows')
      BY <1>2, <2>2 DEF DecideCreate
    <3>2. QuorumsHaveNoTimer(rows')
      BY <1>2, <3>1 DEF DecideCreate, SchedulerInv
    <3>3. \A u \in Workers : pc'[u] = "create" => QuorumsHaveNoTimer(mem'[u].rows)
      BY <2>1, GotoKeepsScheduler
    <3> QED
      BY <3>1, <3>2, <3>3 DEF SchedulerInv, SchedulerExact
  <2>3. CASE state # "absent"
    BY <1>2, <2>1, <2>3, QuietKeepsScheduler DEF DecideCreate
  <2> QED
    BY <2>2, <2>3
<1>3. CASE SubmitRecord(w)
  <2>1. CASE mem[w].ord \notin DOMAIN rows
    BY <1>3, <2>1, QuietKeepsScheduler DEF SubmitRecord, Return, tables
  <2>2. CASE mem[w].ord \in DOMAIN rows
    <3>1. /\ SetChallengeState(mem[w].ord, mem[w].out, mem[w].detail)
          /\ Goto(w, "advance", [Blank EXCEPT !.at = mem[w].at])
      BY <1>3, <2>2 DEF SubmitRecord
    <3>2. mem[w].out \in ChallengeStates /\ mem[w].detail \in Details
      BY <1>0, <1>3 DEF SubmitRecord, Carries, Memories
    <3>3. SchedulerExact' /\ QuorumsHaveNoTimer(rows')
      BY <2>2, <3>1, <3>2, WriteKeepsScheduler
    <3>4. \A u \in Workers : pc'[u] = "create" => QuorumsHaveNoTimer(mem'[u].rows)
      BY <3>1, GotoKeepsScheduler
    <3> QED
      BY <3>3, <3>4 DEF SchedulerInv
  <2> QED
    BY <2>1, <2>2
<1>4. CASE AdvanceWrite(w)
  <2>1. CASE mem[w].ord \notin DOMAIN rows
    BY <1>4, <2>1, QuietKeepsScheduler DEF AdvanceWrite, Return, tables
  <2>2. CASE mem[w].ord \in DOMAIN rows
    <3> DEFINE d == mem[w].rows[mem[w].ord].detail
    <3>1. /\ SetChallengeState(mem[w].ord, mem[w].out, d)
          /\ Goto(w, "settle", Tally(mem[w], mem[w].out))
      BY <1>4, <2>2 DEF AdvanceWrite
    <3>2. mem[w].out \in ChallengeStates /\ mem[w].ord \in DOMAIN mem[w].rows
      BY <1>0, <1>4 DEF AdvanceWrite, Carries
    <3>3. d \in Details
      <4>1. mem[w].rows \in Seq(Rows)
        BY <1>0 DEF Memories
      <4>2. mem[w].rows[mem[w].ord] \in Rows
        BY <3>2, <4>1
      <4> QED
        BY <4>2 DEF Rows
    <3> HIDE DEF d
    <3>4. SchedulerExact' /\ QuorumsHaveNoTimer(rows')
      BY <2>2, <3>1, <3>2, <3>3, WriteKeepsScheduler
    <3>5. \A u \in Workers : pc'[u] = "create" => QuorumsHaveNoTimer(mem'[u].rows)
      BY <3>1, GotoKeepsScheduler
    <3> QED
      BY <3>4, <3>5 DEF SchedulerInv
  <2> QED
    BY <2>1, <2>2
<1>5. CASE Resolve(w)
  <2>1. \A u \in Workers : pc'[u] = "create" => QuorumsHaveNoTimer(mem'[u].rows)
    BY <1>5, ReturnKeepsScheduler DEF Resolve
  <2>2. mem[w].out # "pending" /\ ResolveDecision(mem[w].out) /\ rows' = rows
    BY <1>0, <1>5 DEF Resolve, Carries
  <2> QED
    BY <2>1, <2>2 DEF SchedulerInv, SchedulerExact, ResolveDecision, row
<1>6. CASE \E l, m : Goto(w, l, m) /\ l # "create" /\ UNCHANGED tables
  BY <1>6, QuietKeepsScheduler
<1>7. CASE RecordApproval(w)
  <2>1. \E l, m : Goto(w, l, m) /\ l # "create" /\ UNCHANGED <<row, rows>>
    BY <1>7, Zenon DEF RecordApproval, Return
  <2>2. \A u \in Workers : pc'[u] = "create" => QuorumsHaveNoTimer(mem'[u].rows)
    BY <2>1, GotoKeepsScheduler, Zenon
  <2> QED
    BY <2>1, <2>2 DEF SchedulerInv, SchedulerExact, row
<1>8. CASE AdvanceSettle(w)
  <2>1. \E l, m : Goto(w, l, m) /\ l # "create" /\ UNCHANGED tables
    BY <1>8 DEF AdvanceSettle
  <2> QED
    BY <2>1, <1>6
<1>9. QED
  BY <1>1, <1>2, <1>3, <1>4, <1>5, <1>6, <1>7, <1>8, Zenon
  DEF Request, Sweep, Step, DecideEvaluate, SubmitRead, SubmitCheck, CountApprovals,
      AdvanceRead, AdvanceProgress, AdvanceDecide, SweepClaim, Return

(* Rebinding keeps kinds, and with no timer moved it keeps the set of      *)
(* pending timers: only quorums may change state, and they have none.      *)
LEMMA RebindKeepsTimers ==
  ASSUME TypeOK, QuorumsHaveNoTimer(rows), NEW v \in 1 .. Len(Policies),
         SameShape(Policies[v].gates)
  PROVE  /\ QuorumsHaveNoTimer(Rebind(v))
         /\ (~\E o \in DOMAIN rows : TimerMoved(o, Policies[v].gates[o]))
              => PendingTimers(Rebind(v)) = PendingTimers(rows)
<1> DEFINE gs == Policies[v].gates
           m == Policies[v].material
           rs == Rebind(v)
<1>1. rows \in Seq(Rows) /\ rs \in Seq(Rows) /\ DOMAIN rs = DOMAIN rows
  BY RebindType DEF TypeOK
<1>2. ASSUME NEW o \in DOMAIN rows
      PROVE  /\ rows[o] \in Rows /\ rows[o].kind = gs[o].kind
             /\ rs[o] = IF gs[o].kind = "quorum" THEN RebindQuorum(o, gs[o], m)
                                                 ELSE RebindDelay(o, gs[o])
  <2>1. rows[o] \in Rows
    <3> HIDE DEF gs, rs
    <3> QED
      BY <1>1
  <2>2. rows[o].kind = gs[o].kind
    BY DEF SameShape
  <2>3. rs[o] = IF gs[o].kind = "quorum" THEN RebindQuorum(o, gs[o], m)
                                         ELSE RebindDelay(o, gs[o])
    BY DEF Rebind
  <2> QED
    BY <2>1, <2>2, <2>3
<1>3. ASSUME NEW o \in DOMAIN rows, gs[o].kind = "quorum"
      PROVE  rs[o].kind = rows[o].kind /\ rs[o].deadline = NoTime /\ rows[o].deadline = NoTime
  BY <1>2, <1>3, Zenon DEF RebindQuorum, Rows, QuorumsHaveNoTimer
<1>4. ASSUME NEW o \in DOMAIN rows, gs[o].kind # "quorum"
      PROVE  /\ rs[o].kind = rows[o].kind
             /\ ~TimerMoved(o, gs[o]) => rs[o].deadline = rows[o].deadline
                                         /\ rs[o].state = rows[o].state
  BY <1>2, <1>4, Zenon DEF RebindDelay, Rows
<1>5. QuorumsHaveNoTimer(rs)
  BY <1>1, <1>2, <1>3, <1>4 DEF QuorumsHaveNoTimer
<1> HIDE DEF rs, gs
<1>6. ASSUME ~\E o \in DOMAIN rows : TimerMoved(o, gs[o])
      PROVE  PendingTimers(rs) = PendingTimers(rows)
  <2>1. \A o \in DOMAIN rows :
           \/ rs[o].deadline = NoTime /\ rows[o].deadline = NoTime
           \/ rs[o].deadline = rows[o].deadline /\ rs[o].state = rows[o].state
    BY <1>3, <1>4, <1>6
  <2> QED
    BY <1>1, <2>1 DEF PendingTimers
<1>7. QED
  BY <1>5, <1>6 DEF rs, gs

(* Reopening gives no quorum a timer.                                      *)
LEMMA ReopenHasNoQuorumTimer ==
  ASSUME TypeOK, NEW v \in 1 .. Len(Policies), expires >= 0
  PROVE  QuorumsHaveNoTimer(Reopen(v))
<1> DEFINE rs == IssueAll(v, now)
<1>1. rs \in Seq(Rows) /\ QuorumsHaveNoTimer(rs)
  BY IssueType, IssuedQuorumsHaveNoTimer DEF TypeOK
<1>2. Reopen(v) = [o \in DOMAIN rs |-> IF rs[o].deadline > expires
                             THEN [rs[o] EXCEPT !.deadline = expires] ELSE rs[o]]
  BY DEF Reopen
<1> HIDE DEF rs
<1>3. \A o \in DOMAIN rs : rs[o] \in Rows
  BY <1>1
<1>4. ASSUME NEW o \in DOMAIN rs, rs[o].kind = "quorum"
      PROVE  Reopen(v)[o].deadline = NoTime
  <2>1. rs[o].deadline = NoTime
    BY <1>1, <1>4 DEF QuorumsHaveNoTimer
  <2>2. ~(rs[o].deadline > expires)
    BY <2>1 DEF NoTime, TypeOK
  <2>3. Reopen(v)[o] = rs[o]
    BY <1>2, <2>2, Zenon
  <2> QED
    BY <2>1, <2>3
<1>5. DOMAIN Reopen(v) = DOMAIN rs /\ \A o \in DOMAIN rs : Reopen(v)[o].kind = rs[o].kind
  BY <1>2, <1>3 DEF Rows
<1>6. QED
  BY <1>4, <1>5 DEF QuorumsHaveNoTimer

(* A revision recomputes the scheduler's column whenever it changes a      *)
(* timer.                                                                  *)
LEMMA ReviseKeepsScheduler ==
  ASSUME WellTyped, SchedulerInv, NEW mode, Revise(mode)
  PROVE  SchedulerInv'
<1>0. /\ effective \in Nat /\ effective + 1 \in 1 .. Len(Policies) /\ UNCHANGED <<now, pc, mem>>
      /\ now \in Nat /\ expires \in Int
  <2>1. now \in Nat /\ expires \in Int /\ effective \in 1 .. Len(Policies)
    BY DEF WellTyped, TypeOK
  <2>2. effective < Len(Policies) /\ UNCHANGED <<now, pc, mem>> /\ Len(Policies) \in Nat
    BY PoliciesAssumption DEF Revise
  <2> QED
    BY <2>1, <2>2
<1>1. CASE UNCHANGED <<tables, resolutions>>
  BY <1>0, <1>1 DEF SchedulerInv, SchedulerExact, tables, row
<1>2. CASE state = "pending" /\ ~IsExpired(now, expires) /\ Revaluate(effective + 1)
  <2> DEFINE v == effective + 1
             p == Policies[v]
             same == SameShape(p.gates)
             moved == ~same \/ \E o \in DOMAIN rows : TimerMoved(o, p.gates[o])
  <2>1. CASE p.deny
    <3>1. ResolveDecision("denied") /\ rows' = rows
      BY <1>2, <2>1 DEF Revaluate
    <3> QED
      BY <1>0, <1>2, <3>1 DEF SchedulerInv, SchedulerExact, ResolveDecision
  <2>2. CASE ~p.deny
    <3>1. /\ rows' = IF same THEN Rebind(v) ELSE Reopen(v)
          /\ nextDeadline' = CASE state' # "pending" -> NoTime
                               [] state' = "pending" /\ moved -> Earliest(expires, rows')
                               [] OTHER -> nextDeadline
          /\ expires' = expires
      BY <1>2, <2>2 DEF Revaluate
    <3>2. expires >= 0
      BY <1>0, <1>2 DEF IsExpired
    <3>3. QuorumsHaveNoTimer(rows')
      BY <1>0, <3>1, <3>2, RebindKeepsTimers, ReopenHasNoQuorumTimer DEF WellTyped, SchedulerInv
    <3>4. state' = "pending" /\ ~moved => Earliest(expires, rows') = nextDeadline
      <4> SUFFICES ASSUME ~moved PROVE Earliest(expires, rows') = nextDeadline
        OBVIOUS
      <4>1. rows' = Rebind(v) /\ PendingTimers(rows') = PendingTimers(rows)
        BY <1>0, <3>1, RebindKeepsTimers DEF WellTyped, SchedulerInv
      <4> QED
        BY <1>2, <4>1 DEF Earliest, SchedulerInv, SchedulerExact
    <3> HIDE DEF moved
    <3>5. SchedulerExact'
      BY <3>1, <3>4 DEF SchedulerExact
    <3> QED
      BY <1>0, <3>3, <3>5 DEF SchedulerInv
  <2> QED
    BY <2>1, <2>2
<1>3. QED
  BY <1>1, <1>2 DEF Revise

(* Every step keeps the scheduler's column exact.                          *)
LEMMA NextKeepsScheduler == WellTyped /\ SchedulerInv /\ [Next]_vars => SchedulerInv'
<1> SUFFICES ASSUME WellTyped, SchedulerInv, [Next]_vars PROVE SchedulerInv'
  OBVIOUS
<1>1. ASSUME NEW mode, Revise(mode) PROVE SchedulerInv'
  BY <1>1, ReviseKeepsScheduler
<1>2. CASE CancelDecision
  <2>1. /\ state' = "cancelled" /\ nextDeadline' = NoTime /\ UNCHANGED <<pc, mem>>
        /\ rows' = [o \in DOMAIN rows |-> IF rows[o].state = "pending"
                                           THEN [rows[o] EXCEPT !.state = "cancelled"]
                                           ELSE rows[o]]
    BY <1>2 DEF CancelDecision, ResolveDecision
  <2>2. \A o \in DOMAIN rows : rows[o] \in Rows
    BY DEF WellTyped, TypeOK
  <2>3. QuorumsHaveNoTimer(rows')
    BY <2>1, <2>2 DEF QuorumsHaveNoTimer, SchedulerInv, Rows
  <2> QED
    BY <2>1, <2>3 DEF SchedulerInv, SchedulerExact
<1>3. ASSUME NEW w \in Workers, Crash(w) PROVE SchedulerInv'
  BY <1>3, QuietKeepsScheduler DEF Crash, Return
<1>4. CASE Tick
  BY <1>4 DEF Tick, SchedulerInv, SchedulerExact, tables, row
<1>5. CASE UNCHANGED vars
  BY <1>5 DEF vars, SchedulerInv, SchedulerExact, tables, row
<1>6. QED
  BY <1>1, <1>2, <1>3, <1>4, <1>5, WorkerKeepsScheduler DEF Next, Workers

(* While a decision is open, next_deadline is the earliest of its expiry   *)
(* and its pending timers, whoever wrote last; afterwards it is cleared.   *)
THEOREM DecisionSchedulerExact == Spec => []SchedulerExact
<1>1. Init => SchedulerInv
  BY DEF Init, SchedulerInv, SchedulerExact, QuorumsHaveNoTimer
<1>2. SchedulerInv => SchedulerExact
  BY DEF SchedulerInv
<1>3. QED
  BY <1>1, <1>2, DecisionWellTyped, NextKeepsScheduler, PTL DEF Spec

-----------------------------------------------------------------------------
(* Late requests.                                                          *)

(* advance looks at the deadline once, when it reads the decision; what a  *)
(* goroutine carries past that read says that it entered in time.          *)
EnteredInTime(l, m) ==
    (l \in {"progress", "settle", "write"} \/ (l = "resolve" /\ m.out # "expired"))
        => state # "absent" /\ m.at < expires
EnteredInv == \A w \in Workers : EnteredInTime(pc[w], mem[w])

(* A decision that exists stays and keeps its deadline, so a step of one   *)
(* goroutine leaves what the others carry true.                            *)
LEMMA GotoKeepsEntered ==
  ASSUME WellTyped, EnteredInv, NEW w \in Workers, NEW l, NEW m, Goto(w, l, m),
         state # "absent" => state' # "absent" /\ expires' = expires,
         (l \in {"progress", "settle", "write"} \/ (l = "resolve" /\ m.out # "expired"))
             => state' # "absent" /\ m.at < expires'
  PROVE  EnteredInv'
<1>1. pc' = [pc EXCEPT ![w] = l] /\ mem' = [mem EXCEPT ![w] = m] /\ DOMAIN pc = Workers /\ DOMAIN mem = Workers
  BY DEF Goto, WellTyped, TypeOK
<1>2. ASSUME NEW u \in Workers PROVE EnteredInTime(pc[u], mem[u])'
  <2>1. CASE u = w
    <3>1. pc'[u] = l /\ mem'[u] = m
      BY <1>1, <2>1
    <3> QED
      BY <3>1 DEF EnteredInTime
  <2>2. CASE u # w
    <3>1. pc'[u] = pc[u] /\ mem'[u] = mem[u]
      BY <1>1, <2>2
    <3> QED
      BY <3>1 DEF EnteredInTime, EnteredInv
  <2> QED
    BY <2>1, <2>2
<1> QED
  BY <1>2 DEF EnteredInv

(* Every step of a goroutine preserves it.                                 *)
LEMMA WorkerKeepsEntered ==
  ASSUME WellTyped, EnteredInv, NEW w \in Workers, Request(w) \/ Sweep(w)
  PROVE  EnteredInv'
<1>0. mem[w] \in Memories /\ Carries(pc[w], mem[w]) /\ EnteredInTime(pc[w], mem[w])
  BY DEF WellTyped, TypeOK, EnteredInv
<1>1. CASE DecideEvaluate(w) \/ DecideIssue(w) \/ (\E p \in People, o \in DOMAIN rows : SubmitRead(w, p, o))
           \/ SubmitCheck(w) \/ CountApprovals(w)
  <2>1. ASSUME NEW l, NEW m, Goto(w, l, m), l \notin {"progress", "settle", "write", "resolve"},
               UNCHANGED tables
        PROVE  EnteredInv'
    BY <2>1, GotoKeepsEntered DEF tables, row
  <2>2. CASE DecideEvaluate(w)
    BY <2>1, <2>2 DEF DecideEvaluate
  <2>3. CASE DecideIssue(w)
    BY <2>1, <2>3 DEF DecideIssue
  <2>4. CASE SubmitCheck(w)
    BY <2>1, <2>4 DEF SubmitCheck, Return
  <2>5. CASE CountApprovals(w)
    BY <2>1, <2>5 DEF CountApprovals
  <2>6. ASSUME NEW p, NEW o, SubmitRead(w, p, o) PROVE EnteredInv'
    BY <2>1, <2>6 DEF SubmitRead
  <2> QED
    BY <1>1, <2>2, <2>3, <2>4, <2>5, <2>6
<1>2. CASE DecideCreate(w)
  <2>1. /\ state # "absent" => state' # "absent" /\ expires' = expires
        /\ Goto(w, "advance", [Blank EXCEPT !.at = mem[w].at])
    BY <1>2 DEF DecideCreate, tables, row
  <2> QED
    BY <2>1, GotoKeepsEntered
<1>3. CASE RecordApproval(w) \/ SubmitRecord(w)
  <2>1. /\ state' = state /\ expires' = expires
        /\ \E l, m : Goto(w, l, m) /\ l \notin {"progress", "settle", "write", "resolve"}
    BY <1>3 DEF RecordApproval, SubmitRecord, SetChallengeState, Return, row
  <2> QED
    BY <2>1, GotoKeepsEntered
<1>4. CASE AdvanceRead(w)
  <2>1. CASE state = "pending" /\ ~IsExpired(mem[w].at, expires)
    <3>1. Goto(w, "progress", mem[w]) /\ UNCHANGED tables
      BY <1>4, <2>1 DEF AdvanceRead
    <3>4. mem[w].at \in Nat /\ expires \in Int
      BY <1>0 DEF Memories, WellTyped, TypeOK
    <3>2. mem[w].at < expires
      BY <2>1, <3>4 DEF IsExpired
    <3>3. state' # "absent" /\ expires' = expires /\ mem[w].at < expires'
      BY <2>1, <3>1, <3>2 DEF tables, row
    <3> QED
      BY <3>1, <3>3, GotoKeepsEntered, Zenon
  <2>2. CASE ~(state = "pending" /\ ~IsExpired(mem[w].at, expires))
    BY <1>4, <2>2, GotoKeepsEntered, Zenon DEF AdvanceRead, Return, tables, row
  <2> QED
    BY <2>1, <2>2
<1>5. CASE AdvanceProgress(w)
  <2> DEFINE m == [mem[w] EXCEPT !.rows = rows, !.ord = 1]
  <2>1. Goto(w, "settle", m) /\ UNCHANGED tables /\ pc[w] = "progress"
    BY <1>5 DEF AdvanceProgress
  <2>2. m.at = mem[w].at
    BY <1>0 DEF Memories
  <2> HIDE DEF m
  <2> QED
    BY <1>0, <2>1, <2>2, GotoKeepsEntered DEF tables, row, EnteredInTime
<1>6. CASE AdvanceSettle(w) \/ AdvanceWrite(w) \/ AdvanceDecide(w)
  <2>1. state # "absent" /\ mem[w].at < expires
    BY <1>0, <1>6 DEF AdvanceSettle, AdvanceWrite, AdvanceDecide, EnteredInTime
  <2>2. state' = state /\ expires' = expires
    BY <1>6 DEF AdvanceSettle, AdvanceWrite, AdvanceDecide, SetChallengeState, tables, row
  <2>3. \A s : Tally(mem[w], s).at = mem[w].at /\ [mem[w] EXCEPT !.out = s].at = mem[w].at
    BY <1>0 DEF Memories, Tally
  <2>4. ASSUME NEW l, NEW m, Goto(w, l, m), l = "idle" \/ m.at = mem[w].at PROVE EnteredInv'
    BY <2>1, <2>2, <2>4, GotoKeepsEntered
  <2>5. CASE AdvanceSettle(w)
    <3> DEFINE r == mem[w].rows[mem[w].ord]
               s == IF r.state = "pending" THEN Settled(mem[w].ord, r, mem[w].at) ELSE r.state
    <3>1. Goto(w, "write", [mem[w] EXCEPT !.out = s]) \/ Goto(w, "settle", Tally(mem[w], s))
      BY <2>5 DEF AdvanceSettle
    <3> HIDE DEF s
    <3> DEFINE m1 == [mem[w] EXCEPT !.out = s]
               m2 == Tally(mem[w], s)
    <3>2. m1.at = mem[w].at /\ m2.at = mem[w].at
      BY <2>3
    <3>3. Goto(w, "write", m1) \/ Goto(w, "settle", m2)
      BY <3>1
    <3> HIDE DEF m1, m2
    <3> QED
      BY <2>4, <3>2, <3>3
  <2>6. CASE AdvanceWrite(w)
    BY <2>3, <2>4, <2>6 DEF AdvanceWrite, Return
  <2>7. CASE AdvanceDecide(w)
    <3>1. \/ Goto(w, "resolve", [mem[w] EXCEPT !.out = "denied"])
          \/ Goto(w, "resolve", [mem[w] EXCEPT !.out = "allowed"])
          \/ Goto(w, "idle", Blank)
      BY <2>7 DEF AdvanceDecide, Return
    <3> DEFINE m1 == [mem[w] EXCEPT !.out = "denied"]
               m2 == [mem[w] EXCEPT !.out = "allowed"]
    <3>2. m1.at = mem[w].at /\ m2.at = mem[w].at
      BY <2>3
    <3>3. Goto(w, "resolve", m1) \/ Goto(w, "resolve", m2) \/ Goto(w, "idle", Blank)
      BY <3>1
    <3> HIDE DEF m1, m2
    <3> QED
      BY <2>4, <3>2, <3>3
  <2> QED
    BY <1>6, <2>5, <2>6, <2>7
<1>7. CASE Resolve(w)
  <2>1. mem[w].out \in {"allowed", "denied", "expired"} /\ ResolveDecision(mem[w].out) /\ Return(w)
    BY <1>0, <1>7 DEF Resolve, Carries
  <2>2. state # "absent" => state' # "absent" /\ expires' = expires
    BY <2>1 DEF ResolveDecision, row
  <2> QED
    BY <2>1, <2>2, GotoKeepsEntered DEF Return
<1>8. CASE SweepClaim(w)
  <2> DEFINE m == [Blank EXCEPT !.at = now, !.out = "expired"]
  <2>1. m.out = "expired"
    BY DEF Blank
  <2>2. /\ UNCHANGED tables
        /\ Goto(w, "resolve", m) \/ Goto(w, "advance", [Blank EXCEPT !.at = now])
    BY <1>8 DEF SweepClaim
  <2> HIDE DEF m
  <2> QED
    BY <2>1, <2>2, GotoKeepsEntered DEF tables, row
<1> QED
  BY <1>1, <1>2, <1>3, <1>4, <1>5, <1>6, <1>7, <1>8 DEF Request, Sweep, Step

(* A revision and a withdrawal keep the row and its deadline.              *)
LEMMA ReviseKeepsEntered ==
  ASSUME WellTyped, EnteredInv, NEW mode, Revise(mode) \/ CancelDecision
  PROVE  EnteredInv'
<1>1. pc' = pc /\ mem' = mem /\ expires' = expires
  BY DEF Revise, CancelDecision, Revaluate, ResolveDecision, tables, row
<1>2. state # "absent" => state' # "absent"
  BY DEF Revise, CancelDecision, Revaluate, ResolveDecision, AfterTally, tables, row
<1> QED
  BY <1>1, <1>2 DEF EnteredInv, EnteredInTime

(* Every step preserves it.                                                *)
LEMMA NextKeepsEntered == WellTyped /\ EnteredInv /\ [Next]_vars => EnteredInv'
<1> SUFFICES ASSUME WellTyped, EnteredInv, [Next]_vars PROVE EnteredInv'
  OBVIOUS
<1>1. ASSUME NEW w \in Workers, Crash(w) PROVE EnteredInv'
  BY <1>1, GotoKeepsEntered DEF Crash, Return, tables, row
<1>2. CASE Tick
  BY <1>2 DEF Tick, EnteredInv, EnteredInTime, tables, row
<1>3. CASE UNCHANGED vars
  BY <1>3 DEF vars, EnteredInv, EnteredInTime, tables, row
<1> QED
  BY <1>1, <1>2, <1>3, WorkerKeepsEntered, ReviseKeepsEntered DEF Next, Workers

(* After the deadline, with no request that entered before it still        *)
(* running, a step leaves a pending decision pending, expires it or        *)
(* cancels it.                                                             *)
LEMMA LateStep ==
  ASSUME WellTyped, EnteredInv, [Next]_vars, state = "pending", IsExpired(now, expires),
         \A w \in Workers : pc[w] = "idle" \/ IsExpired(mem[w].at, expires)
  PROVE  state' \in {"pending", "expired", "cancelled"}
<1>1. ASSUME NEW w \in Workers, Resolve(w) PROVE state' \in {"pending", "expired", "cancelled"}
  <2>1. /\ pc[w] = "resolve" /\ ResolveDecision(mem[w].out)
        /\ EnteredInTime(pc[w], mem[w]) /\ mem[w] \in Memories /\ expires \in Int
    BY <1>1 DEF Resolve, EnteredInv, WellTyped, TypeOK
  <2>2. mem[w].at >= expires /\ mem[w].at \in Nat
    BY <2>1 DEF IsExpired, Memories
  <2>4. mem[w].out # "expired" => mem[w].at < expires
    BY <2>1, Zenon DEF EnteredInTime
  <2>3. mem[w].out = "expired"
    BY <2>1, <2>2, <2>4
  <2> QED
    BY <2>1, <2>3 DEF ResolveDecision, row
<1>2. ASSUME NEW w \in Workers, (Request(w) \/ Sweep(w)) /\ ~Resolve(w) PROVE state' = state
  <2>1. CASE RecordApproval(w) \/ SubmitRecord(w) \/ AdvanceWrite(w)
    BY <2>1 DEF RecordApproval, SubmitRecord, AdvanceWrite, SetChallengeState, row
  <2>2. CASE DecideCreate(w)
    BY <2>2 DEF DecideCreate, tables, row
  <2>3. CASE UNCHANGED tables
    BY <2>3 DEF tables, row
  <2>4. CASE AdvanceSettle(w)
    BY <2>3, <2>4 DEF AdvanceSettle
  <2>5. CASE AdvanceDecide(w)
    BY <2>3, <2>5 DEF AdvanceDecide
  <2>6. CASE SubmitCheck(w)
    BY <2>3, <2>6 DEF SubmitCheck
  <2> QED
    BY <1>2, <2>1, <2>2, <2>3, <2>4, <2>5, <2>6
    DEF Request, Sweep, Step, DecideEvaluate, DecideIssue, SubmitRead, CountApprovals,
        AdvanceRead, AdvanceProgress, SweepClaim
<1>3. ASSUME NEW mode, Revise(mode) PROVE state' = state
  BY <1>3 DEF Revise, tables, row
<1>4. CASE CancelDecision
  BY <1>4 DEF CancelDecision, ResolveDecision
<1>5. CASE Tick \/ (\E w \in Workers : Crash(w)) \/ UNCHANGED vars
  BY <1>5 DEF Tick, Crash, vars, tables, row
<1> QED
  BY <1>1, <1>2, <1>3, <1>4, <1>5 DEF Next, Workers

(* The sweeper may be late: once the deadline has passed and the requests  *)
(* that entered before it are over, nobody can allow or deny any more.     *)
THEOREM DecisionLateRequestsOnlyExpire == Spec => LateRequestsOnlyExpire
<1>1. Init => EnteredInv
  BY DEF Init, EnteredInv, EnteredInTime
<1>2. WellTyped /\ EnteredInv /\ [Next]_vars =>
        [(state = "pending" /\ IsExpired(now, expires)
            /\ \A w \in Workers : pc[w] = "idle" \/ IsExpired(mem[w].at, expires))
           => state' \in {"pending", "expired", "cancelled"}]_vars
  BY LateStep
<1> QED
  BY <1>1, <1>2, DecisionWellTyped, NextKeepsEntered, PTL DEF Spec, LateRequestsOnlyExpire
=============================================================================
