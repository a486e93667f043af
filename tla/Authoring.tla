------------------------------ MODULE Authoring ------------------------------
(* Two ways to author one policy set: the console proposes deltas, a       *)
(* directory of files is planned against the set in force, and both become *)
(* the one pending revision that is applied once approved.                 *)
(* internal/policy/revision (governance, apply, before, serialize, mode,   *)
(* export) over internal/store/policies.go. Each read outside a            *)
(* transaction is a step of its own. Who approves is the Governance        *)
(* module's subject: here an open revision may be approved or refused.     *)
EXTENDS Revision

CONSTANTS Configs,          \* [name, mode, burst, max, authors]: a deployment and its bounds
          Start(_),         \* the set it starts with, and the path that owns each policy
          Ids,              \* the policies' names
          Edits(_, _),      \* the deltas the console's bodies decode to, given the configuration and the set
          Directories(_, _),\* the directories applied, given the configuration and the export
          MaxDocuments,
          Requests, Facts, Evidence,  \* what a set in force is asked, and what a caller can show
          Holders(_), AllowedACR      \* who a claim or a source names; the operator's allowlist

VARIABLES cfg,
          schema,     \* the newest row of policy_schemas
          live,       \* per policy: its row that nothing supersedes, a tombstone included
          pending,    \* the open row of policy_revisions, or None
          opened,     \* per origin: revisions opened within the rate's window
          author,     \* per author: where its call is
          applied     \* revisions applied
vars == <<cfg, schema, live, pending, opened, author, applied>>

Origins == {"form", "file"}

---------------------------------------------------------------------------
(* The store. *)
Row(origin, doc, version, schemaVersion, deleted) ==
    [origin |-> origin, document |-> doc, version |-> version,
     schemaVersion |-> schemaVersion, deleted |-> deleted]

EffectivePolicies(rows) ==
    LET there == {id \in Ids : ~IsNil(rows[id]) /\ ~rows[id].deleted}
        ids == SetToSortSeq(there, LAMBDA a, b : Rank(a) < Rank(b))
    IN [i \in DOMAIN ids |-> rows[ids[i]]]

tenantSetOf(s, rows) ==
    LET records == EffectivePolicies(rows)
    IN {[schema |-> decoded, policies |-> policies] :
          decoded \in DecodeSchema(s.document),
          policies \in Each([i \in DOMAIN records |-> DecodePolicy(records[i].document)])}
tenantSet == tenantSetOf(schema, live)

CurrentState(set, rows) ==
    [schema |-> set.schema,
     policies |-> [i \in DOMAIN set.policies |->
                     [policy |-> set.policies[i], id |-> set.policies[i].id,
                      origin |-> rows[set.policies[i].id].origin]]]
currentState(set) == CurrentState(set, live)

(* Which set in force a read saw.                                          *)
Base == <<schema.version, [id \in Ids |-> IF IsNil(live[id]) THEN 0 ELSE live[id].version]>>

Exported(s, rows) ==
    LET records == EffectivePolicies(rows)
    IN <<s.document>> \o [i \in DOMAIN records |-> records[i].document]
Export == Exported(schema, live)

---------------------------------------------------------------------------
(* The gates a proposal passes before anything is judged.                  *)
Allows(mode, origin) == CASE mode = "file" -> origin # "form"
                          [] mode = "console" -> origin # "file"
                          [] OTHER -> TRUE
checkAuthoring(origin) == Allows(cfg.mode, origin)

supersedes(open, incoming) == open = incoming /\ incoming = "file"
gate(origin) == ~IsNil(pending) => supersedes(pending.origin, origin)
checkRate(origin) == cfg.burst <= 0 \/ opened[origin] < cfg.burst

Idle == [at |-> "idle"]
Authors == {x \in DOMAIN author : author[x] = Idle}

(* Mutant: the client's word for what a change replaces is taken.          *)
reconstructedAsSent(d, set) == d

(* What the client says a change replaces is not believed: it is read back. *)
reconstructed(d, set) ==
    LET held == {p.id : p \in ToSet(set.policies)}
        was(c) == IF c.kind # "add" /\ c.id \in held
                  THEN CHOOSE p \in ToSet(set.policies) : p.id = c.id ELSE c.before
    IN [changes |-> [i \in DOMAIN d.changes |-> [d.changes[i] EXCEPT !.before = was(d.changes[i])]],
        schemaBefore |-> IF IsNil(d.schemaAfter) THEN None ELSE set.schema,
        schemaAfter |-> d.schemaAfter]

(* Mutant: only the policies the delta leaves are validated.               *)
validateOutcomeChanged(d, set) ==
    \E result \in Result(d, set) :
       ValidateWithLimits([result EXCEPT !.policies = SelectSeq(@, LAMBDA p : \E c \in ToSet(d.changes) : c.id = p.id)])

validateOutcome(d, set) ==
    \E result \in Result(d, set) :
       \/ result.policies = <<>> /\ result.schema.actions = <<>>
       \/ ValidateWithLimits(result)

---------------------------------------------------------------------------
(* Propose, from its checks to the delta its assessment is made on.        *)
ProposeDelta(x, origin, d, set) ==
    /\ checkAuthoring(origin) /\ gate(origin) /\ checkRate(origin)
    /\ author' = [author EXCEPT ![x] = [at |-> "assess", origin |-> origin, base |-> Base,
                                        delta |-> reconstructed(d, set)]]

ProposeForm(x) ==
    /\ x \in Authors /\ applied < cfg.max
    /\ \E set \in tenantSet : \E d \in Edits(cfg, set) : ProposeDelta(x, "form", normalizeDelta(d), set)
    /\ UNCHANGED <<cfg, schema, live, pending, opened, applied>>

(* ApplyFiles up to its plan; a plan that changes nothing proposes nothing. *)
ApplyFiles(x) ==
    /\ x \in Authors /\ applied < cfg.max
    /\ checkAuthoring("file") /\ gate("file")
    /\ \E set \in tenantSet : \E files \in Directories(cfg, Export) :
          /\ Len(files) <= MaxDocuments
          /\ \E desired \in parse(files) :
             \E plan \in PlanApply(currentState(set), desired.set, desired.adopt) :
                /\ plan.changes # <<>> \/ SchemaChanged(plan)
                /\ author' = [author EXCEPT ![x] = [at |-> "propose", delta |-> plan]]
    /\ UNCHANGED <<cfg, schema, live, pending, opened, applied>>

ProposeFiles(x) ==
    /\ author[x].at = "propose"
    /\ \E set \in tenantSet : ProposeDelta(x, "file", author[x].delta, set)
    /\ UNCHANGED <<cfg, schema, live, pending, opened, applied>>

(* A check that refuses ends the call.                                     *)
ProposeRefused(x) ==
    /\ author[x].at = "propose" /\ ~(gate("file") /\ checkRate("file"))
    /\ author' = [author EXCEPT ![x] = Idle]
    /\ UNCHANGED <<cfg, schema, live, pending, opened, applied>>

(* assess reads the set again to validate the outcome.                     *)
Assess(x) ==
    /\ author[x].at = "assess"
    /\ \E set \in tenantSet : \E d \in {author[x].delta} :
          author' = [author EXCEPT ![x] =
             IF DeltaValid(d) /\ CheckSatisfiable(d) /\ validateOutcome(d, set)
             THEN [at |-> "insert", origin |-> @.origin, base |-> @.base,
                   delta |-> MarshalJSON(d), weakening |-> Weakens(d)]
             ELSE Idle]
    /\ UNCHANGED <<cfg, schema, live, pending, opened, applied>>

(* One transaction: supersede what this origin may replace, then open.     *)
InsertProposal(x) ==
    /\ author[x].at = "insert"
    /\ author' = [author EXCEPT ![x] = Idle]
    /\ IF gate(author[x].origin)
       THEN /\ pending' = [proposer |-> x, origin |-> author[x].origin, base |-> author[x].base,
                           delta |-> author[x].delta, weakening |-> author[x].weakening]
            /\ opened' = [opened EXCEPT ![author[x].origin] = IF cfg.burst <= 0 THEN 0 ELSE @ + 1]
       ELSE UNCHANGED <<pending, opened>>
    /\ UNCHANGED <<cfg, schema, live, applied>>

RateWindowPasses(o) ==
    /\ opened[o] > 0
    /\ opened' = [opened EXCEPT ![o] = @ - 1]
    /\ UNCHANGED <<cfg, schema, live, pending, author, applied>>

---------------------------------------------------------------------------
(* Apply: an approved revision is written over whatever is in force.       *)
writeSchema(p, d) ==
    IF ~SchemaChanged(d) \/ IsNil(d.schemaAfter) THEN schema
    ELSE [version |-> schema.version + 1, document |-> EncodeSchema(d.schemaAfter), origin |-> p.origin]

(* A deletion's tombstone keeps the row's other columns. A write keeps the *)
(* origin of the row it follows, a tombstone included, unless it is a      *)
(* handover.                                                               *)
writeChange(p, c, s, row) ==
    LET origin == IF c.kind = "take_ownership" THEN c.to
                  ELSE IF IsNil(row) THEN p.origin ELSE row.origin
    IN IF c.kind = "delete" THEN [row EXCEPT !.version = @ + 1, !.deleted = TRUE]
       ELSE Row(origin, EncodePolicy(c.after), IF IsNil(row) THEN 1 ELSE row.version + 1, s.version, FALSE)

Apply ==
    /\ ~IsNil(pending)
    /\ \E set \in tenantSet : \E d \in UnmarshalJSON(pending.delta) :
          LET written == {c.id : c \in ToSet(d.changes)}
              change(id) == d.changes[CHOOSE i \in DOMAIN d.changes : d.changes[i].id = id]
          IN /\ ~Failed(Result(d, set))
             /\ schema' = writeSchema(pending, d)
             /\ live' = [id \in Ids |-> IF id \in written
                                        THEN writeChange(pending, change(id), schema', live[id]) ELSE live[id]]
    /\ pending' = None
    /\ applied' = applied + 1
    /\ UNCHANGED <<cfg, opened, author>>

Reject ==
    /\ ~IsNil(pending)
    /\ pending' = None
    /\ UNCHANGED <<cfg, schema, live, opened, author, applied>>

Withdraw(x) ==
    /\ ~IsNil(pending) /\ pending.proposer = x /\ x \in Authors
    /\ pending' = None
    /\ UNCHANGED <<cfg, schema, live, opened, author, applied>>

---------------------------------------------------------------------------
Init ==
    /\ cfg \in Configs
    /\ schema = [version |-> 1, document |-> EncodeSchema(Start(cfg).schema), origin |-> "form"]
    /\ live = [id \in Ids |->
                 LET there == {p \in ToSet(Start(cfg).policies) : p.id = id}
                 IN IF there = {} THEN None
                    ELSE Row(Start(cfg).owner[id], EncodePolicy(CHOOSE p \in there : TRUE), 1, 1, FALSE)]
    /\ pending = None
    /\ opened = [o \in Origins |-> 0]
    /\ author = [x \in cfg.authors |-> Idle]
    /\ applied = 0

Next ==
    \/ \E x \in DOMAIN author : ProposeForm(x) \/ ApplyFiles(x) \/ ProposeFiles(x) \/ ProposeRefused(x)
                                   \/ Assess(x) \/ InsertProposal(x) \/ Withdraw(x)
    \/ \E o \in Origins : RateWindowPasses(o)
    \/ Apply
    \/ Reject

Spec == Init /\ [][Next]_vars

---------------------------------------------------------------------------
(* The set in force was the one the open revision was assessed on.         *)
Current == pending.base = Base
Applying == pending' = None /\ applied' # applied

(* What an approver's evidence has to show, challenge by challenge.        *)
Members(a) == IF approverMode(a) = "members" THEN ToSet(a.members) ELSE Holders(a)
Met(c, e) ==
    CASE c.ch = "quorum" -> Cardinality(e.approvals \intersect Members(c.approvers)) >= c.threshold
      [] c.ch = "mfa" ->
            LET required == IF c.acr = <<>> THEN AllowedACR ELSE ToSet(c.acr)
            IN required \subseteq AllowedACR /\ e.acr \in required
      [] c.ch = "delay" ->
            e.waited >= c.duration /\ (IsNil(c.cancel) \/ e.objectors \intersect Members(c.cancel) = {})
      [] c.ch = "external" -> c.target \in e.targets
LetThrough(r, e) ==
    \/ r.verdict = "allow"
    \/ r.verdict = "challenge" /\ \A i \in DOMAIN r.challenges : Met(r.challenges[i], e)

(* Classify (weakening.go:151): a revision reported as no weakening of the *)
(* set it replaces keeps every gate. A request that had challenges to meet *)
(* is not let through afterwards on evidence that would not have met them. *)
UnflaggedKeepsGates ==
    [][Applying /\ ~pending.weakening /\ Current =>
         \A old \in tenantSet, new \in tenantSetOf(schema', live'), q \in Requests :
         \A before \in {DecideEvaluate(old, q, Facts)}, after \in {DecideEvaluate(new, q, Facts)} :
            before.verdict = "challenge" => \A e \in Evidence : LetThrough(after, e) => LetThrough(before, e)]_vars

(* assess and validateOutcome (governance.go:580, 635): a revision that is *)
(* applied to the set it was assessed on leaves a set that validates, and  *)
(* evaluating it cannot go wrong: a request that carries every attribute   *)
(* the schema declares is answered without an error.                       *)
EffectiveSetEvaluates ==
    [][Applying /\ Current =>
         \E new \in tenantSetOf(schema', live') :
            /\ ValidateWithLimits(new)
            /\ \A q \in Requests : ~Failed(bind(new.schema, q)) => CheckEvaluate(new, q, Facts) # "error"]_vars

(* MarshalJSON and Encode (delta.go:426, codec.go:178): the documents that *)
(* carry a revision lose nothing of it. What is opened reads back as the   *)
(* delta that was assessed, the set in force afterwards is that delta's    *)
(* result, and its export, applied, plans nothing: "export, then apply,    *)
(* and nothing changes".                                                   *)
AppliedAsAssessed ==
    [][/\ \A x \in DOMAIN author :
            author[x].at = "assess" /\ author'[x].at = "insert" =>
               UnmarshalJSON(author'[x].delta) = {normalizeDelta(author[x].delta)}
       /\ Applying =>
            \A old \in tenantSet, d \in UnmarshalJSON(pending.delta) :
            \E set \in tenantSetOf(schema', live') :
               /\ {set} = {Normalize(r) : r \in Result(d, old)}
               /\ ValidateWithLimits(set) =>
                    \E desired \in parse(Exported(schema', live')) :
                       PlanApply(CurrentState(set, live'), desired.set, desired.adopt)
                          = {[changes |-> <<>>, schemaBefore |-> set.schema, schemaAfter |-> set.schema]}]_vars

(* PlanApply and writeChange (apply.go:372, governance.go:1198): a file    *)
(* revision changes or removes a policy the console owns only by taking it *)
(* over, and a policy changes hands in no other way.                       *)
HandedOverByAdoption ==
    [][\A id \in Ids :
         Applying /\ ~IsNil(live[id]) /\ ~live[id].deleted /\ live'[id] # live[id] =>
            LET kinds == {c.kind : c \in {c \in ToSet(pending.delta.changes) : c.id = id}}
            IN /\ pending.origin = "file" /\ live[id].origin = "form" => kinds = {"take_ownership"}
               /\ live'[id].origin # live[id].origin => kinds = {"take_ownership"}]_vars

=============================================================================
