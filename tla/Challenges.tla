----------------------------- MODULE Challenges -----------------------------
(***************************************************************************)
(* The two challenges that are answered from outside: delegated MFA, where *)
(* the subject authenticates at the identity provider, and external, where *)
(* a configured target is notified and calls back. The module carries a    *)
(* decision from Decide through both handlers, the redirect and webhook    *)
(* endpoints, Submit and advance to its end, with the budgets that shed an *)
(* issue, revisions that re-bind what is open, and the key guard that      *)
(* every credential passes. Decision.tla has the same lifecycle for        *)
(* quorums and delays, statement by statement.                             *)
(*                                                                         *)
(* A deployment is chosen in Init; each asks its own question with its own *)
(* bounds. Every decision is about the one person Subject. One process     *)
(* serves, as several goroutines: its limiters, its table of recent issues *)
(* and its key guard are memory and die with it.                           *)
(***************************************************************************)
EXTENDS Identity, Sequences

CONSTANTS
    Subject,                \* the person every decision is about
    TTL,                    \* how long a decision is held open
    Deployments, Settings,  \* and what each is configured with
    Logins(_),              \* what a person may present after signing in
    Holders,                \* who keep presenting a token of their own
    MaxTime(_), MaxRequests(_), MaxCalls(_), MaxLogins(_), MaxVerdicts(_),
    MaxFaults(_), LastFault(_)

VARIABLES
    cfg, now, effective,    \* the deployment, the clock, the policy in force
    decisions,              \* id -> decision with its challenge rows
    minted,                 \* ids and correlators handed out so far
    prompts, notices,       \* what reached the subject, and the targets
    tokens, redirects,      \* sign-ins so far, and codes on their way back
    callbacks, acked,       \* verdicts sent by targets, and those answered 202
    proc,                   \* the process's memory: budgets and recent issues
    guard, published, seen, \* the key guard, the issuer's keys, the last answers
    pc, mem,                \* per goroutine
    overtaken,              \* decisions a revision met with a goroutine inside
    spent                   \* the bounds used up so far

clock == <<cfg, now, effective>>
world == <<prompts, notices, tokens, redirects, callbacks>>
keys  == <<guard, published, seen>>
vars  == <<clock, decisions, minted, world, acked, proc, keys, pc, mem, overtaken, spent>>

set == Settings[cfg]
Values(s) == {s[i] : i \in DOMAIN s}

-----------------------------------------------------------------------------
(* Wiring: NewDelegated refuses a ceiling one caller's burst would empty.  *)
Wired(s) ==
    /\ s.allowedACR # <<>> /\ s.initiators # <<>>
    /\ Unlimited(s.callerRate) \/ Unlimited(s.ceiling) \/ s.ceiling.burst > s.callerRate.burst

NewProc == [recent |-> [h \in {} |-> 0], callers |-> [k \in {} |-> 0],
            subjects |-> [k \in {} |-> 0], notify |-> [k \in {} |-> 0]]

(* ContextHash: the decision, who asked, and all a policy judged it on.    *)
ContextHash(d) == [dec |-> d.id, caller |-> d.caller, material |-> d.material]

NoDetail == [kind |-> "none", nonce |-> 0, required |-> <<>>, at |-> 0, target |-> "none",
             hash |-> [dec |-> 0, caller |-> "none", material |-> "none"],
             method |-> "none", respondBy |-> 0, answer |-> "none", failure |-> "none"]

(* What an Issue comes to: out is pending, failed, shed or error, and sent *)
(* is what left the process.                                               *)
Issued(p, out, detail, deadline, sent) ==
    [proc |-> p, out |-> out, detail |-> detail, deadline |-> deadline, sent |-> sent]

-----------------------------------------------------------------------------
(* Delegated MFA.                                                          *)

(* Mutant: the shared ceiling is charged before the caller's own budget.   *)
allowIssueCeilingFirst(p, caller, at) ==
    LET all == AllowAt(p.subjects, set.tracked, Subject, set.ceiling, 1, at)
        own == AllowAt(p.callers, set.tracked, caller, set.callerRate, 1, at)
    IN  [ok   |-> all.ok /\ own.ok,
         proc |-> [p EXCEPT !.subjects = all.table,
                            !.callers = IF all.ok THEN own.table ELSE @]]

(* The caller's own budget first, and the ceiling only once that allowed.  *)
allowIssue(p, caller, at) ==
    LET own == AllowAt(p.callers, set.tracked, caller, set.callerRate, 1, at)
        all == AllowAt(p.subjects, set.tracked, Subject, set.ceiling, 1, at)
    IN  [ok   |-> own.ok /\ all.ok,
         proc |-> [p EXCEPT !.callers = own.table,
                            !.subjects = IF own.ok THEN all.table ELSE @]]

reuse(p, hash, required, at) ==
    /\ set.minReissue >= 0 /\ hash \in DOMAIN p.recent
    /\ at >= p.recent[hash].at /\ at - p.recent[hash].at < set.minReissue
    /\ p.recent[hash].required = required

(* A full table drops what is too old to be reused, then whatever the map  *)
(* yields; the model keeps it to the first, and its tables never fill.     *)
remember(p, detail, at) ==
    LET kept == IF Cardinality(DOMAIN p.recent) < set.maxRecent THEN DOMAIN p.recent
                ELSE {h \in DOMAIN p.recent : at - p.recent[h].at < set.minReissue}
    IN  IF set.minReissue < 0 THEN p
        ELSE [p EXCEPT !.recent = [h \in kept \cup {detail.hash} |->
                                     IF h = detail.hash THEN detail ELSE p.recent[h]]]

(* CIBA, step-up, or CIBA with step-up behind it; how is the backchannel's *)
(* answer. Only an unsupported initiation falls back.                      *)
Initiate(how) ==
    CASE set.initiators[1] = "stepup" -> "stepup"
      [] set.initiators[1] = "ciba" /\ how = "ok" -> "ciba"
      [] set.initiators[1] = "ciba" /\ how = "unsupported" /\ Len(set.initiators) > 1 -> "stepup"
      [] OTHER -> "error"

(* Delegated.Issue. The budget stays charged when initiation fails.        *)
IssueMFA(p, d, o, g, at, n, how) ==
    LET hash == ContextHash(d)
        base == [NoDetail EXCEPT !.kind = "mfa", !.required = g.acr, !.at = at, !.hash = hash]
        took == allowIssue(p, d.caller, at)
        method == Initiate(how)
        detail == [base EXCEPT !.nonce = n, !.method = method]
    IN  CASE ~(Values(g.acr) \subseteq Values(set.allowedACR)) ->
                Issued(p, "error", base, 0, {})
          [] OTHER ->
             IF reuse(p, hash, g.acr, at)
             THEN Issued(p, "pending", p.recent[hash], 0, {})
             ELSE IF ~took.ok
             THEN Issued(took.proc, "shed", [base EXCEPT !.failure = "rate_limited"], 0, {})
             ELSE IF method = "error" THEN Issued(took.proc, "error", base, 0, {})
             ELSE Issued(remember(took.proc, detail, at), "pending", detail, 0,
                         {[dec |-> d.id, ord |-> o, caller |-> d.caller, detail |-> detail]})

-----------------------------------------------------------------------------
(* External.                                                               *)

(* External.Issue. A target that did not take the notification fails the   *)
(* challenge without a timer; it may have received it all the same.        *)
IssueExternal(p, d, o, g, at, n, how) ==
    LET took == AllowAt(p.notify, set.tracked, Subject, set.notifyRate, 1, at)
        after == [p EXCEPT !.notify = took.table]
        by == IF set.targets[g.target] > 0 THEN at + set.targets[g.target] ELSE 0
        base == [NoDetail EXCEPT !.kind = "external", !.nonce = n, !.at = at,
                                 !.target = g.target, !.respondBy = by]
        sent == {[dec |-> d.id, ord |-> o, caller |-> d.caller, detail |-> base,
                  taken |-> how = "ok"]}
    IN  IF g.target \notin DOMAIN set.targets THEN Issued(p, "error", NoDetail, 0, {})
        ELSE IF ~took.ok
        THEN Issued(after, "shed", [base EXCEPT !.failure = "rate_limited"], 0, {})
        ELSE IF how = "ok" THEN Issued(after, "pending", base, by, sent)
        ELSE Issued(after, "failed", [base EXCEPT !.failure = "transport"], 0, sent)

Issue(p, d, o, g, at, n, how) ==
    IF g.kind = "mfa" THEN IssueMFA(p, d, o, g, at, n, how)
                      ELSE IssueExternal(p, d, o, g, at, n, how)

-----------------------------------------------------------------------------
(* Memory of a goroutine between two statements.                           *)
NoPayload == [kind |-> "none"]
Blank == [at |-> 0, d |-> [id |-> 0], rows |-> <<>>, ord |-> 0, out |-> "pending",
          detail |-> NoDetail, payload |-> NoPayload]

Goto(w, l, m) == pc' = [pc EXCEPT ![w] = l] /\ mem' = [mem EXCEPT ![w] = m]

(* Mutant: every delivery that could be processed is acknowledged.         *)
callbackStatusLenient(err) == IF err = "internal" THEN 500 ELSE 202

(* Callbacks.callbackStatus: the sender is told to stop, or refused, or    *)
(* left to try again.                                                      *)
callbackStatus(err) ==
    CASE err \in {"none", "not_pending", "not_submittable", "expired"} -> 202
      [] err \in {"not_target", "invalid_payload", "unsupported", "no_such_challenge",
                  "not_authorized", "not_found"} -> 403
      [] OTHER -> 500

(* The request is answered; a target remembers which verdicts were taken.  *)
Answer(w, err) ==
    /\ Goto(w, "idle", Blank)
    /\ acked' = IF mem[w].payload.kind = "callback" /\ callbackStatus(err) = 202
                THEN acked \cup {mem[w].payload} ELSE acked

Init ==
    /\ cfg \in {c \in Deployments : Wired(Settings[c])}
    /\ now = 1 /\ effective = 1
    /\ decisions = [i \in {} |-> 0] /\ minted = 0
    /\ prompts = {} /\ notices = {} /\ tokens = {} /\ redirects = {}
    /\ callbacks = {} /\ acked = {}
    /\ proc = NewProc
    /\ guard = newKeyGuard(set.idp) /\ published = set.keys[1]
    /\ seen = [n \in DOMAIN set.holders |-> 0]
    /\ pc = [w \in set.workers \cup set.sweepers |-> "idle"]
    /\ mem = [w \in set.workers \cup set.sweepers |-> Blank]
    /\ overtaken = {}
    /\ spent = [requests |-> 0, faults |-> 0, calls |-> 0, rotations |-> 0]

-----------------------------------------------------------------------------
(* Decide.                                                                 *)

Policy(v) == set.policies[v]
Ref(d) == [d EXCEPT !.rows = <<>>]      \* what GetDecision returns
Keyed(r) == {i \in DOMAIN decisions : r.key # "none" /\ decisions[i].caller = r.caller
                                                    /\ decisions[i].key = r.key}
Outstanding(at) ==
    Cardinality({i \in DOMAIN decisions : decisions[i].state = "pending"
                                          /\ decisions[i].expires > at})

(* A key used before returns the decision it names, if it is the same      *)
(* request. Otherwise the cap, then the judgment, may refuse with no row.  *)
DecideBegin(w, r) ==
    /\ pc[w] = "idle" /\ spent.requests < MaxRequests(cfg)
    /\ spent' = [spent EXCEPT !.requests = @ + 1]
    /\ \/ /\ \E i \in Keyed(r) : /\ decisions[i].what = r.what
                                 /\ Goto(w, "advance", [Blank EXCEPT !.at = now, !.d = Ref(decisions[i])])
          /\ UNCHANGED minted
       \/ /\ \/ \E i \in Keyed(r) : decisions[i].what # r.what
             \/ /\ Keyed(r) = {}
                /\ \/ set.maxOutstanding > 0 /\ Outstanding(now) >= set.maxOutstanding
                   \/ Policy(effective).deny
          /\ UNCHANGED <<pc, mem, minted>>
       \/ /\ Keyed(r) = {} /\ ~Policy(effective).deny
          /\ set.maxOutstanding > 0 => Outstanding(now) < set.maxOutstanding
          /\ minted' = minted + 1
          /\ Goto(w, "issue", [Blank EXCEPT !.at = now, !.ord = 1, !.d =
                [id |-> minted + 1, caller |-> r.caller, key |-> r.key, what |-> r.what,
                 material |-> Policy(effective).material, version |-> effective,
                 state |-> "pending", expires |-> now + TTL, rows |-> <<>>]])
    /\ UNCHANGED <<clock, decisions, world, acked, proc, keys, overtaken>>

Sent(i) ==
    /\ prompts' = prompts \cup {x \in i.sent : x.detail.kind = "mfa"}
    /\ notices' = notices \cup {x \in i.sent : x.detail.kind = "external"}
    /\ UNCHANGED <<tokens, redirects, callbacks>>

Row(g, state, i) ==
    [kind |-> g.kind, state |-> state, deadline |-> i.deadline, detail |-> i.detail]

Later(a, b) == IF a > b THEN a ELSE b

MayFail == spent.faults < MaxFaults(cfg) /\ now <= LastFault(cfg)
Faulty(how) ==
    /\ how # "ok" => MayFail
    /\ spent' = [spent EXCEPT !.faults = IF how = "ok" THEN @ ELSE @ + 1]

(* One turn of the loop over the gates. A shed issue refuses the request   *)
(* with no row and whatever was sent before it stays sent; an error ends   *)
(* it too. A failed one is opened and left to advance.                     *)
DecideIssue(w) ==
    /\ pc[w] = "issue"
    /\ mem[w].ord \in DOMAIN Policy(mem[w].d.version).gates
    /\ \E how \in {"ok", "unsupported", "down"} : \E m \in {mem[w]} :
       \E g \in {Policy(m.d.version).gates[m.ord]} :
       \E i \in {Issue(proc, m.d, m.ord, g, m.at, minted + 1, how)} :
          /\ Faulty(how)
          /\ how # "ok" => g.kind = "external" \/ set.initiators[1] = "ciba"
          /\ proc' = i.proc /\ Sent(i)
          /\ minted' = IF i.sent = {} THEN minted ELSE minted + 1
          /\ IF i.out \in {"shed", "error"} THEN Goto(w, "idle", Blank)
             ELSE Goto(w, "issue", [m EXCEPT !.ord = @ + 1,
                     !.d = [@ EXCEPT !.expires = Later(@, i.deadline),
                                     !.rows = Append(@, Row(g, "pending", i))]])
    /\ UNCHANGED <<clock, decisions, acked, keys, overtaken>>

(* CreateDecision; the loser of a race for a key advances the winner's row *)
(* if that was the same request.                                           *)
DecideCreate(w) ==
    /\ pc[w] = "issue"
    /\ mem[w].ord \notin DOMAIN Policy(mem[w].d.version).gates
    /\ LET d == mem[w].d
           winner == {i \in Keyed(d) : decisions[i].what = d.what}
       IN  IF Keyed(d) = {}
           THEN /\ decisions' = [i \in DOMAIN decisions \cup {d.id} |->
                                   IF i = d.id THEN d ELSE decisions[i]]
                /\ Goto(w, "advance", [Blank EXCEPT !.at = mem[w].at, !.d = Ref(d)])
           ELSE /\ UNCHANGED decisions
                /\ \/ \E i \in winner :
                         Goto(w, "advance", [Blank EXCEPT !.at = mem[w].at, !.d = Ref(decisions[i])])
                   \/ winner = {} /\ Goto(w, "idle", Blank)
    /\ UNCHANGED <<clock, minted, world, acked, proc, keys, overtaken, spent>>

-----------------------------------------------------------------------------
(* What arrives from outside.                                              *)

(* A target answers a notification it received, either way, possibly twice *)
(* and long after.                                                         *)
Respond ==
    /\ Cardinality(callbacks) < MaxVerdicts(cfg)
    /\ \E n \in notices, v \in {"approved", "denied"} :
          callbacks' = callbacks \cup
            {[kind |-> "callback", dec |-> n.dec, ord |-> n.ord, nonce |-> n.detail.nonce,
              verdict |-> v, by |-> n.detail.target, at |-> now]}
    /\ UNCHANGED <<clock, decisions, minted, prompts, notices, tokens, redirects, acked,
                   proc, keys, pc, mem, overtaken, spent>>

(* Someone signs in at the provider, prompted or not. A step-up brings the *)
(* browser back with a code; otherwise the credential is theirs to present.*)
SignIn ==
    /\ Cardinality(tokens) < MaxLogins(cfg)
    /\ \E p \in prompts, t \in Logins(cfg) : \E auth \in {0, p.detail.at, now} :
       \E tok \in {[t EXCEPT !.auth = auth, !.exp = now + TTL,
                             !.nonce = IF @ = 0 THEN 0 ELSE p.detail.nonce]} :
          /\ tokens' = tokens \cup {tok}
          /\ tok.coded => p.detail.method = "stepup"
          /\ redirects' = IF ~tok.coded THEN redirects ELSE redirects \cup
                {[kind |-> "redirect", dec |-> p.dec, ord |-> p.ord,
                  nonce |-> p.detail.nonce, tok |-> tok]}
    /\ UNCHANGED <<clock, decisions, minted, prompts, notices, callbacks, acked,
                   proc, keys, pc, mem, overtaken, spent>>

Payload(tok, dec, ord, nonce) ==
    [kind |-> "completion", dec |-> dec, ord |-> ord, nonce |-> nonce, tok |-> tok]

(* Callbacks.external and MFA.land: the request reads the decision next.   *)
Deliver(w) ==
    /\ pc[w] = "idle" /\ spent.calls < MaxCalls(cfg)
    /\ \E x \in callbacks \cup redirects :
          Goto(w, "read", [Blank EXCEPT !.at = now, !.payload = x])
    /\ spent' = [spent EXCEPT !.calls = @ + 1]
    /\ UNCHANGED <<clock, decisions, minted, world, acked, proc, keys, overtaken>>

(* MFA.complete: a credential presented with the correlator of a prompt.   *)
Complete(w) ==
    /\ pc[w] = "idle" /\ spent.calls < MaxCalls(cfg)
    /\ \E tok \in {t \in tokens : ~t.coded}, p \in prompts :
       \E v \in Verify(guard, set.idp, tok, published, TRUE, now) :
          /\ guard' = v.guard
          /\ IF v.err # "none" THEN UNCHANGED <<pc, mem>>
             ELSE Goto(w, "read", [Blank EXCEPT !.at = now,
                                     !.payload = Payload(tok, p.dec, p.ord, p.detail.nonce)])
    /\ spent' = [spent EXCEPT !.calls = @ + 1]
    /\ UNCHANGED <<clock, decisions, minted, world, acked, proc, published, seen, overtaken>>

-----------------------------------------------------------------------------
(* Submit and Redeem.                                                      *)

(* GetDecision.                                                            *)
SubmitRead(w) ==
    /\ pc[w] = "read"
    /\ IF mem[w].payload.dec \notin DOMAIN decisions
       THEN Answer(w, "not_found")
       ELSE /\ Goto(w, "collect",
                    [mem[w] EXCEPT !.d = Ref(decisions[mem[w].payload.dec])])
            /\ UNCHANGED acked
    /\ UNCHANGED <<clock, decisions, minted, world, proc, keys, overtaken, spent>>

(* mayActOn: whoever asked, anyone an MFA row of the decision names, and   *)
(* on a row that names nobody any machine.                                 *)
mayActOn(m, rows, r) ==
    IF m.payload.kind = "callback" THEN r.kind = "external"
    ELSE \/ m.payload.tok.sub = m.d.caller
         \/ /\ KindOf(set.idp, m.payload.tok) = "user" /\ m.payload.tok.sub = Subject
            /\ \E o \in DOMAIN rows : rows[o].kind = "mfa"
         \/ r.kind = "external" /\ KindOf(set.idp, m.payload.tok) # "user"

stillCollecting(m, r) ==
    CASE m.at >= m.d.expires -> "expired"
      [] m.at < m.d.expires /\ (m.d.state # "pending" \/ r.state # "pending") -> "not_pending"
      [] /\ m.at < m.d.expires /\ m.d.state = "pending" /\ r.state = "pending"
         /\ r.deadline # 0 /\ m.at >= r.deadline -> "expired"
      [] OTHER -> "none"

verifyIssuedBy(tok) ==
    tok.iss = set.mfa.iss /\ tok.client = set.mfa.client /\ set.mfa.aud \in tok.aud

verifyACR(detail, tok) ==
    /\ tok.acr \in Values(set.allowedACR)
    /\ detail.required # <<>> => tok.acr \in Values(detail.required)

verifyAMR(tok) == set.mfa.amr = {} \/ tok.amr = {} \/ tok.amr \cap set.mfa.amr # {}

(* Mutant: an authentication no later than the challenge counts.           *)
verifyAuthTimeAny(detail, tok) == tok.auth # 0

verifyAuthTime(detail, tok) == tok.auth # 0 /\ tok.auth > detail.at

verifyNonce(detail, tok) == tok.nonce \in {0, detail.nonce}

verifyContext(detail, d) == ContextHash(d) = detail.hash

(* Delegated.Submit: why a completion is refused.                          *)
CompletionError(m, detail) ==
    CASE m.payload.kind # "completion" -> "invalid_payload"
      [] m.payload.kind = "completion" /\ detail.failure # "none" -> "not_submittable"
      [] OTHER ->
         IF /\ m.payload.nonce = detail.nonce /\ detail.answer = "none"
            /\ KindOf(set.idp, m.payload.tok) = "user" /\ m.payload.tok.sub = Subject
            /\ verifyIssuedBy(m.payload.tok) /\ verifyACR(detail, m.payload.tok)
            /\ verifyAMR(m.payload.tok) /\ verifyAuthTime(detail, m.payload.tok)
            /\ verifyNonce(detail, m.payload.tok) /\ verifyContext(detail, m.d)
         THEN "none" ELSE "refused"

(* External.Submit: the correlator, then the target's signature over it.   *)
CallbackError(m, detail) ==
    CASE detail.target \notin DOMAIN set.targets -> "unsupported"
      [] detail.target \in DOMAIN set.targets /\ m.payload.kind # "callback" -> "invalid_payload"
      [] OTHER -> IF m.payload.nonce = detail.nonce /\ m.payload.by = detail.target
                  THEN "none" ELSE "not_target"

SubmitError(m, rows) ==
    IF m.payload.ord \notin DOMAIN rows THEN "no_such_challenge"
    ELSE LET r == rows[m.payload.ord]
         IN  IF ~mayActOn(m, rows, r) THEN "not_authorized"
             ELSE IF stillCollecting(m, r) # "none" THEN stillCollecting(m, r)
             ELSE IF r.kind = "mfa" THEN CompletionError(m, r.detail)
             ELSE CallbackError(m, r.detail)

externalState(verdict) == IF verdict = "approved" THEN "satisfied" ELSE "failed"

(* ChallengeProgressFor, then every check of Submit down to the handler's  *)
(* answer, over what the two reads returned.                               *)
SubmitCheck(w) ==
    /\ pc[w] = "collect" /\ mem[w].payload.kind \in {"callback", "completion"}
    /\ \E m \in {mem[w]} : \E rows \in {decisions[m.d.id].rows} :
       \E err \in {SubmitError(m, rows)} :
          IF err # "none" THEN Answer(w, err)
          ELSE LET detail == rows[m.payload.ord].detail
                   out == IF m.payload.kind = "callback" THEN externalState(m.payload.verdict)
                                                         ELSE "satisfied"
                   answer == IF m.payload.kind = "callback" THEN m.payload.verdict ELSE "consumed"
               IN  /\ Goto(w, "record", [m EXCEPT !.ord = m.payload.ord, !.out = out,
                                                  !.detail = [detail EXCEPT !.answer = answer]])
                   /\ UNCHANGED acked
    /\ UNCHANGED <<clock, decisions, minted, world, proc, keys, overtaken, spent>>

(* Delegated.Redeem and StepUp.Redeem: a redirect is exchanged only for a  *)
(* challenge that is collecting and minted the state it echoes.            *)
Redeemable(m, rows) ==
    /\ m.payload.ord \in DOMAIN rows
    /\ LET r == rows[m.payload.ord]
       IN  /\ stillCollecting(m, r) = "none" /\ r.kind = "mfa"
           /\ r.detail.failure = "none" /\ r.detail.answer = "none"
           /\ "stepup" \in Values(set.initiators) /\ r.detail.method = "stepup"
           /\ m.payload.nonce = r.detail.nonce

(* land: redeem, verify what came back, and submit it with a clock of its  *)
(* own. A code is good for one exchange; one that fails may have used it.  *)
Land(w) ==
    /\ pc[w] = "collect" /\ mem[w].payload.kind = "redirect"
    /\ \E m \in {mem[w]} :
       IF ~Redeemable(m, decisions[m.d.id].rows) \/ m.payload \notin redirects
       THEN /\ Answer(w, "refused")
            /\ UNCHANGED <<redirects, guard, spent>>
       ELSE \E how \in {"ok", "down"} :
            /\ Faulty(how)
            /\ IF how = "ok"
               THEN /\ redirects' = redirects \ {m.payload}
                    /\ \E v \in Verify(guard, set.idp, m.payload.tok, published, TRUE, now) :
                          /\ guard' = v.guard
                          /\ IF v.err # "none" THEN Answer(w, "refused")
                             ELSE /\ Goto(w, "read", [Blank EXCEPT !.at = now, !.payload =
                                        Payload(m.payload.tok, m.payload.dec, m.payload.ord,
                                                m.payload.nonce)])
                                  /\ UNCHANGED acked
               ELSE /\ redirects' \in {redirects, redirects \ {m.payload}}
                    /\ Answer(w, "internal") /\ UNCHANGED guard
    /\ UNCHANGED <<clock, decisions, minted, prompts, notices, tokens, callbacks,
                   proc, published, seen, overtaken>>

(* AuditWriter.SetChallengeState, whatever the row says by now.            *)
SetChallengeState(i, o, state, detail) ==
    decisions' = [decisions EXCEPT ![i].rows[o] = [@ EXCEPT !.state = state, !.detail = detail]]

SubmitRecord(w) ==
    /\ pc[w] = "record"
    /\ LET m == mem[w]
       IN  IF m.ord \notin DOMAIN decisions[m.d.id].rows
           THEN Answer(w, "not_found") /\ UNCHANGED decisions
           ELSE /\ SetChallengeState(m.d.id, m.ord, m.out, m.detail)
                /\ Goto(w, "advance", [Blank EXCEPT !.at = m.at, !.d = m.d, !.payload = m.payload])
                /\ UNCHANGED acked
    /\ UNCHANGED <<clock, minted, world, proc, keys, overtaken, spent>>

-----------------------------------------------------------------------------
(* advance, with the clock the caller read on entry.                       *)

(* Both handlers' Status for a row that is still pending, and advance's    *)
(* own look at the row's timer.                                            *)
Status(r, at) ==
    CASE r.detail.failure # "none" -> "failed"
      [] r.detail.failure = "none" /\ r.detail.answer # "none" ->
            IF r.kind = "mfa" THEN "satisfied" ELSE externalState(r.detail.answer)
      [] /\ r.detail.failure = "none" /\ r.detail.answer = "none"
         /\ \E by \in {r.detail.respondBy, r.deadline} \ {0} : at >= by -> "failed"
      [] OTHER -> "pending"

Settles(r, at) == IF r.state = "pending" THEN Status(r, at) ELSE r.state

(* The rows of rs the loop still has to write, from ordinal o on.          *)
Unwritten(rs, at, o) ==
    {k \in o..Len(rs) : rs[k].state = "pending" /\ Status(rs[k], at) # "pending"}

First(s) == CHOOSE k \in s : \A j \in s : k <= j

Tally(rs, at) ==
    CASE \E o \in DOMAIN rs : Settles(rs[o], at) \in {"failed", "cancelled"} -> "denied"
      [] \A o \in DOMAIN rs : Settles(rs[o], at) = "satisfied" -> "allowed"
      [] OTHER -> "pending"

(* After the rows are written: a failure denies, all satisfied allows.     *)
Conclude(w, m, from) ==
    LET todo == Unwritten(m.rows, m.at, from)
        out == Tally(m.rows, m.at)
    IN  IF todo # {} THEN Goto(w, "write", [m EXCEPT !.ord = First(todo)]) /\ UNCHANGED acked
        ELSE IF out # "pending"
        THEN Goto(w, "resolve", [m EXCEPT !.out = out, !.rows = <<>>]) /\ UNCHANGED acked
        ELSE Answer(w, "none")

AdvanceRead(w) ==
    /\ pc[w] = "advance"
    /\ \E d \in {decisions[mem[w].d.id]} :
       IF d.state = "pending" /\ mem[w].at < d.expires
       THEN Goto(w, "progress", mem[w]) /\ UNCHANGED acked
       ELSE Answer(w, "none")
    /\ UNCHANGED <<clock, decisions, minted, world, proc, keys, overtaken, spent>>

AdvanceProgress(w) ==
    /\ pc[w] = "progress"
    /\ \E m \in {[mem[w] EXCEPT !.rows = decisions[mem[w].d.id].rows]} : Conclude(w, m, 1)
    /\ UNCHANGED <<clock, decisions, minted, world, proc, keys, overtaken, spent>>

AdvanceWrite(w) ==
    /\ pc[w] = "write"
    /\ LET m == mem[w]
           r == m.rows[m.ord]
       IN  IF m.ord \notin DOMAIN decisions[m.d.id].rows
           THEN Answer(w, "not_found") /\ UNCHANGED decisions
           ELSE /\ SetChallengeState(m.d.id, m.ord, Status(r, m.at), r.detail)
                /\ Conclude(w, m, m.ord + 1)
    /\ UNCHANGED <<clock, minted, world, proc, keys, overtaken, spent>>

(* AuditWriter.ResolveDecision: UPDATE ... WHERE state = 'pending'.        *)
Resolve(w) ==
    /\ pc[w] = "resolve"
    /\ LET m == mem[w]
       IN  decisions' = IF decisions[m.d.id].state # "pending" THEN decisions
                        ELSE [decisions EXCEPT ![m.d.id].state = m.out]
    /\ Answer(w, "none")
    /\ UNCHANGED <<clock, minted, world, proc, keys, overtaken, spent>>

(* The sweeper's claim: next_deadline is the earliest of the lifetime and  *)
(* the timers of the rows still pending.                                   *)
NextDeadline(d) ==
    First({d.expires} \cup {d.rows[o].deadline :
              o \in {k \in DOMAIN d.rows : d.rows[k].state = "pending" /\ d.rows[k].deadline # 0}})

SweepClaim(w) ==
    /\ pc[w] = "idle"
    /\ \E i \in DOMAIN decisions :
          /\ decisions[i].state = "pending" /\ NextDeadline(decisions[i]) <= now
          /\ LET m == [Blank EXCEPT !.at = now, !.d = Ref(decisions[i])]
             IN  IF now >= decisions[i].expires
                 THEN Goto(w, "resolve", [m EXCEPT !.out = "expired"])
                 ELSE Goto(w, "advance", m)
    /\ UNCHANGED <<clock, decisions, minted, world, acked, proc, keys, overtaken, spent>>

-----------------------------------------------------------------------------
(* Revalidator.Apply in the revaluate mode, one transaction: every open    *)
(* decision is judged again and its challenges re-bound. What a re-issue   *)
(* charges and sends stays, also when an error rolls the revision back.    *)

Side(p, n, sent, ok) == [proc |-> p, minted |-> n, sent |-> sent, ok |-> ok]
Charge(h, i) == Side(i.proc, IF i.sent = {} THEN h.minted ELSE h.minted + 1,
                     h.sent \cup i.sent, i.out # "error")

(* PreservesCompletion and PreservesRequirement.                           *)
Preserves(detail, d, g) == detail.hash = ContextHash(d) /\ detail.required = g.acr

(* rebindMFA: kept, or asked again on the same row and timer. A shed       *)
(* re-issue leaves a pending row whose detail already says it failed.      *)
Reasked(h, r, i) ==
    [side |-> Charge(h, i), row |-> [r EXCEPT !.state = "pending", !.detail = i.detail]]
rebindMFA(h, d, o, g, how) ==
    IF Preserves(d.rows[o].detail, d, g) THEN [side |-> h, row |-> d.rows[o]]
    ELSE Reasked(h, d.rows[o], Issue(h.proc, d, o, g, now, h.minted + 1, how))

(* rebindExternal: another target ends the challenge; nothing is sent from *)
(* inside the transaction.                                                 *)
rebindExternal(h, d, o, g) ==
    LET r == d.rows[o]
    IN  [side |-> h,
         row  |-> IF g.target = r.detail.target \/ r.detail.failure # "none" THEN r
                  ELSE [r EXCEPT !.state = "failed", !.deadline = 0,
                                 !.detail = [@ EXCEPT !.failure = "retargeted"]]]

(* Revalidator.issue, after the old rows are deleted: the state the handler*)
(* answered, and a timer no later than the lifetime.                       *)
Opened(h, d, g, i) ==
    [side |-> Charge(h, i),
     row  |-> Row(g, IF i.out = "pending" THEN "pending" ELSE "failed",
                  [i EXCEPT !.deadline = Least(@, d.expires)])]
reopen(h, d, o, g, how) ==
    Opened(h, d, g, Issue(h.proc, d, o, g, now, h.minted + 1, how))

sameShape(rows, gates) ==
    /\ DOMAIN rows = DOMAIN gates
    /\ \A o \in DOMAIN rows : rows[o].kind = gates[o].kind

WithRow(acc, x) == [side |-> x.side, rows |-> Append(acc.rows, x.row)]
Rebound(h0, d, gates, how) ==
    LET next(h, o) ==
          CASE ~h.ok -> [side |-> h, row |-> <<>>]
            [] h.ok /\ ~sameShape(d.rows, gates) -> reopen(h, d, o, gates[o], how)
            [] h.ok /\ sameShape(d.rows, gates) /\ gates[o].kind = "mfa" ->
                  rebindMFA(h, d, o, gates[o], how)
            [] OTHER -> rebindExternal(h, d, o, gates[o])
        f[o \in 0..Len(gates)] ==
          IF o = 0 THEN [side |-> h0, rows |-> <<>>]
          ELSE WithRow(f[o-1], next(f[o-1].side, o))
    IN  f[Len(gates)]

(* revaluate: a policy that no longer allows denies; otherwise the rewrite,*)
(* the rows, and the tally over the states they now have.                  *)
StateOf(rows) ==
    CASE \E o \in DOMAIN rows : rows[o].state \in {"failed", "cancelled"} -> "denied"
      [] \A o \in DOMAIN rows : rows[o].state = "satisfied" -> "allowed"
      [] OTHER -> "pending"

Rebind(d, x) == [side |-> x.side, d |-> [d EXCEPT !.rows = x.rows, !.state = StateOf(x.rows)]]
revaluate(h, d, v, how) ==
    LET again == [d EXCEPT !.material = Policy(v).material, !.version = v]
    IN  IF Policy(v).deny THEN [side |-> h, d |-> [d EXCEPT !.state = "denied"]]
        ELSE Rebind(again, Rebound(h, again, Policy(v).gates, how))

Open == {i \in DOMAIN decisions : decisions[i].state = "pending" /\ now < decisions[i].expires}

(* Over the open decisions in the order they were opened.                  *)
WithDecision(acc, i, x) == [side |-> x.side, all |-> [acc.all EXCEPT ![i] = x.d]]
Applied(v, how) ==
    LET f[i \in 0..minted] ==
          IF i = 0 THEN [side |-> Side(proc, minted, {}, TRUE), all |-> decisions]
          ELSE IF i \notin Open \/ ~f[i-1].side.ok THEN f[i-1]
          ELSE WithDecision(f[i-1], i, revaluate(f[i-1].side, decisions[i], v, how))
    IN  f[minted]

Revise ==
    /\ effective < Len(set.policies)
    /\ \E how \in {"ok", "unsupported", "down"} : \E a \in {Applied(effective + 1, how)} :
          /\ Faulty(how) /\ Sent(a.side)
          /\ how # "ok" => a.side.sent # {} \/ ~a.side.ok
          /\ proc' = a.side.proc /\ minted' = a.side.minted
          /\ effective' = IF a.side.ok THEN effective + 1 ELSE effective
          /\ decisions' = IF a.side.ok THEN a.all ELSE decisions
          /\ overtaken' = IF a.side.ok
                THEN overtaken \cup {mem[w].d.id : w \in {x \in DOMAIN pc : pc[x] # "idle"}}
                ELSE overtaken
    /\ UNCHANGED <<cfg, now, acked, keys, pc, mem>>

-----------------------------------------------------------------------------
(* The middleware in front of every authenticated route.                   *)

(* A holder presents its credential. It may be damaged on the way, and the *)
(* key set may be out of reach.                                            *)
Present(n, intact, up) ==
    /\ n \in DOMAIN set.holders
    /\ LET h == set.holders[n]
           good == intact /\ up /\ (h.kind = "bearer" => h.tok.kid \in published)
       IN  /\ Faulty(IF good THEN "ok" ELSE "down")
           /\ \/ /\ h.kind = "bearer"
                 /\ \E v \in Verify(guard, set.idp, [h.tok EXCEPT !.intact = intact],
                                    published, up, now) :
                       /\ guard' = v.guard
                       /\ seen' = [seen EXCEPT ![n] =
                             StatusFor(requireKind(v.err, KindOf(set.idp, h.tok), set.kinds))]
              \/ /\ h.kind = "mtls" /\ intact /\ up
                 /\ seen' = [seen EXCEPT ![n] = StatusFor(requireKind(
                                SubjectError(h.cert, set.peers), "workload", set.kinds))]
                 /\ UNCHANGED guard
    /\ UNCHANGED <<clock, decisions, minted, world, acked, proc, published, pc, mem, overtaken>>

(* The issuer moves on to its next set of keys.                            *)
Rotate ==
    /\ spent.rotations + 1 < Len(set.keys) /\ now <= LastFault(cfg)
    /\ published' = set.keys[spent.rotations + 2]
    /\ spent' = [spent EXCEPT !.rotations = @ + 1]
    /\ UNCHANGED <<clock, decisions, minted, world, acked, proc, guard, seen, pc, mem, overtaken>>

(* The process dies between two statements and starts again.               *)
Crash ==
    /\ set.crashes /\ MayFail
    /\ pc' = [w \in DOMAIN pc |-> "idle"] /\ mem' = [w \in DOMAIN mem |-> Blank]
    /\ proc' = NewProc /\ guard' = newKeyGuard(set.idp)
    /\ spent' = [spent EXCEPT !.faults = @ + 1]
    /\ UNCHANGED <<clock, decisions, minted, world, acked, published, seen, overtaken>>

Tick ==
    /\ now < MaxTime(cfg) /\ now' = now + 1
    /\ UNCHANGED <<cfg, effective, decisions, minted, world, acked, proc, keys, pc, mem,
                   overtaken, spent>>

Advance(w) == AdvanceRead(w) \/ AdvanceProgress(w) \/ AdvanceWrite(w) \/ Resolve(w)

Next ==
    \/ \E w \in set.workers : \/ \E r \in set.requests : DecideBegin(w, r)
                          \/ DecideIssue(w) \/ DecideCreate(w)
                          \/ Deliver(w) \/ Complete(w)
                          \/ SubmitRead(w) \/ SubmitCheck(w) \/ Land(w) \/ SubmitRecord(w)
                          \/ Advance(w)
    \/ \E w \in set.sweepers : SweepClaim(w) \/ Advance(w)
    \/ Respond \/ SignIn \/ Revise \/ Rotate \/ Crash \/ Tick
    \/ \E n \in DOMAIN set.holders, intact, up \in BOOLEAN : Present(n, intact, up)

Spec == Init /\ [][Next]_vars

(* Holders keep trying, and time passes.                                   *)
Fairness == WF_vars(Tick) /\ \A n \in Holders : WF_vars(Present(n, TRUE, TRUE))
FairSpec == Spec /\ Fairness

-----------------------------------------------------------------------------
(* Properties.                                                             *)

(* What the subject did: signed in after a prompt for this decision, at    *)
(* the strength this gate asks for, over what the decision is about now.   *)
Authenticated(d, g) ==
    \E p \in prompts, t \in tokens :
       /\ p.dec = d.id /\ p.detail.hash = ContextHash(d) /\ p.detail.required = g.acr
       /\ t.sub = Subject /\ t.client = set.mfa.client /\ t.auth > p.detail.at
       /\ t.nonce \in {0, p.detail.nonce}
       /\ t.acr \in Values(IF g.acr = <<>> THEN set.allowedACR ELSE g.acr)

(* What the target did: approved in answer to this notification, in time   *)
(* if it had said it took it. A notification that seemed to fail leaves no *)
(* timer, and until advance has failed the row a verdict still counts.     *)
Approved(d, o, g) ==
    \E n \in notices, c \in callbacks :
       /\ n.dec = d.id /\ n.ord = o /\ n.detail.target = g.target
       /\ c.nonce = n.detail.nonce /\ c.by = g.target /\ c.verdict = "approved"
       /\ n.taken /\ n.detail.respondBy # 0 => c.at < n.detail.respondBy

(* A decision is allowed only on answers given from outside to the gates   *)
(* of the policy version that judged it: through retries, duplicate and    *)
(* late deliveries, reused prompts and re-bound rows, an authentication    *)
(* or a verdict given to something else never counts. A decision that a    *)
(* revision rewrites while a request is inside it is excluded: there the   *)
(* request's write, made over what it read before, still lands.            *)
AllowedOnAnswers ==
    \A i \in DOMAIN decisions \ overtaken :
       decisions[i].state = "allowed" =>
          \A o \in DOMAIN Policy(decisions[i].version).gates :
             LET g == Policy(decisions[i].version).gates[o]
             IN  IF g.kind = "mfa" THEN Authenticated(decisions[i], g)
                                   ELSE Approved(decisions[i], o, g)

(* The promise behind the order of the two bursts: as long as one caller   *)
(* is the only one to have prompted the subject, and did so in this        *)
(* instant, any other caller's step-up for that subject is let through,    *)
(* however often the first was refused.                                    *)
OneCallerLeavesRoom ==
    \A a, b \in {r.caller : r \in set.requests} :
       (/\ a # b /\ spent.faults = 0
        /\ \A p \in prompts : p.caller = a /\ p.detail.at = now)
       => allowIssue(proc, b, now).ok

(* A target that was told 202 may stop: its verdict, if the row it is for  *)
(* is still there and in time, has settled that row, and with the last row *)
(* the decision. Short of a crash between the write and the resolution.    *)
AckedVerdictSettles ==
    \A c \in acked :
       (/\ spent.faults = 0 /\ \A w \in DOMAIN pc : pc[w] = "idle"
        /\ c.dec \in DOMAIN decisions
        /\ decisions[c.dec].state = "pending" /\ now < decisions[c.dec].expires
        /\ c.ord \in DOMAIN decisions[c.dec].rows
        /\ LET r == decisions[c.dec].rows[c.ord]
           IN  r.detail.nonce = c.nonce /\ (r.deadline # 0 => now < r.deadline))
       => /\ decisions[c.dec].rows[c.ord].state # "pending"
          /\ \E o \in DOMAIN decisions[c.dec].rows : decisions[c.dec].rows[o].state = "pending"

(* A key the issuer publishes is accepted in the end, whatever the guard   *)
(* cached against it while it was unknown or the key set out of reach.     *)
Publishes(n) ==
    /\ n \in DOMAIN set.holders /\ set.holders[n].kind = "bearer"
    /\ set.holders[n].tok.kid \in published
RotatedKeyAccepted == \A n \in Holders : Publishes(n) ~> (~Publishes(n) \/ seen[n] = 200)
=============================================================================
