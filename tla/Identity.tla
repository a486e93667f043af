------------------------------ MODULE Identity ------------------------------
(***************************************************************************)
(* Who is calling: the bearer token verifier with the guard in front of    *)
(* its key set, the mTLS identity, and the middleware's choice between     *)
(* them. A token is [sub, client, iss, aud, acr, amr, auth, exp, nonce,    *)
(* kid, intact]; an auth of 0 is a token without auth_time, a nonce of 0   *)
(* one without nonce, and a token that is not intact fails its signature.  *)
(* A set-valued operator returns what may come of a call: a full negative  *)
(* cache forgets any entry.                                                *)
(* idp is the configuration [issuers, audience, acr, workloads, burst,     *)
(* refill, ttl, max].                                                      *)
(***************************************************************************)
EXTENDS RateLimiter

newKeyGuard(idp) ==
    [served |-> {}, negative |-> [k \in {} |-> 0], tokens |-> idp.burst, at |-> 0]

refillLocked(g, idp, now) ==
    [g EXCEPT !.tokens = IF g.at = 0 THEN @ ELSE Least(@ + (now - g.at) * idp.refill, idp.burst),
              !.at = now]

Forget(g, kids) ==
    [g EXCEPT !.negative = [k \in DOMAIN g.negative \ kids |-> g.negative[k]]]

(* Mutant: a key once unknown stays unknown.                               *)
admitForever(g, idp, kid, now) ==
    LET ready == refillLocked(g, idp, now)
    IN  CASE kid \in g.served -> [err |-> "none", guard |-> g]
          [] kid \notin g.served /\ kid \in DOMAIN g.negative ->
                [err |-> "unknown_key", guard |-> g]
          [] OTHER -> [err |-> IF ready.tokens < 1 THEN "throttled" ELSE "none", guard |-> ready]

(* A key the issuer is known to serve costs nothing; another has a fresh   *)
(* answer in the negative cache or needs something left in the budget.     *)
admit(g, idp, kid, now) ==
    LET ready == refillLocked(Forget(g, {kid}), idp, now)
    IN  CASE kid \in g.served -> [err |-> "none", guard |-> g]
          [] /\ kid \notin g.served
             /\ kid \in DOMAIN g.negative /\ now < g.negative[kid] ->
                [err |-> "unknown_key", guard |-> g]
          [] OTHER -> [err |-> IF ready.tokens < 1 THEN "throttled" ELSE "none", guard |-> ready]

(* A full cache drops what has run out, then whatever the map yields.      *)
evictLocked(g, idp, now) ==
    LET live == Forget(g, {k \in DOMAIN g.negative : now >= g.negative[k]})
        excess == Cardinality(DOMAIN live.negative) - idp.max + 1
    IN  IF Cardinality(DOMAIN g.negative) < idp.max THEN {g}
        ELSE IF excess <= 0 THEN {live}
        ELSE {Forget(live, gone) : gone \in {x \in SUBSET DOMAIN live.negative :
                                                Cardinality(x) = excess}}

observeFailure(g, idp, kid, now) ==
    IF kid \in g.served THEN {g}
    ELSE {[e EXCEPT !.negative = [k \in DOMAIN e.negative \cup {kid} |->
                                    IF k = kid THEN now + idp.ttl ELSE e.negative[k]]] :
             e \in evictLocked(g, idp, now)}

recordKeySet(g, kids) == [Forget(g, kids) EXCEPT !.served = kids]

(* One fetch through the transport: the budget is spent first, and only a  *)
(* document that arrived and parsed replaces what is known to be served.   *)
RoundTrip(g, idp, published, up, now) ==
    LET ready == refillLocked(g, idp, now)
        paid == [ready EXCEPT !.tokens = @ - 1]
    IN  IF ready.tokens < 1 THEN ready
        ELSE IF up THEN recordKeySet(paid, published) ELSE paid

(* guardedKeySet.VerifySignature over the library's cached key set, which  *)
(* is refetched when no cached key verifies the token.                     *)
VerifySignature(g, idp, tok, published, up, now) ==
    LET after == RoundTrip(g, idp, published, up, now)
    IN  IF tok.intact /\ tok.kid \in g.served THEN {[err |-> "none", guard |-> g]}
        ELSE IF tok.intact /\ tok.kid \in after.served THEN {[err |-> "none", guard |-> after]}
        ELSE {[err |-> "signature", guard |-> f] :
                 f \in observeFailure(after, idp, tok.kid, now)}

(* A client the issuer lists as a workload is one, whoever its subject is. *)
KindOf(idp, tok) == IF tok.client \in idp.workloads THEN "workload" ELSE "user"

ClaimsError(idp, tok, now) ==
    CASE now >= tok.exp -> "expired"
      [] now < tok.exp /\ idp.audience \notin tok.aud -> "audience"
      [] /\ now < tok.exp /\ idp.audience \in tok.aud
         /\ KindOf(idp, tok) = "user" /\ idp.acr # {} /\ tok.acr \notin idp.acr -> "acr"
      [] OTHER -> "none"

(* Verifier.Verify, in the order it checks: the claims only once the       *)
(* signature has verified.                                                 *)
Verify(g, idp, tok, published, up, now) ==
    LET admitted == admit(g, idp, tok.kid, now)
    IN  IF tok.iss \notin idp.issuers THEN {[err |-> "issuer", guard |-> g]}
        ELSE IF admitted.err # "none" THEN {admitted}
        ELSE {[s EXCEPT !.err = IF s.err = "none" THEN ClaimsError(idp, tok, now) ELSE s.err] :
                 s \in VerifySignature(admitted.guard, idp, tok, published, up, now)}

(* TLSIdentity.Subject: the first presented name that is allowed.          *)
SubjectError(cert, allowed) ==
    CASE ~cert.verified -> "certificate"
      [] cert.verified /\ cert.names \cap allowed = {} -> "workload"
      [] OTHER -> "none"

requireKind(err, kind, kinds) ==
    IF err = "none" /\ kinds # {} /\ kind \notin kinds THEN "wrong_kind" ELSE err

StatusFor(err) ==
    CASE err = "none" -> 200
      [] err = "throttled" -> 503
      [] err \in {"wrong_kind", "workload"} -> 403
      [] OTHER -> 401
=============================================================================
