---------------------------- MODULE RateLimiter ----------------------------
(***************************************************************************)
(* The token buckets that ingestion, decisions, approvals, cancellations,  *)
(* notifications and step-ups are all charged to. A table of buckets is a  *)
(* function from the keys it holds to [tokens, at, limit]; a limit is      *)
(* [rate, burst], in whole tokens per tick.                                *)
(***************************************************************************)
EXTENDS Integers, FiniteSets

NoLimit == [rate |-> 0, burst |-> 0]
Unlimited(limit) == limit.rate <= 0

withDefaults(limit) ==
    IF limit.burst <= 0 THEN [limit EXCEPT !.burst = limit.rate] ELSE limit

WithZeroDefault(limit, fallback) ==
    [rate  |-> IF limit.rate = 0 THEN fallback.rate ELSE limit.rate,
     burst |-> IF limit.burst = 0 THEN fallback.burst ELSE limit.burst]

(* What a bucket would hold at now, uncapped.                              *)
Refilled(b, now) == b.tokens + (now - b.at) * b.limit.rate

(* Mutant: a full table makes room by forgetting every bucket.             *)
sweepAll(table, now) == {}

(* The buckets that are full again are the ones nothing is lost with.      *)
sweepLocked(table, now) ==
    {k \in DOMAIN table : Refilled(table[k], now) < table[k].limit.burst}

Least(a, b) == IF a < b THEN a ELSE b

(* The bucket of key at now under the limit of this call, before the cost. *)
Settled(b, limit, now) ==
    LET capped == Least(b.tokens, limit.burst)
    IN  IF now > b.at
        THEN [tokens |-> Least(limit.burst, capped + (now - b.at) * limit.rate),
              at |-> now, limit |-> limit]
        ELSE [tokens |-> capped, at |-> b.at, limit |-> limit]

AllowAt(table, max, key, declared, cost, now) ==
    LET limit == withDefaults(declared)
        kept  == IF key \notin DOMAIN table /\ Cardinality(DOMAIN table) >= max
                 THEN sweepLocked(table, now) ELSE DOMAIN table
        full  == /\ key \notin DOMAIN table /\ Cardinality(DOMAIN table) >= max
                 /\ kept = DOMAIN table
        fresh == [tokens |-> limit.burst, at |-> now, limit |-> limit]
        b     == Settled(IF key \in DOMAIN table THEN table[key] ELSE fresh, limit, now)
        ok    == b.tokens >= cost
        spent == [b EXCEPT !.tokens = IF ok THEN @ - cost ELSE @]
    IN  IF Unlimited(declared) THEN [ok |-> TRUE, table |-> table]
        ELSE IF full THEN [ok |-> FALSE, table |-> table]
        ELSE [ok    |-> ok,
              table |-> [k \in kept \cup {key} |-> IF k = key THEN spent ELSE table[k]]]
=============================================================================
