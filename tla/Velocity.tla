------------------------------ MODULE Velocity ------------------------------
(***************************************************************************)
(* Velocity sources: events come in over a Kafka topic and over HTTP, are  *)
(* counted once into time buckets, and a policy reads a trailing window of *)
(* them. The consumer may crash or lose the database at any step, brokers  *)
(* and producers redeliver, and another process prunes what is too old.    *)
(*                                                                         *)
(* Time is counted in ticks from 1; 0 is the zero time. A name is empty as *)
(* the string "".                                                          *)
(***************************************************************************)
EXTENDS Integers, Sequences, FiniteSetsExt, RateLimiter

CONSTANTS
    Configs,        \* configurations a deployment may be started with
    Records,        \* what producers send: [id, subject, value, at, json]
    MaxWindow,      \* store.MaxDeclarableWindow
    Slack,          \* store.DedupRetentionSlack
    Skew,           \* stream.MaxClockSkew
    Latency,        \* how long an accepted batch takes to reach its transaction
    Drift,          \* how far the sweeping process's clock may be ahead
    MaxTime(_),     \* bound: ticks, in a deployment
    MaxFaults(_),   \* bound: its crashes and failed database or broker calls
    MaxLog(_),      \* bound: records published to its topic
    MaxSubmits(_)   \* bound: batches sent to it over HTTP

(* An event's identifier is the producer's promise that it is one event.   *)
ASSUME VelocityAssumption ==
    /\ {MaxWindow, Slack, Skew, Latency, Drift} \subseteq Nat
    /\ \A c \in Configs : {MaxTime(c), MaxFaults(c), MaxLog(c), MaxSubmits(c)} \subseteq Nat
    /\ \A c \in Configs : c.poll \in Nat
    /\ \A c \in Configs : \A x \in c.creds \cup {c} :
         {x.rate, x.subjectRate} \subseteq [rate : Int, burst : Int]
    /\ Latency + Drift <= Slack
    /\ \A r \in Records : r.at \in Nat
    /\ \A r, s \in Records : r.id = s.id => r = s

VARIABLES
    cfg,        \* the configuration
    up,         \* the process runs
    now,        \* the clock of the consumer's process
    log,        \* the topic
    committed,  \* the consumer group's offset
    consumer,   \* the poll loop: [pc, todo, upto, at, done], with offsets in todo and done
    request,    \* the HTTP batch between its check and its transaction
    processed,  \* processed_events: dedup key -> seen_at
    buckets,    \* velocity_buckets: the rows, by subject, metric and start
    newest,     \* the lag tracker of each adapter
    limiter,    \* the buckets of the ingest rate limiter
    faults, submits,
    counted,    \* how often each key was added to a bucket
    refused,    \* offsets the consumer decided never to accept
    reported,   \* offsets handed to OnReject
    spent, upAt \* what each key was granted since the process started

store == <<processed, buckets, counted>>
memory == <<consumer, request, newest, limiter, spent, upAt>>
vars == <<cfg, up, now, log, committed, memory, store, faults, submits, refused, reported>>

-----------------------------------------------------------------------------
(* Configuration: what the constructors refuse.                            *)

Named(c, name) == {i \in DOMAIN c.decls : c.decls[i].name = name}

(* indexDeclarations and MetricSpecsFor: the last declaration wins.        *)
Declared(c, name) == Named(c, name) # {}
Decl(c, name) == c.decls[Max(Named(c, name))]
OfMetric(c, metric) == {i \in DOMAIN c.decls : c.decls[i].metric = metric}
HasMetric(c, metric) == OfMetric(c, metric) # {}
MetricSpec(c, metric) ==
    LET d == c.decls[Max(OfMetric(c, metric))]
    IN  [width |-> d.width, deduct |-> d.deduct]

NewAggregator(c) ==
    /\ c.decls # <<>>
    /\ \A i \in DOMAIN c.decls :
         LET spec == MetricSpec(c, c.decls[i].metric)
         IN  c.decls[i].metric # "" /\ spec.width \in 1..MaxWindow

NewIngest(c) ==
    /\ \A cred \in c.creds :
         /\ cred.caller # "" /\ cred.scope # {}
         /\ \A other \in c.creds : other.caller = cred.caller => other = cred
         /\ \A entry \in cred.scope :
              Declared(c, entry.source) /\ entry.metric = Decl(c, entry.source).metric

NewKafka(c) ==
    \A t \in c.topics :
      /\ t.topic # "" /\ t.caller # ""
      /\ \A other \in c.topics : other.topic = t.topic => other = t
      /\ Declared(c, t.source)
      /\ t.deduct => Decl(c, t.source).deduct

Adapters(c) == {"ingest"} \cup IF c.topics = {} THEN {} ELSE {"kafka"}

(* Mutant: a window may be as wide as it likes.                            *)
resolveWindowUnbounded(c, d) ==
    /\ d.metric # "" /\ HasMetric(c, d.metric)
    /\ d.width = MetricSpec(c, d.metric).width
    /\ d.window >= d.width /\ d.window % d.width = 0
    /\ d.adapter \in Adapters(c) /\ d.freshness >= 0
    /\ d.onError \in {"", "deny"} /\ d.params = <<"string">> /\ d.returns \in {"double", "int"}

resolve(c, d) ==
    /\ d.name # "" /\ d.metric # "" /\ HasMetric(c, d.metric)
    /\ d.width = MetricSpec(c, d.metric).width
    /\ d.deduct = MetricSpec(c, d.metric).deduct
    /\ d.window > 0 /\ d.window >= d.width /\ d.window % d.width = 0 /\ d.window <= MaxWindow
    /\ d.adapter \in Adapters(c)
    /\ d.freshness >= 0
    /\ d.onError \in {"", "deny"}
    /\ d.params = <<"string">>
    /\ d.returns \in {"double", "int"}

NewSources(c) ==
    \A i \in DOMAIN c.decls : Named(c, c.decls[i].name) = {i} /\ resolve(c, c.decls[i])

(* App.ingestion: no plane without sources; otherwise it is built whole or *)
(* the process does not start.                                             *)
ingestion(c) ==
    c.decls = <<>> \/ (NewAggregator(c) /\ NewIngest(c) /\ NewKafka(c) /\ NewSources(c))

-----------------------------------------------------------------------------
(* Events and the tables.                                                  *)

Event(caller, metric, r) ==
    [caller |-> caller, id |-> r.id, metric |-> metric, subject |-> r.subject,
     value |-> r.value, at |-> r.at]
Key(e) == <<e.caller, e.id, e.metric>>

Validate(e) == /\ e.caller # "" /\ e.id # "" /\ e.metric # "" /\ e.subject # ""
               /\ e.at # 0

(* Aggregator.check, at the instant Accept reads the clock.                *)
check(e) ==
    /\ Validate(e)
    /\ HasMetric(cfg, e.metric)
    /\ e.value < 0 => MetricSpec(cfg, e.metric).deduct
    /\ e.at >= now - MaxWindow
    /\ e.at <= now + Skew

BucketStart(at, width) == at - (at % width)
Row(e) == <<e.subject, e.metric, BucketStart(e.at, MetricSpec(cfg, e.metric).width)>>
InRow(row, events) == {e \in events : Row(e) = row}
Total(events) == LET value(e) == e.value IN MapThenSumSet(value, events)

(* RecordEventTx for each event of a batch: the ones whose key is new.     *)
New(events) == {e \in events : Key(e) \notin DOMAIN processed}

RecordEvents(events) ==
    LET new  == New(events)
        rows == DOMAIN buckets \cup {Row(e) : e \in new}
        held(row) == IF row \in DOMAIN buckets THEN buckets[row] ELSE [count |-> 0, sum |-> 0]
    IN  /\ processed' = [k \in DOMAIN processed \cup {Key(e) : e \in new} |->
                           IF k \in DOMAIN processed THEN processed[k]
                           ELSE (CHOOSE e \in new : Key(e) = k).at]
        /\ buckets' = [row \in rows |->
                          [count |-> held(row).count + Cardinality(InRow(row, new)),
                           sum   |-> held(row).sum + Total(InRow(row, new))]]
        /\ counted' = [e \in DOMAIN counted \cup new |->
                          (IF e \in DOMAIN counted THEN counted[e] ELSE 0)
                          + (IF e \in new THEN 1 ELSE 0)]

(* LagTracker.Observe: only forward, and only on what the sink confirmed.  *)
Observe(adapter, events) ==
    newest' = [newest EXCEPT ![adapter] = Max({@} \cup {e.at : e \in events})]
Lag(adapter) == Max({0, now - newest[adapter]})

WindowTx(subject, metric, width, from, to) ==
    LET rows == {row \in DOMAIN buckets :
                   /\ row[1] = subject /\ row[2] = metric
                   /\ row[3] >= BucketStart(from, width) /\ row[3] < to}
        count(row) == buckets[row].count
        sum(row)   == buckets[row].sum
    IN  [count |-> MapThenSumSet(count, rows), sum |-> MapThenSumSet(sum, rows)]

Window(metric, subject, window) ==
    WindowTx(subject, metric, MetricSpec(cfg, metric).width, now - window, now + Skew)

checkFreshness(d) == newest[d.adapter] # 0 /\ Lag(d.adapter) <= d.freshness

(* Sources.Lookup: what a source answers about a subject, if it does.      *)
Answers(d) == d.freshness > 0 => checkFreshness(d)
Lookup(d, subject) ==
    LET w == Window(d.metric, subject, d.window)
    IN  IF d.returns = "int" THEN w.count ELSE w.sum

-----------------------------------------------------------------------------
(* The process: it starts when its configuration is accepted, and stops on *)
(* a crash or when the consumer's Run returns an error, which ends Serve.  *)
(* Everything held in memory goes with it.                                 *)

Idle == [pc |-> "idle", todo |-> {}, upto |-> 0, at |-> 0, done |-> {}]
NoRequest == [events |-> {}, at |-> 0]
Fresh == /\ consumer' = Idle /\ request' = NoRequest
         /\ newest' = [a \in {"kafka", "ingest"} |-> 0]
         /\ limiter' = <<>> /\ spent' = <<>> /\ upAt' = now

Init ==
    /\ cfg \in Configs /\ up = FALSE /\ now = 1
    /\ log = <<>> /\ committed = 0
    /\ consumer = Idle /\ request = NoRequest
    /\ newest = [a \in {"kafka", "ingest"} |-> 0]
    /\ limiter = <<>> /\ spent = <<>> /\ upAt = 1
    /\ processed = <<>> /\ buckets = <<>> /\ counted = <<>>
    /\ faults = 0 /\ submits = 0 /\ refused = {} /\ reported = {}

Start ==
    /\ ~up /\ ingestion(cfg)
    /\ up' = TRUE /\ Fresh
    /\ UNCHANGED <<cfg, now, log, committed, store, faults, submits, refused, reported>>

Stop ==
    /\ up /\ faults < MaxFaults(cfg)
    /\ up' = FALSE /\ faults' = faults + 1 /\ Fresh
    /\ UNCHANGED <<cfg, now, log, committed, store, submits, refused, reported>>

(* A batch is in its transaction within Latency of its check.              *)
Tick ==
    /\ now < MaxTime(cfg)
    /\ consumer.pc \in {"tx", "retrytx"} => now - consumer.at < Latency
    /\ request.events # {} => now - request.at < Latency
    /\ now' = now + 1
    /\ UNCHANGED <<cfg, up, log, committed, memory, store, faults, submits, refused, reported>>

Publish(topic, r) ==
    /\ Len(log) < MaxLog(cfg)
    /\ log' = Append(log, [topic |-> topic, rec |-> r])
    /\ UNCHANGED <<cfg, up, now, committed, memory, store, faults, submits, refused, reported>>

-----------------------------------------------------------------------------
(* Kafka.pollOnce                                                          *)

Binding(topic) == CHOOSE t \in cfg.topics : t.topic = topic
Bound(topic) == \E t \in cfg.topics : t.topic = topic

Decoded(entry) ==
    LET b == Binding(entry.topic)
    IN  Event(b.caller, Decl(cfg, b.source).metric, entry.rec)
decode(entry) ==
    /\ Bound(entry.topic)
    /\ entry.rec.json
    /\ entry.rec.value < 0 => Binding(entry.topic).deduct
    /\ Validate(Decoded(entry))

Polled == {o \in DOMAIN log : committed < o /\ o <= committed + cfg.poll}

(* Mutant: the records are committed as they are fetched.                  *)
pollOnceCommits ==
    LET bad == {o \in Polled : ~decode(log[o])}
    IN  /\ up /\ consumer.pc = "idle" /\ Polled # {}
        /\ refused' = refused \cup bad /\ reported' = reported \cup bad
        /\ consumer' = [Idle EXCEPT !.pc = IF Polled = bad THEN "commit" ELSE "check",
                                    !.todo = Polled \ bad, !.upto = Max(Polled)]
        /\ committed' = Max(Polled)
        /\ UNCHANGED <<cfg, up, now, log, request, newest, limiter, spent, upAt,
                       store, faults, submits>>

pollOnce ==
    LET bad == {o \in Polled : ~decode(log[o])}
    IN  /\ up /\ consumer.pc = "idle" /\ Polled # {}
        /\ refused' = refused \cup bad /\ reported' = reported \cup bad
        /\ consumer' = [Idle EXCEPT !.pc = IF Polled = bad THEN "commit" ELSE "check",
                                    !.todo = Polled \ bad, !.upto = Max(Polled)]
        /\ UNCHANGED <<cfg, up, now, log, committed, request, newest, limiter, spent, upAt,
                       store, faults, submits>>

Events(offsets) == {Decoded(log[o]) : o \in offsets}

(* apply: the whole batch first; one event that can never be accepted makes*)
(* it go through its events one at a time.                                 *)
applyCheck ==
    /\ consumer.pc = "check"
    /\ consumer' = IF \A e \in Events(consumer.todo) : check(e)
                   THEN [consumer EXCEPT !.pc = "tx", !.at = now]
                   ELSE [consumer EXCEPT !.pc = "retry"]
    /\ UNCHANGED <<cfg, up, now, log, committed, request, newest, limiter, spent, upAt,
                   store, faults, submits, refused, reported>>

applyTx ==
    /\ consumer.pc = "tx"
    /\ RecordEvents(Events(consumer.todo))
    /\ Observe("kafka", Events(consumer.todo))
    /\ consumer' = [consumer EXCEPT !.pc = "commit", !.todo = {}, !.at = 0]
    /\ UNCHANGED <<cfg, up, now, log, committed, request, limiter, spent, upAt,
                   faults, submits, refused, reported>>

recordKey(entry) == IF entry.rec.json THEN <<entry.topic, entry.rec.id>> ELSE <<>>
eventKey(e) == <<e.metric, e.id>>

(* The record an event that is refused here is reported as: none, unless a *)
(* record of the batch has the event's key.                                *)
byID(e) ==
    LET same == {o \in (committed + 1)..consumer.upto : recordKey(log[o]) = eventKey(e)}
    IN  {o \in same : o = Max(same)}

(* Mutant: the batch is tried again until all of it is accepted.           *)
retryCheckStalls ==
    /\ consumer.pc = "retry" /\ consumer.todo # {}
    /\ LET o == Min(consumer.todo)
       IN  IF check(Decoded(log[o]))
           THEN /\ consumer' = [consumer EXCEPT !.pc = "retrytx", !.at = now]
                /\ UNCHANGED <<refused, reported>>
           ELSE /\ refused' = refused \cup {o}
                /\ reported' = reported \cup byID(Decoded(log[o]))
                /\ consumer' = [consumer EXCEPT !.pc = "check"]
    /\ UNCHANGED <<cfg, up, now, log, committed, request, newest, limiter, spent, upAt,
                   store, faults, submits>>

retryCheck ==
    /\ consumer.pc = "retry" /\ consumer.todo # {}
    /\ LET o == Min(consumer.todo)
       IN  IF check(Decoded(log[o]))
           THEN /\ consumer' = [consumer EXCEPT !.pc = "retrytx", !.at = now]
                /\ UNCHANGED <<refused, reported>>
           ELSE /\ refused' = refused \cup {o}
                /\ reported' = reported \cup byID(Decoded(log[o]))
                /\ consumer' = [consumer EXCEPT !.todo = @ \ {o}]
    /\ UNCHANGED <<cfg, up, now, log, committed, request, newest, limiter, spent, upAt,
                   store, faults, submits>>

retryTx ==
    /\ consumer.pc = "retrytx"
    /\ RecordEvents(Events({Min(consumer.todo)}))
    /\ consumer' = [consumer EXCEPT !.pc = "retry", !.todo = @ \ {Min(@)}, !.at = 0,
                                    !.done = @ \cup {Min(consumer.todo)}]
    /\ UNCHANGED <<cfg, up, now, log, committed, request, newest, limiter, spent, upAt,
                   faults, submits, refused, reported>>

retryDone ==
    /\ consumer.pc = "retry" /\ consumer.todo = {}
    /\ Observe("kafka", Events(consumer.done))
    /\ consumer' = [consumer EXCEPT !.pc = "commit", !.done = {}]
    /\ UNCHANGED <<cfg, up, now, log, committed, request, limiter, spent, upAt,
                   store, faults, submits, refused, reported>>

CommitRecords ==
    /\ consumer.pc = "commit"
    /\ committed' = consumer.upto
    /\ consumer' = Idle
    /\ UNCHANGED <<cfg, up, now, log, request, newest, limiter, spent, upAt,
                   store, faults, submits, refused, reported>>

-----------------------------------------------------------------------------
(* Ingest.Submit                                                           *)

Rate(limit, default) == withDefaults(IF Unlimited(limit) THEN default ELSE limit)
CallerKey(caller) == <<"caller", caller>>
SubjectKey(caller, subject) == <<"subject", caller, subject>>

(* spent, the history of grants: what each key had, and one more grant.    *)
Had(ledger, key) == IF key \in DOMAIN ledger THEN ledger[key] ELSE 0
Granted(ledger, key, cost) ==
    [k \in DOMAIN ledger \cup {key} |-> Had(ledger, k) + IF k = key THEN cost ELSE 0]

(* One bucket after another until one refuses; what was taken from the     *)
(* ones before it is not put back.                                         *)
Allow(acc, c) ==
    LET a == AllowAt(acc.table, cfg.maxRate, c.key, c.limit, c.cost, now)
    IN  IF ~acc.ok \/ Unlimited(c.limit) THEN acc
        ELSE [ok |-> a.ok, table |-> a.table,
              spent |-> IF a.ok THEN Granted(acc.spent, c.key, c.cost) ELSE acc.spent]

(* charge: the caller, then its subjects in the order of a map.            *)
charges(cred, batch, subjects) ==
    <<[key |-> CallerKey(cred.caller), limit |-> Rate(cred.rate, cfg.rate),
       cost |-> Cardinality(batch)]>>
    \o [i \in DOMAIN subjects |->
          [key |-> SubjectKey(cred.caller, subjects[i]),
           limit |-> Rate(cred.subjectRate, cfg.subjectRate),
           cost |-> Cardinality({r \in batch : r.subject = subjects[i]})]]

(* The limiter after each of them.                                         *)
Charging(cs) ==
    LET after[i \in 0..Len(cs)] ==
          IF i = 0 THEN [ok |-> TRUE, table |-> limiter, spent |-> spent]
          ELSE Allow(after[i - 1], cs[i])
    IN  after
charge(cred, batch, subjects) ==
    LET cs == charges(cred, batch, subjects) IN Charging(cs)[Len(cs)]

(* The refusals before the charge leave nothing behind.                    *)
Admitted(cred, source, batch) ==
    /\ Declared(cfg, source)
    /\ [source |-> source, metric |-> Decl(cfg, source).metric] \in cred.scope
    /\ IsFiniteSet(batch) /\ Cardinality(batch) \in 1..cfg.maxBatch
    /\ \A r \in batch : r.value < 0 => cred.deduct

Submit(cred, source, batch) ==
    LET events   == {Event(cred.caller, Decl(cfg, source).metric, r) : r \in batch}
        subjects == {r.subject : r \in batch}
    IN  /\ up /\ request.events = {} /\ submits < MaxSubmits(cfg)
        /\ Admitted(cred, source, batch)
        /\ \E order \in Bijection(1..Cardinality(subjects), subjects) :
             LET c == charge(cred, batch, order)
             IN  /\ limiter' = c.table /\ spent' = c.spent
                 /\ request' = IF c.ok /\ \A e \in events : check(e)
                               THEN [events |-> events, at |-> now] ELSE NoRequest
        /\ submits' = submits + 1
        /\ UNCHANGED <<cfg, up, now, log, committed, consumer, newest, upAt, store,
                       faults, refused, reported>>

SubmitTx ==
    /\ request.events # {}
    /\ RecordEvents(request.events)
    /\ Observe("ingest", request.events)
    /\ request' = NoRequest
    /\ UNCHANGED <<cfg, up, now, log, committed, consumer, limiter, spent, upAt,
                   faults, submits, refused, reported>>

(* The transaction fails; the producer is answered with an error.          *)
SubmitFails ==
    /\ request.events # {} /\ faults < MaxFaults(cfg)
    /\ request' = NoRequest /\ faults' = faults + 1
    /\ UNCHANGED <<cfg, up, now, log, committed, consumer, newest, limiter, spent, upAt,
                   store, submits, refused, reported>>

-----------------------------------------------------------------------------
(* sweepOnce, on a process whose clock is up to Drift ahead: two deletes,  *)
(* and the second does not happen when the first fails.                    *)

(* Mutant: a deduplication row is kept exactly as long as the window.      *)
KeptEventsNoSlack(clock) == {k \in DOMAIN processed : processed[k] >= clock - MaxWindow}
KeptEvents(clock) == {k \in DOMAIN processed : processed[k] >= clock - (MaxWindow + Slack)}
KeptBuckets(clock) == {row \in DOMAIN buckets : row[3] >= clock - MaxWindow}

sweepOnce(ahead) ==
    /\ processed' = Restrict(processed, KeptEvents(now + ahead))
    /\ \/ buckets' = Restrict(buckets, KeptBuckets(now + ahead))
       \/ UNCHANGED buckets
    /\ UNCHANGED <<cfg, up, now, log, committed, memory, counted, faults, submits,
                   refused, reported>>

Consume == pollOnce \/ applyCheck \/ applyTx \/ retryCheck \/ retryTx \/ retryDone \/ CommitRecords

Next ==
    \/ Start \/ Stop \/ Tick \/ Consume \/ SubmitTx \/ SubmitFails
    \/ \E t \in cfg.topics, r \in Records : Publish(t.topic, r)
    \/ \E cred \in cfg.creds, i \in DOMAIN cfg.decls, batch \in SUBSET Records :
         Submit(cred, cfg.decls[i].name, batch)
    \/ \E ahead \in 0..Drift : sweepOnce(ahead)

Spec == Init /\ [][Next]_vars

(* The consumer's loop runs while the process is up, and an orchestrator   *)
(* restarts a process that stopped.                                        *)
FairSpec == Spec /\ WF_vars(Start) /\ WF_vars(Consume)

-----------------------------------------------------------------------------
(* However often an event is delivered, over the topic or over HTTP, and   *)
(* whatever crashed or was pruned in between, it is added to its bucket    *)
(* once: the horizon of check and the slack of the retention see to it.    *)
CountedOnce == \A e \in DOMAIN counted : counted[e] <= 1

(* When a source answers, it answers the count (or sum) of the events of   *)
(* its subject from the bucket its window starts in up to the tolerated    *)
(* skew: pruning has not reached into a declared window. One that declares *)
(* a freshness limit answers only while an event that recent has been      *)
(* counted: a process that has just started has confirmed nothing.         *)
AnswersAreExact ==
    up => \A i \in DOMAIN cfg.decls, subject \in {r.subject : r \in Records} :
        LET d == cfg.decls[i]
            within == {e \in DOMAIN counted :
                         /\ e.subject = subject /\ e.metric = d.metric
                         /\ Row(e)[3] >= BucketStart(now - d.window, d.width)
                         /\ Row(e)[3] < now + Skew}
        IN  Answers(d) =>
              /\ Lookup(d, subject) = IF d.returns = "int" THEN Cardinality(within) ELSE Total(within)
              /\ d.freshness > 0 => \E e \in DOMAIN counted : e.at >= now - d.freshness

(* The offset is committed past a record only when it was counted or was   *)
(* found unacceptable: a crash never loses an event.                       *)
CommitCovers ==
    \A o \in 1..committed :
        o \in refused \/ (Bound(log[o].topic) /\ Decoded(log[o]) \in DOMAIN counted)

(* The limit charge applies to a key.                                      *)
LimitOf(k, cred) == IF k[1] = "caller" THEN Rate(cred.rate, cfg.rate)
                    ELSE Rate(cred.subjectRate, cfg.subjectRate)

(* Between two restarts no key is granted more than its burst and what its *)
(* rate refills, although a full table forgets buckets.                    *)
RateBound ==
    \A k \in DOMAIN spent : \A cred \in cfg.creds :
        LET limit == LimitOf(k, cred)
        IN  k[2] = cred.caller => spent[k] <= limit.burst + limit.rate * (now - upAt)

(* A record that can never be accepted does not stall the topic: the       *)
(* consumer of a process that runs is not behind for ever.                 *)
ConsumerCatchesUp == []<>(up => committed = Len(log))

=============================================================================
