--------------------------- MODULE VelocityProofs ---------------------------
(***************************************************************************)
(* An event is counted once, no offset is committed past a record that was *)
(* neither counted nor refused, and no key is granted more than its rate   *)
(* allows, for any producers, redeliveries, crashes, delays within Latency *)
(* and clocks within Drift.                                                *)
(*                                                                         *)
(* None is inductive. An event that was counted has its deduplication row, *)
(* or is so old that check refuses it on every clock (Ledger); what is     *)
(* between its check and its transaction is not that old (Current). The    *)
(* offsets up to the end of the batch are pending or covered (Cover). What *)
(* a key was granted and what its bucket still holds add up to no more     *)
(* than its burst and its refill (Balanced).                               *)
(*                                                                         *)
(* The fact plane around the velocity sources takes only their steps or    *)
(* leaves them alone, so the same holds in it.                             *)
(***************************************************************************)
EXTENDS Facts, TLAPS

(* The two facts about numbers and finite sets that the lemmas rest on:    *)
(* they are hypotheses of the lemmas that need them, and WellOrdered and   *)
(* FiniteSetFacts, at the end, prove them from the library's theorems.     *)
LeastExists == \A S \in SUBSET Nat : S # {} => \E t \in S : \A u \in S : t <= u
CountsExist ==
    /\ \A S : IsFiniteSet(S) => Cardinality(S) \in Nat
    /\ \A S : \A T \in SUBSET S : IsFiniteSet(S) => IsFiniteSet(T)
    /\ \A S, T : \A f \in Surjection(S, T) : IsFiniteSet(S) => IsFiniteSet(T)

(* Min picks the least element of a nonempty set with a lower bound.       *)
LEMMA MinIsMember ==
  ASSUME LeastExists, NEW S \in SUBSET Int, S # {}, NEW b \in Int, \A t \in S : b <= t
  PROVE  Min(S) \in S /\ \A u \in S : Min(S) <= u
<1> DEFINE D == {t - b : t \in S}
<1>1. D \in SUBSET Nat /\ D # {}
  <2>1. \A t \in S : t - b \in Nat
    OBVIOUS
  <2> QED
    BY <2>1, Zenon
<1>2. PICK d \in D : \A e \in D : d <= e
  <2> HIDE DEF D
  <2> QED
    BY <1>1 DEF LeastExists
<1>3. PICK t \in S : d = t - b
  BY <1>2
<1>4. \A u \in S : t <= u
  <2> TAKE u \in S
  <2>1. u - b \in D
    OBVIOUS
  <2>2. d <= u - b
    BY <1>2, <2>1
  <2> QED
    BY <1>3, <2>2
<1>5. QED
  BY <1>3, <1>4, Zenon DEF Min

(* Max picks the greatest element of a bounded nonempty set.            *)
LEMMA MaxIsMember ==
  ASSUME LeastExists, NEW S \in SUBSET Int, S # {}, NEW b \in Int, \A t \in S : t <= b
  PROVE  Max(S) \in S /\ \A u \in S : Max(S) >= u
<1> DEFINE D == {b - t : t \in S}
<1>1. D \in SUBSET Nat /\ D # {}
  <2>1. \A t \in S : b - t \in Nat
    OBVIOUS
  <2> QED
    BY <2>1
<1>2. PICK d \in D : \A e \in D : d <= e
  <2> HIDE DEF D
  <2> QED
    BY <1>1 DEF LeastExists
<1>3. PICK t \in S : d = b - t
  BY <1>2
<1>4. \A u \in S : t >= u
  BY <1>2, <1>3
<1>5. QED
  BY <1>3, <1>4, Zenon DEF Max

Genuine(e) == \E r \in Records : e = Event(e.caller, e.metric, r)

Basics ==
    /\ cfg \in Configs /\ now \in Nat /\ committed \in Nat
    /\ log \in Seq([topic : {t.topic : t \in cfg.topics}, rec : Records])
    /\ committed <= Len(log) /\ request.at \in Nat
    /\ consumer \in [pc : {"idle", "check", "tx", "retry", "retrytx", "commit"},
                     todo : SUBSET Nat, upto : Nat, at : Nat, done : SUBSET Nat]
Batch ==
    /\ \A o \in consumer.todo : o \in DOMAIN log /\ Bound(log[o].topic)
    /\ consumer.pc \in {"idle", "commit"} => consumer.todo = {}
    /\ consumer.pc = "retrytx" => consumer.todo # {}
    /\ consumer.pc # "idle" => committed <= consumer.upto /\ consumer.upto <= Len(log)
Covered(o) == o \in refused \/ (Bound(log[o].topic) /\ Decoded(log[o]) \in DOMAIN counted)
Cover ==
    /\ \A o \in 1 .. committed : Covered(o)
    /\ consumer.pc # "idle" =>
         \A o \in committed + 1 .. consumer.upto : o \in consumer.todo \/ Covered(o)
OnTime(o) == now - consumer.at <= Latency /\ Decoded(log[o]).at >= consumer.at - MaxWindow
InTime(events, at) == now - at <= Latency /\ \A e \in events : e.at >= at - MaxWindow
Current ==
    /\ consumer.pc = "tx" => \A o \in consumer.todo : OnTime(o)
    /\ consumer.pc = "retrytx" => OnTime(Min(consumer.todo))
    /\ request.events # {} => InTime(request.events, request.at)
    /\ \A e \in request.events : Genuine(e)
Remembers(e) == \/ Key(e) \in DOMAIN processed /\ processed[Key(e)] = e.at
                \/ e.at < now + Drift - (MaxWindow + Slack)
Ledger ==
    /\ \A e \in DOMAIN counted : Genuine(e) /\ counted[e] = 1 /\ Remembers(e)
    /\ \A k \in DOMAIN processed : \E e \in DOMAIN counted : Key(e) = k
VelocityInv == Basics /\ Batch /\ Cover /\ Current /\ Ledger

-----------------------------------------------------------------------------
(* An event of a record has the record's time.                             *)
LEMMA GenuineAt == ASSUME NEW e, Genuine(e) PROVE e.at \in Nat
    BY VelocityAssumption DEF Genuine, Event

(* The deduplication key tells any two events apart.                       *)
LEMMA KeyTellsApart ==
    ASSUME NEW e, NEW f, Genuine(e), Genuine(f), Key(e) = Key(f)
    PROVE  e = f
<1>1. PICK r \in Records : e = Event(e.caller, e.metric, r)
    BY DEF Genuine
<1>2. PICK s \in Records : f = Event(f.caller, f.metric, s)
    BY DEF Genuine
<1>3. e.id = r.id /\ f.id = s.id
    BY <1>1, <1>2 DEF Event
<1>4. e.caller = f.caller /\ e.id = f.id /\ e.metric = f.metric
    BY DEF Key
<1>5. r = s
    BY <1>3, <1>4, VelocityAssumption, Zenon
<1> QED
    BY <1>1, <1>2, <1>4, <1>5

(* What decode makes of a record is an event of that record.               *)
LEMMA DecodedGenuine ==
    ASSUME Basics, NEW o \in DOMAIN log
    PROVE  Genuine(Decoded(log[o]))
<1>1. log[o].rec \in Records
    <2> DEFINE S == [topic : {t.topic : t \in cfg.topics}, rec : Records]
    <2>1. log \in Seq(S)
        BY DEF Basics
    <2>2. \A x \in S : x.rec \in Records
        OBVIOUS
    <2> HIDE DEF S
    <2> QED
        BY <2>1, <2>2
<1> DEFINE c == Binding(log[o].topic).caller
           n == Decl(cfg, Binding(log[o].topic).source).metric
<1>2. Decoded(log[o]) = Event(c, n, log[o].rec)
    BY DEF Decoded
<1> HIDE DEF c, n
<1>3. Event(c, n, log[o].rec).caller = c /\ Event(c, n, log[o].rec).metric = n
    BY DEF Event
<1> QED
    BY <1>1, <1>2, <1>3 DEF Genuine

(* A step that leaves the configuration and the record alone leaves what   *)
(* the record decodes to alone.                                            *)
LEMMA DecodedStays ==
    ASSUME NEW o, cfg' = cfg, log'[o] = log[o]
    PROVE  /\ Decoded(log[o])' = Decoded(log[o])
           /\ Bound(log[o].topic)' <=> Bound(log[o].topic)
<1>1. Binding(log[o].topic)' = Binding(log[o].topic)
    BY DEF Binding
<1>2. Bound(log[o].topic)' <=> Bound(log[o].topic)
    BY DEF Bound
<1> QED
    BY <1>1, <1>2 DEF Decoded

(* Covered stays covered: nothing is uncounted, nothing unrefused.         *)
LEMMA CoveredStays ==
    ASSUME NEW o, cfg' = cfg, log'[o] = log[o], Covered(o),
           refused \subseteq refused', DOMAIN counted \subseteq DOMAIN counted'
    PROVE  Covered(o)'
BY DecodedStays DEF Covered

-----------------------------------------------------------------------------
(* RecordEvents, on a batch that is in time: what is new is counted for    *)
(* the first time, and everything in the batch is counted afterwards.      *)
LEMMA RecordKeepsLedger ==
    ASSUME Basics, Ledger, NEW E, NEW at \in Nat, \A e \in E : Genuine(e), InTime(E, at),
           RecordEvents(E), now' = now
    PROVE  Ledger' /\ DOMAIN counted \subseteq DOMAIN counted' /\ E \subseteq DOMAIN counted'
<1> DEFINE new == New(E)
<1>1. new \subseteq E /\ \A e \in new : Key(e) \notin DOMAIN processed
    BY DEF New
<1>2. ASSUME NEW e \in new PROVE e \notin DOMAIN counted
    <2> SUFFICES ASSUME e \in DOMAIN counted PROVE FALSE
        OBVIOUS
    <2>1. e.at < now + Drift - (MaxWindow + Slack)
        BY <1>1 DEF Ledger, Remembers
    <2>2. e.at >= at - MaxWindow /\ now - at <= Latency
        BY <1>1 DEF InTime
    <2>3. e.at \in Nat /\ now \in Nat
        BY <1>1, GenuineAt DEF Basics
    <2>4. /\ MaxWindow \in Nat /\ Slack \in Nat /\ Latency \in Nat /\ Drift \in Nat
          /\ Latency + Drift <= Slack
        BY VelocityAssumption
    <2> QED
        BY <2>1, <2>2, <2>3, <2>4
<1>3. /\ DOMAIN processed' = DOMAIN processed \cup {Key(e) : e \in new}
      /\ \A k \in DOMAIN processed : processed'[k] = processed[k]
      /\ \A e \in new : processed'[Key(e)] = (CHOOSE f \in new : Key(f) = Key(e)).at
    BY <1>1 DEF RecordEvents
<1>4. /\ DOMAIN counted' = DOMAIN counted \cup new
      /\ \A e \in DOMAIN counted : e \notin new => counted'[e] = counted[e] + 0
      /\ \A e \in new : e \notin DOMAIN counted => counted'[e] = 0 + 1
    BY DEF RecordEvents
<1> HIDE DEF new
<1>5. \A e \in new : processed'[Key(e)] = e.at
    <2> SUFFICES ASSUME NEW e \in new
                 PROVE  (CHOOSE f \in new : Key(f) = Key(e)).at = e.at
        BY <1>3
    <2> DEFINE g == CHOOSE f \in new : Key(f) = Key(e)
    <2>1. g \in new /\ Key(g) = Key(e)
        OBVIOUS
    <2> HIDE DEF g
    <2>2. g = e
        BY <1>1, <2>1, KeyTellsApart
    <2> QED
        BY <2>2, Zenon DEF g
<1>6. \A e \in DOMAIN counted' : Genuine(e) /\ counted'[e] = 1
    <2> TAKE e \in DOMAIN counted'
    <2>1. CASE e \in new
        BY <1>1, <1>2, <1>4, <2>1
    <2>2. CASE e \notin new
        <3>1. e \in DOMAIN counted /\ counted'[e] = counted[e] + 0
            BY <1>4, <2>2
        <3>2. Genuine(e) /\ counted[e] = 1
            BY <3>1 DEF Ledger
        <3> QED
            BY <3>1, <3>2
    <2> QED
        BY <2>1, <2>2
<1>7. \A e \in DOMAIN counted' : Remembers(e)'
    <2> TAKE e \in DOMAIN counted'
    <2>1. CASE e \in new
        BY <1>3, <1>5, <2>1 DEF Remembers
    <2>2. CASE e \notin new
        <3>1. Remembers(e)
            BY <1>4, <2>2 DEF Ledger
        <3> QED
            BY <1>3, <3>1 DEF Remembers
    <2> QED
        BY <2>1, <2>2
<1>8. \A k \in DOMAIN processed' : \E e \in DOMAIN counted' : Key(e) = k
    BY <1>3, <1>4 DEF Ledger
<1>9. E \subseteq DOMAIN counted'
    <2> SUFFICES ASSUME NEW e \in E, e \notin new PROVE e \in DOMAIN counted
        BY <1>4
    <2>1. Key(e) \in DOMAIN processed
        BY DEF new, New
    <2>2. PICK f \in DOMAIN counted : Key(f) = Key(e)
        BY <2>1 DEF Ledger
    <2>3. f = e
        BY <2>2, KeyTellsApart DEF Ledger
    <2> QED
        BY <2>2, <2>3
<1> QED
    BY <1>4, <1>6, <1>7, <1>8, <1>9 DEF Ledger

(* Nothing but a transaction and the pruning touches the ledger.           *)
LEMMA LedgerStays ==
    ASSUME Ledger, now \in Nat, now' \in Nat, now <= now', UNCHANGED store
    PROVE  Ledger'
<1>1. /\ processed' = processed /\ counted' = counted
      /\ MaxWindow \in Nat /\ Slack \in Nat /\ Drift \in Nat
    BY VelocityAssumption DEF store
<1>2. \A e \in DOMAIN counted : e.at \in Nat
    BY GenuineAt DEF Ledger
<1>3. \A e \in DOMAIN counted : Remembers(e)'
    BY <1>1, <1>2 DEF Ledger, Remembers
<1> QED
    BY <1>1, <1>3 DEF Ledger
-----------------------------------------------------------------------------
(* The steps that leave the consumer alone leave its batch as it is.       *)
LEMMA ConsumerStays ==
    ASSUME VelocityInv, cfg' = cfg, committed' = committed, consumer' = consumer,
           refused' = refused, DOMAIN counted \subseteq DOMAIN counted',
           Len(log') \in Nat, DOMAIN log' = 1 .. Len(log'), Len(log) <= Len(log'),
           \A o \in DOMAIN log : log'[o] = log[o]
    PROVE  Batch' /\ Cover' /\ \A o \in consumer.todo : Decoded(log[o])' = Decoded(log[o])
<1>1. Len(log) \in Nat /\ DOMAIN log = 1 .. Len(log) /\ committed \in Nat /\ committed <= Len(log)
    BY DEF VelocityInv, Basics
<1>2. \A o \in DOMAIN log : /\ o \in DOMAIN log' /\ (Covered(o) => Covered(o)')
                            /\ Decoded(log[o])' = Decoded(log[o])
                            /\ (Bound(log[o].topic)' <=> Bound(log[o].topic))
    BY <1>1, CoveredStays, DecodedStays
<1>3. Batch'
    <2>1. \A o \in consumer.todo : o \in DOMAIN log' /\ Bound(log[o].topic)'
        BY <1>2 DEF VelocityInv, Batch
    <2>2. consumer.upto \in Nat /\ (consumer.pc # "idle" => consumer.upto <= Len(log'))
        BY <1>1 DEF VelocityInv, Basics, Batch
    <2> QED
        BY <2>1, <2>2 DEF VelocityInv, Batch
<1>4. Cover'
    <2>1. \A o \in 1 .. committed : o \in DOMAIN log /\ Covered(o)
        BY <1>1 DEF VelocityInv, Cover
    <2>2. ASSUME consumer.pc # "idle", NEW o \in committed + 1 .. consumer.upto
          PROVE  o \in DOMAIN log /\ (o \in consumer.todo \/ Covered(o))
        BY <1>1, <2>2 DEF VelocityInv, Basics, Batch, Cover
    <2> QED
        BY <1>2, <2>1, <2>2 DEF Cover
<1>5. \A o \in consumer.todo : o \in DOMAIN log
    BY DEF VelocityInv, Batch
<1> QED
    BY <1>2, <1>3, <1>4, <1>5

(* What was committed stays covered.                                       *)
LEMMA CommittedStays ==
    ASSUME VelocityInv, cfg' = cfg, committed' = committed, log' = log,
           refused \subseteq refused', DOMAIN counted \subseteq DOMAIN counted'
    PROVE  \A o \in 1 .. committed' : Covered(o)'
BY CoveredStays DEF VelocityInv, Cover

(* Start and Stop forget what is in memory.                                *)
LEMMA FreshKeeps ==
    ASSUME VelocityInv, Start \/ Stop
    PROVE  VelocityInv'
<1>1. /\ consumer' = Idle /\ request' = NoRequest /\ cfg' = cfg /\ now' = now /\ log' = log
      /\ committed' = committed /\ refused' = refused /\ UNCHANGED store
    BY DEF Start, Stop, Fresh
<1>2. Basics' /\ Batch' /\ Current' /\ consumer'.pc = "idle"
    BY <1>1 DEF VelocityInv, Basics, Batch, Current, Idle, NoRequest
<1>3. Cover'
    BY <1>1, <1>2, CommittedStays DEF Cover, store
<1>4. Ledger'
    BY <1>1, LedgerStays DEF VelocityInv, Basics
<1> QED
    BY <1>2, <1>3, <1>4 DEF VelocityInv

(* Tick, while no batch waits longer than Latency.                         *)
LEMMA TickKeeps ==
    ASSUME VelocityInv, Tick
    PROVE  VelocityInv'
<1>1. /\ consumer' = consumer /\ request' = request /\ cfg' = cfg /\ now' = now + 1 /\ log' = log
      /\ committed' = committed /\ refused' = refused /\ UNCHANGED store
      /\ consumer.pc \in {"tx", "retrytx"} => now - consumer.at < Latency
      /\ request.events # {} => now - request.at < Latency
    BY DEF Tick, memory
<1>2. /\ now \in Nat /\ consumer.at \in Nat /\ request.at \in Nat /\ Latency \in Nat
      /\ Len(log) \in Nat /\ DOMAIN log = 1 .. Len(log)
    BY VelocityAssumption DEF VelocityInv, Basics
<1>3. Basics'
    BY <1>1, <1>2 DEF VelocityInv, Basics
<1>4. Batch' /\ Cover'
    BY <1>1, <1>2, ConsumerStays DEF store
<1>5. Ledger'
    BY <1>1, <1>2, LedgerStays DEF VelocityInv
<1>6. Current'
    <2>1. \A o : Decoded(log[o])' = Decoded(log[o])
        BY <1>1, DecodedStays
    <2> QED
        BY <1>1, <1>2, <2>1, SMTT(30) DEF VelocityInv, Current, OnTime, InTime
<1> QED
    BY <1>3, <1>4, <1>5, <1>6 DEF VelocityInv

(* Publish only adds to the end of the topic.                              *)
LEMMA PublishKeeps ==
    ASSUME LeastExists, VelocityInv, NEW t \in cfg.topics, NEW r \in Records, Publish(t.topic, r)
    PROVE  VelocityInv'
<1>1. /\ consumer' = consumer /\ request' = request /\ cfg' = cfg /\ now' = now
      /\ committed' = committed /\ refused' = refused /\ UNCHANGED store
      /\ log' = Append(log, [topic |-> t.topic, rec |-> r])
    BY DEF Publish, memory
<1>2. [topic |-> t.topic, rec |-> r] \in [topic : {u.topic : u \in cfg.topics}, rec : Records]
    OBVIOUS
<1>3. /\ log' \in Seq([topic : {u.topic : u \in cfg.topics}, rec : Records])
      /\ Len(log) \in Nat /\ Len(log') = Len(log) + 1 /\ DOMAIN log' = 1 .. Len(log')
      /\ \A o \in DOMAIN log : log'[o] = log[o]
    BY <1>1, <1>2 DEF VelocityInv, Basics
<1>4. Basics'
    BY <1>1, <1>3 DEF VelocityInv, Basics
<1>5. Batch' /\ Cover' /\ \A o \in consumer.todo : Decoded(log[o])' = Decoded(log[o])
    <2>1. Len(log') \in Nat /\ Len(log) <= Len(log') /\ DOMAIN counted \subseteq DOMAIN counted'
        BY <1>1, <1>3 DEF store
    <2> HIDE DEF VelocityInv
    <2> QED
        BY <1>1, <1>3, <2>1, ConsumerStays, Zenon
<1>6. Ledger'
    BY <1>1, LedgerStays DEF VelocityInv, Basics
<1>7. consumer.pc = "retrytx" => Min(consumer.todo) \in consumer.todo
    BY MinIsMember DEF VelocityInv, Basics, Batch
<1>8. Current'
    BY <1>1, <1>5, <1>7, Zenon DEF VelocityInv, Current, OnTime, InTime
<1> QED
    BY <1>4, <1>5, <1>6, <1>8 DEF VelocityInv
-----------------------------------------------------------------------------
(* A batch may only shrink, by offsets that are covered from then on.      *)
LEMMA ConsumerMoves ==
    ASSUME VelocityInv, cfg' = cfg, log' = log, committed' = committed, consumer.pc # "idle",
           refused \subseteq refused', DOMAIN counted \subseteq DOMAIN counted',
           consumer'.upto = consumer.upto, consumer'.todo \subseteq consumer.todo,
           \A o \in consumer.todo \ consumer'.todo : Covered(o)'
    PROVE  /\ Cover' /\ \A o \in consumer'.todo : o \in DOMAIN log' /\ Bound(log[o].topic)'
           /\ committed' <= consumer'.upto /\ consumer'.upto <= Len(log')
<1>1. \A o : /\ Covered(o) => Covered(o)'
             /\ Bound(log[o].topic)' <=> Bound(log[o].topic)
    BY CoveredStays, DecodedStays
<1>2. \A o \in committed + 1 .. consumer.upto : o \in consumer.todo \/ Covered(o)
    BY DEF VelocityInv, Cover
<1>3. \A o \in committed' + 1 .. consumer'.upto : o \in consumer'.todo \/ Covered(o)'
    BY <1>1, <1>2
<1>4. \A o \in 1 .. committed' : Covered(o)'
    BY CommittedStays
<1>5. Cover'
    BY <1>3, <1>4 DEF Cover
<1>6. \A o \in consumer'.todo : o \in DOMAIN log' /\ Bound(log[o].topic)'
    BY <1>1 DEF VelocityInv, Batch
<1> QED
    BY <1>5, <1>6 DEF VelocityInv, Batch

(* The request waits beside the consumer's steps.                          *)
LEMMA RequestWaits ==
    ASSUME VelocityInv, request' = request, now' = now,
           consumer'.pc \notin {"tx", "retrytx"}
    PROVE  Current'
BY DEF VelocityInv, Current, InTime

(* pollOnce: what it fetched follows the offset without a gap, and what it *)
(* cannot decode is refused.                                               *)
LEMMA PollKeeps ==
    ASSUME LeastExists, VelocityInv, pollOnce
    PROVE  VelocityInv'
<1> DEFINE bad == {o \in Polled : ~decode(log[o])}
           p == Polled
<1>1. /\ request' = request /\ cfg' = cfg /\ now' = now /\ log' = log
      /\ committed' = committed /\ UNCHANGED store /\ refused' = refused \cup bad
      /\ p # {} /\ consumer' = [pc |-> IF p = bad THEN "commit" ELSE "check", todo |-> p \ bad,
                                upto |-> Max(p), at |-> 0, done |-> {}]
    BY Zenon DEF pollOnce, Idle
<1>2. /\ Len(log) \in Nat /\ DOMAIN log = 1 .. Len(log) /\ committed \in Nat /\ cfg.poll \in Nat
    BY VelocityAssumption DEF VelocityInv, Basics
<1>3. \A o : o \in p <=> o \in 1 .. Len(log) /\ committed < o /\ o <= committed + cfg.poll
    BY <1>2 DEF Polled
<1>4. \A o \in p \ bad : Bound(log[o].topic)
    BY DEF decode
<1>5. bad \subseteq p
    OBVIOUS
<1> HIDE DEF bad, p
<1>6. Max(p) \in p
    <2>1. p \in SUBSET Int /\ \A o \in p : o <= Len(log)
        BY <1>2, <1>3
    <2>2. Len(log) \in Int /\ p # {}
        BY <1>1, <1>2
    <2> QED
        BY <2>1, <2>2, MaxIsMember, Zenon
<1>7. \A o \in committed + 1 .. Max(p) : o \in p
    BY <1>2, <1>3, <1>6
<1>8. p \ bad \in SUBSET Nat /\ Max(p) \in Nat
    BY <1>2, <1>3, <1>6
<1>9. Basics'
    BY <1>1, <1>8 DEF VelocityInv, Basics
<1>10. \A o \in p : o \in DOMAIN log' /\ (Bound(log[o].topic)' <=> Bound(log[o].topic))
    BY <1>1, <1>2, <1>3, DecodedStays
<1>11. Batch'
    <2>1. \A o \in consumer'.todo : o \in DOMAIN log' /\ Bound(log[o].topic)'
        BY <1>1, <1>4, <1>10
    <2>2. committed' <= consumer'.upto /\ consumer'.upto <= Len(log')
        BY <1>1, <1>2, <1>3, <1>6
    <2>3. consumer'.pc \in {"commit", "check"} /\ (consumer'.pc = "commit" => consumer'.todo = {})
        BY <1>1
    <2> QED
        BY <2>1, <2>2, <2>3 DEF Batch
<1>12. Cover'
    <2>1. \A o \in 1 .. committed' : Covered(o)'
        BY <1>1, CommittedStays DEF store
    <2>2. \A o \in committed' + 1 .. consumer'.upto : o \in consumer'.todo \/ o \in refused'
        BY <1>1, <1>7
    <2> QED
        BY <2>1, <2>2 DEF Cover, Covered
<1>13. Current'
    BY <1>1, RequestWaits
<1>14. Ledger'
    BY <1>1, LedgerStays DEF VelocityInv, Basics
<1> QED
    BY <1>9, <1>11, <1>12, <1>13, <1>14 DEF VelocityInv

(* applyCheck puts only what is in the horizon before the transaction.     *)
LEMMA ApplyCheckKeeps ==
    ASSUME VelocityInv, applyCheck
    PROVE  VelocityInv'
<1>1. /\ request' = request /\ cfg' = cfg /\ now' = now /\ log' = log /\ consumer.pc = "check"
      /\ committed' = committed /\ UNCHANGED store /\ refused' = refused
      /\ consumer' \in [pc : {"tx", "retry"}, todo : SUBSET Nat, upto : Nat, at : Nat, done : SUBSET Nat]
      /\ consumer'.todo = consumer.todo /\ consumer'.upto = consumer.upto
      /\ consumer'.pc = "tx" => /\ consumer'.at = now
                                /\ \A e \in Events(consumer.todo) : check(e)
    BY Zenon DEF applyCheck, VelocityInv, Basics
<1>2. Basics'
    BY <1>1 DEF VelocityInv, Basics
<1>3. /\ Cover' /\ \A o \in consumer'.todo : o \in DOMAIN log' /\ Bound(log[o].topic)'
      /\ committed' <= consumer'.upto /\ consumer'.upto <= Len(log')
    BY <1>1, ConsumerMoves DEF store
<1>4. Batch'
    BY <1>1, <1>3 DEF Batch
<1>5. Ledger'
    BY <1>1, LedgerStays DEF VelocityInv, Basics
<1>6. Current'
    <2>1. CASE consumer'.pc # "tx"
        BY <1>1, <2>1, RequestWaits
    <2>2. CASE consumer'.pc = "tx"
        <3>1. \A o \in consumer.todo : Decoded(log[o]).at >= now - MaxWindow
            BY <1>1, <2>2 DEF Events, check
        <3>2. \A o : Decoded(log[o])' = Decoded(log[o])
            BY <1>1, DecodedStays
        <3>3. now \in Nat /\ Latency \in Nat
            BY VelocityAssumption DEF VelocityInv, Basics
        <3>4. now' - consumer'.at <= Latency /\ consumer'.at = now /\ consumer'.todo = consumer.todo
            BY <1>1, <2>2, <3>3
        <3>5. \A o \in consumer'.todo : OnTime(o)'
            BY <3>1, <3>2, <3>4 DEF OnTime
        <3>6. /\ request.events # {} => InTime(request.events, request.at)
              /\ \A e \in request.events : Genuine(e)
            BY Zenon DEF VelocityInv, Current
        <3>7. /\ (request.events # {} => InTime(request.events, request.at))'
              /\ (\A e \in request.events : Genuine(e))'
            BY <1>1, <3>6, Zenon DEF InTime, Genuine
        <3> QED
            BY <2>2, <3>5, <3>7, Zenon DEF Current
    <2> QED
        BY <2>1, <2>2
<1> QED
    BY <1>2, <1>3, <1>4, <1>5, <1>6 DEF VelocityInv

(* One transaction over some of the batch: the ledger holds them, and they *)
(* are covered.                                                            *)
LEMMA TransactionCovers ==
    ASSUME VelocityInv, NEW T \in SUBSET consumer.todo, RecordEvents(Events(T)),
           \A o \in T : OnTime(o), cfg' = cfg, log' = log, now' = now
    PROVE  Ledger' /\ DOMAIN counted \subseteq DOMAIN counted' /\ \A o \in T : Covered(o)'
<1> DEFINE E == Events(T)
<1>1. \A o \in T : o \in DOMAIN log /\ Bound(log[o].topic) /\ Decoded(log[o]) \in E
    BY DEF VelocityInv, Batch, Events
<1>2. \A e \in E : Genuine(e)
    BY <1>1, DecodedGenuine DEF VelocityInv, Events
<1>3. CASE T = {}
    <2>1. E = {}
        BY <1>3 DEF Events
    <2>2. /\ now \in Nat /\ InTime(E, now)
        BY <2>1, VelocityAssumption DEF InTime, VelocityInv, Basics
    <2> HIDE DEF E
    <2>3. Ledger' /\ DOMAIN counted \subseteq DOMAIN counted'
        BY <1>2, <2>2, RecordKeepsLedger DEF VelocityInv, E
    <2> QED
        BY <1>3, <2>3
<1>4. CASE T # {}
    <2>1. consumer.at \in Nat /\ InTime(E, consumer.at)
        BY <1>4, Zenon DEF InTime, OnTime, Events, VelocityInv, Basics
    <2> HIDE DEF E
    <2>2. Ledger' /\ DOMAIN counted \subseteq DOMAIN counted' /\ E \subseteq DOMAIN counted'
        BY <1>2, <2>1, RecordKeepsLedger DEF VelocityInv, E
    <2>3. \A o \in T : Covered(o)'
        BY <1>1, <2>2, DecodedStays, Zenon DEF Covered
    <2> QED
        BY <2>2, <2>3
<1> QED
    BY <1>3, <1>4
-----------------------------------------------------------------------------
(* applyTx counts the whole batch.                                         *)
LEMMA ApplyTxKeeps ==
    ASSUME VelocityInv, applyTx
    PROVE  VelocityInv'
<1>1. /\ request' = request /\ cfg' = cfg /\ now' = now /\ log' = log /\ consumer.pc = "tx"
      /\ committed' = committed /\ refused' = refused /\ RecordEvents(Events(consumer.todo))
      /\ consumer' \in [pc : {"commit"}, todo : {{}}, upto : Nat, at : Nat, done : SUBSET Nat]
      /\ consumer'.upto = consumer.upto
    BY Zenon DEF applyTx, VelocityInv, Basics
<1>2. Basics'
    BY <1>1 DEF VelocityInv, Basics
<1>3. \A o \in consumer.todo : OnTime(o)
    BY <1>1, Zenon DEF VelocityInv, Current
<1>4. /\ Ledger' /\ DOMAIN counted \subseteq DOMAIN counted'
      /\ \A o \in consumer.todo : Covered(o)'
    BY <1>1, <1>3, TransactionCovers
<1>5. Cover' /\ committed' <= consumer'.upto /\ consumer'.upto <= Len(log')
    BY <1>1, <1>4, ConsumerMoves
<1>6. Batch' /\ Current'
    BY <1>1, <1>5, RequestWaits DEF Batch
<1> QED
    BY <1>2, <1>4, <1>5, <1>6 DEF VelocityInv

(* The first offset of a batch that is not empty is one of its offsets.    *)
LEMMA FirstOffset ==
    ASSUME LeastExists, VelocityInv, consumer.todo # {}
    PROVE  Min(consumer.todo) \in consumer.todo /\ Min(consumer.todo) \in Nat
<1> DEFINE S == consumer.todo
<1>1. S \in SUBSET Nat
    BY DEF VelocityInv, Basics
<1> HIDE DEF S
<1>2. S \in SUBSET Int /\ 0 \in Int /\ \A t \in S : 0 <= t
    BY <1>1
<1>3. S # {}
    BY DEF S
<1>4. Min(S) \in S
    BY <1>2, <1>3, MinIsMember, Zenon
<1> QED
    BY <1>1, <1>4 DEF S

(* retryCheck refuses the first event for good, or takes it to its own     *)
(* transaction.                                                            *)
LEMMA RetryCheckKeeps ==
    ASSUME LeastExists, VelocityInv, retryCheck
    PROVE  VelocityInv'
<1> DEFINE o == Min(consumer.todo)
<1>1. /\ request' = request /\ cfg' = cfg /\ now' = now /\ log' = log /\ consumer.pc = "retry"
      /\ committed' = committed /\ UNCHANGED store /\ consumer.todo # {}
      /\ \/ /\ check(Decoded(log[o])) /\ refused' = refused
            /\ consumer' = [consumer EXCEPT !.pc = "retrytx", !.at = now]
         \/ /\ refused' = refused \cup {o}
            /\ consumer' = [consumer EXCEPT !.todo = @ \ {o}]
    BY DEF retryCheck
<1>2. o \in consumer.todo /\ now \in Nat /\ Latency \in Nat
    BY <1>1, FirstOffset, VelocityAssumption DEF VelocityInv, Basics
<1>3. CASE check(Decoded(log[o])) /\ refused' = refused
           /\ consumer' = [consumer EXCEPT !.pc = "retrytx", !.at = now]
    <2>1. /\ consumer' \in [pc : {"retrytx"}, todo : SUBSET Nat, upto : Nat, at : {now}, done : SUBSET Nat]
          /\ consumer'.todo = consumer.todo /\ consumer'.upto = consumer.upto
        BY <1>3, Zenon DEF VelocityInv, Basics
    <2>2. Basics'
        BY <1>1, <1>2, <2>1 DEF VelocityInv, Basics
    <2>3. /\ Cover' /\ \A n \in consumer'.todo : n \in DOMAIN log' /\ Bound(log[n].topic)'
          /\ committed' <= consumer'.upto /\ consumer'.upto <= Len(log')
        BY <1>1, <1>3, <2>1, ConsumerMoves DEF store
    <2>4. Batch'
        BY <1>1, <2>1, <2>3 DEF Batch
    <2>5. Decoded(log[o]).at >= now - MaxWindow /\ Decoded(log[o])' = Decoded(log[o])
        <3>1. Decoded(log[o]).at >= now - MaxWindow
            BY <1>3 DEF check
        <3> HIDE DEF o
        <3>2. Decoded(log[o]).at >= now - MaxWindow
            BY <3>1 DEF o
        <3> QED
            BY <1>1, <3>2, <2>1, DecodedStays DEF o
    <2>6. OnTime(Min(consumer.todo))'
        BY <1>1, <1>2, <2>1, <2>5 DEF OnTime
    <2>7. Current'
        BY <1>1, <2>1, <2>6 DEF VelocityInv, Current, InTime
    <2>8. Ledger'
        BY <1>1, LedgerStays DEF VelocityInv, Basics
    <2> QED
        BY <2>2, <2>3, <2>4, <2>7, <2>8 DEF VelocityInv
<1>4. CASE refused' = refused \cup {o} /\ consumer' = [consumer EXCEPT !.todo = @ \ {o}]
    <2>1. /\ consumer' \in [pc : {"retry"}, todo : SUBSET Nat, upto : Nat, at : Nat, done : SUBSET Nat]
          /\ consumer'.todo = consumer.todo \ {o} /\ consumer'.upto = consumer.upto
        BY <1>1, <1>4 DEF VelocityInv, Basics
    <2>2. Basics'
        BY <1>1, <2>1 DEF VelocityInv, Basics
    <2> HIDE DEF o
    <2>3. \A n \in consumer.todo \ consumer'.todo : Covered(n)'
        BY <1>4, <2>1 DEF Covered
    <2>4. /\ Cover' /\ \A n \in consumer'.todo : n \in DOMAIN log' /\ Bound(log[n].topic)'
          /\ committed' <= consumer'.upto /\ consumer'.upto <= Len(log')
        BY <1>1, <1>4, <2>1, <2>3, ConsumerMoves DEF store
    <2>5. Batch' /\ Current'
        BY <1>1, <2>1, <2>4, RequestWaits DEF Batch
    <2>6. Ledger'
        BY <1>1, LedgerStays DEF VelocityInv, Basics
    <2> QED
        BY <2>2, <2>4, <2>5, <2>6 DEF VelocityInv
<1> QED
    BY <1>1, <1>3, <1>4

(* retryTx counts the first event on its own.                              *)
LEMMA RetryTxKeeps ==
    ASSUME LeastExists, VelocityInv, retryTx
    PROVE  VelocityInv'
<1> DEFINE o == Min(consumer.todo)
<1>1. /\ request' = request /\ cfg' = cfg /\ now' = now /\ log' = log /\ consumer.pc = "retrytx"
      /\ committed' = committed /\ refused' = refused /\ RecordEvents(Events({o}))
      /\ consumer' = [consumer EXCEPT !.pc = "retry", !.todo = @ \ {o}, !.at = 0, !.done = @ \cup {o}]
    BY DEF retryTx
<1>2. o \in consumer.todo /\ o \in Nat /\ OnTime(o)
    BY <1>1, FirstOffset DEF VelocityInv, Batch, Current
<1> HIDE DEF o
<1>3. /\ consumer' \in [pc : {"retry"}, todo : SUBSET Nat, upto : Nat, at : Nat, done : SUBSET Nat]
      /\ consumer'.todo = consumer.todo \ {o} /\ consumer'.upto = consumer.upto
    BY <1>1, <1>2, Zenon DEF VelocityInv, Basics
<1>4. Basics'
    BY <1>1, <1>3 DEF VelocityInv, Basics
<1>5. Ledger' /\ DOMAIN counted \subseteq DOMAIN counted' /\ \A n \in {o} : Covered(n)'
    <2>1. {o} \in SUBSET consumer.todo /\ \A n \in {o} : OnTime(n)
        BY <1>2
    <2> QED
        BY <1>1, <2>1, TransactionCovers
<1>6. /\ Cover' /\ \A n \in consumer'.todo : n \in DOMAIN log' /\ Bound(log[n].topic)'
      /\ committed' <= consumer'.upto /\ consumer'.upto <= Len(log')
    BY <1>1, <1>3, <1>5, ConsumerMoves
<1>7. Batch' /\ Current'
    BY <1>1, <1>3, <1>6, RequestWaits DEF Batch
<1> QED
    BY <1>4, <1>5, <1>6, <1>7 DEF VelocityInv

(* retryDone and CommitRecords: the batch is empty, so all of it is        *)
(* covered when the offset moves.                                          *)
LEMMA RetryDoneKeeps ==
    ASSUME VelocityInv, retryDone
    PROVE  VelocityInv'
<1>1. /\ request' = request /\ cfg' = cfg /\ now' = now /\ log' = log /\ consumer.pc = "retry"
      /\ committed' = committed /\ refused' = refused /\ UNCHANGED store
      /\ consumer' \in [pc : {"commit"}, todo : {{}}, upto : Nat, at : Nat, done : SUBSET Nat]
      /\ consumer'.upto = consumer.upto /\ consumer.todo = {}
    BY Zenon DEF retryDone, VelocityInv, Basics
<1>2. Basics' /\ Ledger'
    BY <1>1, LedgerStays DEF VelocityInv, Basics
<1>3. /\ Cover' /\ committed' <= consumer'.upto /\ consumer'.upto <= Len(log')
    BY <1>1, ConsumerMoves DEF store
<1>4. Batch' /\ Current'
    BY <1>1, <1>3, RequestWaits DEF Batch
<1> QED
    BY <1>2, <1>3, <1>4 DEF VelocityInv

(* CommitRecords moves the offset over the batch.                          *)
LEMMA CommitKeeps ==
    ASSUME VelocityInv, CommitRecords
    PROVE  VelocityInv'
<1>1. /\ request' = request /\ cfg' = cfg /\ now' = now /\ log' = log /\ consumer.pc = "commit"
      /\ committed' = consumer.upto /\ refused' = refused /\ UNCHANGED store /\ consumer' = Idle
    BY DEF CommitRecords
<1>2. /\ consumer.todo = {} /\ committed \in Nat /\ consumer.upto \in Nat
      /\ committed <= consumer.upto /\ consumer.upto <= Len(log)
    BY <1>1 DEF VelocityInv, Basics, Batch
<1>3. Basics' /\ Batch' /\ consumer'.pc = "idle"
    BY <1>1, <1>2 DEF VelocityInv, Basics, Batch, Idle
<1>4. Ledger' /\ Current'
    BY <1>1, <1>3, LedgerStays, RequestWaits DEF VelocityInv, Basics
<1>5. \A o \in 1 .. consumer.upto : Covered(o)
    BY <1>1, <1>2 DEF VelocityInv, Cover
<1>6. Cover'
    BY <1>1, <1>3, <1>5, CoveredStays DEF Cover, store
<1> QED
    BY <1>3, <1>4, <1>6 DEF VelocityInv
-----------------------------------------------------------------------------
(* The HTTP steps leave the consumer as it is.                             *)
LEMMA ConsumerWaits ==
    ASSUME VelocityInv, cfg' = cfg, now' = now, log' = log, committed' = committed,
           consumer' = consumer, refused' = refused, DOMAIN counted \subseteq DOMAIN counted',
           request'.at \in Nat, \A e \in request'.events : Genuine(e),
           request'.events # {} => InTime(request'.events, request'.at)
    PROVE  Basics' /\ Batch' /\ Cover' /\ Current'
<1>1. Basics'
    BY DEF VelocityInv, Basics
<1>2. Batch' /\ Cover'
    <2>1. Len(log') \in Nat /\ DOMAIN log' = 1 .. Len(log') /\ Len(log) <= Len(log')
        BY DEF VelocityInv, Basics
    <2> QED
        BY <2>1, ConsumerStays
<1>3. \A o : Decoded(log[o])' = Decoded(log[o])
    BY DecodedStays
<1>4. Current'
    BY <1>3 DEF VelocityInv, Current, OnTime, InTime
<1> QED
    BY <1>1, <1>2, <1>4

(* Submit leaves a request waiting only with events in the horizon.        *)
LEMMA SubmitKeeps ==
    ASSUME VelocityInv, NEW cred, NEW source, NEW batch \in SUBSET Records,
           Submit(cred, source, batch)
    PROVE  VelocityInv'
<1> DEFINE n == Decl(cfg, source).metric
           events == {Event(cred.caller, n, r) : r \in batch}
<1>1. /\ cfg' = cfg /\ now' = now /\ log' = log /\ committed' = committed
      /\ consumer' = consumer /\ refused' = refused /\ UNCHANGED store
      /\ \/ request' = NoRequest
         \/ request' = [events |-> events, at |-> now] /\ \A e \in events : check(e)
    BY Zenon DEF Submit
<1>2. \A e \in events : Genuine(e)
    <2> HIDE DEF n
    <2> SUFFICES ASSUME NEW r \in batch PROVE Genuine(Event(cred.caller, n, r))
        OBVIOUS
    <2>1. Event(cred.caller, n, r).caller = cred.caller /\ Event(cred.caller, n, r).metric = n
        BY DEF Event
    <2> QED
        BY <2>1 DEF Genuine
<1> HIDE DEF events
<1>3. now \in Nat /\ Latency \in Nat
    BY VelocityAssumption DEF VelocityInv, Basics
<1>4. /\ request'.at \in Nat /\ \A e \in request'.events : Genuine(e)
      /\ request'.events # {} => InTime(request'.events, request'.at)
    BY <1>1, <1>2, <1>3 DEF NoRequest, InTime, check
<1>5. Ledger'
    BY <1>1, LedgerStays DEF VelocityInv, Basics
<1>6. Basics' /\ Batch' /\ Cover' /\ Current'
    BY <1>1, <1>4, ConsumerWaits DEF store
<1> QED
    BY <1>5, <1>6 DEF VelocityInv

(* SubmitTx counts the request's events; SubmitFails counts none.          *)
LEMMA SubmitTxKeeps ==
    ASSUME VelocityInv, SubmitTx \/ SubmitFails
    PROVE  VelocityInv'
<1>1. /\ cfg' = cfg /\ now' = now /\ log' = log /\ committed' = committed /\ request.events # {}
      /\ consumer' = consumer /\ refused' = refused /\ request' = NoRequest
      /\ RecordEvents(request.events) \/ UNCHANGED store
    BY DEF SubmitTx, SubmitFails
<1>2. Ledger' /\ DOMAIN counted \subseteq DOMAIN counted'
    <2>1. CASE RecordEvents(request.events)
        <3>1. /\ request.at \in Nat /\ InTime(request.events, request.at)
              /\ \A e \in request.events : Genuine(e)
            BY <1>1 DEF VelocityInv, Basics, Current
        <3> QED
            BY <1>1, <2>1, <3>1, RecordKeepsLedger, Zenon DEF VelocityInv
    <2>2. CASE UNCHANGED store
        BY <1>1, <2>2, LedgerStays DEF VelocityInv, Basics, store
    <2> QED
        BY <1>1, <2>1, <2>2
<1>3. /\ request'.at \in Nat /\ request'.events = {}
    BY <1>1 DEF NoRequest
<1>4. Basics' /\ Batch' /\ Cover' /\ Current'
    BY <1>1, <1>2, <1>3, ConsumerWaits
<1> QED
    BY <1>2, <1>4 DEF VelocityInv

(* sweepOnce drops a deduplication row only of an event too old to be      *)
(* accepted, whichever clock it swept by.                                  *)
LEMMA SweepKeeps ==
    ASSUME VelocityInv, NEW ahead \in 0 .. Drift, sweepOnce(ahead)
    PROVE  VelocityInv'
<1>1. /\ cfg' = cfg /\ now' = now /\ log' = log /\ committed' = committed /\ request' = request
      /\ consumer' = consumer /\ refused' = refused /\ counted' = counted
      /\ processed' = Restrict(processed, KeptEvents(now + ahead))
    BY DEF sweepOnce, memory
<1>2. /\ DOMAIN processed' = KeptEvents(now + ahead)
      /\ \A k \in KeptEvents(now + ahead) : processed'[k] = processed[k]
    BY <1>1 DEF Restrict
<1>3. \A k : k \in KeptEvents(now + ahead)
             <=> k \in DOMAIN processed /\ processed[k] >= (now + ahead) - (MaxWindow + Slack)
    BY DEF KeptEvents
<1>4. now \in Nat /\ MaxWindow \in Nat /\ Slack \in Nat /\ Drift \in Nat
    BY VelocityAssumption DEF VelocityInv, Basics
<1>5. Ledger'
    <2>1. ASSUME NEW e \in DOMAIN counted
          PROVE  Genuine(e) /\ counted[e] = 1 /\ Remembers(e)'
        <3>1. Genuine(e) /\ counted[e] = 1 /\ Remembers(e) /\ e.at \in Nat
            BY GenuineAt DEF VelocityInv, Ledger
        <3>2. CASE Key(e) \in KeptEvents(now + ahead)
            <4>1. Key(e) \in DOMAIN processed /\ Key(e) \in DOMAIN processed'
                  /\ processed'[Key(e)] = processed[Key(e)]
                BY <1>2, <1>3, <3>2, Zenon
            <4> QED
                BY <1>1, <3>1, <4>1, Zenon DEF Remembers
        <3>3. CASE Key(e) \notin KeptEvents(now + ahead)
            <4>1. Key(e) \in DOMAIN processed => ~(processed[Key(e)] >= (now + ahead) - (MaxWindow + Slack))
                BY <1>3, <3>3, Zenon
            <4>2. e.at < now + Drift - (MaxWindow + Slack)
                <5>1. CASE Key(e) \in DOMAIN processed /\ processed[Key(e)] = e.at
                    <6>1. ~(e.at >= (now + ahead) - (MaxWindow + Slack))
                        BY <4>1, <5>1, Zenon
                    <6> QED
                        BY <1>4, <3>1, <6>1
                <5> QED
                    BY <3>1, <5>1, Zenon DEF Remembers
            <4>3. e.at < now' + Drift - (MaxWindow + Slack)
                BY <1>1, <4>2, Zenon
            <4> QED
                BY <3>1, <4>3, Zenon DEF Remembers
        <3> QED
            BY <3>1, <3>2, <3>3, Zenon
    <2>2. \A k \in DOMAIN processed' : \E e \in DOMAIN counted : Key(e) = k
        BY <1>2, <1>3 DEF VelocityInv, Ledger
    <2> QED
        BY <1>1, <2>1, <2>2 DEF Ledger
<1>6. /\ request'.at \in Nat /\ \A e \in request'.events : Genuine(e)
      /\ request'.events # {} => InTime(request'.events, request'.at)
    BY <1>1 DEF VelocityInv, Basics, Current
<1>7. Basics' /\ Batch' /\ Cover' /\ Current'
    BY <1>1, <1>6, ConsumerWaits
<1> QED
    BY <1>5, <1>7 DEF VelocityInv

-----------------------------------------------------------------------------
(* A deployment starts with an empty topic and an empty ledger.            *)
LEMMA VelocityStarts == Init => VelocityInv
<1> SUFFICES ASSUME Init PROVE VelocityInv
    OBVIOUS
<1>1. DOMAIN processed = {} /\ DOMAIN counted = {}
    BY DEF Init
<1>2. Basics
    BY DEF Init, Basics, Idle, NoRequest
<1>3. Batch /\ Cover /\ Current
    BY DEF Init, Batch, Cover, Current, Idle, NoRequest
<1>4. Ledger
    BY <1>1 DEF Ledger
<1> QED
    BY <1>2, <1>3, <1>4 DEF VelocityInv

(* Every step of the process, its consumer, its callers, the producers,    *)
(* the clock and the pruning preserves the invariant.                      *)
LEMMA VelocityStepKeeps ==
    ASSUME LeastExists, VelocityInv, [Next]_vars
    PROVE  VelocityInv'
<1>1. CASE Start \/ Stop
    BY <1>1, FreshKeeps
<1>2. CASE Tick
    BY <1>2, TickKeeps
<1>3. CASE Consume
    BY <1>3, PollKeeps, ApplyCheckKeeps, ApplyTxKeeps, RetryCheckKeeps, RetryTxKeeps,
       RetryDoneKeeps, CommitKeeps DEF Consume
<1>4. CASE SubmitTx \/ SubmitFails
    BY <1>4, SubmitTxKeeps
<1>5. ASSUME NEW t \in cfg.topics, NEW r \in Records, Publish(t.topic, r)
      PROVE  VelocityInv'
    BY <1>5, PublishKeeps
<1>6. ASSUME NEW cred \in cfg.creds, NEW i \in DOMAIN cfg.decls, NEW batch \in SUBSET Records,
             Submit(cred, cfg.decls[i].name, batch)
      PROVE  VelocityInv'
    BY <1>6, SubmitKeeps
<1>7. ASSUME NEW ahead \in 0 .. Drift, sweepOnce(ahead)
      PROVE  VelocityInv'
    BY <1>7, SweepKeeps
<1>8. CASE UNCHANGED vars
    <2>1. /\ cfg' = cfg /\ now' = now /\ log' = log /\ committed' = committed /\ request' = request
          /\ consumer' = consumer /\ refused' = refused /\ UNCHANGED store
        BY <1>8 DEF vars, memory
    <2>2. /\ request'.at \in Nat /\ \A e \in request'.events : Genuine(e)
          /\ request'.events # {} => InTime(request'.events, request'.at)
        BY <2>1 DEF VelocityInv, Basics, Current
    <2>3. Basics' /\ Batch' /\ Cover' /\ Current'
        BY <2>1, <2>2, ConsumerWaits DEF store
    <2>4. Ledger'
        BY <2>1, LedgerStays DEF VelocityInv, Basics
    <2> QED
        BY <2>3, <2>4 DEF VelocityInv
<1> QED
    BY <1>1, <1>2, <1>3, <1>4, <1>5, <1>6, <1>7, <1>8 DEF Next

-----------------------------------------------------------------------------
(* What a key was granted and what its bucket holds, together, is no more  *)
(* than its burst and what its rate refilled up to when the bucket was     *)
(* last settled; a key whose bucket was forgotten had its whole burst back.*)
Balanced(table, ledger, k, limit) ==
    /\ limit \in [rate : Nat \ {0}, burst : Nat]
    /\ Had(ledger, k) \in Int
    /\ k \notin DOMAIN table => Had(ledger, k) <= limit.rate * (now - upAt)
    /\ k \in DOMAIN table =>
         /\ table[k].limit = limit /\ table[k].tokens \in Nat /\ table[k].at \in upAt..now
         /\ Had(ledger, k) + table[k].tokens <= limit.burst + limit.rate * (table[k].at - upAt)
AllBalanced(table, ledger) ==
    \A k \in DOMAIN table \cup DOMAIN ledger : \A cred \in cfg.creds :
        k[2] = cred.caller => Balanced(table, ledger, k, LimitOf(k, cred))
Clock == now \in Nat /\ upAt \in Nat /\ upAt <= now /\ cfg \in Configs
LimiterInv == Clock /\ (up => ingestion(cfg)) /\ AllBalanced(limiter, spent)

(* What is refilled between three instants adds up.                        *)
LEMMA RefillAdds ==
    ASSUME NEW r \in Int, NEW a \in Int, NEW b \in Int, NEW c \in Int
    PROVE  /\ r * (b - a) \in Int /\ r * (c - b) \in Int /\ r * (c - a) \in Int
           /\ (c - b) * r = r * (c - b)
           /\ r * (b - a) + r * (c - b) = r * (c - a)
OBVIOUS

(* Time only refills.                                                      *)
LEMMA RefillGrows ==
    ASSUME NEW r \in Nat, NEW a \in Int, NEW b \in Int, a <= b
    PROVE  0 <= r * (b - a)
OBVIOUS

(* A bucket that is full again had all it was granted refilled.            *)
LEMMA FullIsRefilled ==
    ASSUME NEW r \in Nat, NEW burst \in Nat, NEW u \in Nat, NEW n \in Nat, NEW at \in u..n,
           NEW tokens \in Nat, NEW h \in Int,
           h + tokens <= burst + r * (at - u), ~(tokens + (n - at) * r < burst)
    PROVE  h <= r * (n - u)
<1>1. PICK x \in Int, y \in Int, z \in Int :
        /\ x = r * (at - u) /\ y = (n - at) * r /\ z = r * (n - u) /\ x + y = z
    BY RefillAdds
<1>2. h + tokens <= burst + x /\ ~(tokens + y < burst) /\ x + y = z
    BY <1>1, Zenon
<1>3. h <= z
    BY <1>2
<1> QED
    BY <1>1, <1>3, Zenon

(* Until then, what its key was granted is within its burst and refill,    *)
(* with what the bucket holds at most by then.                             *)
LEMMA RefillBounds ==
    ASSUME NEW r \in Nat, NEW burst \in Nat, NEW u \in Nat, NEW n \in Nat, NEW at \in u..n,
           NEW tokens \in Nat, NEW h \in Int, h + tokens <= burst + r * (at - u)
    PROVE  /\ h <= burst + r * (n - u)
           /\ \A t \in Nat : t <= tokens + r * (n - at) => h + t <= burst + r * (n - u)
<1>1. PICK x \in Int, y \in Int, z \in Int :
        /\ x = r * (at - u) /\ y = r * (n - at) /\ z = r * (n - u) /\ x + y = z
    BY RefillAdds
<1>2. 0 <= y
    BY <1>1, RefillGrows
<1>3. h + tokens <= burst + x /\ x + y = z
    BY <1>1, Zenon
<1>4. h <= burst + z /\ \A t \in Nat : t <= tokens + y => h + t <= burst + z
    BY <1>2, <1>3
<1> QED
    BY <1>1, <1>4, Zenon

(* A new bucket is full, and what its key was granted is refilled.         *)
LEMMA FreshFits ==
    ASSUME NEW r \in Nat, NEW burst \in Nat, NEW u \in Nat, NEW n \in Nat, u <= n,
           NEW h \in Int, h <= r * (n - u)
    PROVE  h + burst <= burst + r * (n - u) /\ n \in u..n
<1>1. r * (n - u) \in Int
    OBVIOUS
<1> QED
    BY <1>1

(* A grant adds its cost to what its key had, and to no other key's.       *)
Adds(g, ledger, key, cost) ==
    /\ DOMAIN g = DOMAIN ledger \cup {key}
    /\ Had(g, key) = Had(ledger, key) + cost
    /\ \A k : k # key => Had(g, k) = Had(ledger, k) \/ ~(Had(ledger, k) \in Int)

(* Granted is such a grant.                                                *)
LEMMA GrantedAdds ==
    ASSUME NEW ledger, NEW key, NEW cost, NEW g, g = Granted(ledger, key, cost)
    PROVE  Adds(g, ledger, key, cost)
<1>1. /\ DOMAIN g = DOMAIN ledger \cup {key}
      /\ \A k \in DOMAIN ledger \cup {key} : g[k] = Had(ledger, k) + IF k = key THEN cost ELSE 0
    BY DEF Granted
<1>2. Had(g, key) = Had(ledger, key) + cost
    BY <1>1, Zenon DEF Had
<1>3. ASSUME NEW k, k # key, Had(ledger, k) \in Int PROVE Had(g, k) = Had(ledger, k)
    <2>1. CASE k \in DOMAIN ledger
        <3>1. g[k] = Had(ledger, k) + 0
            BY <1>1, <1>3, <2>1, Zenon
        <3>2. Had(g, k) = g[k]
            BY <1>1, <2>1, Zenon DEF Had
        <3> QED
            BY <1>3, <3>1, <3>2
    <2>2. CASE k \notin DOMAIN ledger
        BY <1>1, <1>3, <2>2, Zenon DEF Had
    <2> QED
        BY <2>1, <2>2, Zenon
<1> QED
    BY <1>1, <1>2, <1>3, Zenon DEF Adds

(* A limit is a rate and a burst.                                          *)
LEMMA LimitFields ==
    ASSUME NEW l \in [rate : Nat \ {0}, burst : Nat]
    PROVE  l.rate \in Nat /\ l.burst \in Nat
OBVIOUS

(* A limit of a deployment that is one has a burst, and needs no default.  *)
LEMMA LimitOfType ==
    ASSUME Clock, NEW k, NEW cred \in cfg.creds, ~Unlimited(LimitOf(k, cred))
    PROVE  /\ LimitOf(k, cred) \in [rate : Nat \ {0}, burst : Nat \ {0}]
           /\ withDefaults(LimitOf(k, cred)) = LimitOf(k, cred)
<1> DEFINE L == [rate : Int, burst : Int]
<1>1. cfg.rate \in L /\ cfg.subjectRate \in L /\ cred.rate \in L /\ cred.subjectRate \in L
    <2>1. \A x \in cfg.creds \cup {cfg} : {x.rate, x.subjectRate} \subseteq L
        BY VelocityAssumption, Zenon DEF Clock
    <2>2. cfg \in cfg.creds \cup {cfg} /\ cred \in cfg.creds \cup {cfg}
        BY Zenon
    <2> HIDE DEF L
    <2> QED
        BY <2>1, <2>2, Zenon
<1>2. ASSUME NEW r \in L, NEW d \in L, ~Unlimited(Rate(r, d))
      PROVE  /\ Rate(r, d) \in [rate : Nat \ {0}, burst : Nat \ {0}]
             /\ withDefaults(Rate(r, d)) = Rate(r, d)
    <2> DEFINE x == IF Unlimited(r) THEN d ELSE r
    <2>1. x \in L /\ Rate(r, d) = withDefaults(x)
        BY Zenon DEF Rate
    <2> HIDE DEF x
    <2>2. Rate(r, d) = IF x.burst <= 0 THEN [x EXCEPT !.burst = x.rate] ELSE x
        BY <2>1, Zenon DEF withDefaults
    <2>3. /\ Rate(r, d).rate = x.rate
          /\ Rate(r, d).burst = IF x.burst <= 0 THEN x.rate ELSE x.burst
          /\ Rate(r, d) \in L
        BY <2>1, <2>2
    <2>4. Rate(r, d).rate > 0 /\ Rate(r, d).rate \in Int
        BY <1>2, <2>3 DEF Unlimited
    <2>5. Rate(r, d).rate \in Nat \ {0} /\ Rate(r, d).burst \in Nat \ {0}
        BY <2>1, <2>3, <2>4
    <2>6. Rate(r, d) \in [rate : Nat \ {0}, burst : Nat \ {0}]
        BY <2>3, <2>5
    <2>7. ~(Rate(r, d).burst <= 0)
        BY <2>5
    <2> QED
        BY <2>6, <2>7 DEF withDefaults
<1> HIDE DEF L
<1> QED
    BY <1>1, <1>2, Zenon DEF LimitOf

(* Settling a bucket at now keeps the balance.                             *)
LEMMA SettledKeeps ==
    ASSUME Clock, NEW limit \in [rate : Nat \ {0}, burst : Nat], NEW h \in Int, NEW b,
           b.limit = limit, b.tokens \in Nat, b.at \in upAt..now,
           h + b.tokens <= limit.burst + limit.rate * (b.at - upAt)
    PROVE  LET s == Settled(b, limit, now)
           IN  /\ s = [tokens |-> s.tokens, at |-> s.at, limit |-> limit]
               /\ s.tokens \in Nat /\ s.at \in upAt..now
               /\ h + s.tokens <= limit.burst + limit.rate * (s.at - upAt)
<1> DEFINE r == limit.rate
           s == Settled(b, limit, now)
<1>1. now \in Nat /\ upAt \in Nat /\ b.at \in Nat /\ r \in Nat /\ limit.burst \in Nat
    BY DEF Clock
<1>2. /\ (now - b.at) * r \in Int /\ (now - b.at) * r = r * (now - b.at)
      /\ r * (b.at - upAt) + r * (now - b.at) = r * (now - upAt)
      /\ r * (b.at - upAt) \in Int /\ r * (now - upAt) \in Int
    <2>1. r \in Int /\ upAt \in Int /\ b.at \in Int /\ now \in Int
        BY <1>1
    <2>2. PICK q \in Int, u \in Int, t \in Int, n \in Int : q = r /\ u = upAt /\ t = b.at /\ n = now
        BY <2>1, Zenon
    <2>3. /\ q * (t - u) \in Int /\ q * (n - t) \in Int /\ q * (n - u) \in Int
          /\ (n - t) * q = q * (n - t) /\ q * (t - u) + q * (n - t) = q * (n - u)
        BY RefillAdds, SMT
    <2> QED
        BY <2>2, <2>3, Zenon
<1>3. now > b.at => 0 <= r * (now - b.at)
    BY <1>1, RefillGrows
<1>4. CASE now > b.at
    <2>1. s = [tokens |-> Least(limit.burst, Least(b.tokens, limit.burst) + (now - b.at) * r),
               at |-> now, limit |-> limit]
        BY <1>4 DEF Settled
    <2> HIDE DEF r, s
    <2>2. s.tokens = Least(limit.burst, Least(b.tokens, limit.burst) + (now - b.at) * r) /\ s.at = now
        BY <2>1
    <2>3. s.tokens \in Nat /\ s.tokens <= b.tokens + r * (now - b.at)
        <3>1. PICK q \in Int : q = (now - b.at) * r
            BY <1>2
        <3>2. 0 <= q /\ r * (now - b.at) = q
            BY <1>2, <1>3, <1>4, <3>1
        <3>3. s.tokens = Least(limit.burst, Least(b.tokens, limit.burst) + q)
            BY <2>2, <3>1
        <3>4. s.tokens \in Nat /\ s.tokens <= b.tokens + q
            BY <1>1, <3>2, <3>3 DEF Least
        <3> QED
            BY <3>2, <3>4
    <2>4. h + s.tokens <= limit.burst + r * (now - upAt)
        BY <1>1, <2>3, RefillBounds, Zenon DEF r
    <2>5. now \in upAt..now /\ s = [tokens |-> s.tokens, at |-> s.at, limit |-> limit]
        BY <1>1, <1>4, <2>1
    <2> QED
        BY <2>2, <2>3, <2>4, <2>5, Zenon DEF s, r
<1>5. CASE ~(now > b.at)
    <2>1. s = [tokens |-> Least(b.tokens, limit.burst), at |-> b.at, limit |-> limit]
        BY <1>5 DEF Settled
    <2>2. s.tokens \in Nat /\ s.tokens <= b.tokens
        BY <1>1, <2>1 DEF Least
    <2>3. s.at = b.at /\ s = [tokens |-> s.tokens, at |-> s.at, limit |-> limit]
        BY <2>1
    <2> HIDE DEF s, r
    <2>4. PICK q \in Int : q = r * (b.at - upAt)
        BY <1>2, Zenon
    <2>5. h + b.tokens <= limit.burst + q
        BY <1>1, <2>4, Zenon DEF r
    <2>6. h + s.tokens <= limit.burst + q
        BY <1>1, <2>2, <2>5
    <2>7. h + s.tokens <= limit.burst + r * (s.at - upAt)
        BY <2>3, <2>4, <2>6, Zenon
    <2> QED
        BY <1>1, <2>2, <2>3, <2>7, Zenon DEF s, r
<1> QED
    BY <1>4, <1>5

(* What AllowAt does when it does not refuse a key for want of room: the   *)
(* buckets it forgets are full again, and the key's own is never forgotten.*)
Kept(kept, table, key) ==
    /\ kept \in SUBSET DOMAIN table /\ (key \in DOMAIN table => kept = DOMAIN table)
    /\ \A k \in DOMAIN table \ kept : ~(Refilled(table[k], now) < table[k].limit.burst)
Bucket(table, key, limit) ==
    Settled(IF key \in DOMAIN table THEN table[key]
            ELSE [tokens |-> limit.burst, at |-> now, limit |-> limit], limit, now)
Charged(b, cost) == [b EXCEPT !.tokens = IF b.tokens >= cost THEN @ - cost ELSE @]
Charges(kept, table, key, b, cost) ==
    [ok |-> b.tokens >= cost,
     table |-> [k \in kept \cup {key} |-> IF k = key THEN Charged(b, cost) ELSE table[k]]]
RefusesOrCharges(a, table, key, limit, cost) ==
    \/ a = [ok |-> FALSE, table |-> table]
    \/ \E kept : Kept(kept, table, key) /\ a = Charges(kept, table, key, Bucket(table, key, limit), cost)
(* AllowAt refuses and changes nothing, or charges the bucket.             *)
LEMMA AllowAtShape ==
    ASSUME NEW table, NEW max, NEW key, NEW limit, NEW cost, ~Unlimited(limit), withDefaults(limit) = limit
    PROVE  RefusesOrCharges(AllowAt(table, max, key, limit, cost, now), table, key, limit, cost)
<1> DEFINE tight == key \notin DOMAIN table /\ Cardinality(DOMAIN table) >= max
           kept == IF tight THEN sweepLocked(table, now) ELSE DOMAIN table
<1>1. /\ kept \in SUBSET DOMAIN table
      /\ key \in DOMAIN table => kept = DOMAIN table
      /\ \A k \in DOMAIN table \ kept : ~(Refilled(table[k], now) < table[k].limit.burst)
    BY Zenon DEF sweepLocked
<1>2. Kept(kept, table, key)
    BY <1>1, Zenon DEF Kept
<1>3. \/ AllowAt(table, max, key, limit, cost, now) = [ok |-> FALSE, table |-> table]
      \/ AllowAt(table, max, key, limit, cost, now)
          = Charges(kept, table, key, Bucket(table, key, limit), cost)
    BY Zenon DEF AllowAt, Charges, Bucket, Charged
<1> HIDE DEF kept
<1> QED
    BY <1>2, <1>3, Zenon DEF RefusesOrCharges

(* Nobody else's credentials carry the caller's name.                      *)
Alone(cred) == \A other \in cfg.creds : other.caller = cred.caller => other = cred
ChargeOf(c, cred) ==
    c.key[2] = cred.caller /\ c.limit = LimitOf(c.key, cred) /\ c.cost \in Int

(* What charge takes from the caller's bucket.                             *)
LEMMA CallerCharge ==
    ASSUME NEW cred, NEW n \in Int
    PROVE  ChargeOf([key |-> CallerKey(cred.caller), limit |-> Rate(cred.rate, cfg.rate), cost |-> n], cred)
<1> DEFINE c == [key |-> CallerKey(cred.caller), limit |-> Rate(cred.rate, cfg.rate), cost |-> n]
<1>1. c.key = <<"caller", cred.caller>> /\ c.limit = Rate(cred.rate, cfg.rate) /\ c.cost = n
    BY DEF CallerKey
<1> HIDE DEF c
<1>2. c.key[1] = "caller" /\ c.key[2] = cred.caller
    BY <1>1
<1>3. ChargeOf(c, cred)
    BY <1>1, <1>2, Zenon DEF ChargeOf, LimitOf
<1> QED
    BY <1>3, Zenon DEF c

(* What charge takes from the bucket of one of its subjects.               *)
LEMMA SubjectCharge ==
    ASSUME NEW cred, NEW s, NEW n \in Int
    PROVE  ChargeOf([key |-> SubjectKey(cred.caller, s), limit |-> Rate(cred.subjectRate, cfg.subjectRate),
                     cost |-> n], cred)
<1> DEFINE c == [key |-> SubjectKey(cred.caller, s), limit |-> Rate(cred.subjectRate, cfg.subjectRate),
                 cost |-> n]
<1>1. c.key = <<"subject", cred.caller, s>> /\ c.limit = Rate(cred.subjectRate, cfg.subjectRate) /\ c.cost = n
    BY DEF SubjectKey
<1> HIDE DEF c
<1>2. c.key[1] # "caller" /\ c.key[2] = cred.caller
    BY <1>1
<1>3. ChargeOf(c, cred)
    BY <1>1, <1>2, Zenon DEF ChargeOf, LimitOf
<1> QED
    BY <1>3, Zenon DEF c

(* A bucket that is charged, refused or forgotten keeps the balance.       *)
LEMMA AllowAtKeeps ==
    ASSUME Clock, NEW table, NEW ledger, NEW c, NEW cred \in cfg.creds, Alone(cred), ChargeOf(c, cred),
           ~Unlimited(c.limit), AllBalanced(table, ledger)
    PROVE  LET a == AllowAt(table, cfg.maxRate, c.key, c.limit, c.cost, now)
           IN  AllBalanced(a.table, IF a.ok THEN Granted(ledger, c.key, c.cost) ELSE ledger)
<1> DEFINE key == c.key
           limit == c.limit
           cost == c.cost
           a == AllowAt(table, cfg.maxRate, key, limit, cost, now)
           fresh == [tokens |-> limit.burst, at |-> now, limit |-> limit]
           b0 == IF key \in DOMAIN table THEN table[key] ELSE fresh
           b == Bucket(table, key, limit)
           left_ == Charged(b, cost)
           h == Had(ledger, key)
           ledger2 == IF a.ok THEN Granted(ledger, key, cost) ELSE ledger
<1>1. /\ limit \in [rate : Nat \ {0}, burst : Nat] /\ withDefaults(limit) = limit
      /\ limit.rate \in Nat /\ limit.burst \in Nat /\ cost \in Int
      /\ now \in Nat /\ upAt \in Nat /\ upAt <= now
    <2>1. limit \in [rate : Nat \ {0}, burst : Nat \ {0}] /\ withDefaults(limit) = limit
        BY LimitOfType, Zenon DEF ChargeOf
    <2> QED
        BY <2>1 DEF ChargeOf, Clock
<1>2. key \in DOMAIN table \cup DOMAIN ledger => Balanced(table, ledger, key, limit)
    BY Zenon DEF AllBalanced, ChargeOf
<1>3. h \in Int /\ (key \notin DOMAIN table => h <= limit.rate * (now - upAt))
    <2>1. CASE key \in DOMAIN table \cup DOMAIN ledger
        BY <1>2, <2>1, Zenon DEF Balanced
    <2>2. CASE key \notin DOMAIN table \cup DOMAIN ledger
        <3>1. h = 0
            BY <2>2, Zenon DEF Had
        <3>2. 0 <= limit.rate * (now - upAt)
            BY <1>1, RefillGrows
        <3> HIDE DEF h
        <3> QED
            BY <3>1, <3>2
    <2> QED
        BY <2>1, <2>2, Zenon
<1>4. /\ b0.limit = limit /\ b0.tokens \in Nat /\ b0.at \in upAt..now
      /\ h + b0.tokens <= limit.burst + limit.rate * (b0.at - upAt)
    <2>1. CASE key \in DOMAIN table
        <3>1. b0 = table[key]
            BY <2>1, Zenon
        <3> QED
            BY <1>2, <2>1, <3>1, Zenon DEF Balanced
    <2>2. CASE key \notin DOMAIN table
        <3>1. b0 = fresh
            BY <2>2, Zenon
        <3> HIDE DEF b0, h, limit
        <3>2. b0.limit = limit /\ b0.tokens = limit.burst /\ b0.at = now
            BY <3>1
        <3> HIDE DEF fresh
        <3>3. h + limit.burst <= limit.burst + limit.rate * (now - upAt) /\ now \in upAt..now
            BY <1>1, <1>3, <2>2, FreshFits, Zenon
        <3> QED
            BY <1>1, <3>2, <3>3, Zenon
    <2> QED
        BY <2>1, <2>2, Zenon
<1>5. /\ b = [tokens |-> b.tokens, at |-> b.at, limit |-> limit]
      /\ b.tokens \in Nat /\ b.at \in upAt..now
      /\ h + b.tokens <= limit.burst + limit.rate * (b.at - upAt)
    <2> HIDE DEF b0, h, limit
    <2> QED
        BY <1>1, <1>3, <1>4, SettledKeeps, Zenon DEF Bucket, b0, fresh
<1>6. ASSUME a = [ok |-> FALSE, table |-> table] PROVE AllBalanced(a.table, ledger2)
    <2> HIDE DEF a
    <2>1. a.table = table /\ ~a.ok
        BY <1>6, Zenon
    <2> QED
        BY <2>1, Zenon
<1>7. ASSUME NEW kept, Kept(kept, table, key), a = Charges(kept, table, key, b, cost)
      PROVE  AllBalanced(a.table, ledger2)
    <2>0. /\ kept \in SUBSET DOMAIN table
          /\ \A k \in DOMAIN table \ kept : ~(Refilled(table[k], now) < table[k].limit.burst)
        BY <1>7, Zenon DEF Kept
    <2>1. /\ DOMAIN a.table = kept \cup {key} /\ a.table[key] = left_
          /\ \A k \in kept : k # key => a.table[k] = table[k]
          /\ a.ok <=> b.tokens >= cost
        <3> DEFINE table2 == [k \in kept \cup {key} |-> IF k = key THEN left_ ELSE table[k]]
        <3> HIDE DEF a, b, left_, key, cost
        <3>1. DOMAIN table2 = kept \cup {key} /\ table2[key] = left_ /\ \A k \in kept : k # key => table2[k] = table[k]
            BY Zenon
        <3>2. a.table = table2 /\ (a.ok <=> b.tokens >= cost)
            <4>1. a.table = table2
                BY <1>7 DEF Charges, left_
            <4>2. a.ok <=> b.tokens >= cost
                BY <1>7, Zenon DEF Charges
            <4> QED
                BY <4>1, <4>2, Zenon
        <3> QED
            BY <3>1, <3>2, Zenon
    <2>2. /\ left_.limit = limit /\ left_.at = b.at /\ left_.tokens \in Nat
          /\ left_.tokens = IF a.ok THEN b.tokens - cost ELSE b.tokens
        <3> HIDE DEF b, limit, cost, a
        <3>1. CASE b.tokens >= cost
            <4>1. left_ = [b EXCEPT !.tokens = @ - cost]
                BY <3>1, Zenon DEF Charged
            <4>2. left_.tokens = b.tokens - cost /\ left_.limit = limit /\ left_.at = b.at
                BY <1>5, <4>1
            <4> QED
                BY <1>1, <1>5, <2>1, <3>1, <4>2
        <3>2. CASE ~(b.tokens >= cost)
            <4>1. left_ = [b EXCEPT !.tokens = @]
                BY <3>2, Zenon DEF Charged
            <4>2. left_.tokens = b.tokens /\ left_.limit = limit /\ left_.at = b.at
                BY <1>5, <4>1
            <4> QED
                BY <1>5, <2>1, <3>2, <4>2, Zenon
        <3> QED
            BY <3>1, <3>2, Zenon
    <2>3. /\ DOMAIN ledger2 \subseteq DOMAIN ledger \cup {key}
          /\ Had(ledger2, key) = IF a.ok THEN h + cost ELSE h
          /\ \A k : k # key => Had(ledger2, k) = Had(ledger, k) \/ ~(Had(ledger, k) \in Int)
        <3> HIDE DEF a, cost
        <3>1. CASE a.ok
            <4>1. ledger2 = Granted(ledger, key, cost)
                BY <3>1, Zenon
            <4> HIDE DEF ledger2
            <4>2. Adds(ledger2, ledger, key, cost)
                BY <4>1, GrantedAdds, Zenon
            <4> QED
                BY <3>1, <4>2, Zenon DEF Adds
        <3>2. CASE ~a.ok
            BY <3>2, Zenon
        <3> QED
            BY <3>1, <3>2, Zenon
    <2>4. Balanced(a.table, ledger2, key, limit)
        <3> HIDE DEF a, b, h, limit, cost, left_, ledger2
        <3>1. key \in DOMAIN a.table
            BY <2>1, Zenon
        <3>2. Had(ledger2, key) \in Int
            <4>1. Had(ledger2, key) = h + cost \/ Had(ledger2, key) = h
                BY <2>3, Zenon
            <4>2. h \in Int /\ cost \in Int
                BY <1>1, <1>3, Zenon
            <4>3. h + cost \in Int
                BY <4>2
            <4> QED
                BY <4>1, <4>2, <4>3, Zenon
        <3>3. Had(ledger2, key) + left_.tokens = h + b.tokens
            BY <1>1, <1>3, <1>5, <2>2, <2>3
        <3> QED
            BY <1>1, <1>5, <2>1, <2>2, <3>1, <3>2, <3>3, Zenon DEF Balanced
    <2>5. ASSUME NEW k \in DOMAIN a.table \cup DOMAIN ledger2, k # key, NEW l,
                 Balanced(table, ledger, k, l)
          PROVE  Balanced(a.table, ledger2, k, l)
        <3> HIDE DEF a, b, h, limit, cost, left_, ledger2
        <3>1. Had(ledger, k) \in Int /\ l \in [rate : Nat \ {0}, burst : Nat]
            BY <2>5, Zenon DEF Balanced
        <3>2. Had(ledger2, k) = Had(ledger, k)
            BY <2>3, <2>5, <3>1, Zenon
        <3>3. CASE k \in kept
            <4>1. k \in DOMAIN table /\ k \in DOMAIN a.table /\ a.table[k] = table[k]
                BY <2>0, <2>1, <2>5, <3>3, Zenon
            <4> QED
                BY <2>5, <3>1, <3>2, <4>1, Zenon DEF Balanced
        <3>4. CASE k \notin DOMAIN table
            <4>1. k \notin DOMAIN a.table
                BY <2>0, <2>1, <2>5, <3>4, Zenon
            <4> QED
                BY <2>5, <3>1, <3>2, <3>4, <4>1, Zenon DEF Balanced
        <3>5. CASE k \in DOMAIN table \ kept
            <4>1. k \notin DOMAIN a.table
                BY <2>1, <2>5, <3>5, Zenon
            <4>2. ~(Refilled(table[k], now) < table[k].limit.burst)
                BY <2>0, <3>5, Zenon
            <4>3. /\ table[k].limit = l /\ table[k].tokens \in Nat /\ table[k].at \in upAt..now
                  /\ Had(ledger, k) + table[k].tokens <= l.burst + l.rate * (table[k].at - upAt)
                BY <2>5, <3>5, Zenon DEF Balanced
            <4>4. ~(table[k].tokens + (now - table[k].at) * l.rate < l.burst)
                BY <4>2, <4>3, Zenon DEF Refilled
            <4>5. Had(ledger, k) <= l.rate * (now - upAt)
                <5>1. now \in Nat /\ upAt \in Nat
                    BY Zenon DEF Clock
                <5>2. l.rate \in Nat /\ l.burst \in Nat
                    BY <3>1, LimitFields, Zenon
                <5> QED
                    BY <3>1, <4>3, <4>4, <5>1, <5>2, FullIsRefilled, Zenon
            <4> QED
                BY <2>5, <3>1, <3>2, <4>1, <4>5, Zenon DEF Balanced
        <3> QED
            BY <3>3, <3>4, <3>5, Zenon
    <2>6. ASSUME NEW k \in DOMAIN a.table \cup DOMAIN ledger2, NEW other \in cfg.creds, k[2] = other.caller
          PROVE  Balanced(a.table, ledger2, k, LimitOf(k, other))
        <3> HIDE DEF a, b, h, cost, left_, ledger2
        <3>1. CASE k = key
            BY <2>4, <2>6, <3>1, Zenon DEF ChargeOf, Alone
        <3>2. CASE k # key
            <4>1. k \in DOMAIN table \cup DOMAIN ledger
                BY <2>0, <2>1, <2>3, <2>6, <3>2, Zenon
            <4>2. Balanced(table, ledger, k, LimitOf(k, other))
                BY <2>6, <4>1, Zenon DEF AllBalanced
            <4> QED
                BY <2>5, <2>6, <3>2, <4>2, Zenon
        <3> QED
            BY <3>1, <3>2, Zenon
    <2> HIDE DEF a, ledger2
    <2> QED
        BY <2>6, Zenon DEF AllBalanced
<1>8. \/ a = [ok |-> FALSE, table |-> table]
      \/ \E kept : Kept(kept, table, key) /\ a = Charges(kept, table, key, b, cost)
    <2>1. ~Unlimited(limit) /\ withDefaults(limit) = limit
        BY <1>1, Zenon
    <2>2. a = AllowAt(table, cfg.maxRate, key, limit, cost, now)
        BY Zenon
    <2>3. RefusesOrCharges(AllowAt(table, cfg.maxRate, key, limit, cost, now), table, key, limit, cost)
        BY <2>1, AllowAtShape, Zenon
    <2> HIDE DEF a
    <2> QED
        BY <2>2, <2>3, Zenon DEF RefusesOrCharges
<1>9. AllBalanced(a.table, ledger2)
    <2> HIDE DEF a, b, left_, ledger2
    <2> QED
        BY <1>6, <1>7, <1>8, Zenon
<1> QED
    BY <1>9, Zenon

(* One charge of a batch keeps the balance, refused or not.                *)
LEMMA AllowKeeps ==
    ASSUME Clock, NEW acc, NEW c, NEW cred \in cfg.creds, Alone(cred), ChargeOf(c, cred),
           AllBalanced(acc.table, acc.spent)
    PROVE  AllBalanced(Allow(acc, c).table, Allow(acc, c).spent)
<1> DEFINE a == AllowAt(acc.table, cfg.maxRate, c.key, c.limit, c.cost, now)
           granted == IF a.ok THEN Granted(acc.spent, c.key, c.cost) ELSE acc.spent
           r == Allow(acc, c)
<1>1. CASE ~acc.ok \/ Unlimited(c.limit)
    <2>1. r = acc
        BY <1>1, Zenon DEF Allow
    <2> QED
        BY <2>1, Zenon
<1>2. CASE ~(~acc.ok \/ Unlimited(c.limit))
    <2>1. PICK table, ledger : table = acc.table /\ ledger = acc.spent
        BY Zenon
    <2>2. AllBalanced(table, ledger)
        BY <2>1, Zenon
    <2>3. LET b == AllowAt(table, cfg.maxRate, c.key, c.limit, c.cost, now)
          IN  AllBalanced(b.table, IF b.ok THEN Granted(ledger, c.key, c.cost) ELSE ledger)
        BY <1>2, <2>2, AllowAtKeeps, Zenon
    <2>4. AllBalanced(a.table, granted)
        BY <2>1, <2>3, Zenon
    <2>5. r = [ok |-> a.ok, table |-> a.table, spent |-> granted]
        BY <1>2, Zenon DEF Allow
    <2> HIDE DEF a, granted, r
    <2>6. r.table = a.table /\ r.spent = granted
        BY <2>5
    <2> QED
        BY <2>4, <2>6, Zenon DEF r
<1> QED
    BY <1>1, <1>2, Zenon

(* The recursion of Charging defines what it says.                         *)
LEMMA ChargingStep ==
    ASSUME LeastExists, NEW cs, Len(cs) \in Nat
    PROVE  /\ Charging(cs)[0] = [ok |-> TRUE, table |-> limiter, spent |-> spent]
           /\ \A i \in 1..Len(cs) : Charging(cs)[i] = Allow(Charging(cs)[i - 1], cs[i])
<1> DEFINE n == Len(cs)
           base == [ok |-> TRUE, table |-> limiter, spent |-> spent]
           Def(f, m) == f = [i \in 0..m |-> IF i = 0 THEN base ELSE Allow(f[i - 1], cs[i])]
           Bad == {m \in 0..n : ~\E f : Def(f, m)}
<1>1. Bad = {}
    <2> SUFFICES ASSUME Bad # {} PROVE FALSE
        OBVIOUS
    <2>1. Bad \in SUBSET Nat
        OBVIOUS
    <2>2. PICK m \in Bad : \A u \in Bad : m <= u
        <3> HIDE DEF Bad
        <3> QED
            BY <2>1 DEF LeastExists
    <2>3. m \in 0..n /\ ~\E f : Def(f, m)
        BY <2>2, Zenon
    <2> HIDE DEF base
    <2>4. m # 0
        <3> SUFFICES ASSUME m = 0 PROVE FALSE
            OBVIOUS
        <3> DEFINE f == [i \in 0..m |-> base]
        <3>1. \A i \in 0..m : i = 0
            OBVIOUS
        <3>2. Def(f, m)
            BY <3>1, Zenon
        <3> QED
            BY <2>3, <3>2, Zenon
    <2>5. m - 1 \in 0..n /\ ~(m <= m - 1)
        BY <2>3, <2>4
    <2>6. PICK g : Def(g, m - 1)
        BY <2>2, <2>5, Zenon
    <2> DEFINE f == [i \in 0..m |-> IF i = m THEN Allow(g[m - 1], cs[m]) ELSE g[i]]
    <2>7. ASSUME NEW i \in 0..m PROVE f[i] = IF i = 0 THEN base ELSE Allow(f[i - 1], cs[i])
        <3>1. f[i] = IF i = m THEN Allow(g[m - 1], cs[m]) ELSE g[i]
            BY Zenon
        <3>2. CASE i = m
            <4>1. m - 1 \in 0..m /\ m - 1 # m /\ m # 0
                BY <2>3, <2>4
            <4>2. f[m - 1] = g[m - 1]
                BY <4>1, Zenon
            <4> HIDE DEF f
            <4> QED
                BY <3>1, <3>2, <4>1, <4>2, Zenon
        <3>3. CASE i # m
            <4>1. i \in 0..m - 1
                BY <2>3, <3>3
            <4>2. g[i] = IF i = 0 THEN base ELSE Allow(g[i - 1], cs[i])
                BY <2>6, <4>1, Zenon
            <4>3. i # 0 => i - 1 \in 0..m /\ i - 1 # m
                BY <2>3, <4>1
            <4>4. i # 0 => f[i - 1] = g[i - 1]
                BY <4>3, Zenon
            <4> HIDE DEF f
            <4> QED
                BY <3>1, <3>3, <4>2, <4>4, Zenon
        <3> QED
            BY <3>2, <3>3, Zenon
    <2>8. Def(f, m)
        <3>1. f = [i \in 0..m |-> f[i]]
            BY Zenon
        <3> HIDE DEF f
        <3>2. [i \in 0..m |-> f[i]] = [i \in 0..m |-> IF i = 0 THEN base ELSE Allow(f[i - 1], cs[i])]
            BY <2>7
        <3> QED
            BY <3>1, <3>2, Zenon
    <2> QED
        BY <2>3, <2>8, Zenon
<1>2. n \in 0..n
    OBVIOUS
<1>3. \E f : Def(f, n)
    BY <1>1, <1>2, Zenon
<1>4. Def(Charging(cs), n)
    BY <1>3, Zenon DEF Charging
<1>5. \A i \in 0..n : Charging(cs)[i] = IF i = 0 THEN base ELSE Allow(Charging(cs)[i - 1], cs[i])
    BY <1>4, Zenon
<1>6. 0 \in 0..n /\ \A i \in 1..n : i \in 0..n /\ i # 0
    OBVIOUS
<1> QED
    BY <1>5, <1>6, Zenon

(* However many buckets a batch is charged to, the balance is kept.        *)
LEMMA ChargingKeeps ==
    ASSUME LeastExists, LimiterInv, NEW cs, Len(cs) \in Nat, NEW cred \in cfg.creds, Alone(cred),
           \A i \in 1..Len(cs) : ChargeOf(cs[i], cred)
    PROVE  AllBalanced(Charging(cs)[Len(cs)].table, Charging(cs)[Len(cs)].spent)
<1> DEFINE n == Len(cs)
           Good(i) == AllBalanced(Charging(cs)[i].table, Charging(cs)[i].spent)
           Bad == {i \in 0..n : ~Good(i)}
<1>1. Good(0)
    <2>1. Charging(cs)[0] = [ok |-> TRUE, table |-> limiter, spent |-> spent]
        BY ChargingStep, Zenon
    <2>2. PICK x : x = Charging(cs)[0]
        BY Zenon
    <2>3. x = [ok |-> TRUE, table |-> limiter, spent |-> spent]
        BY <2>1, <2>2, Zenon
    <2>4. x.table = limiter /\ x.spent = spent
        BY <2>3
    <2> QED
        BY <2>2, <2>4, Zenon DEF LimiterInv
<1>2. ASSUME NEW i \in 1..n, Good(i - 1) PROVE Good(i)
    <2>1. PICK acc, c : acc = Charging(cs)[i - 1] /\ c = cs[i]
        BY Zenon
    <2>2. Charging(cs)[i] = Allow(acc, c)
        BY <2>1, ChargingStep, Zenon
    <2>3. AllBalanced(acc.table, acc.spent) /\ ChargeOf(c, cred) /\ Clock
        BY <1>2, <2>1, Zenon DEF LimiterInv
    <2>4. AllBalanced(Allow(acc, c).table, Allow(acc, c).spent)
        BY <2>3, AllowKeeps, Zenon
    <2> QED
        BY <2>2, <2>4, Zenon
<1> HIDE DEF Good
<1>3. Bad = {}
    <2> SUFFICES ASSUME Bad # {} PROVE FALSE
        OBVIOUS
    <2>1. Bad \in SUBSET Nat
        OBVIOUS
    <2>2. PICK m \in Bad : \A u \in Bad : m <= u
        <3> HIDE DEF Bad
        <3> QED
            BY <2>1 DEF LeastExists
    <2>3. m \in 0..n /\ ~Good(m)
        BY <2>2, Zenon
    <2>4. m # 0
        BY <1>1, <2>3, Zenon
    <2>5. m \in 1..n /\ m - 1 \in 0..n /\ ~(m <= m - 1)
        BY <2>3, <2>4
    <2>6. Good(m - 1)
        BY <2>2, <2>5, Zenon
    <2> QED
        BY <1>2, <2>3, <2>5, <2>6, Zenon
<1>4. n \in 0..n
    OBVIOUS
<1>5. Good(n)
    BY <1>3, <1>4, Zenon
<1> QED
    BY <1>5, Zenon DEF Good

(* The balance does not depend on anything but the clocks and the limits.  *)
LEMMA BalanceStays ==
    ASSUME NEW table, NEW ledger, AllBalanced(table, ledger), cfg' = cfg, now' = now, upAt' = upAt
    PROVE  (AllBalanced(table, ledger))'
<1>1. ASSUME NEW k, NEW cred PROVE (LimitOf(k, cred))' = LimitOf(k, cred)
    BY Zenon DEF LimitOf, Rate
<1>2. ASSUME NEW k, NEW limit, Balanced(table, ledger, k, limit) PROVE (Balanced(table, ledger, k, limit))'
    BY <1>2, Zenon DEF Balanced
<1> QED
    BY <1>1, <1>2, Zenon DEF AllBalanced

(* Submit is a series of charges to the caller's own buckets.              *)
LEMMA SubmitKeepsLimiter ==
    ASSUME LeastExists, CountsExist, LimiterInv,
           NEW cred \in cfg.creds, NEW source, NEW batch, Submit(cred, source, batch)
    PROVE  LimiterInv'
<1> DEFINE subjects == {r.subject : r \in batch}
           N == Cardinality(subjects)
<1>1. /\ cfg' = cfg /\ now' = now /\ upAt' = upAt /\ up' = up /\ up
      /\ Declared(cfg, source) /\ IsFiniteSet(batch) /\ Cardinality(batch) \in Int
    <2>1. Cardinality(batch) \in 1..cfg.maxBatch => Cardinality(batch) \in Int
        OBVIOUS
    <2> QED
        BY <2>1, Zenon DEF Submit, Admitted
<1>2. PICK order \in Bijection(1..N, subjects) :
        LET c == charge(cred, batch, order) IN limiter' = c.table /\ spent' = c.spent
    BY Zenon DEF Submit
<1>3. Alone(cred)
    <2>1. cfg.decls # <<>>
        <3> SUFFICES ASSUME cfg.decls = <<>> PROVE FALSE
            OBVIOUS
        <3>1. DOMAIN cfg.decls = {}
            OBVIOUS
        <3> QED
            BY <1>1, <3>1, Zenon DEF Declared, Named
    <2> QED
        BY <1>1, <2>1, Zenon DEF LimiterInv, ingestion, NewIngest, Alone
<1>4. N \in Nat
    <2> DEFINE f == [r \in batch |-> r.subject]
    <2>1. f \in [batch -> subjects] /\ \A t \in subjects : \E r \in batch : f[r] = t
        BY Zenon
    <2> HIDE DEF f, subjects
    <2>2. f \in Surjection(batch, subjects)
        BY <2>1, Zenon DEF Surjection
    <2> QED
        BY <1>1, <2>2, Zenon DEF CountsExist
<1>5. order \in [1..N -> subjects]
    BY <1>2, Zenon DEF Bijection, Injection
<1> DEFINE cs == charges(cred, batch, order)
           first == [key |-> CallerKey(cred.caller), limit |-> Rate(cred.rate, cfg.rate),
                     cost |-> Cardinality(batch)]
           next(i) == [key |-> SubjectKey(cred.caller, order[i]),
                       limit |-> Rate(cred.subjectRate, cfg.subjectRate),
                       cost |-> Cardinality({r \in batch : r.subject = order[i]})]
<1>6. Len(cs) = N + 1 /\ cs[1] = first /\ \A i \in 2..(N + 1) : cs[i] = next(i - 1)
    <2> DEFINE rest == [i \in 1..N |-> next(i)]
    <2>1. cs = <<first>> \o rest
        BY <1>5, Zenon DEF charges
    <2>2. \A i \in 1..N : rest[i] = next(i)
        BY Zenon
    <2>3. rest \in Seq({next(i) : i \in 1..N}) /\ Len(rest) = N
        <3> DEFINE S == {next(i) : i \in 1..N}
        <3>1. \A i \in 1..N : next(i) \in S
            BY Zenon
        <3> HIDE DEF next, N, S
        <3>2. rest \in Seq(S) /\ Len(rest) = N
            BY <1>4, <3>1
        <3> QED
            BY <3>2, Zenon DEF S
    <2> HIDE DEF first, next, rest, cs, N
    <2>4. Len(cs) = N + 1 /\ cs[1] = first /\ \A i \in 2..(N + 1) : cs[i] = rest[i - 1]
        BY <1>4, <2>1, <2>3
    <2>5. \A i \in 2..(N + 1) : i - 1 \in 1..N
        BY <1>4
    <2> QED
        BY <2>2, <2>4, <2>5, Zenon
<1>7. ChargeOf(first, cred)
    BY <1>1, CallerCharge, Zenon
<1>8. ASSUME NEW i PROVE ChargeOf(next(i), cred)
    <2> DEFINE part == {r \in batch : r.subject = order[i]}
    <2>1. part \in SUBSET batch
        BY Zenon
    <2> HIDE DEF part
    <2>2. IsFiniteSet(part)
        BY <1>1, <2>1, Zenon DEF CountsExist
    <2>3. Cardinality(part) \in Nat
        BY <2>2, Zenon DEF CountsExist
    <2>4. Cardinality(part) \in Int
        BY <2>3
    <2> QED
        BY <2>4, SubjectCharge, Zenon DEF part
<1>9. AllBalanced(Charging(cs)[Len(cs)].table, Charging(cs)[Len(cs)].spent)
    <2> HIDE DEF cs, first, next, N
    <2>1. Len(cs) \in Nat /\ \A i \in 1..Len(cs) : i = 1 \/ i \in 2..(N + 1)
        BY <1>4, <1>6
    <2>2. \A i \in 1..Len(cs) : ChargeOf(cs[i], cred)
        BY <1>6, <1>7, <1>8, <2>1, Zenon
    <2>3. PICK q : q = cs
        BY Zenon
    <2>4. Len(q) \in Nat /\ \A i \in 1..Len(q) : ChargeOf(q[i], cred)
        BY <2>1, <2>2, <2>3, Zenon
    <2>5. AllBalanced(Charging(q)[Len(q)].table, Charging(q)[Len(q)].spent)
        BY <1>3, <2>4, ChargingKeeps, Zenon
    <2> QED
        BY <2>3, <2>5, Zenon
<1>10. limiter' = Charging(cs)[Len(cs)].table /\ spent' = Charging(cs)[Len(cs)].spent
    BY <1>2, Zenon DEF charge
<1> HIDE DEF cs
<1>11. PICK table, ledger : table = limiter' /\ ledger = spent'
    BY Zenon
<1>12. (AllBalanced(table, ledger))'
    <2>1. AllBalanced(table, ledger)
        BY <1>9, <1>10, <1>11, Zenon
    <2> QED
        BY <1>1, <2>1, BalanceStays
<1>13. AllBalanced(limiter, spent)'
    BY <1>11, <1>12, Zenon
<1>14. Clock' /\ ingestion(cfg)'
    BY <1>1, Zenon DEF LimiterInv, Clock
<1> QED
    BY <1>13, <1>14, Zenon DEF LimiterInv

(* Every step of the velocity sources keeps the balance: the clock only    *)
(* refills, and a restart forgets the buckets with what was granted.       *)
LEMMA LimiterStepKeeps ==
    ASSUME LeastExists, CountsExist, LimiterInv, [Next]_vars
    PROVE  LimiterInv'
<1>1. CASE Start \/ Stop
    <2>1. /\ cfg' = cfg /\ now' = now /\ upAt' = now /\ limiter' = <<>> /\ spent' = <<>>
          /\ up' => ingestion(cfg)
        BY <1>1, Zenon DEF Start, Stop, Fresh
    <2>2. DOMAIN limiter' = {} /\ DOMAIN spent' = {}
        BY <2>1
    <2>3. AllBalanced(limiter, spent)'
        BY <2>2, Zenon DEF AllBalanced
    <2>4. Clock'
        BY <2>1 DEF LimiterInv, Clock
    <2>5. (up => ingestion(cfg))'
        BY <2>1, Zenon
    <2> QED
        BY <2>3, <2>4, <2>5, Zenon DEF LimiterInv
<1>2. CASE Tick
    <2>1. /\ cfg' = cfg /\ now' = now + 1 /\ upAt' = upAt /\ limiter' = limiter /\ spent' = spent
          /\ up' = up
        BY <1>2, Zenon DEF Tick, memory
    <2>2. Clock /\ now \in Nat /\ upAt \in Nat /\ upAt <= now
        BY Zenon DEF LimiterInv, Clock
    <2>3. ASSUME NEW k, NEW l, Balanced(limiter, spent, k, l) PROVE (Balanced(limiter, spent, k, l))'
        <3>1. l.rate \in Nat /\ l.rate * (now - upAt) \in Int /\ l.rate * ((now + 1) - upAt) \in Int
            <4>1. l \in [rate : Nat \ {0}, burst : Nat]
                BY <2>3, Zenon DEF Balanced
            <4>2. l.rate \in Nat
                BY <4>1
            <4> QED
                BY <2>2, <4>2
        <3>2. l.rate * (now - upAt) <= l.rate * ((now + 1) - upAt)
            <4>1. PICK x \in Int, y \in Int, z \in Int :
                    /\ x = l.rate * (now - upAt) /\ z = l.rate * ((now + 1) - now)
                    /\ y = l.rate * ((now + 1) - upAt) /\ x + z = y
                BY <2>2, <3>1, RefillAdds
            <4>2. 0 <= z
                BY <2>2, <3>1, <4>1, RefillGrows
            <4> QED
                BY <4>1, <4>2
        <3>3. Had(spent, k) \in Int /\ (k \notin DOMAIN limiter => Had(spent, k) <= l.rate * (now - upAt))
            BY <2>3, Zenon DEF Balanced
        <3>4. k \notin DOMAIN limiter => Had(spent, k) <= l.rate * ((now + 1) - upAt)
            BY <3>1, <3>2, <3>3
        <3>5. \A a \in upAt..now : a \in upAt..(now + 1)
            BY <2>2
        <3>6. Had(spent, k)' = Had(spent, k)
            BY <2>1, Zenon DEF Had
        <3> QED
            BY <2>1, <2>3, <3>3, <3>4, <3>5, <3>6, Zenon DEF Balanced
    <2>4. \A k, cred : LimitOf(k, cred)' = LimitOf(k, cred)
        BY <2>1, Zenon DEF LimitOf, Rate
    <2>5. AllBalanced(limiter, spent)'
        <3> SUFFICES ASSUME NEW k \in DOMAIN limiter \cup DOMAIN spent, NEW cred \in cfg.creds, k[2] = cred.caller
                     PROVE  (Balanced(limiter, spent, k, LimitOf(k, cred)))'
            BY <2>1, Zenon DEF AllBalanced
        <3>1. PICK l : l = LimitOf(k, cred)
            BY Zenon
        <3>2. Balanced(limiter, spent, k, l)
            BY <3>1, Zenon DEF LimiterInv, AllBalanced
        <3>3. (Balanced(limiter, spent, k, l))'
            BY <2>3, <3>2, Zenon
        <3>4. l = (LimitOf(k, cred))'
            BY <2>4, <3>1, Zenon
        <3> QED
            BY <3>3, <3>4, Zenon
    <2>6. Clock'
        BY <2>1, <2>2 DEF Clock
    <2>7. (up => ingestion(cfg))'
        BY <2>1, Zenon DEF LimiterInv
    <2> QED
        BY <2>5, <2>6, <2>7, Zenon DEF LimiterInv
<1>3. ASSUME NEW cred \in cfg.creds, NEW source, NEW batch, Submit(cred, source, batch)
      PROVE  LimiterInv'
    BY <1>3, SubmitKeepsLimiter, Zenon
<1>4. ASSUME UNCHANGED <<cfg, up, now, limiter, spent, upAt>> PROVE LimiterInv'
    <2>1. AllBalanced(limiter, spent)'
        <3>1. PICK table, ledger : table = limiter /\ ledger = spent
            BY Zenon
        <3>2. (AllBalanced(table, ledger))'
            <4>1. AllBalanced(table, ledger)
                BY <3>1, Zenon DEF LimiterInv
            <4> QED
                BY <1>4, <4>1, BalanceStays
        <3>3. table = limiter' /\ ledger = spent'
            BY <1>4, <3>1, Zenon
        <3> QED
            BY <3>2, <3>3, Zenon
    <2>2. Clock' /\ (up => ingestion(cfg))'
        BY <1>4, Zenon DEF LimiterInv, Clock
    <2> QED
        BY <2>1, <2>2, Zenon DEF LimiterInv
<1>5. CASE Consume
    <2>1. UNCHANGED <<cfg, up, now, limiter, spent, upAt>>
        BY <1>5, Zenon DEF Consume, pollOnce, applyCheck, applyTx, retryCheck, retryTx, retryDone, CommitRecords
    <2> QED
        BY <1>4, <2>1, Zenon
<1>6. CASE SubmitTx \/ SubmitFails
    <2>1. UNCHANGED <<cfg, up, now, limiter, spent, upAt>>
        BY <1>6, Zenon DEF SubmitTx, SubmitFails
    <2> QED
        BY <1>4, <2>1, Zenon
<1>7. ASSUME NEW x, NEW y, Publish(x, y) \/ sweepOnce(x) PROVE LimiterInv'
    <2>1. UNCHANGED <<cfg, up, now, limiter, spent, upAt>>
        BY <1>7, Zenon DEF Publish, sweepOnce, memory
    <2> QED
        BY <1>4, <2>1, Zenon
<1>8. CASE UNCHANGED vars
    <2>1. UNCHANGED <<cfg, up, now, limiter, spent, upAt>>
        BY <1>8, Zenon DEF vars, memory
    <2> QED
        BY <1>4, <2>1, Zenon
<1> QED
    BY <1>1, <1>2, <1>3, <1>5, <1>6, <1>7, <1>8, Zenon DEF Next

(* The limiter starts with no bucket and nothing granted.                  *)
LEMMA LimiterStarts == Init => LimiterInv
<1> SUFFICES ASSUME Init PROVE LimiterInv
    OBVIOUS
<1>1. cfg \in Configs /\ ~up /\ now = 1 /\ upAt = 1 /\ limiter = <<>> /\ spent = <<>>
    BY Zenon DEF Init
<1>2. DOMAIN limiter = {} /\ DOMAIN spent = {}
    BY <1>1
<1>3. AllBalanced(limiter, spent)
    BY <1>2, Zenon DEF AllBalanced
<1>4. Clock
    BY <1>1 DEF Clock
<1> QED
    BY <1>1, <1>3, <1>4, Zenon DEF LimiterInv

(* A balanced key was granted no more than its burst and its refill.       *)
LEMMA LimiterBounds == LimiterInv => RateBound
<1> SUFFICES ASSUME LimiterInv, NEW k \in DOMAIN spent, NEW cred \in cfg.creds, k[2] = cred.caller
             PROVE  spent[k] <= LimitOf(k, cred).burst + LimitOf(k, cred).rate * (now - upAt)
    BY Zenon DEF RateBound
<1>1. PICK l : l = LimitOf(k, cred)
    BY Zenon
<1>2. Balanced(limiter, spent, k, l) /\ Clock
    BY <1>1, Zenon DEF LimiterInv, AllBalanced
<1>3. /\ l \in [rate : Nat \ {0}, burst : Nat] /\ spent[k] \in Int
      /\ k \notin DOMAIN limiter => spent[k] <= l.rate * (now - upAt)
      /\ k \in DOMAIN limiter =>
           /\ limiter[k].tokens \in Nat /\ limiter[k].at \in upAt..now
           /\ spent[k] + limiter[k].tokens <= l.burst + l.rate * (limiter[k].at - upAt)
    BY <1>2, Zenon DEF Balanced, Had
<1>4. l.rate \in Nat /\ l.burst \in Nat /\ now \in Nat /\ upAt \in Nat
    BY <1>2, <1>3 DEF Clock
<1>5. spent[k] <= l.burst + l.rate * (now - upAt)
    <2>1. CASE k \notin DOMAIN limiter
        <3>1. l.rate * (now - upAt) \in Int
            BY <1>4
        <3> QED
            BY <1>3, <1>4, <2>1, <3>1
    <2>2. CASE k \in DOMAIN limiter
        <3>1. /\ limiter[k].tokens \in Nat /\ limiter[k].at \in upAt..now /\ spent[k] \in Int
              /\ spent[k] + limiter[k].tokens <= l.burst + l.rate * (limiter[k].at - upAt)
            BY <1>3, <2>2, Zenon
        <3> QED
            BY <1>4, <3>1, RefillBounds, Zenon
    <2> QED
        BY <2>1, <2>2, Zenon
<1> QED
    BY <1>1, <1>5, Zenon

-----------------------------------------------------------------------------
(* The fact plane implements the velocity sources it is built around, so   *)
(* what is proved of them holds in it.                                     *)

(* The fact plane around it takes only the steps of the velocity sources:  *)
(* what it does besides leaves their state alone.                          *)
THEOREM PlanesImplementVelocity == SpecPlanes => Spec
<1>1. InitPlanes => Init
    BY DEF InitPlanes
<1>2. [NextPlanes]_allVars => [Next]_vars
    <2> SUFFICES ASSUME [NextPlanes]_allVars PROVE [Next]_vars
        OBVIOUS
    <2>1. CASE PlanesStart \/ PlanesStop
        BY <2>1 DEF PlanesStart, PlanesStop, Next
    <2>2. CASE VelocityStep
        BY <2>2 DEF VelocityStep, Next
    <2>3. ASSUME NEW t \in Threads, Resolution(t) PROVE UNCHANGED vars
        BY <2>3, Zenon DEF Resolution, LookupBegins, FetchSends, FetchReturns
    <2>4. ASSUME NEW t \in Threads, NEW x, Resolve(t, x) \/ ResolveApprovers(t, x)
          PROVE  UNCHANGED vars
        BY <2>4, Zenon DEF Resolve, ResolveApprovers
    <2>5. ASSUME NEW n, NEW w, RemoteChanges(n, w) \/ NameMoves(w)
          PROVE  UNCHANGED vars
        BY <2>5 DEF RemoteChanges, NameMoves
    <2>6. CASE UNCHANGED allVars
        BY <2>6 DEF allVars
    <2> QED
        BY <2>1, <2>2, <2>3, <2>4, <2>5, <2>6 DEF NextPlanes
<1> QED
    BY <1>1, <1>2, PTL DEF SpecPlanes, Spec

-----------------------------------------------------------------------------
(* The library's theorems come last: they are large, and only these two    *)
(* lemmas are about what they state.                                       *)
INSTANCE FiniteSetTheorems

(* A nonempty set of naturals has a least element.                         *)
LEMMA WellOrdered == LeastExists
<1> SUFFICES ASSUME NEW S \in SUBSET Nat, S # {}
             PROVE  \E t \in S : \A u \in S : t <= u
    BY Zenon DEF LeastExists
<1>1. PICK t \in S : \A u \in S : ~(<<u, t>> \in OpToRel(<, Nat))
  BY NatLessThanWellFounded, WFMin, Zenon
<1>2. \A u, v \in Nat : u < v => <<u, v>> \in OpToRel(<, Nat)
  BY Zenon DEF OpToRel
<1>3. \A u \in S : ~(u < t)
  BY <1>1, <1>2, Zenon
<1>4. QED
  BY <1>3

(* Finite sets have natural sizes; their parts and images are finite.      *)
LEMMA FiniteSetFacts == CountsExist
<1>1. \A S : IsFiniteSet(S) => Cardinality(S) \in Nat
    BY FS_CardinalityType, Zenon
<1>2. \A S : \A T \in SUBSET S : IsFiniteSet(S) => IsFiniteSet(T)
    BY FS_Subset, Zenon
<1>3. \A S, T : \A f \in Surjection(S, T) : IsFiniteSet(S) => IsFiniteSet(T)
    BY FS_Surjection, Zenon
<1> QED
    BY <1>1, <1>2, <1>3, Zenon DEF CountsExist

(* Deduplication: however often it is delivered, an event is counted once. *)
THEOREM VelocityCountedOnce == Spec => []CountedOnce
<1>1. VelocityInv => CountedOnce
    BY DEF VelocityInv, Ledger, CountedOnce
<1>2. VelocityInv /\ [Next]_vars => VelocityInv'
    BY WellOrdered, VelocityStepKeeps
<1> QED
    BY <1>1, <1>2, VelocityStarts, PTL DEF Spec

(* Kafka: an offset is committed only past what was counted or refused.    *)
THEOREM VelocityCommitCovers == Spec => []CommitCovers
<1>1. VelocityInv => CommitCovers
    BY DEF VelocityInv, Cover, Covered, CommitCovers
<1>2. VelocityInv /\ [Next]_vars => VelocityInv'
    BY WellOrdered, VelocityStepKeeps
<1> QED
    BY <1>1, <1>2, VelocityStarts, PTL DEF Spec

(* The ingest rate limiter: between two restarts no key is granted more    *)
(* than its burst and what its rate refills, for any batches and limits,   *)
(* and although a full table forgets buckets.                              *)
THEOREM VelocityRateBound == Spec => []RateBound
<1>1. LimiterInv /\ [Next]_vars => LimiterInv'
    BY WellOrdered, FiniteSetFacts, LimiterStepKeeps
<1> QED
    BY <1>1, LimiterStarts, LimiterBounds, PTL DEF Spec

(* In the whole fact plane an event is counted once, however often it is   *)
(* delivered.                                                              *)
THEOREM PlanesCountedOnce == SpecPlanes => []CountedOnce
BY PlanesImplementVelocity, VelocityCountedOnce, PTL

(* In the whole fact plane an offset is committed only past what was       *)
(* counted or refused.                                                     *)
THEOREM PlanesCommitCovers == SpecPlanes => []CommitCovers
BY PlanesImplementVelocity, VelocityCommitCovers, PTL

(* In the whole fact plane no source and no subject is granted more than   *)
(* its burst and what its rate refilled.                                   *)
THEOREM PlanesRateBound == SpecPlanes => []RateBound
BY PlanesImplementVelocity, VelocityRateBound, PTL
=============================================================================
