------------------------------ MODULE MCFacts ------------------------------
(* Instances of Facts, and of the velocity sources in it, for TLC. *)
EXTENDS Facts

Record(id, subject, value, at, json) ==
    [id |-> id, subject |-> subject, value |-> value, at |-> at, json |-> json]

(* An event that gets old, a deduction from the near future and a record   *)
(* that is no event document.                                              *)
MCRecords == {Record("e1", "alice", 2, 1, TRUE), Record("e2", "alice", -1, 3, TRUE),
              Record("e3", "bob", 1, 0, FALSE)}

Spend == [name |-> "spend", metric |-> "amount", adapter |-> "kafka", window |-> 2, width |-> 2,
          freshness |-> 2, deduct |-> TRUE, params |-> <<"string">>, returns |-> "double", onError |-> ""]
Shop == [topic |-> "orders", source |-> "spend", caller |-> "shop", deduct |-> TRUE]
ShopKey == [caller |-> "shop", scope |-> {[source |-> "spend", metric |-> "amount"]}, deduct |-> TRUE,
            rate |-> [rate |-> 1, burst |-> 2], subjectRate |-> NoLimit]

Url(host) == [parses |-> TRUE, user |-> FALSE, scheme |-> "https", host |-> host, port |-> 0, path |-> ""]
Risk == [name |-> "risk", kind |-> "http", url |-> Url("api"), ttl |-> 1, timeout |-> 1, params |-> <<>>,
         returns |-> "list", onError |-> "", values |-> {}]
Blocked == [name |-> "blocked", kind |-> "static", url |-> Url(""), ttl |-> 0, timeout |-> 0, params |-> <<>>,
            returns |-> "list", onError |-> "", values |-> {"mallory"}]
Staff == [name |-> "staff", kind |-> "idp_group", url |-> Url("api"), ttl |-> 1, timeout |-> 1,
          params |-> <<"string">>, returns |-> "list", onError |-> "", issuer |-> "idp"]
Declares(kind, d) == [name |-> d.name, kind |-> kind, params |-> d.params, returns |-> d.returns, onError |-> ""]

(* One deployment per way events come in, one with both, two that are      *)
(* refused; then one for each remote plane, and the whole chain.           *)
Kafka == [decls  |-> <<Spend>>, topics |-> {Shop}, creds |-> {},
          rate |-> NoLimit, subjectRate |-> [rate |-> 1, burst |-> 0],
          maxBatch |-> 2, maxRate |-> 2, poll |-> 2,
          facts |-> {}, groups |-> {}, issuers |-> {"idp"}, failOpen |-> FALSE,
          egress |-> [allow |-> {Url("api")}, loopback |-> FALSE, private |-> FALSE],
          maxTTL |-> 1, maxCache |-> 1, maxMembers |-> 2, schema |-> {},
          request |-> [subject |-> [team |-> "ops"]]]
Http == [Kafka EXCEPT !.decls[1].adapter = "ingest", !.topics = {}, !.creds = {ShopKey}]
Both == [Kafka EXCEPT !.creds = {ShopKey}, !.maxBatch = 1, !.poll = 1, !.decls[1].returns = "int"]
TooWide == [Kafka EXCEPT !.decls[1].window = 6, !.decls[1].freshness = 0]
Disagreeing == [Kafka EXCEPT !.decls = <<Spend, [Spend EXCEPT !.name = "events", !.width = 1]>>]
Directory == [Kafka EXCEPT !.decls = <<>>, !.topics = {}, !.groups = {Staff},
                           !.schema = {Declares("idp_group", Staff)}]
Web == [Directory EXCEPT !.facts = {Risk, [Risk EXCEPT !.name = "score"]}, !.groups = {},
                         !.schema = {Declares("http", Risk), [Declares("http", Risk) EXCEPT !.name = "score"]}]
LongLived == [Directory EXCEPT !.groups = {[Staff EXCEPT !.ttl = 4]}]
Mismatched == [Web EXCEPT !.facts = {[Risk EXCEPT !.params = <<"string">>]},
                              !.schema = {Declares("http", Risk)}]
Chain == [Kafka EXCEPT !.poll = 1, !.facts = {Blocked}, !.groups = {Staff},
                       !.schema = {Declares("static", Blocked), Declares("event", Spend),
                                   Declares("idp_group", Staff)}]
MCConfigs == {Kafka, Http, Both, TooWide, Disagreeing, Directory, Web, LongLived, Mismatched, Chain}
MCMaxTime(c) == IF c \in {Kafka, Http, Both, TooWide} THEN 6 ELSE IF c = LongLived THEN 5 ELSE 4
MCMaxFaults(c) == IF c \in {Kafka, Http, Both} THEN 1 ELSE 0
MCMaxLog(c) == IF c = Kafka THEN 2 ELSE 1
MCMaxSubmits(c) == IF c = Http THEN 2 ELSE 1
MCMaxChanges(c) == IF c \in {Directory, Web, LongLived} THEN 1 ELSE 0
MCMaxResolves(c) == CASE c \in {Directory, LongLived} -> 2 [] c \in {Kafka, Http, Both} -> 0 [] OTHER -> 1

Call(name, args) == [name |-> name, args |-> args]
MCBatches == {<<Call("risk", <<>>)>>, <<Call("score", <<>>), Call("risk", <<>>)>>, <<Call("staff", <<"ops">>)>>, 
              <<Call("staff", <<"ops">>), Call("spend", <<"alice">>), Call("blocked", <<>>)>>}
MCRefs == {[name |-> "staff", operands |-> <<[kind |-> "field", role |-> "subject", attribute |-> "team"]>>]}
MCWorlds == {{"ann"}, {"ann", "bo"}}
Response(status, value, total) ==
    [status |-> status, large |-> FALSE, json |-> TRUE, value |-> value, total |-> total]
MCResponses(plane, w) ==
    {Response(200, w, Cardinality(w)), Response(404, {}, 0)}
    \cup {Response(200, {"bo"}, 2) : p \in {plane} \cap {"groups"}}
MCLookups == {[ok |-> TRUE, addrs |-> {"public"}], [ok |-> TRUE, addrs |-> {"public", "private"}],
              [ok |-> FALSE, addrs |-> {}]}
=============================================================================
