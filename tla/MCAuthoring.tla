---------------------------- MODULE MCAuthoring ----------------------------
(* Small instances of Authoring: one author working through every change a  *)
(* policy can undergo, and two authors racing with a few of them.           *)
EXTENDS Authoring

MCNames == <<"", "a", "acct", "age", "amount", "b", "base", "c", "claimed", "group", "high", "id", "level",
             "low", "member", "pay", "read", "req", "rev", "score", "t1", "t2", "tags", "team">>
MCBadNames == {"a b"}
MCIds == {"base", "pay", "rev"}

Num(n) == Literal(Scalar("int"), <<[is |-> "int", txt |-> "int", v |-> n]>>)
Str(n) == [is |-> "string", txt |-> "word", v |-> n]

Attr(name, type) == [name |-> name, type |-> type]
Group == [name |-> "group", kind |-> "idp_group", params |-> <<Attr("id", Scalar("string"))>>,
          returns |-> ListOf("string"), onError |-> "deny"]
Score == [name |-> "score", kind |-> "http", params |-> <<Attr("level", Scalar("int"))>>,
          returns |-> Scalar("int"), onError |-> "deny"]
BaseSchema ==
    [entities |-> <<[name |-> "acct", attributes |-> <<Attr("level", Scalar("int")), Attr("tags", ListOf("string"))>>],
                    [name |-> "req", attributes |-> <<Attr("amount", Scalar("int")), Attr("age", Scalar("duration"))>>]>>,
     actions |-> <<"pay", "read">>, sources |-> <<Group, Score>>]
Tolerant == [BaseSchema EXCEPT !.sources = <<[Score EXCEPT !.onError = "allow"], Group>>]
Untagged == [BaseSchema EXCEPT !.entities = <<[@[1] EXCEPT !.attributes = <<@[1]>>], @[2]>>]

Amountless == [BaseSchema EXCEPT !.entities = <<@[1], [@[2] EXCEPT !.attributes = <<@[2]>>]>>]

Amount(op, n) == Compare(Field("context", "amount"), op, Num(n))
Scored(n) == Compare(Source("score", <<Field("subject", "level")>>), "ge", Num(n))
Younger(n) == Compare(Field("context", "age"), "lt", Literal(Scalar("duration"), <<[is |-> "duration", txt |-> "duration", v |-> n]>>))
LevelIn(ns) == Member(Field("subject", "level"),
                      Literal(ListOf("int"), [i \in DOMAIN ns |-> [is |-> "int", txt |-> "int", v |-> ns[i]]]), FALSE)

Of(members) == [NoApprovers EXCEPT !.members = members]
Claim == [NoApprovers EXCEPT !.claim = "claimed"]
Team == [NoApprovers EXCEPT !.source = Source("group", <<Literal(Scalar("string"), <<Str(1)>>)>>)]
Quorum(n, approvers) == [ch |-> "quorum", threshold |-> n, approvers |-> approvers]
MFA(acr) == [ch |-> "mfa", mode |-> "delegated", acr |-> acr]
Delay(n, cancel) == [ch |-> "delay", duration |-> n, cancel |-> cancel]
External(t) == [ch |-> "external", target |-> t]

Gate(cond, challenges) ==
    [id |-> "pay", subject |-> "acct", resource |-> "acct", context |-> "req", actions |-> <<"pay">>,
     condition |-> cond, challenges |-> challenges]
Pay == Gate(Amount("ge", 2), <<Quorum(2, Of(<<"a", "b">>)), Delay(2, Of(<<"b">>)), MFA(<<"high">>)>>)
BasePolicy == [Gate(None, <<>>) EXCEPT !.id = "base", !.context = "", !.actions = <<"read", "pay">>]
Rev == [Gate(Logic("not", <<Scored(2)>>), <<External("t1")>>) EXCEPT !.id = "rev", !.actions = <<"pay", "read">>]

With(cs) == [Pay EXCEPT !.challenges = cs]
When(c) == [Pay EXCEPT !.condition = c]
Variants ==
    {When(Amount("ge", 1)), When(Amount("ge", 3)), When(Amount("gt", 2)), When(None),
     When(Logic("any", <<Scored(3), Amount("ge", 2)>>)),
     When(Logic("all", <<Amount("ge", 2), Scored(2)>>)),
     When(Logic("all", <<Amount("ge", 1), Logic("any", <<Amount("ge", 2), LevelIn(<<2, 1>>)>>)>>)),
     When(LevelIn(<<1>>)), When(Logic("any", <<Younger(1), Amount("ge", 2)>>)),
     [Pay EXCEPT !.actions = <<"read", "pay">>], [Pay EXCEPT !.actions = <<"read">>],
     [When(Scored(1)) EXCEPT !.context = ""], [Pay EXCEPT !.resource = "req"],
     With(<<Quorum(1, Of(<<"a", "b">>)), Delay(2, Of(<<"b">>)), MFA(<<"high">>)>>),
     With(<<MFA(<<"high">>), Delay(3, Of(<<"b", "a">>)), Quorum(2, Of(<<"b", "a">>))>>),
     With(<<Quorum(2, Of(<<"a", "b", "c">>)), Delay(2, Of(<<"b">>)), MFA(<<"high">>)>>),
     With(<<Quorum(3, Of(<<"a", "b">>)), Delay(2, Of(<<"b">>)), MFA(<<"high">>)>>),
     With(<<Quorum(2, Claim), Delay(1, Of(<<"b">>)), MFA(<<>>)>>),
     With(<<Quorum(2, Team), Delay(2, None), MFA(<<"high">>)>>),
     With(<<Quorum(2, Of(<<"a", "b">>)), Delay(2, Of(<<"a">>)), MFA(<<"high", "low">>)>>),
     With(<<Quorum(2, Of(<<"a", "b">>)), Delay(2, Of(<<"b">>)), MFA(<<"high">>), External("t1")>>),
     With(<<Quorum(2, Of(<<"a", "b">>)), Quorum(1, Team), Delay(2, Of(<<"b">>)), MFA(<<"high">>)>>),
     With(<<Quorum(2, Of(<<"a", "b">>)), Delay(2, None), MFA(<<"high">>)>>),
     With(<<Quorum(2, Of(<<"a", "b">>)), MFA(<<"high">>)>>),
     With(<<External("t1")>>), With(<<External("t2")>>), With(<<>>)}

(* The console's deltas: a change states the policy it leaves as the one it *)
(* replaces, which the service is not to believe.                           *)
Delta(changes, s) == [changes |-> changes, schemaBefore |-> None, schemaAfter |-> s]
ById(set, id) == {p \in ToSet(set.policies) : p.id = id}
Change1(set, p) == IF ById(set, p.id) = {} THEN Added(p) ELSE Modified(p, p)
EditsOf(c, set) ==
    {Delta(<<Change1(set, p)>>, None) : p \in c.edits}
    \union {Delta(<<Deleted(p)>>, None) : p \in {q \in ToSet(set.policies) : q.id \in c.deletes}}
    \union {Delta(<<>>, s) : s \in c.schemas}
    \union {Delta(<<Change1(set, e[1])>>, e[2]) : e \in c.joint}

Adopting(ids) == <<Mapping(put(put(one("apiVersion", str("stamp/v1")), "kind", str("Adoption")),
                               "policies", strings(ids)))>>
DirectoriesOf(c, export) ==
    LET ofId(file, id) == file # <<>> /\ Has(file[1], "id") /\ file[1].m["id"] = str(id)
        without(id) == SelectSeq(export, LAMBDA f : ~ofId(f, id))
    IN {export} \union {without(id) : id \in c.drops}
       \union {without(p.id) \o <<EncodePolicy(p)>> : p \in c.files}
       \union {without(p.id) \o <<Adopting(<<p.id>>), EncodePolicy(p)>> : p \in c.adopts}

Owner == [id \in MCIds |-> IF id = "base" THEN "file" ELSE "form"]
MCStart(c) == [schema |-> BaseSchema, policies |-> <<BasePolicy, Pay>>, owner |-> Owner]

(* What is sent in a deployment. *)
Nothing == [edits |-> {}, deletes |-> {}, schemas |-> {}, joint |-> {}, drops |-> {}, files |-> {}, adopts |-> {}]
Sent(name) ==
    CASE name = "console" -> [Nothing EXCEPT !.edits = Variants \union {Rev}, !.deletes = {"pay"},
                                             !.schemas = {Tolerant, Untagged, Amountless}, !.joint = {<<Rev, Untagged>>}]
      [] name = "files" -> [Nothing EXCEPT !.drops = {"base", "pay"}, !.files = {Rev, When(Amount("ge", 1))},
                                           !.adopts = {Pay, When(Amount("ge", 3)), Rev}]
      [] name = "racing" -> [Nothing EXCEPT !.edits = {When(Amount("ge", 3))}, !.deletes = {"pay"},
                                            !.drops = {"base"}, !.adopts = {Pay}]
MCEdits(c, set) == EditsOf(Sent(c.name), set)
MCDirectories(c, export) == DirectoriesOf(Sent(c.name), export)

Deployment(name, mode, authors, burst, max) ==
    [name |-> name, mode |-> mode, authors |-> authors, burst |-> burst, max |-> max]
MCConfigs == {Deployment("console", "console", {"p"}, 0, 2), Deployment("files", "file", {"p"}, 1, 2),
              Deployment("racing", "both", {"p", "q"}, 0, 2)}

V(t, v) == Value(Scalar(t), <<[is |-> t, txt |-> t, v |-> v]>>)
Tags2(s) == Value(ListOf("string"), [i \in DOMAIN s |-> Str(s[i])])
Acct(n, tags) == [type |-> "acct", attributes |-> [x \in {"level", "tags"} |-> IF x = "level" THEN V("int", n) ELSE Tags2(tags)]]
Req(n) == [type |-> "req", attributes |-> [x \in {"amount", "age"} |-> V(IF x = "age" THEN "duration" ELSE "int", n)]]
Absent == [type |-> "", attributes |-> [x \in {} |-> V("int", 0)]]
Bare(n) == [type |-> "acct", attributes |-> [x \in {"level"} |-> V("int", n)]]
MCRequests ==
    {[action |-> act, subject |-> s, resource |-> Bare(1), context |-> c] :
        act \in {"pay", "read"}, s \in {Acct(1, <<1>>), Bare(2)}, c \in {Req(1), Req(2), Req(3)}}
    \union {[action |-> "pay", subject |-> Bare(1), resource |-> Bare(1), context |-> Absent]}
MCFacts == [call \in {[name |-> "score", args |-> <<V("int", n)>>] : n \in 1..2} |-> V("int", call.args[1].data[1].v + 1)]
MCEvidence == [approvals : SUBSET {"a", "b", "c"}, acr : {"low", "high"}, waited : {1, 2},
               objectors : {{}, {"b"}}, targets : {{}, {"t1"}}]
MCHolders(a) == IF approverMode(a) = "claim" THEN {"a", "c"} ELSE {"b", "c"}
MCAllowedACR == {"low", "high"}
=============================================================================
