---------------------------- MODULE MCChallenges ----------------------------
(* Instances of Challenges: one deployment per question.                   *)
EXTENDS Challenges, TLC

Person == "s"

External == [kind |-> "external", target |-> "t", acr |-> <<>>]
Elsewhere == [kind |-> "external", target |-> "u", acr |-> <<>>]
MFA(acr) == [kind |-> "mfa", target |-> "none", acr |-> acr]
Judged(gates, material) == [gates |-> gates, material |-> material, deny |-> FALSE]
Denied == [gates |-> <<>>, material |-> "m", deny |-> TRUE]
Ask(caller, key, what) == [caller |-> caller, key |-> key, what |-> what]

Token(kid) == [sub |-> Person, client |-> "rp", iss |-> "idp", aud |-> {"stamp"}, acr |-> "hi",
               amr |-> {}, auth |-> 0, exp |-> 99, nonce |-> 1, kid |-> kid,
               intact |-> TRUE, coded |-> FALSE]

Base == [workers |-> {"w1"}, sweepers |-> {"sw"}, policies |-> <<Judged(<<External>>, "m")>>, requests |-> {Ask("a", "k", "x")},
         maxOutstanding |-> 0, crashes |-> FALSE,
         callerRate |-> NoLimit, ceiling |-> NoLimit, notifyRate |-> NoLimit,
         tracked |-> 4, minReissue |-> 2, maxRecent |-> 4,
         targets |-> [t \in {"t", "u"} |-> IF t = "t" THEN 2 ELSE 0],
         allowedACR |-> <<"lo", "hi">>, initiators |-> <<"stepup">>,
         mfa |-> [iss |-> "idp", client |-> "rp", aud |-> "stamp", amr |-> {"otp"}],
         idp |-> [issuers |-> {"idp"}, audience |-> "stamp", acr |-> {}, workloads |-> {"job"},
                  burst |-> 1, refill |-> 1, ttl |-> 1, max |-> 1],
         keys |-> <<{"k1"}>>, holders |-> [n \in {} |-> 0], kinds |-> {}, peers |-> {}]

All == {"external", "crashing", "stepup", "keyed", "tightened", "reshaped", "retargeted", "budget", "keys"}
MCSettings == [c \in All |->
    CASE c = "external" -> [Base EXCEPT !.workers = {"w1", "w2"}]
      [] c = "crashing" -> [Base EXCEPT !.crashes = TRUE, !.notifyRate = [rate |-> 1, burst |-> 1]]
      [] c = "stepup" -> [Base EXCEPT !.policies = <<Judged(<<MFA(<<"hi">>)>>, "m")>>,
            !.initiators = <<"ciba", "stepup">>]
      [] c = "keyed" -> [Base EXCEPT !.workers = {"w1", "w2"}, !.requests = {Ask("a", "k", "x"), Ask("a", "k", "y"), Ask("b", "none", "x")},
            !.maxOutstanding = 1, !.policies = <<Judged(<<External>>, "m"), Denied>>]
      [] c = "tightened" -> [Base EXCEPT !.sweepers = {},
            !.policies = <<Judged(<<MFA(<<>>), External>>, "m"), Judged(<<MFA(<<"hi">>), External>>, "m")>>]
      [] c = "reshaped" -> [Base EXCEPT !.sweepers = {},
            !.policies = <<Judged(<<MFA(<<"hi">>), External>>, "m"), Judged(<<MFA(<<"hi">>)>>, "m")>>]
      [] c = "retargeted" -> [Base EXCEPT !.policies = <<Judged(<<External>>, "m"), Judged(<<Elsewhere>>, "m2")>>]
      [] c = "budget" -> [Base EXCEPT !.sweepers = {}, !.policies = <<Judged(<<MFA(<<>>)>>, "m")>>,
            !.requests = {Ask("a", "none", "x"), Ask("b", "none", "x")},
            !.callerRate = [rate |-> 1, burst |-> 2], !.ceiling = [rate |-> 1, burst |-> 3]]
      [] c = "keys" -> [Base EXCEPT !.workers = {}, !.sweepers = {}, !.keys = <<{"k1"}, {"k1", "k2"}, {"k2"}>>,
            !.kinds = {"workload"}, !.peers = {"CN=p"},
            !.holders = [n \in {"h1", "h2", "peer", "stranger"} |->
               CASE n = "h1" -> [kind |-> "bearer", tok |-> [Token("k1") EXCEPT !.client = "job"]]
                 [] n = "h2" -> [kind |-> "bearer", tok |-> [Token("k2") EXCEPT !.client = "job"]]
                 [] n = "peer" -> [kind |-> "mtls", cert |-> [verified |-> TRUE, names |-> {"CN=p"}]]
                 [] n = "stranger" -> [kind |-> "mtls", cert |-> [verified |-> TRUE, names |-> {"CN=q"}]]]]]

MCHolders == {"h2"}

MCLogins(c) ==
    CASE c = "stepup" -> {[Token("k1") EXCEPT !.coded = TRUE], [Token("k1") EXCEPT !.acr = "lo"],
                          [Token("k1") EXCEPT !.sub = "other"],
                          [Token("k1") EXCEPT !.nonce = 0, !.amr = {"pwd"}]}
      [] c = "tightened" -> {[Token("k1") EXCEPT !.acr = "lo"]}
      [] c = "reshaped" -> {Token("k1")}
      [] OTHER -> {}

MCMaxTime(c) == CASE c = "keys" -> 5 [] c = "crashing" -> 4
                  [] c = "keyed" -> 1 [] OTHER -> 3
MCMaxRequests(c) == CASE c = "budget" -> 4 [] c = "keyed" -> 3 [] c = "crashing" -> 2 [] c = "keys" -> 0 [] OTHER -> 1
MCMaxCalls(c) == CASE c \in {"budget", "keys", "keyed"} -> 0 [] OTHER -> 2
MCMaxLogins(c) == CASE c = "stepup" -> 2 [] c \in {"tightened", "reshaped"} -> 1 [] OTHER -> 0
MCMaxVerdicts(c) == CASE c = "external" -> 2 [] c = "keyed" -> 0 [] OTHER -> 1
MCMaxFaults(c) == CASE c = "keys" -> 2 [] c \in {"crashing", "stepup"} -> 1 [] OTHER -> 0
MCLastFault(c) == IF c = "keys" THEN 3 ELSE 9
=============================================================================
