----------------------------- MODULE MCRuntime -----------------------------
(* Small deployments of Runtime for TLC. *)
EXTENDS Runtime

Base == {"dsn", "issuer", "audience"}
Process(roles, addresses, options, want, migrate, unserved) ==
    [roles |-> roles, addresses |-> addresses, options |-> Base \cup options,
     want |-> want, migrate |-> migrate, unserved |-> unserved]

Named(name) == [name |-> name, roles |-> {}, addresses |-> {}, options |-> {}]

StepUp == {"mfa_acr", "mfa_authz", "mfa_client", "mfa_redirect", "mfa_token"}
Pick(x) == {{}, {x}}

\* settings an operator may have made, coherent or not
Asked ==
    {m \cup e \cup i \cup s :
        m \in {{}, StepUp, StepUp \ {"mfa_authz"}, {"mfa_ciba"}, StepUp \cup {"mfa_acr_not_in_oidc"}},
        e \in Pick("external"), i \in Pick("ingest"), s \in Pick("stream")}
    \cup {{"kafka", "stream"}, {"kafka", "kafka_group", "kafka_topics", "stream"}, {"checkpoint_sink"},
          {"checkpoint_key", "checkpoint_key_id", "checkpoint_sink"}, {"approver_issuer"}, {"unknown_mode"}}

SettingsTried ==
    [name : {"settings"}, options : Asked, addresses : SUBSET Surfaces,
     roles : {{"all"}, {"decide"}, {"consumer"}, {"check"}, {"api", "console"}, {"decide", "consumer"}, {}}]

Instances == {Named(n) : n \in {"rollout", "waiting", "check", "outage", "console", "stop"}} \cup SettingsTried


Names == {"a", "b"}

\* "rollout": two builds migrate at once; "waiting": a process waits for the
\* migration of another, on an empty database; "check": commits, a schema no
\* plane serves, and the clock; "outage" and "console": the database comes and
\* goes; "stop": requests and listeners during a shutdown
SettingsOf(d) ==
    CASE d.name = "rollout" ->
           [p \in {"a", "b"} |->
               Process({"check"}, {"pep"}, {}, IF p = "a" THEN 2 ELSE 3, TRUE, {})]
      [] d.name = "waiting" ->
           [p \in {"a", "b"} |-> Process({"check"}, {"pep"}, {}, 2, p = "a", {})]
      [] d.name = "check" ->
           [p \in {"a"} |-> Process({"check"}, {"pep"}, {}, 1, FALSE, {2})]
      [] d.name = "outage" ->
           [p \in {"a", "b"} |->
               IF p = "a" THEN Process({"api"}, {"console"}, {}, 1, TRUE, {})
               ELSE Process({"check"}, {"pep"}, {}, 1, FALSE, {})]
      [] d.name = "console" ->
           [p \in {"a"} |-> Process({"console"}, {"console"}, {}, 1, FALSE, {})]
      [] d.name = "stop" ->
           [p \in {"a"} |-> Process({"all"}, {"pep", "console"}, {}, 1, FALSE, {})]
      [] d.name = "settings" ->
           [p \in {"a"} |-> Process(d.roles, d.addresses, d.options, 1, FALSE, {})]

AppliedOf(d) == IF d.name = "waiting" THEN 0 ELSE 1
Time(d)      == IF d.name = "check" THEN 4 ELSE 0
Commits(d)   == IF d.name = "check" THEN 1 ELSE 0
Outages(d)   == IF d.name = "outage" THEN 2 ELSE IF d.name \in {"rollout", "waiting", "console", "stop"} THEN 1 ELSE 0
Ends(d)      == IF d.name \in {"rollout", "waiting", "stop"} THEN 1 ELSE 0
Checks(d)    == IF d.name = "check" THEN 1 ELSE IF d.name = "stop" THEN 2 ELSE 0
Timeouts(d)  == IF d.name = "stop" THEN 2 ELSE 0
=============================================================================
