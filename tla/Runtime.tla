------------------------------ MODULE Runtime ------------------------------
(***************************************************************************)
(* The life of stamp processes around one Postgres database: a process     *)
(* validates its configuration, migrates the schema under an advisory      *)
(* lock, loads the policy set, serves, answers readiness probes, refreshes *)
(* the set, answers checks, and shuts down.  (internal/runtime, store/     *)
(* migrate.go, engine/check.go, api/server.go, api/authzen.go)             *)
(*                                                                         *)
(* The database is one record, changed one statement or transaction at a   *)
(* time.  A deployment is the set of its processes with their settings;    *)
(* it is chosen in Init, so that one run explores several.                 *)
(***************************************************************************)
EXTENDS Naturals, Sequences, FiniteSets

CONSTANTS
    Processes,          \* every process name a deployment uses
    Deployments,        \* the names of the deployments explored
    Settings(_),        \* the settings of each process of a deployment
    Applied(_),         \* the last migration the database starts with
    Deadline,           \* PolicyStalenessDeadline
    Latency,            \* how long loading a snapshot may take
    LockPolls,          \* how often a boot asks for the migration lock
    MaxTime(_), MaxCommits(_), MaxOutages(_), MaxEnds(_), MaxChecks(_),
    MaxTimeouts(_)      \* bounds on the run, per deployment

None == "none"

ASSUME RuntimeAssumption ==
    /\ Deadline \in Nat /\ Latency \in Nat /\ LockPolls \in Nat
    /\ None \notin Processes
    /\ \A d \in Deployments :
        /\ DOMAIN Settings(d) \subseteq Processes /\ Applied(d) \in Nat
        /\ \A p \in DOMAIN Settings(d) : Settings(d)[p].want \in Nat

VARIABLES
    cfg,        \* the deployment
    db,         \* [mode, version, dirty, applied, lock, schema, policies]
    now, was,   \* the clock; when each schema and policy version was superseded
    phase,      \* process -> where it is in its life
    app,        \* process -> the loops its roles run, the components it can be reached for
    mig,        \* process -> the migration under way
    gate,       \* process -> schemaVersionGate.open
    streak,     \* process -> databaseReachability.failures
    check,      \* process -> CheckService: snapshot and freshAt
    decide,     \* process -> decidePlane: snapshot
    load,       \* process, plane -> the load under way
    request,    \* process -> the check request being answered
    buffer,     \* process -> check events not yet in the audit chain
    ending,     \* process -> how far the shutdown is
    spent       \* outages, ends, commits, checks and timeouts so far

planes   == <<check, decide, load>>
serving  == <<request, buffer>>
vars     == <<cfg, db, now, was, phase, app, mig, gate, streak, planes,
              serving, ending, spent>>

Procs == DOMAIN Settings(cfg)
Of(p) == Settings(cfg)[p]

-----------------------------------------------------------------------------
(* Configuration.  Settings are the set of those an operator made.         *)

Surfaces   == {"pep", "console", "callback"}
knownRoles == {"check", "decide", "consumer", "api", "console"}

\* ParseRoles: "all", or a non-empty list of known roles
ParseRoles(spec) == IF spec = {"all"} THEN knownRoles ELSE spec
RolesParse(spec) == spec = {"all"} \/ (spec # {} /\ spec \subseteq knownRoles)

KafkaValid(o) == "kafka" \in o => {"kafka_group", "kafka_topics"} \subseteq o

CheckpointValid(o) ==
    o \cap {"checkpoint_key", "checkpoint_sink"} # {}
        => {"checkpoint_key", "checkpoint_key_id", "checkpoint_sink"} \subseteq o

MFAConfigured(o) == o \cap {"mfa_acr", "mfa_authz", "mfa_client", "mfa_ciba"} # {}

MFAValid(o) ==
    MFAConfigured(o) =>
        /\ {"mfa_acr", "mfa_authz", "mfa_client", "mfa_redirect", "mfa_token"} \subseteq o
        /\ "mfa_acr_not_in_oidc" \notin o

surfaceRequirements(c, roles) ==
    "callback" \notin c.addresses =>
        /\ "decide" \in roles => c.options \cap {"mfa_authz", "external"} = {}
        /\ "consumer" \in roles => "ingest" \notin c.options

validate(c, roles) ==
    /\ {"dsn", "issuer", "audience"} \subseteq c.options
    /\ c.addresses # {} /\ c.addresses \subseteq Surfaces
    /\ "approver_issuer" \in c.options => "approver_issuer_pinned" \in c.options
    /\ c.options \cap {"negative_threshold", "unknown_mode"} = {}
    /\ KafkaValid(c.options) /\ CheckpointValid(c.options) /\ MFAValid(c.options)
    /\ surfaceRequirements(c, roles)

issuesChallenges(roles) == roles \cap {"decide", "api"} # {}
withoutUnusedCredentials(o, roles) ==
    o \ ((IF issuesChallenges(roles) THEN {} ELSE {"external", "mfa_ciba"})
         \cup (IF "consumer" \in roles THEN {} ELSE {"ingest"}))

-----------------------------------------------------------------------------
(* The component registry and the server's mount table.                    *)

Route(surface, auth) == [surface |-> surface, auth |-> auth]
Component(name, roles, routes, runner) ==
    [name |-> name, roles |-> roles, routes |-> routes, runner |-> runner]

\* What build registers, for the options left after withoutUnusedCredentials.
Registered(o) ==
    {Component("audit-buffer", knownRoles, {}, TRUE),
     Component("check-api", {"check"}, {Route("pep", "workload")}, FALSE),
     Component("policy-refresh", {"check"}, {}, TRUE),
     Component("decide-api", {"decide"}, {Route("pep", "workload")}, FALSE),
     Component("approval-api", {"decide"}, {Route("console", "user")}, FALSE),
     Component("audit-console-api", {"decide"}, {Route("console", "user")}, FALSE),
     Component("cancellation-api", {"decide"}, {Route("console", "user")}, FALSE),
     Component("callback-api", {"decide"}, {Route("callback", "public")}, FALSE),
     Component("decide-refresh", {"decide"}, {}, TRUE),
     Component("expiry-sweeper", {"decide"}, {}, TRUE),
     Component("policy-api", {"api"}, {Route("console", "user")}, FALSE),
     Component("governance-bootstrap", {"api"}, {}, TRUE),
     Component("revision-reconciler", {"api"}, {}, TRUE),
     Component("console", {"console"}, {Route("console", "static")}, FALSE),
     Component("event-consumer", {"consumer"}, {}, TRUE),
     Component("retention-sweeper", {"consumer"}, {}, TRUE)}
    \cup (IF "checkpoint_key" \in o
          THEN {Component("audit-checkpointer", {"api"}, {}, TRUE)} ELSE {})
    \cup (IF "stream" \in o
          THEN {Component("ingest-api", {"consumer"}, {Route("callback", "workload")}, FALSE)}
          ELSE {})

RolesOf(c)   == ParseRoles(c.roles)
OptionsOf(c) == withoutUnusedCredentials(c.options, RolesOf(c))
Active(c)    == {k \in Registered(OptionsOf(c)) : k.roles \cap RolesOf(c) # {}}
Runners(c)   == {k.name : k \in {k \in Active(c) : k.runner}}

allowedAuth ==
    [pep |-> {"workload"}, console |-> {"user", "static"}, callback |-> {"workload", "public"}]

\* mount refuses a route whose credential its surface does not admit; a route
\* on a surface with no listener is mounted all the same.
Mounts(c)    == \A k \in Active(c), r \in Surfaces \X {"workload", "user", "public", "static"} :
                    Route(r[1], r[2]) \in k.routes => r[2] \in allowedAuth[r[1]]
Reachable(c) == {k.name : k \in {k \in Active(c) : \E r \in k.routes : r.surface \in c.addresses}}

-----------------------------------------------------------------------------
(* The db, seen one statement at a time.  It is "up", "erring" (it    *)
(* answers, with an error) or "gone".                                       *)

Answers == db.mode = "up"

\* databaseReachability.observe of one statement; the counter is only ever
\* compared with unreachableStreak and is capped there
unreachableStreak == 3
observe(n) == IF db.mode # "gone" THEN 0
              ELSE IF n < unreachableStreak THEN n + 1 ELSE n
Observes(p) == streak' = [streak EXCEPT ![p] = observe(@)]

\* A bug: the row is written without its dirty flag.
SetVersionClean(version, dirty) == [db EXCEPT !.version = version, !.dirty = FALSE]
SetVersion(version, dirty) == [db EXCEPT !.version = version, !.dirty = dirty]

\* AppliedSchemaVersion and SchemaBehind: version 0 is no version row at all
SchemaBehind(want) ==
    [dirty |-> db.dirty, ready |-> ~db.dirty /\ db.version # 0 /\ db.version >= want]

\* The two reads of LoadSnapshot need the tables of the first migration.
Tables == Answers /\ 1 \in db.applied

-----------------------------------------------------------------------------
NoApp       == [runners |-> {}, reachable |-> {}]
NoMigration == [step |-> None, next |-> 0, polls |-> 0]
NoLoad      == [schema |-> 0, at |-> 0]
NoSnapshot  == [schema |-> 0, policies |-> 0]
NoRequest   == [step |-> None, judged |-> NoSnapshot, at |-> 0]
NoEnding    == [shut |-> {}, broken |-> {}, errs |-> 0, stuck |-> FALSE, cut |-> FALSE, flushed |-> FALSE]
Planes      == {"check", "decide"}

Init ==
    /\ cfg \in Deployments
    /\ db = [mode |-> "up", version |-> Applied(cfg), dirty |-> FALSE,
             applied |-> 1..Applied(cfg), lock |-> None, schema |-> 1, policies |-> 1]
    /\ now = 0
    /\ was = [schema |-> <<>>, policies |-> <<>>]
    /\ phase = [p \in Procs |-> "down"]
    /\ app = [p \in Procs |-> NoApp]
    /\ mig = [p \in Procs |-> NoMigration]
    /\ gate = [p \in Procs |-> FALSE]
    /\ streak = [p \in Procs |-> 0]
    /\ check = [p \in Procs |-> [snapshot |-> NoSnapshot, freshAt |-> 0]]
    /\ decide = [p \in Procs |-> NoSnapshot]
    /\ load = [p \in Procs |-> [k \in Planes |-> NoLoad]]
    /\ request = [p \in Procs |-> NoRequest]
    /\ buffer = [p \in Procs |-> 0]
    /\ ending = [p \in Procs |-> NoEnding]
    /\ spent = [outages |-> 0, ends |-> 0, commits |-> 0, checks |-> 0, timeouts |-> 0]

To(p, to) == phase' = [phase EXCEPT ![p] = to]

\* Assemble: a configuration that does not parse or validate ends the process;
\* store.Open pings the database; a process told to migrate goes on to that.
Assemble(p) ==
    /\ phase[p] = "down"
    /\ LET c == Of(p) IN
       CASE ~RolesParse(c.roles) \/ ~validate(c, RolesOf(c)) -> To(p, "refused") /\ UNCHANGED <<mig, streak, app>>
         [] ~Answers -> To(p, "failed") /\ Observes(p) /\ UNCHANGED <<mig, app>>
         [] OTHER ->
              /\ Observes(p)
              /\ app' = [app EXCEPT ![p] = [runners |-> Runners(c), reachable |-> Reachable(c)]]
              /\ To(p, IF c.migrate THEN "locking" ELSE "loading")
              /\ mig' = [mig EXCEPT ![p] = [NoMigration EXCEPT !.step = "read"]]
    /\ UNCHANGED <<cfg, db, now, was, gate, planes, serving, ending, spent>>

\* pgxMigrationDriver.Lock: one poll of the session advisory lock
Lock(p) ==
    \/ /\ db.lock = None
       /\ db' = [db EXCEPT !.lock = p]
       /\ To(p, "migrating") /\ UNCHANGED mig
    \/ /\ db.lock # None
       /\ mig' = [mig EXCEPT ![p].polls = @ + 1]
       /\ To(p, IF mig[p].polls < LockPolls THEN "locking" ELSE "failed")
       /\ UNCHANGED db

LockPoll(p) ==
    /\ phase[p] = "locking" /\ Observes(p)
    /\ IF Answers THEN Lock(p) ELSE To(p, "failed") /\ UNCHANGED <<db, mig>>
    /\ UNCHANGED <<cfg, now, was, app, gate, planes, serving, ending, spent>>

\* The steps of golang-migrate's Up over the driver, the lock held: the version
\* is read once, then each migration after it is marked dirty, run and marked
\* clean.  A dirty version, one this binary does not embed, a statement that
\* fails or a migration already in the database end it, and the lock goes.
UpEnds(p, d, to) ==
    /\ db' = [d EXCEPT !.lock = IF @ = p THEN None ELSE @]
    /\ To(p, to) /\ mig' = [mig EXCEPT ![p] = NoMigration]
UpGoes(p, d, step, next) ==
    /\ db' = d
    /\ mig' = [mig EXCEPT ![p].step = step, ![p].next = next]
    /\ UNCHANGED phase

Version(p) ==
    /\ mig[p].step = "read"
    /\ IF db.dirty \/ db.version > Of(p).want THEN UpEnds(p, db, "failed")
       ELSE IF db.version = Of(p).want THEN UpEnds(p, db, "loading")
       ELSE UpGoes(p, db, "mark", db.version + 1)

MarkDirty(p) ==
    /\ mig[p].step = "mark"
    /\ UpGoes(p, SetVersion(mig[p].next, TRUE), "run", mig[p].next)

\* Run: the whole file is one implicit transaction
Run(p) ==
    /\ mig[p].step = "run"
    /\ IF mig[p].next \in db.applied THEN UpEnds(p, db, "failed")
       ELSE UpGoes(p, [db EXCEPT !.applied = @ \cup {mig[p].next}], "clean", mig[p].next)

MarkClean(p) ==
    /\ mig[p].step = "clean"
    /\ IF mig[p].next = Of(p).want THEN UpEnds(p, SetVersion(mig[p].next, FALSE), "loading")
       ELSE UpGoes(p, SetVersion(mig[p].next, FALSE), "mark", mig[p].next + 1)

Migrate(p) ==
    /\ phase[p] = "migrating" /\ Observes(p)
    /\ IF Answers THEN Version(p) \/ MarkDirty(p) \/ Run(p) \/ MarkClean(p)
       ELSE UpEnds(p, db, "failed")
    /\ UNCHANGED <<cfg, now, was, app, gate, planes, serving, ending, spent>>

-----------------------------------------------------------------------------
(* Policy snapshots.  A snapshot is the schema and the policies it was      *)
(* built from, read by two statements; its revision is their digest, so the *)
(* pair stands for it.                                                      *)

Loaded(p, plane, snapshot) ==
    CASE plane = "check" ->
           /\ check' = [check EXCEPT ![p] = [snapshot |-> snapshot, freshAt |-> now]]
           /\ UNCHANGED decide
      [] plane = "decide" ->
           /\ decide' = [decide EXCEPT ![p] = snapshot]
           /\ UNCHANGED check

\* A bug: a poll that fails still moves the time of the last confirmation.
PollFailsFresh(p, plane) ==
    /\ check' = IF plane = "check" THEN [check EXCEPT ![p].freshAt = now] ELSE check
    /\ UNCHANGED decide

\* Refresh and refresh on an error: what is held stays, and so does freshAt
PollFails(p, plane) == UNCHANGED <<check, decide>>

\* The initial loads, check's before decide's, must succeed; then the process
\* serves.  Later polls run side by side, one per plane.
Polls(p, plane) ==
    \/ phase[p] = "loading" /\ (plane = "check" <=> check[p].snapshot = NoSnapshot)
    \/ phase[p] = "serving" /\ (IF plane = "check" THEN "policy-refresh" ELSE "decide-refresh") \in app[p].runners

\* a load, whatever came of it, is over
LoadEnds(p, plane, ok) ==
    /\ load' = [load EXCEPT ![p][plane] = NoLoad]
    /\ IF phase[p] # "loading" THEN UNCHANGED phase
       ELSE IF ~ok THEN To(p, "failed")
       ELSE IF plane = "check" THEN UNCHANGED phase
       ELSE To(p, IF Mounts(Of(p)) THEN "serving" ELSE "failed")

\* LoadSnapshot's first statement, and the schema gates of the source planes
LoadSchema(p, plane) ==
    /\ Polls(p, plane) /\ load[p][plane] = NoLoad
    /\ Observes(p)
    /\ IF Tables /\ db.schema \notin Of(p).unserved
       THEN /\ load' = [load EXCEPT ![p][plane] = [schema |-> db.schema, at |-> now]]
            /\ UNCHANGED <<phase, check, decide>>
       ELSE LoadEnds(p, plane, FALSE) /\ PollFails(p, plane)
    /\ UNCHANGED <<cfg, db, now, was, app, mig, gate, serving, ending, spent>>

\* its second statement, and the swap
LoadPolicies(p, plane) ==
    /\ Polls(p, plane) /\ load[p][plane] # NoLoad
    /\ Observes(p)
    /\ IF Tables
       THEN /\ Loaded(p, plane, [schema |-> load[p][plane].schema, policies |-> db.policies])
            /\ LoadEnds(p, plane, TRUE)
       ELSE PollFails(p, plane) /\ LoadEnds(p, plane, FALSE)
    /\ UNCHANGED <<cfg, db, now, was, app, mig, gate, serving, ending, spent>>

-----------------------------------------------------------------------------
(* Readiness.                                                              *)

lost(p) == streak[p] >= unreachableStreak

\* A bug: the gate latches on reachability as well as on the schema.
readyLatched(p) ==
    /\ gate' = [gate EXCEPT ![p] = @ \/ (Answers /\ SchemaBehind(Of(p).want).ready)]
    /\ UNCHANGED streak

\* schemaVersionGate.ready: an open gate stays open until the database is
\* lost; a closed one reads the schema version
ready(p) ==
    IF gate[p] /\ ~lost(p) THEN UNCHANGED <<gate, streak>>
    ELSE /\ Observes(p)
         /\ gate' = [gate EXCEPT ![p] = /\ Answers
                                        /\ ~SchemaBehind(Of(p).want).dirty
                                        /\ SchemaBehind(Of(p).want).ready]

\* readyHandler, on whichever surface is probed
Probe(p) ==
    /\ phase[p] = "serving" /\ ready(p)
    /\ UNCHANGED <<cfg, db, now, was, phase, app, mig, planes, serving, ending, spent>>

\* The other loops that reach the database on a timer: a failure is logged and
\* the loop goes on, and so it is only noticed.
Loops == {"expiry-sweeper", "revision-reconciler", "audit-checkpointer", "retention-sweeper"}
LoopTick(p) ==
    /\ phase[p] = "serving" /\ Loops \cap app[p].runners # {}
    /\ Observes(p)
    /\ UNCHANGED <<cfg, db, now, was, phase, app, mig, gate, planes, serving, ending, spent>>

\* The context of a serving process ends: its loops return, its loads with them.
Stops(p) == To(p, "stopping") /\ load' = [load EXCEPT ![p] = [k \in Planes |-> NoLoad]]

\* Bootstrap.Run returns what WarnIfUnused could not read or write, and the
\* Kafka consumer what it could not record; Serve ends the process on either.
ComponentTick(p) ==
    /\ phase[p] = "serving"
    /\ \/ "governance-bootstrap" \in app[p].runners
       \/ "event-consumer" \in app[p].runners /\ "kafka" \in Of(p).options
    /\ Observes(p)
    /\ IF Answers THEN UNCHANGED <<phase, load>> ELSE Stops(p)
    /\ UNCHANGED <<cfg, db, now, was, app, mig, gate, check, decide, serving, ending, spent>>

-----------------------------------------------------------------------------
(* The check endpoint: CheckAPI.evaluate reads the schema, judges, and then *)
(* reads the revision it will name, each under the service's lock.          *)

Spend(what, bound) ==
    /\ spent[what] < bound
    /\ spent' = [spent EXCEPT ![what] = @ + 1]

Accepts(p) ==
    /\ phase[p] \in {"serving", "stopping"}
    /\ "check-api" \in app[p].reachable /\ "pep" \notin ending[p].shut \cup ending[p].broken

CheckBegin(p) ==
    /\ Accepts(p) /\ request[p] = NoRequest
    /\ Spend("checks", MaxChecks(cfg))
    /\ request' = [request EXCEPT ![p].step = "evaluate"]
    /\ UNCHANGED <<cfg, db, now, was, phase, app, mig, gate, streak, planes, buffer, ending>>

\* CheckService.Evaluate: past the deadline it judges on nothing
Evaluate(p) ==
    IF now - check[p].freshAt > Deadline THEN NoSnapshot ELSE check[p].snapshot

CheckEvaluate(p) ==
    /\ request[p].step = "evaluate"
    /\ request' = [request EXCEPT ![p] = [step |-> "respond", judged |-> Evaluate(p), at |-> now]]
    /\ UNCHANGED <<cfg, db, now, was, phase, app, mig, gate, streak, planes, buffer, ending, spent>>

\* The event is recorded; the answer names the revision held by now, which a
\* refresh may have moved on since the judgment.
CheckRespond(p) ==
    /\ request[p].step = "respond"
    /\ buffer' = [buffer EXCEPT ![p] = @ + 1]
    /\ request' = [request EXCEPT ![p] = NoRequest]
    /\ UNCHANGED <<cfg, db, now, was, phase, app, mig, gate, streak, planes, ending, spent>>

\* AuditBuffer.Run's flushes: on a timer, and when the context ends
BufferFlush(p) ==
    /\ phase[p] \in {"serving", "stopping"} /\ buffer[p] > 0
    /\ Observes(p)
    /\ buffer' = IF Answers THEN [buffer EXCEPT ![p] = 0] ELSE buffer
    /\ UNCHANGED <<cfg, db, now, was, phase, app, mig, gate, planes, request, ending, spent>>

-----------------------------------------------------------------------------
(* Ending.                                                                  *)

\* SIGTERM: the context is cancelled and every loop returns
Stop(p) ==
    /\ phase[p] = "serving" /\ Stops(p)
    /\ Spend("ends", MaxEnds(cfg))
    /\ UNCHANGED <<cfg, db, now, was, app, mig, gate, streak, check, decide, serving, ending>>

\* A listener's Accept fails for good: its error waits in errs, and nothing
\* reads errs before the context ends.
ListenerFails(p, s) ==
    /\ phase[p] = "serving" /\ s \in Of(p).addresses \ ending[p].broken
    /\ Spend("timeouts", MaxTimeouts(cfg))
    /\ ending' = [ending EXCEPT ![p].broken = @ \cup {s}, ![p].errs = @ + 1]
    /\ UNCHANGED <<cfg, db, now, was, phase, app, mig, gate, streak, planes, serving>>

\* A bug: the channel of the listeners' errors is not buffered.
noCapacity(p) == 0

\* the errors Listeners.Serve can hold before a send blocks
errsCapacity(p) == Cardinality(Of(p).addresses)

\* srv.Shutdown of one surface waits for its requests, or for its timeout; the
\* error of a timeout is sent, or the send blocks and nothing after it happens
Shutdown(p, s) ==
    /\ phase[p] = "stopping" /\ ~ending[p].stuck /\ s \in Of(p).addresses \ ending[p].shut
    /\ \/ /\ s = "pep" => request[p] = NoRequest
          /\ ending' = [ending EXCEPT ![p].shut = @ \cup {s}]
          /\ UNCHANGED spent
       \/ /\ s = "pep" /\ request[p] # NoRequest
          /\ Spend("timeouts", MaxTimeouts(cfg))
          /\ ending' = [ending EXCEPT ![p].cut = TRUE,
                                      ![p].stuck = ending[p].errs >= errsCapacity(p),
                                      ![p].errs = IF ending[p].errs < errsCapacity(p) THEN @ + 1 ELSE @,
                                      ![p].shut = IF ending[p].errs < errsCapacity(p) THEN @ \cup {s} ELSE @]
    /\ UNCHANGED <<cfg, db, now, was, phase, app, mig, gate, streak, planes, serving>>

\* A bug: the final flush does not wait for the listeners.
FlushableEarly(p) == phase[p] = "stopping" /\ ~ending[p].flushed

\* wg.Wait: the listeners are shut before the final flush
Flushable(p) == /\ phase[p] = "stopping" /\ ~ending[p].flushed
                /\ ending[p].shut = Of(p).addresses

FinalFlush(p) ==
    /\ Flushable(p) /\ Observes(p)
    /\ IF Answers THEN buffer' = [buffer EXCEPT ![p] = 0] ELSE UNCHANGED buffer
    /\ ending' = [ending EXCEPT ![p].flushed = Answers]
    /\ To(p, "flushed")
    /\ UNCHANGED <<cfg, db, now, was, app, mig, gate, planes, request, spent>>

\* what a process holds in memory goes with it, and so does its session's lock
Gone(p, to) ==
    /\ To(p, to)
    /\ app' = [app EXCEPT ![p] = NoApp]
    /\ db' = [db EXCEPT !.lock = IF @ = p THEN None ELSE @]
    /\ mig' = [mig EXCEPT ![p] = NoMigration]
    /\ gate' = [gate EXCEPT ![p] = FALSE]
    /\ streak' = [streak EXCEPT ![p] = 0]
    /\ check' = [check EXCEPT ![p] = [snapshot |-> NoSnapshot, freshAt |-> 0]]
    /\ decide' = [decide EXCEPT ![p] = NoSnapshot]
    /\ load' = [load EXCEPT ![p] = [k \in Planes |-> NoLoad]]
    /\ request' = [request EXCEPT ![p] = NoRequest]
    /\ buffer' = [buffer EXCEPT ![p] = 0]
    /\ ending' = [ending EXCEPT ![p] = NoEnding]
    /\ UNCHANGED <<cfg, now, was>>

\* Serve has returned or Assemble has failed; Close, and the process is over.
\* What runs the containers starts it again.
Restart(p) == phase[p] \in {"failed", "flushed"} /\ Gone(p, "down") /\ UNCHANGED spent

Crash(p) ==
    /\ phase[p] \notin {"down", "refused", "failed"}
    /\ Spend("ends", MaxEnds(cfg)) /\ Gone(p, "down")

-----------------------------------------------------------------------------
(* The world.                                                               *)

\* A revision takes effect: schema, policies or both in one transaction.
Commit(kinds) ==
    /\ Answers /\ 1 \in db.applied
    /\ Spend("commits", MaxCommits(cfg))
    /\ db' = [k \in DOMAIN db |-> IF k \in kinds THEN db[k] + 1 ELSE db[k]]
    /\ was' = [k \in DOMAIN was |-> IF k \in kinds THEN Append(was[k], now) ELSE was[k]]
    /\ UNCHANGED <<cfg, now, phase, app, mig, gate, streak, planes, serving, ending>>

Outage(mode) ==
    /\ db.mode # mode /\ db' = [db EXCEPT !.mode = mode]
    /\ IF mode = "up" THEN UNCHANGED spent ELSE Spend("outages", MaxOutages(cfg))
    /\ UNCHANGED <<cfg, now, was, phase, app, mig, gate, streak, planes, serving, ending>>

Tick ==
    /\ now < MaxTime(cfg)
    /\ \A p \in Procs, k \in Planes : load[p][k] # NoLoad => now < load[p][k].at + Latency
    /\ now' = now + 1
    /\ UNCHANGED <<cfg, db, was, phase, app, mig, gate, streak, planes, serving, ending, spent>>

Next ==
    \/ \E p \in Procs :
        \/ Assemble(p) \/ LockPoll(p) \/ Migrate(p)
        \/ \E plane \in Planes : LoadSchema(p, plane) \/ LoadPolicies(p, plane)
        \/ Probe(p) \/ LoopTick(p) \/ ComponentTick(p)
        \/ CheckBegin(p) \/ CheckEvaluate(p) \/ CheckRespond(p) \/ BufferFlush(p)
        \/ Stop(p) \/ FinalFlush(p) \/ Restart(p) \/ Crash(p)
        \/ \E s \in Surfaces : ListenerFails(p, s) \/ Shutdown(p, s)
    \/ \E kinds \in {{"schema"}, {"policies"}, {"schema", "policies"}} : Commit(kinds)
    \/ \E mode \in {"up", "erring", "gone"} : Outage(mode)
    \/ Tick

Spec == Init /\ [][Next]_vars

\* Every loop of a process ticks for as long as it runs, a request or a
\* statement under way comes to an end, the kubelet probes, and what ended is
\* started again.  Nothing is assumed of outages, crashes, signals, commits,
\* clients or the clock.
Fairness ==
    \A p \in Processes :
        /\ WF_vars(p \in Procs /\ (Assemble(p) \/ LockPoll(p) \/ Migrate(p)))
        /\ \A plane \in Planes :
              WF_vars(p \in Procs /\ (LoadSchema(p, plane) \/ LoadPolicies(p, plane)))
        /\ WF_vars(p \in Procs /\ Probe(p))
        /\ WF_vars(p \in Procs /\ LoopTick(p))
        /\ WF_vars(p \in Procs /\ ComponentTick(p))
        /\ WF_vars(p \in Procs /\ (CheckEvaluate(p) \/ CheckRespond(p)))
        /\ \A s \in Surfaces : WF_vars(p \in Procs /\ Shutdown(p, s))
        /\ WF_vars(p \in Procs /\ (FinalFlush(p) \/ Restart(p)))

FairSpec == Spec /\ Fairness

-----------------------------------------------------------------------------
(* Properties.                                                              *)

\* A process whose readiness gate is open runs against a database in which
\* every migration its binary embeds has been run to its end: the gate never
\* opens on a version row that runs ahead of the migration it announces, not
\* while a peer is migrating and not after one died part-way.
\* (readiness.go ready, migrate.go SetVersion)
ReadyMeansMigrated ==
    \A p \in Procs : gate[p] => 1..Of(p).want \subseteq db.applied

\* A check is judged on a schema and on policies each of which was in force no
\* longer ago than the staleness deadline and the time a load takes, whatever
\* refreshes failed, overlapped a commit or were refused in between; an
\* instance that cannot say so denies. (engine/check.go Refresh, Evaluate)
JudgedOnRecentSet ==
    \A p \in Procs :
        request[p].judged # NoSnapshot =>
            \A kind \in {"schema", "policies"} :
                \/ request[p].judged[kind] = db[kind]
                \/ was[kind][request[p].judged[kind]] + Deadline + Latency >= request[p].at

\* A process that stops without a request having outlived the shutdown leaves
\* no check event behind that its final flush did not take, unless the flush
\* itself failed: "Flushing on the way out is what keeps a graceful shutdown
\* from becoming a gap in the audit log". (wiring.go Serve)
FlushCoversAnswers ==
    \A p \in Procs :
        (phase[p] = "flushed" /\ ending[p].flushed /\ ~ending[p].cut) => buffer[p] = 0

Ready(p) == phase[p] = "serving" /\ gate[p]
CanServe(p) ==
    /\ Answers /\ RolesParse(Of(p).roles) /\ validate(Of(p), RolesOf(Of(p)))
    /\ db.schema \notin Of(p).unserved /\ db.lock \in {None, p}
    /\ SchemaBehind(Of(p).want).ready /\ (Of(p).migrate => db.version = Of(p).want)
Notices(p) == RolesOf(Of(p)) \ {"console"} # {}

\* Readiness follows the database: a process with a loop that reaches it is
\* out of service for good once the database is gone for good, and one that
\* could serve is in service for good once the database stays and no other
\* boot holds the migration lock, whatever outages came before.
\* (readiness.go observe, lost, ready)
ReadinessTracksDatabase ==
    \A p \in Processes :
        /\ <>[](p \in Procs /\ db.mode = "gone" /\ Notices(p)) => <>[](p \in Procs /\ ~Ready(p))
        /\ <>[](p \in Procs /\ CanServe(p)) => <>[](p \in Procs /\ Ready(p))

\* A process told to stop, or stopped by a failing component, is over
\* eventually, provided none of its listeners had failed before: the errors
\* its listeners report fit their channel. (server.go Listeners.Serve)
StopCompletes ==
    \A p \in Processes :
        (p \in Procs /\ phase[p] = "stopping" /\ ending[p].broken = {})
            ~> (p \in Procs /\ phase[p] # "stopping")

=============================================================================
