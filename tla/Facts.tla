-------------------------------- MODULE Facts --------------------------------
(***************************************************************************)
(* The fact plane: one batch of source calls is answered by three planes   *)
(* in a chain (group directories, velocity sources, the registry of static *)
(* and HTTP sources). Remote answers change while they are being fetched,  *)
(* are cached for their time to live, and two resolutions may fetch the    *)
(* same key at once. Names are looked up in DNS again at every dial.       *)
(*                                                                         *)
(* The value of a remote source is a set: the members of a group, or a     *)
(* list. An address is the class of addresses CheckAddr tells apart.       *)
(***************************************************************************)
EXTENDS Velocity

CONSTANTS
    Threads,        \* resolutions under way at the same time
    Batches,        \* batches of calls: sequences of [name, args]
    Refs,           \* approver references of quorums: [name, operands]
    Worlds,         \* values a remote source may have
    Responses(_, _),\* what a remote of a plane may answer when that is its value
    Lookups,        \* answers of DNS: [ok, addrs]
    MaxChanges(_),  \* bound: changes of a remote value or of DNS in a deployment
    MaxResolves(_)  \* bound: resolutions in a deployment

(* A remote that answers in full, with 200 and in JSON, answers its value: *)
(* a list as it is, a membership unless it says itself that it is a page.  *)
InFull(plane, resp) ==
    /\ resp.status = 200 /\ ~resp.large /\ resp.json
    /\ plane = "groups" => ~(resp.total > Cardinality(resp.value))
ASSUME FactsAssumption ==
    /\ \A c \in Configs : c.maxTTL \in Nat
    /\ \A c \in Configs : \A d \in c.facts \cup c.groups : d.ttl \in Nat /\ d.timeout \in Nat
    /\ \A w \in Worlds, plane \in {"registry", "groups"} :
         \A resp \in Responses(plane, w) : InFull(plane, resp) => resp.value = w

VARIABLES
    world, left,    \* the value of each remote source; when each value was last its own
    dns,
    caches,         \* the cache of each plane: key -> [value, expires]
    thread,         \* a resolution: [pc, todo, facts, begun, got, failed]
    changes, resolves

planeVars == <<world, left, dns, caches, thread, changes, resolves>>
allVars == <<vars, planeVars>>

-----------------------------------------------------------------------------
(* Egress                                                                  *)

originOf(u) ==
    <<u.scheme, u.host, IF u.port # 0 THEN u.port ELSE IF u.scheme = "https" THEN 443 ELSE 80>>
HasOrigin(u) == u.scheme \in {"http", "https"} /\ u.host # "" /\ u.port < 65536
parseOrigin(u) == u.parses /\ ~u.user /\ u.path = "" /\ HasOrigin(u)

NewGate(c) == \A u \in c.egress.allow : parseOrigin(u)

CheckAddr(c, addr) ==
    /\ addr \notin {"invalid", "unspecified", "linklocal", "multicast", "reserved"}
    /\ addr = "loopback" => c.egress.loopback
    /\ addr = "private" => c.egress.private

Literal == {"loopback", "private", "public", "linklocal"}    \* hosts that are addresses
CheckURL(c, u) ==
    /\ u.parses /\ ~u.user /\ HasOrigin(u)
    /\ originOf(u) \in {originOf(a) : a \in c.egress.allow}
    /\ u.host \in Literal => CheckAddr(c, u.host)

checkAll(c, addrs) == addrs # {} /\ \A a \in addrs : CheckAddr(c, a)

Resolved(u) == IF u.host \in Literal THEN [ok |-> TRUE, addrs |-> {u.host}] ELSE dns
Preflight(c, u) == Resolved(u).ok => checkAll(c, Resolved(u).addrs)

(* DialContext resolves the name itself and dials one of what it checked.  *)
DialContext(c, u) ==
    IF Resolved(u).ok /\ checkAll(c, Resolved(u).addrs) THEN Resolved(u).addrs ELSE {}

-----------------------------------------------------------------------------
(* Configuration of the registry and of the group directories              *)

onError(d) == IF d.onError = "" THEN "deny" ELSE d.onError
OnErrorAdmitted(c, d) ==
    onError(d) \in {"deny", "allow"} /\ (onError(d) = "allow" => c.failOpen)

newStaticSource(d) ==
    /\ d.url.host = "" /\ d.ttl = 0 /\ d.timeout = 0 /\ d.params = <<>>
    /\ d.returns = "list"

resolveHTTP(c, d) ==
    d.ttl > 0 /\ d.timeout > 0 /\ d.url.host # "" /\ CheckURL(c, d.url) /\ Preflight(c, d.url)

resolveFact(c, d) ==
    /\ d.name # "" /\ OnErrorAdmitted(c, d)
    /\ \/ d.kind = "static" /\ newStaticSource(d)
       \/ d.kind = "http" /\ resolveHTTP(c, d)

OnlyOne(decls) == \A d, e \in decls : d.name = e.name => d = e

NewRegistry(c) == NewGate(c) /\ OnlyOne(c.facts) /\ \A d \in c.facts : resolveFact(c, d)

(* Mutant: no ceiling on a membership's time to live.                      *)
admitAnyTTL(c, d) ==
    /\ d.name # "" /\ d.issuer \in c.issuers /\ d.params = <<"string">> /\ d.returns = "list"
    /\ OnErrorAdmitted(c, d)
    /\ d.ttl > 0 /\ d.timeout > 0 /\ d.url.host # ""

admit(c, d) ==
    /\ d.name # ""
    /\ d.issuer \in c.issuers
    /\ d.params = <<"string">> /\ d.returns = "list"
    /\ OnErrorAdmitted(c, d)
    /\ d.ttl \in 1..c.maxTTL /\ d.timeout > 0 /\ d.url.host # ""

newLimits(c) == c.issuers # {} /\ "" \notin c.issuers
resolveGroup(c, d) == admit(c, d) /\ CheckURL(c, d.url) /\ Preflight(c, d.url)
NewGroups(c) == newLimits(c) /\ OnlyOne(c.groups) /\ \A d \in c.groups : resolveGroup(c, d)

(* The part of App.build that puts the three planes together.              *)
planes(c) == NewRegistry(c) /\ ingestion(c) /\ NewGroups(c)

-----------------------------------------------------------------------------
(* Schema gates: what a schema declares is what is configured.             *)

sameSignature(d, sd) ==
    d.returns = sd.returns /\ d.params = sd.params /\ onError(d) = onError(sd)
FactGate(c, sd) ==
    /\ onError(sd) = "allow" => c.failOpen
    /\ sd.kind \in {"static", "http"} =>
         \E d \in c.facts : d.name = sd.name /\ d.kind = sd.kind /\ sameSignature(d, sd)
sameEventSignature(d, sd) ==
    d.returns = sd.returns /\ d.params = sd.params /\ onError(sd) = "deny"
VelocityGate(c, sd) ==
    sd.kind = "event" => Declared(c, sd.name) /\ sameEventSignature(Decl(c, sd.name), sd)
GroupGate(c, sd) ==
    sd.kind = "idp_group" => \E d \in c.groups : d.name = sd.name /\ sameSignature(d, sd)
VerifySchema(c, sources) ==
    \A sd \in sources : FactGate(c, sd) /\ VelocityGate(c, sd) /\ GroupGate(c, sd)

-----------------------------------------------------------------------------
(* Caches                                                                  *)

Expired(entry) == now >= entry.expires

get(entries, key) == key \in DOMAIN entries /\ ~Expired(entries[key])

(* evictLocked: what has expired goes; if that is nothing, one of those    *)
(* that expire soonest.                                                    *)
evictLocked(entries, max) ==
    LET live == {k \in DOMAIN entries : ~Expired(entries[k])}
        soonest == {k \in live : \A j \in live : entries[k].expires <= entries[j].expires}
    IN  IF Cardinality(live) < max THEN {live} ELSE {live \ {k} : k \in soonest}

put(entries, max, key, value, ttl) ==
    LET rooms == IF key \notin DOMAIN entries /\ Cardinality(DOMAIN entries) >= max
                 THEN evictLocked(entries, max) ELSE {DOMAIN entries}
    IN  {[k \in kept \cup {key} |->
            IF k = key THEN [value |-> value, expires |-> now + ttl] ELSE entries[k]] :
           kept \in rooms}

-----------------------------------------------------------------------------
(* Remote answers                                                          *)

Redirect == {300, 301, 302, 303, 307, 308}

(* httpSource.Fetch and decodeResponse                                     *)
FetchReason(resp) ==
    IF resp.status \in Redirect THEN "redirect"
    ELSE IF resp.status # 200 THEN "status"
    ELSE IF resp.large THEN "too_large"
    ELSE IF ~resp.json THEN "decode" ELSE ""

(* decodeMembership: a page is not a membership.                           *)
decodeMembership(resp) ==
    IF ~resp.json \/ Cardinality(resp.value) > cfg.maxMembers \/ "" \in resp.value THEN "decode"
    ELSE IF resp.total > Cardinality(resp.value) THEN "directory_paged" ELSE ""

fetchReason(resp) ==
    IF resp.status \in Redirect THEN "redirect"
    ELSE IF resp.status = 404 THEN "unknown_group"
    ELSE IF resp.status \in {401, 403} THEN "directory_denied"
    ELSE IF resp.status # 200 THEN "status"
    ELSE IF resp.large THEN "too_large"
    ELSE decodeMembership(resp)

-----------------------------------------------------------------------------
(* A resolution: the chain asks the plane behind it first, so the calls    *)
(* are answered in the order registry, velocity, groups.                   *)

Groups(name) == {d \in cfg.groups : d.name = name}
Registered(name) == {d \in cfg.facts : d.name = name}
PlaneOf(name) ==
    IF Groups(name) # {} THEN "groups" ELSE IF Declared(cfg, name) THEN "velocity" ELSE "registry"
DeclOf(name) ==
    CASE PlaneOf(name) = "groups" -> CHOOSE d \in Groups(name) : TRUE
      [] PlaneOf(name) = "velocity" -> Decl(cfg, name)
      [] OTHER -> CHOOSE d \in Registered(name) : TRUE

ResolveSources(calls) ==
    LET in(plane) == SelectSeq(calls, LAMBDA c : PlaneOf(c.name) = plane)
    IN  in("registry") \o in("velocity") \o in("groups")

Quiet == [pc |-> "idle", todo |-> <<>>, facts |-> <<>>, begun |-> 0, got |-> <<>>, failed |-> ""]
KeyOf(c) == <<c.name, c.args>>

(* checkArgs and groupArgument                                             *)
ArgsFit(c) == /\ Len(c.args) = Len(DeclOf(c.name).params)
              /\ PlaneOf(c.name) = "groups" => c.args # <<"">>

Failed(t, reason) == thread' = [thread EXCEPT ![t] = [Quiet EXCEPT !.pc = "done", !.failed = reason]]
Answered(t, value) ==
    LET c == thread[t].todo[1]
        facts == thread[t].facts
        rest == Tail(thread[t].todo)
    IN  thread' = [thread EXCEPT ![t] =
          [Quiet EXCEPT !.pc = IF rest = <<>> THEN "done" ELSE "next", !.todo = rest,
             !.facts = [k \in DOMAIN facts \cup {KeyOf(c)} |->
                          IF k = KeyOf(c) THEN [value |-> value, at |-> now] ELSE facts[k]]]]

Resolve(t, calls) ==
    /\ up /\ thread[t].pc \in {"idle", "done"} /\ resolves < MaxResolves(cfg)
    /\ VerifySchema(cfg, cfg.schema)
    /\ \A i \in DOMAIN calls : \E sd \in cfg.schema :
         sd.name = calls[i].name /\ Len(sd.params) = Len(calls[i].args)
    /\ thread' = [thread EXCEPT ![t] = [Quiet EXCEPT !.pc = "next", !.todo = ResolveSources(calls)]]
    /\ resolves' = resolves + 1
    /\ UNCHANGED <<vars, world, left, dns, caches, changes>>

(* What is asked of a remote: a group, or a registered source that is not  *)
(* static.                                                                 *)
Fetched(name) ==
    \/ PlaneOf(name) = "groups"
    \/ PlaneOf(name) = "registry" /\ Registered(name) # {} /\ DeclOf(name).kind = "http"

(* Lookup up to the fetch: an unknown name, a wrong argument, a cached     *)
(* answer (an expired one is dropped), or a call to the remote.            *)
LookupBegins(t) ==
    LET c == thread[t].todo[1]
        plane == PlaneOf(c.name)
        entries == caches[plane]
    IN  /\ up /\ thread[t].pc = "next"
        /\ caches' = IF plane # "velocity" /\ KeyOf(c) \in DOMAIN entries /\ ~get(entries, KeyOf(c))
                     THEN [caches EXCEPT ![plane] = Restrict(@, DOMAIN @ \ {KeyOf(c)})] ELSE caches
        /\ IF plane = "registry" /\ Registered(c.name) = {} THEN Failed(t, "unknown_source")
           ELSE IF ~ArgsFit(c) THEN Failed(t, "bad_argument")
           ELSE \/ /\ plane = "velocity" /\ Answers(DeclOf(c.name))
                   /\ Answered(t, Lookup(DeclOf(c.name), c.args[1]))
                \/ plane = "velocity" /\ ~Answers(DeclOf(c.name)) /\ Failed(t, "stale")
                \/ plane = "registry" /\ ~Fetched(c.name) /\ Answered(t, DeclOf(c.name).values)
                \/ Fetched(c.name) /\ get(entries, KeyOf(c)) /\ Answered(t, entries[KeyOf(c)].value)
                \/ /\ Fetched(c.name) /\ ~get(entries, KeyOf(c))
                   /\ thread' = [thread EXCEPT ![t].pc = "fetch", ![t].begun = now]
        /\ UNCHANGED <<vars, world, left, dns, changes, resolves>>

(* The request reaches the remote, or no address may be dialed, or nobody  *)
(* answers there.                                                          *)
FetchSends(t) ==
    LET c == thread[t].todo[1]
        d == DeclOf(c.name)
        addrs == DialContext(cfg, d.url)
    IN  /\ thread[t].pc = "fetch"
        /\ IF ~CheckURL(cfg, d.url) \/ addrs = {}
           THEN Failed(t, "egress_blocked")
           ELSE \/ Failed(t, "transport")
                \/ \E resp \in Responses(PlaneOf(c.name), world[c.name]) :
                     thread' = [thread EXCEPT ![t].pc = "read", ![t].got = <<resp>>]
        /\ UNCHANGED <<vars, world, left, dns, caches, changes, resolves>>

(* The answer comes back in time, or the declared timeout elapsed first. A *)
(* failure is neither cached nor covered by an older answer.               *)
FetchReturns(t) ==
    LET c == thread[t].todo[1]
        d == DeclOf(c.name)
        plane == PlaneOf(c.name)
        resp == thread[t].got[1]
        reason == IF plane = "groups" THEN fetchReason(resp) ELSE FetchReason(resp)
    IN  /\ thread[t].pc = "read"
        /\ IF now - thread[t].begun > d.timeout
           THEN Failed(t, "timeout") /\ UNCHANGED caches
           ELSE IF reason # "" THEN Failed(t, reason) /\ UNCHANGED caches
           ELSE /\ Answered(t, resp.value)
                /\ \E entries \in put(caches[plane], cfg.maxCache, KeyOf(c), resp.value, d.ttl) :
                     caches' = [caches EXCEPT ![plane] = entries]
        /\ UNCHANGED <<vars, world, left, dns, changes, resolves>>

-----------------------------------------------------------------------------
(* ResolveApprovers: the group a quorum names, its identifier read from    *)
(* the request the decision froze.                                         *)

frozenAttribute(frozen, o) ==
    IF o.role \in DOMAIN frozen /\ o.attribute \in DOMAIN frozen[o.role]
    THEN frozen[o.role][o.attribute] ELSE ""
frozenOperand(frozen, o) ==
    CASE o.kind = "literal" -> IF o.type = "string" THEN o.value ELSE ""
      [] o.kind = "field" -> frozenAttribute(frozen, o)
      [] OTHER -> ""

ResolveApprovers(t, ref) ==
    /\ up /\ thread[t].pc \in {"idle", "done"} /\ resolves < MaxResolves(cfg)
    /\ LET group == frozenOperand(cfg.request, ref.operands[1])
       IN  IF Groups(ref.name) = {} \/ Len(ref.operands) # 1 \/ group = ""
           THEN Failed(t, "bad_reference")
           ELSE thread' = [thread EXCEPT ![t] =
                  [Quiet EXCEPT !.pc = "next", !.todo = <<[name |-> ref.name, args |-> <<group>>]>>]]
    /\ resolves' = resolves + 1
    /\ UNCHANGED <<vars, world, left, dns, caches, changes>>

-----------------------------------------------------------------------------
Remote == {d.name : d \in {f \in cfg.facts : f.kind = "http"} \cup cfg.groups}

InitPlanes ==
    /\ Init
    /\ world \in [Remote -> Worlds] /\ left = [s \in Remote |-> [w \in Worlds |-> 0]]
    /\ dns \in {d \in Lookups : d.ok /\ checkAll(cfg, d.addrs)}
    /\ caches = [p \in {"registry", "groups"} |-> <<>>]
    /\ thread = [t \in Threads |-> Quiet]
    /\ changes = 0 /\ resolves = 0

(* The registry and the directories are part of what must be accepted, and *)
(* what the planes hold in memory goes with the process.                   *)
PlanesStart == planes(cfg) /\ Start /\ UNCHANGED planeVars
PlanesStop ==
    /\ Stop
    /\ caches' = [p \in {"registry", "groups"} |-> <<>>] /\ thread' = [t \in Threads |-> Quiet]
    /\ UNCHANGED <<world, left, dns, changes, resolves>>

RemoteChanges(s, w) ==
    /\ changes < MaxChanges(cfg) /\ w # world[s]
    /\ world' = [world EXCEPT ![s] = w] /\ left' = [left EXCEPT ![s][world[s]] = now]
    /\ changes' = changes + 1
    /\ UNCHANGED <<vars, dns, caches, thread, resolves>>

NameMoves(d) ==
    /\ Remote # {} /\ changes < MaxChanges(cfg) /\ d # dns
    /\ dns' = d /\ changes' = changes + 1
    /\ UNCHANGED <<vars, world, left, caches, thread, resolves>>

Resolution(t) == LookupBegins(t) \/ FetchSends(t) \/ FetchReturns(t)

VelocityStep ==
    /\ \/ Tick \/ Consume \/ SubmitTx \/ SubmitFails
       \/ \E t \in cfg.topics, r \in Records : Publish(t.topic, r)
       \/ \E cred \in cfg.creds, i \in DOMAIN cfg.decls, batch \in SUBSET Records :
            Submit(cred, cfg.decls[i].name, batch)
       \/ \E ahead \in 0..Drift : sweepOnce(ahead)
    /\ UNCHANGED planeVars

NextPlanes ==
    \/ PlanesStart \/ PlanesStop \/ VelocityStep
    \/ \E t \in Threads : Resolution(t)
    \/ \E t \in Threads, calls \in Batches : Resolve(t, calls)
    \/ \E t \in Threads, ref \in Refs : ResolveApprovers(t, ref)
    \/ \E s \in Remote, w \in Worlds : RemoteChanges(s, w)
    \/ \E d \in Lookups : NameMoves(d)

SpecPlanes == InitPlanes /\ [][NextPlanes]_allVars
FairPlanes == SpecPlanes /\ WF_allVars(PlanesStart) /\ WF_allVars(Consume /\ UNCHANGED planeVars)

-----------------------------------------------------------------------------
LastTrue(s, value) == IF world[s] = value THEN now ELSE left[s][value]

(* What is handed to an evaluation, or counted as the approvers of a       *)
(* quorum, is the whole of what the remote source held at one time, no     *)
(* longer ago than its time to live and its timeout; for a group the       *)
(* deployment's ceiling bounds that time to live. Neither a slow answer    *)
(* that overwrites a newer one nor a page of a directory breaks it.        *)
FactsWereTrue ==
    \A t \in Threads : \A key \in DOMAIN thread[t].facts :
        LET f == thread[t].facts[key]
            d == DeclOf(key[1])
            ttl == IF PlaneOf(key[1]) = "groups" THEN cfg.maxTTL ELSE d.ttl
        IN  Fetched(key[1]) => /\ f.value \in Worlds
                               /\ LastTrue(key[1], f.value) > 0
                               /\ LastTrue(key[1], f.value) >= f.at - (ttl + d.timeout)

=============================================================================
