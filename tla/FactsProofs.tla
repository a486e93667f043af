---------------------------- MODULE FactsProofs -----------------------------
(***************************************************************************)
(* A fact an evaluation is handed was true no longer ago than its time to  *)
(* live and timeout, for any remotes and any resolutions at once.          *)
(*                                                                         *)
(* FactsWereTrue is not inductive: an entry of a cache must expire while   *)
(* its value is still recent (CachedWell), and an answer on its way must   *)
(* be what the remote held when it was asked, or later (Sound), or a slow  *)
(* answer cached last would be served past its time.                       *)
(***************************************************************************)
EXTENDS Facts, TLAPS

-----------------------------------------------------------------------------
(* What a deployment that started declares of its remotes.                 *)
Configured(c) ==
    /\ \A d \in c.groups : d.ttl <= c.maxTTL
    /\ \A d \in c.facts : d.kind \in {"static", "http"}
MayBeOld(name) == DeclOf(name).ttl + DeclOf(name).timeout
Held(name, value) == value \in Worlds /\ LastTrue(name, value) > 0

WorldInv ==
    /\ cfg \in Configs /\ now \in Nat /\ now > 0
    /\ world \in [Remote -> Worlds] /\ left \in [Remote -> [Worlds -> Nat]]
    /\ \A s \in Remote, w \in Worlds : left[s][w] <= now
CachedWell(plane, key, e) ==
    /\ Fetched(key[1]) /\ PlaneOf(key[1]) = plane /\ Held(key[1], e.value)
    /\ e.expires \in Nat /\ e.expires <= LastTrue(key[1], e.value) + MayBeOld(key[1])
WasTrue(name, f) ==
    /\ Held(name, f.value) /\ f.at \in Nat
    /\ LastTrue(name, f.value) >= f.at - MayBeOld(name)
Calling(th) == th.todo[1].name
Shaped(th) == th = [pc |-> th.pc, todo |-> th.todo, facts |-> th.facts, begun |-> th.begun,
                    got |-> th.got, failed |-> th.failed]
Sound(th) ==
    /\ Shaped(th)
    /\ th = Quiet \/ Configured(cfg)
    /\ \A key \in DOMAIN th.facts : Fetched(key[1]) => WasTrue(key[1], th.facts[key])
    /\ th.pc \in {"fetch", "read"} => Fetched(Calling(th)) /\ th.begun \in Nat /\ th.begun <= now
    /\ th.pc = "read" => \E w \in Worlds :
         /\ th.got[1] \in Responses(PlaneOf(Calling(th)), w)
         /\ Held(Calling(th), w) /\ LastTrue(Calling(th), w) >= th.begun
FactsInv ==
    /\ WorldInv
    /\ up => Configured(cfg)
    /\ DOMAIN caches = {"registry", "groups"}
    /\ \A p \in {"registry", "groups"} : \A key \in DOMAIN caches[p] : CachedWell(p, key, caches[p][key])
    /\ DOMAIN thread = Threads /\ \A t \in Threads : Sound(thread[t])

(* A fetched name is one of a remote, with that remote's declaration.      *)
LEMMA FetchedIsRemote ==
    ASSUME NEW name, Fetched(name)
    PROVE  /\ name \in Remote /\ PlaneOf(name) \in {"registry", "groups"}
           /\ DeclOf(name) \in cfg.facts \cup cfg.groups
           /\ PlaneOf(name) = "groups" => DeclOf(name) \in cfg.groups
<1>1. CASE PlaneOf(name) = "groups"
    <2>1. Groups(name) # {}
        BY <1>1 DEF PlaneOf
    <2>2. DeclOf(name) = CHOOSE d \in Groups(name) : TRUE
        BY <1>1 DEF DeclOf
    <2>3. DeclOf(name) \in Groups(name)
        BY <2>1, <2>2, Zenon
    <2>4. DeclOf(name) \in cfg.groups /\ DeclOf(name).name = name
        BY <2>3, Zenon DEF Groups
    <2> QED
        BY <1>1, <2>4, Zenon DEF Remote
<1>2. CASE PlaneOf(name) # "groups"
    <2>1. PlaneOf(name) = "registry" /\ Registered(name) # {} /\ DeclOf(name).kind = "http"
        BY <1>2, Zenon DEF Fetched
    <2>2. DeclOf(name) = CHOOSE d \in Registered(name) : TRUE
        BY <2>1 DEF DeclOf
    <2>3. DeclOf(name) \in Registered(name)
        BY <2>1, <2>2, Zenon
    <2>4. DeclOf(name) \in cfg.facts /\ DeclOf(name).name = name
        BY <2>3, Zenon DEF Registered
    <2> QED
        BY <1>2, <2>1, <2>4, Zenon DEF Remote
<1> QED
    BY <1>1, <1>2, Zenon

(* Times to live, timeouts and instants are counted in ticks.              *)
LEMMA AgeType ==
    ASSUME WorldInv, NEW name, Fetched(name)
    PROVE  DeclOf(name).ttl \in Nat /\ DeclOf(name).timeout \in Nat /\ MayBeOld(name) \in Nat
<1>1. DeclOf(name).ttl \in Nat /\ DeclOf(name).timeout \in Nat
    BY FetchedIsRemote, FactsAssumption, Zenon DEF WorldInv
<1> QED
    BY <1>1 DEF MayBeOld

(* A value was last true at some time up to now.                           *)
LEMMA LastTrueType ==
    ASSUME WorldInv, NEW name \in Remote, NEW w \in Worlds
    PROVE  LastTrue(name, w) \in Nat /\ LastTrue(name, w) <= now /\ left[name][w] \in Nat
<1>1. left[name][w] \in Nat /\ left[name][w] <= now /\ now \in Nat
    BY DEF WorldInv
<1> QED
    BY <1>1 DEF LastTrue

-----------------------------------------------------------------------------
(* A step after which every value was last true no earlier than before.    *)
Later ==
    /\ cfg' = cfg /\ WorldInv' /\ now' >= now
    /\ \A name \in Remote, w \in Worlds : (LastTrue(name, w))' >= LastTrue(name, w)

(* What is declared stays declared.                                        *)
LEMMA DeclarationsStay ==
    ASSUME cfg' = cfg, NEW name
    PROVE  /\ (PlaneOf(name))' = PlaneOf(name) /\ (DeclOf(name))' = DeclOf(name)
           /\ (MayBeOld(name))' = MayBeOld(name) /\ ((Fetched(name))' <=> Fetched(name))
<1>1. (Groups(name))' = Groups(name) /\ (Registered(name))' = Registered(name)
    BY DEF Groups, Registered
<1>2. (Declared(cfg, name))' <=> Declared(cfg, name)
    BY Zenon
<1>3. (Decl(cfg, name))' = Decl(cfg, name)
    BY Zenon
<1>4. (PlaneOf(name))' = PlaneOf(name)
    BY <1>1, <1>2 DEF PlaneOf
<1>5. (DeclOf(name))' = DeclOf(name)
    BY <1>1, <1>3, <1>4 DEF DeclOf
<1>6. (MayBeOld(name))' = MayBeOld(name)
    BY <1>5, Zenon DEF MayBeOld
<1>7. (Fetched(name))' <=> Fetched(name)
    BY <1>1, <1>4, <1>5, Zenon DEF Fetched
<1> QED
    BY <1>4, <1>5, <1>6, <1>7, Zenon

(* What was held once was held.                                            *)
LEMMA HeldStays ==
    ASSUME WorldInv, Later, NEW name, Fetched(name), NEW w, Held(name, w)
    PROVE  /\ (Held(name, w))' /\ (LastTrue(name, w))' >= LastTrue(name, w)
           /\ (LastTrue(name, w))' \in Nat /\ LastTrue(name, w) \in Nat
<1>1. name \in Remote /\ w \in Worlds /\ LastTrue(name, w) > 0
    BY FetchedIsRemote, Zenon DEF Held
<1>2. LastTrue(name, w) \in Nat /\ (LastTrue(name, w))' >= LastTrue(name, w)
    BY <1>1, LastTrueType, Zenon DEF Later
<1>3. name \in Remote' /\ WorldInv'
    <2>1. Remote' = Remote
        BY DEF Later, Remote
    <2> QED
        BY <1>1, <2>1, Zenon DEF Later
<1>4. (LastTrue(name, w))' \in Nat
    <2>1. left'[name][w] \in Nat /\ now' \in Nat
        BY <1>1, <1>3 DEF WorldInv
    <2> QED
        BY <2>1 DEF LastTrue
<1>5. (LastTrue(name, w))' > 0
    BY <1>1, <1>2, <1>4
<1> QED
    BY <1>1, <1>2, <1>4, <1>5, Zenon DEF Held

(* A cached answer gets no worse by waiting.                               *)
LEMMA CachedStays ==
    ASSUME WorldInv, Later, NEW p, NEW key, NEW e, CachedWell(p, key, e)
    PROVE  (CachedWell(p, key, e))'
<1>1. PICK name, w : name = key[1] /\ w = e.value
    BY Zenon
<1>2. /\ Fetched(name) /\ PlaneOf(name) = p /\ Held(name, w) /\ e.expires \in Nat
      /\ e.expires <= LastTrue(name, w) + MayBeOld(name)
    BY <1>1, Zenon DEF CachedWell
<1>3. /\ (Held(name, w))' /\ (LastTrue(name, w))' >= LastTrue(name, w)
      /\ (LastTrue(name, w))' \in Nat /\ LastTrue(name, w) \in Nat
    BY <1>2, HeldStays, Zenon
<1>4. (PlaneOf(name))' = PlaneOf(name) /\ (MayBeOld(name))' = MayBeOld(name) /\ (Fetched(name))'
    BY <1>2, DeclarationsStay, Zenon DEF Later
<1>5. MayBeOld(name) \in Nat
    BY <1>2, AgeType, Zenon
<1>6. e.expires <= (LastTrue(name, w))' + MayBeOld(name)
    BY <1>2, <1>3, <1>5
<1>7. e.expires <= (LastTrue(name, w))' + (MayBeOld(name))'
    BY <1>4, <1>6, Zenon
<1> QED
    BY <1>1, <1>2, <1>3, <1>4, <1>7, Zenon DEF CachedWell

(* Nor does a fact that was handed out.                                    *)
LEMMA WasTrueStays ==
    ASSUME WorldInv, Later, NEW name, Fetched(name), NEW f, WasTrue(name, f)
    PROVE  (WasTrue(name, f))'
<1>1. PICK w : w = f.value
    BY Zenon
<1>2. Held(name, w) /\ f.at \in Nat /\ LastTrue(name, w) >= f.at - MayBeOld(name)
    BY <1>1, Zenon DEF WasTrue
<1>3. /\ (Held(name, w))' /\ (LastTrue(name, w))' >= LastTrue(name, w)
      /\ (LastTrue(name, w))' \in Nat /\ LastTrue(name, w) \in Nat
    BY <1>2, HeldStays, Zenon
<1>4. (MayBeOld(name))' = MayBeOld(name) /\ MayBeOld(name) \in Nat
    BY AgeType, DeclarationsStay, Zenon DEF Later
<1>5. (LastTrue(name, w))' >= f.at - MayBeOld(name)
    BY <1>2, <1>3, <1>4
<1>6. (LastTrue(name, w))' >= f.at - (MayBeOld(name))'
    BY <1>4, <1>5, Zenon
<1> QED
    BY <1>1, <1>2, <1>3, <1>6, Zenon DEF WasTrue

(* Nor does a resolution that waits.                                       *)
LEMMA SoundStays ==
    ASSUME WorldInv, Later, NEW th, Sound(th)
    PROVE  (Sound(th))'
<1>1. cfg' = cfg /\ now \in Nat /\ now' \in Nat /\ now' >= now
    BY Zenon DEF Later, WorldInv
<1>2. PICK name : name = Calling(th)
    BY Zenon
<1>3. name = (Calling(th))'
    BY <1>2, Zenon DEF Calling
<1>4. (Configured(cfg))' <=> Configured(cfg)
    BY <1>1, Zenon
<1>5. ASSUME NEW key \in DOMAIN th.facts, (Fetched(key[1]))' PROVE (WasTrue(key[1], th.facts[key]))'
    <2>1. PICK n, f : n = key[1] /\ f = th.facts[key]
        BY Zenon
    <2>2. (Fetched(n))'
        BY <1>5, <2>1, Zenon
    <2>3. Fetched(n)
        BY <1>1, <2>2, DeclarationsStay, Zenon
    <2>4. WasTrue(n, f)
        BY <2>1, <2>3, Zenon DEF Sound
    <2>5. (WasTrue(n, f))'
        BY <2>3, <2>4, WasTrueStays, Zenon
    <2> QED
        BY <2>1, <2>5, Zenon
<1>6. ASSUME th.pc \in {"fetch", "read"} PROVE (Fetched(name))' /\ th.begun \in Nat /\ th.begun <= now'
    <2>1. Fetched(name) /\ th.begun \in Nat /\ th.begun <= now
        BY <1>2, <1>6, Zenon DEF Sound
    <2>2. (Fetched(name))'
        BY <1>1, <2>1, DeclarationsStay, Zenon
    <2>3. th.begun <= now'
        BY <1>1, <2>1
    <2> QED
        BY <2>1, <2>2, <2>3, Zenon
<1>7. ASSUME th.pc = "read"
      PROVE  \E w \in Worlds : /\ th.got[1] \in Responses((PlaneOf(name))', w)
                               /\ (Held(name, w))' /\ (LastTrue(name, w))' >= th.begun
    <2>1. PICK w \in Worlds : /\ th.got[1] \in Responses(PlaneOf(name), w)
                              /\ Held(name, w) /\ LastTrue(name, w) >= th.begun
        BY <1>2, <1>7, Zenon DEF Sound
    <2>2. Fetched(name) /\ th.begun \in Nat
        BY <1>2, <1>7, Zenon DEF Sound
    <2>3. /\ (Held(name, w))' /\ (LastTrue(name, w))' >= LastTrue(name, w)
          /\ (LastTrue(name, w))' \in Nat /\ LastTrue(name, w) \in Nat
        BY <2>1, <2>2, HeldStays, Zenon
    <2>4. (LastTrue(name, w))' >= th.begun
        BY <2>1, <2>2, <2>3
    <2>5. (PlaneOf(name))' = PlaneOf(name)
        BY <1>1, DeclarationsStay, Zenon
    <2> QED
        BY <2>1, <2>3, <2>4, <2>5, Zenon
<1>8. th = Quiet \/ (Configured(cfg))'
    BY <1>4, Zenon DEF Sound
<1>9. Shaped(th)
    BY Zenon DEF Sound
<1> QED
    BY <1>3, <1>5, <1>6, <1>7, <1>8, <1>9, Zenon DEF Sound

(* What is sound now is sound after such a step.                           *)
LEMMA FactsInvAfter ==
    ASSUME FactsInv, Later, up' => Configured(cfg), DOMAIN caches' = {"registry", "groups"},
           \A p \in {"registry", "groups"} : \A key \in DOMAIN caches'[p] : CachedWell(p, key, caches'[p][key]),
           DOMAIN thread' = Threads, \A t \in Threads : Sound(thread'[t])
    PROVE  FactsInv'
<1>1. WorldInv /\ WorldInv' /\ cfg' = cfg
    BY Zenon DEF FactsInv, Later
<1>2. ASSUME NEW p \in {"registry", "groups"}, NEW key \in DOMAIN caches'[p]
      PROVE  (CachedWell(p, key, caches[p][key]))'
    <2>1. PICK e : e = caches'[p][key]
        BY Zenon
    <2>2. CachedWell(p, key, e)
        BY <1>2, <2>1, Zenon
    <2>3. (CachedWell(p, key, e))'
        BY <1>1, <2>2, CachedStays, Zenon
    <2> QED
        BY <2>1, <2>3, Zenon
<1>3. ASSUME NEW t \in Threads PROVE (Sound(thread[t]))'
    <2>1. PICK th : th = thread'[t]
        BY Zenon
    <2>2. Sound(th)
        BY <1>3, <2>1, Zenon
    <2>3. (Sound(th))'
        BY <1>1, <2>2, SoundStays, Zenon
    <2> QED
        BY <2>1, <2>3, Zenon
<1>4. (up => Configured(cfg))'
    BY <1>1, Zenon
<1> QED
    BY <1>1, <1>2, <1>3, <1>4, Zenon DEF FactsInv

(* The sources and the clock as they are.                                  *)
LEMMA NothingIsLater ==
    ASSUME WorldInv, cfg' = cfg, now' = now, world' = world, left' = left
    PROVE  Later
<1>1. Remote' = Remote
    BY DEF Remote
<1>2. WorldInv'
    BY <1>1, Zenon DEF WorldInv
<1>3. ASSUME NEW name \in Remote, NEW w \in Worlds PROVE (LastTrue(name, w))' >= LastTrue(name, w)
    <2>1. (LastTrue(name, w))' = LastTrue(name, w)
        BY Zenon DEF LastTrue
    <2>2. LastTrue(name, w) \in Nat
        BY LastTrueType, Zenon
    <2> QED
        BY <2>1, <2>2
<1>4. now' >= now
    BY DEF WorldInv
<1> QED
    BY <1>2, <1>3, <1>4, Zenon DEF Later

(* The clock moves on.                                                     *)
LEMMA TickIsLater ==
    ASSUME WorldInv, cfg' = cfg, now' = now + 1, world' = world, left' = left
    PROVE  Later
<1>1. Remote' = Remote
    BY DEF Remote
<1>2. now \in Nat /\ now > 0
    BY DEF WorldInv
<1>3. \A s \in Remote, w \in Worlds : left[s][w] <= now + 1
    <2> SUFFICES ASSUME NEW s \in Remote, NEW w \in Worlds PROVE left[s][w] <= now + 1
        OBVIOUS
    <2>1. left[s][w] \in Nat /\ left[s][w] <= now
        BY LastTrueType DEF WorldInv
    <2> QED
        BY <1>2, <2>1
<1>4. now + 1 \in Nat /\ now + 1 > 0 /\ now + 1 >= now
    BY <1>2
<1>5. WorldInv'
    BY <1>1, <1>3, <1>4, Zenon DEF WorldInv
<1>6. ASSUME NEW name \in Remote, NEW w \in Worlds PROVE (LastTrue(name, w))' >= LastTrue(name, w)
    <2>1. left[name][w] \in Nat /\ left[name][w] <= now
        BY LastTrueType DEF WorldInv
    <2> QED
        BY <1>2, <2>1 DEF LastTrue
<1> QED
    BY <1>4, <1>5, <1>6, Zenon DEF Later

(* RemoteChanges: the value that was replaced was true until now.          *)
LEMMA ChangeIsLater ==
    ASSUME WorldInv, cfg' = cfg, now' = now, NEW s \in Remote, NEW v \in Worlds,
           world' = [world EXCEPT ![s] = v], left' = [left EXCEPT ![s][world[s]] = now]
    PROVE  Later
<1>1. Remote' = Remote
    BY DEF Remote
<1>2. /\ now \in Nat /\ world \in [Remote -> Worlds] /\ left \in [Remote -> [Worlds -> Nat]]
      /\ world[s] \in Worlds
    BY DEF WorldInv
<1>3. world' \in [Remote -> Worlds] /\ left' \in [Remote -> [Worlds -> Nat]]
    BY <1>2
<1>4. ASSUME NEW name \in Remote, NEW w \in Worlds
      PROVE  /\ left'[name][w] = IF name = s /\ w = world[s] THEN now ELSE left[name][w]
             /\ world'[name] = IF name = s THEN v ELSE world[name]
             /\ left[name][w] \in Nat /\ left[name][w] <= now
    <2>1. left[name][w] \in Nat /\ left[name][w] <= now
        BY LastTrueType DEF WorldInv
    <2> QED
        BY <1>2, <2>1
<1>5. ASSUME NEW name \in Remote, NEW w \in Worlds
      PROVE  left'[name][w] <= now /\ (LastTrue(name, w))' >= LastTrue(name, w)
    <2>1. left'[name][w] <= now
        BY <1>2, <1>4
    <2>2. (LastTrue(name, w))' = IF world'[name] = w THEN now ELSE left'[name][w]
        BY DEF LastTrue
    <2>3. (LastTrue(name, w))' >= LastTrue(name, w)
        <3>1. CASE world[name] = w
            <4>1. LastTrue(name, w) = now
                BY <3>1, Zenon DEF LastTrue
            <4>2. world'[name] = w \/ left'[name][w] = now
                BY <1>4, <3>1, Zenon
            <4>3. (LastTrue(name, w))' = now
                BY <2>2, <4>2, Zenon
            <4> QED
                BY <1>2, <4>1, <4>3
        <3>2. CASE world[name] # w
            <4>1. LastTrue(name, w) = left[name][w]
                BY <3>2, Zenon DEF LastTrue
            <4>2. (LastTrue(name, w))' = now \/ (LastTrue(name, w))' = left[name][w]
                BY <1>4, <2>2, Zenon
            <4>3. left[name][w] \in Nat /\ left[name][w] <= now /\ now \in Nat
                BY <1>2, <1>4, Zenon
            <4>4. (LastTrue(name, w))' >= left[name][w]
                <5>1. now >= left[name][w] /\ left[name][w] >= left[name][w]
                    BY <4>3
                <5> QED
                    BY <4>2, <5>1, Zenon
            <4> QED
                BY <4>1, <4>4, Zenon
        <3> QED
            BY <3>1, <3>2, Zenon
    <2> QED
        BY <2>1, <2>3, Zenon
<1>6. WorldInv'
    BY <1>1, <1>3, <1>5, Zenon DEF WorldInv
<1>7. now' >= now
    BY <1>2
<1> QED
    BY <1>5, <1>6, <1>7, Zenon DEF Later

-----------------------------------------------------------------------------
(* Failed, and a resolution that begins: nothing was handed out.           *)
LEMMA EmptyIsSound ==
    ASSUME Configured(cfg), NEW pc, pc \notin {"fetch", "read"}, NEW todo, NEW failed
    PROVE  /\ Sound([Quiet EXCEPT !.pc = pc, !.failed = failed])
           /\ Sound([Quiet EXCEPT !.pc = pc, !.todo = todo])
<1>1. ASSUME NEW r, r.pc = pc, r.facts = <<>>, Shaped(r) PROVE Sound(r)
    <2>1. DOMAIN r.facts = {}
        BY <1>1
    <2>2. r.pc # "read" /\ r.pc \notin {"fetch", "read"}
        BY <1>1, Zenon
    <2> QED
        BY <1>1, <2>1, <2>2, Zenon DEF Sound
<1>2. PICK a, b : a = [Quiet EXCEPT !.pc = pc, !.failed = failed] /\ b = [Quiet EXCEPT !.pc = pc, !.todo = todo]
    BY Zenon
<1>3. a.pc = pc /\ a.facts = <<>> /\ Shaped(a)
    BY <1>2 DEF Quiet, Shaped
<1>4. b.pc = pc /\ b.facts = <<>> /\ Shaped(b)
    BY <1>2 DEF Quiet, Shaped
<1>5. Sound(a) /\ Sound(b)
    BY <1>1, <1>3, <1>4, Zenon
<1> QED
    BY <1>2, <1>5, Zenon

(* Answered: what was handed out before stays, and the answer was true.    *)
LEMMA AnsweredIsSound ==
    ASSUME Configured(cfg), NEW th, Sound(th), NEW key, NEW f, Fetched(key[1]) => WasTrue(key[1], f),
           NEW r, Shaped(r), r.pc \notin {"fetch", "read"}, DOMAIN r.facts = DOMAIN th.facts \cup {key},
           \A k \in DOMAIN r.facts : r.facts[k] = IF k = key THEN f ELSE th.facts[k]
    PROVE  Sound(r)
<1>1. ASSUME NEW k \in DOMAIN r.facts, Fetched(k[1]) PROVE WasTrue(k[1], r.facts[k])
    <2>1. CASE k = key
        BY <1>1, <2>1, Zenon
    <2>2. CASE k # key
        <3>1. k \in DOMAIN th.facts /\ r.facts[k] = th.facts[k]
            BY <1>1, <2>2, Zenon
        <3> QED
            BY <1>1, <3>1, Zenon DEF Sound
    <2> QED
        BY <2>1, <2>2, Zenon
<1>2. r.pc # "read"
    BY Zenon
<1> QED
    BY <1>1, <1>2, Zenon DEF Sound

(* One resolution moves, the others wait.                                  *)
LEMMA OneMoves ==
    ASSUME FactsInv, NEW t \in Threads, NEW th, thread' = [thread EXCEPT ![t] = th], Sound(th)
    PROVE  DOMAIN thread' = Threads /\ \A u \in Threads : Sound(thread'[u])
<1>1. DOMAIN thread = Threads /\ \A u \in Threads : Sound(thread[u])
    BY Zenon DEF FactsInv
<1>2. DOMAIN thread' = Threads /\ \A u \in Threads : thread'[u] = IF u = t THEN th ELSE thread[u]
    BY <1>1
<1> QED
    BY <1>1, <1>2, Zenon

(* A resolution that failed has handed out nothing.                        *)
LEMMA FailedIsSound ==
    ASSUME FactsInv, Configured(cfg), NEW t \in Threads, NEW reason, Failed(t, reason)
    PROVE  DOMAIN thread' = Threads /\ \A u \in Threads : Sound(thread'[u])
<1>1. PICK th : th = [Quiet EXCEPT !.pc = "done", !.failed = reason]
    BY Zenon
<1>2. "done" \notin {"fetch", "read"}
    OBVIOUS
<1>3. Sound(th)
    BY <1>1, <1>2, EmptyIsSound, Zenon
<1>4. thread' = [thread EXCEPT ![t] = th]
    BY <1>1, Zenon DEF Failed
<1> QED
    BY <1>3, <1>4, OneMoves, Zenon

(* A resolution that is answered with what was true.                       *)
LEMMA AnswerIsSound ==
    ASSUME FactsInv, Configured(cfg), NEW t \in Threads, NEW value, Answered(t, value),
           Fetched(Calling(thread[t])) => WasTrue(Calling(thread[t]), [value |-> value, at |-> now])
    PROVE  DOMAIN thread' = Threads /\ \A u \in Threads : Sound(thread'[u])
<1>1. PICK th, key, f, rest, pc :
        /\ th = thread[t] /\ key = KeyOf(thread[t].todo[1]) /\ f = [value |-> value, at |-> now]
        /\ rest = Tail(thread[t].todo) /\ pc = IF rest = <<>> THEN "done" ELSE "next"
    BY Zenon
<1>2. Sound(th)
    BY <1>1, Zenon DEF FactsInv
<1>3. pc \notin {"fetch", "read"}
    BY <1>1
<1>4. key[1] = Calling(thread[t])
    BY <1>1 DEF KeyOf, Calling
<1>5. Fetched(key[1]) => WasTrue(key[1], f)
    BY <1>1, <1>4, Zenon
<1>6. PICK facts, r :
        /\ facts = [k \in DOMAIN th.facts \cup {key} |-> IF k = key THEN f ELSE th.facts[k]]
        /\ r = [Quiet EXCEPT !.pc = pc, !.todo = rest, !.facts = facts]
    BY Zenon
<1>7. Sound(r)
    <2>1. /\ DOMAIN facts = DOMAIN th.facts \cup {key}
          /\ \A k \in DOMAIN facts : facts[k] = IF k = key THEN f ELSE th.facts[k]
        BY <1>6, Zenon
    <2>2. r.pc = pc /\ r.facts = facts /\ Shaped(r)
        BY <1>6 DEF Quiet, Shaped
    <2>3. /\ Shaped(r) /\ r.pc \notin {"fetch", "read"} /\ DOMAIN r.facts = DOMAIN th.facts \cup {key}
          /\ \A k \in DOMAIN r.facts : r.facts[k] = IF k = key THEN f ELSE th.facts[k]
        BY <1>3, <2>1, <2>2, Zenon
    <2> QED
        BY <1>2, <1>5, <2>3, AnsweredIsSound, SMTT(40)
<1>8. thread' = [thread EXCEPT ![t] = r]
    BY <1>1, <1>6, Zenon DEF Answered
<1> QED
    BY <1>7, <1>8, OneMoves, Zenon

(* A step of the resolutions alone, on caches that hold no worse.          *)
LEMMA ResolutionStep ==
    ASSUME FactsInv, UNCHANGED vars, world' = world, left' = left,
           DOMAIN caches' = {"registry", "groups"},
           \A p \in {"registry", "groups"} : \A key \in DOMAIN caches'[p] : CachedWell(p, key, caches'[p][key]),
           DOMAIN thread' = Threads, \A t \in Threads : Sound(thread'[t])
    PROVE  FactsInv'
<1>1. cfg' = cfg /\ now' = now /\ up' = up
    BY Zenon DEF vars
<1>2. Later
    BY <1>1, NothingIsLater, Zenon DEF FactsInv
<1>3. up' => Configured(cfg)
    BY <1>1, Zenon DEF FactsInv
<1> QED
    BY <1>2, <1>3, FactsInvAfter, Zenon

(* The caches as they are.                                                 *)
LEMMA CachesAsTheyAre ==
    ASSUME FactsInv, caches' = caches
    PROVE  /\ DOMAIN caches' = {"registry", "groups"}
           /\ \A p \in {"registry", "groups"} :
                \A key \in DOMAIN caches'[p] : CachedWell(p, key, caches'[p][key])
BY Zenon DEF FactsInv

(* Resolve and ResolveApprovers begin with nothing, or fail.               *)
LEMMA ResolveKeeps ==
    ASSUME FactsInv, NEW t \in Threads, NEW x, Resolve(t, x) \/ ResolveApprovers(t, x)
    PROVE  FactsInv'
<1>1. /\ UNCHANGED vars /\ world' = world /\ left' = left /\ caches' = caches /\ up
      /\ \/ \E todo : thread' = [thread EXCEPT ![t] = [Quiet EXCEPT !.pc = "next", !.todo = todo]]
         \/ \E reason : Failed(t, reason)
    BY Zenon DEF Resolve, ResolveApprovers
<1>2. Configured(cfg)
    BY <1>1, Zenon DEF FactsInv
<1>3. DOMAIN thread' = Threads /\ \A u \in Threads : Sound(thread'[u])
    <2>1. ASSUME NEW todo, thread' = [thread EXCEPT ![t] = [Quiet EXCEPT !.pc = "next", !.todo = todo]]
          PROVE  DOMAIN thread' = Threads /\ \A u \in Threads : Sound(thread'[u])
        <3>1. "next" \notin {"fetch", "read"}
            OBVIOUS
        <3>2. PICK th : th = [Quiet EXCEPT !.pc = "next", !.todo = todo]
            BY Zenon
        <3>3. Sound(th)
            BY <1>2, <3>1, <3>2, EmptyIsSound, Zenon
        <3>4. thread' = [thread EXCEPT ![t] = th]
            BY <2>1, <3>2, Zenon
        <3> QED
            BY <3>3, <3>4, OneMoves, Zenon
    <2>2. ASSUME NEW reason, Failed(t, reason)
          PROVE  DOMAIN thread' = Threads /\ \A u \in Threads : Sound(thread'[u])
        BY <1>2, <2>2, FailedIsSound, Zenon
    <2> QED
        BY <1>1, <2>1, <2>2, Zenon
<1> QED
    BY <1>1, <1>3, CachesAsTheyAre, ResolutionStep, Zenon

(* LookupBegins: a cached answer is handed out only while it is true       *)
(* enough, and an expired one is dropped.                                  *)
LEMMA LookupKeeps ==
    ASSUME FactsInv, NEW t \in Threads, LookupBegins(t)
    PROVE  FactsInv'
<1> DEFINE c == thread[t].todo[1]
           name == Calling(thread[t])
           plane == PlaneOf(c.name)
           key == KeyOf(c)
<1>1. /\ UNCHANGED vars /\ world' = world /\ left' = left /\ up /\ thread[t].pc = "next"
      /\ \/ caches' = caches
         \/ /\ plane # "velocity"
            /\ caches' = [caches EXCEPT ![plane] = Restrict(@, DOMAIN @ \ {key})]
    BY Zenon DEF LookupBegins
<1>2. \/ \E reason : Failed(t, reason)
      \/ plane = "velocity" /\ \E v : Answered(t, v)
      \/ plane = "registry" /\ ~Fetched(c.name) /\ Answered(t, DeclOf(c.name).values)
      \/ Fetched(c.name) /\ get(caches[plane], key) /\ Answered(t, caches[plane][key].value)
      \/ Fetched(c.name) /\ thread' = [thread EXCEPT ![t].pc = "fetch", ![t].begun = now]
    BY Zenon DEF LookupBegins
<1>3. Configured(cfg) /\ WorldInv /\ Sound(thread[t])
    BY <1>1, Zenon DEF FactsInv
<1>4. name = c.name /\ key[1] = name
    BY DEF Calling, KeyOf
<1>5. /\ DOMAIN caches' = {"registry", "groups"}
      /\ \A p \in {"registry", "groups"} : \A k \in DOMAIN caches'[p] : CachedWell(p, k, caches'[p][k])
    <2>1. CASE caches' = caches
        BY <2>1, CachesAsTheyAre, Zenon
    <2>2. CASE plane # "velocity" /\ caches' = [caches EXCEPT ![plane] = Restrict(@, DOMAIN @ \ {key})]
        <3>1. DOMAIN caches = {"registry", "groups"}
            BY Zenon DEF FactsInv
        <3>2. PICK pl, kk : pl = plane /\ kk = key
            BY Zenon
        <3>3. caches' = [caches EXCEPT ![pl] = [k \in (DOMAIN @) \ {kk} |-> @[k]]]
            BY <2>2, <3>2, Zenon DEF Restrict
        <3>4. /\ DOMAIN caches' = {"registry", "groups"}
              /\ \A p \in {"registry", "groups"} : \A k \in DOMAIN caches'[p] :
                   k \in DOMAIN caches[p] /\ caches'[p][k] = caches[p][k]
            BY <3>1, <3>3
        <3> QED
            BY <3>4, Zenon DEF FactsInv
    <2> QED
        BY <1>1, <2>1, <2>2, Zenon
<1> HIDE DEF c, key, plane, name
<1>6. DOMAIN thread' = Threads /\ \A u \in Threads : Sound(thread'[u])
    <2>1. ASSUME NEW reason, Failed(t, reason)
          PROVE  DOMAIN thread' = Threads /\ \A u \in Threads : Sound(thread'[u])
        BY <1>3, <2>1, FailedIsSound, Zenon
    <2>2. ASSUME NEW v, Answered(t, v), Fetched(name) => WasTrue(name, [value |-> v, at |-> now])
          PROVE  DOMAIN thread' = Threads /\ \A u \in Threads : Sound(thread'[u])
        BY <1>3, <2>2, AnswerIsSound, Zenon DEF name
    <2>3. plane = "velocity" => ~Fetched(name)
        <3>1. plane = PlaneOf(name)
            BY <1>4, Zenon DEF plane
        <3> QED
            BY <3>1 DEF Fetched
    <2>4. ASSUME Fetched(name), get(caches[plane], key)
          PROVE  WasTrue(name, [value |-> caches[plane][key].value, at |-> now])
        <3>1. plane \in {"registry", "groups"} /\ plane = PlaneOf(name)
            BY <1>4, <2>4, FetchedIsRemote, Zenon DEF plane
        <3>2. PICK e, w, f : e = caches[plane][key] /\ w = e.value /\ f = [value |-> w, at |-> now]
            BY Zenon
        <3>3. key \in DOMAIN caches[plane] /\ ~(now >= e.expires)
            BY <2>4, <3>2, Zenon DEF get, Expired
        <3>4. CachedWell(plane, key, e)
            BY <3>1, <3>2, <3>3, Zenon DEF FactsInv
        <3>5. Held(name, w) /\ e.expires \in Nat /\ e.expires <= LastTrue(name, w) + MayBeOld(name)
            BY <1>4, <3>2, <3>4, Zenon DEF CachedWell
        <3>6. LastTrue(name, w) \in Nat
            BY <1>3, <2>4, <3>5, FetchedIsRemote, LastTrueType, Zenon DEF Held
        <3>7. MayBeOld(name) \in Nat /\ now \in Nat
            BY <1>3, <2>4, AgeType, Zenon DEF WorldInv
        <3>8. LastTrue(name, w) >= now - MayBeOld(name)
            BY <3>3, <3>5, <3>6, <3>7
        <3>9. f.value = w /\ f.at = now
            BY <3>2
        <3>10. WasTrue(name, f)
            BY <3>5, <3>7, <3>8, <3>9, Zenon DEF WasTrue
        <3> QED
            BY <3>2, <3>10, Zenon
    <2>5. ASSUME Fetched(name), thread' = [thread EXCEPT ![t].pc = "fetch", ![t].begun = now]
          PROVE  DOMAIN thread' = Threads /\ \A u \in Threads : Sound(thread'[u])
        <3>1. PICK old : old = thread[t]
            BY Zenon
        <3>2. PICK th : th = [old EXCEPT !.pc = "fetch", !.begun = now]
            BY Zenon
        <3>3. Sound(old) /\ Shaped(old) /\ name = Calling(old) /\ now \in Nat
            BY <1>3, <3>1, Zenon DEF Sound, WorldInv, name
        <3>4. /\ th.pc = "fetch" /\ th.todo = old.todo /\ th.facts = old.facts /\ th.begun = now
              /\ Shaped(th)
            BY <3>2, <3>3 DEF Shaped
        <3>5. Calling(th) = name /\ th.pc # "read" /\ now <= now
            BY <3>3, <3>4 DEF Calling
        <3>6. Sound(th)
            BY <1>3, <2>5, <3>3, <3>4, <3>5, Zenon DEF Sound
        <3>7. thread' = [thread EXCEPT ![t] = th]
            BY <2>5, <3>1, <3>2, Zenon DEF FactsInv
        <3> QED
            BY <3>6, <3>7, OneMoves, Zenon
    <2> QED
        BY <1>2, <1>4, <2>1, <2>2, <2>3, <2>4, <2>5, Zenon
<1> QED
    BY <1>1, <1>5, <1>6, ResolutionStep, Zenon

(* FetchSends: what the remote answers was true when it was asked.         *)
LEMMA SendKeeps ==
    ASSUME FactsInv, NEW t \in Threads, FetchSends(t)
    PROVE  FactsInv'
<1>1. PICK old, name, plane : old = thread[t] /\ name = Calling(old) /\ plane = PlaneOf(name)
    BY Zenon
<1>2. /\ UNCHANGED vars /\ world' = world /\ left' = left /\ caches' = caches /\ old.pc = "fetch"
      /\ \/ \E reason : Failed(t, reason)
         \/ \E resp \in Responses(plane, world[name]) :
              thread' = [thread EXCEPT ![t].pc = "read", ![t].got = <<resp>>]
    BY <1>1, Zenon DEF FetchSends, Calling
<1>3. Sound(old) /\ WorldInv
    BY <1>1, Zenon DEF FactsInv
<1>4. Fetched(name) /\ old.begun \in Nat /\ old.begun <= now /\ Shaped(old) /\ now \in Nat /\ now > 0
    BY <1>1, <1>2, <1>3, Zenon DEF Sound, WorldInv
<1>5. Configured(cfg)
    <2>1. Quiet.pc = "idle" /\ "idle" # "fetch" /\ "idle" # "read"
        BY DEF Quiet
    <2>2. old # Quiet
        BY <1>2, <2>1, Zenon
    <2> QED
        BY <1>3, <2>2, Zenon DEF Sound
<1>6. DOMAIN thread' = Threads /\ \A u \in Threads : Sound(thread'[u])
    <2>1. ASSUME NEW reason, Failed(t, reason)
          PROVE  DOMAIN thread' = Threads /\ \A u \in Threads : Sound(thread'[u])
        BY <1>5, <2>1, FailedIsSound, Zenon
    <2>2. ASSUME NEW resp \in Responses(plane, world[name]),
                 thread' = [thread EXCEPT ![t].pc = "read", ![t].got = <<resp>>]
          PROVE  DOMAIN thread' = Threads /\ \A u \in Threads : Sound(thread'[u])
        <3>1. PICK th : th = [old EXCEPT !.pc = "read", !.got = <<resp>>]
            BY Zenon
        <3>2. /\ th.pc = "read" /\ th.todo = old.todo /\ th.facts = old.facts /\ th.begun = old.begun
              /\ th.got = <<resp>> /\ Shaped(th)
            BY <1>4, <3>1 DEF Shaped
        <3>3. th.got[1] = resp
            BY <3>2
        <3>4. Calling(th) = name
            BY <1>1, <3>2, Zenon DEF Calling
        <3>5. PICK w : w = world[name]
            BY Zenon
        <3>6. name \in Remote
            BY <1>4, FetchedIsRemote, Zenon
        <3>7. w \in Worlds
            BY <1>3, <3>5, <3>6 DEF WorldInv
        <3>8. LastTrue(name, w) = now
            BY <3>5, Zenon DEF LastTrue
        <3>9. now >= old.begun
            BY <1>4
        <3>10. /\ th.got[1] \in Responses(PlaneOf(Calling(th)), w)
               /\ Held(Calling(th), w) /\ LastTrue(Calling(th), w) >= th.begun
            BY <1>1, <1>4, <2>2, <3>2, <3>3, <3>4, <3>5, <3>7, <3>8, <3>9, Zenon DEF Held
        <3>11. /\ Fetched(Calling(th)) /\ th.begun \in Nat /\ th.begun <= now
               /\ \A key \in DOMAIN th.facts : Fetched(key[1]) => WasTrue(key[1], th.facts[key])
            BY <1>3, <1>4, <3>2, <3>4, Zenon DEF Sound
        <3>12. Sound(th)
            BY <1>5, <3>2, <3>7, <3>10, <3>11, Zenon DEF Sound
        <3>13. thread' = [thread EXCEPT ![t] = th]
            BY <1>1, <2>2, <3>1, Zenon
        <3> QED
            BY <3>12, <3>13, OneMoves, Zenon
    <2> QED
        BY <1>2, <2>1, <2>2, Zenon
<1> QED
    BY <1>2, <1>6, CachesAsTheyAre, ResolutionStep, Zenon

(* put: the key's entry is new, and no other is changed.                   *)
LEMMA PutShape ==
    ASSUME NEW entries, NEW max, NEW key, NEW value, NEW ttl, NEW after \in put(entries, max, key, value, ttl)
    PROVE  \A k \in DOMAIN after :
             \/ k = key /\ after[k] = [value |-> value, expires |-> now + ttl]
             \/ k \in DOMAIN entries /\ after[k] = entries[k]
<1>1. PICK kept : /\ kept \in {DOMAIN entries} \cup evictLocked(entries, max)
                  /\ after = [k \in kept \cup {key} |->
                                IF k = key THEN [value |-> value, expires |-> now + ttl] ELSE entries[k]]
    BY Zenon DEF put
<1>2. kept \subseteq DOMAIN entries
    <2>1. ASSUME kept \in evictLocked(entries, max) PROVE kept \subseteq DOMAIN entries
        BY <2>1, Zenon DEF evictLocked
    <2> QED
        BY <1>1, <2>1, Zenon
<1> QED
    BY <1>1, <1>2, Zenon

(* Fetch accepts only a whole answer in JSON.                              *)
LEMMA FetchAccepts ==
    ASSUME NEW resp, FetchReason(resp) = ""
    PROVE  resp.status = 200 /\ ~resp.large /\ resp.json
<1>1. "redirect" # "" /\ "status" # "" /\ "too_large" # "" /\ "decode" # ""
    BY Zenon
<1> QED
    BY <1>1, Zenon DEF FetchReason

(* A directory's answer is accepted only when it is no page, too.          *)
LEMMA MembershipAccepts ==
    ASSUME NEW resp, fetchReason(resp) = ""
    PROVE  resp.status = 200 /\ ~resp.large /\ resp.json /\ ~(resp.total > Cardinality(resp.value))
<1>1. /\ "redirect" # "" /\ "unknown_group" # "" /\ "directory_denied" # "" /\ "status" # ""
      /\ "too_large" # "" /\ "decode" # "" /\ "directory_paged" # ""
    BY Zenon
<1>2. resp.status = 200 /\ ~resp.large /\ decodeMembership(resp) = ""
    <2>1. resp.status \notin Redirect
        BY <1>1, Zenon DEF fetchReason
    <2>2. resp.status # 404
        BY <1>1, <2>1, Zenon DEF fetchReason
    <2>3. resp.status \notin {401, 403}
        BY <1>1, <2>1, <2>2, Zenon DEF fetchReason
    <2>4. resp.status = 200
        BY <1>1, <2>1, <2>2, <2>3, Zenon DEF fetchReason
    <2>5. ~resp.large
        BY <1>1, <2>1, <2>2, <2>3, <2>4, Zenon DEF fetchReason
    <2> QED
        BY <2>1, <2>2, <2>3, <2>4, <2>5, Zenon DEF fetchReason
<1>3. resp.json /\ ~(resp.total > Cardinality(resp.value))
    BY <1>1, <1>2, Zenon DEF decodeMembership
<1> QED
    BY <1>2, <1>3, Zenon

(* An answer that is accepted is what the remote held.                     *)
LEMMA AcceptedIsValue ==
    ASSUME NEW w \in Worlds, NEW plane \in {"registry", "groups"}, NEW resp \in Responses(plane, w),
           (IF plane = "groups" THEN fetchReason(resp) ELSE FetchReason(resp)) = ""
    PROVE  resp.value = w
<1>1. InFull(plane, resp)
    BY FetchAccepts, MembershipAccepts, Zenon DEF InFull
<1> QED
    BY <1>1, FactsAssumption, Zenon

(* FetchReturns: an answer in time was true at most the timeout ago, and   *)
(* is kept for the time to live from now.                                  *)
LEMMA ReturnKeeps ==
    ASSUME FactsInv, NEW t \in Threads, FetchReturns(t)
    PROVE  FactsInv'
<1>1. PICK old, c, name, plane, d, resp, key :
        /\ old = thread[t] /\ c = old.todo[1] /\ name = c.name /\ plane = PlaneOf(name)
        /\ d = DeclOf(name) /\ resp = old.got[1] /\ key = KeyOf(c)
    BY Zenon
<1>2. /\ UNCHANGED vars /\ world' = world /\ left' = left /\ old.pc = "read"
      /\ \/ caches' = caches /\ \E reason : Failed(t, reason)
         \/ /\ ~(now - old.begun > d.timeout)
            /\ (IF plane = "groups" THEN fetchReason(resp) ELSE FetchReason(resp)) = ""
            /\ Answered(t, resp.value)
            /\ \E entries \in put(caches[plane], cfg.maxCache, key, resp.value, d.ttl) :
                 caches' = [caches EXCEPT ![plane] = entries]
    BY <1>1, Zenon DEF FetchReturns
<1>3. Sound(old) /\ WorldInv /\ name = Calling(old) /\ key[1] = name
    <2>1. key[1] = name
        BY <1>1 DEF KeyOf
    <2> QED
        BY <1>1, <2>1, Zenon DEF FactsInv, Calling
<1>4. Fetched(name) /\ old.begun \in Nat
    BY <1>2, <1>3, Zenon DEF Sound
<1>5. Configured(cfg)
    <2>1. Quiet.pc = "idle" /\ "idle" # "fetch" /\ "idle" # "read"
        BY DEF Quiet
    <2>2. old # Quiet
        BY <1>2, <2>1, Zenon
    <2> QED
        BY <1>3, <2>2, Zenon DEF Sound
<1>6. PICK w \in Worlds : resp \in Responses(plane, w) /\ Held(name, w) /\ LastTrue(name, w) >= old.begun
    BY <1>1, <1>2, <1>3, Zenon DEF Sound
<1>7. /\ name \in Remote /\ plane \in {"registry", "groups"} /\ d.ttl \in Nat /\ d.timeout \in Nat
      /\ MayBeOld(name) = d.ttl + d.timeout /\ now \in Nat /\ LastTrue(name, w) \in Nat
    <2>1. name \in Remote /\ plane \in {"registry", "groups"}
        BY <1>1, <1>4, FetchedIsRemote, Zenon
    <2> QED
        BY <1>1, <1>3, <1>4, <1>6, <2>1, AgeType, LastTrueType, Zenon DEF MayBeOld, WorldInv
<1>8. ASSUME caches' = caches, NEW reason, Failed(t, reason) PROVE FactsInv'
    <2>1. DOMAIN thread' = Threads /\ \A u \in Threads : Sound(thread'[u])
        BY <1>5, <1>8, FailedIsSound, Zenon
    <2> QED
        BY <1>2, <1>8, <2>1, CachesAsTheyAre, ResolutionStep, Zenon
<1>9. ASSUME ~(now - old.begun > d.timeout),
             (IF plane = "groups" THEN fetchReason(resp) ELSE FetchReason(resp)) = "",
             Answered(t, resp.value),
             NEW entries \in put(caches[plane], cfg.maxCache, key, resp.value, d.ttl),
             caches' = [caches EXCEPT ![plane] = entries]
      PROVE  FactsInv'
    <2>1. resp.value = w
        BY <1>6, <1>7, <1>9, AcceptedIsValue, Zenon
    <2>2. /\ LastTrue(name, w) >= now - MayBeOld(name)
          /\ now + d.ttl <= LastTrue(name, w) + MayBeOld(name) /\ now + d.ttl \in Nat
        <3>1. ~(now - old.begun > d.timeout)
            BY <1>9, Zenon
        <3>2. PICK l \in Nat, m \in Nat, b \in Nat, x \in Nat, y \in Nat :
                l = LastTrue(name, w) /\ m = MayBeOld(name) /\ b = old.begun /\ x = d.timeout /\ y = d.ttl
            <4>1. MayBeOld(name) \in Nat
                BY <1>7
            <4> QED
                BY <1>4, <1>7, <4>1, Zenon
        <3>3. l >= b /\ m = y + x /\ ~(now - b > x) /\ now \in Nat
            BY <1>6, <1>7, <3>1, <3>2, Zenon
        <3>4. l >= now - m /\ now + y <= l + m /\ now + y \in Nat
            BY <3>3
        <3> QED
            BY <3>2, <3>4, Zenon
    <2>3. DOMAIN thread' = Threads /\ \A u \in Threads : Sound(thread'[u])
        <3>1. PICK f : f = [value |-> w, at |-> now]
            BY Zenon
        <3>2. f.value = w /\ f.at = now
            BY <3>1
        <3>3. WasTrue(name, f)
            BY <1>6, <1>7, <2>2, <3>2, Zenon DEF WasTrue
        <3>4. Answered(t, w) /\ WasTrue(Calling(thread[t]), [value |-> w, at |-> now])
            BY <1>1, <1>3, <1>9, <2>1, <3>1, <3>3, Zenon
        <3> QED
            BY <1>5, <3>4, AnswerIsSound, Zenon
    <2>4. \A k \in DOMAIN entries : CachedWell(plane, k, entries[k])
        <3> SUFFICES ASSUME NEW k \in DOMAIN entries PROVE CachedWell(plane, k, entries[k])
            OBVIOUS
        <3>1. \/ k = key /\ entries[k] = [value |-> resp.value, expires |-> now + d.ttl]
              \/ k \in DOMAIN caches[plane] /\ entries[k] = caches[plane][k]
            <4>1. PICK before, max, v, ttl :
                    before = caches[plane] /\ max = cfg.maxCache /\ v = resp.value /\ ttl = d.ttl
                BY Zenon
            <4>2. entries \in put(before, max, key, v, ttl)
                BY <1>9, <4>1, Zenon
            <4>3. \/ k = key /\ entries[k] = [value |-> v, expires |-> now + ttl]
                  \/ k \in DOMAIN before /\ entries[k] = before[k]
                BY <4>2, PutShape, SMTT(40)
            <4> QED
                BY <4>1, <4>3, Zenon
        <3>2. CASE k = key /\ entries[k] = [value |-> resp.value, expires |-> now + d.ttl]
            <4>1. PICK e : e = entries[k]
                BY Zenon
            <4>2. e.value = w /\ e.expires = now + d.ttl
                BY <2>1, <3>2, <4>1
            <4>3. CachedWell(plane, key, e)
                BY <1>1, <1>3, <1>4, <1>6, <2>2, <4>2, Zenon DEF CachedWell
            <4> QED
                BY <3>2, <4>1, <4>3, Zenon
        <3>3. CASE k \in DOMAIN caches[plane] /\ entries[k] = caches[plane][k]
            BY <1>7, <3>3, Zenon DEF FactsInv
        <3> QED
            BY <3>1, <3>2, <3>3, Zenon
    <2>5. /\ DOMAIN caches' = {"registry", "groups"}
          /\ \A p \in {"registry", "groups"} : \A k \in DOMAIN caches'[p] : CachedWell(p, k, caches'[p][k])
        <3>1. DOMAIN caches = {"registry", "groups"}
            BY Zenon DEF FactsInv
        <3>2. /\ DOMAIN caches' = {"registry", "groups"} /\ caches'[plane] = entries
              /\ \A p \in {"registry", "groups"} : p # plane => caches'[p] = caches[p]
            BY <1>7, <1>9, <3>1
        <3> QED
            BY <2>4, <3>2, Zenon DEF FactsInv
    <2> QED
        BY <1>2, <2>3, <2>5, ResolutionStep, Zenon
<1> QED
    BY <1>2, <1>8, <1>9, Zenon

-----------------------------------------------------------------------------
(* What newRegistry and newGroups admitted.                                *)
LEMMA PlanesConfigured == ASSUME planes(cfg) PROVE Configured(cfg)
<1>1. ASSUME NEW d \in cfg.groups PROVE d.ttl <= cfg.maxTTL
    <2>1. d.ttl \in 1..cfg.maxTTL
        BY Zenon DEF planes, NewGroups, resolveGroup, admit
    <2> QED
        BY <2>1
<1>2. \A d \in cfg.facts : d.kind \in {"static", "http"}
    BY Zenon DEF planes, NewRegistry, resolveFact
<1> QED
    BY <1>1, <1>2, Zenon DEF Configured

(* The clock and the velocity sources leave what is held alone.            *)
LEMMA VelocityKeepsFacts ==
    ASSUME FactsInv, VelocityStep
    PROVE  FactsInv'
<1>1. caches' = caches /\ thread' = thread /\ world' = world /\ left' = left
    BY Zenon DEF VelocityStep, planeVars
<1>2. cfg' = cfg /\ up' = up /\ (now' = now \/ now' = now + 1)
    <2>1. CASE Consume
        BY <2>1, Zenon DEF Consume, pollOnce, applyCheck, applyTx, retryCheck, retryTx, retryDone, CommitRecords
    <2>2. CASE Tick \/ SubmitTx \/ SubmitFails
        BY <2>2, Zenon DEF Tick, SubmitTx, SubmitFails
    <2>3. ASSUME NEW x, NEW y, NEW z, Publish(x, y) \/ Submit(x, y, z) \/ sweepOnce(x)
          PROVE  cfg' = cfg /\ up' = up /\ now' = now
        BY <2>3, Zenon DEF Publish, Submit, sweepOnce
    <2> QED
        BY <2>1, <2>2, <2>3, Zenon DEF VelocityStep
<1>3. Later
    BY <1>1, <1>2, NothingIsLater, TickIsLater, Zenon DEF FactsInv
<1>4. /\ up' => Configured(cfg)
      /\ DOMAIN thread' = Threads /\ \A t \in Threads : Sound(thread'[t])
    BY <1>1, <1>2, Zenon DEF FactsInv
<1> QED
    BY <1>1, <1>3, <1>4, CachesAsTheyAre, FactsInvAfter, Zenon

(* A process that starts has accepted its declarations; one that stops     *)
(* forgets what it held.                                                   *)
LEMMA ProcessKeepsFacts ==
    ASSUME FactsInv, PlanesStart \/ PlanesStop
    PROVE  FactsInv'
<1>1. cfg' = cfg /\ now' = now /\ world' = world /\ left' = left
    BY Zenon DEF PlanesStart, PlanesStop, Start, Stop, planeVars
<1>2. Later
    BY <1>1, NothingIsLater, Zenon DEF FactsInv
<1>3. CASE PlanesStart
    <2>1. caches' = caches /\ thread' = thread /\ Configured(cfg)
        BY <1>3, PlanesConfigured, Zenon DEF PlanesStart, planeVars
    <2>2. DOMAIN thread' = Threads /\ \A t \in Threads : Sound(thread'[t])
        BY <2>1, Zenon DEF FactsInv
    <2> QED
        BY <1>2, <2>1, <2>2, CachesAsTheyAre, FactsInvAfter, Zenon
<1>4. CASE PlanesStop
    <2>1. /\ caches' = [p \in {"registry", "groups"} |-> <<>>]
          /\ thread' = [t \in Threads |-> Quiet] /\ up' = FALSE
        BY <1>4, Zenon DEF PlanesStop, Stop
    <2>2. DOMAIN caches' = {"registry", "groups"} /\ \A p \in {"registry", "groups"} : DOMAIN caches'[p] = {}
        BY <2>1
    <2>3. Sound(Quiet)
        <3>1. /\ Shaped(Quiet) /\ DOMAIN Quiet.facts = {} /\ Quiet.pc # "read"
              /\ Quiet.pc \notin {"fetch", "read"}
            BY DEF Quiet, Shaped
        <3> QED
            BY <3>1, Zenon DEF Sound
    <2>4. DOMAIN thread' = Threads /\ \A t \in Threads : Sound(thread'[t])
        BY <2>1, <2>3, Zenon
    <2> QED
        BY <1>2, <2>1, <2>2, <2>4, FactsInvAfter, Zenon
<1> QED
    BY <1>3, <1>4, Zenon

(* A remote or DNS changes under the process.                              *)
LEMMA ChangeKeepsFacts ==
    ASSUME FactsInv, NEW s, NEW v, (s \in Remote /\ v \in Worlds /\ RemoteChanges(s, v)) \/ NameMoves(s)
    PROVE  FactsInv'
<1>1. caches' = caches /\ thread' = thread /\ UNCHANGED vars
    BY Zenon DEF RemoteChanges, NameMoves
<1>2. cfg' = cfg /\ now' = now /\ up' = up
    BY <1>1, Zenon DEF vars
<1>3. Later
    <2>1. CASE s \in Remote /\ v \in Worlds /\ RemoteChanges(s, v)
        BY <1>2, <2>1, ChangeIsLater, Zenon DEF FactsInv, RemoteChanges
    <2>2. CASE NameMoves(s)
        BY <1>2, <2>2, NothingIsLater, Zenon DEF FactsInv, NameMoves
    <2> QED
        BY <2>1, <2>2, Zenon
<1>4. /\ up' => Configured(cfg)
      /\ DOMAIN thread' = Threads /\ \A t \in Threads : Sound(thread'[t])
    BY <1>1, <1>2, Zenon DEF FactsInv
<1> QED
    BY <1>1, <1>3, <1>4, CachesAsTheyAre, FactsInvAfter, Zenon

(* Every step of the fact plane and of what surrounds it preserves the     *)
(* invariant.                                                              *)
LEMMA FactsStepKeeps == FactsInv /\ [NextPlanes]_allVars => FactsInv'
<1> SUFFICES ASSUME FactsInv, [NextPlanes]_allVars PROVE FactsInv'
    OBVIOUS
<1>1. CASE PlanesStart \/ PlanesStop
    BY <1>1, ProcessKeepsFacts, Zenon
<1>2. CASE VelocityStep
    BY <1>2, VelocityKeepsFacts, Zenon
<1>3. ASSUME NEW t \in Threads, Resolution(t) PROVE FactsInv'
    BY <1>3, LookupKeeps, SendKeeps, ReturnKeeps, Zenon DEF Resolution
<1>4. ASSUME NEW t \in Threads, NEW x, Resolve(t, x) \/ ResolveApprovers(t, x) PROVE FactsInv'
    BY <1>4, ResolveKeeps, Zenon
<1>5. ASSUME NEW s \in Remote, NEW v \in Worlds, RemoteChanges(s, v) PROVE FactsInv'
    BY <1>5, ChangeKeepsFacts, Zenon
<1>6. ASSUME NEW d, NameMoves(d) PROVE FactsInv'
    BY <1>6, ChangeKeepsFacts, Zenon
<1>7. CASE UNCHANGED allVars
    <2>1. UNCHANGED vars /\ world' = world /\ left' = left /\ caches' = caches /\ thread' = thread
        BY <1>7, Zenon DEF allVars, planeVars
    <2>2. DOMAIN thread' = Threads /\ \A t \in Threads : Sound(thread'[t])
        BY <2>1, Zenon DEF FactsInv
    <2> QED
        BY <2>1, <2>2, CachesAsTheyAre, ResolutionStep, Zenon
<1> QED
    BY <1>1, <1>2, <1>3, <1>4, <1>5, <1>6, <1>7, Zenon DEF NextPlanes

(* The fact plane: what is handed to an evaluation, or counted as the      *)
(* approvers of a quorum, is the whole of what its remote held no longer   *)
(* ago than the time to live and the timeout, for any remotes, any number  *)
(* of resolutions at once and any order of slow answers.                   *)
THEOREM PlanesFactsWereTrue == SpecPlanes => []FactsWereTrue
<1>1. InitPlanes => FactsInv
    <2> SUFFICES ASSUME InitPlanes PROVE FactsInv
        OBVIOUS
    <2>1. /\ cfg \in Configs /\ now = 1 /\ ~up /\ world \in [Remote -> Worlds]
          /\ left = [s \in Remote |-> [w \in Worlds |-> 0]]
          /\ caches = [p \in {"registry", "groups"} |-> <<>>] /\ thread = [t \in Threads |-> Quiet]
        BY Zenon DEF InitPlanes, Init
    <2>2. WorldInv
        <3>1. left \in [Remote -> [Worlds -> Nat]] /\ \A s \in Remote, w \in Worlds : left[s][w] <= now
            BY <2>1
        <3>2. now \in Nat /\ now > 0
            BY <2>1
        <3> QED
            BY <2>1, <3>1, <3>2, Zenon DEF WorldInv
    <2>3. DOMAIN caches = {"registry", "groups"} /\ \A p \in {"registry", "groups"} : DOMAIN caches[p] = {}
        BY <2>1
    <2>4. Sound(Quiet)
        <3>1. /\ Shaped(Quiet) /\ DOMAIN Quiet.facts = {} /\ Quiet.pc # "read"
              /\ Quiet.pc \notin {"fetch", "read"}
            BY DEF Quiet, Shaped
        <3> QED
            BY <3>1, Zenon DEF Sound
    <2>5. DOMAIN thread = Threads /\ \A t \in Threads : Sound(thread[t])
        BY <2>1, <2>4, Zenon
    <2> QED
        BY <2>1, <2>2, <2>3, <2>5, Zenon DEF FactsInv
<1>2. FactsInv => FactsWereTrue
    <2> SUFFICES ASSUME FactsInv, NEW t \in Threads, NEW key \in DOMAIN thread[t].facts, Fetched(key[1])
                 PROVE  LET f == thread[t].facts[key]
                            d == DeclOf(key[1])
                            ttl == IF PlaneOf(key[1]) = "groups" THEN cfg.maxTTL ELSE d.ttl
                        IN  /\ f.value \in Worlds /\ LastTrue(key[1], f.value) > 0
                            /\ LastTrue(key[1], f.value) >= f.at - (ttl + d.timeout)
        BY Zenon DEF FactsWereTrue
    <2>1. PICK name, f, w, d, ttl :
            /\ name = key[1] /\ f = thread[t].facts[key] /\ w = f.value /\ d = DeclOf(name)
            /\ ttl = IF PlaneOf(name) = "groups" THEN cfg.maxTTL ELSE d.ttl
        BY Zenon
    <2>2. WorldInv /\ Sound(thread[t]) /\ Fetched(name)
        BY <2>1, Zenon DEF FactsInv
    <2>3. WasTrue(name, f)
        BY <2>1, <2>2, Zenon DEF Sound
    <2>4. w \in Worlds /\ LastTrue(name, w) > 0 /\ f.at \in Nat /\ LastTrue(name, w) >= f.at - MayBeOld(name)
        BY <2>1, <2>3, Zenon DEF WasTrue, Held
    <2>5. LastTrue(name, w) \in Nat /\ d.ttl \in Nat /\ d.timeout \in Nat /\ MayBeOld(name) = d.ttl + d.timeout
        BY <2>1, <2>2, <2>4, AgeType, FetchedIsRemote, LastTrueType, Zenon DEF MayBeOld
    <2>6. ttl \in Nat /\ d.ttl <= ttl
        <3>1. CASE PlaneOf(name) = "groups"
            <4>1. ttl = cfg.maxTTL /\ d \in cfg.groups
                BY <2>1, <2>2, <3>1, FetchedIsRemote, Zenon
            <4>2. thread[t] # Quiet
                <5>1. DOMAIN Quiet.facts = {}
                    BY DEF Quiet
                <5> QED
                    BY <5>1, Zenon
            <4>3. Configured(cfg) /\ cfg.maxTTL \in Nat
                BY <2>2, <4>2, FactsAssumption, Zenon DEF Sound, WorldInv
            <4> QED
                BY <4>1, <4>3, Zenon DEF Configured
        <3>2. CASE PlaneOf(name) # "groups"
            <4>1. ttl = d.ttl
                BY <2>1, <3>2, Zenon
            <4> QED
                BY <2>5, <4>1
        <3> QED
            BY <3>1, <3>2, Zenon
    <2>7. LastTrue(name, w) >= f.at - (ttl + d.timeout)
        BY <2>4, <2>5, <2>6
    <2> QED
        BY <2>1, <2>4, <2>7, Zenon
<1> QED
    BY <1>1, <1>2, FactsStepKeeps, PTL DEF SpecPlanes
=============================================================================
