------------------------------ MODULE Revision ------------------------------
(* What a revision is and what it relaxes: internal/policy/revision         *)
(* delta.go, weakening.go and the planning half of apply.go.                *)
EXTENDS Engine

CONSTANT FloatExact    \* float64 holds every integer up to here; above, every other one

---------------------------------------------------------------------------
(* A delta. An absent policy or schema is None.                            *)
Change(kind, id, before, after, from, to) ==
    [kind |-> kind, id |-> id, before |-> before, after |-> after, from |-> from, to |-> to]
Added(p) == Change("add", p.id, None, p, "", "")
Deleted(p) == Change("delete", p.id, p, None, "", "")
Modified(old, new) == Change("modify", new.id, old, new, "", "")
TakenOver(old, new, from) == Change("take_ownership", new.id, old, new, from, "file")

EncodePolicy(p) == IF IsNil(p) THEN <<>> ELSE Encode([schema |-> EmptySchema, policies |-> <<p>>])
DecodePolicy(docs) == {set.policies[1] : set \in {d \in DecodeWithLimits(docs) : Len(d.policies) = 1}}
EncodeSchema(s) == IF IsNil(s) THEN <<>> ELSE Encode([schema |-> s, policies |-> <<>>])
DecodeSchema(docs) == {set.schema : set \in DecodeWithLimits(docs)}
samePolicy(a, b) == EncodePolicy(a) = EncodePolicy(b)

(* The form a delta is sent and kept in: documents, the empty one for nil. *)
MarshalJSON(d) ==
    [changes |-> [i \in DOMAIN d.changes |->
                    [d.changes[i] EXCEPT !.before = EncodePolicy(@), !.after = EncodePolicy(@)]],
     schemaBefore |-> EncodeSchema(d.schemaBefore), schemaAfter |-> EncodeSchema(d.schemaAfter)]

UnmarshalJSON(raw) ==
    LET absent(docs, Decode(_)) == IF docs = <<>> THEN OK(None) ELSE Decode(docs)
        change(c) == {[c EXCEPT !.before = before, !.after = after] :
                        before \in absent(c.before, DecodePolicy), after \in absent(c.after, DecodePolicy)}
    IN {[changes |-> changes, schemaBefore |-> before, schemaAfter |-> after] :
          changes \in Each([i \in DOMAIN raw.changes |-> change(raw.changes[i])]),
          before \in absent(raw.schemaBefore, DecodeSchema),
          after \in absent(raw.schemaAfter, DecodeSchema)}

(* A document decodes to its normal form.                                 *)
normalizeDelta(d) ==
    LET p(x) == IF IsNil(x) THEN x ELSE normalizePolicy(x)
        s(x) == IF IsNil(x) THEN x ELSE normalizeSchema(x)
    IN [changes |-> [i \in DOMAIN d.changes |-> [d.changes[i] EXCEPT !.before = p(@), !.after = p(@)]],
        schemaBefore |-> s(d.schemaBefore), schemaAfter |-> s(d.schemaAfter)]

SchemaChanged(d) ==
    IF IsNil(d.schemaBefore) \/ IsNil(d.schemaAfter) THEN d.schemaBefore # d.schemaAfter
    ELSE EncodeSchema(d.schemaBefore) # EncodeSchema(d.schemaAfter)

validateShape(c) ==
    /\ c.kind # "add" <=> ~IsNil(c.before)
    /\ c.kind # "delete" <=> ~IsNil(c.after)
    /\ ~IsNil(c.before) => c.before.id = c.id
    /\ ~IsNil(c.after) => c.after.id = c.id
    /\ c.kind = "take_ownership" => {c.from, c.to} = {"form", "file"}

DeltaValid(d) ==
    /\ d.changes # <<>> \/ SchemaChanged(d)
    /\ IsInjective(IdsIn(d.changes))
    /\ \A i \in DOMAIN d.changes : ValidName(d.changes[i].id) /\ validateShape(d.changes[i])

(* Result: the set with the changes made; none when a change does not fit *)
(* it. Each policy is changed once, so the order of the changes is that of *)
(* the policies they add.                                                  *)
Result(d, base) ==
    LET ids == {p.id : p \in ToSet(base.policies)}
        changed == {c.id : c \in ToSet(d.changes)}
        after(id) == d.changes[CHOOSE i \in DOMAIN d.changes : d.changes[i].id = id].after
        kept == SelectSeq(base.policies, LAMBDA p : p.id \notin changed \/ ~IsNil(after(p.id)))
        added == SelectSeq(d.changes, LAMBDA c : c.kind = "add")
    IN IF \E c \in ToSet(d.changes) : (c.kind = "add") <=> (c.id \in ids) THEN Diagnosed
       ELSE OK([schema |-> IF IsNil(d.schemaAfter) THEN base.schema ELSE d.schemaAfter,
                policies |-> [i \in DOMAIN kept |-> IF kept[i].id \in changed THEN after(kept[i].id) ELSE kept[i]]
                             \o [i \in DOMAIN added |-> added[i].after]])

---------------------------------------------------------------------------
(* Weakening: whether the classifier reports a finding. *)
normalizedOnError(e) == IF e = "" THEN "deny" ELSE e

(* A source that goes away is not reported.                                *)
schemaFindings(before, after) ==
    /\ ~IsNil(before) /\ ~IsNil(after)
    /\ \E d \in ToSet(before.sources) :
          /\ Named(after.sources, d.name)
          /\ normalizedOnError(d.onError) = "deny"
          /\ normalizedOnError(Find(after.sources, d.name).onError) = "allow"

numericLiteral(o) ==
    IF o.opd = "literal" /\ ~o.type.list /\ o.data[1].is \in {"int", "double"}
    THEN LET v == o.data[1].v
         IN OK(IF o.data[1].is = "int" /\ v > FloatExact THEN 2 * (v \div 2) ELSE v)
    ELSE Diagnosed

comparisonWidens(before, after) ==
    /\ before.node = "compare" /\ after.node = "compare"
    /\ before.op = after.op /\ before.left = after.left
    /\ \E old \in numericLiteral(before.right), new \in numericLiteral(after.right) :
          \/ before.op \in {"ge", "gt"} /\ new <= old
          \/ before.op \in {"le", "lt"} /\ new >= old

IsLogic(n, op) == n.node = "logic" /\ n.op = op

(* A proof that the new condition holds wherever the old one did.          *)
RECURSIVE widens(_, _)
widens(before, after) ==
    \/ IsNil(after)
    \/ /\ ~IsNil(before) /\ ~IsNil(after)
       /\ \/ before = after
          \/ IsLogic(after, "any") /\ \E o \in ToSet(after.operands) : widens(before, o)
          \/ IsLogic(before, "all") /\ \E o \in ToSet(before.operands) : widens(o, after)
          \/ IsLogic(after, "all") /\ after.operands # <<>> /\ \A o \in ToSet(after.operands) : widens(before, o)
          \/ IsLogic(before, "any") /\ before.operands # <<>> /\ \A o \in ToSet(before.operands) : widens(o, after)
          \/ comparisonWidens(before, after)

narrowing(before, after) ==
    \/ \E a \in ToSet(before.actions) : a \notin ToSet(after.actions)
    \/ \E role \in Roles : Bound(after, role) /\ EntityFor(before, role) # EntityFor(after, role)
    \/ ~widens(before.condition, after.condition)

approverMode(a) == IF ~IsNil(a.source) THEN "source" ELSE IF a.claim # "" THEN "claim" ELSE "members"

Differ(before, after) ==
    \/ approverMode(before) # approverMode(after)
    \/ approverMode(before) = "claim" /\ before.claim # after.claim
    \/ approverMode(before) = "source" /\ before.source # after.source
approverSetWidened(before, after) ==
    \/ Differ(before, after)
    \/ approverMode(before) = "members" /\ ~(ToSet(after.members) \subseteq ToSet(before.members))
approverSetNarrowed(before, after) ==
    \/ Differ(before, after)
    \/ approverMode(before) = "members" /\ ~(ToSet(before.members) \subseteq ToSet(after.members))

quorumFindings(old, new) == new.threshold < old.threshold \/ approverSetWidened(old.approvers, new.approvers)

cancellationNarrowed(before, after) ==
    ~IsNil(before) /\ (IsNil(after) \/ approverSetNarrowed(before, after))
delayFindings(old, new) == new.duration < old.duration \/ cancellationNarrowed(old.cancel, new.cancel)

acrRelaxed(before, after) ==
    before # <<>> /\ (after = <<>> \/ ~(ToSet(after) \subseteq ToSet(before)))
mfaFindings(old, new) == old.mode # new.mode \/ acrRelaxed(old.acr, new.acr)

externalFindings(old, new) == old.target # new.target

findingsOf(kind, old, new) ==
    CASE kind = "quorum" -> quorumFindings(old, new)
      [] kind = "delay" -> delayFindings(old, new)
      [] kind = "mfa" -> mfaFindings(old, new)
      [] kind = "external" -> externalFindings(old, new)

(* Challenges of a kind are paired in the order they are declared.         *)
challengeFindings(before, after) ==
    \E kind \in ToSet(ChallengeTypes) :
        LET old == OfKind(before.challenges, kind)
            new == OfKind(after.challenges, kind)
        IN Len(new) < Len(old) \/ \E i \in DOMAIN old \intersect DOMAIN new : findingsOf(kind, old[i], new[i])

changeFindings(c) ==
    \/ c.kind = "delete"
    \/ /\ c.kind \in {"modify", "take_ownership"}
       /\ LET before == normalizePolicy(c.before)
              after == normalizePolicy(c.after)
          IN narrowing(before, after) \/ challengeFindings(before, after)

Weakens(d) == schemaFindings(d.schemaBefore, d.schemaAfter) \/ \E c \in ToSet(d.changes) : changeFindings(c)

(* Every quorum the delta leaves behind can be met by the members it names. *)
CheckSatisfiable(d) ==
    \A c \in ToSet(d.changes) : ~IsNil(c.after) =>
        \A q \in ToSet(OfKind(c.after.challenges, "quorum")) :
            /\ q.threshold >= 1
            /\ approverMode(q.approvers) = "members" => Cardinality(ToSet(q.approvers.members) \ {""}) >= q.threshold

---------------------------------------------------------------------------
(* A directory: files of documents, one kind of which declares adoptions.  *)
IsAdoption(doc) == doc.y = "map" /\ Has(doc, "kind") /\ doc.m["kind"] = str("Adoption")
AdoptionFile(file) == \E i \in DOMAIN file : IsAdoption(file[i])

decodeAdoption(file) ==
    Each([i \in DOMAIN file |->
            IF IsAdoption(file[i]) /\ Has(file[i], "apiVersion") /\ file[i].m["apiVersion"] = str("stamp/v1")
            THEN {ids \in At(file[i], "policies", stringSequence, <<>>) : ids # <<>>} ELSE Diagnosed])

(* An adoption declaration keeps to its own file; the rest is one stream.  *)
parse(files) ==
    LET adoptions == SelectSeq(files, AdoptionFile)
    IN {[set |-> set, adopt |-> UNION {ToSet(ids) : ids \in UNION {ToSet(a) : a \in ToSet(adopt)}}] :
          adopt \in Each([i \in DOMAIN adoptions |-> decodeAdoption(adoptions[i])]),
          set \in LoadWithLimits(FlattenSeq(SelectSeq(files, LAMBDA f : ~AdoptionFile(f))))}

(* Mutant: whoever owns a policy, the directory's version of it wins.      *)
planPolicyAnyOwner(held, p, adopting) ==
    IF held = {} THEN OK({Added(p)})
    ELSE OK(IF samePolicy(The(held).policy, p) THEN {} ELSE {Modified(The(held).policy, p)})

(* One policy of the directory against the one in force, if there is one.  *)
planPolicy(held, p, adopting) ==
    LET h == The(held)
    IN CASE held = {} -> OK({Added(p)})
         [] held # {} /\ h.origin = "file" -> OK(IF samePolicy(h.policy, p) THEN {} ELSE {Modified(h.policy, p)})
         [] held # {} /\ h.origin # "file" /\ adopting -> OK({TakenOver(h.policy, p, h.origin)})
         [] held # {} /\ h.origin # "file" /\ ~adopting -> IF samePolicy(h.policy, p) THEN OK({}) ELSE Diagnosed

(* PlanApply: what the directory asks of the set in force, whose policies  *)
(* carry the path that owns them. What the file path owns and the          *)
(* directory no longer carries goes.                                       *)
PlanApply(current, desired, adopt) ==
    LET Held(id) == {h \in ToSet(current.policies) : h.id = id}
        seen == {p.id : p \in ToSet(desired.policies)}
        deleted == {h \in ToSet(current.policies) : h.origin = "file" /\ h.id \notin seen}
        plans == Each([i \in DOMAIN desired.policies |->
                         planPolicy(Held(desired.policies[i].id), desired.policies[i], desired.policies[i].id \in adopt)])
    IN IF \E id \in adopt : id \notin seen \/ \A h \in Held(id) : h.origin = "file" THEN Diagnosed
       ELSE {[changes |-> SetToSortSeq(UNION ToSet(plan) \union {Deleted(h.policy) : h \in deleted},
                                       LAMBDA a, b : Rank(a.id) < Rank(b.id)),
              schemaBefore |-> current.schema, schemaAfter |-> desired.schema] : plan \in plans}
=============================================================================
