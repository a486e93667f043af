-------------------------------- MODULE Codec --------------------------------
(* The document form of a policy set: internal/policy/codec.go over the     *)
(* node tree of yaml.v3. A mapping is a function from keys, so a key that   *)
(* appears twice is not modelled. A scalar carries its tag, the words its   *)
(* text is made of (a name, or the two halves of role.attribute), how the   *)
(* text reads as data and which such text it is.                            *)
EXTENDS Policy

Text(tag, txt, v, raw) == [y |-> "scalar", tag |-> tag, txt |-> txt, v |-> v, raw |-> raw]
str(name) == Text("!!str", "word", 0, <<name>>)
sequence(items) == [y |-> "seq", items |-> items]
Mapping(m) == [y |-> "map", m |-> m]
EmptyMap == [k \in {} |-> {}]
one(key, node) == [k \in {key} |-> node]
putIf(m, cond, key, node) == IF cond THEN [k \in DOMAIN m \union {key} |-> IF k = key THEN node ELSE m[k]] ELSE m
put(m, key, node) == putIf(m, TRUE, key, node)
strings(s) == sequence([i \in DOMAIN s |-> str(s[i])])
typeText(t) == Text("!!str", "word", 0, IF t.list THEN <<"list", t.of>> ELSE <<t.of>>)

---------------------------------------------------------------------------
(* Encoding. *)
envelope(kind) == put(one("apiVersion", str("stamp/v1")), "kind", str(kind))

Tags == [t \in ScalarTypes |->
           CASE t = "bool" -> "!!bool" [] t = "int" -> "!!int" [] t = "double" -> "!!float" [] OTHER -> "!!str"]
scalarLiteralNode(t, data) == Text(Tags[t], data.txt, data.v, <<>>)
inferableType(t) == t \in {"bool", "int", "double", "string"}

(* Mutant: the type of a list or scalar literal is always left out.        *)
literalNodeUntyped(l) ==
    LET nodes == [i \in DOMAIN l.data |-> scalarLiteralNode(l.type.of, l.data[i])]
    IN IF l.type.list THEN sequence(nodes) ELSE nodes[1]

literalNode(l) ==
    LET nodes == [i \in DOMAIN l.data |-> scalarLiteralNode(l.type.of, l.data[i])]
        value == IF l.type.list THEN sequence(nodes) ELSE nodes[1]
    IN IF inferableType(l.type.of) /\ (l.type.list => l.data # <<>>) THEN value
       ELSE Mapping(put(one("value", value), "type", typeText(l.type)))

RECURSIVE operandNode(_)
operandNode(o) ==
    CASE o.opd = "field" -> Mapping(one("field", Text("!!str", "word", 0, <<o.role, o.attr>>)))
      [] o.opd = "source" ->
            Mapping(putIf(one("source", str(o.name)), o.args # <<>>, "args",
                          sequence([i \in DOMAIN o.args |-> operandNode(o.args[i])])))
      [] o.opd = "literal" -> literalNode(o)

RECURSIVE conditionNode(_)
conditionNode(n) ==
    CASE n.node = "logic" /\ n.op = "not" -> Mapping(one("not", conditionNode(n.operands[1])))
      [] n.node = "logic" /\ n.op # "not" ->
            Mapping(one(n.op, sequence([i \in DOMAIN n.operands |-> conditionNode(n.operands[i])])))
      [] n.node = "compare" ->
            Mapping(put(put(one("left", operandNode(n.left)), "op", str(n.op)), "right", operandNode(n.right)))
      [] n.node = "member" ->
            Mapping(put(one("left", operandNode(n.left)),
                        IF n.negate THEN "not_in" ELSE "in", operandNode(n.coll)))

approverSetNode(a) ==
    IF ~IsNil(a.source) THEN operandNode(a.source)
    ELSE IF a.claim # "" THEN Mapping(one("claim", str(a.claim)))
    ELSE Mapping(one("members", strings(a.members)))

challengeNode(c) ==
    LET m == one("type", str(c.ch))
    IN Mapping(CASE c.ch = "quorum" ->
                       put(put(m, "threshold", Text("!!int", "int", c.threshold, <<>>)),
                           "approvers", approverSetNode(c.approvers))
                 [] c.ch = "mfa" ->
                       putIf(putIf(m, c.mode # "delegated", "mode", str(c.mode)),
                             c.acr # <<>>, "acr_values", strings(c.acr))
                 [] c.ch = "delay" ->
                       putIf(put(m, "duration", Text("!!str", "duration", c.duration, <<>>)),
                             ~IsNil(c.cancel), "cancellable_by",
                             IF IsNil(c.cancel) THEN Mapping(EmptyMap) ELSE approverSetNode(c.cancel))
                 [] c.ch = "external" -> put(m, "target", str(c.target)))

policyDocumentNode(p) ==
    LET bound == put(put(put(envelope("Policy"), "id", str(p.id)), "subject", str(p.subject)),
                     "resource", str(p.resource))
        acted == put(putIf(bound, p.context # "", "context", str(p.context)), "actions", strings(p.actions))
        cond == IF IsNil(p.condition) THEN acted ELSE put(acted, "condition", conditionNode(p.condition))
    IN Mapping(putIf(cond, p.challenges # <<>>, "challenges",
                     sequence([i \in DOMAIN p.challenges |-> challengeNode(p.challenges[i])])))

entityNode(e) ==
    Mapping(putIf(one("name", str(e.name)), e.attributes # <<>>, "attributes",
                  Mapping([a \in {x.name : x \in ToSet(e.attributes)} |-> typeText(Find(e.attributes, a).type)])))
sourceNode(d) ==
    LET m == put(one("name", str(d.name)), "kind", str(d.kind))
        n == putIf(m, d.params # <<>>, "params",
                   sequence([j \in DOMAIN d.params |-> Mapping(one(d.params[j].name, typeText(d.params[j].type)))]))
    IN Mapping(putIf(put(n, "returns", typeText(d.returns)), d.onError # "deny", "on_error", str(d.onError)))

(* An action's description, like a policy's, is left out.                  *)
schemaDocumentNode(s) ==
    LET m == putIf(envelope("Schema"), s.entities # <<>>, "entities",
                   sequence([i \in DOMAIN s.entities |-> entityNode(s.entities[i])]))
        n == putIf(m, s.actions # <<>>, "actions", strings(s.actions))
    IN Mapping(putIf(n, s.sources # <<>>, "sources",
                     sequence([i \in DOMAIN s.sources |-> sourceNode(s.sources[i])])))

EmptySchema == [entities |-> <<>>, actions |-> <<>>, sources |-> <<>>]
schemaEmpty(s) == s.entities = <<>> /\ s.actions = <<>> /\ s.sources = <<>>

(* One document for the schema unless it is empty, one per policy.         *)
Encode(set) ==
    LET n == Normalize(set)
    IN (IF schemaEmpty(n.schema) THEN <<>> ELSE <<schemaDocumentNode(n.schema)>>)
       \o [i \in DOMAIN n.policies |-> policyDocumentNode(n.policies[i])]

---------------------------------------------------------------------------
(* Decoding. A decoder returns the set of what it read: one value, or none *)
(* once a diagnostic is recorded.                                          *)
Diagnosed == {}
OK(x) == {x}
Failed(r) == r = Diagnosed
The(r) == CHOOSE x \in r : TRUE
Each(results) ==
    {[i \in DOMAIN r |-> The(r[i])] \o <<>> : r \in {q \in {results \o <<>>} : \A i \in DOMAIN q : ~Failed(q[i])}}

(* walk: a mapping whose keys all have a handler. *)
walk(node, keys) == node.y = "map" /\ DOMAIN node.m \subseteq keys
Has(node, key) == key \in DOMAIN node.m
At(node, key, Handler(_), absent) == IF Has(node, key) THEN Handler(node.m[key]) ELSE OK(absent)

scalarString(node) == IF node.y = "scalar" /\ Len(node.raw) = 1 THEN OK(node.raw[1]) ELSE Diagnosed
scalarType(node) ==
    IF node.y # "scalar" \/ Len(node.raw) = 0 THEN Diagnosed
    ELSE OK(IF Len(node.raw) = 2 THEN ListOf(node.raw[2]) ELSE Scalar(node.raw[1]))
scalarInt(node) == IF node.y = "scalar" /\ node.txt = "int" THEN OK(node.v) ELSE Diagnosed
ReadsAsDuration(node) == node.txt = "duration" \/ (node.txt = "int" /\ node.v = 0)
scalarDuration(node) == IF node.y = "scalar" /\ ReadsAsDuration(node) THEN OK(node.v) ELSE Diagnosed
items(node, Item(_)) ==
    IF node.y # "seq" THEN Diagnosed ELSE Each([i \in DOMAIN node.items |-> Item(node.items[i])])
stringSequence(node) == items(node, scalarString)

(* strconv and time.Parse on the text: ParseBool takes 0 and 1, ParseFloat *)
(* a whole number, ParseDuration a bare 0.                                 *)
scalarData(t, node) ==
    LET reads == CASE t = "bool" -> node.txt = "bool" \/ (node.txt = "int" /\ node.v \in {0, 1})
                   [] t = "double" -> node.txt \in {"int", "double"}
                   [] t = "string" -> TRUE
                   [] t = "duration" -> ReadsAsDuration(node)
                   [] OTHER -> node.txt = t
    IN IF node.y = "scalar" /\ reads
       THEN OK([is |-> t, txt |-> IF t = "string" THEN node.txt ELSE t, v |-> node.v]) ELSE Diagnosed

typeForTag(tag) ==
    CASE tag = "!!bool" -> "bool" [] tag = "!!int" -> "int" [] tag = "!!float" -> "double"
      [] tag = "!!str" -> "string" [] tag = "!!timestamp" -> "timestamp" [] OTHER -> ""

inferredScalar(node) ==
    LET t == typeForTag(node.tag)
    IN IF t = "" THEN Diagnosed ELSE {Literal(Scalar(t), <<d>>) : d \in scalarData(t, node)}

inferredList(node) ==
    IF \/ node.items = <<>>
       \/ \E i \in DOMAIN node.items :
             node.items[i].y # "scalar" \/ typeForTag(node.items[i].tag) = ""
                \/ typeForTag(node.items[i].tag) # typeForTag(node.items[1].tag)
    THEN Diagnosed
    ELSE LET t == typeForTag(node.items[1].tag)
         IN {Literal(ListOf(t), data) : data \in items(node, LAMBDA x : scalarData(t, x))}

inferred(node) == CASE node.y = "scalar" -> inferredScalar(node)
                    [] node.y = "seq" -> inferredList(node)
                    [] OTHER -> Diagnosed

typedValue(node) ==
    LET value == node.m["value"]
        ofType(t) == IF t.list THEN {Literal(t, data) : data \in items(value, LAMBDA x : scalarData(t.of, x))}
                     ELSE {Literal(t, <<d>>) : d \in scalarData(t.of, value)}
    IN IF ~Has(node, "type") THEN inferred(value)
       ELSE UNION {ofType(t) : t \in {d \in scalarType(node.m["type"]) : TypeValid(d)}}

fieldRef(node) ==
    IF node.y = "scalar" /\ Len(node.raw) = 2 THEN OK(Field(node.raw[1], node.raw[2])) ELSE Diagnosed

sourceRef(names, argLists) == {Source(name, args) : name \in names, args \in argLists}

(* A mapping reads as its first of field, source, value; any other key is  *)
(* refused.                                                                *)
RECURSIVE operand(_)
operandMapping(node) ==
    IF ~walk(node, {"field", "source", "args", "value", "type"}) THEN Diagnosed
    ELSE CASE Has(node, "field") -> fieldRef(node.m["field"])
           [] ~Has(node, "field") /\ Has(node, "source") ->
                 sourceRef(scalarString(node.m["source"]), At(node, "args", LAMBDA n : items(n, operand), <<>>))
           [] ~Has(node, "field") /\ ~Has(node, "source") /\ Has(node, "value") -> typedValue(node)
           [] OTHER -> Diagnosed
operand(node) == IF node.y = "map" THEN operandMapping(node) ELSE inferred(node)

leaf(node) ==
    LET lefts == {o \in operand(node.m["left"]) : o.opd # "literal"}
        member(key) == {Member(left, coll, key = "not_in") : left \in lefts, coll \in operand(node.m[key])}
    IN CASE Has(node, "in") -> member("in")
         [] ~Has(node, "in") /\ Has(node, "not_in") -> member("not_in")
         [] ~Has(node, "in") /\ ~Has(node, "not_in") /\ Has(node, "op") /\ Has(node, "right") ->
               {Compare(left, op, right) :
                  left \in lefts, op \in scalarString(node.m["op"]), right \in operand(node.m["right"])}
         [] OTHER -> Diagnosed

(* The first of all, any, not, left decides; its siblings are not read.    *)
RECURSIVE condition(_)
condition(node) ==
    LET logic(op) == {Logic(op, operands) : operands \in items(node.m[op], condition)}
        first == {k \in {"all", "any", "not", "left"} : node.y = "map" /\ Has(node, k)}
    IN CASE "all" \in first -> logic("all")
         [] "all" \notin first /\ "any" \in first -> logic("any")
         [] first \intersect {"all", "any"} = {} /\ "not" \in first ->
               {Logic("not", <<inner>>) : inner \in condition(node.m["not"])}
         [] first = {"left"} -> leaf(node)
         [] OTHER -> Diagnosed

(* args alone still makes a source, of no name.                            *)
approverSet(node) ==
    IF ~walk(node, {"members", "claim", "source", "args"}) THEN Diagnosed
    ELSE {[members |-> members, claim |-> claim, source |-> source] :
            members \in At(node, "members", stringSequence, <<>>),
            claim \in At(node, "claim", scalarString, ""),
            source \in IF Has(node, "source") \/ Has(node, "args")
                       THEN sourceRef(At(node, "source", scalarString, ""),
                                      At(node, "args", LAMBDA n : items(n, operand), <<>>))
                       ELSE {None}}

challengeOf(kind, node) ==
    CASE kind = "quorum" /\ walk(node, {"type", "threshold", "approvers"}) ->
            {[ch |-> "quorum", threshold |-> n, approvers |-> a] :
               n \in At(node, "threshold", scalarInt, 0), a \in At(node, "approvers", approverSet, NoApprovers)}
      [] kind = "mfa" /\ walk(node, {"type", "mode", "acr_values"}) ->
            {[ch |-> "mfa", mode |-> mode, acr |-> acr] :
               mode \in At(node, "mode", scalarString, "delegated"), acr \in At(node, "acr_values", stringSequence, <<>>)}
      [] kind = "delay" /\ walk(node, {"type", "duration", "cancellable_by"}) ->
            {[ch |-> "delay", duration |-> d, cancel |-> a] :
               d \in At(node, "duration", scalarDuration, 0), a \in At(node, "cancellable_by", approverSet, None)}
      [] kind = "external" /\ walk(node, {"type", "target"}) ->
            {[ch |-> "external", target |-> t] : t \in At(node, "target", scalarString, "")}
      [] OTHER -> Diagnosed
challenge(node) ==
    IF node.y # "map" \/ ~Has(node, "type") THEN Diagnosed
    ELSE UNION {challengeOf(kind, node) : kind \in scalarString(node.m["type"])}

policyDocument(root) ==
    LET S(key) == At(root, key, scalarString, "")
    IN IF ~walk(root, {"apiVersion", "kind", "id", "subject", "resource", "context",
                       "actions", "condition", "challenges"})
       THEN Diagnosed
       ELSE {[id |-> id, subject |-> s, resource |-> r, context |-> c,
              actions |-> actions, condition |-> cond, challenges |-> cs] :
               id \in S("id"), s \in S("subject"), r \in S("resource"), c \in S("context"),
               actions \in At(root, "actions", stringSequence, <<>>),
               cond \in At(root, "condition", condition, None),
               cs \in At(root, "challenges", LAMBDA n : items(n, challenge), <<>>)}

typed(name, node) == {[name |-> name, type |-> t] : t \in scalarType(node)}

(* yaml keeps the order of the keys; normalisation sorts it away.          *)
attributes(node) ==
    IF node.y # "map" THEN Diagnosed
    ELSE LET names == SetToSortSeq(DOMAIN node.m, LAMBDA a, b : Rank(a) < Rank(b))
         IN Each([i \in DOMAIN names |-> typed(names[i], node.m[names[i]])])

params(node) ==
    items(node, LAMBDA x : IF x.y = "map" /\ Cardinality(DOMAIN x.m) = 1
                           THEN UNION {typed(name, x.m[name]) : name \in DOMAIN x.m} ELSE Diagnosed)

entity(node) ==
    IF ~walk(node, {"name", "attributes"}) THEN Diagnosed
    ELSE {[name |-> name, attributes |-> attrs] :
            name \in At(node, "name", scalarString, ""), attrs \in At(node, "attributes", attributes, <<>>)}

source(node) ==
    LET S(key, absent) == At(node, key, scalarString, absent)
    IN IF ~walk(node, {"name", "kind", "params", "returns", "on_error"}) THEN Diagnosed
       ELSE {[name |-> name, kind |-> kind, params |-> ps, returns |-> returns, onError |-> e] :
               name \in S("name", ""), kind \in S("kind", ""), e \in S("on_error", "deny"),
               returns \in At(node, "returns", scalarType, Untyped), ps \in At(node, "params", params, <<>>)}

schemaDocument(root) ==
    IF ~walk(root, {"apiVersion", "kind", "entities", "actions", "sources"}) THEN Diagnosed
    ELSE {[entities |-> entities, actions |-> actions, sources |-> sources] :
            entities \in At(root, "entities", LAMBDA n : items(n, entity), <<>>),
            actions \in At(root, "actions", stringSequence, <<>>),
            sources \in At(root, "sources", LAMBDA n : items(n, source), <<>>)}

(* What one document declares.                                             *)
document(root) ==
    LET kinds == IF root.y = "map" /\ Has(root, "apiVersion") /\ Has(root, "kind")
                    /\ root.m["apiVersion"] = str("stamp/v1")
                 THEN root.m["kind"] ELSE str("")
    IN CASE kinds = str("Schema") -> {[schema |-> s, policies |-> <<>>] : s \in schemaDocument(root)}
         [] kinds = str("Policy") -> {[schema |-> EmptySchema, policies |-> <<p>>] : p \in policyDocument(root)}
         [] OTHER -> Diagnosed

(* The documents of a stream add up.                                       *)
stream(docs) ==
    LET all(ds, F(_)) == FlattenSeq([i \in DOMAIN ds |-> F(ds[i])])
    IN {[schema |-> [entities |-> all(ds, LAMBDA d : d.schema.entities),
                     actions |-> all(ds, LAMBDA d : d.schema.actions),
                     sources |-> all(ds, LAMBDA d : d.schema.sources)],
         policies |-> all(ds, LAMBDA d : d.policies)] :
          ds \in Each([i \in DOMAIN docs |-> document(docs[i])])}

DecodeWithLimits(docs) == {Normalize(set) : set \in stream(docs)}
LoadWithLimits(docs) == {set \in DecodeWithLimits(docs) : ValidateWithLimits(set)}
=============================================================================
