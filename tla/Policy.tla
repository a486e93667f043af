------------------------------- MODULE Policy -------------------------------
(* The policy language: internal/policy/{ast,schema,validate}.go. A        *)
(* declaration list is a sequence, as in the code, because normalisation    *)
(* orders it. A value is a record is/txt/v: its type, the way its text      *)
(* reads, and which of the texts that read so it is. "" is the empty name   *)
(* and None the nil pointer.                                                *)
EXTENDS Integers, Sequences, FiniteSets, SequencesExt, FiniteSetsExt

CONSTANTS Names,       \* every name in use, in the order sort.Strings gives
          BadNames,    \* the names that match neither identPattern nor namePattern
          MaxPolicies, MaxConditionNodes, MaxConditionDepth

None == [nil |-> TRUE]
IsNil(x) == "nil" \in DOMAIN x

Rank(name) == CHOOSE i \in 1..Len(Names) : Names[i] = name
SortedBy(s, Key(_)) == SortSeq(s, LAMBDA a, b : Rank(Key(a)) < Rank(Key(b)))
ValidName(name) == name # "" /\ name \notin BadNames

---------------------------------------------------------------------------
(* Types. *)
ScalarTypes == {"bool", "int", "double", "string", "timestamp", "duration"}
Scalar(t) == [list |-> FALSE, of |-> t]
ListOf(t) == [list |-> TRUE, of |-> t]
TypeValid(t) == t.of \in ScalarTypes
IsOrdered(t) == ~t.list /\ t.of \in ScalarTypes \ {"bool"}

(* A Go value of the Go type that carries t. *)
checkScalarData(t, data) == t \in ScalarTypes /\ data.is = t
checkLiteralData(l) == \A i \in DOMAIN l.data : checkScalarData(l.type.of, l.data[i])

---------------------------------------------------------------------------
(* The condition tree. A scalar literal holds a sequence of one value. *)
Field(role, attribute) == [opd |-> "field", role |-> role, attr |-> attribute]
Source(name, args) == [opd |-> "source", name |-> name, args |-> args]
Literal(type, data) == [opd |-> "literal", type |-> type, data |-> data]
Logic(op, operands) == [node |-> "logic", op |-> op, operands |-> operands]
Compare(left, op, right) == [node |-> "compare", left |-> left, op |-> op, right |-> right]
Member(left, collection, negate) ==
    [node |-> "member", left |-> left, coll |-> collection, negate |-> negate]

RECURSIVE Depth(_)
Depth(n) ==
    IF IsNil(n) THEN 0
    ELSE IF n.node = "logic" THEN 1 + Max({0} \union {Depth(c) : c \in ToSet(n.operands)})
    ELSE 1

countOperand(o) == 1 + (IF o.opd = "source" THEN Len(o.args) ELSE 0)

RECURSIVE Count(_)
Count(n) ==
    CASE IsNil(n) -> 0
      [] ~IsNil(n) /\ n.node = "logic" ->
            1 + FoldSeq(LAMBDA c, total : total + Count(c), 0, n.operands)
      [] ~IsNil(n) /\ n.node = "compare" -> 1 + countOperand(n.left) + countOperand(n.right)
      [] OTHER -> 1 + countOperand(n.left) + countOperand(n.coll)

---------------------------------------------------------------------------
(* The schema and a policy over it. *)
Roles == {"subject", "resource", "context"}
Named(decls, name) == \E i \in DOMAIN decls : decls[i].name = name
Find(decls, name) == decls[CHOOSE i \in DOMAIN decls : decls[i].name = name]
EntityFor(p, role) == p[role]
Bound(p, role) == p[role] # ""
RequiresDecision(p) == p.challenges # <<>>

ChallengeTypes == <<"quorum", "mfa", "delay", "external">>
OfKind(challenges, kind) == SelectSeq(challenges, LAMBDA c : c.ch = kind)

(* A set that names no members, no claim and no source declares none.      *)
NoApprovers == [members |-> <<>>, claim |-> "", source |-> None]

(* The defaults a document may leave out. *)
normalizeChallenge(c) ==
    IF c.ch = "mfa" /\ c.mode = "" THEN [c EXCEPT !.mode = "delegated"] ELSE c

(* SliceStable by rank: the kinds in order, each in the author's order.    *)
byRank(challenges) ==
    FlattenSeq([k \in 1..Len(ChallengeTypes) |-> OfKind(challenges, ChallengeTypes[k])])

normalizeSchema(s) ==
    LET attrs(e) == [e EXCEPT !.attributes = SortedBy(@, LAMBDA a : a.name)]
        errs(d) == IF d.onError = "" THEN [d EXCEPT !.onError = "deny"] ELSE d
    IN [entities |-> SortedBy([i \in DOMAIN s.entities |-> attrs(s.entities[i])], LAMBDA e : e.name),
        actions  |-> SortedBy(s.actions, LAMBDA a : a),
        sources  |-> SortedBy([i \in DOMAIN s.sources |-> errs(s.sources[i])], LAMBDA d : d.name)]

normalizePolicy(p) ==
    [p EXCEPT !.actions = SortedBy(@, LAMBDA a : a),
              !.challenges = byRank([i \in DOMAIN @ |-> normalizeChallenge(@[i])])]

Normalize(set) ==
    [schema   |-> normalizeSchema(set.schema),
     policies |-> SortedBy([i \in DOMAIN set.policies |-> normalizePolicy(set.policies[i])],
                           LAMBDA p : p.id)]

---------------------------------------------------------------------------
(* Static validation: whether any diagnostic is recorded.                  *)
(* The maps of what was seen: no two places of a list share a name or id.  *)
NamesIn(s) == [i \in DOMAIN s |-> s[i].name]
IdsIn(s) == [i \in DOMAIN s |-> s[i].id]

schemaValid(s) ==
    /\ IsInjective(NamesIn(s.entities))
    /\ \A i \in DOMAIN s.entities :
          LET e == s.entities[i]
          IN /\ ValidName(e.name)
             /\ IsInjective(NamesIn(e.attributes))
             /\ \A a \in ToSet(e.attributes) : ValidName(a.name) /\ TypeValid(a.type)
    /\ IsInjective(s.actions)
    /\ \A i \in DOMAIN s.actions : ValidName(s.actions[i])
    /\ IsInjective(NamesIn(s.sources))
    /\ \A i \in DOMAIN s.sources :
          LET d == s.sources[i]
          IN /\ ValidName(d.name)
             /\ d.kind \in {"static", "http", "event", "idp_group"}
             /\ d.onError \in {"", "deny", "allow"}
             /\ TypeValid(d.returns)
             /\ IsInjective(NamesIn(d.params))
             /\ \A q \in ToSet(d.params) : ValidName(q.name) /\ TypeValid(q.type)

Untyped == [list |-> FALSE, of |-> ""]

(* The type of an operand, or Untyped when it has a diagnostic. An         *)
(* argument may not itself be a call.                                      *)
argumentType(s, p, o) ==
    CASE o.opd = "field" ->
            IF \/ o.role \notin Roles \/ ~Bound(p, o.role) \/ ~Named(s.entities, EntityFor(p, o.role))
               \/ ~Named(Find(s.entities, EntityFor(p, o.role)).attributes, o.attr)
            THEN Untyped
            ELSE LET t == Find(Find(s.entities, EntityFor(p, o.role)).attributes, o.attr).type
                 IN IF TypeValid(t) THEN t ELSE Untyped
      [] o.opd = "literal" -> IF TypeValid(o.type) /\ checkLiteralData(o) THEN o.type ELSE Untyped
      [] OTHER -> Untyped

operandType(s, p, o) ==
    IF o.opd # "source" THEN argumentType(s, p, o)
    ELSE IF /\ Named(s.sources, o.name)
            /\ LET d == Find(s.sources, o.name)
               IN /\ Len(o.args) = Len(d.params)
                  /\ \A i \in DOMAIN o.args : argumentType(s, p, o.args[i]) = d.params[i].type
                  /\ TypeValid(d.returns)
         THEN Find(s.sources, o.name).returns
         ELSE Untyped

RECURSIVE conditionValid(_, _, _)
conditionValid(s, p, n) ==
    CASE n.node = "logic" ->
            /\ n.op \in {"all", "any", "not"}
            /\ n.operands # <<>>
            /\ n.op = "not" => Len(n.operands) = 1
            /\ \A i \in DOMAIN n.operands : conditionValid(s, p, n.operands[i])
      [] n.node = "compare" ->
            LET left == operandType(s, p, n.left)
            IN /\ n.op \in {"eq", "ne", "lt", "le", "gt", "ge"}
               /\ left # Untyped
               /\ left = operandType(s, p, n.right)
               /\ n.op \notin {"eq", "ne"} => IsOrdered(left)
      [] n.node = "member" ->
            LET left == operandType(s, p, n.left)
                coll == operandType(s, p, n.coll)
            IN left # Untyped /\ coll.list /\ Scalar(coll.of) = left

(* threshold 0 asks for no quorum of the set.                              *)
approverSetValid(s, p, a, threshold) ==
    LET modes == {m \in {"members", "claim", "source"} :
                     \/ m = "members" /\ a.members # <<>>
                     \/ m = "claim" /\ a.claim # ""
                     \/ m = "source" /\ ~IsNil(a.source)}
    IN /\ Cardinality(modes) = 1
       /\ "members" \in modes =>
             /\ \A i \in DOMAIN a.members : a.members[i] # ""
             /\ IsInjective(a.members)
             /\ threshold > 0 => Cardinality(ToSet(a.members)) >= threshold
       /\ "source" \in modes =>
             /\ a.source.name # ""
             /\ operandType(s, p, a.source) = ListOf("string")
             /\ Find(s.sources, a.source.name).kind = "idp_group"

challengeValid(s, p, c) ==
    CASE c.ch = "quorum" -> c.threshold >= 1 /\ approverSetValid(s, p, c.approvers, c.threshold)
      [] c.ch = "mfa" ->
            /\ c.mode = "delegated"          \* "direct" is defined and not supported
            /\ IsInjective(c.acr)
            /\ "" \notin ToSet(c.acr)
      [] c.ch = "delay" ->
            /\ c.duration > 0
            /\ IsNil(c.cancel) \/ approverSetValid(s, p, c.cancel, 0)
      [] c.ch = "external" -> ValidName(c.target)
      [] OTHER -> FALSE

policyValid(s, p) ==
    /\ ValidName(p.id)
    /\ \A role \in {"subject", "resource"} : Bound(p, role)
    /\ \A role \in Roles : Bound(p, role) => Named(s.entities, EntityFor(p, role))
    /\ p.actions # <<>>
    /\ IsInjective(p.actions)
    /\ \A i \in DOMAIN p.actions : p.actions[i] \in ToSet(s.actions)
    /\ \A i \in DOMAIN p.challenges : challengeValid(s, p, p.challenges[i])
    /\ IsNil(p.condition) \/ /\ Depth(p.condition) <= MaxConditionDepth
                             /\ Count(p.condition) <= MaxConditionNodes
                             /\ conditionValid(s, p, p.condition)

(* Compile agrees with the static checks: the second gate of Validate.     *)
validateStatic(set) ==
    /\ schemaValid(set.schema)
    /\ Len(set.policies) <= MaxPolicies
    /\ IsInjective(IdsIn(set.policies))
    /\ \A i \in DOMAIN set.policies : policyValid(set.schema, set.policies[i])

---------------------------------------------------------------------------
(* The expression cel-go is given. The checker's environment declares one  *)
(* variable per attribute of a bound entity and one function per source.   *)
CELEnv(s, p) ==
    [vars |-> UNION {{[name |-> <<role, a.name>>, type |-> a.type] :
                         a \in ToSet(Find(s.entities, EntityFor(p, role)).attributes)} :
                     role \in {r \in Roles : Bound(p, r)}},
     funs |-> {[name |-> d.name, params |-> [i \in DOMAIN d.params |-> d.params[i].type],
                returns |-> d.returns] : d \in ToSet(s.sources)}]

Call(fn, args) == [e |-> "call", fn |-> fn, args |-> args]

RECURSIVE fold(_, _)
fold(operands, fn) ==
    LET mid == Len(operands) \div 2
    IN IF Len(operands) = 1 THEN operands[1]
       ELSE Call(fn, <<fold(SubSeq(operands, 1, mid), fn),
                       fold(SubSeq(operands, mid + 1, Len(operands)), fn)>>)

celLiteral(l) == [e |-> "const", type |-> l.type, data |-> l.data]

celArgument(o) == IF o.opd = "field" THEN [e |-> "select", name |-> <<o.role, o.attr>>] ELSE celLiteral(o)

celOperand(o) ==
    IF o.opd = "source" THEN Call(o.name, [i \in DOMAIN o.args |-> celArgument(o.args[i])])
    ELSE celArgument(o)

celLogic(op, operands) ==
    CASE op = "not" -> Call("not", operands)
      [] op = "all" -> fold(operands, "and")
      [] op = "any" -> fold(operands, "or")

RECURSIVE celNode(_)
celNode(n) ==
    CASE n.node = "logic" -> celLogic(n.op, [i \in DOMAIN n.operands |-> celNode(n.operands[i])])
      [] n.node = "compare" -> Call(n.op, <<celOperand(n.left), celOperand(n.right)>>)
      [] n.node = "member" ->
            LET in == Call("in", <<celOperand(n.left), celOperand(n.coll)>>)
            IN IF n.negate THEN Call("not", <<in>>) ELSE in

True == [e |-> "const", type |-> Scalar("bool"), data |-> <<[is |-> "bool", txt |-> "bool", v |-> 1]>>]

(* cel-go's checker: the type of an expression, Untyped when it has none.  *)
RECURSIVE celCheck(_, _)
celCheck(env, x) ==
    CASE x.e = "const" -> x.type
      [] x.e = "select" ->
            IF \E w \in env.vars : w.name = x.name
            THEN (CHOOSE w \in env.vars : w.name = x.name).type ELSE Untyped
      [] OTHER ->
            LET types == [i \in DOMAIN x.args |-> celCheck(env, x.args[i])]
                bools == \A i \in DOMAIN types : types[i] = Scalar("bool")
            IN IF \/ x.fn \in {"and", "or", "not"} /\ bools
                  \/ x.fn \in {"eq", "ne"} /\ types[1] = types[2] /\ types[1] # Untyped
                  \/ x.fn \in {"lt", "le", "gt", "ge"} /\ types[1] = types[2]
                        /\ ~types[1].list /\ types[1] # Untyped
                  \/ x.fn = "in" /\ types[2] = ListOf(types[1].of) /\ ~types[1].list
               THEN Scalar("bool")
               ELSE IF \E f \in env.funs : f.name = x.fn /\ f.params = types
               THEN (CHOOSE f \in env.funs : f.name = x.fn /\ f.params = types).returns
               ELSE Untyped

(* The checked condition, None when cel-go rejects it.                     *)
Compile(s, p) ==
    LET x == IF IsNil(p.condition) THEN True ELSE celNode(p.condition)
    IN IF \E role \in Roles : Bound(p, role) /\ ~Named(s.entities, EntityFor(p, role)) THEN None
       ELSE IF celCheck(CELEnv(s, p), x) = Scalar("bool") THEN x ELSE None

ValidateWithLimits(set) ==
    /\ validateStatic(set)
    /\ \A i \in DOMAIN set.policies : ~IsNil(Compile(set.schema, set.policies[i]))
=============================================================================
