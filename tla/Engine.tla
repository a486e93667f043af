------------------------------- MODULE Engine -------------------------------
(* Evaluation of one request against a policy set: internal/engine. A Go    *)
(* value is a record type/data, as a literal is; Err is CEL's error value.  *)
(* The facts are a function from the calls that resolve to their values.    *)
EXTENDS Codec

Value(type, data) == [type |-> type, data |-> data]
Err == Value(Untyped, <<>>)
Truth(b) == Value(Scalar("bool"), <<[is |-> "bool", txt |-> "bool", v |-> IF b THEN 1 ELSE 0]>>)

coerce(t, value) == value.type = t /\ \A i \in DOMAIN value.data : value.data[i].is = t.of

(* The request's attributes, typed by the schema; none when an entity or   *)
(* an attribute is undeclared or a value is not of its declared type.      *)
bind(s, in) ==
    LET given == {role \in Roles : in[role].type # ""}
        fits(role) == /\ Named(s.entities, in[role].type)
                      /\ LET declared == Find(s.entities, in[role].type).attributes
                         IN \A a \in DOMAIN in[role].attributes :
                              /\ Named(declared, a)
                              /\ coerce(Find(declared, a).type, in[role].attributes[a])
        vars == UNION {{<<role, a>> : a \in DOMAIN in[role].attributes} : role \in given}
    IN IF \A role \in given : fits(role)
       THEN OK([x \in vars |-> in[x[1]].attributes[x[2]]]) ELSE Diagnosed

sourcesOf(o) == IF o.opd = "source" THEN {o} ELSE {}
RECURSIVE collectSources(_)
collectSources(n) ==
    CASE IsNil(n) -> {}
      [] ~IsNil(n) /\ n.node = "logic" -> UNION {collectSources(c) : c \in ToSet(n.operands)}
      [] ~IsNil(n) /\ n.node = "compare" -> sourcesOf(n.left) \union sourcesOf(n.right)
      [] OTHER -> sourcesOf(n.left) \union sourcesOf(n.coll)

operandValue(vars, o) ==
    IF o.opd = "literal" THEN IF coerce(o.type, o) THEN OK(Value(o.type, o.data)) ELSE Diagnosed
    ELSE IF o.opd = "field" /\ <<o.role, o.attr>> \in DOMAIN vars THEN OK(vars[<<o.role, o.attr>>])
    ELSE Diagnosed

(* The calls a condition makes for this request, each once; an argument    *)
(* the request carries no value for fails them all.                        *)
SourceCalls(p, vars) ==
    LET sites == collectSources(p.condition)
        calls(site) == {[name |-> site.name, args |-> args] :
                          args \in Each([i \in DOMAIN site.args |-> operandValue(vars, site.args[i])])}
    IN IF \E site \in sites : Failed(calls(site)) THEN Diagnosed
       ELSE OK(UNION {calls(site) : site \in sites})

---------------------------------------------------------------------------
(* CEL: && and || take the side that decides them, whatever the other is.  *)
Holds(v) == v # Err /\ v.data[1].v = 1
Refutes(v) == v # Err /\ v.data[1].v = 0

conj(a, b) == IF Refutes(a) \/ Refutes(b) THEN Truth(FALSE)
              ELSE IF Holds(a) /\ Holds(b) THEN Truth(TRUE) ELSE Err
disj(a, b) == IF Holds(a) \/ Holds(b) THEN Truth(TRUE)
              ELSE IF Refutes(a) /\ Refutes(b) THEN Truth(FALSE) ELSE Err

(* factCall.lookup: the value the resolver returned, of the declared type. *)
lookup(s, facts, name, args) ==
    LET call == [name |-> name, args |-> args]
    IN IF /\ \A i \in DOMAIN args : args[i] # Err
          /\ call \in DOMAIN facts
          /\ coerce(Find(s.sources, name).returns, facts[call])
       THEN facts[call] ELSE Err

compares(fn, a, b) ==
    CASE fn = "eq" -> a.data = b.data
      [] fn = "ne" -> a.data # b.data
      [] fn = "lt" -> a.data[1].v < b.data[1].v
      [] fn = "le" -> a.data[1].v <= b.data[1].v
      [] fn = "gt" -> a.data[1].v > b.data[1].v
      [] fn = "ge" -> a.data[1].v >= b.data[1].v
      [] fn = "in" -> a.data[1] \in ToSet(b.data)

apply(s, fn, args, facts) ==
    CASE fn = "and" -> conj(args[1], args[2])
      [] fn = "or" -> disj(args[1], args[2])
      [] fn = "not" -> IF args[1] = Err THEN Err ELSE Truth(Refutes(args[1]))
      [] fn \in {"eq", "ne", "lt", "le", "gt", "ge", "in"} ->
            IF args[1] = Err \/ args[2] = Err THEN Err ELSE Truth(compares(fn, args[1], args[2]))
      [] OTHER -> lookup(s, facts, fn, args)

RECURSIVE celEval(_, _, _, _)
celEval(s, x, vars, facts) ==
    CASE x.e = "const" -> Value(x.type, x.data)
      [] x.e = "select" -> IF x.name \in DOMAIN vars THEN vars[x.name] ELSE Err
      [] OTHER -> The({apply(s, x.fn, args, facts) :
                         args \in {[i \in DOMAIN x.args |-> celEval(s, x.args[i], vars, facts)] \o <<>>}})

---------------------------------------------------------------------------
(* core.evaluate. *)
hasAction(p, action) == action \in ToSet(p.actions)
matches(p, in) ==
    hasAction(p, in.action) /\ \A role \in Roles : Bound(p, role) => in[role].type = EntityFor(p, role)

(* A resolver answers every call or fails.                                 *)
resolve(calls, facts) == calls \subseteq DOMAIN facts

Unmatched == [matched |-> FALSE, err |-> FALSE, applicable |-> <<>>]
Refused == [matched |-> TRUE, err |-> TRUE, applicable |-> <<>>]

(* A candidate's result: Err when it does not compile, when a call it      *)
(* makes is not answered, or when CEL says so.                             *)
Evaluated(set, p, vars, facts) ==
    LET calls == SourceCalls(p, vars)
        program == Compile(set.schema, p)
    IN IF IsNil(program) \/ Failed(calls) THEN Err
       ELSE IF resolve(The(calls), facts) THEN celEval(set.schema, program, vars, facts) ELSE Err

(* Any candidate in error refuses the request.                             *)
outcome(entries, results) ==
    LET holding == SelectSeq([i \in DOMAIN entries |-> i], LAMBDA i : Holds(results[i]))
    IN IF \E i \in DOMAIN results : results[i] = Err THEN Refused
       ELSE [matched |-> TRUE, err |-> FALSE, applicable |-> [k \in DOMAIN holding |-> entries[holding[k]]] \o <<>>]

evaluate(set, in, facts) ==
    LET entries == SelectSeq(set.policies, LAMBDA p : matches(p, in))
        outcomes == {outcome(entries, results) : results \in
                       UNION {{[i \in DOMAIN entries |-> Evaluated(set, entries[i], vars, facts)] \o <<>>} :
                                vars \in bind(set.schema, in)}}
    IN IF entries = <<>> THEN Unmatched
       ELSE IF Failed(bind(set.schema, in)) THEN Refused ELSE The(outcomes)

Classify(p) == IF RequiresDecision(p) THEN "gated" ELSE "checkable"
Gates(applicable) == SelectSeq(applicable, LAMBDA p : Classify(p) = "gated")

verdict(r, gated) ==
    CASE r.err -> "error"
      [] ~r.err /\ ~r.matched -> "no_matching_policy"
      [] ~r.err /\ r.matched /\ Gates(r.applicable) # <<>> -> gated
      [] ~r.err /\ r.matched /\ r.applicable = <<>> -> "condition_not_met"
      [] OTHER -> "allow"

(* The check plane answers a gated request with a deny and its reason.     *)
CheckEvaluate(set, in, facts) ==
    The({verdict(r, "requires_decision") : r \in {evaluate(set, in, facts)}})

(* The decide plane: every applicable gate contributes its challenges.     *)
DecideEvaluate(set, in, facts) ==
    The({[verdict |-> verdict(r, "challenge"),
          challenges |-> FlattenSeq([i \in DOMAIN Gates(r.applicable) |-> Gates(r.applicable)[i].challenges])] :
           r \in {evaluate(set, in, facts)}})
=============================================================================
