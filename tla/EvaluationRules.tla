--------------------------- MODULE EvaluationRules ---------------------------
(***************************************************************************)
(* evaluation/safety.py and evaluation/engine.py: which rules are accepted,*)
(* which results are small enough to look at, and what the rules say of a  *)
(* result.  A JSON value is [t |-> "null"], a text, a number, a list or an *)
(* object; a path is the sequence of its parts, an absent field is None    *)
(* and a field of the wrong type is Wrong.                                 *)
(***************************************************************************)
EXTENDS Integers, Sequences, SequencesExt, FiniteSetsExt

CONSTANTS
    None, Wrong,
    MaxNodes,    \* 10,000 for results
    MaxDepth,    \* 16
    MaxSize,     \* 65,536 bytes of text
    MaxParts,    \* 16 parts of a path
    MaxRules,    \* 16 rules
    MaxBudget,   \* 86,400,000 ms
    SizeOf,      \* bytes of a text that UTF-8 can encode
    Digits,      \* parts of a path that are digits to isdigit, ten at most
    IndexOf      \* the number such a part writes, if int can read it

\* An absent field and one of the wrong type are no number.
ASSUME AbsentAssumption ==
    /\ None \notin 0..MaxBudget
    /\ Wrong \notin 0..MaxBudget

Text(s) == [t |-> "text", s |-> s]
Number(finite) == [t |-> "number", finite |-> finite]
List(v) == [t |-> "list", v |-> v]
Object(f) == [t |-> "object", f |-> f]
-----------------------------------------------------------------------------
(* bounded_value: a stack of values to look at, with their depth.          *)

Children(v) ==
    CASE v.t = "list" -> v.v
      [] v.t = "object" -> LET keys == SetToSeq(DOMAIN v.f)
                           IN [i \in DOMAIN keys |-> v.f[keys[i]]]
      [] OTHER -> <<>>

\* No text or key that UTF-8 cannot encode, and no number that is not finite.
Readable(v) ==
    CASE v.t = "text" -> v.s \in DOMAIN SizeOf
      [] v.t = "object" -> DOMAIN v.f \subseteq DOMAIN SizeOf
      [] v.t = "number" -> v.finite
      [] OTHER -> TRUE

OwnSize(v) ==
    CASE v.t = "text" /\ Readable(v) -> SizeOf[v.s]
      [] v.t = "object" /\ Readable(v) -> MapThenSumSet(LAMBDA k : SizeOf[k], DOMAIN v.f)
      [] OTHER -> 0

\* One turn of the loop; ok stands for not having raised.
Look(at) ==
    LET item == Last(at.pending).value
        depth == Last(at.pending).depth
        below == [i \in DOMAIN Children(item) |->
                     [value |-> Children(item)[i], depth |-> depth + 1]]
        rest == Front(at.pending) \o below
        size == at.size + OwnSize(item)
    IN [pending |-> rest, nodes |-> at.nodes + 1, size |-> size,
        ok |-> /\ at.nodes + 1 <= MaxNodes /\ depth <= MaxDepth
               /\ Len(Children(item)) <= MaxNodes /\ Readable(item)
               /\ size <= MaxSize /\ Len(rest) <= MaxNodes]

\* The loop: it raises in turn MaxNodes + 1 if it gets there.
Traverse(v, depth) ==
    LET start == [pending |-> <<[value |-> v, depth |-> depth]>>, nodes |-> 0, size |-> 0, ok |-> TRUE]
        after[n \in 0..(MaxNodes + 1)] ==
            IF n = 0 THEN start
            ELSE LET at == after[n - 1]
                 IN IF at.ok /\ at.pending # <<>> THEN Look(at) ELSE at
    IN after[MaxNodes + 1].ok

BoundedFromOne(v) == Traverse(v, 1)

Bounded(v) == Traverse(v, 0)

\* The same bounds, counted level by level: level[d + 1] holds the values at
\* depth d.
WithinBounds(v) ==
    LET level[d \in 1..(MaxDepth + 2)] ==
            IF d = 1 THEN <<v>>
            ELSE LET above == level[d - 1]
                 IN FlattenSeq([i \in DOMAIN above |-> Children(above[i])])
        values == FlattenSeq(level)
    IN /\ level[MaxDepth + 2] = <<>>
       /\ Len(values) <= MaxNodes
       /\ \A i \in DOMAIN values : Readable(values[i])
       /\ FoldSeq(LAMBDA x, sum : sum + OwnSize(x), 0, values) <= MaxSize
-----------------------------------------------------------------------------
(* validate_rules                                                          *)

Operators == {"exists", "equals", "not_equals", "contains"}
Fields == {"path", "schema", "max_ms", "operator", "value"}
Allowed == [non_empty |-> {"path"}, json_schema |-> {"path", "schema"},
            latency_budget |-> {"max_ms"}, rule |-> {"path", "operator", "value"}]

PathOf(rule) == IF rule.path = None THEN <<>> ELSE rule.path
Expected(rule) == IF rule.value = None THEN [t |-> "null"] ELSE rule.value

ValidRule(rule) ==
    /\ rule.type \in DOMAIN Allowed
    /\ {f \in Fields : rule[f] # None} \subseteq Allowed[rule.type]
    /\ PathOf(rule) # Wrong /\ Len(PathOf(rule)) <= MaxParts
    /\ rule.type = "json_schema" => rule.schema \notin {None, Wrong}
    /\ rule.type = "rule" => rule.operator \in Operators
    /\ rule.type = "latency_budget" => rule.max_ms \in 0..MaxBudget

ValidateRules(rules) == Len(rules) \in 1..MaxRules /\ \A i \in DOMAIN rules : ValidRule(rules[i])
-----------------------------------------------------------------------------
(* evaluate_rules                                                          *)

Found(value) == [found |-> TRUE, misread |-> FALSE, value |-> value]
NotFound(misread) == [found |-> FALSE, misread |-> misread, value |-> [t |-> "null"]]

\* One step of _value_at_path; int raises for digits that are no decimals.
Descend(here, part) ==
    CASE ~here.found -> here
      [] here.found /\ here.value.t = "object" /\ part \in DOMAIN here.value.f ->
            Found(here.value.f[part])
      [] here.found /\ here.value.t = "list" /\ part \in Digits ->
            CASE part \notin DOMAIN IndexOf -> NotFound(TRUE)
              [] part \in DOMAIN IndexOf /\ IndexOf[part] < Len(here.value.v) ->
                    Found(here.value.v[IndexOf[part] + 1])
              [] OTHER -> NotFound(FALSE)
      [] OTHER -> NotFound(FALSE)

ValueAtPath(payload, path) == FoldLeft(Descend, Found(payload), path)

\* The path of a rule makes int raise ValueError.
Misreads(rule, payload) ==
    rule.type # "latency_budget" /\ ValueAtPath(payload, PathOf(rule)).misread

\* No text of the instance is blank but the empty one.
IsNonEmpty(v) ==
    CASE v.t = "null" -> FALSE
      [] v.t = "text" -> SizeOf[v.s] > 0
      [] v.t \in {"list", "object"} -> Len(Children(v)) > 0
      [] OTHER -> TRUE

\* `in`: an element of a list, a key of an object, a part of a text.
Includes(v, expected) ==
    \/ v.t = "list" /\ \E i \in DOMAIN v.v : v.v[i] = expected
    \/ /\ expected.t = "text"
       /\ \/ v.t = "object" /\ expected.s \in DOMAIN v.f
          \/ v.t = "text" /\ (expected.s = v.s \/ SizeOf[expected.s] = 0)

\* What makes _evaluate_rule raise EvaluationConfigurationError.
Raises(rule) ==
    \/ rule.type \notin DOMAIN Allowed
    \/ PathOf(rule) = Wrong
    \/ rule.type = "json_schema" /\ rule.schema \in {None, Wrong}
    \/ rule.type = "latency_budget" /\ (rule.max_ms \in {None, Wrong} \/ rule.max_ms < 0)
    \/ rule.type = "rule" /\ rule.operator \notin Operators

\* A schema is the set of types it admits (Draft202012Validator, external).
Holds(rule, payload, latency) ==
    LET at == ValueAtPath(payload, PathOf(rule)) IN
    CASE rule.type = "non_empty" -> at.found /\ IsNonEmpty(at.value)
      [] rule.type = "json_schema" -> at.found /\ at.value.t \in rule.schema
      [] rule.type = "latency_budget" -> latency <= rule.max_ms
      [] rule.type = "rule" ->
            CASE rule.operator = "exists" -> at.found
              [] rule.operator = "equals" -> at.found /\ at.value = Expected(rule)
              [] rule.operator = "not_equals" -> at.found /\ at.value # Expected(rule)
              [] rule.operator = "contains" -> at.found /\ Includes(at.value, Expected(rule))

EvaluateRules(rules, payload, latency) ==
    IF ~ValidateRules(rules) \/ ~Bounded(payload) \/ \E i \in DOMAIN rules : Raises(rules[i])
    THEN "configuration"
    ELSE IF \E i \in DOMAIN rules : Misreads(rules[i], payload) THEN "index"
    ELSE IF \A i \in DOMAIN rules : Holds(rules[i], payload, latency) THEN "passed" ELSE "failed"
=============================================================================
