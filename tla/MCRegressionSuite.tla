-------------------------- MODULE MCRegressionSuite --------------------------
(***************************************************************************)
(* Jobs of one and two cases that use every kind of rule and every gate,   *)
(* some with a rule that must be refused, costs and gates that rounding    *)
(* moves across each other, and results on both sides of each bound on a   *)
(* result.                                                                 *)
(***************************************************************************)
EXTENDS RegressionSuite, TLC

MCSizeOf == ("" :> 0) @@ ("a" :> 1) @@ ("x" :> 1) @@ ("long" :> 4)
MCIndexOf == ("0" :> 0) @@ ("1" :> 1)
MCDigits == {"0", "1", "superscript"}

\* A tie goes to the even neighbour.
MCTieDown(a, b) == ((2 * a + b) \div (2 * b)) % 2 = 1

Rule(type) == [type |-> type, path |-> None, schema |-> None, max_ms |-> None,
               operator |-> None, value |-> None]
NonEmpty == [Rule("non_empty") EXCEPT !.path = <<"a">>]
Schema == [Rule("json_schema") EXCEPT !.path = <<"a">>, !.schema = {"text", "null"}]
Latency(ms) == [Rule("latency_budget") EXCEPT !.max_ms = ms]
Check(path, operator, value) ==
    [Rule("rule") EXCEPT !.path = path, !.operator = operator, !.value = value]

Request(cases, baseline, candidate, quality, latency, cost) ==
    [cases |-> cases, cost |-> [baseline |-> baseline, candidate |-> candidate],
     gates |-> [quality |-> quality, latency |-> latency, cost |-> cost]]

Thousandths(num, den) == [num |-> num, den |-> den]
Whole(n) == Thousandths(1000 * n, 1)

One(rule) == Request(<< <<rule>> >>, 0, 0, Whole(0), None, None)
Costs(baseline, candidate, gate) ==
    Request(<< <<Latency(3)>> >>, baseline, candidate, Whole(0), None, gate)

MCJobs == {
    Request(<< <<NonEmpty>>, <<Check(<<"a", "0">>, "exists", None), Latency(2)>> >>,
            0, 0, Whole(50), Whole(100), None),
    Request(<< <<NonEmpty>>, <<NonEmpty>> >>, 2, 3, Whole(0), None, Whole(50)),
    Request(<< <<Latency(0)>> >>, 0, 1, Whole(0), Whole(50), Whole(0)),
    One(Schema), One(Check(<<"a">>, "equals", Text("x"))),
    One(Check(<<"a">>, "not_equals", None)), One(Check(<<"a">>, "includes", Text("x"))),
    One(Check(<<"a">>, "contains", Text("x"))), One(Check(Wrong, "exists", None)),
    One(Latency(-1)), One(Rule("json_schema")), One(Check(<<"a", "0", "0">>, "exists", None)),
    One(Check(<<"a", "superscript">>, "exists", None)),
    Costs(250000, 250001, Whole(0)), Costs(200000, 200001, Whole(0)),
    Costs(500000, 500003, Thousandths(7, 10))}

MCServers == {[maxCases |-> 2, budget |-> 4], [maxCases |-> 2, budget |-> 3],
              [maxCases |-> 1, budget |-> 4]}

MCPayloads == {
    Object("a" :> List(<<Text("x")>>)),
    Object("a" :> Text("x")),
    Object("a" :> [t |-> "null"]),
    Object("a" :> List(<<List(<<Text("")>>)>>)),
    Object("a" :> List(<<Text(""), Text(""), Text("")>>)),
    Object("a" :> Text("long")),
    Object("a" :> Text("unencodable")),
    Object("unencodable" :> Text("x")),
    Object("a" :> Number(TRUE)),
    Object("a" :> Number(FALSE))}
=============================================================================
