--------------------------- MODULE MCPolicyRules ----------------------------
(***************************************************************************)
(* Instances of PolicyRules for TLC: requests that vary the numbers, and   *)
(* requests that vary the routing, under three configurations.             *)
(***************************************************************************)
EXTENDS PolicyRules

Plain == [max_attempts |-> None, attempt_timeout |-> None, initial_backoff |-> None,
          max_backoff |-> None, strategy |-> None, candidates |-> None,
          provider_order |-> <<"openai", "deterministic">>]

NumericRequests ==
    {[Plain EXCEPT !.max_attempts = n, !.attempt_timeout = t, !.initial_backoff = i,
                   !.max_backoff = m] :
        n \in {None, 1, 5}, t \in {None, 3, 20}, i \in {None, 1, 4}, m \in {None, 1, 2, 9}}

RoutingRequests ==
    {[Plain EXCEPT !.strategy = g, !.candidates = c, !.provider_order = o] :
        g \in {None, "lowest_latency", "lowest_cost", "quality_first"},
        c \in {None, <<"openai">>, <<"deterministic", "openai">>, <<"openai", "openai">>},
        o \in {None, <<"openai", "deterministic">>}}

MCRequests == NumericRequests \cup RoutingRequests

\* DEFAULT_PROVIDER_CATALOG
CatalogV1 ==
    [deterministic |-> [latency |-> 5, cost |-> 0, passRate |-> 800, availability |-> 1000,
                        name |-> 1],
     openai |-> [latency |-> 800, cost |-> 1500, passRate |-> 960, availability |-> 995,
                 name |-> 2]]

\* A later catalogue, in which one provider is better in every respect.
CatalogV2 ==
    [deterministic |-> [latency |-> 900, cost |-> 1500, passRate |-> 800, availability |-> 990,
                        name |-> 1],
     openai |-> [latency |-> 700, cost |-> 1500, passRate |-> 960, availability |-> 995,
                 name |-> 2]]

MCServers ==
    {[max_attempts |-> 4, attempt_timeout |-> 9, base_delay |-> 1, max_backoff |-> 6,
      lease |-> 10, available |-> {"deterministic", "openai"}, catalog |-> CatalogV1],
     [max_attempts |-> 2, attempt_timeout |-> 9, base_delay |-> 3, max_backoff |-> 3,
      lease |-> 5, available |-> {"deterministic", "openai"}, catalog |-> CatalogV2],
     [max_attempts |-> 3, attempt_timeout |-> 4, base_delay |-> 2, max_backoff |-> 5,
      lease |-> 8, available |-> {"deterministic"}, catalog |-> CatalogV1]}
=============================================================================
