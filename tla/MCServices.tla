----------------------------- MODULE MCServices -----------------------------
(* A small instance of the parts that must come to an end. *)
EXTENDS Services

\* Two routes of one provider: the one assigned to the task and the default one.
Route(i, assigned) ==
    [id |-> i, provider |-> "p", active |-> TRUE, role |-> "primary", priority |-> 1, cost |-> i,
     assigned |-> assigned, default |-> ~assigned]
SomeRoutes == {Route(1, TRUE), Route(2, FALSE)}

\* Two hosts, one of them with and without https.
SomeOrigins == {[host |-> "x", secure |-> FALSE], [host |-> "x", secure |-> TRUE],
                [host |-> "y", secure |-> TRUE]}
=============================================================================
