------------------------- MODULE MCControlSession -------------------------
(* Sessions of two or three requests, one workload per group of requests   *)
(* that can meet: what shares the alias table, what shares a subscription, *)
(* what shares a namespace, and what a dropped send can disturb.           *)
EXTENDS ControlSession, TLC

Both == {"client", "server"}

Workload(by, asks, budget, ceilings, draining, drops) ==
  [by |-> by, asks |-> asks, budget |-> budget, ceilings |-> ceilings,
   goaway |-> draining, drops |-> drops]

MCWorkloads ==
  { Workload(Both,       {"subscribe", "publish"},        2, {4},    {"server"}, 0),
    Workload({"client"}, {"subscribe", "update", "join"}, 2, {4},    {"client"}, 0),
    Workload({"server"}, {"subscribe", "fetch"},          2, {4},    {},         0),
    Workload(Both,       {"subscribe_namespace"},         3, {4},    {},         0),
    Workload({"client"}, {"publish_namespace"},           2, {4},    {"client"}, 0),
    Workload({"client"}, {"track_status"},                2, {2, 4}, Both,       0),
    Workload({"server"}, {"subscribe", "update"},         2, {4},    {},         1) }

MCIds        == 0..3
MCNamespaces == {<<1>>, <<1, 2>>}

Symmetric == Permutations(Tracks) \union Permutations(Aliases)
=============================================================================
