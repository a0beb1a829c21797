------------------------------ MODULE MCTransport ------------------------------
(* Values of the constants of Transport for model checking.                 *)
EXTENDS Transport, TLC

CONSTANTS c1, c2

Order == [group |-> "ORDER", get |-> FALSE, budget |-> 0]
Candles == [group |-> "CHART", get |-> TRUE, budget |-> 2]
Prices == [group |-> "PRICES", get |-> TRUE, budget |-> 0]
Both(p, q) == (c1 :> p) @@ (c2 :> q)

\* An order beside a maintenance read of candles with a budget, two such reads,
\* and two reads of prices without one.
SomeMixes == {Both(Order, Candles), Both(Candles, Candles), Both(Prices, Prices)}
===============================================================================
