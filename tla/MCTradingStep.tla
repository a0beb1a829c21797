---------------------------- MODULE MCTradingStep ----------------------------
(* Values of the constants of TradingStep for model checking.               *)
EXTENDS TradingStep

CONSTANTS A, s1

SameTarget == [st \in Strategies |-> {A}]
Hours == [st \in Strategies |-> [from |-> 1, to |-> 9]]
TwoDays == {[from |-> 0, to |-> 5], [from |-> 6, to |-> 9], [from |-> 10, to |-> 19]}
=============================================================================
