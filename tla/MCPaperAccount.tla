--------------------------- MODULE MCPaperAccount ---------------------------
(* Values of the constants of PaperAccount for model checking.              *)
EXTENDS PaperOwnership, TLC

CONSTANTS s1, r1, r2, A

\* One strategy that trades A; the engine's own settings trade everything.
OneTarget == (s1 :> {A}) @@ (Default :> {})

\* Seeds: cash, and shares of A held before the account was copied.
OwnershipSeeds == {[cash |-> 4, positions |-> A :> 1]}
LedgerSeeds == {[cash |-> 3, positions |-> A :> 0]}
=============================================================================
