-------------------------- MODULE MCEngineLifecycle --------------------------
(* Values of the constants of EngineLifecycle for model checking.           *)
EXTENDS EngineLifecycle

CONSTANTS w1, w2, w3, r1, r2
=============================================================================
