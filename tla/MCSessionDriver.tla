-------------------------- MODULE MCSessionDriver --------------------------
(* Instances of SessionDriver for TLC.                                       *)
EXTENDS SessionDriver

\* The only intents the repository registers: retries (headless_runtime.rs).
RetryIntents == {[class |-> "continue", yields |-> TRUE]}
=============================================================================
