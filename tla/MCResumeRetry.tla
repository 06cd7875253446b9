-------------------------- MODULE MCResumeRetry ---------------------------
(* Instances of ResumeRetry for TLC.                                         *)
EXTENDS ResumeRetry

RetryIntents == {[class |-> "continue", yields |-> TRUE]}
=============================================================================
