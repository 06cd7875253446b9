-------------------------- MODULE MCPendingMessage --------------------------
(* Instances of PendingMessage for TLC.                                      *)
EXTENDS PendingMessage

CONSTANTS m1, m2

TwoQueued == <<m1, m2>>
NoneQueued == <<>>
=============================================================================
