----------------------------- MODULE OneDriver -----------------------------
(***************************************************************************)
(* What the drive lease promises the rest of Fleet about one session: at   *)
(* any time at most one of the drivers has a turn on it.                   *)
(***************************************************************************)
CONSTANT Drivers
VARIABLE driving   \* the drivers that have a turn now

Init == driving = {}

\* A turn is granted: the session was free.
Begin(a) == driving = {} /\ driving' = {a}

\* The turn is over: its process is gone, or it never started.
End(a) == driving = {a} /\ driving' = {}

Next == \E a \in Drivers : Begin(a) \/ End(a)

Spec == Init /\ [][Next]_driving
=============================================================================
