---------------------------- MODULE MCEventHistory ----------------------------
(* A small instance of EventHistory for TLC. *)
EXTENDS EventHistory

\* Limits below, at and above zero, the capacity and the number of events.
SomeLimits == {-1, 0, 1, 2, 3, 4}
==============================================================================
