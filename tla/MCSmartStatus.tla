---------------------------- MODULE MCSmartStatus ----------------------------
(* SmartStatus with bounded instances for TLC. *)
EXTENDS SmartStatus

\* No room, room for the table alone, for one line of it, for several.
MCHeights == {0, 1, 2, 9}

\* No table, one that fits tall terminals only, and a value below zero.
MCRequests == {-1, 0, 3}
=============================================================================
