---------------------------- MODULE MCReplayRetry ----------------------------
(***************************************************************************)
(* ReplayRetry with events 1..5; an event that arrives later may carry an  *)
(* earlier event_time than those already stored.                           *)
(***************************************************************************)
EXTENDS ReplayRetry

SomeEvents == 1 .. 5
SomeTimes  == [e \in SomeEvents |-> IF e = 5 THEN 4 ELSE e]
Stored     == {1, 3, 4}       \* 2 and 5 arrive later, 2 into the middle
=============================================================================
