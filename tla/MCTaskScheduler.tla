-------------------------- MODULE MCTaskScheduler --------------------------
(***************************************************************************)
(* Two tasks of equal priority and one of higher priority, with the base   *)
(* period, a multiple of it, and one that is no multiple.                  *)
(***************************************************************************)
EXTENDS TaskScheduler

MCPeriod == [t \in Tasks |-> CASE t = "control" -> 2 [] t = "guidance" -> 4 [] OTHER -> 3]
MCPriority == [t \in Tasks |-> IF t = "control" THEN 10 ELSE 1]
=============================================================================
