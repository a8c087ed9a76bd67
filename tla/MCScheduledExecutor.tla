------------------------- MODULE MCScheduledExecutor -------------------------
(* Bounded instances of the scheduled executor.                                 *)
EXTENDS ScheduledExecutor

CONSTANTS a, b, c, d

(* Three pools with different removal periods, and a one-time task.             *)
Periods == [t \in Tasks |-> CASE t = a -> 1 [] t = b -> 3 [] t = c -> 2 [] OTHER -> 0]
=============================================================================
