------------------------- MODULE MCSupervisorService -------------------------
(* SupervisorService with the threads that call it.                        *)
EXTENDS SupervisorService, TLC

CONSTANTS main, quit

\* The instance manager: the main thread starts, tells of prefixes it has created
\* or deletes, and restarts a deaf compositor; the block of
\* applicationShouldTerminate: stops.
AppCalls ==
  main :> {"start", "created", "deleted", "restart"} @@ quit :> {"stop"}
=============================================================================
