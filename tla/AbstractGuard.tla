---------------------------- MODULE AbstractGuard ----------------------------
(***************************************************************************)
(* What the user of a service guard is promised: between start() and the   *)
(* return of stop() there is at most one service process, and none outside *)
(* of that.  How the service is watched, restarted and told to go is left  *)
(* to the guard.                                                           *)
(***************************************************************************)
CONSTANT Service      \* the processes that can be the service

VARIABLES
  phase,              \* "idle", "guarding" (started), "stopping" (in stop())
  services            \* the service processes that run

Init == phase = "idle" /\ services = {}

Launch ==
  /\ phase = "idle"
  /\ phase' = "guarding"
  /\ UNCHANGED services

\* The service comes up, first or again.  A stop() that is under way may still
\* see it come up: the guard has to take it down again before stop() returns.
ComeUp ==
  /\ phase # "idle"
  /\ services = {}
  /\ \E p \in Service : services' = {p}
  /\ UNCHANGED phase

GoDown ==
  /\ services # {}
  /\ services' = {}
  /\ UNCHANGED phase

RequestStop ==
  /\ phase # "stopping"
  /\ phase' = "stopping"
  /\ UNCHANGED services

Stopped ==
  /\ phase = "stopping"
  /\ services = {}
  /\ phase' = "idle"
  /\ UNCHANGED services

Next == Launch \/ ComeUp \/ GoDown \/ RequestStop \/ Stopped

Spec == Init /\ [][Next]_<<phase, services>>
=============================================================================
