------------------------------ MODULE MCBoundary ------------------------------
(* The two counters that decide whether the process goes on: the breaker with *)
(* its probe slots, and the work in flight that a drain waits for.  They share *)
(* no variable, so one moves while the other is as it was at the start, where *)
(* none of its fair actions is enabled.                                       *)
EXTENDS GitHubClient, Drain

CONSTANTS k1, k2, k3, comment, close, e1, e2, e3

BoundaryVars == <<vars, drainVars>>
BoundaryInit == Init /\ DrainInit
BoundaryNext ==
  \/ Next /\ DrainInit /\ UNCHANGED drainVars
  \/ DrainNext /\ Init /\ UNCHANGED vars
BoundarySpec ==
  BoundaryInit /\ [][BoundaryNext]_BoundaryVars /\ Fairness /\ DrainFairness

===============================================================================
