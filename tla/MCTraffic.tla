------------------------------ MODULE MCTraffic ------------------------------
(* The traffic of a unit with the controller: requests of two threads, a    *)
(* long entry and a short one, and a long entry; or reports of a card. A    *)
(* behaviour runs one of the two, which share no state.                     *)
EXTENDS RequestPath, CardReport

CONSTANTS s1, s2

VARIABLE traffic

MCSenders == {s1, s2}
MCPlan == [t \in MCSenders |-> IF t = s1 THEN <<2, 0>> ELSE <<1>>]

TrafficInit == PathInit /\ CardInit /\ traffic \in {"requests", "reports"}

TrafficNext ==
  /\ UNCHANGED traffic
  /\ \/ traffic = "requests" /\ PathNext /\ UNCHANGED cardVars
     \/ traffic = "reports" /\ CardNext /\ UNCHANGED pathVars

TrafficSpec == TrafficInit /\ [][TrafficNext]_<<pathVars, cardVars, traffic>>
=============================================================================
