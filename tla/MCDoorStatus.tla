----------------------------- MODULE MCDoorStatus -----------------------------
(* DoorStatus with two units.                                              *)
EXTENDS DoorStatus

CONSTANTS
  u1, u2,
  MaxDisturbances   \* bound: starts of units and moves of doors together

MCUnits == {u1, u2}
MCNone == {}

(* The bound stops only what no fairness is assumed of.                    *)
LimitedSpec ==
  /\ Init
  /\ [][Next /\ starts'.unit + starts'.moves <= MaxDisturbances]_vars
  /\ Fairness
=============================================================================
