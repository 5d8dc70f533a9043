--------------------------- MODULE MCFirmwareUpdate ---------------------------
(* The update of two units, or the transfers of the bridge to one: a        *)
(* behaviour runs one of the two. Nothing of the other is enabled in the    *)
(* initial states, so its fairness asks for nothing.                        *)
EXTENDS FirmwareUpdate, SdoClient

CONSTANTS u1, u2

VARIABLE level

MCUnits == {u1, u2}

BridgeInit ==
  /\ Init /\ SdoInit
  /\ level \in {"commands", "transfers"}
  /\ level = "commands" \/ flash = [u \in Units |-> Blank]

BridgeNext ==
  /\ UNCHANGED level
  /\ \/ level = "commands" /\ Next /\ UNCHANGED sdoVars
     \/ level = "transfers" /\ SdoNext /\ UNCHANGED vars

BridgeSpec ==
  BridgeInit /\ [][BridgeNext]_<<vars, sdoVars, level>> /\ Fairness /\ SdoFairness
=============================================================================
