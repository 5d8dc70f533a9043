-------------------------------- MODULE MCHost --------------------------------
(* Parts of the controller towards the server and the PC that share no      *)
(* state, on small instances: the stream of the server, the configuration   *)
(* line in and out, the settings and the firmware files in flash. A         *)
(* behaviour runs one of them.                                              *)
EXTENDS TcpReceive, UartLine, LineSend, UserFlash, FileSlots

VARIABLE part

MCPayloads == {<<1>>, <<5>>}
MCRequests ==
  {[file |-> FALSE, data |-> <<>>], [file |-> FALSE, data |-> <<2>>], [file |-> TRUE, data |-> <<7>>]}
MCFileSize == <<12, 8, 7>>
MCMacAddresses == <<"mac1", "mac2", "mac3">>

HostInit ==
  /\ ReceiveInit /\ LineInit /\ SendInit /\ SettingsInit /\ SlotsInit
  /\ part \in {"receive", "lineIn", "lineOut", "settings", "files"}

HostNext ==
  /\ UNCHANGED part
  /\ \/ /\ part = "receive" /\ ReceiveNext
        /\ UNCHANGED <<lineVars, sendVars, settingsVars, uploadVars>>
     \/ /\ part = "lineIn" /\ LineNext
        /\ UNCHANGED <<receiveVars, sendVars, settingsVars, uploadVars>>
     \/ /\ part = "lineOut" /\ SendNext
        /\ UNCHANGED <<receiveVars, lineVars, settingsVars, uploadVars>>
     \/ /\ part = "settings" /\ SettingsNext
        /\ UNCHANGED <<receiveVars, lineVars, sendVars, uploadVars>>
     \/ /\ part = "files" /\ SlotsNext
        /\ UNCHANGED <<receiveVars, lineVars, sendVars, settingsVars>>

allVars == <<receiveVars, lineVars, sendVars, settingsVars, uploadVars, part>>

HostSpec == HostInit /\ [][HostNext]_allVars

(* Each part is in a state of its types.                                    *)
HostTypeOK ==
  /\ ReceiveTypeOK /\ LineTypeOK /\ SendTypeOK /\ SettingsTypeOK /\ SlotsTypeOK
=============================================================================
