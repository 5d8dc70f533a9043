------------------------------ MODULE UserFlash ------------------------------
(***************************************************************************)
(* The settings of the controller's network in its flash (NetworkConfig.cpp *)
(* with PrepareWriteFlash of System.c): identifier, MAC address, address of *)
(* the server and the LOCALM of the network library. To change one, the     *)
(* sector is copied to a backup but for the range that changes, erased,     *)
(* copied back, and the range is programmed. Each step is one operation of  *)
(* the flash, or programs one setting; the power may fail between two steps *)
(* or in the middle of one. The thread of the configuration line, which     *)
(* makes the changes, is started before the network library takes the       *)
(* settings.                                                                *)
(*                                                                          *)
(* All bytes of a setting have the setting's value.                        *)
(***************************************************************************)
EXTENDS Integers, FiniteSets

CONSTANTS
  NewSettings,      \* what may be set
  USER_SIZE,        \* bytes of the area that is copied
  MacAddresses,     \* the address that is generated at each boot
  MaxSettings, MaxPowerLosses, MaxBoots  \* bounds

MAC_ADDRESS == 16
ENDPOINT_ADDRESS == 22
IPCONFIG_ADDRESS == 32
LocalmSize == 20      \* sizeof(LOCALM), five settings of four bytes
RangeSize == 8 + LocalmSize  \* what SetIpConfig tells PrepareWriteFlash

Special == {"blank", "garbled", "zero", "id", "default"}
Macs == {MacAddresses[n] : n \in 1 .. MaxBoots}
ASSUME SettingsAssumption ==
  /\ IsFiniteSet(NewSettings) /\ NewSettings \cap Special = {} /\ Macs \cap Special = {}
  /\ USER_SIZE \in Nat /\ USER_SIZE % 4 = 0 /\ USER_SIZE >= IPCONFIG_ADDRESS + LocalmSize
  /\ MaxSettings \in Nat /\ MaxPowerLosses \in Nat /\ MaxBoots \in Nat \ {0}

Bytes == NewSettings \cup Special \cup Macs
Area == 0 .. USER_SIZE - 1
Localm == 0 .. LocalmSize \div 4 - 1  \* its fields

(* Settings by number: the fields of LOCALM, the server, the MAC address.   *)
IpAddr == 0
DefGW == 1
NetMask == 2
Endpoint == 5
Mac == 6
Place(f) ==
  CASE f = Mac -> MAC_ADDRESS .. MAC_ADDRESS + 5
    [] f = Endpoint -> ENDPOINT_ADDRESS .. ENDPOINT_ADDRESS + 5
    [] OTHER -> IPCONFIG_ADDRESS + 4 * f .. IPCONFIG_ADDRESS + 4 * f + 3

VARIABLES
  user, back,       \* the two sectors
  settingsPc,       \* what comes next
  at,               \* the i of its loop
  nlocalm, localm,  \* the library's settings at its start, and in use
  serviceEndpoint,
  netUp,            \* net_initialize has been called
  lives,            \* boots so far
  sets,             \* bound: changes so far
  \* history
  wanted,           \* the value last given to each setting
  early,            \* a change was made before net_initialize
  torn,             \* power failures in the middle of a change or of the first use
  identity          \* the MAC address at the last of these, "none" after another change

flashSectors == <<user, back>>
settingsVars == <<flashSectors, settingsPc, at, nlocalm, localm, serviceEndpoint, netUp, lives,
                  sets, wanted, early, torn, identity>>

Blanks == [i \in Area |-> "blank"]

SettingsInit ==
  /\ user = Blanks /\ back = Blanks
  /\ settingsPc = "boot" /\ at = 0
  /\ nlocalm = [f \in Localm |-> "default"] /\ localm = [f \in Localm |-> "zero"]
  /\ serviceEndpoint = "zero" /\ netUp = FALSE
  /\ lives = 1 /\ sets = 0
  /\ wanted = [f \in 0 .. 6 |-> "default"]
  /\ early = FALSE /\ torn = 0 /\ identity = "none"

(* Bits are only cleared.                                                   *)
ProgramByte(old, new) ==
  CASE old \in {"blank", new} -> new
    [] new = "blank" -> old
    [] "zero" \in {old, new} -> "zero"
    [] OTHER -> "garbled"

Program(sector, place, value) ==
  [i \in Area |-> IF i \in place THEN ProgramByte(sector[i], value) ELSE sector[i]]
CopyBytes(sector, place, from) ==
  [i \in Area |-> IF i \in place THEN ProgramByte(sector[i], from[i]) ELSE sector[i]]

Go(l) == settingsPc' = l /\ at' = 0
NextField(here, after) ==
  \/ at + 1 \in Localm /\ at' = at + 1 /\ settingsPc' = here
  \/ at + 1 \notin Localm /\ Go(after)

----------------------------------------------------------------------------
(* Init, at the start: settings are taken as they are when the identifier   *)
(* is there.                                                                *)
Identifier == 0 .. 3
HasIdentifier(sector) == \A i \in Identifier : sector[i] = "id"

Value(f) ==
  IF \E v \in Bytes : \A i \in Place(f) : user[i] = v
  THEN CHOOSE v \in Bytes : \A i \in Place(f) : user[i] = v ELSE "garbled"

ReadSettings ==
  /\ settingsPc = "boot" /\ HasIdentifier(user)
  /\ serviceEndpoint' = Value(Endpoint)
  /\ nlocalm' = [f \in Localm |-> Value(f)]
  /\ Go("idle")
  /\ UNCHANGED <<flashSectors, localm, netUp, lives, sets, wanted, early, torn, identity>>

(* The first use: the identifier comes first, then a new MAC address and    *)
(* the defaults.                                                            *)
EraseFlash ==
  /\ settingsPc = "boot" /\ ~HasIdentifier(user)
  /\ user' = Blanks
  /\ wanted' = [f \in 0 .. 6 |-> IF f = Mac THEN MacAddresses[lives] ELSE "default"]
  /\ Go("firstId")
  /\ UNCHANGED <<back, nlocalm, localm, serviceEndpoint, netUp, lives, sets, early, torn, identity>>

FirstId ==
  /\ settingsPc = "firstId"
  /\ user' = Program(user, Identifier, "id")
  /\ Go("firstMac")
  /\ UNCHANGED <<back, nlocalm, localm, serviceEndpoint, netUp, lives, sets, wanted, early, torn,
                 identity>>

GenerateMacAddress ==
  /\ settingsPc = "firstMac"
  /\ user' = Program(user, Place(Mac), wanted[Mac])
  /\ Go("firstIp")
  /\ UNCHANGED <<back, nlocalm, localm, serviceEndpoint, netUp, lives, sets, wanted, early, torn,
                 identity>>

FirstIp ==
  /\ settingsPc = "firstIp"
  /\ user' = Program(user, Place(at), nlocalm[at])
  /\ NextField("firstIp", "firstEndpoint")
  /\ UNCHANGED <<back, nlocalm, localm, serviceEndpoint, netUp, lives, sets, wanted, early, torn,
                 identity>>

FirstEndpoint ==
  /\ settingsPc = "firstEndpoint"
  /\ serviceEndpoint' = "default"
  /\ user' = Program(user, Place(Endpoint), "default")
  /\ Go("idle")
  /\ UNCHANGED <<back, nlocalm, localm, netUp, lives, sets, wanted, early, torn, identity>>

(* net_initialize, by main, when Init is over; the thread of the line has   *)
(* been started before.                                                     *)
NetInitialize ==
  /\ ~netUp /\ settingsPc \in {"idle", "eraseBack", "toBack", "eraseUser", "copyBack",
                               "endpoint", "ip"}
  /\ netUp' = TRUE /\ localm' = nlocalm
  /\ UNCHANGED <<flashSectors, settingsPc, at, nlocalm, serviceEndpoint, lives, sets, wanted,
                 early, torn, identity>>

----------------------------------------------------------------------------
(* SetIpConfig.                                                             *)

Change(field, value) ==
  /\ settingsPc = "idle" /\ sets < MaxSettings
  /\ sets' = sets + 1
  /\ wanted' = [wanted EXCEPT ![field] = value]
  /\ early' = (early \/ ~netUp) /\ identity' = "none"
  /\ Go("eraseBack")
  /\ UNCHANGED <<flashSectors, nlocalm, netUp, lives, torn>>

SetIpConfig(field, value) ==
  /\ localm[field] # value
  /\ localm' = [localm EXCEPT ![field] = value]
  /\ UNCHANGED serviceEndpoint
  /\ Change(field, value)

SetEndpoint(value) ==
  /\ serviceEndpoint # value
  /\ serviceEndpoint' = value /\ UNCHANGED localm
  /\ Change(Endpoint, value)

(* PrepareWriteFlash: the backup is erased ...                              *)
EraseBack ==
  /\ settingsPc = "eraseBack"
  /\ back' = Blanks
  /\ Go("toBack")
  /\ UNCHANGED <<user, nlocalm, localm, serviceEndpoint, netUp, lives, sets, wanted, early, torn,
                 identity>>

(* ... what is outside the range is copied to it, in words and, at the ends *)
(* of the range, bytes ...                                                  *)
Limit == ENDPOINT_ADDRESS + RangeSize
Width(i) == IF i % 4 = 0 /\ (i + 4 <= ENDPOINT_ADDRESS \/ i >= Limit) THEN 4 ELSE 1

(* Faulty variant: the bytes of the word in which the range begins are left *)
(* out.                                                                     *)
AfterWords(i) == IF i + Width(i) + 3 \in ENDPOINT_ADDRESS .. Limit - 1 THEN Limit ELSE i + Width(i)

After(i) == IF i + Width(i) \in ENDPOINT_ADDRESS .. Limit - 1 THEN Limit ELSE i + Width(i)

ToBack ==
  /\ settingsPc = "toBack"
  /\ back' = CopyBytes(back, at .. at + Width(at) - 1, user)
  /\ IF After(at) < USER_SIZE THEN at' = After(at) /\ UNCHANGED settingsPc ELSE Go("eraseUser")
  /\ UNCHANGED <<user, nlocalm, localm, serviceEndpoint, netUp, lives, sets, wanted, early, torn,
                 identity>>

(* ... the sector is erased, and copied back.                               *)
EraseUser ==
  /\ settingsPc = "eraseUser"
  /\ user' = Blanks
  /\ Go("copyBack")
  /\ UNCHANGED <<back, nlocalm, localm, serviceEndpoint, netUp, lives, sets, wanted, early, torn,
                 identity>>

CopyBack ==
  /\ settingsPc = "copyBack"
  /\ user' = CopyBytes(user, at .. at + 3, back)
  /\ IF at + 4 < USER_SIZE THEN at' = at + 4 /\ UNCHANGED settingsPc ELSE Go("endpoint")
  /\ UNCHANGED <<back, nlocalm, localm, serviceEndpoint, netUp, lives, sets, wanted, early, torn,
                 identity>>

ProgramEndpoint ==
  /\ settingsPc = "endpoint"
  /\ user' = Program(user, Place(Endpoint), serviceEndpoint)
  /\ Go("ip")
  /\ UNCHANGED <<back, nlocalm, localm, serviceEndpoint, netUp, lives, sets, wanted, early, torn,
                 identity>>

ProgramIp ==
  /\ settingsPc = "ip"
  /\ user' = Program(user, Place(at), localm[at])
  /\ NextField("ip", "idle")
  /\ UNCHANGED <<back, nlocalm, localm, serviceEndpoint, netUp, lives, sets, wanted, early, torn,
                 identity>>

----------------------------------------------------------------------------
(* The bytes the flash works at, when it does.                              *)
WorkUser ==
  CASE settingsPc \in {"eraseUser"} -> Area
    [] settingsPc = "copyBack" -> at .. at + 3
    [] settingsPc = "firstId" -> Identifier
    [] settingsPc = "firstMac" -> Place(Mac)
    [] settingsPc \in {"firstIp", "ip"} -> Place(at)
    [] settingsPc \in {"firstEndpoint", "endpoint"} -> Place(Endpoint)
    [] OTHER -> {}
WorkBack ==
  CASE settingsPc = "eraseBack" -> Area
    [] settingsPc = "toBack" -> at .. at + Width(at) - 1
    [] OTHER -> {}
Torn(sector, work) == [i \in Area |-> IF i \in work THEN "garbled" ELSE sector[i]]

(* The power fails, and the controller starts again.                        *)
PowerLoss ==
  /\ lives < MaxBoots
  /\ \/ settingsPc = "idle" /\ UNCHANGED <<flashSectors, torn, identity>>
     \/ /\ settingsPc # "idle" /\ torn < MaxPowerLosses
        /\ torn' = torn + 1
        /\ identity' = IF settingsPc \in {"boot", "firstId", "firstMac", "firstIp", "firstEndpoint"}
                       THEN "none" ELSE wanted[Mac]
        /\ \/ UNCHANGED flashSectors
           \/ user' = Torn(user, WorkUser) /\ back' = Torn(back, WorkBack)
  /\ lives' = lives + 1
  /\ Go("boot") /\ netUp' = FALSE
  /\ nlocalm' = [f \in Localm |-> "default"] /\ localm' = [f \in Localm |-> "zero"]
  /\ serviceEndpoint' = "zero"
  /\ UNCHANGED <<sets, wanted, early>>

SettingsStep ==
  \/ ReadSettings \/ EraseFlash \/ FirstId \/ GenerateMacAddress \/ FirstIp \/ FirstEndpoint
  \/ NetInitialize
  \/ EraseBack \/ ToBack \/ EraseUser \/ CopyBack \/ ProgramEndpoint \/ ProgramIp

SettingsNext ==
  \/ SettingsStep
  \/ \E value \in NewSettings :
       SetEndpoint(value) \/ \E f \in {IpAddr, DefGW, NetMask} : SetIpConfig(f, value)
  \/ PowerLoss

SettingsSpec == SettingsInit /\ [][SettingsNext]_settingsVars

----------------------------------------------------------------------------
SettingsTypeOK ==
  /\ user \in [Area -> Bytes] /\ back \in [Area -> Bytes]
  /\ settingsPc \in {"boot", "firstId", "firstMac", "firstIp", "firstEndpoint", "idle",
                    "eraseBack", "toBack", "eraseUser", "copyBack", "endpoint", "ip"}
  /\ at \in Area /\ (settingsPc \in {"firstIp", "ip"} => at \in Localm)
  /\ nlocalm \in [Localm -> Bytes] /\ localm \in [Localm -> Bytes]
  /\ serviceEndpoint \in Bytes /\ wanted \in [0 .. 6 -> Bytes]
  /\ lives \in 1 .. MaxBoots /\ sets \in 0 .. MaxSettings /\ torn \in 0 .. MaxPowerLosses

MacKept(sector, mac) ==
  HasIdentifier(sector) /\ \A i \in Place(Mac) : sector[i] = mac

(* Unless the power failed in the middle, every setting in the flash is the *)
(* one last made, or has been kept, through any sequence of changes and     *)
(* restarts - and it is what the network uses. That the range SetIpConfig   *)
(* names is two bytes short of what it programs does no harm. But a change  *)
(* made before net_initialize writes the library's settings as zeros.       *)
SettingsKept ==
  settingsPc = "idle" /\ torn = 0 /\ ~early =>
    /\ MacKept(user, wanted[Mac])
    /\ \A f \in Localm \cup {Endpoint} : \A i \in Place(f) : user[i] = wanted[f]
    /\ netUp => \A f \in Localm : localm[f] = wanted[f]
    /\ serviceEndpoint = wanted[Endpoint]

(* Wherever the power fails in a change, the identifier and the MAC address *)
(* are left in one of the two sectors until the next change. (The code does *)
(* not look at the backup, and takes a new address.)                        *)
IdentityLeft ==
  torn = 1 /\ identity # "none" => MacKept(user, identity) \/ MacKept(back, identity)
=============================================================================
