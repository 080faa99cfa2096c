----------------------------- MODULE Commissioning -----------------------------
(***************************************************************************)
(* The commissioning example with the BLE session, the device scan and the *)
(* selected peer in NVS (components/frost_esp32, esp32_session): once per  *)
(* boot, the setup task scans, lets the user choose, pairs, reads both     *)
(* states and saves the identity of the peer.  The power may fail at any   *)
(* step; NVS keeps the bonds and the selection.                            *)
(*                                                                         *)
(* The BLE transport is reduced to what its methods promise (module        *)
(* EcyStatBleTransport): each returns, with success only on its own link.  *)
(***************************************************************************)
EXTENDS PinInput

CONSTANTS
    Peers,       \* the thermostats nearby
    Nothing,     \* no peer
    MaxBoots,    \* bound: boots
    MaxAsked     \* bound: PINs asked for in a boot

ASSUME SetupBounds == Nothing \notin Peers /\ MaxBoots \in Nat /\ MaxAsked \in Nat

VARIABLES
    step,      \* next step of the setup task ("ended": task deleted)
    host,      \* the NimBLE host: "off", "started", or "ready" (the ready flag)
    found,     \* scan.items: the candidates found
    listed,    \* the candidates that scan_thermostats() returned
    scanDone,  \* scan.done is given
    chosen,    \* the peer of the transport
    link,      \* "none", or its security: "plain", "encrypted" (no MITM
               \* protection), "authenticated"
    bonded,    \* sec_state.bonded of the link, NimBLE's flag in RAM
    decoded,   \* the fields read and decoded
    store,     \* NVS: the selected peer
    staged,    \* NVS: set, and perhaps not committed
    keys,      \* NVS: the key stored for each peer: "none", or what it makes
               \* of a link: "encrypted", "authenticated"
    boots,     \* history: the number of this boot
    paired     \* history: the peers that a PIN has made a bond with

scan    == <<found, listed, scanDone>>
nvs     == <<store, staged, keys>>
radio   == <<link, bonded>>
history == <<boots, paired>>
session == <<host, scan, chosen, radio, decoded>>
vars    == <<pinVars, step, session, nvs, history>>

Fields  == {"target", "fan"}
Reading == {"readTarget", "readFan"}

-----------------------------------------------------------------------------
(* The setup task. *)

Goto(s) == step' = s
End     == Goto("ended")

(* nvs_flash_init and load_selected_peer.  The setup ends when NVS does not  *)
(* start or a peer was read; one that is there but cannot be read counts as  *)
(* none.                                                                     *)
LoadPeer ==
    /\ step = "load"
    /\ End \/ Goto("start")
    /\ UNCHANGED <<pinVars, session, nvs, history>>

(* start_ble_session and the wait for the host, which goes on in any case.   *)
StartSession ==
    /\ step = "start"
    /\ \/ host' = "started" /\ Goto("scan")
       \/ UNCHANGED host /\ End
    /\ UNCHANGED <<pinVars, scan, chosen, radio, decoded, nvs, history>>

(* scan_thermostats up to its wait. *)
StartScan ==
    /\ step = "scan"
    /\ \/ /\ host = "ready" /\ Goto("scanning")
          /\ found' = {} /\ scanDone' = FALSE /\ UNCHANGED listed
       \/ End /\ UNCHANGED scan
    /\ UNCHANGED <<pinVars, host, chosen, radio, decoded, nvs, history>>

ScanReturns ==
    /\ step = "scanning"
    /\ \/ scanDone /\ found # {} /\ Goto("choose") /\ listed' = found /\ scanDone' = FALSE
       \/ scanDone /\ found = {} /\ End /\ UNCHANGED listed /\ scanDone' = FALSE
       \/ ~scanDone /\ End /\ UNCHANGED <<listed, scanDone>>
    /\ UNCHANGED <<pinVars, host, found, chosen, radio, decoded, nvs, history>>

(* The user types a number; an invalid one ends the setup. *)
Choose ==
    /\ step = "choose"
    /\ \/ End /\ UNCHANGED chosen
       \/ chosen' \in listed /\ Goto("connect")
    /\ UNCHANGED <<pinVars, host, scan, radio, decoded, nvs, history>>

(* connect(): starts the PIN input task, too, unless it fails before that.   *)
Connect ==
    /\ step = "connect"
    /\ \/ StartInputTask /\ link' = "plain" /\ bonded' = FALSE /\ Goto("discover")
       \/ StartInputTask /\ UNCHANGED radio /\ Goto("disconnect")
       \/ UNCHANGED <<inputStep, radio>> /\ Goto("disconnect")
    /\ UNCHANGED <<inputConnection, loaded, line, taken, shared, user, host, scan, chosen,
                   decoded, nvs, history>>

Discover ==
    /\ step = "discover"
    /\ (link # "none" /\ Goto("readTarget")) \/ Goto("disconnect")
    /\ UNCHANGED <<pinVars, session, nvs, history>>

Read1(field, next) ==
    /\ \/ link # "none" /\ decoded' = decoded \union {field} /\ Goto(next)
       \/ UNCHANGED decoded /\ Goto("disconnect")
    /\ UNCHANGED <<pinVars, host, scan, chosen, radio, nvs, history>>

ReadTarget == step = "readTarget" /\ Read1("target", "readFan")

ReadFan == step = "readFan" /\ Read1("fan", "identify")

EncryptedIdentity == link \in {"encrypted", "authenticated"} /\ bonded

(* paired_identity(): what NimBLE knows of the live link. *)
PairedIdentity == link = "authenticated" /\ bonded

Identify ==
    /\ step = "identify"
    /\ Goto(IF PairedIdentity THEN "save" ELSE "disconnect")
    /\ UNCHANGED <<pinVars, session, nvs, history>>

(* save_selected_peer(): nvs_set_blob, and nvs_commit. *)
SetPeer ==
    /\ step = "save"
    /\ \/ staged' = chosen /\ Goto("commit")
       \/ UNCHANGED staged /\ Goto("disconnect")
    /\ UNCHANGED <<pinVars, session, store, keys, history>>

(* A commit that fails may have written or not. *)
Commit ==
    /\ step = "commit" /\ Goto("disconnect")
    /\ store' \in {store, staged}
    /\ UNCHANGED <<pinVars, session, staged, keys, history>>

LinkEnds == link' = "none" /\ bonded' = FALSE /\ ForgetRequest

Disconnect ==
    /\ step = "disconnect" /\ End
    /\ LinkEnds
    /\ UNCHANGED <<host, scan, chosen, decoded, nvs, history>>

-----------------------------------------------------------------------------
(* The NimBLE host task and the thermostats. *)

(* sync and reset; a reset ends a scan and takes the link along. *)
HostReports ==
    /\ \/ /\ host = "started" /\ host' = "ready"
          /\ UNCHANGED <<pinVars, radio, scanDone>>
       \/ /\ host = "ready" /\ host' = "started"
          /\ LinkEnds
          /\ scanDone' = (scanDone \/ step = "scanning")
    /\ UNCHANGED <<step, found, listed, chosen, decoded, nvs, history>>

(* on_scan: a candidate, listed once, or the end of the scan. *)
OnScan ==
    /\ step = "scanning" /\ ~scanDone
    /\ \/ found' \in {found \union {p} : p \in Peers} /\ UNCHANGED scanDone
       \/ scanDone' = TRUE /\ UNCHANGED found
    /\ UNCHANGED <<pinVars, step, host, listed, chosen, radio, decoded, nvs, history>>

(* A pairing ends well: the link is bonded if both sides want it, and then   *)
(* the key is stored; NVS may be full or fail, which the link does not show. *)
Secured(security) ==
    /\ link' = security
    /\ \/ bonded' = FALSE /\ UNCHANGED <<keys, paired>>
       \/ /\ bonded' = TRUE
          /\ keys' \in {keys, [keys EXCEPT ![chosen] = security]}
          /\ paired' = IF security = "authenticated" THEN paired \union {chosen} ELSE paired

(* A read was refused for lack of security: a peer with a key is encrypted   *)
(* with it or rejects it, which changes nothing in NVS; another one asks for *)
(* the PIN, or claims that it cannot show one and pairs without.             *)
Secure ==
    /\ step \in Reading /\ link = "plain" /\ pairing = "none"
    /\ \/ /\ keys[chosen] # "none" /\ link' = keys[chosen] /\ bonded' = TRUE
          /\ UNCHANGED <<pinVars, keys, paired>>
       \/ /\ keys[chosen] = "none" /\ asked < MaxAsked
          /\ AskForPin /\ UNCHANGED <<radio, keys, paired>>
       \/ /\ keys[chosen] = "none" /\ Secured("encrypted")
          /\ UNCHANGED pinVars
    /\ UNCHANGED <<step, host, scan, chosen, decoded, store, staged, boots>>

(* Only the right PIN makes an authenticated link. *)
Paired ==
    /\ link = "plain" /\ pairing # "none"
    /\ PairingEnds
    /\ \/ pairing = "right" /\ Secured("authenticated")
       \/ UNCHANGED <<radio, keys, paired>>
    /\ UNCHANGED <<step, host, scan, chosen, decoded, store, staged, boots>>

LinkLost ==
    /\ link # "none" /\ LinkEnds
    /\ UNCHANGED <<step, host, scan, chosen, decoded, nvs, history>>

(* Power failure, or a reset by the user who wants to retry. *)
Reboot ==
    /\ boots < MaxBoots /\ boots' = boots + 1
    /\ store' \in {store, staged} /\ staged' = store' /\ UNCHANGED <<keys, paired>>
    /\ step' = "load"
    /\ host' = "off" /\ found' = {} /\ listed' = {} /\ scanDone' = FALSE
    /\ chosen' = Nothing /\ link' = "none" /\ bonded' = FALSE /\ decoded' = {}
    /\ inputStep' = "off" /\ inputConnection' = FALSE /\ loaded' = FALSE
    /\ NewLine /\ pending' = FALSE /\ pairing' = "none"
    /\ asked' = 0 /\ taken' = 0 /\ own' = 0 /\ held' = 0
    /\ position' = 0 /\ UNCHANGED mistakes

-----------------------------------------------------------------------------
Init ==
    /\ PinInit
    /\ step = "load" /\ host = "off"
    /\ found = {} /\ listed = {} /\ scanDone = FALSE
    /\ chosen = Nothing /\ link = "none" /\ bonded = FALSE /\ decoded = {}
    /\ store = Nothing /\ staged = Nothing /\ keys = [p \in Peers |-> "none"]
    /\ boots = 1 /\ paired = {}

InputTask(A) == A /\ UNCHANGED <<step, session, nvs, history>>

Input == InputTask(InputStep)

Setup == LoadPeer \/ StartSession \/ StartScan \/ ScanReturns \/ Choose \/ Connect
         \/ Discover \/ ReadTarget \/ ReadFan \/ Identify \/ SetPeer \/ Commit \/ Disconnect

Host == HostReports \/ OnScan \/ Secure \/ Paired \/ LinkLost

Next == Setup \/ Input \/ Host \/ Reboot

Spec == Init /\ [][Next]_vars

(* The input task runs, and the user types on; between two keys the task may *)
(* find none any number of times (strong fairness).  The setup task has to   *)
(* do nothing: its read, which gives up after a while, need not.             *)
FairSpec == Spec /\ WF_vars(Input) /\ SF_vars(InputTask(RightKey))

-----------------------------------------------------------------------------
(* Commissioning "checks authenticated/bonded connection state, and saves    *)
(* the peer identity only after successful decoding" (docs/setup.md): what   *)
(* NVS holds as the selected peer, after any power failure, is one that the  *)
(* right PIN was once typed for, to the making of a bond; and while it is    *)
(* being saved, its target and fan have both been decoded in this boot.      *)
SelectedWasPaired ==
    /\ {store, staged} \ {Nothing} \subseteq paired
    /\ step \in {"save", "commit"} => decoded = Fields

(* "If a peer is already selected, commissioning stops instead of replacing  *)
(* it" (docs/setup.md).                                                      *)
SelectionKept == [][store # Nothing => store' = store]_vars
=============================================================================
