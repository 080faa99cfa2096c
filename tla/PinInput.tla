------------------------------- MODULE PinInput -------------------------------
(***************************************************************************)
(* The PIN input task of EcyStatBleTransport (components/frost_esp32): it  *)
(* reads the console and submits a line of six digits to the connection    *)
(* whose handle the NimBLE host task left in g_pending_passkey_conn_handle. *)
(* Handles are here or absent: NimBLE uses the same one for the next link. *)
(*                                                                         *)
(* The user, external, types the PIN line by line, with some mistakes; the *)
(* console keeps a key until the task reads it.                            *)
(***************************************************************************)
EXTENDS Naturals

CONSTANTS
    PinLength,     \* 6 in the code
    MaxMistakes    \* bound: keys typed wrongly

ASSUME PinBounds == PinLength \in Nat \ {0} /\ MaxMistakes \in Nat

VARIABLES
    inputStep,        \* next step of the task: "off", "load", "read" or "inject"
    inputConnection,  \* input_connection is a handle
    loaded,           \* pending, the task's copy of the shared handle
    digits,           \* digits
    right,            \* history: value begins like the PIN
    invalid,          \* invalid
    pending,          \* g_pending_passkey_conn_handle is a handle
    pairing,          \* NimBLE: "none", "waiting" for a PIN, or has a "right" or "wrong" one
    taken,            \* history: the request whose handle the task has taken (0: none)
    asked,            \* history: the requests in this boot, the last one the present
    own,              \* history: lines submitted to it under its own handle
    held,             \* history: lines submitted to it that were typed for an earlier one
    position,         \* the user: keys of this line typed
    mistakes          \* the user: keys typed wrongly so far

line      == <<digits, right, invalid>>
inputTask == <<inputStep, inputConnection, loaded, line, taken>>
requests  == <<asked, own, held>>
shared    == <<pending, pairing, requests>>
user      == <<position, mistakes>>
pinVars   == <<inputTask, shared, user>>

NoDigits == digits' = 0 /\ right' = TRUE

NewLine == NoDigits /\ invalid' = FALSE

-----------------------------------------------------------------------------
(* The task. *)

StartInputTask == inputStep' = IF inputStep = "off" THEN "load" ELSE inputStep

LoadPending ==
    /\ inputStep = "load" /\ inputStep' = "read"
    /\ loaded' = pending
    /\ IF pending # inputConnection
       THEN inputConnection' = pending /\ NewLine
       ELSE UNCHANGED <<inputConnection, line>>
    /\ UNCHANGED <<taken, shared, user>>

ReadDigit(isRight) ==
    /\ inputStep' = "load"
    /\ IF digits = PinLength
       THEN invalid' = TRUE /\ UNCHANGED <<digits, right>>
       ELSE digits' = digits + 1 /\ right' = (right /\ isRight) /\ UNCHANGED invalid
    /\ UNCHANGED <<taken, shared>>

ReadOther ==
    /\ inputStep' = "load" /\ invalid' = TRUE
    /\ UNCHANGED <<digits, right, taken, shared>>

InvalidStays == NoDigits /\ UNCHANGED invalid

StartOver == NoDigits /\ invalid' = FALSE

PeekHandle == UNCHANGED pending /\ taken' = asked

TakeHandle == pending' = FALSE /\ taken' = asked

(* Enter: a line of six digits is submitted if the handle is still pending,  *)
(* which compare_exchange takes away as it tests it.                         *)
ReadEnter ==
    /\ \/ /\ digits # PinLength \/ invalid
          /\ inputStep' = "load" /\ StartOver /\ UNCHANGED <<pending, taken>>
       \/ /\ digits = PinLength /\ ~invalid /\ ~pending
          /\ inputStep' = "load" /\ NoDigits /\ UNCHANGED <<invalid, pending, taken>>
       \/ /\ digits = PinLength /\ ~invalid /\ pending
          /\ inputStep' = "inject" /\ TakeHandle /\ UNCHANGED line
    /\ UNCHANGED <<pairing, requests>>

(* A key that comes while nobody has asked is dropped. *)
Read(reaction) ==
    /\ inputStep = "read"
    /\ IF loaded THEN reaction ELSE inputStep' = "load" /\ UNCHANGED <<line, taken, shared>>
    /\ UNCHANGED <<inputConnection, loaded>>

(* fgetc() returns EOF. *)
NoKey ==
    /\ inputStep = "read" /\ inputStep' = "load"
    /\ UNCHANGED <<inputConnection, loaded, line, taken, shared, user>>

(* ble_sm_inject_io: a pairing takes the first PIN it is given. *)
Inject ==
    /\ inputStep = "inject" /\ inputStep' = "load"
    /\ IF taken = asked THEN own' = own + 1 /\ UNCHANGED held ELSE held' = held + 1 /\ UNCHANGED own
    /\ taken' = 0
    /\ pairing' = IF pairing # "waiting" THEN pairing ELSE IF right THEN "right" ELSE "wrong"
    /\ NoDigits
    /\ UNCHANGED <<inputConnection, loaded, invalid, pending, asked, user>>

-----------------------------------------------------------------------------
(* The user. *)

RightKey ==
    /\ UNCHANGED mistakes
    /\ IF position < PinLength
       THEN Read(ReadDigit(digits = position)) /\ position' = position + 1
       ELSE Read(ReadEnter) /\ position' = 0

(* A wrong or doubled digit, another key, or Enter before its time. *)
WrongKey ==
    /\ mistakes < MaxMistakes /\ mistakes' = mistakes + 1
    /\ \/ Read(ReadDigit(FALSE)) /\ position' \in {position, position + 1} \intersect 0 .. PinLength
       \/ Read(ReadOther) /\ UNCHANGED position
       \/ Read(ReadEnter) /\ position' = 0

-----------------------------------------------------------------------------
(* The NimBLE host task. *)

(* BLE_GAP_EVENT_PASSKEY_ACTION, with PIN input allowed. *)
AskForPin ==
    /\ pairing' = "waiting" /\ pending' = TRUE
    /\ asked' = asked + 1 /\ own' = 0 /\ held' = 0
    /\ UNCHANGED <<inputTask, user>>

(* NimBLE is through with the pairing; the handle stays. *)
PairingEnds ==
    /\ pairing' = "none"
    /\ UNCHANGED <<inputTask, pending, requests, user>>

(* BLE_GAP_EVENT_DISCONNECT *)
ForgetRequest ==
    /\ pairing' = "none" /\ pending' = FALSE
    /\ UNCHANGED <<inputTask, requests, user>>

PinInit ==
    /\ inputStep = "off" /\ inputConnection = FALSE /\ loaded = FALSE
    /\ digits = 0 /\ right = TRUE /\ invalid = FALSE
    /\ pending = FALSE /\ pairing = "none"
    /\ taken = 0 /\ asked = 0 /\ own = 0 /\ held = 0
    /\ position = 0 /\ mistakes = 0

InputStep == LoadPending \/ NoKey \/ Inject \/ RightKey \/ WrongKey

-----------------------------------------------------------------------------
(* The handle is handed over once: each request is met by at most one line   *)
(* typed under its own handle, also when the user types line after line and  *)
(* the link comes and goes meanwhile.  One other line may precede it: the    *)
(* line that the task held between taking an earlier request's handle and    *)
(* ble_sm_inject_io while this request replaced that one.                    *)
OneSubmissionPerRequest == own <= 1 /\ held <= 1

(* A user who is asked and keeps typing the PIN gets it submitted while the  *)
(* request stands, whatever was typed wrongly, too long or too early before. *)
TypedPinIsSubmitted == pairing = "waiting" ~> pairing # "waiting"
=============================================================================
