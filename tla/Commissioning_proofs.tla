-------------------------- MODULE Commissioning_proofs --------------------------
(***************************************************************************)
(* Proofs about Commissioning and its PIN input task for every set of      *)
(* thermostats and any number of boots, requests and mistakes: what is     *)
(* selected was paired with by its PIN, and each request for a PIN is met  *)
(* by at most one line of its own and one that was held over.              *)
(***************************************************************************)
EXTENDS Commissioning, TLAPS

-----------------------------------------------------------------------------
(* The selection. *)

Keys == {"none", "encrypted", "authenticated"}

(* The peer of the transport is one that the scan found, and there is none   *)
(* yet, nor a link, before the user has chosen.                              *)
PeerInv ==
    /\ found \subseteq Peers /\ listed \subseteq Peers
    /\ keys \in [Peers -> Keys]
    /\ step \in {"load", "start", "scan", "scanning", "choose"} => link = "none"
    /\ step \in {"connect", "discover", "identify", "save", "commit"} \union Reading => chosen \in Peers
    /\ link # "none" => chosen \in Peers

(* What the setup has decoded by each step. *)
DecodedInv ==
    /\ step = "readFan" => "target" \in decoded
    /\ step \in {"identify", "save", "commit"} => Fields \subseteq decoded
    /\ decoded \subseteq Fields

(* An authenticated bond, of a link, a key or the selection, goes back to a  *)
(* PIN.                                                                      *)
PairInv ==
    /\ store \in paired \union {Nothing} /\ staged \in paired \union {Nothing}
    /\ \A p \in Peers : keys[p] = "authenticated" => p \in paired
    /\ link = "authenticated" /\ bonded => chosen \in paired
    /\ step \in {"save", "commit"} => chosen \in paired

SelectionInv == PeerInv /\ DecodedInv /\ PairInv

LEMMA PeerStep == PeerInv /\ [Next]_vars => PeerInv'
<1> SUFFICES ASSUME PeerInv, [Next]_vars PROVE PeerInv'
  OBVIOUS
<1> USE DEF PeerInv, Reading, Goto, End, scan, nvs, radio, history, session
<1>1. CASE LoadPeer \/ StartSession \/ StartScan \/ ScanReturns
  BY <1>1 DEF LoadPeer, StartSession, StartScan, ScanReturns
<1>2. CASE Choose \/ Connect \/ Discover
  BY <1>2 DEF Choose, Connect, Discover
<1>3. CASE ReadTarget \/ ReadFan \/ Identify
  BY <1>3 DEF ReadTarget, ReadFan, Read1, Identify
<1>4. CASE SetPeer \/ Commit \/ Disconnect
  BY <1>4 DEF SetPeer, Commit, Disconnect, LinkEnds
<1>5. CASE Input
  BY <1>5 DEF Input, InputTask
<1>6. CASE HostReports \/ OnScan \/ LinkLost
  BY <1>6 DEF HostReports, OnScan, LinkLost, LinkEnds
<1>7. ASSUME NEW security \in Keys, Secured(security), chosen \in Peers
      PROVE  keys' \in [Peers -> Keys]
  BY <1>7 DEF Secured
<1>8. CASE Secure
  <2>1. keys' \in [Peers -> Keys]
    BY <1>7, <1>8 DEF Secure, Keys
  <2> QED
    BY <2>1, <1>8 DEF Secure
<1>9. CASE Paired
  <2>1. keys' \in [Peers -> Keys]
    BY <1>7, <1>9 DEF Paired, Keys
  <2> QED
    BY <2>1, <1>9 DEF Paired
<1>10. CASE Reboot
  BY <1>10 DEF Reboot
<1>11. CASE UNCHANGED vars
  BY <1>11 DEF vars
<1> QED
  BY <1>1, <1>2, <1>3, <1>4, <1>5, <1>6, <1>8, <1>9, <1>10, <1>11 DEF Next, Setup, Host

LEMMA DecodedStep == DecodedInv /\ [Next]_vars => DecodedInv'
<1> SUFFICES ASSUME DecodedInv, [Next]_vars PROVE DecodedInv'
  OBVIOUS
<1> USE DEF DecodedInv, Fields, Goto, End, scan, nvs, radio, history, session
<1>1. CASE LoadPeer \/ StartSession \/ StartScan \/ ScanReturns
  BY <1>1 DEF LoadPeer, StartSession, StartScan, ScanReturns
<1>2. CASE Choose \/ Connect \/ Discover
  BY <1>2 DEF Choose, Connect, Discover
<1>3. CASE ReadTarget \/ ReadFan \/ Identify
  BY <1>3 DEF ReadTarget, ReadFan, Read1, Identify
<1>4. CASE SetPeer \/ Commit \/ Disconnect
  BY <1>4 DEF SetPeer, Commit, Disconnect
<1>5. CASE Input
  BY <1>5 DEF Input, InputTask
<1>6. CASE Host
  BY <1>6 DEF Host, HostReports, OnScan, LinkLost, Secure, Paired
<1>7. CASE Reboot
  BY <1>7 DEF Reboot
<1>8. CASE UNCHANGED vars
  BY <1>8 DEF vars
<1> QED
  BY <1>1, <1>2, <1>3, <1>4, <1>5, <1>6, <1>7, <1>8 DEF Next, Setup

(* Only a pairing with the right PIN adds to what is authenticated and       *)
(* bonded; the link's own flag stands for no more than that.                 *)
LEMMA PairStep == PeerInv /\ PairInv /\ [Next]_vars => PairInv'
<1> SUFFICES ASSUME PeerInv, PairInv, [Next]_vars PROVE PairInv'
  OBVIOUS
<1> USE DEF PairInv, Goto, End, scan, nvs, radio, history, session
<1>1. CASE LoadPeer \/ StartSession \/ StartScan \/ ScanReturns
  BY <1>1 DEF LoadPeer, StartSession, StartScan, ScanReturns
<1>2. CASE Choose \/ Connect \/ Discover
  BY <1>2 DEF Choose, Connect, Discover, PeerInv
<1>3. CASE ReadTarget \/ ReadFan \/ Identify
  BY <1>3 DEF ReadTarget, ReadFan, Read1, Identify, PairedIdentity
<1>4. CASE SetPeer \/ Commit \/ Disconnect
  BY <1>4 DEF SetPeer, Commit, Disconnect, LinkEnds
<1>5. CASE Input
  BY <1>5 DEF Input, InputTask
<1>6. CASE HostReports \/ OnScan \/ LinkLost
  BY <1>6 DEF HostReports, OnScan, LinkLost, LinkEnds
<1>7. CASE Secure
  BY <1>7 DEF Secure, Secured, PeerInv, Keys
<1>8. CASE Paired
  BY <1>8 DEF Paired, Secured, PeerInv, Keys
<1>9. CASE Reboot
  BY <1>9 DEF Reboot
<1>10. CASE UNCHANGED vars
  BY <1>10 DEF vars
<1> QED
  BY <1>1, <1>2, <1>3, <1>4, <1>5, <1>6, <1>7, <1>8, <1>9, <1>10 DEF Next, Setup, Host

(* Whatever is selected, after any power failure, was paired with by its PIN *)
(* to the making of a bond, and is saved only once both fields are decoded.  *)
THEOREM SelectionWasPaired == Spec => []SelectedWasPaired
<1>1. Init => SelectionInv
  BY DEF Init, SelectionInv, PeerInv, DecodedInv, PairInv, Keys, Reading
<1>2. SelectionInv /\ [Next]_vars => SelectionInv'
  BY PeerStep, DecodedStep, PairStep DEF SelectionInv
<1>3. SelectionInv => SelectedWasPaired
  BY DEF SelectionInv, DecodedInv, PairInv, SelectedWasPaired
<1> QED
  BY <1>1, <1>2, <1>3, PTL DEF Spec

-----------------------------------------------------------------------------
(* The PIN. *)

(* A request whose handle is still there has met no line of its own, nor has *)
(* one whose line is in the task's hand; and a line held over from an        *)
(* earlier request is the first of its kind.                                 *)
PinInv ==
    /\ {asked, taken, own, held} \subseteq Nat
    /\ taken <= asked
    /\ pending => own = 0 /\ asked > 0 /\ ~(inputStep = "inject" /\ taken = asked)
    /\ inputStep = "inject" => taken > 0 /\ (IF taken = asked THEN own = 0 ELSE held = 0)
    /\ own <= 1 /\ held <= 1

(* The input task reads a key. *)
LEMMA KeyStep ==
    ASSUME PinInv, InputStep
    PROVE  PinInv'
<1> USE DEF PinInv, shared, requests, user, line
<1>1. CASE LoadPending \/ NoKey \/ Inject
  BY <1>1 DEF LoadPending, NoKey, Inject
<1>2. ASSUME NEW right1, Read(ReadDigit(right1)) PROVE PinInv'
  BY <1>2 DEF Read, ReadDigit
<1>3. ASSUME Read(ReadOther) PROVE PinInv'
  BY <1>3 DEF Read, ReadOther
<1>4. ASSUME Read(ReadEnter) PROVE PinInv'
  BY <1>4 DEF Read, ReadEnter, TakeHandle
<1> QED
  BY <1>1, <1>2, <1>3, <1>4 DEF InputStep, RightKey, WrongKey

LEMMA PinStep == PinInv /\ [Next]_vars => PinInv'
<1> SUFFICES ASSUME PinInv, [Next]_vars PROVE PinInv'
  OBVIOUS
<1> USE DEF PinInv, pinVars, inputTask, shared, requests, user
<1>1. CASE UNCHANGED pinVars
  BY <1>1
<1>2. CASE Connect
  BY <1>2 DEF Connect, StartInputTask
<1>3. ASSUME ForgetRequest \/ AskForPin \/ PairingEnds PROVE PinInv'
  BY <1>3 DEF ForgetRequest, AskForPin, PairingEnds
<1>4. CASE Reboot
  BY <1>4 DEF Reboot
<1>5. CASE Input
  BY <1>5, KeyStep DEF Input, InputTask
<1>6. CASE Setup
  BY <1>1, <1>2, <1>3, <1>6
  DEF Setup, LoadPeer, StartSession, StartScan, ScanReturns, Choose, Discover, ReadTarget, ReadFan,
      Read1, Identify, SetPeer, Commit, Disconnect, LinkEnds
<1>7. CASE Host
  BY <1>1, <1>3, <1>7 DEF Host, HostReports, OnScan, Secure, Paired, LinkLost, LinkEnds
<1> QED
  BY <1>1, <1>4, <1>5, <1>6, <1>7 DEF Next, vars

(* Each request for a PIN is met by one line of its own at most, and by at   *)
(* most one line held over from an earlier request, whatever the user types  *)
(* and however often the link comes and goes.                                *)
THEOREM PinIsSubmittedOnce == Spec => []OneSubmissionPerRequest
<1>1. Init => PinInv
  BY DEF Init, PinInit, PinInv
<1>2. PinInv => OneSubmissionPerRequest
  BY DEF PinInv, OneSubmissionPerRequest
<1> QED
  BY <1>1, <1>2, PinStep, PTL DEF Spec
=============================================================================
