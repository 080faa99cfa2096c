---------------------------- MODULE ApplyContract ----------------------------
(***************************************************************************)
(* What a caller of EcyStatController may rely on, whatever the thermostat *)
(* and the radio do: which commands a call may have sent, in which order,  *)
(* and what the status it returns says about them.  Target and Fan are two *)
(* commands that nothing makes atomic, so the status is the only account   *)
(* the caller gets of a call that stopped between them.                    *)
(***************************************************************************)

VARIABLES
    busy,     \* a call is being executed
    op,       \* the call: "verify", "ensure", "apply" ("none" before the first)
    sent,     \* the commands handed to the transport by this call
    status    \* the ApplyStatus of the last call, "pending" until it returns

contractVars == <<busy, op, sent, status>>

Operations == {"verify", "ensure", "apply"}

Fields == {"target", "fan"}

Statuses == {"Verified", "InvalidCommand", "ConnectionFailed",
             "DiscoveryFailed", "Failed", "PartialFailure"}

(* The statuses a call may return after sending the commands S. *)
Allowed(o, S) ==
    CASE S = Fields     -> {"Verified", "PartialFailure"}
      [] S = {"target"} -> {"Failed"}
      [] OTHER          -> {"ConnectionFailed", "DiscoveryFailed"}
                             \union (IF o = "apply" THEN {} ELSE {"Failed", "Verified"})

ContractInit == busy = FALSE /\ op = "none" /\ sent = {} /\ status = "InvalidCommand"

(* A desired state that cannot be encoded is refused before any command. *)
Reject(o) ==
    /\ ~busy
    /\ op' = o /\ sent' = {} /\ status' = "InvalidCommand"
    /\ UNCHANGED busy

Begin(o) ==
    /\ ~busy
    /\ busy' = TRUE /\ op' = o /\ sent' = {} /\ status' = "pending"

SendTarget ==
    /\ busy /\ op # "verify" /\ sent = {}
    /\ sent' = {"target"}
    /\ UNCHANGED <<busy, op, status>>

SendFan ==
    /\ busy /\ sent = {"target"}
    /\ sent' = Fields
    /\ UNCHANGED <<busy, op, status>>

Return ==
    /\ busy
    /\ busy' = FALSE /\ status' \in Allowed(op, sent)
    /\ UNCHANGED <<op, sent>>

ContractNext ==
    \/ \E o \in Operations : Reject(o) \/ Begin(o)
    \/ SendTarget \/ SendFan \/ Return

ContractSpec == ContractInit /\ [][ContractNext]_contractVars
=============================================================================
