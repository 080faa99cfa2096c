---------------------------- MODULE TrustedClock ----------------------------
(***************************************************************************)
(* What BootClockCoordinator promises the boot loop: the reports of tick() *)
(* in one boot.  Ready is only said once a time server has answered in     *)
(* this boot, and is never taken back; a failed initialisation is final,   *)
(* and a synchronisation time-out is not.                                  *)
(***************************************************************************)

VARIABLES
    report,     \* the result of the last tick()
    answered    \* a time server has set the clock in this boot

Reports == {"WaitingForPrerequisites", "WaitingForSynchronization", "Ready",
            "SynchronizationTimedOut", "InitializationFailed"}

Waiting == {"WaitingForSynchronization", "SynchronizationTimedOut"}

(* The reports that may come after r. *)
CanFollow(r) ==
    IF r = "WaitingForPrerequisites" THEN Reports
    ELSE IF r \in Waiting THEN Waiting \union {"Ready"} ELSE {r}

Answered ==
    /\ answered' = TRUE
    /\ UNCHANGED report

Tick ==
    /\ report' \in CanFollow(report)
    /\ report' = "Ready" => answered
    /\ UNCHANGED answered

Init == report = "WaitingForPrerequisites" /\ answered = FALSE

Next == Answered \/ Tick

Spec == Init /\ [][Next]_<<report, answered>>
=============================================================================
