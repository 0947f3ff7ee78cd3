--------------------------- MODULE StreamLifecycle --------------------------
(***************************************************************************)
(* What the streams table promises about one stream: it is created active  *)
(* and then only moves along the transitions of streams/status.ts; a       *)
(* terminal stream never changes again.                                    *)
(***************************************************************************)
VARIABLE status

StreamStatus == {"active", "paused", "completed", "cancelled"}

\* VALID_API_TRANSITIONS
Allowed(from) ==
    CASE from = "active" -> {"paused", "completed", "cancelled"}
      [] from = "paused" -> {"active", "cancelled"}
      [] OTHER -> {}

Init == status = "absent"
Create == status = "absent" /\ status' = "active"
Transition == status \in StreamStatus /\ status' \in Allowed(status)

Next == Create \/ Transition
Spec == Init /\ [][Next]_status
============================================================================
