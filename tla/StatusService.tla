--------------------------- MODULE StatusService ---------------------------
(***************************************************************************)
(* What the status connection promises the IoT device, without queues,     *)
(* threads and connections, as long as the router can build its first      *)
(* boot report and the device does not forget one.  A router starts with   *)
(* boot reports, goes over to periodic ones once the device has a whole    *)
(* boot report, and never goes back unless it is restarted.  Reports get   *)
(* lost, but none comes that was not sent: no periodic report before the   *)
(* device has its boot report.                                             *)
(***************************************************************************)
VARIABLES
  sends,   \* what the router sends: "nothing", "boot" or "periodic"
  coming,  \* the reports the device may still read
  knows,   \* the device has read a whole boot report
  sound    \* nothing has happened that ends the promise

vars == <<sends, coming, knows, sound>>

Init == sends = "nothing" /\ coming = {} /\ knows = FALSE /\ sound = TRUE

Start ==
  /\ sound /\ sends = "nothing" /\ sends' = "boot"
  /\ UNCHANGED <<coming, knows, sound>>

\* A boot report may lack parameters, a periodic one may be empty.
Report ==
  /\ sound
  /\ \E r \in CASE sends = "boot" -> {"boot", "partial"}
                [] sends = "periodic" -> {"periodic", "empty"}
                [] OTHER -> {} : coming' = coming \cup {r}
  /\ UNCHANGED <<sends, knows, sound>>

\* Reports are read or lost; only a whole boot report teaches the device.
Read ==
  /\ sound
  /\ coming' \subseteq coming
  /\ knows' \in {knows, knows \/ "boot" \in coming}
  /\ UNCHANGED <<sends, sound>>

\* The device must have its boot report before.
GoPeriodic ==
  /\ sound /\ sends = "boot" /\ knows
  /\ sends' = "periodic"
  /\ UNCHANGED <<coming, knows, sound>>

\* The router starts anew, and with it the promise.
Restart ==
  /\ sends' = "nothing" /\ sound' = TRUE
  /\ UNCHANGED <<coming, knows>>

\* Nothing is promised until the router starts anew.
End == sound' = FALSE

Next == Start \/ Report \/ Read \/ GoPeriodic \/ Restart \/ End

Spec == Init /\ [][Next]_vars
============================================================================
