-------------------------- MODULE CommandExchange --------------------------
(***************************************************************************)
(* What the device's command mailbox promises to who puts commands into    *)
(* it, without its flags, threads and connections: a request is open until *)
(* it has been answered, the only text that ever becomes the answer is the *)
(* one to the open request, and no second request is taken before.  An     *)
(* answer may be taken away at any time, also unread.                      *)
(***************************************************************************)
CONSTANTS Requests, None

VARIABLES
  phase,    \* "idle", "open" or "answered"
  request,  \* the request, if there is one
  answer    \* the request that the text on offer answers, if there is a text

vars == <<phase, request, answer>>

Init == phase = "idle" /\ request = None /\ answer = None

Ask ==
  /\ phase = "idle" /\ phase' = "open"
  /\ request' \in Requests
  /\ UNCHANGED answer

Answer ==
  /\ phase = "open" /\ phase' = "answered"
  /\ answer' = request
  /\ UNCHANGED request

Close ==
  /\ phase = "answered" /\ phase' = "idle"
  /\ request' = None
  /\ UNCHANGED answer

Take == answer' = None /\ UNCHANGED <<phase, request>>

Next == Ask \/ Answer \/ Close \/ Take

Spec == Init /\ [][Next]_vars
============================================================================
