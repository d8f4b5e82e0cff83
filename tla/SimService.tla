----------------------------- MODULE SimService -----------------------------
(***************************************************************************)
(* What the router promises about its SIMs, one operation at a time: as    *)
(* long as no switch fails, every command and every boot report behaves as *)
(* if it had the SIMs to itself, and leaves a definite SIM in use.         *)
(***************************************************************************)
EXTENDS Naturals

VARIABLES
  active,   \* the SIM in use between two operations
  pending,  \* the SIM a command has asked for, 0 when there is none
  sound     \* no switch has failed so far

vars == <<active, pending, sound>>
Sims == {1, 2}

Init ==
  /\ active \in Sims
  /\ pending = 0
  /\ sound = TRUE

\* A command of the IoT device arrives.
Ask(n) ==
  /\ sound /\ pending = 0
  /\ pending' = n
  /\ UNCHANGED <<active, sound>>

\* It is carried out: the SIM it asks for is the one in use.
Select ==
  /\ sound /\ pending # 0
  /\ active' = pending /\ pending' = 0
  /\ UNCHANGED sound

\* A boot report has visited both SIMs and is back on SIM 1.
Boot ==
  /\ sound
  /\ active' = 1
  /\ UNCHANGED <<pending, sound>>

\* A switch fails.  Nothing is promised any more.
Fail == sound /\ sound' = FALSE
Unsound == ~sound /\ sound' = FALSE

Next ==
  \/ \E n \in Sims : Ask(n)
  \/ Select
  \/ Boot
  \/ Fail
  \/ Unsound

Spec == Init /\ [][Next]_vars
=============================================================================
