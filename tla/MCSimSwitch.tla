---------------------------- MODULE MCSimSwitch ----------------------------
(***************************************************************************)
(* Instances of SimSwitch for TLC.  The device asks for both SIMs.         *)
(***************************************************************************)
EXTENDS SimSwitch

BothSims == {1, 2}

\* Everything that can fail may fail, any number of times.
AllFaults == FaultKinds

\* For liveness: every failure but the end of the process, after which the
\* threads that were waiting are gone.
SwitchFaults == FaultKinds \ {"crash"}
============================================================================
