--------------------------- MODULE MCDescriptors ---------------------------
(***************************************************************************)
(* Bounds of Descriptors for TLC.                                          *)
(***************************************************************************)
EXTENDS Descriptors

\* As long as nothing fails the sockets and connections of the two ports may have
\* any number.  After a fault behaviours are followed while these numbers are low:
\* there is room for one other descriptor below or between them.
MaxPortFd == 4

LowPorts ==
  faults > 0 => \A n \in Numbers : fds[n][2] \in {"fd_srvr", "fd_clnt"} => n <= MaxPortFd
============================================================================
