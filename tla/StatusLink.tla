----------------------------- MODULE StatusLink -----------------------------
(***************************************************************************)
(* The status connection (port 41).  th_port2 of the router sends a boot   *)
(* report until the IoT device asks for periodic ones, then a periodic     *)
(* report every 15 s.  th_rtr_prd of the device asks for periodic reports  *)
(* once it has a boot report with all its BTP_PRM_CNT parameters.  Both    *)
(* sides remember where they are (btup_typ, prs_typ); neither forgets it   *)
(* when the connection is lost and made again.  What is inside a report is *)
(* the business of SimSwitch; here it is complete or not.                  *)
(***************************************************************************)
EXTENDS Integers, Sequences

CONSTANTS
  Faults,      \* the kinds of failure that may happen
  MaxTrouble,  \* bound: connections lost and programs restarted
  MaxQueue     \* bound: reports the connection holds before send() fails

FaultKinds ==
  {"build",          \* pkt_btup or pkt_prd fails
   "partial",        \* the modem is silent: parameters are missing
   "port",           \* start_srvr cannot open the port
   "drop",           \* the connection is lost
   "clientRestart",  \* the device's program is restarted
   "serverRestart"}  \* the router's program is restarted (exit, SIGPIPE, RST)

ASSUME FaultsAssumption == Faults \subseteq FaultKinds
ASSUME TroubleAssumption == MaxTrouble \in Nat
ASSUME QueueAssumption == MaxQueue \in Nat \ {0}

VARIABLES
  pc,        \* where th_port2 is
  btup_typ,  \* what it sends: NONE (before its first report), BTUP, BTUP2 or PRD
  buf_btp,   \* its boot report
  pld,       \* the report it is about to send
  rt_snd,    \* result of its send(): 1 sent, -1 not
  buf_rcv,   \* the request it has received and not yet obeyed
  peer,      \* its connection: "none", "open" or "eof" (closed by the other side)
  clnt,      \* the device's: "connecting", "queued" (not yet accepted), "open" or "eof"
  prs_typ,   \* what th_rtr_prd waits for: BTP or PRD
  down,      \* reports on their way
  up,        \* requests on their way
  trouble,   \* how often the connection was lost or a program restarted
  broken     \* history, since the router's program was started: "unbuilt" once
             \* its first boot report could not be built, "forgotten" once the
             \* device has had a boot report and is restarted

report == <<btup_typ, buf_btp, pld>>
channel == <<peer, clnt, down, up>>
vars == <<pc, report, rt_snd, buf_rcv, channel, prs_typ, trouble, broken>>

Reports == {"boot", "partial", "periodic", "empty"}
Requests == {"RQST_PRD"}
Listening == pc = "accept" \/ peer # "none"

Init ==
  /\ pc = "build" /\ btup_typ = "NONE" /\ buf_btp = "empty" /\ pld = "empty"
  /\ rt_snd = -1 /\ buf_rcv = "nothing"
  /\ peer = "none" /\ clnt = "connecting" /\ down = <<>> /\ up = <<>>
  /\ prs_typ = "BTP"
  /\ trouble = 0 /\ broken = {}

----------------------------------------------------------------------------
(* th_port2.                                                               *)

\* pkt_btup fails before it has built anything, or at its last switch.
BootReports == {"boot"} \cup (IF "partial" \in Faults THEN {"partial"} ELSE {})
PktBtup(ok, pkt) ==
  \/ ok /\ pkt \in BootReports
  \/ ~ok /\ "build" \in Faults /\ pkt \in BootReports \cup {"empty"}

\* The first boot report is built before the port is opened.
FirstBuild ==
  /\ pc = "build"
  /\ \E ok \in BOOLEAN, pkt \in Reports :
       /\ PktBtup(ok, pkt)
       /\ btup_typ' = (IF ok THEN "BTUP" ELSE "BTUP2")
       /\ buf_btp' = pkt
       /\ broken' = (IF ok THEN broken ELSE broken \cup {"unbuilt"})
  /\ pc' = "start"
  /\ UNCHANGED <<pld, rt_snd, buf_rcv, channel, prs_typ, trouble>>

\* start_srvr: open the port, then accept.
StartSrvr ==
  /\ pc \in {"start", "restart"} /\ pc' = "accept"
  /\ UNCHANGED <<report, rt_snd, buf_rcv, channel, prs_typ, trouble, broken>>

\* The port cannot be opened (at first: socket() fails, which returns 0; for
\* bind() and listen() the process ends, which is ServerRestart).  The loop goes
\* on over a descriptor of nothing: send() and recv() return -1 for ever.
StartFails ==
  /\ pc \in {"start", "restart"} /\ "port" \in Faults
  /\ pc' = "pack"
  /\ UNCHANGED <<report, rt_snd, buf_rcv, channel, prs_typ, trouble, broken>>

Accept ==
  /\ pc = "accept" /\ clnt = "queued"
  /\ peer' = "open" /\ clnt' = "open" /\ down' = <<>> /\ up' = <<>>
  /\ pc' = "pack"
  /\ UNCHANGED <<report, rt_snd, buf_rcv, prs_typ, trouble, broken>>

\* Mutant: the loop goes on to periodic reports once the boot report is sent.
PackMutant ==
  /\ pc = "pack" /\ pc' = "send"
  /\ \/ /\ btup_typ = "PRD"
        /\ pld' = "periodic" \/ ("build" \in Faults /\ pld' = "empty")
        /\ UNCHANGED <<btup_typ, buf_btp>>
     \/ /\ btup_typ = "BTUP"
        /\ pld' = buf_btp /\ btup_typ' = "PRD"
        /\ UNCHANGED buf_btp
     \/ /\ btup_typ = "BTUP2"
        /\ \E ok \in BOOLEAN, pkt \in Reports :
             /\ PktBtup(ok, pkt)
             /\ btup_typ' = (IF ok THEN "PRD" ELSE "BTUP2")
             /\ buf_btp' = pkt /\ pld' = pkt
  /\ UNCHANGED <<rt_snd, buf_rcv, channel, prs_typ, trouble, broken>>

\* BTUP: the same boot report again.  BTUP2: a new one, and if it can be
\* built the next report is periodic without being asked for.
Pack ==
  /\ pc = "pack" /\ pc' = "send"
  /\ \/ /\ btup_typ = "PRD"
        /\ pld' = "periodic" \/ ("build" \in Faults /\ pld' = "empty")
        /\ UNCHANGED <<btup_typ, buf_btp>>
     \/ /\ btup_typ = "BTUP"
        /\ pld' = buf_btp
        /\ UNCHANGED <<btup_typ, buf_btp>>
     \/ /\ btup_typ = "BTUP2"
        /\ \E ok \in BOOLEAN, pkt \in Reports :
             /\ PktBtup(ok, pkt)
             /\ btup_typ' = (IF ok THEN "PRD" ELSE "BTUP2")
             /\ buf_btp' = pkt /\ pld' = pkt
  /\ UNCHANGED <<rt_snd, buf_rcv, channel, prs_typ, trouble, broken>>

\* Mutant: send() is taken to succeed always.
SendMutant ==
  /\ pc = "send" /\ pc' = "recv"
  /\ rt_snd' = 1
  /\ down' = IF peer = "open" THEN Append(down, pld) ELSE down
  /\ UNCHANGED <<report, buf_rcv, peer, clnt, up, prs_typ, trouble, broken>>

\* send() on a connection the other side has closed still succeeds, or ends the
\* process by SIGPIPE (ServerRestart).
Send ==
  /\ pc = "send" /\ pc' = "recv"
  /\ rt_snd' = IF peer = "eof" \/ (peer = "open" /\ Len(down) < MaxQueue) THEN 1 ELSE -1
  /\ down' = IF peer = "open" /\ Len(down) < MaxQueue THEN Append(down, pld) ELSE down
  /\ UNCHANGED <<report, buf_rcv, peer, clnt, up, prs_typ, trouble, broken>>

\* A request in buf_rcv, from this recv() or from an earlier one, is obeyed
\* if the report could be sent.
Obey(request) ==
  IF rt_snd > 0
  THEN /\ btup_typ' = CASE request = "RQST_PRD" -> "PRD"
                        [] request = "RQST_BTP" -> "BTUP2"
                        [] OTHER -> btup_typ
       /\ buf_rcv' = "nothing"
  ELSE buf_rcv' = request /\ UNCHANGED btup_typ

\* Mutant: once reports are periodic, requests are not read any more.
RecvMutant ==
  /\ pc = "recv"
  /\ IF up # <<>> /\ btup_typ # "PRD" THEN up' = Tail(up) /\ Obey(Head(up))
                                      ELSE UNCHANGED up /\ Obey(buf_rcv)
  /\ up # <<>> \/ peer # "eof"
  /\ pc' = "pack"
  /\ UNCHANGED <<buf_btp, pld, rt_snd, peer, clnt, down, prs_typ, trouble, broken>>

Recv ==
  /\ pc = "recv"
  /\ IF up # <<>> THEN up' = Tail(up) /\ Obey(Head(up))
                  ELSE UNCHANGED up /\ Obey(buf_rcv)
  /\ up # <<>> \/ peer # "eof"
  /\ pc' = "pack"
  /\ UNCHANGED <<buf_btp, pld, rt_snd, peer, clnt, down, prs_typ, trouble, broken>>

\* Mutant: with the connection the router forgets that it is periodic.
RecvClosedMutant ==
  /\ pc = "recv" /\ up = <<>> /\ peer = "eof"
  /\ rt_snd' = -1 /\ peer' = "none" /\ pc' = "restart"
  /\ btup_typ' = (IF btup_typ = "PRD" THEN "BTUP" ELSE btup_typ)
  /\ clnt' = IF clnt = "queued" THEN "eof" ELSE clnt
  /\ UNCHANGED <<buf_btp, pld, buf_rcv, down, up, prs_typ, trouble, broken>>

\* recv() returns 0: both descriptors are closed, also the connection of a
\* device that has connected again in the meantime, and the port is opened anew.
RecvClosed ==
  /\ pc = "recv" /\ up = <<>> /\ peer = "eof"
  /\ rt_snd' = -1 /\ peer' = "none" /\ pc' = "restart"
  /\ clnt' = IF clnt = "queued" THEN "eof" ELSE clnt
  /\ UNCHANGED <<report, buf_rcv, down, up, prs_typ, trouble, broken>>

----------------------------------------------------------------------------
(* th_rtr_prd.                                                             *)

\* start_clnt and restart_clnt; the router's queue takes the connection (one
\* that dies there is taken to leave the queue).
Connect ==
  /\ clnt = "connecting" /\ Listening
  /\ clnt' = "queued"
  /\ UNCHANGED <<pc, report, rt_snd, buf_rcv, peer, down, up, prs_typ, trouble, broken>>

\* Requests can be sent only on a connection that is still open.
Request(r) == up' = IF clnt = "open" THEN Append(up, r) ELSE up

\* Mutant: an incomplete boot report is answered as well.
ClientRecvMutant ==
  /\ clnt \in {"open", "eof"} /\ down # <<>>
  /\ down' = Tail(down)
  /\ prs_typ' = IF Head(down) = "boot" THEN "PRD" ELSE prs_typ
  /\ IF prs_typ = "BTP" \/ Head(down) # "periodic"
     THEN Request("RQST_PRD") ELSE UNCHANGED up
  /\ UNCHANGED <<pc, report, rt_snd, buf_rcv, peer, clnt, trouble, broken>>

\* A boot report is looked at until one is complete (get_btp_rcrd), from then
\* on every report that is not periodic is answered with a request.
ClientRecv ==
  /\ clnt \in {"open", "eof"} /\ down # <<>>
  /\ down' = Tail(down)
  /\ prs_typ' = IF Head(down) = "boot" THEN "PRD" ELSE prs_typ
  /\ IF (IF prs_typ = "BTP" THEN Head(down) = "boot" ELSE Head(down) # "periodic")
     THEN Request("RQST_PRD") ELSE UNCHANGED up
  /\ UNCHANGED <<pc, report, rt_snd, buf_rcv, peer, clnt, trouble, broken>>

\* recv() returns 0; prs_typ stays what it is.
ClientClosed ==
  /\ clnt = "eof" /\ down = <<>>
  /\ clnt' = "connecting"
  /\ UNCHANGED <<pc, report, rt_snd, buf_rcv, peer, down, up, prs_typ, trouble, broken>>

----------------------------------------------------------------------------
(* Trouble.                                                                *)

Trouble(kind) == kind \in Faults /\ trouble < MaxTrouble /\ trouble' = trouble + 1

\* What is on its way is lost or still delivered.
Drop ==
  /\ Trouble("drop")
  /\ clnt = "open"
  /\ clnt' = "eof" /\ peer' = "eof"
  /\ down' \in {down, <<>>} /\ up' \in {up, <<>>}
  /\ UNCHANGED <<pc, report, rt_snd, buf_rcv, prs_typ, broken>>

ClientRestart ==
  /\ Trouble("clientRestart")
  /\ prs_typ' = "BTP" /\ clnt' = "connecting" /\ down' = <<>>
  /\ peer' = IF clnt = "open" THEN "eof" ELSE peer
  /\ broken' = IF prs_typ = "PRD" THEN broken \cup {"forgotten"} ELSE broken
  /\ UNCHANGED <<pc, report, rt_snd, buf_rcv, up>>

ServerRestart ==
  /\ Trouble("serverRestart")
  /\ pc' = "build" /\ btup_typ' = "NONE" /\ buf_btp' = "empty" /\ pld' = "empty"
  /\ rt_snd' = -1 /\ buf_rcv' = "nothing" /\ up' = <<>>
  /\ peer' = "none"
  /\ clnt' = IF clnt \in {"queued", "open"} THEN "eof" ELSE clnt
  /\ broken' = {}
  /\ UNCHANGED <<down, prs_typ>>

----------------------------------------------------------------------------
Server == FirstBuild \/ StartSrvr \/ StartFails \/ Accept \/ Pack \/ Send \/ Recv \/ RecvClosed
Client == Connect \/ ClientRecv \/ ClientClosed

Next == Server \/ Client \/ Drop \/ ClientRestart \/ ServerRestart

Spec == Init /\ [][Next]_vars

\* Both programs go on; what was lost need not be lost again.
FairSpec == Spec /\ WF_vars(Server) /\ WF_vars(Client)

----------------------------------------------------------------------------
(* Properties.                                                             *)

\* Every variable has its type; both ends agree that a connection is open.
TypeOK ==
  /\ pc \in {"build", "start", "restart", "accept", "pack", "send", "recv"}
  /\ btup_typ \in {"NONE", "BTUP", "BTUP2", "PRD"}
  /\ buf_btp \in Reports \ {"periodic"} /\ pld \in Reports
  /\ rt_snd \in {-1, 1} /\ buf_rcv \in Requests \cup {"nothing"}
  /\ peer \in {"none", "open", "eof"}
  /\ clnt \in {"connecting", "queued", "open", "eof"}
  /\ peer = "open" <=> clnt = "open"
  /\ prs_typ \in {"BTP", "PRD"}
  /\ down \in Seq(Reports) /\ up \in Seq(Requests) /\ Len(down) <= MaxQueue
  /\ trouble \in 0..MaxTrouble /\ broken \subseteq {"unbuilt", "forgotten"}

\* The router goes over to periodic reports only when the device has a
\* complete boot report, whatever is lost, also by a request it reads late or
\* on the next connection: as long as the router could build its first boot
\* report and the device has not forgotten one.  A restart of the router makes
\* the promise anew.
BootFirst == broken = {} /\ btup_typ = "PRD" => prs_typ = "PRD"

\* Requests do not pile up, however many reports the device cannot read:
\* th_port2 reads one for each report it sends.
RequestsBounded == Len(down) + Len(up) <= MaxQueue + 1

\* When no more is lost both ends are periodic for good, or are for good in one
\* of the five ways of missing each other that the code has.
BothPeriodic == btup_typ = "PRD" /\ prs_typ = "PRD"

\* th_port2 has no port and does not open it again.
Deaf == peer = "none" /\ pc \in {"pack", "send", "recv"}

\* Its boot reports keep failing.
NeverBuilt == btup_typ = "BTUP2"

\* It repeats the boot report that lacks a parameter.
Incomplete == btup_typ = "BTUP" /\ buf_btp = "partial" /\ prs_typ = "BTP"

\* It is periodic without having been asked: its first boot report could not
\* be built, and the one it built after that was lost or lacked a parameter.
Unasked == btup_typ = "PRD" /\ prs_typ = "BTP" /\ "unbuilt" \in broken

\* The device has had its boot report, has been restarted and waits for another
\* one; it would have to ask for it, but RQ_BTP is commented out.
Forgotten == btup_typ = "PRD" /\ prs_typ = "BTP" /\ "forgotten" \in broken

Resynchronised ==
  \/ <>[]BothPeriodic
  \/ <>[]Deaf \/ <>[]NeverBuilt \/ <>[]Incomplete \/ <>[]Unasked \/ <>[]Forgotten

\* The connection keeps the promise of StatusService: th_port2 and th_rtr_prd
\* never go a step back, whatever is lost, read late or read from a connection
\* that is closed, unless a program is restarted, and the device reads no
\* periodic report before it has a whole boot report.  It is void while broken
\* is not empty, and made anew when the router is restarted.
Service == INSTANCE StatusService WITH
  sends <- CASE btup_typ = "NONE" -> "nothing"
             [] btup_typ = "PRD" -> "periodic"
             [] OTHER -> "boot",
  coming <- {down[i] : i \in DOMAIN down},
  knows <- prs_typ = "PRD",
  sound <- broken = {}
ImplementsService == Service!Spec
============================================================================
