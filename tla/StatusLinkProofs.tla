-------------------------- MODULE StatusLinkProofs --------------------------
(***************************************************************************)
(* Proofs about StatusLink, for every set of failures, every number of     *)
(* them and every capacity of the connection.                              *)
(***************************************************************************)
EXTENDS StatusLink, TLAPS

\* While nothing can make the router periodic unasked, a request anywhere on
\* its way to th_port2 means that the device has a complete report.
AskedInv ==
  broken = {}
    => /\ btup_typ # "BTUP2"
       /\ prs_typ = "PRD" \/ (btup_typ # "PRD" /\ buf_rcv = "nothing" /\ up = <<>>)

\* Before the first report there is no type and afterwards there is one.
PhaseInv == btup_typ = "NONE" <=> pc = "build"

\* Between two reports there is room for one report or request less.
RoomInv == Len(down) + Len(up) <= MaxQueue + (IF pc = "recv" THEN 1 ELSE 0)

IInv == TypeOK /\ AskedInv /\ PhaseInv /\ RoomInv

----------------------------------------------------------------------------
\* What the operations on the two queues do to their lengths.
LEMMA ReportQueue ==
  /\ <<>> \in Seq(Reports) /\ Len(<<>>) = 0
  /\ \A q \in Seq(Reports) : Len(q) \in Nat
  /\ \A q \in Seq(Reports), e \in Reports :
       Append(q, e) \in Seq(Reports) /\ Len(Append(q, e)) = Len(q) + 1
  /\ \A q \in Seq(Reports) : q # <<>> =>
       /\ Head(q) \in Reports /\ Tail(q) \in Seq(Reports)
       /\ Len(q) > 0 /\ Len(Tail(q)) = Len(q) - 1
  OBVIOUS

LEMMA RequestQueue ==
  /\ <<>> \in Seq(Requests) /\ Len(<<>>) = 0
  /\ \A q \in Seq(Requests) : Len(q) \in Nat
  /\ \A q \in Seq(Requests), e \in Requests :
       Append(q, e) \in Seq(Requests) /\ Len(Append(q, e)) = Len(q) + 1
  /\ \A q \in Seq(Requests) : q # <<>> =>
       /\ Head(q) \in Requests /\ Tail(q) \in Seq(Requests)
       /\ Len(q) > 0 /\ Len(Tail(q)) = Len(q) - 1
  OBVIOUS

\* The invariant holds at the start.
LEMMA InitInv == Init => IInv
  <1> SUFFICES ASSUME Init PROVE IInv
    OBVIOUS
  <1> USE TroubleAssumption, QueueAssumption, ReportQueue, RequestQueue DEF Init
  <1>1. TypeOK
    BY DEF TypeOK, Reports, Requests
  <1>2. AskedInv
    BY DEF AskedInv
  <1>3. PhaseInv
    BY DEF PhaseInv
  <1>4. RoomInv
    BY DEF RoomInv
  <1> QED BY <1>1, <1>2, <1>3, <1>4 DEF IInv

\* Every step keeps it.
LEMMA StepInv == IInv /\ [Next]_vars => IInv'
  <1> SUFFICES ASSUME IInv, [Next]_vars PROVE IInv'
    OBVIOUS
  <1> USE FaultsAssumption, TroubleAssumption, QueueAssumption, ReportQueue, RequestQueue
      DEF IInv, report, channel
  <1>1. ASSUME FirstBuild PROVE IInv'
    <2>1. TypeOK'
      BY <1>1 DEF TypeOK, Reports, Requests, FirstBuild, PktBtup, BootReports
    <2>2. AskedInv'
      BY <1>1 DEF AskedInv, TypeOK, Requests, FirstBuild, PktBtup, BootReports
    <2>3. PhaseInv'
      BY <1>1 DEF PhaseInv, FirstBuild, PktBtup, BootReports
    <2>4. RoomInv'
      BY <1>1 DEF RoomInv, TypeOK, Reports, Requests, FirstBuild, PktBtup, BootReports
    <2> QED BY <2>1, <2>2, <2>3, <2>4
  <1>2. ASSUME StartSrvr PROVE IInv'
    <2>1. TypeOK'
      BY <1>2 DEF TypeOK, Reports, Requests, StartSrvr
    <2>2. AskedInv'
      BY <1>2 DEF AskedInv, TypeOK, Requests, StartSrvr
    <2>3. PhaseInv'
      BY <1>2 DEF PhaseInv, StartSrvr
    <2>4. RoomInv'
      BY <1>2 DEF RoomInv, TypeOK, Reports, Requests, StartSrvr
    <2> QED BY <2>1, <2>2, <2>3, <2>4
  <1>3. ASSUME Accept PROVE IInv'
    <2>1. TypeOK'
      BY <1>3 DEF TypeOK, Reports, Requests, Accept
    <2>2. AskedInv'
      BY <1>3 DEF AskedInv, TypeOK, Requests, Accept
    <2>3. PhaseInv'
      BY <1>3 DEF PhaseInv, Accept
    <2>4. RoomInv'
      BY <1>3 DEF RoomInv, TypeOK, Reports, Requests, Accept
    <2> QED BY <2>1, <2>2, <2>3, <2>4
  <1>4. ASSUME Pack PROVE IInv'
    <2>1. TypeOK'
      BY <1>4 DEF TypeOK, Reports, Requests, Pack, PktBtup, BootReports
    <2>2. AskedInv'
      BY <1>4 DEF AskedInv, TypeOK, Requests, Pack, PktBtup, BootReports
    <2>3. PhaseInv'
      BY <1>4 DEF PhaseInv, Pack, PktBtup, BootReports
    <2>4. RoomInv'
      BY <1>4 DEF RoomInv, TypeOK, Reports, Requests, Pack, PktBtup, BootReports
    <2> QED BY <2>1, <2>2, <2>3, <2>4
  <1>5. ASSUME Send PROVE IInv'
    <2>1. TypeOK'
      BY <1>5 DEF TypeOK, Reports, Requests, Send
    <2>2. AskedInv'
      BY <1>5 DEF AskedInv, TypeOK, Requests, Send
    <2>3. PhaseInv'
      BY <1>5 DEF PhaseInv, Send
    <2>4. RoomInv'
      BY <1>5 DEF RoomInv, TypeOK, Reports, Requests, Send
    <2> QED BY <2>1, <2>2, <2>3, <2>4
  <1>6. ASSUME Recv PROVE IInv'
    <2>1. TypeOK'
      <3>1. CASE up = <<>>
        BY <1>6, <3>1 DEF TypeOK, Requests, Recv, Obey
      <3>2. CASE up # <<>>
        <4>1. Head(up) = "RQST_PRD" /\ up' \in Seq(Requests)
          BY <1>6, <3>2 DEF TypeOK, Requests, Recv
        <4> QED BY <1>6, <3>2, <4>1 DEF TypeOK, Requests, Recv, Obey
      <3> QED BY <3>1, <3>2
    <2>2. AskedInv'
      BY <1>6 DEF AskedInv, TypeOK, Requests, Recv, Obey
    <2>3. PhaseInv'
      BY <1>6 DEF PhaseInv, Recv, Obey
    <2>4. RoomInv'
      BY <1>6 DEF RoomInv, TypeOK, Reports, Requests, Recv, Obey
    <2> QED BY <2>1, <2>2, <2>3, <2>4
  <1>7. ASSUME RecvClosed PROVE IInv'
    <2>1. TypeOK'
      BY <1>7 DEF TypeOK, Reports, Requests, RecvClosed
    <2>2. AskedInv'
      BY <1>7 DEF AskedInv, TypeOK, Requests, RecvClosed
    <2>3. PhaseInv'
      BY <1>7 DEF PhaseInv, RecvClosed
    <2>4. RoomInv'
      BY <1>7 DEF RoomInv, TypeOK, Reports, Requests, RecvClosed
    <2> QED BY <2>1, <2>2, <2>3, <2>4
  <1>8. ASSUME Connect PROVE IInv'
    <2>1. TypeOK'
      BY <1>8 DEF TypeOK, Reports, Requests, Connect, Listening
    <2>2. AskedInv'
      BY <1>8 DEF AskedInv, TypeOK, Requests, Connect, Listening
    <2>3. PhaseInv'
      BY <1>8 DEF PhaseInv, Connect, Listening
    <2>4. RoomInv'
      BY <1>8 DEF RoomInv, TypeOK, Reports, Requests, Connect, Listening
    <2> QED BY <2>1, <2>2, <2>3, <2>4
  <1>9. ASSUME ClientRecv PROVE IInv'
    <2>1. TypeOK'
      <3>1. down' \in Seq(Reports) /\ Len(down') <= MaxQueue
        BY <1>9 DEF TypeOK, ClientRecv
      <3>2. up' \in Seq(Requests)
        BY <1>9 DEF TypeOK, Requests, ClientRecv, Request
      <3> QED BY <1>9, <3>1, <3>2 DEF TypeOK, ClientRecv
    <2>2. AskedInv'
      BY <1>9 DEF AskedInv, TypeOK, Requests, ClientRecv, Request
    <2>3. PhaseInv'
      BY <1>9 DEF PhaseInv, ClientRecv, Request
    <2>4. RoomInv'
      BY <1>9 DEF RoomInv, TypeOK, Reports, Requests, ClientRecv, Request
    <2> QED BY <2>1, <2>2, <2>3, <2>4
  <1>10. ASSUME ClientClosed PROVE IInv'
    <2>1. TypeOK'
      BY <1>10 DEF TypeOK, Reports, Requests, ClientClosed
    <2>2. AskedInv'
      BY <1>10 DEF AskedInv, TypeOK, Requests, ClientClosed
    <2>3. PhaseInv'
      BY <1>10 DEF PhaseInv, ClientClosed
    <2>4. RoomInv'
      BY <1>10 DEF RoomInv, TypeOK, Reports, Requests, ClientClosed
    <2> QED BY <2>1, <2>2, <2>3, <2>4
  <1>11. ASSUME Drop PROVE IInv'
    <2>1. TypeOK'
      <3>1. down' \in Seq(Reports) /\ Len(down') <= MaxQueue
        <4>1. down' = down \/ down' = <<>>
          BY <1>11 DEF Drop
        <4> QED BY <4>1, Len(<<>>) <= MaxQueue DEF TypeOK
      <3>2. up' \in Seq(Requests)
        BY <1>11 DEF TypeOK, Drop
      <3>3. trouble' \in 0..MaxTrouble
        BY <1>11 DEF TypeOK, Drop, Trouble
      <3> QED BY <1>11, <3>1, <3>2, <3>3 DEF TypeOK, Drop
    <2>2. AskedInv'
      BY <1>11 DEF AskedInv, TypeOK, Requests, Drop, Trouble
    <2>3. PhaseInv'
      BY <1>11 DEF PhaseInv, Drop, Trouble
    <2>4. RoomInv'
      BY <1>11 DEF RoomInv, TypeOK, Reports, Requests, Drop, Trouble
    <2> QED BY <2>1, <2>2, <2>3, <2>4
  <1>12. ASSUME ClientRestart PROVE IInv'
    <2>1. TypeOK'
      BY <1>12 DEF TypeOK, Reports, Requests, ClientRestart, Trouble
    <2>2. AskedInv'
      BY <1>12 DEF AskedInv, TypeOK, Requests, ClientRestart, Trouble
    <2>3. PhaseInv'
      BY <1>12 DEF PhaseInv, ClientRestart, Trouble
    <2>4. RoomInv'
      BY <1>12 DEF RoomInv, TypeOK, Reports, Requests, ClientRestart, Trouble
    <2> QED BY <2>1, <2>2, <2>3, <2>4
  <1>13. ASSUME ServerRestart PROVE IInv'
    <2>1. TypeOK'
      BY <1>13 DEF TypeOK, Reports, Requests, ServerRestart, Trouble
    <2>2. AskedInv'
      BY <1>13 DEF AskedInv, TypeOK, Requests, ServerRestart, Trouble
    <2>3. PhaseInv'
      BY <1>13 DEF PhaseInv, ServerRestart, Trouble
    <2>4. RoomInv'
      BY <1>13 DEF RoomInv, TypeOK, Reports, Requests, ServerRestart, Trouble
    <2> QED BY <2>1, <2>2, <2>3, <2>4
  <1>14. ASSUME StartFails PROVE IInv'
    <2>1. TypeOK'
      BY <1>14 DEF TypeOK, Reports, Requests, StartFails
    <2>2. AskedInv'
      BY <1>14 DEF AskedInv, TypeOK, Requests, StartFails
    <2>3. PhaseInv'
      BY <1>14 DEF PhaseInv, StartFails
    <2>4. RoomInv'
      BY <1>14 DEF RoomInv, TypeOK, Reports, Requests, StartFails
    <2> QED BY <2>1, <2>2, <2>3, <2>4
  <1>15. ASSUME UNCHANGED vars PROVE IInv'
    <2>1. TypeOK'
      BY <1>15 DEF TypeOK, Reports, Requests, vars
    <2>2. AskedInv'
      BY <1>15 DEF AskedInv, TypeOK, Requests, vars
    <2>3. PhaseInv'
      BY <1>15 DEF PhaseInv, vars
    <2>4. RoomInv'
      BY <1>15 DEF RoomInv, TypeOK, Reports, Requests, vars
    <2> QED BY <2>1, <2>2, <2>3, <2>4
  <1> QED BY <1>1, <1>2, <1>3, <1>4, <1>5, <1>6, <1>7, <1>8, <1>9, <1>10, <1>11, <1>12, <1>13, <1>14, <1>15 DEF Next, Server, Client

\* The inductive invariant holds in every reachable state of the program.
THEOREM Invariance == Spec => []IInv
  BY InitInv, StepInv, PTL DEF Spec

\* The types hold.
THEOREM TypeCorrect == Spec => []TypeOK
  BY Invariance, PTL DEF IInv

\* Periodic reports only after a complete boot report.
THEOREM BootComesFirst == Spec => []BootFirst
  <1>1. IInv => BootFirst
    BY DEF IInv, AskedInv, BootFirst
  <1> QED BY <1>1, Invariance, PTL

\* Requests never pile up.
THEOREM NoPile == Spec => []RequestsBounded
  <1>1. IInv => RequestsBounded
    BY QueueAssumption, ReportQueue, RequestQueue DEF IInv, TypeOK, RoomInv, RequestsBounded, Reports, Requests
  <1> QED BY <1>1, Invariance, PTL

----------------------------------------------------------------------------
(* StatusLink implements StatusService.  What is missing to IInv is that   *)
(* the report between Pack and Send is one of btup_typ.                    *)

PackedInv ==
  broken = {}
    => /\ btup_typ = "BTUP" => buf_btp \in {"boot", "partial"}
       /\ pc = "send" /\ btup_typ = "BTUP" => pld \in {"boot", "partial"}
       /\ pc = "send" /\ btup_typ = "PRD" => pld \in {"periodic", "empty"}

LEMMA InitPacked == Init => PackedInv
  BY DEF Init, PackedInv

\* While nothing is broken only FirstBuild builds a boot report, and without
\* a failure; requests change the type only when nothing waits to be sent.
LEMMA StepPacked == IInv /\ PackedInv /\ [Next]_vars => PackedInv'
  <1> SUFFICES ASSUME IInv, PackedInv, [Next]_vars PROVE PackedInv'
    OBVIOUS
  <1> USE DEF IInv, PackedInv, report, channel
  <1>1. CASE FirstBuild
    BY <1>1 DEF FirstBuild, PktBtup, BootReports
  <1>2. CASE StartSrvr \/ StartFails \/ Accept
    BY <1>2 DEF StartSrvr, StartFails, Accept
  <1>3. CASE Pack
    BY <1>3 DEF Pack, AskedInv, TypeOK, PhaseInv
  <1>4. CASE Send
    BY <1>4 DEF Send
  <1>5. CASE Recv
    <2>1. up # <<>> => Head(up) = "RQST_PRD"
      BY RequestQueue DEF TypeOK, Requests
    <2> QED BY <1>5, <2>1 DEF Recv, Obey, TypeOK, Requests
  <1>6. CASE RecvClosed
    BY <1>6 DEF RecvClosed
  <1>7. CASE Client \/ Drop
    BY <1>7 DEF Client, Connect, ClientRecv, ClientClosed, Drop
  <1>8. CASE ClientRestart \/ ServerRestart
    BY <1>8 DEF ClientRestart, ServerRestart
  <1>9. CASE UNCHANGED vars
    BY <1>9 DEF vars
  <1> QED BY <1>1, <1>2, <1>3, <1>4, <1>5, <1>6, <1>7, <1>8, <1>9 DEF Next, Server

\* The reports of a queue.
Kinds(q) == {q[i] : i \in DOMAIN q}

LEMMA KindsOf ==
  /\ Kinds(<<>>) = {}
  /\ \A q \in Seq(Reports), e \in Reports : Kinds(Append(q, e)) = Kinds(q) \cup {e}
  /\ \A q \in Seq(Reports) : q # <<>> => Head(q) \in Kinds(q) /\ Kinds(Tail(q)) \subseteq Kinds(q)
  <1>1. Kinds(<<>>) = {}
    BY DEF Kinds
  <1>2. ASSUME NEW q \in Seq(Reports), NEW e \in Reports
        PROVE  Kinds(Append(q, e)) = Kinds(q) \cup {e}
    <2>1. DOMAIN q = 1..Len(q) /\ Len(q) \in Nat
      OBVIOUS
    <2>2. DOMAIN Append(q, e) = 1..(Len(q) + 1)
      OBVIOUS
    <2>3. \A i \in 1..Len(q) : Append(q, e)[i] = q[i]
      OBVIOUS
    <2>4. Append(q, e)[Len(q) + 1] = e
      OBVIOUS
    <2>5. 1..(Len(q) + 1) = 1..Len(q) \cup {Len(q) + 1}
      BY <2>1
    <2> QED BY <2>1, <2>2, <2>3, <2>4, <2>5 DEF Kinds
  <1>3. ASSUME NEW q \in Seq(Reports), q # <<>>
        PROVE  Head(q) \in Kinds(q) /\ Kinds(Tail(q)) \subseteq Kinds(q)
    <2>1. DOMAIN q = 1..Len(q) /\ Len(q) \in Nat /\ Len(q) > 0
      BY <1>3
    <2>2. Head(q) = q[1]
      BY <1>3
    <2>3. DOMAIN Tail(q) = 1..(Len(q) - 1)
      BY <1>3
    <2>4. \A i \in 1..(Len(q) - 1) : Tail(q)[i] = q[i + 1] /\ i + 1 \in 1..Len(q)
      BY <1>3
    <2>5. 1 \in 1..Len(q)
      BY <2>1
    <2>6. Head(q) \in Kinds(q)
      BY <2>1, <2>2, <2>5 DEF Kinds
    <2>7. Kinds(Tail(q)) \subseteq Kinds(q)
      BY <2>1, <2>3, <2>4 DEF Kinds
    <2> QED BY <2>6, <2>7
  <1> QED BY <1>1, <1>2, <1>3

\* Every step is a step of StatusService or a stutter.  A step that ends the
\* promise is End whatever else it does; of the others, one that goes over to
\* periodic reports obeys a request, so that AskedInv says what the device has.
LEMMA ServiceStep ==
  IInv /\ PackedInv /\ [Next]_vars => [Service!Next]_(Service!vars)
  <1> SUFFICES ASSUME IInv, PackedInv, [Next]_vars
               PROVE  [Service!Next]_(Service!vars)
    OBVIOUS
  <1> DEFINE sends(t) == CASE t = "NONE" -> "nothing"
                           [] t = "PRD" -> "periodic"
                           [] OTHER -> "boot"
             coming == {down[i] : i \in DOMAIN down}
  <1>a. coming = Kinds(down) /\ coming' = Kinds(down')
    BY DEF Kinds
  <1>b. TypeOK /\ AskedInv /\ PhaseInv
    BY DEF IInv
  <1>c. /\ sends("NONE") = "nothing" /\ sends("PRD") = "periodic"
        /\ sends("BTUP") = "boot" /\ sends("BTUP2") = "boot"
    OBVIOUS
  <1> HIDE DEF sends, coming
  <1>d. CASE broken' # {}
    BY <1>d DEF Service!Next, Service!End
  <1>e. CASE broken' = {} /\ broken # {}
    <2>1. ServerRestart
      BY <1>e DEF Next, Server, Client, FirstBuild, StartSrvr, StartFails, Accept, Pack, Send,
           Recv, RecvClosed, Connect, ClientRecv, ClientClosed, Drop, ClientRestart,
           report, channel, vars
    <2>2. btup_typ' = "NONE" /\ down' = down /\ prs_typ' = prs_typ
      BY <2>1 DEF ServerRestart
    <2>3. Service!Restart
      BY <1>e, <2>2, <1>a, <1>c DEF Service!Restart, sends, coming
    <2> QED BY <2>3 DEF Service!Next
  <1>f. CASE broken' = {} /\ broken = {}
    <2> USE <1>f DEF report, channel
    <2>s. ASSUME sends(btup_typ) = sends(btup_typ'), coming = coming', prs_typ = prs_typ'
          PROVE  UNCHANGED Service!vars
      BY <2>s DEF Service!vars, sends, coming
    <2>r. ASSUME sends(btup_typ) = sends(btup_typ'), coming' \subseteq coming,
                 prs_typ = prs_typ' \/ (prs_typ' = "PRD" /\ "boot" \in coming)
          PROVE  Service!Read
      BY <2>r DEF Service!Read, sends, coming
    <2>1. CASE FirstBuild
      <3>1. btup_typ = "NONE" /\ btup_typ' = "BTUP" /\ coming' = coming /\ prs_typ' = prs_typ
        BY <2>1, <1>a, <1>b DEF FirstBuild, PhaseInv
      <3>2. Service!Start
        BY <3>1, <1>c DEF Service!Start, sends, coming
      <3> QED BY <3>2 DEF Service!Next
    <2>2. CASE StartSrvr \/ StartFails \/ RecvClosed \/ Connect \/ ClientClosed \/ UNCHANGED vars
      <3>1. btup_typ' = btup_typ /\ down' = down /\ prs_typ' = prs_typ
        BY <2>2 DEF StartSrvr, StartFails, RecvClosed, Connect, ClientClosed, vars
      <3> QED BY <3>1, <2>s, <1>a
    <2>3. CASE Accept \/ Drop
      <3>1. btup_typ' = btup_typ /\ prs_typ' = prs_typ /\ (down' = down \/ down' = <<>>)
        BY <2>3 DEF Accept, Drop
      <3>2. coming' \subseteq coming
        BY <3>1, <1>a, KindsOf
      <3> QED BY <3>1, <3>2, <2>r DEF Service!Next
    <2>4. CASE Pack
      <3>1. btup_typ' = btup_typ /\ down' = down /\ prs_typ' = prs_typ
        BY <2>4, <1>b DEF Pack, AskedInv
      <3> QED BY <3>1, <2>s, <1>a
    <2>5. CASE Send
      <3>1. btup_typ' = btup_typ /\ prs_typ' = prs_typ
        BY <2>5 DEF Send
      <3>2. CASE down' = down
        BY <3>1, <3>2, <2>s, <1>a
      <3>3. CASE down' # down
        <4>1. down' = Append(down, pld)
          BY <2>5, <3>3 DEF Send
        <4>2. coming' = coming \cup {pld}
          BY <4>1, <1>a, <1>b, KindsOf DEF TypeOK
        <4>3. \/ btup_typ = "BTUP" /\ pld \in {"boot", "partial"}
              \/ btup_typ = "PRD" /\ pld \in {"periodic", "empty"}
          BY <2>5, <1>b DEF Send, PackedInv, TypeOK, AskedInv, PhaseInv
        <4>4. \/ sends(btup_typ) = "boot" /\ pld \in {"boot", "partial"}
              \/ sends(btup_typ) = "periodic" /\ pld \in {"periodic", "empty"}
          BY <4>3, <1>c
        <4>5. Service!Report
          BY <4>2, <4>4, <3>1 DEF Service!Report, sends, coming
        <4> QED BY <4>5 DEF Service!Next
      <3> QED BY <3>2, <3>3
    <2>6. CASE Recv
      <3>1. down' = down /\ prs_typ' = prs_typ
        BY <2>6 DEF Recv
      <3>2. CASE btup_typ' = btup_typ
        BY <3>1, <3>2, <2>s, <1>a
      <3>3. CASE btup_typ' # btup_typ
        <4>1. up # <<>> => Head(up) = "RQST_PRD"
          BY <1>b, RequestQueue DEF TypeOK, Requests
        <4>2. btup_typ' = "PRD" /\ (up # <<>> \/ buf_rcv # "nothing")
          BY <2>6, <3>3, <4>1, <1>b DEF Recv, Obey, TypeOK, Requests
        <4>3. prs_typ = "PRD" /\ btup_typ = "BTUP"
          BY <2>6, <3>3, <4>2, <1>b DEF Recv, AskedInv, TypeOK, PhaseInv
        <4>4. Service!GoPeriodic
          BY <3>1, <4>2, <4>3, <1>a, <1>c DEF Service!GoPeriodic, sends, coming
        <4> QED BY <4>4 DEF Service!Next
      <3> QED BY <3>2, <3>3
    <2>7. CASE ClientRecv
      <3>1. btup_typ' = btup_typ /\ down # <<>> /\ down' = Tail(down)
        BY <2>7 DEF ClientRecv
      <3>2. Head(down) \in coming /\ coming' \subseteq coming
        BY <3>1, <1>a, <1>b, KindsOf DEF TypeOK
      <3>3. prs_typ' = prs_typ \/ (prs_typ' = "PRD" /\ Head(down) = "boot")
        BY <2>7 DEF ClientRecv
      <3> QED BY <3>1, <3>2, <3>3, <2>r DEF Service!Next
    <2>8. CASE ServerRestart
      <3>1. btup_typ' = "NONE" /\ down' = down /\ prs_typ' = prs_typ
        BY <2>8 DEF ServerRestart
      <3>2. Service!Restart
        BY <3>1, <1>a, <1>c DEF Service!Restart, sends, coming
      <3> QED BY <3>2 DEF Service!Next
    <2>9. CASE ClientRestart
      <3>1. btup_typ' = btup_typ /\ prs_typ' = prs_typ /\ down' = <<>>
        BY <2>9, <1>b DEF ClientRestart, TypeOK
      <3>2. coming' \subseteq coming
        BY <3>1, <1>a, KindsOf
      <3> QED BY <3>1, <3>2, <2>r DEF Service!Next
    <2> QED BY <2>1, <2>2, <2>3, <2>4, <2>5, <2>6, <2>7, <2>8, <2>9 DEF Next, Server, Client
  <1> QED BY <1>d, <1>e, <1>f

\* The status connection implements StatusService.
THEOREM Refinement == Spec => ImplementsService
  <1>1. Init => Service!Init
    BY KindsOf DEF Init, Service!Init, Kinds
  <1>2. Spec => []PackedInv
    BY InitPacked, StepPacked, Invariance, PTL DEF Spec
  <1> QED
    BY <1>1, <1>2, Invariance, ServiceStep, PTL DEF Spec, ImplementsService, Service!Spec
============================================================================
