---------------------------- MODULE Descriptors ----------------------------
(***************************************************************************)
(* The descriptor table of the router's process.  th_port1 and th_port2    *)
(* open files, programs and sockets while the other one does the same, and *)
(* the kernel gives out the lowest number that is free: a number that has  *)
(* been closed soon stands for something else.  A function that closes a   *)
(* number twice, or one it has never opened, closes what the other thread  *)
(* has got in between.                                                     *)
(*                                                                         *)
(* A C function is the sequence of what it does to descriptors (Body); a   *)
(* thread keeps a frame for each function it is in: the operations left    *)
(* and the function's local variables.                                     *)
(***************************************************************************)
EXTENDS Integers, Sequences, FiniteSets

CONSTANTS
  MaxFd,      \* bound: the numbers both threads share
  MaxFaults,  \* bound: how many faults happen in a behaviour, "port" not counted
  Faults,     \* their kinds
  Aftermath   \* bound: FALSE if what follows the first mistaken number is left out

FaultKinds ==
  {"open",    \* a file or a socket cannot be opened, a program cannot be started
   "port",    \* bind() or listen() fails
   "hangup"}  \* the device closes its connection

ASSUME MaxFdAssumption == MaxFd \in Nat \ {0}
ASSUME MaxFaultsAssumption == MaxFaults \in Nat
ASSUME FaultsAssumption == Faults \subseteq FaultKinds
ASSUME AftermathAssumption == Aftermath \in BOOLEAN

Threads == {"th_port1", "th_port2"}

\* Mutant: th_port2 listens somewhere else.
PortMutant == [th_port1 |-> 40, th_port2 |-> 42]

Port == [th_port1 |-> 40, th_port2 |-> 41]
Numbers == 0..MaxFd - 1
Invalid == -1
Free == <<"free", "free", 0>>

VARIABLES
  fds,      \* fds[n]: the thread and the variable n was opened for, and the port
            \* of a socket or connection (0 for files and programs)
  stack,    \* the frames of each thread, the innermost first
  deaf,     \* the thread has gone on although start_srvr has failed
  alive,    \* the process has not ended
  faults,   \* how many faults there have been
  culprit   \* history: the function that was the first to close or use a number
            \* that stood for something else, "deaf" for a deaf thread, or "none"

table == <<fds, stack>>
vars == <<table, deaf, alive, faults, culprit>>

----------------------------------------------------------------------------
(* The operations.  "else" replaces the rest of the function.            *)

Open(s) == [op |-> "open", var |-> s]
Popen(s) == [op |-> "popen", var |-> s]
Close(s) == [op |-> "close", var |-> s]
Pclose(s) == [op |-> "pclose", var |-> s]
IfBad(s, h) == [op |-> "ifBad", var |-> s, else |-> h]
Either(h) == [op |-> "either", else |-> h]
Call(f) == [op |-> "call", fun |-> f]
Again(f) == [op |-> "again", fun |-> f]
Listen(ends) == [op |-> "listen", ends |-> ends] \* from bind to accept
Guarded(f) == [op |-> "guarded", fun |-> f] \* between sem_wait and sem_post
Send == [op |-> "send"]
Recv == [op |-> "recv"]

----------------------------------------------------------------------------
(* The functions.                                                          *)

ReadActiveSimVal == <<Open("fd2"), IfBad("fd2", <<>>), Either(<<Close("fd2")>>), Close("fd2")>>

\* It looks at both results only when both are bad, and reads and closes all the same.
ReadActiveSim == <<Open("fd"), Open("fd2"), Close("fd"), Close("fd2")>>

WrKlog == <<Open("fd"), IfBad("fd", <<Close("fd")>>), Close("fd")>>

CloseBoth == <<Close("gpio"), Close("sim")>>

\* Without the GPIO or when the SIM is in use already it returns at once.  Each
\* of the two publishes and the two writes may fail.
MdmSelSimNdt ==
  <<Call("read_active_simVal"), Either(<<>>),
    Open("gpio"), Open("sim"),
    IfBad("gpio", <<Call("wr_klog")>> \o CloseBoth), IfBad("sim", <<Call("wr_klog")>> \o CloseBoth),
    Either(CloseBoth)>> \o CloseBoth

\* The request is sent by a program; the file is polled until the SIM is there.
MdmSelSim ==
  <<Call("read_active_sim"), Either(<<>>),
    Popen("fp_snd"), IfBad("fp_snd", <<>>),
    Call("read_active_sim"), Again("read_active_sim"), Pclose("fp_snd")>>

\* It tries for a minute to open the modem.
MdmInit == <<Open("ttyFD"), IfBad("ttyFD", <<Close("ttyFD")>>), Either(<<Close("ttyFD")>>)>>

\* Mutant: the return without "inet addr:" forgets the program.
NetStsWithIPMutant == <<Popen("fp"), IfBad("fp", <<Pclose("fp")>>), Either(<<>>), Pclose("fp")>>

NetStsWithIP ==
  <<Popen("fp"), IfBad("fp", <<Pclose("fp")>>), Either(<<Pclose("fp")>>), Pclose("fp")>>

\* After the files it closes fp a second time.  mdm_get_fmwv, in between, logs any
\* number of lines.
GetFmwVer ==
  <<Open("fp"), IfBad("fp", <<Close("fp")>>), Either(<<Close("fp")>>), Close("fp"),
    Again("wr_klog"),
    Popen("fs"), IfBad("fs", <<Call("wr_klog"), Pclose("fs")>>),
    Call("wr_klog"), Either(<<Pclose("fs"), Close("fp")>>),
    Call("wr_klog"), Either(<<Pclose("fs")>>), Pclose("fs"), Close("fp")>>

MdmGetRstIntrvl ==
  <<Open("fp"), IfBad("fp", <<Close("fp")>>), Either(<<Close("fp")>>), Close("fp")>>

\* When one of the first three files cannot be opened it closes three variables,
\* of which the later ones have no value yet.
CloseThree == <<Close("fd0"), Close("fd1"), Close("fd2")>>
GetEthInfo ==
  <<Open("fd0"), IfBad("fd0", CloseThree), Open("fd1"), IfBad("fd1", CloseThree),
    Open("fd2"), IfBad("fd2", CloseThree), Either(CloseThree)>> \o CloseThree
  \o <<Open("fd0"), IfBad("fd0", <<Close("fd0")>>), Close("fd0")>>

ReadMeminfo == <<Open("fd"), Close("fd")>>

GetSysUptm ==
  <<Popen("fd_pop"), Popen("fd_pop2"), IfBad("fd_pop2", <<Pclose("fd_pop2"), Pclose("fd_pop")>>),
    Pclose("fd_pop"), Pclose("fd_pop2")>>

\* Mutant: the program is closed again behind the branches.
GetPingStsMutant ==
  <<Popen("fp_snd"), IfBad("fp_snd", <<Pclose("fp_snd")>>), Pclose("fp_snd"), Pclose("fp_snd")>>

GetPingSts == <<Popen("fp_snd"), IfBad("fp_snd", <<Pclose("fp_snd")>>), Pclose("fp_snd")>>

\* The labels of IMSI, CCID and SPN.
SimLabels == <<Call("read_active_sim"), Again("read_active_sim")>>

PktBtup ==
  MdmInit
  \o <<Call("mdm_selSim_ndt")>> \o SimLabels \o <<Call("get_fmw_ver")>>
  \o <<Call("mdm_selSim_ndt")>> \o SimLabels
  \o <<Call("mdm_selSim"), Close("ttyFD")>>

\* The pack functions in the order of the table: uptime, network and its label,
\* ping and its label, addresses, memory, slot, RAT's label, reset interval.
PktPrd ==
  MdmInit
  \o <<Call("get_sys_uptm"), Call("mdm_get_netSts_withIP"), Call("read_active_simVal"),
       Call("get_ping_sts"), Call("read_active_sim"), Call("get_eth_info"), Call("read_meminfo"),
       Call("read_active_sim"), Call("read_active_sim"), Call("mdm_get_rstIntrvl"), Close("ttyFD")>>

Body ==
  [read_active_simVal |-> ReadActiveSimVal, read_active_sim |-> ReadActiveSim,
   wr_klog |-> WrKlog, mdm_selSim_ndt |-> MdmSelSimNdt, mdm_selSim |-> MdmSelSim,
   mdm_get_netSts_withIP |-> NetStsWithIP, get_fmw_ver |-> GetFmwVer,
   mdm_get_rstIntrvl |-> MdmGetRstIntrvl, get_eth_info |-> GetEthInfo,
   read_meminfo |-> ReadMeminfo, get_sys_uptm |-> GetSysUptm, get_ping_sts |-> GetPingSts,
   pkt_btup |-> PktBtup, pkt_prd |-> PktPrd]

\* start_srvr.  When bind or listen fails at the start the process ends.
StartSrvr(ends) == <<Open("fd_srvr"), Listen(ends)>>

First(t) == (IF t = "th_port2" THEN <<Guarded("pkt_btup")>> ELSE <<>>) \o StartSrvr(TRUE)

\* Mutant: the thread goes on with what it has closed.
ReopenMutant == <<Close("fd_clnt"), Close("fd_srvr"), Recv>>

Reopen == <<Close("fd_clnt"), Close("fd_srvr")>> \o StartSrvr(FALSE)

\* The loop of a thread from its beginning to its next recv().
Round(t) ==
  IF t = "th_port2"
  THEN {<<Send, Recv>>, <<Guarded("pkt_prd"), Send, Recv>>, <<Guarded("pkt_btup"), Send, Recv>>}
  ELSE {<<Recv>>}

\* What follows data that has been received: th_port1 answers, at once or after a
\* SIM switch if the command says so.
Received(t) ==
  IF t = "th_port1" THEN {<<Recv>>, <<Guarded("mdm_selSim"), Send, Recv>>} ELSE Round(t)

----------------------------------------------------------------------------
Frame(f, todo, locals) == [fun |-> f, todo |-> todo, locals |-> locals]
NoLocals == [s \in {} |-> Invalid]

Init ==
  /\ fds = [n \in Numbers |-> Free]
  /\ stack = [t \in Threads |-> <<Frame(t, First(t), NoLocals)>>]
  /\ deaf = [t \in Threads |-> FALSE]
  /\ alive = TRUE /\ faults = 0
  /\ culprit = "none"

Top(t) == Head(stack[t])
Doing(t, op) == alive /\ Top(t).todo # <<>> /\ Head(Top(t).todo).op = op
This(t) == Head(Top(t).todo)
Rest(t) == Tail(Top(t).todo)
Continue(t, todo, locals) == stack' = [stack EXCEPT ![t][1] = Frame(Top(t).fun, todo, locals)]
Go(t) == Continue(t, Rest(t), Top(t).locals)
With(locals, s, n) == [v \in DOMAIN locals \cup {s} |-> IF v = s THEN n ELSE locals[v]]
Assign(t, s, n) == Continue(t, Rest(t), With(Top(t).locals, s, n))

Loop(t, todos, locals) == \E todo \in todos : Continue(t, todo, locals)

\* A call: todo is what is left of the caller.
Enter(t, f, todo) ==
  stack' = [stack EXCEPT ![t] =
    <<Frame(f, Body[f], NoLocals), Frame(Top(t).fun, todo, Top(t).locals)>> \o Tail(@)]

\* A variable without a value may hold any number.
Value(t, s) == IF s \in DOMAIN Top(t).locals THEN {Top(t).locals[s]} ELSE Numbers \cup {Invalid}

\* The kernel gives out the lowest number that is free.
FreeNumbers == {n \in Numbers : fds[n] = Free}
Lowest(n) == n \in FreeNumbers /\ \A k \in FreeNumbers : n <= k
Obtain(n, t, s, port) == Lowest(n) /\ fds' = [fds EXCEPT ![n] = <<t, s, port>>]

Fault(kind) == kind \in Faults /\ faults < MaxFaults /\ faults' = faults + 1

\* Who closes or uses a number that stands for something else.
Touch(t, s, n) ==
  culprit' = IF culprit = "none" /\ n \in Numbers /\ fds[n] # Free /\ <<fds[n][1], fds[n][2]>> # <<t, s>>
             THEN IF deaf[t] THEN "deaf" ELSE Top(t).fun
             ELSE culprit

----------------------------------------------------------------------------
\* open() and socket(): the lowest number that is free, or a failure.
DoOpen(t) ==
  /\ Doing(t, "open")
  /\ LET s == This(t).var IN
       \/ /\ \E n \in Numbers :
               /\ Obtain(n, t, s, IF s = "fd_srvr" THEN Port[t] ELSE 0)
               /\ Assign(t, s, n)
          /\ UNCHANGED faults
       \/ /\ Fault("open")
          /\ Assign(t, s, Invalid) /\ UNCHANGED fds
  /\ UNCHANGED <<deaf, alive, culprit>>

\* popen() keeps one end of a pipe of two.
DoPopen(t) ==
  /\ Doing(t, "popen")
  /\ \/ /\ Cardinality(FreeNumbers) > 1
        /\ \E n \in Numbers : Obtain(n, t, This(t).var, 0) /\ Assign(t, This(t).var, n)
        /\ UNCHANGED faults
     \/ /\ Fault("open")
        /\ Assign(t, This(t).var, Invalid) /\ UNCHANGED fds
  /\ UNCHANGED <<deaf, alive, culprit>>

\* close() of whatever the number stands for; the variable keeps it.
DoClose(t) ==
  /\ Doing(t, "close")
  /\ \E n \in Value(t, This(t).var) :
       /\ fds' = IF n \in Numbers THEN [fds EXCEPT ![n] = Free] ELSE fds
       /\ Touch(t, This(t).var, n)
  /\ Go(t)
  /\ UNCHANGED <<deaf, alive, faults>>

\* All that is left of a process that has ended.
End ==
  /\ alive' = FALSE
  /\ fds' = [n \in Numbers |-> Free]
  /\ stack' = [t \in Threads |-> <<Frame(t, <<Recv>>, NoLocals)>>]
  /\ deaf' = [t \in Threads |-> FALSE]
  /\ UNCHANGED <<faults, culprit>>

\* pclose(NULL) ends the process.
DoPclose(t) ==
  /\ Doing(t, "pclose")
  /\ LET n == Top(t).locals[This(t).var] IN
       IF n = Invalid THEN End
       ELSE /\ fds' = [fds EXCEPT ![n] = Free]
            /\ Touch(t, This(t).var, n)
            /\ Go(t)
            /\ UNCHANGED <<deaf, alive, faults>>

\* sem[0] is taken by a thread that is in a function and given back when it returns.
DoGuarded(t) ==
  /\ Doing(t, "guarded")
  /\ \A u \in Threads : Len(stack[u]) = 1
  /\ Enter(t, This(t).fun, Rest(t))
  /\ UNCHANGED <<fds, deaf, alive, faults, culprit>>

----------------------------------------------------------------------------
(* The ports.                                                              *)

\* A device connects to the listening socket the number stands for, if any.
DoAccept(t) ==
  /\ Doing(t, "listen")
  /\ LET n == Top(t).locals.fd_srvr IN
       /\ n \in Numbers /\ fds[n][2] = "fd_srvr" /\ ~deaf[fds[n][1]]
       /\ \E k \in Numbers :
            /\ Obtain(k, t, "fd_clnt", fds[n][3])
            /\ Loop(t, Round(t), With(Top(t).locals, "fd_clnt", k))
       /\ Touch(t, "fd_srvr", n)
  /\ deaf' = [deaf EXCEPT ![t] = FALSE]
  /\ UNCHANGED <<alive, faults>>

\* socket, bind or listen has failed: the thread goes on, and fd_clnt keeps the
\* number it had or has never had a value.
DoDeaf(t) ==
  /\ Doing(t, "listen")
  /\ Top(t).locals.fd_srvr = Invalid \/ ("port" \in Faults /\ ~This(t).ends)
  /\ Loop(t, Round(t), Top(t).locals)
  /\ deaf' = [deaf EXCEPT ![t] = TRUE]
  /\ UNCHANGED <<fds, alive, faults, culprit>>

DoExit(t) ==
  /\ Doing(t, "listen") /\ This(t).ends
  /\ Top(t).locals.fd_srvr # Invalid /\ "port" \in Faults
  /\ End

Connection(n) == n \in Numbers /\ fds[n][2] = "fd_clnt"

DoSend(t) ==
  /\ Doing(t, "send")
  /\ \E n \in Value(t, "fd_clnt") : Touch(t, "fd_clnt", n)
  /\ Go(t)
  /\ UNCHANGED <<fds, deaf, alive, faults>>

\* Nothing has come (or the number stands for no connection), data have come, or
\* the device has closed the connection.
DoRecv(t) ==
  /\ Doing(t, "recv")
  /\ \E n \in Value(t, "fd_clnt") :
       /\ Touch(t, "fd_clnt", n)
       /\ \/ Loop(t, Round(t), Top(t).locals) /\ UNCHANGED faults
          \/ Connection(n) /\ Loop(t, Received(t), Top(t).locals) /\ UNCHANGED faults
          \/ /\ Connection(n) /\ Fault("hangup")
             /\ Continue(t, Reopen, Top(t).locals)
  /\ UNCHANGED <<fds, deaf, alive>>

----------------------------------------------------------------------------
(* Control: what a thread does between two operations.                     *)

DoReturn(t) == alive /\ Top(t).todo = <<>> /\ stack' = [stack EXCEPT ![t] = Tail(@)]

DoCall(t) == Doing(t, "call") /\ Enter(t, This(t).fun, Rest(t))

DoIfBad(t) ==
  /\ Doing(t, "ifBad")
  /\ IF Top(t).locals[This(t).var] = Invalid
     THEN Continue(t, This(t).else, Top(t).locals) ELSE Go(t)

DoEither(t) == Doing(t, "either") /\ (Go(t) \/ Continue(t, This(t).else, Top(t).locals))

\* The function is called once more, or the loop ends.
DoAgain(t) == Doing(t, "again") /\ (Go(t) \/ Enter(t, This(t).fun, Top(t).todo))

Control(t) ==
  /\ DoReturn(t) \/ DoCall(t) \/ DoIfBad(t) \/ DoEither(t) \/ DoAgain(t)
  /\ UNCHANGED <<fds, deaf, alive, faults, culprit>>

Operation(t) ==
  \/ DoOpen(t) \/ DoPopen(t) \/ DoClose(t) \/ DoPclose(t) \/ DoGuarded(t)
  \/ DoAccept(t) \/ DoDeaf(t) \/ DoExit(t) \/ DoSend(t) \/ DoRecv(t)

\* Control touches nothing the threads share: it comes before the next operation of
\* either thread.
Deciding(t) ==
  \/ Top(t).todo = <<>>
  \/ This(t).op \in {"call", "ifBad", "either", "again"}

Next ==
  /\ culprit = "none" \/ Aftermath
  /\ \E t \in Threads :
       \/ Control(t)
       \/ (\A u \in Threads : ~Deciding(u)) /\ Operation(t)

Spec == Init /\ [][Next]_vars

----------------------------------------------------------------------------
(* Properties.                                                             *)

\* The C variables that hold a descriptor.
Variables ==
  {"fd_srvr", "fd_clnt", "ttyFD", "gpio", "sim", "fp", "fs", "fp_snd", "fd_pop", "fd_pop2",
   "fd", "fd0", "fd1", "fd2"}

\* Type invariant: a number stands for something a thread has opened, a
\* connection or a listening socket belongs to one of the two ports.
TypeOK ==
  /\ fds \in [Numbers -> {Free} \cup (Threads \X Variables \X {0, 40, 41})]
  /\ DOMAIN stack = Threads /\ \A t \in Threads : Len(stack[t]) \in 1..4
  /\ deaf \in [Threads -> BOOLEAN] /\ alive \in BOOLEAN
  /\ faults \in 0..MaxFaults
  /\ culprit \in {"none", "deaf"} \cup Threads \cup DOMAIN Body

\* Whatever fails, no descriptor is lost: what is open is the value of a variable
\* of a function that has not returned.
NoLeak ==
  culprit = "none" =>
    \A n \in Numbers : fds[n] # Free =>
      \E k \in DOMAIN stack[fds[n][1]] :
        LET locals == stack[fds[n][1]][k].locals
        IN fds[n][2] \in DOMAIN locals /\ locals[fds[n][2]] = n

\* As long as no function has mistaken a number, a thread sends and receives on a
\* connection to its own port, however the two threads open and close files
\* between each other's steps; a thread whose port has failed is left out.
OwnConnection ==
  culprit = "none" =>
    \A t \in Threads : (Doing(t, "send") \/ Doing(t, "recv")) /\ ~deaf[t] =>
      fds[Top(t).locals.fd_clnt] = <<t, "fd_clnt", Port[t]>>

\* Of all the functions only two are ever the first to close a number that stands
\* for something else: get_fmw_ver, which closes fp twice, and get_eth_info, which
\* closes variables without a value.  The third is a thread whose port has failed
\* and which goes on with the number of its old connection.
OnlyTheseStray == culprit \in {"none", "get_fmw_ver", "get_eth_info", "deaf"}

\* What README.md says of the two ports (line 4): reports through port 41, commands
\* through port 40.  Checked with its aftermath: it fails.
PortsKeptApart ==
  \A t \in Threads : (Doing(t, "send") \/ Doing(t, "recv")) /\ "fd_clnt" \in DOMAIN Top(t).locals =>
    LET n == Top(t).locals.fd_clnt IN Connection(n) => fds[n][3] = Port[t]
============================================================================
