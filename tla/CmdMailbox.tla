----------------------------- MODULE CmdMailbox -----------------------------
(***************************************************************************)
(* The command mailbox sVEGA_CMD of the IoT device's program.  thd_rtr_cmd *)
(* owns the connection to port 40 of the router: it sends the command it   *)
(* finds in the mailbox and puts the router's answer back.                 *)
(* thd_rtr_cmd_test writes the commands and reads the answers.  Semaphore  *)
(* pth_Inst_Sem guards the mailbox, and iFlg_snd says whose turn it is:    *)
(*   0 write a command, 1 send it, 2 wait for the answer.                  *)
(* Statements between sem_wait and sem_post are steps of their own: the    *)
(* model does not presuppose that the semaphore keeps the threads apart.   *)
(***************************************************************************)
EXTENDS Integers, Sequences

CONSTANTS
  Commands,  \* the commands of cmd_exp, 1..Commands
  SemCap,    \* bound: a higher value of the semaphore blocks no thread either
  Drops      \* TRUE if the connection may be lost

ASSUME CommandsAssumption == Commands \in Nat \ {0}
ASSUME SemCapAssumption == SemCap \in Nat /\ SemCap >= 4
ASSUME DropsAssumption == Drops \in BOOLEAN

VARIABLES
  sem,        \* value of pth_Inst_Sem
  pc,         \* where each thread is
  iFlg_snd, iFlg_rsp, cCmd_snd, cCmd_rsp,   \* sVEGA_CMD
  th_buf,     \* receive buffer of thd_rtr_cmd
  rt_rcv,     \* what recv has returned: "data", "closed" or "nothing"
  i,          \* the command thd_rtr_cmd_test is at
  link,       \* the connection is up
  router,     \* commands on their way to the router or in it
  replies     \* answers on their way to the device

flags == <<iFlg_snd, iFlg_rsp>>
texts == <<cCmd_snd, cCmd_rsp>>
net == <<link, router, replies>>
vars == <<sem, pc, flags, texts, th_buf, rt_rcv, i, net>>

Threads == {"cmd", "tst"}
Cmd == 1..Commands
Nothing == 0

\* sem_wait moves a thread from one of these labels to the next.
AfterWait == [wait1 |-> "check1", wait2 |-> "check2",
              waitTimer |-> "checkTimer", waitRsp |-> "checkRsp"]
Waits == DOMAIN AfterWait

\* The labels at which a thread has called sem_wait and not yet sem_post.
Inside == [cmd |-> {"check1", "send", "mark", "ack", "post1",
                    "check2", "store", "raise", "done", "post2"},
           tst |-> {"checkTimer", "write", "request", "postTimer",
                    "checkRsp", "print", "clear", "postPrinted"}]
Outside == {"recv", "reconnect", "loop", "postRsp"} \cup Waits

Goto(t, label) == pc' = [pc EXCEPT ![t] = label]
At(t, from, to) == pc[t] = from /\ Goto(t, to)
Branch(t, from, cond, yes, no) == At(t, from, IF cond THEN yes ELSE no)

Init ==
  /\ sem = 1
  /\ pc = [t \in Threads |-> IF t = "cmd" THEN "recv" ELSE "loop"]
  /\ iFlg_snd = 0 /\ iFlg_rsp = 0
  /\ cCmd_snd = Nothing /\ cCmd_rsp = Nothing /\ th_buf = Nothing
  /\ rt_rcv = "nothing"
  /\ i = 1
  /\ link = TRUE /\ router = <<>> /\ replies = <<>>

----------------------------------------------------------------------------
SemWait(t) ==
  /\ pc[t] \in Waits /\ sem > 0
  /\ sem' = sem - 1
  /\ Goto(t, AfterWait[pc[t]])
  /\ UNCHANGED <<flags, texts, th_buf, rt_rcv, i, net>>

SemPost(t, from, to) ==
  /\ At(t, from, to)
  /\ sem' = IF sem < SemCap THEN sem + 1 ELSE sem
  /\ UNCHANGED <<flags, texts, th_buf, rt_rcv, i, net>>

----------------------------------------------------------------------------
(* thd_rtr_cmd.                                                            *)

\* recv does not wait.  What it reads replaces the text in th_buf, which is
\* cleared only when it has been handed over.
CmdRecv ==
  /\ At("cmd", "recv", "wait1")
  /\ \/ /\ replies # <<>>
        /\ th_buf' = Head(replies) /\ replies' = Tail(replies) /\ rt_rcv' = "data"
     \/ /\ replies = <<>>
        /\ rt_rcv' = IF link THEN "nothing" ELSE "closed"
        /\ UNCHANGED <<th_buf, replies>>
  /\ UNCHANGED <<sem, flags, texts, i, link, router>>

CmdCheckRequest ==
  /\ Branch("cmd", "check1", iFlg_snd = 1 /\ cCmd_snd # Nothing, "send", "post1")
  /\ UNCHANGED <<sem, flags, texts, th_buf, rt_rcv, i, net>>

\* The result of send is not looked at: on a lost connection the command is
\* gone.
CmdSend ==
  /\ At("cmd", "send", "mark")
  /\ router' = IF link THEN Append(router, cCmd_snd) ELSE router
  /\ UNCHANGED <<sem, flags, texts, th_buf, rt_rcv, i, link, replies>>

CmdMark ==
  /\ At("cmd", "mark", "ack")
  /\ iFlg_snd' = 2
  /\ UNCHANGED <<sem, iFlg_rsp, texts, th_buf, rt_rcv, i, net>>

CmdAck ==
  /\ At("cmd", "ack", "post1")
  /\ iFlg_rsp' = 0
  /\ UNCHANGED <<sem, iFlg_snd, texts, th_buf, rt_rcv, i, net>>

\* restart_clnt tries until the router accepts; the old connection and what
\* was on it are gone.
CmdReconnect ==
  /\ At("cmd", "reconnect", "recv")
  /\ link' = TRUE /\ router' = <<>> /\ replies' = <<>>
  /\ UNCHANGED <<sem, flags, texts, th_buf, rt_rcv, i>>

\* Mutant: the turn goes back as soon as a text is there, before it is stored.
CmdCheckAnswerMutant ==
  /\ Branch("cmd", "check2", iFlg_snd = 2 /\ th_buf # Nothing, "store", "post2")
  /\ iFlg_snd' = IF iFlg_snd = 2 /\ th_buf # Nothing THEN 0 ELSE iFlg_snd
  /\ UNCHANGED <<sem, iFlg_rsp, texts, th_buf, rt_rcv, i, net>>

CmdCheckAnswer ==
  /\ Branch("cmd", "check2", iFlg_snd = 2 /\ th_buf # Nothing, "store", "post2")
  /\ UNCHANGED <<sem, flags, texts, th_buf, rt_rcv, i, net>>

CmdStore ==
  /\ At("cmd", "store", "raise")
  /\ cCmd_rsp' = th_buf
  /\ UNCHANGED <<sem, flags, cCmd_snd, th_buf, rt_rcv, i, net>>

CmdRaise ==
  /\ At("cmd", "raise", "done")
  /\ iFlg_rsp' = 1
  /\ UNCHANGED <<sem, iFlg_snd, texts, th_buf, rt_rcv, i, net>>

\* Mutant: the mailbox is not given back.
CmdDoneMutant ==
  /\ At("cmd", "done", "post2")
  /\ th_buf' = Nothing
  /\ UNCHANGED <<sem, flags, texts, rt_rcv, i, net>>

CmdDone ==
  /\ At("cmd", "done", "post2")
  /\ iFlg_snd' = 0 /\ th_buf' = Nothing
  /\ UNCHANGED <<sem, iFlg_rsp, texts, rt_rcv, i, net>>

----------------------------------------------------------------------------
(* thd_rtr_cmd_test.                                                       *)

\* Every four minutes it looks whether it may write a command, otherwise
\* whether an answer has come.
TstTimer ==
  /\ At("tst", "loop", "waitTimer")
  /\ UNCHANGED <<sem, flags, texts, th_buf, rt_rcv, i, net>>

TstLook ==
  /\ At("tst", "loop", "waitRsp")
  /\ UNCHANGED <<sem, flags, texts, th_buf, rt_rcv, i, net>>

\* Mutant: the turn is not looked at.
TstCheckTurnMutant ==
  /\ At("tst", "checkTimer", "write")
  /\ UNCHANGED <<sem, flags, texts, th_buf, rt_rcv, i, net>>

TstCheckTurn ==
  /\ Branch("tst", "checkTimer", iFlg_snd = 0, "write", "postTimer")
  /\ UNCHANGED <<sem, flags, texts, th_buf, rt_rcv, i, net>>

TstWrite ==
  /\ At("tst", "write", "request")
  /\ cCmd_snd' = i
  /\ UNCHANGED <<sem, flags, cCmd_rsp, th_buf, rt_rcv, i, net>>

TstRequest ==
  /\ At("tst", "request", "postTimer")
  /\ iFlg_snd' = 1
  /\ UNCHANGED <<sem, iFlg_rsp, texts, th_buf, rt_rcv, i, net>>

TstCheckAnswer ==
  /\ Branch("tst", "checkRsp", iFlg_rsp = 1, "print", "postRsp")
  /\ UNCHANGED <<sem, flags, texts, th_buf, rt_rcv, i, net>>

TstPrint ==
  /\ At("tst", "print", "clear")
  /\ UNCHANGED <<sem, flags, texts, th_buf, rt_rcv, i, net>>

\* Mutant: the list of commands is not started over.
TstClearMutant ==
  /\ At("tst", "clear", "postPrinted")
  /\ cCmd_rsp' = Nothing /\ iFlg_rsp' = 0
  /\ i' = i + 1
  /\ UNCHANGED <<sem, iFlg_snd, cCmd_snd, th_buf, rt_rcv, net>>

TstClear ==
  /\ At("tst", "clear", "postPrinted")
  /\ cCmd_rsp' = Nothing /\ iFlg_rsp' = 0
  /\ i' = IF i = Commands THEN 1 ELSE i + 1
  /\ UNCHANGED <<sem, iFlg_snd, cCmd_snd, th_buf, rt_rcv, net>>

----------------------------------------------------------------------------
(* The router (th_port1 sends one answer for each command it receives) and *)
(* the connection.                                                         *)

RouterReply ==
  /\ link /\ router # <<>>
  /\ replies' = Append(replies, Head(router))
  /\ router' = Tail(router)
  /\ UNCHANGED <<sem, pc, flags, texts, th_buf, rt_rcv, i, link>>

LinkDrop ==
  /\ Drops /\ link
  /\ link' = FALSE /\ router' = <<>>
  /\ replies' \in {replies, <<>>}
  /\ UNCHANGED <<sem, pc, flags, texts, th_buf, rt_rcv, i>>

----------------------------------------------------------------------------
CmdStep ==
  \/ CmdRecv \/ CmdCheckRequest \/ CmdSend \/ CmdMark \/ CmdAck
  \/ SemPost("cmd", "post1", IF rt_rcv = "closed" THEN "reconnect" ELSE "wait2")
  \/ CmdReconnect
  \/ CmdCheckAnswer \/ CmdStore \/ CmdRaise \/ CmdDone
  \/ SemPost("cmd", "post2", "recv")

\* The branch that has printed an answer posts twice.
TstStep ==
  \/ TstCheckTurn \/ TstWrite \/ TstRequest
  \/ SemPost("tst", "postTimer", "loop")
  \/ TstCheckAnswer \/ TstPrint \/ TstClear
  \/ SemPost("tst", "postPrinted", "postRsp")
  \/ SemPost("tst", "postRsp", "loop")

Next ==
  \/ \E t \in Threads : SemWait(t)
  \/ CmdStep
  \/ TstTimer \/ TstLook
  \/ TstStep
  \/ RouterReply
  \/ LinkDrop

Spec == Init /\ [][Next]_vars

\* Both threads loop for ever; time passes, so both branches of the test loop
\* are taken again and again; the router answers.
Fairness ==
  /\ \A t \in Threads : SF_vars(SemWait(t))
  /\ WF_vars(CmdStep) /\ WF_vars(TstStep)
  /\ SF_vars(TstTimer) /\ SF_vars(TstLook)
  /\ WF_vars(RouterReply)

FairSpec == Spec /\ Fairness

----------------------------------------------------------------------------
(* Properties.                                                             *)

TypeOK ==
  /\ sem \in 0..SemCap
  /\ pc \in [Threads -> Inside["cmd"] \cup Inside["tst"] \cup Outside]
  /\ iFlg_snd \in 0..2 /\ iFlg_rsp \in 0..1
  /\ cCmd_snd \in Cmd \cup {Nothing} /\ cCmd_rsp \in Cmd \cup {Nothing}
  /\ th_buf \in Cmd \cup {Nothing}
  /\ rt_rcv \in {"data", "closed", "nothing"}
  /\ i \in Cmd
  /\ link \in BOOLEAN /\ router \in Seq(Cmd) /\ replies \in Seq(Cmd)

\* The turn alone keeps a command from being overwritten while thd_rtr_cmd
\* sends it, however often the semaphore has been posted.
CommandIntact == ~(pc["cmd"] \in {"send", "mark"} /\ pc["tst"] \in {"write", "request"})

\* The text thd_rtr_cmd puts into cCmd_rsp answers the command that is in
\* cCmd_snd at that moment, also when connections are lost and made again:
\* thd_rtr_cmd looks only at iFlg_snd, never at what the text answers.
AnswersRequest == pc["cmd"] \in {"store", "raise", "done"} => th_buf = cCmd_snd

\* There is never more than one command or answer under way, so th_buf never
\* mixes two answers.
OneOutstanding ==
  Len(router) + Len(replies) + (IF th_buf = Nothing THEN 0 ELSE 1) <= 1

\* A command that has been written is answered and the mailbox free again, or
\* the connection is lost before.
CommandAnswered == iFlg_snd = 1 ~> iFlg_snd = 0 \/ ~link

\* The mailbox is an exchange of one request and its answer at a time, although
\* the semaphore soon keeps nobody out: what thd_rtr_cmd stores can only be the
\* answer to the command whose turn it is, and the turn goes back to the writer
\* only after that answer has been stored, on whatever connection.
Exchange == INSTANCE CommandExchange WITH
  Requests <- Cmd, None <- Nothing,
  phase <- IF iFlg_snd = 0 THEN "idle"
           ELSE IF pc["cmd"] \in {"raise", "done"} THEN "answered" ELSE "open",
  request <- IF iFlg_snd = 0 THEN Nothing ELSE cCmd_snd,
  answer <- cCmd_rsp
ImplementsExchange == Exchange!Spec
============================================================================
