-------------------------- MODULE CmdMailboxProofs --------------------------
(***************************************************************************)
(* Proofs about CmdMailbox, for every number of commands, on connections   *)
(* that may be lost.  Nothing is used of the semaphore: the turn iFlg_snd  *)
(* alone protects the command text.                                        *)
(***************************************************************************)
EXTENDS CmdMailbox, TLAPS

\* The turn fits the place each thread is at.
TurnInv ==
  /\ pc["cmd"] \in {"send", "mark"} => iFlg_snd = 1 /\ cCmd_snd # Nothing
  /\ pc["cmd"] \in {"store", "raise", "done"} => iFlg_snd = 2 /\ th_buf # Nothing
  /\ pc["tst"] \in {"write", "request"} => iFlg_snd = 0
  /\ pc["tst"] = "request" \/ iFlg_snd # 0 => cCmd_snd # Nothing

\* A command that has been sent, and its answer, is in at most one place and
\* is the command in the mailbox.
Awaited == iFlg_snd = 2 \/ pc["cmd"] = "mark"
FlightInv ==
  \/ router = <<>> /\ replies = <<>> /\ th_buf = Nothing
  \/ /\ Awaited /\ cCmd_snd # Nothing
     /\ \/ router = <<cCmd_snd>> /\ replies = <<>> /\ th_buf = Nothing
        \/ router = <<>> /\ replies = <<cCmd_snd>> /\ th_buf = Nothing
        \/ router = <<>> /\ replies = <<>> /\ th_buf = cCmd_snd

IInv == TypeOK /\ TurnInv /\ FlightInv

\* The invariant holds at the start.
LEMMA InitInv == Init => IInv
  <1> SUFFICES ASSUME Init PROVE IInv
    OBVIOUS
  <1> USE CommandsAssumption, SemCapAssumption DEF Init, Threads, Nothing
  <1>1. TypeOK
    BY DEF TypeOK, Cmd, Outside, Inside, Waits, AfterWait
  <1>2. TurnInv /\ FlightInv
    BY DEF TurnInv, FlightInv
  <1> QED BY <1>1, <1>2 DEF IInv

\* Sequences of one message.
LEMMA OneMessage ==
  ASSUME NEW c \in Cmd
  PROVE  /\ Append(<<>>, c) = <<c>> /\ <<c>> \in Seq(Cmd)
         /\ Head(<<c>>) = c /\ Tail(<<c>>) = <<>> /\ <<>> \in Seq(Cmd) /\ <<c>> # <<>>
  OBVIOUS

\* Every step keeps it.
LEMMA StepInv == IInv /\ [Next]_vars => IInv'
  <1> SUFFICES ASSUME IInv, [Next]_vars PROVE IInv'
    OBVIOUS
  <1> USE CommandsAssumption, SemCapAssumption DEF IInv, TypeOK, TurnInv, FlightInv, Awaited,
        Threads, Nothing, Cmd, Outside, Inside, Waits, Goto, At, Branch, flags, texts, net
  <1>1. ASSUME NEW t \in Threads, SemWait(t) PROVE IInv'
    BY <1>1 DEF SemWait, AfterWait
  <1>2. ASSUME SemPost("cmd", "post1", IF rt_rcv = "closed" THEN "reconnect" ELSE "wait2") PROVE IInv'
    BY <1>2 DEF SemPost, AfterWait
  <1>3. ASSUME SemPost("cmd", "post2", "recv") PROVE IInv'
    BY <1>3 DEF SemPost, AfterWait
  <1>4. ASSUME SemPost("tst", "postTimer", "loop") PROVE IInv'
    BY <1>4 DEF SemPost, AfterWait
  <1>5. ASSUME SemPost("tst", "postPrinted", "postRsp") PROVE IInv'
    BY <1>5 DEF SemPost, AfterWait
  <1>6. ASSUME SemPost("tst", "postRsp", "loop") PROVE IInv'
    BY <1>6 DEF SemPost, AfterWait
  <1>7. ASSUME CmdRecv PROVE IInv'
    BY <1>7 DEF CmdRecv, AfterWait
  <1>8. ASSUME CmdCheckRequest PROVE IInv'
    BY <1>8 DEF CmdCheckRequest, AfterWait
  <1>9. ASSUME CmdSend PROVE IInv'
    <2>1. cCmd_snd \in Cmd /\ router = <<>> /\ replies = <<>> /\ th_buf = Nothing /\ iFlg_snd = 1
      BY <1>9 DEF CmdSend
    <2>2. router' \in {<<>>, <<cCmd_snd>>} /\ router' \in Seq(Cmd)
      BY <1>9, <2>1, OneMessage DEF CmdSend
    <2>3. TypeOK'
      BY <1>9, <2>2 DEF CmdSend
    <2>4. TurnInv' /\ FlightInv'
      BY <1>9, <2>1, <2>2 DEF CmdSend
    <2> QED BY <2>3, <2>4
  <1>10. ASSUME CmdMark PROVE IInv'
    BY <1>10 DEF CmdMark, AfterWait
  <1>11. ASSUME CmdAck PROVE IInv'
    BY <1>11 DEF CmdAck, AfterWait
  <1>12. ASSUME CmdReconnect PROVE IInv'
    BY <1>12 DEF CmdReconnect, AfterWait
  <1>13. ASSUME CmdCheckAnswer PROVE IInv'
    BY <1>13 DEF CmdCheckAnswer, AfterWait
  <1>14. ASSUME CmdStore PROVE IInv'
    BY <1>14 DEF CmdStore, AfterWait
  <1>15. ASSUME CmdRaise PROVE IInv'
    BY <1>15 DEF CmdRaise, AfterWait
  <1>16. ASSUME CmdDone PROVE IInv'
    BY <1>16 DEF CmdDone, AfterWait
  <1>17. ASSUME TstTimer PROVE IInv'
    BY <1>17 DEF TstTimer, AfterWait
  <1>18. ASSUME TstLook PROVE IInv'
    BY <1>18 DEF TstLook, AfterWait
  <1>19. ASSUME TstCheckTurn PROVE IInv'
    BY <1>19 DEF TstCheckTurn, AfterWait
  <1>20. ASSUME TstWrite PROVE IInv'
    BY <1>20 DEF TstWrite, AfterWait
  <1>21. ASSUME TstRequest PROVE IInv'
    BY <1>21 DEF TstRequest, AfterWait
  <1>22. ASSUME TstCheckAnswer PROVE IInv'
    BY <1>22 DEF TstCheckAnswer, AfterWait
  <1>23. ASSUME TstPrint PROVE IInv'
    BY <1>23 DEF TstPrint, AfterWait
  <1>24. ASSUME TstClear PROVE IInv'
    BY <1>24 DEF TstClear, AfterWait
  <1>25. ASSUME RouterReply PROVE IInv'
    <2>1. /\ router = <<cCmd_snd>> /\ replies = <<>> /\ th_buf = Nothing
          /\ cCmd_snd \in Cmd /\ Awaited
      BY <1>25 DEF RouterReply
    <2>2. router' = <<>> /\ replies' = <<cCmd_snd>> /\ replies' \in Seq(Cmd)
      BY <1>25, <2>1, OneMessage DEF RouterReply
    <2>3. TypeOK'
      BY <1>25, <2>2 DEF RouterReply
    <2>4. TurnInv' /\ FlightInv'
      BY <1>25, <2>1, <2>2 DEF RouterReply
    <2> QED BY <2>3, <2>4
  <1>26. ASSUME LinkDrop PROVE IInv'
    BY <1>26 DEF LinkDrop, AfterWait
  <1>27. ASSUME UNCHANGED vars PROVE IInv'
    BY <1>27 DEF vars, AfterWait
  <1> QED BY <1>1, <1>2, <1>3, <1>4, <1>5, <1>6, <1>7, <1>8, <1>9, <1>10, <1>11, <1>12, <1>13, <1>14, <1>15, <1>16, <1>17, <1>18, <1>19, <1>20, <1>21, <1>22, <1>23, <1>24, <1>25, <1>26, <1>27 DEF Next, CmdStep, TstStep

\* The inductive invariant holds in every reachable state of the program.
THEOREM Invariance == Spec => []IInv
  BY InitInv, StepInv, PTL DEF Spec

\* The types hold for every list of commands.
THEOREM TypeCorrect == Spec => []TypeOK
  BY Invariance, PTL DEF IInv

\* No command is overwritten while it is sent.
THEOREM Intact == Spec => []CommandIntact
  <1>1. IInv => CommandIntact
    BY DEF IInv, TurnInv, CommandIntact
  <1> QED BY <1>1, Invariance, PTL

\* Every answer is put beside the command it answers.
THEOREM Answers == Spec => []AnswersRequest
  <1>1. IInv => AnswersRequest
    BY DEF IInv, TurnInv, FlightInv, AnswersRequest
  <1> QED BY <1>1, Invariance, PTL

\* One command at a time.
THEOREM Outstanding == Spec => []OneOutstanding
  <1>1. IInv => OneOutstanding
    BY DEF IInv, FlightInv, OneOutstanding, Nothing
  <1> QED BY <1>1, Invariance, PTL

----------------------------------------------------------------------------
(* The mailbox implements CommandExchange: writing the turn asks, storing  *)
(* the text answers, giving the turn back closes, printing takes.          *)
LEMMA ExchangeStep == IInv /\ [Next]_vars => [Exchange!Next]_(Exchange!vars)
  <1> SUFFICES ASSUME IInv, [Next]_vars PROVE Exchange!Next \/ UNCHANGED Exchange!vars
    OBVIOUS
  <1> USE DEF IInv, TypeOK, TurnInv, Threads, Nothing, Goto, At, Branch, flags, texts, net,
        Exchange!vars
  <1>1. ASSUME NEW t \in Threads, SemWait(t) PROVE UNCHANGED Exchange!vars
    BY <1>1 DEF SemWait, AfterWait, Waits
  <1>2. ASSUME NEW t \in Threads, NEW a, NEW b, SemPost(t, a, b),
               a \notin {"raise", "done"}, b \notin {"raise", "done"}
        PROVE UNCHANGED Exchange!vars
    BY <1>2 DEF SemPost
  <1>3. CASE CmdStore
    <2>1. th_buf = cCmd_snd
      BY <1>3 DEF CmdStore, FlightInv
    <2>2. Exchange!Answer
      BY <1>3, <2>1 DEF CmdStore, Exchange!Answer
    <2> QED BY <2>2 DEF Exchange!Next
  <1>4. CASE CmdDone
    <2>1. Exchange!Close
      BY <1>4 DEF CmdDone, Exchange!Close
    <2> QED BY <2>1 DEF Exchange!Next
  <1>5. CASE TstRequest
    <2>1. Exchange!Ask
      BY <1>5 DEF TstRequest, Exchange!Ask
    <2> QED BY <2>1 DEF Exchange!Next
  <1>6. CASE TstClear
    <2>1. Exchange!Take
      BY <1>6 DEF TstClear, Exchange!Take
    <2> QED BY <2>1 DEF Exchange!Next
  <1>7. ASSUME \/ CmdRecv \/ CmdCheckRequest \/ CmdSend \/ CmdMark \/ CmdAck \/ CmdReconnect
               \/ CmdCheckAnswer \/ CmdRaise
        PROVE UNCHANGED Exchange!vars
    BY <1>7 DEF CmdRecv, CmdCheckRequest, CmdSend, CmdMark, CmdAck, CmdReconnect,
          CmdCheckAnswer, CmdRaise
  <1>8. ASSUME \/ TstTimer \/ TstLook \/ TstCheckTurn \/ TstWrite \/ TstCheckAnswer \/ TstPrint
        PROVE UNCHANGED Exchange!vars
    BY <1>8 DEF TstTimer, TstLook, TstCheckTurn, TstWrite, TstCheckAnswer, TstPrint
  <1>9. ASSUME RouterReply \/ LinkDrop \/ UNCHANGED vars PROVE UNCHANGED Exchange!vars
    BY <1>9 DEF RouterReply, LinkDrop, vars
  <1>10. CASE CmdStep
    BY <1>10, <1>2, <1>3, <1>4, <1>7 DEF CmdStep
  <1>11. CASE TstStep
    BY <1>11, <1>2, <1>5, <1>6, <1>8 DEF TstStep
  <1> QED
    BY <1>1, <1>8, <1>9, <1>10, <1>11 DEF Next

\* Whatever the semaphore is worth, the mailbox is an exchange of one request and
\* its answer at a time.
THEOREM Refinement == Spec => ImplementsExchange
  <1>1. Init => Exchange!Init
    BY DEF Init, Exchange!Init, Nothing
  <1> QED
    BY <1>1, Invariance, ExchangeStep, PTL DEF Spec, ImplementsExchange, Exchange!Spec
============================================================================
