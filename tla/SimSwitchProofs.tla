-------------------------- MODULE SimSwitchProofs --------------------------
(***************************************************************************)
(* Proofs about SimSwitch, for every number of SIM specific lines, every   *)
(* set of SIM commands and every set of failures.                          *)
(***************************************************************************)
EXTENDS SimSwitch, TLAPS

CmdLabels == {"recv", "wait", "sel", "poll", "upg", "post"}
StsLabels == {"wait", "init", "ndt", "ndtGpio", "ndtOn", "ndtFile", "packRead",
              "packLabel", "sel", "poll", "prd", "post", "top", "net", "sleep"}

\* The semaphore counts the threads that hold the modem, and each thread's
\* local variables fit the place it is at.
LeaseInv ==
  /\ pc["cmd"] \in CmdLabels /\ pc["sts"] \in StsLabels
  /\ sem = 0 <=> (Holds("cmd") \/ Holds("sts"))
  /\ ~(Holds("cmd") /\ Holds("sts"))
  /\ pc["cmd"] \in {"sel", "poll"} => want # NoSim
  /\ pc["cmd"] \in {"recv", "upg"} => want = NoSim
  /\ pc["sts"] = "packLabel" => field < NFields

\* The manager works only on the request that is being polled for.
Polling(t) ==
  /\ pc[t] = "poll" /\ file # Target(t)
  /\ \/ busy = NoSim /\ request = {Target(t)}
     \/ busy = Target(t) /\ request = {} /\ gpio = busy

\* What holds of the GPIO, the file and the lines until a failure leaves the
\* file behind powered SIMs.
FileInv ==
  /\ ManagerIdle \/ Polling("cmd") \/ Polling("sts")
  /\ ManagerIdle /\ power /\ pc["sts"] # "ndtFile" => gpio = file
  /\ pc["sts"] \in {"ndtGpio", "ndtOn"} => ~power
  /\ pc["sts"] \in {"ndtOn", "ndtFile"} => gpio = sec
  /\ pc["sts"] = "packLabel" /\ value # NoSim => value = gpio /\ value = file

\* What holds of the SIM in use until a switch fails.
UseInv ==
  /\ ~stale
  /\ power \/ pc["sts"] \in {"ndtGpio", "ndtOn"}
  /\ ~Holds("cmd") /\ ~Holds("sts") => gpio = settled
  /\ pc["cmd"] = "upg" => gpio = settled
  /\ pc["cmd"] = "post" => IF want = NoSim THEN gpio = settled
                                            ELSE ret["cmd"] = want /\ gpio = want
  /\ pc["sts"] \in {"init", "prd"} => gpio = settled
  /\ pc["sts"] = "post" => gpio \in {settled, 1}

FileOK == ~stale => FileInv
UseOK == ~faulted => UseInv

IInv == TypeOK /\ LeaseInv /\ FileOK /\ LinesTruthful /\ UseOK

----------------------------------------------------------------------------
(* Types.  Flags and data are treated apart: the provers are different.    *)

FlagsOK == fill \in BOOLEAN /\ power \in BOOLEAN /\ mqtt \in BOOLEAN
           /\ faulted \in BOOLEAN /\ stale \in BOOLEAN
DataOK ==
  /\ sem \in 0..1
  /\ pc \in [Threads -> Holding \cup Free]
  /\ ret \in [Threads -> Sims \cup {Err}]
  /\ want \in Sims \cup {NoSim}
  /\ btup_typ \in Kinds
  /\ sec \in Sims /\ field \in 0..NFields
  /\ value \in Sims \cup {NoSim}
  /\ buf_btp \subseteq Lines
  /\ gpio \in Sims /\ file \in Sims
  /\ request \subseteq Sims /\ busy \in Sims \cup {NoSim}
  /\ settled \in Sims

LEMMA SplitType == FlagsOK' /\ DataOK' => TypeOK'
  BY Zenon DEF FlagsOK, DataOK, TypeOK

\* Every step keeps the types.
LEMMA TypeStep == IInv /\ [Next]_vars => TypeOK'
  <1> SUFFICES ASSUME IInv, [Next]_vars PROVE TypeOK'
    OBVIOUS
  <1> USE NFieldsAssumption, SimCommandsAssumption DEF IInv, TypeOK, DataOK, LeaseInv,
      CmdLabels, StsLabels, Holds, Holding, Free, Kinds, Lines, Goto, Return, Threads,
      Sims, Err, NoSim, threadVars, reportVars, simVars, managerVars, history
  <1>1. ASSUME NEW t \in Threads, SemWait(t) PROVE TypeOK'
    BY <1>1 DEF SemWait, AfterWait
  <1>2. ASSUME NEW t \in Threads, SemPost(t) PROVE TypeOK'
    BY <1>2 DEF SemPost, AfterPost, NextTyp
  <1>3. ASSUME NEW t \in Threads, SelRead(t) PROVE TypeOK'
    <2>1. FlagsOK'
      BY <1>3, Zenon DEF FlagsOK, SelRead
    <2>2. Target(t) \in Sims
      BY <1>3 DEF SelRead, Target
    <2>3. /\ request' = request \/ request' = request \cup {Target(t)}
          /\ Goto(t, "post") \/ Goto(t, "poll")
          /\ Return(t, Err) \/ Return(t, file) \/ UNCHANGED ret
          /\ UNCHANGED <<sem, want, btup_typ, sec, field, value, buf_btp, gpio, file, busy, settled>>
      BY <1>3, Zenon DEF SelRead
    <2>4. request' \subseteq Sims
      BY <2>2, <2>3
    <2>5. pc' \in [Threads -> Holding \cup Free]
      BY <2>3
    <2>6. ret' \in [Threads -> Sims \cup {Err}]
      BY <2>3
    <2>7. DataOK'
      BY <2>3, <2>4, <2>5, <2>6
    <2> QED
      BY <2>1, <2>7, SplitType
  <1>4. ASSUME NEW t \in Threads, SelDone(t) PROVE TypeOK'
    BY <1>4 DEF SelDone, Target
  <1>5. ASSUME NEW t \in Threads, SelTimeout(t) PROVE TypeOK'
    BY <1>5 DEF SelTimeout, Target
  <1>6. ASSUME NEW s \in Sims, ManagerSwitch(s) PROVE TypeOK'
    BY <1>6 DEF ManagerSwitch
  <1>7. ASSUME ManagerReport PROVE TypeOK'
    BY <1>7 DEF ManagerReport
  <1>8. ASSUME StsInit PROVE TypeOK'
    BY <1>8 DEF StsInit
  <1>9. ASSUME NdtCheck PROVE TypeOK'
    <2>1. FlagsOK'
      BY <1>9, Zenon DEF FlagsOK, NdtCheck, NdtReturn, NdtFail
    <2>2. DataOK'
      BY <1>9 DEF NdtCheck, NdtReturn, NdtFail
    <2> QED
      BY <2>1, <2>2, SplitType
  <1>10. ASSUME NdtGpio PROVE TypeOK'
    <2>1. FlagsOK'
      BY <1>10, Zenon DEF FlagsOK, NdtGpio, NdtReturn, NdtFail
    <2>2. DataOK'
      BY <1>10 DEF NdtGpio, NdtReturn, NdtFail
    <2> QED
      BY <2>1, <2>2, SplitType
  <1>11. ASSUME NdtOn PROVE TypeOK'
    <2>1. FlagsOK'
      BY <1>11, Zenon DEF FlagsOK, NdtOn, NdtReturn, NdtFail
    <2>2. DataOK'
      BY <1>11 DEF NdtOn, NdtReturn, NdtFail
    <2> QED
      BY <2>1, <2>2, SplitType
  <1>12. ASSUME NdtFile PROVE TypeOK'
    <2>1. FlagsOK'
      BY <1>12, Zenon DEF FlagsOK, NdtFile, NdtReturn, NdtFail
    <2>2. DataOK'
      BY <1>12 DEF NdtFile, NdtReturn, NdtFail
    <2> QED
      BY <2>1, <2>2, SplitType
  <1>13. ASSUME PackRead PROVE TypeOK'
    BY <1>13 DEF PackRead
  <1>14. ASSUME PackLabel PROVE TypeOK'
    BY <1>14 DEF PackLabel
  <1>15. ASSUME SectionDone PROVE TypeOK'
    <2>1. FlagsOK'
      BY <1>15, Zenon DEF FlagsOK, SectionDone
    <2>2. DataOK'
      BY <1>15 DEF SectionDone
    <2> QED
      BY <2>1, <2>2, SplitType
  <1>16. ASSUME StsPeriodic PROVE TypeOK'
    BY <1>16 DEF StsPeriodic
  <1>17. ASSUME StsTop PROVE TypeOK'
    BY <1>17 DEF StsTop
  <1>18. ASSUME NEW answer \in Answers, StsNet(answer) PROVE TypeOK'
    BY <1>18 DEF StsNet
  <1>19. ASSUME NEW n \in SimCommands, CmdSim(n) PROVE TypeOK'
    BY <1>19 DEF CmdSim
  <1>20. ASSUME CmdUpg PROVE TypeOK'
    BY <1>20 DEF CmdUpg
  <1>21. ASSUME CmdUpgDone PROVE TypeOK'
    <2>1. FlagsOK'
      BY <1>21, Zenon DEF FlagsOK, CmdUpgDone
    <2>2. DataOK'
      BY <1>21 DEF CmdUpgDone
    <2> QED
      BY <2>1, <2>2, SplitType
  <1>22. ASSUME Restart PROVE TypeOK'
    <2>1. FlagsOK'
      BY <1>22, Zenon DEF FlagsOK, Restart
    <2>2. DataOK'
      BY <1>22 DEF Restart
    <2> QED
      BY <2>1, <2>2, SplitType
  <1>23. ASSUME StsSleep PROVE TypeOK'
    BY <1>23 DEF StsSleep
  <1>24. CASE UNCHANGED vars
    BY <1>24 DEF vars, threadVars, reportVars, simVars, managerVars, history
  <1> QED
    BY <1>1, <1>2, <1>3, <1>4, <1>5, <1>6, <1>7, <1>8, <1>9, <1>10, <1>11, <1>12, <1>13, <1>14, <1>15, <1>16, <1>17, <1>18, <1>19, <1>20, <1>21, <1>22, <1>23, <1>24
    DEF Next, Switching, Manager, Report, Command

----------------------------------------------------------------------------
\* Every step keeps the semaphore equal to the number of free leases.
LEMMA LeaseStep == IInv /\ [Next]_vars => LeaseInv'
  <1> SUFFICES ASSUME IInv, [Next]_vars PROVE LeaseInv'
    OBVIOUS
  <1> USE NFieldsAssumption, SimCommandsAssumption DEF IInv, TypeOK, LeaseInv,
      CmdLabels, StsLabels, Holds, Holding, Goto, Return, Threads, Sims, Err, NoSim,
      threadVars, reportVars, simVars, managerVars, history
  <1>1. ASSUME NEW t \in Threads, SemWait(t) PROVE LeaseInv'
    BY <1>1 DEF SemWait, AfterWait
  <1>2. ASSUME NEW t \in Threads, SemPost(t) PROVE LeaseInv'
    BY <1>2 DEF SemPost, AfterPost, NextTyp
  <1>3. ASSUME NEW t \in Threads, SelRead(t) PROVE LeaseInv'
    BY <1>3 DEF SelRead, Target
  <1>4. ASSUME NEW t \in Threads, SelDone(t) PROVE LeaseInv'
    BY <1>4 DEF SelDone, Target
  <1>5. ASSUME NEW t \in Threads, SelTimeout(t) PROVE LeaseInv'
    BY <1>5 DEF SelTimeout, Target
  <1>6. ASSUME NEW s \in Sims, ManagerSwitch(s) PROVE LeaseInv'
    BY <1>6 DEF ManagerSwitch
  <1>7. ASSUME ManagerReport PROVE LeaseInv'
    BY <1>7 DEF ManagerReport
  <1>8. ASSUME StsInit PROVE LeaseInv'
    BY <1>8 DEF StsInit
  <1>9. ASSUME NdtCheck PROVE LeaseInv'
    BY <1>9 DEF NdtCheck, NdtReturn, NdtFail
  <1>10. ASSUME NdtGpio PROVE LeaseInv'
    BY <1>10 DEF NdtGpio, NdtReturn, NdtFail
  <1>11. ASSUME NdtOn PROVE LeaseInv'
    BY <1>11 DEF NdtOn, NdtReturn, NdtFail
  <1>12. ASSUME NdtFile PROVE LeaseInv'
    BY <1>12 DEF NdtFile, NdtReturn, NdtFail
  <1>13. ASSUME PackRead PROVE LeaseInv'
    BY <1>13 DEF PackRead
  <1>14. ASSUME PackLabel PROVE LeaseInv'
    BY <1>14 DEF PackLabel
  <1>15. ASSUME SectionDone PROVE LeaseInv'
    BY <1>15 DEF SectionDone
  <1>16. ASSUME StsPeriodic PROVE LeaseInv'
    BY <1>16 DEF StsPeriodic
  <1>17. ASSUME StsTop PROVE LeaseInv'
    BY <1>17 DEF StsTop
  <1>18. ASSUME NEW answer \in Answers, StsNet(answer) PROVE LeaseInv'
    BY <1>18 DEF StsNet
  <1>19. ASSUME NEW n \in SimCommands, CmdSim(n) PROVE LeaseInv'
    BY <1>19 DEF CmdSim
  <1>20. ASSUME CmdUpg PROVE LeaseInv'
    BY <1>20 DEF CmdUpg
  <1>21. ASSUME CmdUpgDone PROVE LeaseInv'
    BY <1>21 DEF CmdUpgDone
  <1>22. ASSUME Restart PROVE LeaseInv'
    BY <1>22 DEF Restart
  <1>23. ASSUME StsSleep PROVE LeaseInv'
    BY <1>23 DEF StsSleep
  <1>24. CASE UNCHANGED vars
    BY <1>24 DEF vars, threadVars, reportVars, simVars, managerVars, history
  <1> QED
    BY <1>1, <1>2, <1>3, <1>4, <1>5, <1>6, <1>7, <1>8, <1>9, <1>10, <1>11, <1>12, <1>13, <1>14, <1>15, <1>16, <1>17, <1>18, <1>19, <1>20, <1>21, <1>22, <1>23, <1>24
    DEF Next, Switching, Manager, Report, Command

\* A step that leaves stale unset keeps GPIO and file in agreement, but for
\* the switches in progress.
LEMMA FileStep == IInv /\ [Next]_vars => FileOK'
  <1> SUFFICES ASSUME IInv, [Next]_vars PROVE FileOK'
    OBVIOUS
  <1> USE NFieldsAssumption, SimCommandsAssumption DEF IInv, FileOK, FileInv, TypeOK,
      LeaseInv, CmdLabels, StsLabels, Holds, Holding, Polling, ManagerIdle, Target,
      Goto, Return, Threads, Sims, Err, NoSim, threadVars, reportVars, simVars,
      managerVars, history
  <1>1. ASSUME NEW t \in Threads, SemWait(t) PROVE FileOK'
    BY <1>1 DEF SemWait, AfterWait
  <1>2. ASSUME NEW t \in Threads, SemPost(t) PROVE FileOK'
    BY <1>2 DEF SemPost, AfterPost, NextTyp
  <1>3. ASSUME NEW t \in Threads, SelRead(t) PROVE FileOK'
    BY <1>3 DEF SelRead
  <1>4. ASSUME NEW t \in Threads, SelDone(t) PROVE FileOK'
    BY <1>4 DEF SelDone
  <1>5. ASSUME NEW t \in Threads, SelTimeout(t) PROVE FileOK'
    BY <1>5 DEF SelTimeout
  <1>6. ASSUME NEW s \in Sims, ManagerSwitch(s) PROVE FileOK'
    BY <1>6 DEF ManagerSwitch
  <1>7. ASSUME ManagerReport PROVE FileOK'
    BY <1>7 DEF ManagerReport
  <1>8. ASSUME StsInit PROVE FileOK'
    BY <1>8 DEF StsInit
  <1>9. ASSUME NdtCheck PROVE FileOK'
    BY <1>9 DEF NdtCheck, NdtReturn, NdtFail
  <1>10. ASSUME NdtGpio PROVE FileOK'
    BY <1>10 DEF NdtGpio, NdtReturn, NdtFail
  <1>11. ASSUME NdtOn PROVE FileOK'
    BY <1>11 DEF NdtOn, NdtReturn, NdtFail
  <1>12. ASSUME NdtFile PROVE FileOK'
    BY <1>12 DEF NdtFile, NdtReturn, NdtFail
  <1>13. ASSUME PackRead PROVE FileOK'
    BY <1>13 DEF PackRead
  <1>14. ASSUME PackLabel PROVE FileOK'
    BY <1>14 DEF PackLabel
  <1>15. ASSUME SectionDone PROVE FileOK'
    BY <1>15 DEF SectionDone
  <1>16. ASSUME StsPeriodic PROVE FileOK'
    BY <1>16 DEF StsPeriodic
  <1>17. ASSUME StsTop PROVE FileOK'
    BY <1>17 DEF StsTop
  <1>18. ASSUME NEW answer \in Answers, StsNet(answer) PROVE FileOK'
    BY <1>18 DEF StsNet
  <1>19. ASSUME NEW n \in SimCommands, CmdSim(n) PROVE FileOK'
    BY <1>19 DEF CmdSim
  <1>20. ASSUME CmdUpg PROVE FileOK'
    BY <1>20 DEF CmdUpg
  <1>21. ASSUME CmdUpgDone PROVE FileOK'
    BY <1>21 DEF CmdUpgDone
  <1>22. ASSUME Restart PROVE FileOK'
    BY <1>22 DEF Restart
  <1>23. ASSUME StsSleep PROVE FileOK'
    BY <1>23 DEF StsSleep
  <1>24. CASE UNCHANGED vars
    BY <1>24 DEF vars, threadVars, reportVars, simVars, managerVars, history
  <1> QED
    BY <1>1, <1>2, <1>3, <1>4, <1>5, <1>6, <1>7, <1>8, <1>9, <1>10, <1>11, <1>12, <1>13, <1>14, <1>15, <1>16, <1>17, <1>18, <1>19, <1>20, <1>21, <1>22, <1>23, <1>24
    DEF Next, Switching, Manager, Report, Command

\* No step adds a line whose label and value come from different SIMs.
LEMMA LinesStep == IInv /\ [Next]_vars => LinesTruthful'
  <1> SUFFICES ASSUME IInv, [Next]_vars PROVE LinesTruthful'
    OBVIOUS
  <1> USE DEF IInv, LinesTruthful, FileOK, FileInv, Lines, TypeOK, LeaseInv,
      CmdLabels, StsLabels, Holds, Holding, Polling, ManagerIdle, Target, Goto,
      Return, Threads, Sims, Err, NoSim, threadVars, reportVars, simVars, managerVars,
      history
  <1>1. ASSUME NEW t \in Threads, SemWait(t) PROVE LinesTruthful'
    BY <1>1 DEF SemWait, AfterWait
  <1>2. ASSUME NEW t \in Threads, SemPost(t) PROVE LinesTruthful'
    BY <1>2 DEF SemPost, AfterPost, NextTyp
  <1>3. ASSUME NEW t \in Threads, SelRead(t) PROVE LinesTruthful'
    BY <1>3 DEF SelRead
  <1>4. ASSUME NEW t \in Threads, SelDone(t) PROVE LinesTruthful'
    BY <1>4 DEF SelDone
  <1>5. ASSUME NEW t \in Threads, SelTimeout(t) PROVE LinesTruthful'
    BY <1>5 DEF SelTimeout
  <1>6. ASSUME NEW s \in Sims, ManagerSwitch(s) PROVE LinesTruthful'
    BY <1>6 DEF ManagerSwitch
  <1>7. ASSUME ManagerReport PROVE LinesTruthful'
    BY <1>7 DEF ManagerReport
  <1>8. ASSUME StsInit PROVE LinesTruthful'
    BY <1>8 DEF StsInit
  <1>9. ASSUME NdtCheck PROVE LinesTruthful'
    BY <1>9 DEF NdtCheck, NdtReturn, NdtFail
  <1>10. ASSUME NdtGpio PROVE LinesTruthful'
    BY <1>10 DEF NdtGpio, NdtReturn, NdtFail
  <1>11. ASSUME NdtOn PROVE LinesTruthful'
    BY <1>11 DEF NdtOn, NdtReturn, NdtFail
  <1>12. ASSUME NdtFile PROVE LinesTruthful'
    BY <1>12 DEF NdtFile, NdtReturn, NdtFail
  <1>13. ASSUME PackRead PROVE LinesTruthful'
    BY <1>13 DEF PackRead
  <1>14. ASSUME PackLabel PROVE LinesTruthful'
    BY <1>14 DEF PackLabel
  <1>15. ASSUME SectionDone PROVE LinesTruthful'
    BY <1>15 DEF SectionDone
  <1>16. ASSUME StsPeriodic PROVE LinesTruthful'
    BY <1>16 DEF StsPeriodic
  <1>17. ASSUME StsTop PROVE LinesTruthful'
    BY <1>17 DEF StsTop
  <1>18. ASSUME NEW answer \in Answers, StsNet(answer) PROVE LinesTruthful'
    BY <1>18 DEF StsNet
  <1>19. ASSUME NEW n \in SimCommands, CmdSim(n) PROVE LinesTruthful'
    BY <1>19 DEF CmdSim
  <1>20. ASSUME CmdUpg PROVE LinesTruthful'
    BY <1>20 DEF CmdUpg
  <1>21. ASSUME CmdUpgDone PROVE LinesTruthful'
    BY <1>21 DEF CmdUpgDone
  <1>22. ASSUME Restart PROVE LinesTruthful'
    BY <1>22 DEF Restart
  <1>23. ASSUME StsSleep PROVE LinesTruthful'
    BY <1>23 DEF StsSleep
  <1>24. CASE UNCHANGED vars
    BY <1>24 DEF vars, threadVars, reportVars, simVars, managerVars, history
  <1> QED
    BY <1>1, <1>2, <1>3, <1>4, <1>5, <1>6, <1>7, <1>8, <1>9, <1>10, <1>11, <1>12, <1>13, <1>14, <1>15, <1>16, <1>17, <1>18, <1>19, <1>20, <1>21, <1>22, <1>23, <1>24
    DEF Next, Switching, Manager, Report, Command

\* As long as no switch fails, the SIM in use is the one its last user chose.
LEMMA UseStep == IInv /\ [Next]_vars => UseOK'
  <1> SUFFICES ASSUME IInv, [Next]_vars PROVE UseOK'
    OBVIOUS
  <1> USE NFieldsAssumption, SimCommandsAssumption DEF IInv, UseOK, UseInv, FileOK,
      FileInv, TypeOK, LeaseInv, CmdLabels, StsLabels, Holds, Holding, Polling,
      ManagerIdle, Target, Goto, Return, Threads, Sims, Err, NoSim, threadVars,
      reportVars, simVars, managerVars, history
  <1>1. ASSUME NEW t \in Threads, SemWait(t) PROVE UseOK'
    BY <1>1 DEF SemWait, AfterWait
  <1>2. ASSUME NEW t \in Threads, SemPost(t) PROVE UseOK'
    BY <1>2 DEF SemPost, AfterPost, NextTyp
  <1>3. ASSUME NEW t \in Threads, SelRead(t) PROVE UseOK'
    BY <1>3 DEF SelRead
  <1>4. ASSUME NEW t \in Threads, SelDone(t) PROVE UseOK'
    BY <1>4 DEF SelDone
  <1>5. ASSUME NEW t \in Threads, SelTimeout(t) PROVE UseOK'
    BY <1>5 DEF SelTimeout
  <1>6. ASSUME NEW s \in Sims, ManagerSwitch(s) PROVE UseOK'
    BY <1>6 DEF ManagerSwitch
  <1>7. ASSUME ManagerReport PROVE UseOK'
    BY <1>7 DEF ManagerReport
  <1>8. ASSUME StsInit PROVE UseOK'
    BY <1>8 DEF StsInit
  <1>9. ASSUME NdtCheck PROVE UseOK'
    BY <1>9 DEF NdtCheck, NdtReturn, NdtFail
  <1>10. ASSUME NdtGpio PROVE UseOK'
    BY <1>10 DEF NdtGpio, NdtReturn, NdtFail
  <1>11. ASSUME NdtOn PROVE UseOK'
    BY <1>11 DEF NdtOn, NdtReturn, NdtFail
  <1>12. ASSUME NdtFile PROVE UseOK'
    BY <1>12 DEF NdtFile, NdtReturn, NdtFail
  <1>13. ASSUME PackRead PROVE UseOK'
    BY <1>13 DEF PackRead
  <1>14. ASSUME PackLabel PROVE UseOK'
    BY <1>14 DEF PackLabel
  <1>15. ASSUME SectionDone PROVE UseOK'
    BY <1>15 DEF SectionDone
  <1>16. ASSUME StsPeriodic PROVE UseOK'
    BY <1>16 DEF StsPeriodic
  <1>17. ASSUME StsTop PROVE UseOK'
    BY <1>17 DEF StsTop
  <1>18. ASSUME NEW answer \in Answers, StsNet(answer) PROVE UseOK'
    BY <1>18 DEF StsNet
  <1>19. ASSUME NEW n \in SimCommands, CmdSim(n) PROVE UseOK'
    BY <1>19 DEF CmdSim
  <1>20. ASSUME CmdUpg PROVE UseOK'
    BY <1>20 DEF CmdUpg
  <1>21. ASSUME CmdUpgDone PROVE UseOK'
    BY <1>21 DEF CmdUpgDone
  <1>22. ASSUME Restart PROVE UseOK'
    BY <1>22 DEF Restart
  <1>23. ASSUME StsSleep PROVE UseOK'
    BY <1>23 DEF StsSleep
  <1>24. CASE UNCHANGED vars
    BY <1>24 DEF vars, threadVars, reportVars, simVars, managerVars, history
  <1> QED
    BY <1>1, <1>2, <1>3, <1>4, <1>5, <1>6, <1>7, <1>8, <1>9, <1>10, <1>11, <1>12, <1>13, <1>14, <1>15, <1>16, <1>17, <1>18, <1>19, <1>20, <1>21, <1>22, <1>23, <1>24
    DEF Next, Switching, Manager, Report, Command

----------------------------------------------------------------------------
(* The theorems.                                                           *)

LEMMA InitInv == Init => IInv
  <1> SUFFICES ASSUME Init PROVE IInv
    OBVIOUS
  <1> USE DEF Init, CmdLabels, StsLabels, Holds, Holding, Free, ManagerIdle, Threads, Sims,
              Err, NoSim
  <1>1. FlagsOK
    BY Zenon DEF FlagsOK
  <1>2. DataOK
    BY NFieldsAssumption DEF DataOK, Kinds
  <1>3. TypeOK
    BY <1>1, <1>2, Zenon DEF FlagsOK, DataOK, TypeOK
  <1>4. LeaseInv /\ LinesTruthful
    BY DEF LeaseInv, LinesTruthful
  <1>5. FileOK /\ UseOK
    BY DEF FileOK, FileInv, UseOK, UseInv
  <1> QED
    BY <1>3, <1>4, <1>5 DEF IInv

\* IInv is an inductive invariant of the program.
THEOREM Invariance == Spec => []IInv
  <1>1. IInv /\ [Next]_vars => IInv'
    BY TypeStep, LeaseStep, FileStep, LinesStep, UseStep, Zenon DEF IInv
  <1> QED
    BY InitInv, <1>1, PTL DEF Spec

\* Type correctness; in particular sem[0] is never posted twice.
THEOREM TypeCorrect == Spec => []TypeOK
  <1>1. IInv => TypeOK
    BY DEF IInv
  <1> QED
    BY Invariance, <1>1, PTL

\* th_port1 and th_port2 never use the modem together, whatever fails.
THEOREM MutualExclusion == Spec => []ModemExclusive
  <1>1. IInv => ModemExclusive
    BY DEF IInv, LeaseInv, ModemExclusive, Threads
  <1> QED
    BY Invariance, <1>1, PTL

\* The lines of a boot report name the SIM their value was read from, until a
\* failure leaves ActiveSIMStatus behind SIMs that have power.
THEOREM Truthfulness == Spec => []LinesTruthful
  <1>1. IInv => LinesTruthful
    BY DEF IInv
  <1> QED
    BY Invariance, <1>1, PTL

\* The answer to a SIM command tells the SIM in use, until a switch fails.
THEOREM Reply == Spec => []TruthfulReply
  <1>1. IInv => TruthfulReply
    BY DEF IInv, LeaseInv, UseOK, UseInv, TruthfulReply, Holds, Holding, NoSim
  <1> QED
    BY Invariance, <1>1, PTL

\* A step of the program is a step, or a stutter, of the service.
LEMMA ServiceStep == IInv /\ [Next]_vars => [Service!Next]_(Service!vars)
  <1> SUFFICES ASSUME IInv, [Next]_vars PROVE [Service!Next]_(Service!vars)
    OBVIOUS
  <1> USE DEF Service!Next, Service!vars, Service!Sims, Goto, Return, NoSim, Sims,
              threadVars, reportVars, simVars, managerVars, history
  <1>a. faulted \in BOOLEAN /\ faulted' \in BOOLEAN
    BY TypeStep, Zenon DEF IInv, TypeOK
  <1>b. settled' = settled /\ want' = want /\ faulted' = faulted
          => [Service!Next]_(Service!vars)
    OBVIOUS
  <1>c. faulted => faulted'
    BY DEF Next, SemWait, SemPost, Switching, SelRead, SelDone, SelTimeout, Manager,
           ManagerSwitch, ManagerReport, Report, StsInit, NdtCheck, NdtReturn, NdtFail,
           NdtGpio, NdtOn, NdtFile, PackRead, PackLabel, SectionDone, StsPeriodic, StsTop,
           StsNet, StsSleep, Command, CmdSim, CmdUpg, CmdUpgDone, Restart, vars
  <1>1. CASE faulted'
    BY <1>1, <1>a, Zenon DEF Service!Fail, Service!Unsound
  <1>2. CASE ~faulted' /\ UNCHANGED <<settled, want>>
    BY <1>2, <1>a, <1>b, <1>c, Zenon
  <1>3. ASSUME ~faulted', NEW t \in Threads, SemPost(t) PROVE [Service!Next]_(Service!vars)
    <2>1. ~faulted
      BY <1>3, <1>c
    <2>2. CASE t = "cmd"
      BY <1>3, <2>1, <2>2, <1>a DEF SemPost, Service!Select, IInv, TypeOK, LeaseInv, UseOK,
                               UseInv, Holds, Holding
    <2>3. CASE t = "sts"
      BY <1>3, <2>1, <2>3, <1>a DEF SemPost, Service!Boot, IInv, UseOK, UseInv
    <2> QED
      BY <2>2, <2>3 DEF Threads
  <1>4. ASSUME ~faulted', NEW n \in SimCommands, CmdSim(n) PROVE [Service!Next]_(Service!vars)
    BY <1>4, <1>c, SimCommandsAssumption
    DEF CmdSim, Service!Ask, IInv, LeaseInv
  <1>5. ASSUME ~faulted', CmdUpg PROVE [Service!Next]_(Service!vars)
    BY <1>5, <1>a, <1>b, <1>c DEF CmdUpg, IInv, LeaseInv
  <1>6. \/ UNCHANGED <<settled, want>>
        \/ faulted'
        \/ \E t \in Threads : SemPost(t)
        \/ \E n \in SimCommands : CmdSim(n)
        \/ CmdUpg
    BY DEF Next, SemWait, Switching, SelRead, SelDone, SelTimeout, Manager,
           ManagerSwitch, ManagerReport, Report, StsInit, NdtCheck, NdtReturn, NdtFail,
           NdtGpio, NdtOn, NdtFile, PackRead, PackLabel, SectionDone, StsPeriodic, StsTop,
           StsNet, StsSleep, Command, CmdUpgDone, Restart, vars
  <1> QED
    BY <1>1, <1>2, <1>3, <1>4, <1>5, <1>6

\* Until a switch fails, the program offers its SIMs one operation at a time.
THEOREM Refinement == Spec => ImplementsService
  <1>1. Init => Service!Init
    BY DEF Init, Service!Init, Service!Sims, Sims, NoSim
  <1> QED
    BY <1>1, Invariance, ServiceStep, PTL DEF Spec, ImplementsService, Service!Spec
============================================================================
