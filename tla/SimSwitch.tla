----------------------------- MODULE SimSwitch -----------------------------
(***************************************************************************)
(* The router program rtr_bridge: its two threads, th_port1 (commands of   *)
(* port 40) and th_port2 (status reports of port 41), share one modem with *)
(* two SIM slots.  Semaphore sem[0] guards the modem.  A boot report is    *)
(* built by switching to SIM 1, reading it, switching to SIM 2, reading it *)
(* and switching back; a SIM command switches on behalf of the IoT device. *)
(*                                                                         *)
(* Which SIM is in use is kept twice: the GPIO that drives the multiplexer *)
(* and the file ActiveSIMStatus.  th_port2 switches them itself, in steps  *)
(* each of which may fail (mdm_selSim_ndt); the command, and the last      *)
(* switch of a boot report, ask the router's SIM manager, another process, *)
(* and poll the file until it answers or time is up (mdm_selSim).          *)
(***************************************************************************)
EXTENDS Integers

CONSTANTS
  NFields,      \* SIM specific lines of one section of the boot report (imsi, ccid, spn)
  SimCommands,  \* the SIMs the IoT device asks for
  Faults        \* the kinds of failure that may happen

FaultKinds ==
  {"modemOpen",   \* /dev/ttyAT cannot be opened or set up (mdm_init)
   "noAnswer",    \* the modem does not answer an AT command in time
   "early",       \* a switch fails before it has changed anything
   "gpioWrite",   \* the GPIO cannot be written: the SIMs stay without power
   "powerOn",     \* the request to power the SIMs on is not published
   "fileWrite",   \* ActiveSIMStatus cannot be written
   "fileRead",    \* ActiveSIMStatus or the GPIO cannot be read
   "request",     \* the SIM manager never gets the request
   "late",        \* the SIM manager needs longer than RTR_SIM_SWCH_TM
   "mqtt",        \* mqtt_sub_pub fails and destroys the shared instance
   "crash"}       \* the process ends and is started again

ASSUME NFieldsAssumption == NFields \in Nat
ASSUME FaultsAssumption == Faults \subseteq FaultKinds

Threads == {"cmd", "sts"}
Sims == {1, 2}
ASSUME SimCommandsAssumption == SimCommands \subseteq Sims
Err == -1
NoSim == 0      \* an empty value; also "no request in progress"

VARIABLES
  sem,       \* value of sem[0]
  pc,        \* where each thread is
  ret,       \* what the SIM switch a thread called last has returned
  want,      \* the SIM the command asks for, NoSim when it is an UPG command
  btup_typ,  \* kind of packet th_port2 sends: NONE, BTUP, BTUP2 or PRD
  sec,       \* section of the boot report being built
  field,     \* lines of that section already packed
  fill,      \* the values of the section are filled in
  value,     \* SIM the value read last came from, NoSim when there is none
  buf_btp,   \* SIM specific lines of the boot report: [label, from]
  gpio,      \* SIM the GPIO selects
  file,      \* SIM that ActiveSIMStatus names
  power,     \* the SIMs are powered
  request,   \* requests the SIM manager has not started on
  busy,      \* SIM the manager has switched to and not yet reported
  mqtt,      \* the shared mosquitto instance is alive
  settled,   \* history: SIM in use when the modem was released last
  faulted,   \* history: a switch has failed, or was late, or was cut off
  stale      \* history: ... and has left the file wrong with the SIMs powered

threadVars == <<pc, ret, want>>
reportVars == <<btup_typ, sec, field, fill, value, buf_btp>>
simVars == <<gpio, file, power>>
managerVars == <<request, busy>>
history == <<settled, faulted, stale>>
vars == <<sem, threadVars, reportVars, simVars, managerVars, mqtt, history>>

Lines == [label : Sims \cup {Err}, from : Sims \cup {NoSim}]

\* The labels between sem_wait and sem_post.
Holding == {"init", "ndt", "ndtGpio", "ndtOn", "ndtFile", "packRead", "packLabel",
            "sel", "poll", "prd", "upg", "post"}
Free == {"recv", "wait", "top", "net", "sleep"}

Holds(t) == pc[t] \in Holding
ManagerIdle == request = {} /\ busy = NoSim

\* Mutant: both threads switch to the SIM of the last command.
TargetMutant(t) == IF want = NoSim THEN 1 ELSE want

\* The SIM thread t switches to: th_port2 switches to the section's SIM, and
\* to SIM 1 once both sections are packed.
Target(t) == IF t = "cmd" THEN want ELSE 1

Goto(t, label) == pc' = [pc EXCEPT ![t] = label]
Return(t, v) == ret' = [ret EXCEPT ![t] = v]

Init ==
  /\ sem = 1
  /\ pc = [t \in Threads |-> IF t = "cmd" THEN "recv" ELSE "wait"]
  /\ ret = [t \in Threads |-> Err]
  /\ want = NoSim
  /\ btup_typ = "NONE" /\ sec = 1 /\ field = 0 /\ fill = FALSE /\ value = NoSim
  /\ buf_btp = {}
  /\ gpio \in Sims /\ file = gpio /\ power = TRUE
  /\ request = {} /\ busy = NoSim
  /\ mqtt = TRUE
  /\ settled = gpio /\ faulted = FALSE /\ stale = FALSE

----------------------------------------------------------------------------
(* The semaphore.                                                          *)

AfterWait(t) ==
  IF t = "cmd" THEN IF want = NoSim THEN "upg" ELSE "sel"
               ELSE IF btup_typ = "PRD" THEN "prd" ELSE "init"

\* Mutant: the command goes on without the semaphore.
SemWaitMutant(t) ==
  /\ pc[t] = "wait" /\ (t = "cmd" \/ sem > 0)
  /\ sem' = IF t = "cmd" THEN sem ELSE sem - 1
  /\ Goto(t, AfterWait(t))
  /\ UNCHANGED <<ret, want, reportVars, simVars, managerVars, mqtt, history>>

SemWait(t) ==
  /\ pc[t] = "wait" /\ sem > 0
  /\ sem' = sem - 1
  /\ Goto(t, AfterWait(t))
  /\ UNCHANGED <<ret, want, reportVars, simVars, managerVars, mqtt, history>>

\* The first report decides between BTUP and BTUP2, every later one between
\* trying again and going periodic.  pkt_btup returns -1 when its last
\* switch has not returned SIM 1, but leaves the packet in buf_btp.
NextTyp ==
  IF btup_typ = "PRD" THEN "PRD"
  ELSE IF ret["sts"] # 1 THEN "BTUP2"
  ELSE IF btup_typ = "NONE" THEN "BTUP" ELSE "PRD"

AfterPost(t) ==
  IF t = "cmd" THEN "recv"
  ELSE IF btup_typ = "NONE" THEN "top" ELSE "net"

\* Mutant: the error return of pkt_btup skips sem_post.
SemPostMutant(t) ==
  /\ pc[t] = "post"
  /\ sem' = IF t = "sts" /\ btup_typ # "PRD" /\ ret[t] = Err THEN sem ELSE sem + 1
  /\ Goto(t, AfterPost(t))
  /\ btup_typ' = IF t = "sts" THEN NextTyp ELSE btup_typ
  /\ Return(t, Err)
  /\ want' = IF t = "cmd" THEN NoSim ELSE want
  /\ settled' = gpio
  /\ UNCHANGED <<sec, field, fill, value, buf_btp, simVars, managerVars, mqtt,
                 faulted, stale>>

\* Mutant: a command whose switch failed is tried again before it is answered.
SemPostRetryMutant(t) ==
  /\ pc[t] = "post"
  /\ sem' = sem + 1
  /\ LET again == t = "cmd" /\ want # NoSim /\ ret[t] = Err
     IN /\ Goto(t, IF again THEN "wait" ELSE AfterPost(t))
        /\ want' = IF t = "cmd" /\ ~again THEN NoSim ELSE want
  /\ btup_typ' = IF t = "sts" THEN NextTyp ELSE btup_typ
  /\ Return(t, Err)
  /\ settled' = gpio
  /\ UNCHANGED <<sec, field, fill, value, buf_btp, simVars, managerVars, mqtt,
                 faulted, stale>>

SemPost(t) ==
  /\ pc[t] = "post"
  /\ sem' = sem + 1
  /\ Goto(t, AfterPost(t))
  /\ btup_typ' = IF t = "sts" THEN NextTyp ELSE btup_typ
  /\ Return(t, Err)
  /\ want' = IF t = "cmd" THEN NoSim ELSE want        \* cmd_sim_clean
  /\ settled' = gpio
  /\ UNCHANGED <<sec, field, fill, value, buf_btp, simVars, managerVars, mqtt,
                 faulted, stale>>

----------------------------------------------------------------------------
(* mdm_selSim, called by both threads with the modem held.                 *)

SelRead(t) ==
  /\ pc[t] = "sel"
  /\ \/ /\ "fileRead" \in Faults
        /\ Return(t, Err) /\ Goto(t, "post")
        /\ faulted' = TRUE /\ UNCHANGED request
     \/ /\ file = Target(t)                    \* "already active"
        /\ Return(t, file) /\ Goto(t, "post")
        /\ UNCHANGED <<request, faulted>>
     \/ /\ file # Target(t)
        /\ request' = request \cup {Target(t)}
        /\ Goto(t, "poll")
        /\ UNCHANGED <<ret, faulted>>
     \/ /\ file # Target(t) /\ "request" \in Faults
        /\ \/ Return(t, Err) /\ Goto(t, "post")   \* popen fails
           \/ Goto(t, "poll") /\ UNCHANGED ret    \* mosquitto_pub fails
        /\ faulted' = TRUE /\ UNCHANGED request
  /\ UNCHANGED <<sem, want, reportVars, simVars, busy, mqtt, settled, stale>>

\* Mutant: the first poll is taken for an answer.
SelDoneMutant(t) ==
  /\ pc[t] = "poll"
  /\ Return(t, file) /\ Goto(t, "post")
  /\ UNCHANGED <<sem, want, reportVars, simVars, managerVars, mqtt, history>>

SelDone(t) ==
  /\ pc[t] = "poll" /\ file = Target(t)
  /\ Return(t, file) /\ Goto(t, "post")
  /\ UNCHANGED <<sem, want, reportVars, simVars, managerVars, mqtt, history>>

\* Time is up; the last value read is returned.  A manager that is still at
\* work is late: it goes on switching while others use the modem.
SelTimeout(t) ==
  /\ pc[t] = "poll" /\ file # Target(t)
  /\ ManagerIdle \/ "late" \in Faults
  /\ \/ Return(t, file)
     \/ "fileRead" \in Faults /\ Return(t, Err)
  /\ Goto(t, "post")
  /\ faulted' = TRUE
  /\ stale' = (stale \/ ~ManagerIdle)
  /\ UNCHANGED <<sem, want, reportVars, simVars, managerVars, mqtt, settled>>

(* The router's SIM manager: it switches first and reports after.          *)

ManagerSwitch(s) ==
  /\ s \in request /\ busy = NoSim
  /\ request' = request \ {s}
  /\ busy' = s
  /\ gpio' = s /\ power' = TRUE
  /\ UNCHANGED <<sem, threadVars, reportVars, file, mqtt, history>>

ManagerReport ==
  /\ busy # NoSim
  /\ file' = busy
  /\ busy' = NoSim
  /\ UNCHANGED <<sem, threadVars, reportVars, gpio, power, request, mqtt, history>>

----------------------------------------------------------------------------
(* pkt_btup, and mdm_selSim_ndt(sec) in it, by th_port2.                   *)

StsInit ==
  /\ pc["sts"] = "init"
  /\ \/ Goto("sts", "ndt") /\ UNCHANGED ret
     \/ "modemOpen" \in Faults /\ Return("sts", Err) /\ Goto("sts", "post")
  /\ sec' = 1 /\ buf_btp' = {}
  /\ UNCHANGED <<sem, want, btup_typ, field, fill, value, simVars, managerVars,
                 mqtt, history>>

\* The switch returns v: its section is packed whatever v is, but without
\* values when SIM 2 could not be selected.
NdtReturn(v) ==
  /\ Return("sts", v)
  /\ fill' = (sec = 1 \/ v = 2)
  /\ field' = 0
  /\ Goto("sts", "packRead")

NdtFail(mark) == NdtReturn(Err) /\ faulted' = TRUE /\ stale' = (stale \/ mark)

\* publish() on the destroyed instance may fail in any way.
PublishMayFail(kind) == kind \in Faults \/ ~mqtt

NdtCheck ==
  /\ pc["sts"] = "ndt"
  /\ \/ /\ gpio = sec
        /\ NdtReturn(gpio)
        /\ UNCHANGED <<power, faulted, stale>>
     \/ /\ gpio # sec
        /\ power' = FALSE
        /\ Goto("sts", "ndtGpio")
        /\ UNCHANGED <<ret, fill, field, faulted, stale>>
     \/ /\ "early" \in Faults \/ (gpio # sec /\ ~mqtt)
        /\ NdtFail(FALSE) /\ UNCHANGED power
  /\ UNCHANGED <<sem, want, btup_typ, sec, value, buf_btp, gpio, file,
                 managerVars, mqtt, settled>>

NdtGpio ==
  /\ pc["sts"] = "ndtGpio"
  /\ \/ /\ gpio' = sec
        /\ Goto("sts", "ndtOn")
        /\ UNCHANGED <<ret, fill, field, faulted, stale>>
     \/ /\ "gpioWrite" \in Faults
        /\ NdtFail(FALSE) /\ UNCHANGED gpio
  /\ UNCHANGED <<sem, want, btup_typ, sec, value, buf_btp, file, power,
                 managerVars, mqtt, settled>>

NdtOn ==
  /\ pc["sts"] = "ndtOn"
  /\ \/ /\ power' = TRUE
        /\ Goto("sts", "ndtFile")
        /\ UNCHANGED <<ret, fill, field, faulted, stale>>
     \/ /\ PublishMayFail("powerOn")
        /\ NdtFail(FALSE) /\ UNCHANGED power
  /\ UNCHANGED <<sem, want, btup_typ, sec, value, buf_btp, gpio, file,
                 managerVars, mqtt, settled>>

NdtFile ==
  /\ pc["sts"] = "ndtFile"
  /\ \/ /\ file' = sec
        /\ NdtReturn(sec)
        /\ UNCHANGED <<faulted, stale>>
     \/ /\ "fileWrite" \in Faults
        /\ NdtFail(TRUE) /\ UNCHANGED file
  /\ UNCHANGED <<sem, want, btup_typ, sec, value, buf_btp, gpio, power,
                 managerVars, mqtt, settled>>

\* One SIM specific pack function asks the modem ...
PackRead ==
  /\ pc["sts"] = "packRead" /\ field < NFields
  /\ \/ value' = (IF power THEN gpio ELSE NoSim)
     \/ "noAnswer" \in Faults /\ value' = NoSim
  /\ Goto("sts", "packLabel")
  /\ UNCHANGED <<sem, ret, want, btup_typ, sec, field, fill, buf_btp, simVars,
                 managerVars, mqtt, history>>

\* Mutant: the line is named after the section.
PackLabelMutant ==
  /\ pc["sts"] = "packLabel"
  /\ buf_btp' = buf_btp \cup {[label |-> sec, from |-> IF fill THEN value ELSE NoSim]}
  /\ field' = field + 1 /\ value' = NoSim
  /\ Goto("sts", "packRead")
  /\ UNCHANGED <<sem, ret, want, btup_typ, sec, fill, simVars,
                 managerVars, mqtt, history>>

\* ... and then names the line after the SIM ActiveSIMStatus names.
PackLabel ==
  /\ pc["sts"] = "packLabel"
  /\ \E label \in {file} \cup (IF "fileRead" \in Faults THEN {Err} ELSE {}) :
       buf_btp' = buf_btp \cup {[label |-> label, from |-> IF fill THEN value ELSE NoSim]}
  /\ field' = field + 1 /\ value' = NoSim
  /\ Goto("sts", "packRead")
  /\ UNCHANGED <<sem, ret, want, btup_typ, sec, fill, simVars,
                 managerVars, mqtt, history>>

SectionDone ==
  /\ pc["sts"] = "packRead" /\ field = NFields
  /\ IF sec = 1 THEN sec' = 2 /\ Goto("sts", "ndt")
                ELSE sec' = 1 /\ Goto("sts", "sel")
  /\ field' = 0 /\ fill' = FALSE
  /\ UNCHANGED <<sem, ret, want, btup_typ, value, buf_btp, simVars,
                 managerVars, mqtt, history>>

\* pkt_prd reads the modem and selects nothing.  One label of it, NET_STS(n),
\* names the SIM of ActiveSIMStatus, but its value is what ifconfig shows of
\* ppp0; the lines of a periodic report are not in buf_btp.
StsPeriodic ==
  /\ pc["sts"] = "prd"
  /\ Goto("sts", "post")
  /\ UNCHANGED <<sem, ret, want, reportVars, simVars, managerVars, mqtt, history>>

----------------------------------------------------------------------------
(* The loop of th_port2 around the report.                                 *)

StsTop ==
  /\ pc["sts"] = "top"
  /\ Goto("sts", IF btup_typ = "BTUP" THEN "net" ELSE "wait")
  /\ UNCHANGED <<sem, ret, want, reportVars, simVars, managerVars, mqtt, history>>

Answers == {"none", "RQST_PRD", "RQST_BTP"}

\* The packet, complete or not, is given to send().  Only when bytes of it
\* went out, an answer of the IoT device that has arrived is obeyed and
\* th_port2 pauses; otherwise it goes on at once.
StsNet(answer) ==
  /\ pc["sts"] = "net"
  /\ \/ /\ btup_typ' = CASE answer = "RQST_PRD" -> "PRD"
                        [] answer = "RQST_BTP" -> "BTUP2"
                        [] OTHER -> btup_typ
        /\ Goto("sts", "sleep")
     \/ Goto("sts", "top") /\ UNCHANGED btup_typ
  /\ UNCHANGED <<sem, ret, want, sec, field, fill, value, buf_btp, simVars,
                 managerVars, mqtt, history>>

\* The pause of PLD_PRD_INT seconds ends.
StsSleep ==
  /\ pc["sts"] = "sleep"
  /\ Goto("sts", "top")
  /\ UNCHANGED <<sem, ret, want, reportVars, simVars, managerVars, mqtt, history>>

----------------------------------------------------------------------------
(* th_port1: commands that reach the modem or the process.                 *)

CmdSim(n) ==
  /\ pc["cmd"] = "recv"
  /\ want' = n
  /\ Goto("cmd", "wait")
  /\ UNCHANGED <<sem, ret, reportVars, simVars, managerVars, mqtt, history>>

CmdUpg ==
  /\ pc["cmd"] = "recv"
  /\ want' = NoSim
  /\ Goto("cmd", "wait")
  /\ UNCHANGED <<sem, ret, reportVars, simVars, managerVars, mqtt, history>>

\* cmd_op_UPG: mqtt_sub_pub destroys the instance both threads publish with
\* when it cannot subscribe or publish.
CmdUpgDone ==
  /\ pc["cmd"] = "upg"
  /\ \/ UNCHANGED mqtt
     \/ ("mqtt" \in Faults \/ ~mqtt) /\ mqtt' = FALSE
  /\ Goto("cmd", "post")
  /\ UNCHANGED <<sem, ret, want, reportVars, simVars, managerVars, history>>

\* The RST command reboots without taking the semaphore; th_port1 calls
\* exit() when it cannot open its port; a signal ends the process.  The next
\* process finds GPIO, file and power as they were left.
Restart ==
  /\ "crash" \in Faults
  /\ sem' = 1
  /\ pc' = [t \in Threads |-> IF t = "cmd" THEN "recv" ELSE "wait"]
  /\ ret' = [t \in Threads |-> Err]
  /\ want' = NoSim
  /\ btup_typ' = "NONE" /\ sec' = 1 /\ field' = 0 /\ fill' = FALSE /\ value' = NoSim
  /\ buf_btp' = {}
  /\ mqtt' = TRUE
  /\ settled' = gpio
  /\ faulted' = TRUE
  /\ stale' = (stale \/ ~ManagerIdle \/ (power /\ gpio # file))
  /\ UNCHANGED <<simVars, managerVars>>

----------------------------------------------------------------------------
Switching(t) == SelRead(t) \/ SelDone(t) \/ SelTimeout(t)
Manager == ManagerReport \/ \E s \in Sims : ManagerSwitch(s)
Report ==
  \/ StsInit \/ NdtCheck \/ NdtGpio \/ NdtOn \/ NdtFile
  \/ PackRead \/ PackLabel \/ SectionDone \/ StsPeriodic
Command == CmdUpg \/ \E n \in SimCommands : CmdSim(n)

Next ==
  \/ \E t \in Threads : SemWait(t) \/ SemPost(t) \/ Switching(t)
  \/ Manager
  \/ Report
  \/ StsTop
  \/ \E answer \in Answers : StsNet(answer)
  \/ StsSleep
  \/ Command
  \/ CmdUpgDone
  \/ Restart

Spec == Init /\ [][Next]_vars

\* The threads go on; the manager answers, or the poll ends.  A semaphore is
\* not fair.  th_port2 gets it because th_port1 waits for bytes of the IoT
\* device between two commands.  th_port1 gets it for certain only while
\* th_port2 pauses: 15 s are enough to take a semaphore that is free.
Fairness ==
  /\ SF_vars(SemWait("sts"))
  /\ WF_vars(SemWait("cmd"))
  /\ SF_vars(SemWait("cmd") /\ pc["sts"] = "sleep")
  /\ \A t \in Threads : WF_vars(SemPost(t)) /\ WF_vars(Switching(t))
  /\ WF_vars(Manager)
  /\ WF_vars(Report)
  /\ WF_vars(StsTop)
  /\ WF_vars(\E answer \in Answers : StsNet(answer))
  /\ WF_vars(StsSleep)
  /\ WF_vars(CmdUpgDone)

FairSpec == Spec /\ Fairness

----------------------------------------------------------------------------
(* Properties.                                                             *)

Kinds == {"NONE", "BTUP", "BTUP2", "PRD"}

\* Every variable has its type; the semaphore is never posted twice.
TypeOK ==
  /\ sem \in 0..1
  /\ pc \in [Threads -> Holding \cup Free]
  /\ ret \in [Threads -> Sims \cup {Err}]
  /\ want \in Sims \cup {NoSim}
  /\ btup_typ \in Kinds
  /\ sec \in Sims /\ field \in 0..NFields /\ fill \in BOOLEAN
  /\ value \in Sims \cup {NoSim}
  /\ buf_btp \subseteq Lines
  /\ gpio \in Sims /\ file \in Sims /\ power \in BOOLEAN
  /\ request \subseteq Sims /\ busy \in Sims \cup {NoSim}
  /\ mqtt \in BOOLEAN
  /\ settled \in Sims /\ faulted \in BOOLEAN /\ stale \in BOOLEAN

\* The modem is never used by both threads: not while a report is built over
\* two SIM switches, not while a command polls the SIM manager, not after any
\* of their error returns.
ModemExclusive == \A t, u \in Threads : t # u => ~(Holds(t) /\ Holds(u))

\* The value of every line of a boot report comes from the SIM its label names
\* (pack_mdm_imsi and its like take the value from the modem and the label
\* from ActiveSIMStatus), whatever commands arrive while the report is built
\* and whichever switch fails, as long as no failure leaves the file behind
\* SIMs that have power: a failed write of the file, a manager that is late,
\* a process that ends between the two.
LinesTruthful ==
  ~stale => \A l \in buf_btp : l.from = NoSim \/ l.label \in {Err, l.from}

\* "Active_sim = n" is true when it is formed: a command whose switch has
\* returned the SIM asked for has that SIM in use, and powered, when no
\* switch has failed before.
TruthfulReply ==
  pc["cmd"] = "post" /\ want # NoSim /\ ~faulted => ret["cmd"] = want /\ gpio = want /\ power

\* The router offers the service of SimService.
Service == INSTANCE SimService
             WITH active <- settled, pending <- want, sound <- ~faulted
ImplementsService == Service!Spec

\* A command that waits for the modem is answered, if th_port2 goes on
\* pausing.  It pauses after a packet of which bytes went out; while send()
\* fails (its queue is full: MSG_DONTWAIT) it builds report after report and
\* th_port1, which competes for the semaphore, may never get it.
CommandAnswered ==
  []<>(pc["sts"] = "sleep") => (pc["cmd"] = "wait" ~> pc["cmd"] = "recv")

\* Reports keep being handed to send(), whatever is commanded meanwhile and
\* whichever step of a switch fails.
ReportsGoOn == []<>(pc["sts"] = "net")
============================================================================
