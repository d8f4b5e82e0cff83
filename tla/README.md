# Verification of VEGA: the router bridge and the IoT device

This directory holds TLA+ models of the two programs of this repository, the
TLC configurations that check them on small instances, and proofs, checked by
TLAPS, of what holds for every instance. The models are read from the C code;
`PROJECT.json` maps every definition to the lines it stands for, and lists the
runs, the mutants (plausible bugs that each property catches), the hazards, the
findings and the theorems.

1. [The system](#1-the-system)
2. [Inventory](#2-inventory)
3. [Modules](#3-modules-and-how-they-correspond-to-the-code)
4. [Runs](#4-runs-what-each-shows-and-its-bounds)
5. [Fairness](#5-fairness)
6. [Proofs](#6-proofs)
7. [Findings](#7-findings-and-what-else-was-noticed)
8. [What is assumed of the outside](#8-what-is-assumed-of-the-outside)
9. [What is abstracted and what is not modelled](#9-what-is-abstracted-and-what-is-not-modelled)
10. [Plan](#10-plan)

## 1. The system

Two programs talk over TCP on a local network.

*The router's program*, `rtr_bridge` (`src/src_rtr_bridge`, built from
`prj_init/main_1.c`), runs on a cellular router with one modem and two SIM slots.
It has three threads that matter:

- `th_port1` (`include/socket/socket.c`) serves **port 40**: it receives a text
  command such as `$RTR+SIM=1`, parses and verifies it (`parser/`, `cmd/`),
  carries it out and answers.
- `th_port2` serves **port 41**: it builds a *boot report* by visiting both SIMs
  and reading some twenty quantities from the modem and from files, sends it
  until it is asked for *periodic reports*, and then sends one of these every 15 s.
- the thread of the mosquitto library calls `mqtt_calBak_msg` with the answers
  of other programs of the router.

Outside are the modem on `/dev/ttyAT`, the router's *SIM manager* (asked over
MQTT to switch SIMs; it says which SIM is active in the file `ActiveSIMStatus`),
and the *upgrade agent* (asked over MQTT by the UPG command).

*The device's program* (`src/v2_rtr_thd`), on the IoT device VEGA, has

- `thd_rtr_cmd`, the client of port 40, and `thd_rtr_cmd_test`, which feeds it
  commands through the mailbox `sVEGA_CMD`;
- `th_rtr_prd`, the client of port 41, which parses reports into a record.

```
 device                                      router
 thd_rtr_cmd_test                            th_port1 --sem[0]-- th_port2
    | sVEGA_CMD, pth_Inst_Sem                  |  \      \        /  |
 thd_rtr_cmd  <------- port 40, text ------->  |   \    modem, SIM   |
 th_rtr_prd   <------- port 41, reports ---------------------------->|
                                               |     GPIO, ActiveSIMStatus
                                         mqtt_sub_pub   |
                                               |     SIM manager
                                         mqtt_calBak_msg -- upgrade agent
```

They interact through calls (parser, verifiers, pack and parse functions),
shared state (`sem[0]`, the modem, `ActiveSIMStatus`, the mosquitto instance, the
hidden state of `strtok()`, the descriptor table of the process, `sVEGA_CMD`), messages (two TCP connections, MQTT)
and one callback (`mqtt_calBak_msg`).

## 2. Inventory

| Component (source) | State it keeps | Operations | What is hard | What makes it correct | Modules |
|---|---|---|---|---|---|
| SIM switching, the shared modem (`mdm_operation.c`, `mdm_payload.c`, `socket.c`) | `sem[0]`, GPIO, `ActiveSIMStatus`, SIM power, `btup_typ`, the boot report | `mdm_selSim`, `mdm_selSim_ndt`, `pkt_btup`, SIM/UPG/RST | two threads, another process, every step may fail, answers after the time-out, restarts | the modem is never shared; labels and answers are true; every command is answered | `SimService`, `SimSwitch`, `MCSimSwitch`, `SimSwitchProofs` |
| Command thread, parser, verifiers (`socket.c`, `parser.c`, `cmd/`) | `CMD_ALL`, `cmd_ex_sts`, `th_buf`, the place of `strtok()` | `cmd_parse`, `cmd_split`, `cmd_verify_*`, the operations | what earlier commands leave behind; `strtok()` shared with `th_port2`; lost connections | a command is carried out and answered for what it says | `CommandPort`, `MCCommandPort`, `CommandPortProofs` |
| Status thread and the device's (`socket.c`, `vega_thrds.c`, `vega_sock.c`) | `btup_typ`, `buf_btp`, `buf_rcv`, `prs_typ`, the connection | build, send, obey; parse, request; connect again | lost reports, only one end restarting, requests read late | periodic reports only after a whole boot report; both ends agree in the end | `StatusService`, `StatusLink`, `StatusLinkProofs` |
| The router's descriptors (`mdm_operation.c`, `basic.c`, `socket.c`) | the descriptor table, the local variables that hold numbers | `open`, `popen`, `socket`, `accept`, `close`, `pclose` of fourteen functions and both threads | two threads share the numbers; early returns; numbers closed twice or never opened | nothing leaks; a thread closes and uses only its own | `Descriptors`, `MCDescriptors`, `DescriptorsProofs` |
| Payload and parser of reports (`mdm_payload.c`, `parser_mdm.c`) | lines of a report, the record `sVEGA_PRD` | 20 pack functions, 30 parse functions, two loops over tables | labels agreed on by spelling only, missing values, both sections with one SIM, left-overs of earlier reports | every field shows its own quantity, SIM and report | `Payload`, `ReportParser`, `Report`, `ReportProofs` |
| Device's command mailbox (`vega_thrds.c`) | `iFlg_snd`, `iFlg_rsp`, `cCmd_snd`, `cCmd_rsp`, `pth_Inst_Sem` | write, send, store, print | a semaphore posted too often, lost connections | a command stays whole, an answer is its own | `CommandExchange`, `CmdMailbox`, `CmdMailboxProofs` |
| MQTT requests (`mqtt.c`, `cmd_upg.c`) | `caMsg`, `iTpq_no`, the instance | `mqtt_sub_pub`, `mqtt_calBak_msg`, `cmd_op_UPG` | callback on another thread without a lock, late answers, destroyed instance | a request returns its own answer, and ends | `MqttRequest`, `MqttRequestProofs` |
| Modem AT commands (`mdm_operation.c`) | the serial line, the read buffer | `fd_ctrl`, `mdm_rsp`, `mdm_get_*` | an answer after its time-out is read by the next call | a value is the value asked for | `ModemAT`, `ModemATProofs` |
| Main, thread start (`main_1.c`) | initial values | start threads | – | – | `Init` of `SimSwitch`, `MqttRequest` |
| Client sockets (`vega_sock.c`) | the connection | `start_clnt`, `restart_clnt` | – | connects again after every loss | in `StatusLink`, `CmdMailbox` |
| Basic helpers (`basic.c`) | none | `is_numeric`, `split_line`, ... | the shared `strtok()` | – | in `CommandPort`, `Descriptors` |
| Ring buffer, process check, older copies, experiments, build configuration | – | – | – | – | not modelled, see [9](#9-what-is-abstracted-and-what-is-not-modelled) |

The hazards, each at its line, with the properties that cover it, are listed in
`PROJECT.json`.

## 3. Modules and how they correspond to the code

Variables carry the names of the code where it has names; a variable marked
*history* in a module is read by properties only. Every `XMutant` operator is a
plausible bug in `X`; nothing but the mutants of `PROJECT.json` uses it.

**SimService** (abstract). What the router promises of its SIMs, one operation
at a time: `Ask`, `Select`, `Boot`; nothing is promised after `Fail`.

**SimSwitch** (`th_port1` and `th_port2` as far as they touch the SIMs; implements
`SimService` with `active <- settled, pending <- want, sound <- ~faulted`).
`sem` is `sem[0]`; `pc[t]` the place of each thread, with a step between any two
statements that another thread or process can tell apart; `gpio`, `file` and
`power` are what the hardware and `ActiveSIMStatus` hold; `request` and `busy` are
the SIM manager's. `SemWait`/`SemPost` are the semaphore calls of both threads;
`SelRead`/`SelDone`/`SelTimeout` are `mdm_selSim`; `NdtCheck`/`NdtGpio`/`NdtOn`/`NdtFile`
are `mdm_selSim_ndt` with its error returns in order; `PackRead` and `PackLabel` are
the two reads of a SIM specific pack function; `SectionDone` the sequence of
`pkt_btup`; `StsTop`/`StsNet`/`StsSleep` the loop of `th_port2`, which pauses only after
a packet of which bytes went out (`socket.c:568`); `CmdSim`/`CmdUpg`/`CmdUpgDone` the
commands; `Restart` is RST, `exit()` and signals. `stale` and `faulted` record which
failures have happened: the properties say what holds until then.

**CommandExchange** (abstract). An exchange of commands, one at a time: `Ask`,
`Answer` (the only text that becomes an answer is that to the open request),
`Close` (the next request may come), `Take` (the text is taken away, also unread).

**CmdMailbox** (implements `CommandExchange`; `thd_rtr_cmd`, `thd_rtr_cmd_test`, statement by statement). The
statements *inside* the semaphore are steps too, because the semaphore is posted
twice after every answer (`SemPost("tst", "postPrinted", ..)` and
`SemPost("tst", "postRsp", ..)`): the model does not presuppose exclusion. In the
refinement a request is open from the moment `iFlg_snd` is set until its answer has
been stored, and answered until the flag is cleared.

**StatusService** (abstract). The two phases of the status connection: `Start`
(boot reports), `Report`, `Read` (read or lost; a whole boot report is what the
device learns from), `GoPeriodic` (the device has learnt), `Restart` of the router;
nothing is promised after `End`.

**StatusLink** (`th_port2` against `th_rtr_prd`; implements `StatusService` with `sends` for
`btup_typ`, `coming` the reports in `down`, `knows <- prs_typ = "PRD"` and
`sound <- broken = {}`; `broken`, history, holds what voids the promise: a first boot
report that could not be built, a device that has forgotten its own; a restart of
the router makes the promise anew). `pc` goes through `FirstBuild`,
`StartSrvr` or `StartFails`, `Accept`, `Pack`, `Send`, `Recv`; `down` and `up` are the two directions
of the connection. A report is complete (`boot`), incomplete (`partial`), `periodic`
or `empty`.

**Descriptors** (both threads' use of the descriptor table). `Body` says for each C
function, in the order of its statements, what it opens, closes and calls and
where it returns early; `stack[t]` are the frames of a thread (operations left,
local variables), `fds[n]` what the number `n` stands for. One action for each
kind of operation (`DoOpen`, `DoPopen`, `DoClose`, ..) and one for each kind of
control (`DoCall`, `DoReturn`, `DoIfBad`, `DoEither`, `DoAgain`). Control touches nothing
that the threads share, so a thread's control comes before the next operation of
either thread (`Deciding`). `sem[0]` is held from a `Guarded` call to its
return. A variable without a value may hold any number, at each use. `culprit`
(history) is the first function to close or use a number that has become
something else.

**MqttRequest** (`cmd_op_UPG`, `mqtt_sub_pub`, `mqtt_calBak_msg`). A text is the
number of the request it answers, so that an answer to another request can be
told from one's own. The callback's three writes (`caMsg`, `iTpq_no = -1`,
`iTpq_no = topic`) are three steps. An answer of more than `SZ_MQTT_MSG` bytes
(`TooLong`) leaves `caMsg` empty.

**Payload** → **ReportParser** → **Report**. `Payload` has one operator per pack
function and the table (`pack_func_init`); `ReportParser` one per parse function,
the table (`prs_mdm_init`), `get_btp_rcrd` and `get_prd_rcrd`; `Report` the two
loops (`BtupFirst`/`BtupSecond`, `PktPrd`) and the device's reading of them
(`ReadBoot`, `ReadPeriodic`). A line is `<<name, number, value>>` and its place; a
value is where it comes from: quantity, SIM, report. `Slips` are the failures that
a pack function does not learn of: `get_fmw_ver` goes on without the modem's version
or the release, `mdm_get_model` and `mdm_get_sn` return 0 without a value; the line is
then written without one, and counted. `missed` (history) is what could not be read,
`lacking` the slips in the boot report the device has accepted.

**CommandPort** (`th_port1` as a whole). A text is a sequence of words and
delimiters. Each call of `strtok()` in `cmd_split` is a step (`Equals1`, `Equals2`,
`Plus1`, `Plus2`, `PlusDone`, `Comma1`, `Comma2`), because `th_port2` cuts the modem's
answers with the same `strtok()` (`SplitFirst`, `SplitNext`); `olds` is the one place
where `strtok()` goes on. The verifiers are operators of the names they have in the
code; `Verify` is the call of one of them, with the operations that need no semaphore
(`NoOp`, `OpRst`), `Operate` what is done with the semaphore held (`OpSim`, `OpUpg`),
`Send` the answer, `Restart` and `deaf` what becomes of a lost connection.

**ModemAT** (`mdm_init`, `fd_ctrl`, `mdm_rsp`, the `mdm_get_*` functions). A line is
its kind and the quantity it belongs to; `Texts` says which of the texts that the
functions look for with `strstr()` are in it, echoes of commands included. `Drain` is
`fd_ctrl(fd, 2)`, `Write`, `Read` and `GiveUp` the loop (`mdm_get_Slt_Sts` writes up to
three times), `SplitFirst` and `SplitNext` the calls of `strtok()` in `split_line`, one
line each, `CmdSplit` a call of `strtok()` by `th_port1` between two of them, after which
`strtok()` goes on with a piece of a command or with the rest of some line of the
answer; `Find` looks among the lines that were cut, with one operator for each
function, `Parse` is for the texts that are not cut up (`Uncut`).

How they compose: `SimSwitch` is checked and proved to implement `SimService`,
`CmdMailbox` to implement `CommandExchange`, `StatusLink` to implement `StatusService`;
`Report` extends `ReportParser` extends `Payload`; `MC*` modules give the constants and bounds
that a configuration file cannot write. The other modules share a boundary
instead of state: `StatusLink` says which report comes when, `Report` what is in it,
`SimSwitch` which SIM was in use; `CommandPort` says which operation is carried
out, `SimSwitch` and `MqttRequest` what happens in it with the semaphore held.

Assumptions about constants are the named `ASSUME`s of each module; TLC evaluates
them in every run, and the proofs use nothing else about the constants:

| Module | Assumptions |
|---|---|
| SimSwitch | the number of SIM specific lines is a natural number; faults are known ones; SIM commands name SIM 1 or 2 |
| CmdMailbox | at least one command; `SemCap >= 4`; `Drops` is a boolean |
| StatusLink | faults are known ones; `MaxTrouble` is a natural number; `MaxQueue >= 1` |
| Descriptors | `MaxFd` is positive; `MaxFaults` is a natural number; faults are known ones; `Aftermath` is a boolean |
| MqttRequest | faults are known ones; topics are positive numbers; `TooLong` holds natural numbers; `MaxRequests >= 1` |
| Report | `MaxReports`, `MaxMisses`, `MaxAtOnce` are natural numbers |
| CommandPort | texts and lines are sequences of strings; faults are known ones; `MaxMixed` is a natural number; sizes and values of numeric words are integers |
| ModemAT | the quantities asked for are known; `Rounds >= 1`; `MaxLate`, `MaxMixed` are natural numbers |

## 4. Runs, what each shows, and its bounds

| Run | States | Shows |
|---|---|---|
| `sim_safety` | 1,481,134 | With commands for both SIMs and every failure in every order: `ModemExclusive`, `LinesTruthful`, `TruthfulReply`, and the refinement `ImplementsService` |
| `sim_live` | 72,170 | `ReportsGoOn` although every step of a switch may fail, and `CommandAnswered` as long as `th_port2` pauses again and again |
| `mailbox` | 27,164 | `CommandIntact`, `AnswersRequest`, `OneOutstanding`, the refinement `ImplementsExchange`, `CommandAnswered`, with connections lost at any time |
| `link` | 47,529 | `BootFirst`, `RequestsBounded`, `Resynchronised`, the refinement `ImplementsService`, with reports lost or incomplete, both ends restarting and a port that does not open again |
| `descriptors` | 1,181,874 | `NoLeak`, `OwnConnection`, `OnlyTheseStray`, with a failing open, a lost connection or ports that do not open again |
| `descriptors_ports` | violation | finding 1 |
| `mqtt` | 19,863 | `OwnAnswer`, `CommandEnds`, with late answers, an answer that is too long and a failing broker |
| `mqtt_stale` | violation | finding 3 |
| `report` | 632,114 | `RightField`, `RightSim`, `WholeBoot`, `OneReport`, `AcceptsBoot` |
| `modem` | 805,896 | `RightWhenCaughtUp`, `RightByLabel`, `CallEnds` |
| `port` | 105,340 | `ArgumentsIfAlone`, `RightOperation`, `RightAnswer`, `CommandEnds` |
| `port_strtok` | violation | finding 2 |

The bounds:

- `sim_*`: `NFields = 1`. The three SIM specific lines of a section are packed the
  same way, one after the other; with one line, everything can already happen
  between its two reads and between two sections. `sim_live` has no line
  (`NFields = 0`): packing one has no branch that progress depends on. Its failures
  are all but the end of the process, after which nobody waits for an answer any more.
  Nothing else is bounded: the threads loop for ever and failures may happen any
  number of times.
- `mailbox`: `Commands = 2` commands, so that an answer can be to the wrong one, and
  the list starts over; `SemCap = 4`: the two threads take at most one each before
  they post, so a semaphore worth more never blocks sooner than one worth 4.
- `link`: three troubles (a lost connection or a restart of either end), enough for
  one trouble during the recovery from another and a third after it; the
  connection holds two reports, so that `send()` can fail.
- `descriptors`: eight numbers, as many as are ever open at once; one open that fails
  or one connection that is lost, in every place, and a port may besides fail
  to open each time it is opened. What comes after the first mistaken number is
  left out (`Aftermath = FALSE`): `OwnConnection` and `NoLeak` speak of the time
  before. As long as nothing fails the ports' sockets and connections may have any
  number; after a fault only 0 to 4 are followed (`LowPorts`), which leaves room for
  one other descriptor below or between these four. The proofs do away with all of
  these bounds. `descriptors_ports` has the aftermath, and nothing fails.
- `mqtt`: three requests over two topics: a late answer can meet a later request on
  its own topic and on the other, and one more comes after it. The answer to the
  second is too long.
- `report`: three reports and two values that cannot be read, over all reports, one
  in each section; a field can so be filled, missed and filled again, by reports of
  either kind, and the two sections of a report can lack different values. The proofs
  do away with these bounds.
- `port`: thirty commands with everything right or one thing wrong, in every order
  and without a bound on their number (empty parts, commas only and a message full of
  commas among them); two calls of `strtok()` by `th_port2` while a
  command is cut up (one that starts and one that goes on).
- `modem`: every one of the twelve quantities after every other; two rounds, one to
  read a late answer and one to read one's own (the code has 8 to 21); one late
  answer when a call begins, on top of those that come late during it; one call
  of `strtok()` by `th_port1` while an answer is cut up, enough to skip any lines of it or
  to put a piece of a command in their place. The proofs do away with these bounds
  too.

`CHECK_DEADLOCK FALSE` stands where a system may really stop: a bound on requests
or reports is used up (`mqtt`, `report`), or the process has ended and is not started
again (`port`, `modem`, `descriptors`). The other runs check that there is no deadlock.

Each property of a passing run has a mutant in `PROJECT.json`: a change of one
mapped definition after which TLC finds the property violated under the same
configuration. The type invariants carry the facts about ranges that could be
wrong (a semaphore posted twice, a list of commands run off its end, a report
beyond the capacity of the connection, a callback without a message, a thirteenth
argument, a fourth attempt, a connection to neither port).

## 5. Fairness

| Module | Fairness | Why |
|---|---|---|
| SimSwitch | strong for `SemWait("sts")`; weak for `SemWait("cmd")`, and strong for it only where `pc["sts"] = "sleep"`; weak for the threads' other steps and the manager | a semaphore is not fair. `th_port2` gets it because `th_port1`, between two commands, waits for bytes of the device, far longer than it takes to obtain a semaphore that is free. `th_port1` gets it for certain only while `th_port2` pauses, for 15 s; `th_port2` does not pause after a `send()` of which nothing went out (`socket.c:568`), hence the premise of `CommandAnswered`, that it pauses again and again. Every poll and every AT command has a time-out; a manager that is late is modelled by `"late"`. `StsNet` is fair on the understanding that a device that has lost its connection connects again, which it tries for ever (`vega_sock.c`) |
| CmdMailbox | strong for `SemWait`, `TstTimer`, `TstLook`; weak for both threads and `RouterReply` | both threads loop without end; `TstTimer` is the branch four minutes apart and `TstLook` the one in between: time passes, so both are taken again and again |
| StatusLink | weak for `Server` and for `Client` | both loops go on; nothing is assumed of trouble, which is bounded |
| MqttRequest | weak for `Request`, `MessageCallback`, `Agent` | the poll counts down to its end; the library's thread runs; an agent that does not answer in time is modelled by `"late"` |
| CommandPort | weak for `Split \/ Verify \/ Send` | `th_port1` goes on; nothing is assumed of the operations that need the semaphore (`Operate`): `CommandEnds` says that a command ends or stays before `sem_wait()` for good, and `SimSwitch` says when it does not. No fairness of commands, connections or the other thread |
| ModemAT | weak for `Call` | the calls go on; nothing is assumed of the modem, which may stay silent for ever, nor of `th_port1` |

## 6. Proofs

All theorems are about `Spec` (without fairness) and hold for all values of the
constants that satisfy the assumptions of section 3. Each proof module has an
inductive invariant `IInv`, the lemmas `InitInv` and `StepInv` (one step per action),
and `Invariance`; the theorems of `PROJECT.json` follow from it.

**SimSwitchProofs** — `TypeCorrect`, `MutualExclusion`, `Truthfulness`, `Reply`, `Refinement`.
Neither exclusion nor truthful labels are inductive by themselves.
`LeaseInv` ties the value of the semaphore to the places of the threads.
`FileInv` says, until a failure has left the file behind (`stale`), what the
file is worth at each place: equal to the GPIO whenever the SIMs have power, the
manager is idle and `th_port2` is not just between GPIO and file; while the
manager works, someone polls for exactly its request; and a value between its two
reads comes from the SIM that both name. `UseInv` says, until a switch fails, that
between two operations the GPIO is the SIM `SimService` calls active.
`Refinement` shows that every step is a step of `SimService` or a stutter.

**CmdMailboxProofs** — `TypeCorrect`, `Intact`, `Answers`, `Outstanding`, `Refinement`. `TurnInv` gives the
value of `iFlg_snd` at every critical place, `FlightInv` says that a command, its
answer or the stored text is in at most one place and belongs to the command in
the mailbox. Neither mentions the semaphore: the turn alone protects the mailbox.
`Refinement` shows (`ExchangeStep`) that every step is a step of `CommandExchange` or a
stutter.

**StatusLinkProofs** — `TypeCorrect`, `BootComesFirst`, `NoPile`, `Refinement`. `AskedInv`: as long as,
since the router was last started, it could build its first boot report and the device
has not forgotten one (`broken = {}`), a request
anywhere on its way (in the connection, in `buf_rcv`, obeyed) implies that the device
has a whole boot report. `RoomInv` counts reports and requests together.
`Refinement` shows (`ServiceStep`) that every step is a step of `StatusService` or a
stutter; besides `AskedInv`, which gives `GoPeriodic` its premise, it needs that a report
packed but not yet sent is of the kind that `btup_typ` says (`PackedInv`).

**MqttRequestProofs** — `TypeCorrect`, `Own`. `OwnInv` gives the three states of an answer
while the thread polls (awaited, arriving, arrived) and says that nothing of a
request is left when it is over, which is what makes the reuse of `caMsg` and
`iTpq_no` safe; it holds while answers are in time. Of an answer that is too long
nothing is returned (`Text`).

**ReportProofs** — `TypeCorrect`, `FieldsAreRight`, `SimsAreRight`, `BootIsWhole`, `PeriodicIsOne`,
`BootIsAccepted`.
Every line written is good (its label stands for the quantity of its value:
`PackGood`, one case for each pack function, then `SectionGood`); every parse function
takes the value of the first line with its own label or none (`NewDevice`,
`NewReset`, `NewCsq`, on `FirstLineFound`, which needs that a set of places has a
least one); hence `BootStep` and `PeriodicStep` preserve the invariant. `CountsAll`
shows that fourteen functions that return 0 are all fourteen, which is what makes
the count of `get_btp_rcrd` mean that every line is there. It does not mean that every
line has a value: `BootIsWhole` says that a field is empty only when it is one of the
four of `MayBeEmpty` (modem firmware version, release, model, serial number) and the
accepted report has the slip that leaves that line without a value; so the invariant
carries what the accepted report lacked (`lacking`) beside the record. The converse, `BootIsAccepted`, is an action
property and needs an invariant of what has been written: a boot report has, from
its first section on, a line of every function whose value could be read
(`ReadInv`, on `PackWrites` and `SectionWrites`); then every parse function of a boot
field finds its line (`Accepted`), and the fields of a boot report are exactly
fourteen (`Fourteen`), so that the count reaches BTP_PRM_CNT.

**CommandPortProofs** — `TypeCorrect`, `Arguments`, `Operations`, `Answers`, for every set of
texts: any words, any delimiters between them. The reference is not another loop
but the pieces of a text (`Begins`, `Place`, `Piece` of `CommandPort`). The first part
shows that `strtok()`, called with what is left after *n* pieces, returns piece *n + 1*,
or NULL exactly when there is none (`At`, `FirstPiece`, `AtNext`). The invariant says
of each place in `cmd_split` how many pieces have been taken (`PartsInv`, `NameInv`,
`ArgsInv`); of the operations that they are those of the command (`OperationInv`);
all this while `th_port2` has not called `strtok()` in between (`mixed = 0`), which is
what finding 2 is about. `TooMany` and `Message` are the two cases in which
`cmd_split` itself refuses: thirteen arguments, an SMS without its message.

**ModemATProofs** — `TypeCorrect`, `CaughtUp`, `ByLabel`. `CleanInv`: when a call has found the
modem owing nothing, what it has read, what waits in the port and what is owed
are together one answer to its own command; so the text it reads ends with that
answer (`WholeAnswer`). As long as `th_port1` leaves `strtok()` alone (`mixed = 0`), the lines
cut so far and what `strtok()` has left are together that answer (`OnlyItsOwn`), so that the
lines are those of the answer, in which every function finds its own value or nothing
(`FoundInFull`). `ByLabel` needs neither premise: whatever lines `strtok()` returns, a
line in which one of the four functions finds its text is the value it is for
(`FoundByLabel`, on what `Texts` says of values, echoes, pieces and rests of lines).

**DescriptorsProofs** — `TypeCorrect`, `NothingLost`, `OwnTalk`, `FewStray`, for any number of
descriptors and of faults of every kind. What is true of a function is read off its body,
once for each of the fourteen (`Bodies`): `Leakless` — on every path from where
something is opened to the end of the function it is closed — and, except for
`get_fmw_ver` and `get_eth_info`, `Sound` — what is closed has been opened and not closed
since. Both pass to what is left of a body after each operation and each
branch (`LeaklessTail`, `SoundTail`, `LeaklessElse`, `SoundElse`). None of the four
properties is inductive: a descriptor that is the value of a variable now may be
lost by the next `return`. The invariant therefore says more of a descriptor that is open:
what is left of the function that has it closes it (`HeldInv`); of every frame,
that what is left of it closes only what this frame has opened (`SoundInv`); and of
each place of a thread's own loop, which of its socket and connection are open
and what their variables are worth (`PortInv`). That a thread and a variable name
one frame rests on `OtherNames`: whoever is called has variables of other names
than its callers, which have a lower `Rank`; the ranks also bound the frames
(`Ranked`, the `1..4` of `TypeOK`). `IInv` speaks of the table only until a number has
been mistaken; `Blamed` shows that only a stray function or a deaf thread can be the
first, and `FewStray` is part of `IInv`, for what comes after as well.

*Model-checked only*: the liveness properties (`CommandAnswered` of both modules,
`ReportsGoOn`, `Resynchronised`, `CommandEnds` of both modules, `CallEnds`: fairness and
ENABLED are out of the prover's reach); the violations. What recursive
definitions compute for every input would need induction over data, which the
installed provers cannot do.

## 7. Findings and what else was noticed

1. `descriptors_ports` — `get_fmw_ver` closes `fp` at `mdm_operation.c:1396` and again at
   1454, after it has talked to the modem and run a program. If `th_port1` has
   accepted its connection in between, with the same number, that connection is
   closed; the number then goes to a socket of `th_port2`, and in the end the command
   thread reads from and answers on the device's connection to port 41. It needs
   no failure, only that the device connects to port 40 while the boot report is
   being built.
2. `port_strtok` — `cmd_split` and, on the other thread, `split_line` share the state of
   `strtok()`: the arguments of a command may become lines of the modem's answer
   (`parser.c:179`, `basic.c:190`). The other way round, a function such as `mdm_get_mfn`
   may return a piece of a command as its value: `RightWhenCaughtUp` is only about calls
   whose answer is cut up in peace.
3. `mqtt_stale` — `mqtt_sub_pub` returns 0 on a time-out, because the result of
   `mosquitto_unsubscribe` overwrites that of the poll (`mqtt.c:185`). Mostly there is then
   no text in `caMsg`, and the command is answered as if it had been carried out; in the
   run it is the text of another answer, that to the request before, which was late
   itself and arrives while the present one is given up.

Modelled as the code has it, without a run of their own:

- `pth_Inst_Sem` is posted twice after every answer (`vega_thrds.c:257`, `260`), so
  that the section `rtr_dtStruct.h:112-113` calls critical excludes nobody. What the
  turn still guarantees is what `CmdMailboxProofs` proves: a command is sent
  whole and only its own answer is stored. It does not keep an answer from being
  *printed* beside a later command, when `thd_rtr_cmd_test` is held up at its
  semaphore.
- When `ActiveSIMStatus` cannot be written during the switch to SIM 2, the last switch
  of the boot report believes the file, returns success and leaves the modem on
  SIM 2 (`mdm_payload.c:1253`); `LinesTruthful`, `TruthfulReply` and the refinement
  promise nothing after such a failure.
- A boot report built by the BTUP2 branch is sent once only, unasked for
  (`socket.c:516`): when it is lost the device waits for one for ever. A port that
  cannot be opened again stays closed (`socket.c:556`), an incomplete boot report is
  sent again unchanged for ever in state BTUP (`socket.c:522`), and one that can never
  be built is tried for ever. A device that is restarted while the router sends periodic
  reports waits for a boot report for ever as well: the request that would bring one,
  RQ_BTP, is commented out (`vega_thrds.c:82`). These five are the exceptions
  `Resynchronised` names; TLC finds a behaviour for each when it is taken out.
- When `send()` of port 41 has no room (MSG_DONTWAIT, a device that does not read),
  `th_port2` skips its pause and builds the next report at once (`socket.c:568`); it then
  releases the semaphore only to wait for it again, and a SIM command may wait for as
  long as that lasts. `CommandAnswered` has the premise that it does not last.
- `get_eth_info` closes `fd[1]` and `fd[2]` before they have a value when a file cannot
  be opened (`basic.c:380`); a thread whose port has failed goes on using the number
  of its old connection: `OnlyTheseStray` names these two besides `get_fmw_ver`.
- `pclose(NULL)` ends the process when `popen()` fails in `mdm_get_netSts_withIP`,
  `get_ping_sts`, `get_sys_uptm` or `get_fmw_ver`. When it is `socket()` that fails at the
  start, `start_srvr` returns 0 and the thread goes on with `fd_clnt` unset.
- `mdm_get_model` returns 0 on a time-out (`ret -1;` has no effect) and reads into an
  uninitialised buffer; `mdm_get_sn` returns 0 when there is no echo and may read a line
  that is not there; `get_fmw_ver` goes on when `mdm_get_fmwv` has failed (`mdm_operation.c:1403`)
  or the program for the release prints nothing, and returns 0. The lines MDM_MDL, MDM_SN,
  VER_MDM_FMW and VER_APP_RLS are then written without a value and count as parameters of
  the boot report, which the device accepts. `WholeBoot` says it is no worse than that.
  The check for `+CSPN:` in `mdm_get_spn` does nothing (a stray `;`).
- Late answers can be taken for another quantity by `mdm_get_spn`, `mdm_get_mfn`,
  `mdm_get_ccid`, `mdm_get_imsi` and the temperatures; `RightWhenCaughtUp` says when
  they cannot, `RightByLabel` names those that never can. `Report` takes what these functions
  return for the value of its quantity (but for the buffer of `mdm_get_model`): what
  becomes of a wrong value in a report is not represented there.
- The word after `$` of a command is never compared with RTR; the status of UPG P that
  is not numeric is complained about and accepted (`cmd_upg.c:211`); UPG P without
  arguments reads what is not there; a refused reboot goes unanswered.

## 8. What is assumed of the outside

- The SIM manager switches the SIM first and writes `ActiveSIMStatus` after, and does so
  for one request at a time. SIMs without power yield no values.
- `th_port1` answers each command once; requests and answers are received whole, one
  for each `recv()`; a report arrives whole in one `recv()`. (The code has no framing:
  these assumptions are the code's own.)
- The modem answers commands in their order, with an echo (ATE1), with the value or
  ERROR, in the form the functions expect; one read takes all that has been delivered.
  No command to port 40 holds one of the texts looked for in the modem's answers (an SMS
  could): with a piece of such a command in place of a line, `RightByLabel` would fail.
- A command has fewer than 200 characters; its texts fit the buffers they are copied to;
  names have three letters.
- `open`, `socket`, `accept` and `popen` give out the lowest number that is free. Other
  threads of the process (the library's) open nothing meanwhile.
- The broker delivers an answer only to who has subscribed to its topic, in order.

## 9. What is abstracted and what is not modelled

Data are reduced to what the properties tell apart:

- SimSwitch: a line is its label and the SIM its value comes from; the retries of an
  AT command are one outcome.
- Report: an empty text and -1 are both `None`; a section is written in one step (what
  can happen inside a section is the business of `SimSwitch`). The device finds a line by
  its label, where `strstr()` looks through the whole line: no label is a part of another
  one, but an operator's name could hold a label.
- StatusLink: a report is one of four kinds.
- Descriptors: what is read or written through a number, and how often a loop
  calls the same function, are left open; whatever may fail without a
  descriptor to show for it (a read, a publish) may fail at any time.
- CommandPort: words instead of characters; lengths of buffers, and the duration of a
  switch in the answer to SIM, are left out.
- ModemAT: lines instead of bytes; rounds instead of time.

Not modelled:

| Part | Why |
|---|---|
| `ring_buffer.c`, `fl_chk.c` | not called by `main_1.c` |
| `rsp_popen`, `mdm_get_netSts`, `mdm_get_sltSts` in `mdm_operation.c` | not called; of `mdm_get_netSts_withIP`, `get_fmw_ver` and `mdm_get_rstIntrvl` the text that is searched is left out |
| `str2numstr`, the formatting helpers of `basic.c` | no state |
| `validate_ip` of `vega_sock.c` | planned as an algorithm |
| `del_/`, `v2_port_*.c`, `main_exp*.c`, `experiments/`, `from_relysis/`, `mdm_pld_exp` | older copies and trials that the programs are not built from, or that nothing calls |
| `create_mk.py`, `Makefile` | build configuration |

## 10. Plan

Done, in the order of importance: SimSwitch/SimService; CmdMailbox/CommandExchange;
StatusLink/StatusService, with ports that do not open again; MqttRequest; Payload/ReportParser/Report;
ModemAT; CommandPort; Descriptors; the proofs of section 6.

Left, in this order:

1. *CommandPort, the duration*: `tm_sim_swch` in the answer to SIM (`socket.c:311`).
2. *Composition* of `CmdMailbox` with `CommandPort` over one connection.
3. *Algorithms*: `str2numstr`, `validate_ip` against reference definitions.
4. *Composition* of `ModemAT` with `Report`: what becomes of a wrong value in a report.
