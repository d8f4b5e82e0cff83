---------------------------- MODULE CommandPort ----------------------------
(***************************************************************************)
(* Port 40 of the router, command by command: th_port1 receives a command, *)
(* cuts it up (cmd_split), verifies it, carries it out and answers.        *)
(*                                                                         *)
(* cmd_split uses strtok(), which keeps where it is in one place for the   *)
(* whole process.  th_port2 cuts the modem's answers into lines with the   *)
(* same strtok() at the same time: the semaphore is taken only after a     *)
(* command has been parsed.  Every call of strtok() is a step of its own.  *)
(*                                                                         *)
(* A text is a sequence of words and delimiters: "$RTR+SIM=1" is           *)
(* <<"$RTR", "+", "SIM", "=", "1">>.  A token strtok() returns is the text *)
(* of it, NULL the empty text.                                             *)
(***************************************************************************)
EXTENDS Integers, Sequences, FiniteSets

CONSTANTS
  Texts,    \* the texts that are received as commands
  Numbers,  \* the numeric words: their size (negative with a minus) and their value
  Lines,    \* what the modem answers th_port2
  MaxMixed, \* bound: calls of strtok() by th_port2 while a text is cut up
  Faults    \* the kinds of failure that may happen

FaultKinds ==
  {"server",  \* start_srvr fails
   "drop",    \* the connection is lost
   "reboot"}  \* reboot() is refused

ASSUME TextsAssumption == Texts \subseteq Seq(STRING) /\ Lines \subseteq Seq(STRING)
ASSUME FaultsAssumption == Faults \subseteq FaultKinds
ASSUME MixedAssumption == MaxMixed \in Nat
ASSUME NumbersAssumption == \A w \in DOMAIN Numbers : Numbers[w].len \in Int /\ Numbers[w].val \in Int

VARIABLES
  pc,          \* where th_port1 is
  p1, p2,      \* the two parts of the command
  arg_1, arg_2,\* CMD
  upg,         \* CMD_UPG: the operation and what is stored for it
  sim,         \* CMD_SIM
  cmd_ex_sts,  \* -1 after a command without an operation
  th_buf,      \* the answer
  conn,        \* the connection: "none", "up" or "lost"
  olds,        \* what strtok() goes on with
  sts,         \* th_port2: lines cut in the answer at hand, -1 when there is none
  command,     \* history: the text at hand
  mixed,       \* history: calls of strtok() by th_port2 while that text was cut up
  done         \* history: the operation carried out for it

parts == <<p1, p2>>
cmd == <<arg_1, arg_2>>
cmdAll == <<cmd, upg, sim>>
vars == <<pc, parts, cmdAll, cmd_ex_sts, th_buf, conn, olds, sts, command, mixed,
          done>>

ARG1_MAX == 2
ARG2_MAX == 12
ln_max == 5
Err == -1
NULL == <<>>
NoUpg == [op |-> NULL, args |-> <<>>]
Operation(op, args) == [op |-> op, args |-> args]
NoOperation == Operation("none", <<>>)

\* An answer: its wording, the command it names and the value it gives.
Answer(kind, name, val) == [kind |-> kind, name |-> name, val |-> val]
Silence == Answer("none", NULL, 0)

Init ==
  /\ pc = "start" /\ conn = "none"
  /\ p1 = NULL /\ p2 = NULL /\ arg_1 = <<>> /\ arg_2 = <<>>
  /\ upg = NoUpg /\ sim = 0 /\ cmd_ex_sts = Err
  /\ th_buf = Silence
  /\ olds = NULL /\ sts = Err
  /\ command = NULL /\ mixed = 0 /\ done = NoOperation

----------------------------------------------------------------------------
(* strtok(): leading delimiters are skipped, the next one ends the token.  *)

\* The first place from n on with the delimiter, and the first without; one
\* beyond the end if there is none.
Find(s, d, n) ==
  CHOOSE k \in n..Len(s) + 1 : (k > Len(s) \/ s[k] = d) /\ \A j \in n..k - 1 : s[j] # d
First(s, d) ==
  CHOOSE k \in 1..Len(s) + 1 : (k > Len(s) \/ s[k] # d) /\ \A j \in 1..k - 1 : s[j] = d

Comma == ","

Token(s, d) == SubSeq(s, First(s, d), Find(s, d, First(s, d)) - 1)
Rest(s, d) == SubSeq(s, Find(s, d, First(s, d)) + 1, Len(s))

----------------------------------------------------------------------------
(* Verification of a command that has been cut up.                         *)

Name == IF Len(arg_1) < 2 THEN NULL ELSE arg_1[2]
Numeric(tok) == Len(tok) = 1 /\ tok[1] \in DOMAIN Numbers
is_numeric(tok) == IF Numeric(tok) THEN Numbers[tok[1]].len ELSE 0
atoi(tok) == IF Numeric(tok) THEN Numbers[tok[1]].val ELSE 0

SMS_IDX_MAX == 6
cmd_verify_sms(a) ==
  \/ Len(a) = 3 /\ a[1] = <<"W">> /\ is_numeric(a[2]) \in {10, 12}
  \/ /\ Len(a) = 2 /\ a[1] \in {<<"R">>, <<"D">>}
     /\ is_numeric(a[2]) \in -1..SMS_IDX_MAX \ {0}
     /\ atoi(a[2]) \in -1..SMS_IDX_MAX

cmd_verify_sim(a) == Len(a) = 1 /\ is_numeric(a[1]) > 0 /\ atoi(a[1]) \in {1, 2}
cmd_verify_rst(a) == Len(a) = 1 /\ is_numeric(a[1]) > 0 /\ atoi(a[1]) = 1
cmd_verify_sts(a) == Len(a) = 1 /\ a[1][1] = "?"

UPG_TO_MN == 180
UPG_TO_MX == 7200
TimeOut(tok) == is_numeric(tok) > 0 /\ atoi(tok) \in UPG_TO_MN..UPG_TO_MX

\* A status that is not numeric is complained about and taken all the same.
cmd_upg_periodic(a) ==
  /\ is_numeric(a[2]) > 0 => atoi(a[2]) \in {0, 1}
  /\ is_numeric(a[3]) > 0 /\ atoi(a[3]) \in {0, 1}
  /\ LET n == IF atoi(a[3]) = 0 THEN 10 ELSE 12
     IN  /\ Len(a) = n
         /\ TimeOut(a[n - 5]) /\ TimeOut(a[n - 4])
         /\ \A k \in n - 3 .. n : is_numeric(a[k]) > 0
cmd_upg_confg(a) == Len(a) = 6 /\ TimeOut(a[5]) /\ TimeOut(a[6])

cmd_verify_upg(a) ==
  \/ Len(a) = 1 /\ a[1] \in {<<"I">>, <<"S">>}
  \/ a[1] = <<"P">> /\ Len(a) <= ARG2_MAX /\ cmd_upg_periodic(a)
  \/ a[1] = <<"C">> /\ cmd_upg_confg(a)

\* $, + and = are at their places; the word after $ is not looked at.
cmd_verify_tok(s) ==
  /\ Len(s) > 4
  /\ s[1] \in {"$RTR", "$XXX"} /\ Find(s, "+", 1) = 2 /\ Find(s, "=", 1) = 4
Wellformed == {text \in Texts : cmd_verify_tok(text)}

----------------------------------------------------------------------------
(* th_port1: the connection.                                               *)

Goto(label) == pc' = label

\* start_srvr for the first time; when it fails the process exits, or goes on
\* with a descriptor that was never opened (socket() itself has failed).
Start ==
  /\ pc = "start"
  /\ \/ Goto("recv") /\ conn' = "up"
     \/ "server" \in Faults /\ (Goto("dead") \/ Goto("deaf")) /\ UNCHANGED conn
  /\ UNCHANGED <<parts, cmdAll, cmd_ex_sts, th_buf, olds, sts, command, mixed, done>>

\* recv() returns 0.  When start_srvr fails now, the next recv() on the closed
\* descriptor returns -1, which is no reason to try again.
Restart ==
  /\ pc = "recv" /\ conn = "lost"
  /\ \/ conn' = "up" /\ UNCHANGED pc
     \/ "server" \in Faults /\ conn' = "none" /\ Goto("deaf")
  /\ UNCHANGED <<parts, cmdAll, cmd_ex_sts, th_buf, olds, sts, command, mixed, done>>

Drop ==
  /\ "drop" \in Faults /\ conn = "up"
  /\ conn' = "lost"
  /\ UNCHANGED <<pc, parts, cmdAll, cmd_ex_sts, th_buf, olds, sts, command, mixed, done>>

\* An answer of no text is not sent; one to a lost connection goes nowhere, or
\* ends the process (SIGPIPE).
Send ==
  /\ pc = "send"
  /\ Goto("recv") \/ (conn = "lost" /\ Goto("dead"))
  /\ th_buf' = Silence /\ command' = NULL /\ mixed' = 0 /\ done' = NoOperation
  /\ UNCHANGED <<parts, cmdAll, cmd_ex_sts, conn, olds, sts>>

----------------------------------------------------------------------------
(* th_port1: cmd_parse.                                                    *)

Invalid(name) == th_buf' = Answer("invalid", name, 0) /\ Goto("send")

cmd_clean_all == arg_1' = <<>> /\ arg_2' = <<>> /\ upg' = NoUpg /\ sim' = 0

\* cmd_clean_all, then cmd_verify_tok.
Receive(text) ==
  /\ pc = "recv" /\ conn = "up"
  /\ command' = text /\ UNCHANGED <<mixed, done>>
  /\ p1' = NULL /\ p2' = NULL
  /\ cmd_clean_all
  /\ \/ text \in Wellformed /\ Goto("equals") /\ UNCHANGED th_buf
     \/ text \notin Wellformed /\ Invalid(NULL)
  /\ UNCHANGED <<cmd_ex_sts, conn, olds, sts>>

\* cmd_split.
Equals1 ==
  /\ pc = "equals" /\ Goto("equals2")
  /\ p1' = Token(command, "=") /\ olds' = Rest(command, "=")
  /\ UNCHANGED <<p2, cmdAll, cmd_ex_sts, th_buf, conn, sts, command, mixed, done>>

Equals2 ==
  /\ pc = "equals2" /\ Goto("plus")
  /\ p2' = Token(olds, "=") /\ olds' = Rest(olds, "=")
  /\ UNCHANGED <<p1, cmdAll, cmd_ex_sts, th_buf, conn, sts, command, mixed, done>>

Plus1 ==
  /\ pc = "plus" /\ Goto("plus2")
  /\ arg_1' = <<Token(p1, "+")>> /\ olds' = Rest(p1, "+")
  /\ UNCHANGED <<parts, arg_2, upg, sim, cmd_ex_sts, th_buf, conn, sts, command, mixed, done>>

\* Mutant: each round starts from the same place.
Plus2Mutant ==
  /\ pc = "plus2"
  /\ Token(olds, "+") # NULL
  /\ arg_1' = IF Len(arg_1) < ARG1_MAX THEN Append(arg_1, Token(olds, "+")) ELSE arg_1
  /\ UNCHANGED <<pc, parts, arg_2, upg, sim, cmd_ex_sts, th_buf, conn, olds, sts, command, mixed, done>>

\* One more part of the name.  A third would be written over arg_2, which is
\* written again before it is read.
Plus2 ==
  /\ pc = "plus2"
  /\ Token(olds, "+") # NULL
  /\ arg_1' = IF Len(arg_1) < ARG1_MAX THEN Append(arg_1, Token(olds, "+")) ELSE arg_1
  /\ olds' = Rest(olds, "+")
  /\ UNCHANGED <<pc, parts, arg_2, upg, sim, cmd_ex_sts, th_buf, conn, sts, command, mixed, done>>

HasComma(s) == Find(s, Comma, 1) <= Len(s)

PlusDone ==
  /\ pc = "plus2"
  /\ Token(olds, "+") = NULL /\ olds' = NULL
  /\ \/ /\ p2 = NULL
        /\ Invalid(Name) /\ UNCHANGED arg_2
     \/ /\ p2 # NULL /\ HasComma(p2)
        /\ Goto("comma") /\ UNCHANGED <<arg_2, th_buf>>
     \/ /\ p2 # NULL /\ ~HasComma(p2)
        /\ arg_2' = <<p2>>
        /\ Goto("verify") /\ UNCHANGED th_buf
  /\ p1' = NULL /\ UNCHANGED p2
  /\ UNCHANGED <<arg_1, upg, sim, cmd_ex_sts, conn, sts, command, mixed, done>>

Comma1 ==
  /\ pc = "comma" /\ Goto("comma2")
  /\ arg_2' = <<Token(p2, Comma)>> /\ olds' = Rest(p2, Comma) /\ p2' = NULL
  /\ UNCHANGED <<p1, arg_1, upg, sim, cmd_ex_sts, th_buf, conn, sts, command, mixed, done>>

\* Mutant: a message is looked for in every SMS command but W.
IsSmsWriteMutant == Name = <<"SMS">> /\ arg_2[1][1] # "W"
IsSmsWrite == Name = <<"SMS">> /\ arg_2[1][1] = "W"

\* Mutant: the number of arguments is not looked at.
Comma2Mutant ==
  /\ pc = "comma2"
  /\ olds' = Rest(olds, Comma)
  /\ IF Token(olds, Comma) = NULL THEN Goto("verify") /\ UNCHANGED arg_2
     ELSE arg_2' = Append(arg_2, Token(olds, Comma)) /\ UNCHANGED pc
  /\ UNCHANGED <<parts, arg_1, upg, sim, cmd_ex_sts, th_buf, conn, sts, command, mixed, done>>

\* One more argument.  After the number of an SMS the rest is the message,
\* commas and all; without it, and with too many arguments, the command is
\* refused.  The process ends when it compares a name that is not there.
Comma2 ==
  /\ pc = "comma2"
  /\ olds' = Rest(olds, Comma)
  /\ LET tok == Token(olds, Comma)
         rest == Rest(olds, Comma)
     IN  \/ tok = NULL /\ Goto("verify") /\ UNCHANGED <<arg_2, th_buf>>
         \/ /\ tok # NULL /\ Len(arg_2) = 1 /\ Name = NULL
            /\ Goto("dead") /\ UNCHANGED <<arg_2, th_buf>>
         \/ /\ tok # NULL /\ Len(arg_2) = ARG2_MAX
            /\ Invalid(Name) /\ UNCHANGED arg_2
         \/ /\ tok # NULL /\ Len(arg_2) < ARG2_MAX
            /\ Len(arg_2) = 1 => Name # NULL /\ ~IsSmsWrite
            /\ arg_2' = Append(arg_2, tok)
            /\ UNCHANGED <<pc, th_buf>>
         \/ /\ tok # NULL /\ Len(arg_2) = 1 /\ IsSmsWrite
            /\ \/ rest # NULL /\ arg_2' = arg_2 \o <<tok, rest>> /\ Goto("verify")
                  /\ UNCHANGED th_buf
               \/ rest = NULL /\ arg_2' = Append(arg_2, tok) /\ Invalid(Name)
  /\ UNCHANGED <<parts, arg_1, upg, sim, cmd_ex_sts, conn, sts, command, mixed, done>>

----------------------------------------------------------------------------
(* th_port1: the operation.                                                *)

Accepted(name, a) ==
  CASE name = <<"SMS">> -> cmd_verify_sms(a)
    [] name = <<"SIM">> -> cmd_verify_sim(a)
    [] name = <<"RST">> -> cmd_verify_rst(a)
    [] name = <<"STS">> -> cmd_verify_sts(a)
    [] name = <<"UPG">> -> cmd_verify_upg(a)
    [] OTHER -> FALSE

\* A command with nothing but commas has the argument NULL, of which is_numeric,
\* strlen or the first character is taken; an upgrade by plan without its first
\* arguments is read all the same.
Lacks(name, a) ==
  \/ name \in {<<"SIM">>, <<"RST">>, <<"STS">>, <<"UPG">>} /\ a = <<NULL>>
  \/ /\ name = <<"UPG">> /\ a[1] = <<"P">>
     /\ Len(a) = 1 \/ (Len(a) = 2 /\ (is_numeric(a[2]) > 0 => atoi(a[2]) \in {0, 1}))

Refuse ==
  /\ pc = "verify" /\ Name # NULL /\ ~Lacks(Name, arg_2) /\ ~Accepted(Name, arg_2)
  /\ Invalid(Name)
  /\ UNCHANGED <<parts, cmdAll, cmd_ex_sts, conn, olds, sts, command, mixed, done>>

\* A name or an argument that is not there is read all the same.
ReadNull ==
  /\ pc = "verify" /\ (Name = NULL \/ Lacks(Name, arg_2))
  /\ Goto("dead")
  /\ UNCHANGED <<parts, cmdAll, cmd_ex_sts, th_buf, conn, olds, sts, command, mixed, done>>

Verified(name) == pc = "verify" /\ Name = name /\ ~Lacks(name, arg_2) /\ Accepted(name, arg_2)

\* Mutant: cmd_ex_sts is left as the command before has set it.
NoOpMutant(name) ==
  /\ Verified(name)
  /\ th_buf' = IF cmd_ex_sts = Err THEN Answer("unsupported", Name, 0) ELSE Silence
  /\ Goto("send")
  /\ UNCHANGED <<parts, cmdAll, cmd_ex_sts, conn, olds, sts, command, mixed, done>>

\* There is no operation for SMS and STS.
NoOp(name) ==
  /\ Verified(name)
  /\ cmd_ex_sts' = Err
  /\ th_buf' = Answer("unsupported", Name, 0) /\ Goto("send")
  /\ UNCHANGED <<parts, cmdAll, conn, olds, sts, command, mixed, done>>

VerifySim ==
  /\ Verified(<<"SIM">>)
  /\ sim' = atoi(arg_2[1]) /\ Goto("sim")
  /\ UNCHANGED <<parts, cmd, upg, cmd_ex_sts, th_buf, conn, olds, sts, command, mixed, done>>

\* mdm_selSim with the semaphore held (SimSwitch), then cmd_sim_clean.
OpSim ==
  /\ pc = "sim"
  /\ done' = Operation("sim", <<sim>>)
  /\ \E active \in {Err, 1, 2} : th_buf' = Answer("sim", NULL, active)
  /\ cmd_ex_sts' = 1 /\ sim' = Err /\ Goto("send")
  /\ UNCHANGED <<parts, cmd, upg, conn, olds, sts, command, mixed>>

VerifyUpg ==
  /\ Verified(<<"UPG">>)
  /\ upg' = [op |-> arg_2[1], args |-> Tail(arg_2)] /\ Goto("upg")
  /\ UNCHANGED <<parts, cmd, sim, cmd_ex_sts, th_buf, conn, olds, sts, command, mixed, done>>

\* cmd_op_UPG with the semaphore held: I and C are requests (MqttRequest) that
\* return a text (1) or none (0), P and S do nothing.  Then cmd_upg_clean.
\* Mutant: the arguments are cleaned before the request is made.
OpUpgMutant ==
  /\ pc = "upg"
  /\ \/ /\ upg.op \in {<<"I">>, <<"C">>}
        /\ done' = Operation("upg", <<upg.op>>)
        /\ \E text \in {0, 1} : th_buf' = Answer("upg", Name, text)
     \/ /\ upg.op \in {<<"P">>, <<"S">>}
        /\ th_buf' = Answer("upg", Name, 0) /\ UNCHANGED done
  /\ cmd_ex_sts' = 1 /\ upg' = NoUpg /\ Goto("send")
  /\ UNCHANGED <<parts, cmd, sim, conn, olds, sts, command, mixed>>
OpUpg ==
  /\ pc = "upg"
  /\ \/ /\ upg.op \in {<<"I">>, <<"C">>}
        /\ done' = Operation("upg", <<upg.op>> \o upg.args)
        /\ \E text \in {0, 1} : th_buf' = Answer("upg", Name, text)
     \/ /\ upg.op \in {<<"P">>, <<"S">>}
        /\ th_buf' = Answer("upg", Name, 0) /\ UNCHANGED done
  /\ cmd_ex_sts' = 1 /\ upg' = NoUpg /\ Goto("send")
  /\ UNCHANGED <<parts, cmd, sim, conn, olds, sts, command, mixed>>

\* The system goes down, or reboot() is refused and there is nothing to send.
OpRst ==
  /\ Verified(<<"RST">>)
  /\ done' = Operation("rst", <<>>)
  /\ \/ Goto("dead") /\ UNCHANGED cmd_ex_sts
     \/ "reboot" \in Faults /\ Goto("send") /\ cmd_ex_sts' = 1
  /\ UNCHANGED <<parts, cmdAll, th_buf, conn, olds, sts, command, mixed>>

----------------------------------------------------------------------------
(* th_port2: split_line of an answer of the modem.                         *)

Mix ==
  IF pc \in {"equals2", "plus2", "comma2"} THEN mixed < MaxMixed /\ mixed' = mixed + 1
                                           ELSE UNCHANGED mixed

SplitFirst(text) ==
  /\ pc # "dead" /\ sts = Err
  /\ olds' = Rest(text, "NL") /\ sts' = 1
  /\ Mix
  /\ UNCHANGED <<pc, parts, cmdAll, cmd_ex_sts, th_buf, conn, command, done>>

SplitNext ==
  /\ pc # "dead" /\ sts # Err
  /\ olds' = Rest(olds, "NL")
  /\ sts' = IF Token(olds, "NL") = NULL \/ sts = ln_max THEN Err ELSE sts + 1
  /\ Mix
  /\ UNCHANGED <<pc, parts, cmdAll, cmd_ex_sts, th_buf, conn, command, done>>

----------------------------------------------------------------------------
Split == Equals1 \/ Equals2 \/ Plus1 \/ Plus2 \/ PlusDone \/ Comma1 \/ Comma2
Verify ==
  \/ Refuse \/ ReadNull
  \/ NoOp(<<"SMS">>) \/ NoOp(<<"STS">>)
  \/ VerifySim \/ VerifyUpg \/ OpRst
Operate == OpSim \/ OpUpg
Status == SplitNext \/ \E text \in Lines : SplitFirst(text)

Next ==
  \/ Start \/ Restart \/ Drop \/ Send
  \/ \E text \in Texts : Receive(text)
  \/ Split
  \/ Verify
  \/ Operate
  \/ Status

Spec == Init /\ [][Next]_vars

\* th_port1 goes on, but nothing says that it ever obtains the semaphore.
FairSpec == Spec /\ WF_vars(Split \/ Verify \/ Send)

----------------------------------------------------------------------------
(* Properties.                                                             *)

\* The pieces of s between delimiters d, empty ones left out: the places where
\* one begins, the k-th of them, and what is left of s after the k-th piece.
Begins(s, d) == {i \in 1..Len(s) : s[i] # d /\ (i = 1 \/ s[i - 1] = d)}
Before(s, d, i) == {j \in Begins(s, d) : j < i}
Count(s, d) == Cardinality(Begins(s, d))
Place(s, d, k) == CHOOSE i \in Begins(s, d) : Cardinality(Before(s, d, i)) = k - 1
Piece(s, d, k) == SubSeq(s, Place(s, d, k), Find(s, d, Place(s, d, k)) - 1)
After(s, d, k) == SubSeq(s, Find(s, d, Place(s, d, k)) + 1, Len(s))
Pieces(s, d) == [k \in 1..Count(s, d) |-> Piece(s, d, k)]

\* What a command says: its name, and the arguments between the first = and
\* the next, where all that follows the number of an SMS is one argument.
NameOf(text) == LET n == Pieces(Piece(text, "=", 1), "+") IN IF Len(n) < 2 THEN NULL ELSE n[2]
Written(name, a) == name = <<"SMS">> /\ Len(a) > 1 /\ a[1][1] = "W"
ArgsOf(text) ==
  LET args == Piece(text, "=", 2)
      a == Pieces(args, Comma)
      msg == After(args, Comma, 2)
  IN  IF Count(text, "=") < 2 THEN <<>>
      ELSE IF ~Written(NameOf(text), a) THEN a
      ELSE IF msg = NULL THEN <<a[1], a[2]>> ELSE <<a[1], a[2], msg>>
Meaning(text) == [name |-> NameOf(text), args |-> ArgsOf(text)]
Says == [text \in Wellformed |-> Meaning(text)]

IsCommand(text) ==
  /\ text \in Wellformed
  /\ Says[text].args # <<>>
  /\ Accepted(Says[text].name, Says[text].args)

\* Every variable has its type; a command never has more than twelve arguments.
TypeOK ==
  /\ pc \in {"start", "recv", "deaf", "dead", "equals", "equals2", "plus", "plus2",
             "comma", "comma2", "verify", "sim", "upg", "send"}
  /\ Len(arg_1) <= ARG1_MAX /\ Len(arg_2) <= ARG2_MAX
  /\ sim \in {Err, 0, 1, 2} /\ cmd_ex_sts \in {Err, 1}
  /\ th_buf.kind \in {"none", "invalid", "unsupported", "sim", "upg"}
  /\ conn \in {"none", "up", "lost"}
  /\ sts \in {Err} \cup 1..ln_max
  /\ command \in Texts \cup {NULL} /\ mixed \in 0..MaxMixed

\* A command of commas only stores NULL.
Stored(text) == IF Says[text].args = <<>> THEN <<NULL>> ELSE Says[text].args

\* The arguments that are verified are those of the command: whatever is left
\* of earlier commands, as long as the other thread leaves strtok() alone.
ArgumentsIfAlone == mixed = 0 /\ pc = "verify" => arg_2 = Stored(command)

\* "Split the string with delimiter ',', store one by one in CMD.arg[]": the
\* same whatever the other thread does.
ArgumentsStored == pc = "verify" => arg_2 = Stored(command)

\* What is carried out is what the command says, with its own arguments: no
\* operation, or another one, for none of the commands.
Carries(text) ==
  LET name == Says[text].name
      a == Says[text].args
  IN  IF ~IsCommand(text) THEN NoOperation
      ELSE CASE name = <<"SIM">> -> Operation("sim", <<atoi(a[1])>>)
             [] name = <<"RST">> -> Operation("rst", <<>>)
             [] name = <<"UPG">> /\ a[1] \in {<<"I">>, <<"C">>} -> Operation("upg", a)
             [] OTHER -> NoOperation
RightOperation == mixed = 0 /\ pc = "send" => done = Carries(command)

\* The answer is the one to this command, whatever the one before was: none
\* but a reboot that was refused goes unanswered, and what is refused is
\* refused by its name.
Replies(text) ==
  LET name == Says[text].name
  IN  IF text \notin Wellformed THEN {Answer("invalid", NULL, 0)}
      ELSE IF ~IsCommand(text) THEN {Answer("invalid", name, 0)}
      ELSE CASE name = <<"SIM">> -> {Answer("sim", NULL, v) : v \in {Err, 1, 2}}
             [] name = <<"RST">> -> {Silence}
             [] name = <<"UPG">> /\ Carries(text) = NoOperation -> {Answer("upg", name, 0)}
             [] name = <<"UPG">> /\ Carries(text) # NoOperation ->
                  {Answer("upg", name, v) : v \in {0, 1}}
             [] OTHER -> {Answer("unsupported", name, 0)}
RightAnswer == mixed = 0 /\ pc = "send" => th_buf \in Replies(command)

\* A command that is being cut up is done with in the end, unless it waits for the
\* semaphore for ever: that it is obtained is not assumed here (CommandAnswered in
\* SimSwitch has the condition).  th_port2 may call strtok() as well, though not
\* without end while one text is cut up (MaxMixed).
CommandEnds ==
  pc = "equals" ~> (pc \in {"recv", "dead"} \/ [](pc \in {"sim", "upg"}))
=============================================================================
