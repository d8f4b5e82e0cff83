------------------------------ MODULE ModemAT ------------------------------
(***************************************************************************)
(* The exchange of AT commands and answers over /dev/ttyAT                 *)
(* (mdm_operation.c): a call drops what is waiting on the line, writes its *)
(* command, reads until the answer ends with OK or the rounds are used up, *)
(* and looks for its value among the first five lines.                     *)
(*                                                                         *)
(* Nothing but its text ties an answer to a command: an answer that comes  *)
(* after its call has given up is read by the call after it.  A line is    *)
(* its kind and the quantity it belongs to; what the functions look at in  *)
(* a line is said of each kind below.                                      *)
(*                                                                         *)
(* An answer is cut into lines by strtok(), which keeps its place for the  *)
(* whole process: th_port1 may cut up a command (CommandPort) between two  *)
(* of its calls.                                                           *)
(***************************************************************************)
EXTENDS Integers, Sequences, SequencesExt

CONSTANTS
  Asked,   \* the quantities that are asked for
  Rounds,  \* bound: the reads of a call (8 to 21 in the code)
  MaxLate, \* bound: answers the modem may owe when a call begins
  MaxMixed \* bound: calls of strtok() by th_port1 while an answer is cut up

Quantities == {"mdl", "mfn", "sn", "fmwv", "csq", "paTmp", "pcTmp", "imsi", "ccid",
               "spn", "rat", "slt"}

ASSUME AskedAssumption == Asked \subseteq Quantities
ASSUME BoundsAssumption == Rounds \in Nat \ {0} /\ MaxLate \in Nat /\ MaxMixed \in Nat

VARIABLES
  pc,      \* where the call is
  asked,   \* the quantity it is for
  rd_str,  \* the lines it has read
  tm,      \* the reads it has made
  lns,     \* the lines cut from it
  olds,    \* what strtok() goes on with
  cnt,     \* the commands it has written (mdm_get_Slt_Sts)
  result,  \* what the last call has returned
  port,    \* the lines waiting on the line
  owed,    \* the lines the modem still has to send
  clean,   \* history: the modem owed nothing when the command was written
  mixed    \* history: calls of strtok() by th_port1 while this answer was cut up

call == <<asked, cnt, result>>
cut == <<lns, olds, mixed>>
vars == <<pc, call, rd_str, cut, tm, port, owed, clean>>

----------------------------------------------------------------------------
(* The modem: its answers, as the functions expect them.                   *)

Line(kind, of) == [kind |-> kind, of |-> of]
Echo(q) == Line("echo", q)
Val(q) == Line("value", q)
OK == Line("OK", "none")
ERROR == Line("ERROR", "none")
Blank == Line("blank", "none")
Nothing == Line("nothing", "none")

\* What strtok() may return when th_port1 has used it: a piece of its command, or
\* the rest of a line whose beginning it has taken.
Piece == Line("piece", "none")
Rest(l) == Line("rest", l.of)

\* The temperatures are on the third line.
Full(q) ==
  IF q \in {"paTmp", "pcTmp"} THEN <<Echo(q), Line("head", q), Val(q), Blank, OK>>
                              ELSE <<Echo(q), Val(q), Blank, OK>>
Answers(q) == {Full(q), <<Echo(q), ERROR>>}

\* Numbers in a line, and lines that hold a long one, nothing else, or ": ".
NumbersOf == [csq |-> 2, slt |-> 2, mdl |-> 1, fmwv |-> 3, paTmp |-> 3, pcTmp |-> 2,
              sn |-> 1, imsi |-> 1, ccid |-> 1]
Numbers(l) == IF l.kind = "value" /\ l.of \in DOMAIN NumbersOf THEN NumbersOf[l.of] ELSE 0
Long(l) == l \in {Val("sn"), Val("imsi"), Val("ccid")}
Numeric(l) == l \in {Val("sn"), Val("imsi")}
Colon(l) == l \in {Val("csq"), Val("ccid"), Val("spn"), Val("rat"), Val("slt")}

\* The texts looked for, and others like them, in the lines that hold them.  The
\* commands are AT+CSQ, AT!GETRAT?, AT+KSREP? and, for mdm_init, AT+KSREP=1.  The
\* rest of a line is one without its text: with it, it is as good as the line.  A
\* command is taken to hold none of them.
Texts(l) ==
  CASE l = Val("fmwv") -> {"jenkins"}
    [] l = Val("csq") -> {"CSQ", "CSQ:"}
    [] l = Val("rat") -> {"RAT", "RAT: "}
    [] l = Val("slt") -> {"KSREP", "+KSREP", "+KSREP:"}
    [] l = Echo("csq") -> {"CSQ"}
    [] l = Echo("rat") -> {"RAT"}
    [] l \in {Echo("slt"), Echo("init")} -> {"KSREP", "+KSREP"}
    [] OTHER -> {}
Holds(text, str) == \E n \in DOMAIN text : str \in Texts(text[n])

----------------------------------------------------------------------------
(* Looking for the value.                                                  *)

ln_max == 5

Returned(ret, line) == [ret |-> ret, line |-> line]
Failure == Returned(-1, Nothing)
Got(found, l, n) == IF found THEN Returned(0, l[n]) ELSE Failure

\* The functions made of mdm_rsp.
Rsp == {"rat", "slt"}

\* The first line with a text in it.
Labelled(str, l) == LET n == SelectInSeq(l, LAMBDA x : str \in Texts(x)) IN Got(n > 0, l, n)

mdm_get_fmwv(l) == Labelled("jenkins", l)
\* Mutant: without the colon, which the echo of the command does not have.
mdm_get_csqMutant(l) == Labelled("CSQ", l)
mdm_get_csq(l) == Labelled("CSQ:", l)
mdm_get_rat(l) == Labelled("RAT: ", l)

\* It does not cut its text up, and a slot whose state it does not get is empty.
mdm_get_Slt_Sts(text) ==
  IF Contains(text, OK) /\ Holds(text, "+KSREP:") THEN Labelled("+KSREP:", text)
                                                  ELSE Returned(0, Nothing)

mdm_get_model(l) == Got(Len(l) > 2, l, 2)
mdm_get_mfn(l) == Got(Len(l) > 2, l, 2)
mdm_get_paTmp(l) == Got(Len(l) > 2 /\ Numbers(l[3]) > 2, l, 3)
mdm_get_pcTmp(l) == Got(Len(l) > 2 /\ Numbers(l[3]) = 2, l, 3)
mdm_get_spn(l) == Got(Len(l) > 2 /\ Colon(l[2]), l, 2)
mdm_get_ccid(l) ==
  LET n == SelectInSeq(l, Colon) IN Got(Len(l) > 2 /\ n > 0, l, n)

\* The first long number, or any number in the last line.
mdm_get_imsi(l) ==
  LET n == SelectInSeq(l, Long) IN
  IF n > 0 THEN Returned(0, l[n]) ELSE Got(Numbers(Last(l)) > 0, l, Len(l))

\* The line after the echo, or the first numeric one.
SnPlace(l) ==
  LET n == SelectInSeq(l, LAMBDA x : x = Echo("sn") \/ Numeric(x)) IN
  IF n = 0 THEN Len(l) + 1 ELSE IF Numeric(l[n]) THEN n ELSE n + 1
mdm_get_sn(l) == Got(Numeric(l[SnPlace(l)]), l, SnPlace(l))

\* A line that is not there is read all the same.
ReadsNull(q, l) == q = "sn" /\ SnPlace(l) > Len(l)

Found(q, l) ==
  CASE q = "mdl" -> mdm_get_model(l)
    [] q = "mfn" -> mdm_get_mfn(l)
    [] q = "sn" -> mdm_get_sn(l)
    [] q = "fmwv" -> mdm_get_fmwv(l)
    [] q = "csq" -> mdm_get_csq(l)
    [] q = "rat" -> mdm_get_rat(l)
    [] q = "paTmp" -> mdm_get_paTmp(l)
    [] q = "pcTmp" -> mdm_get_pcTmp(l)
    [] q = "imsi" -> mdm_get_imsi(l)
    [] q = "ccid" -> mdm_get_ccid(l)
    [] q = "spn" -> mdm_get_spn(l)

\* mdm_get_imsi goes on reading until its own command has been echoed.
Ended(q, text) ==
  \/ Contains(text, OK) /\ (q = "imsi" => Contains(text, Echo("imsi")))
  \/ q \in Rsp /\ Contains(text, ERROR)

----------------------------------------------------------------------------
Goto(label) == pc' = label
Return(r) == result' = r /\ Goto("done") /\ rd_str' = <<>>

\* mdm_init has written two commands of its own.
Init ==
  /\ pc = "done" /\ asked = "mfn" /\ rd_str = <<>> /\ tm = 0 /\ cnt = 0
  /\ lns = <<>> /\ olds = <<>> /\ mixed = 0
  /\ result = Failure
  /\ port = <<>> /\ owed = <<Echo("init"), OK, Echo("init"), OK>>
  /\ clean = FALSE

Late == Len(SelectSeq(owed, LAMBDA l : l \in {OK, ERROR}))

Ask(q) ==
  /\ pc = "done" /\ Late <= MaxLate
  /\ asked' = q /\ cnt' = 0 /\ result' = Failure /\ mixed' = 0 /\ Goto("drain")
  /\ UNCHANGED <<rd_str, lns, olds, tm, port, owed, clean>>

\* Mutant: what is waiting on the line is not dropped.
DrainMutant ==
  /\ pc = "drain" /\ Goto("write")
  /\ clean' = (owed = <<>>) /\ tm' = 0 /\ rd_str' = <<>>
  /\ UNCHANGED <<call, cut, port, owed>>

\* fd_ctrl(fd,2), twice.  mdm_get_model reads into a buffer that has no first
\* value: the answer another call has left there, or nothing of use.
Drain ==
  /\ pc = "drain" /\ Goto("write")
  /\ port' = <<>> /\ clean' = (owed = <<>>) /\ tm' = 0
  /\ rd_str' = <<>> \/ (asked = "mdl" /\ \E q \in Asked : rd_str' = Full(q))
  /\ UNCHANGED <<call, cut, owed>>

RSP_CNT == 3
\* mdm_get_Slt_Sts asks again, when its n-th command has brought no status.
\* Mutant: once more.
AgainMutant(n) == asked = "slt" /\ n <= RSP_CNT /\ ~Holds(rd_str, "+KSREP:")
Again(n) == asked = "slt" /\ n < RSP_CNT /\ ~Holds(rd_str, "+KSREP:")

Write ==
  /\ pc = "write" /\ cnt' = cnt + 1
  /\ \/ \E a \in Answers(asked) : owed' = owed \o a
        /\ Goto("read") /\ UNCHANGED <<result, rd_str>>
     \/ Again(cnt') /\ Goto("drain") /\ UNCHANGED <<result, rd_str, owed>>
     \/ /\ ~Again(cnt') /\ UNCHANGED owed
        /\ Return(IF asked = "slt" THEN mdm_get_Slt_Sts(rd_str) ELSE Failure)
  /\ UNCHANGED <<asked, cut, tm, port, clean>>

\* mdm_get_model reads to the start of its buffer every time.
Buffer(lines) ==
  IF asked = "mdl" THEN lines \o SubSeq(rd_str, Len(lines) + 1, Len(rd_str))
                   ELSE rd_str \o lines

\* Mutant: a read without a line is not counted.
ReadMutant ==
  /\ pc = "read" /\ tm < Rounds /\ tm' = IF port = <<>> THEN tm ELSE tm + 1
  /\ rd_str' = Buffer(port) /\ port' = <<>>
  /\ IF Ended(asked, rd_str') THEN Goto("parse") ELSE UNCHANGED pc
  /\ UNCHANGED <<call, cut, owed, clean>>

\* What does not fit in one read is as good as not delivered yet.
Read ==
  /\ pc = "read" /\ tm < Rounds /\ tm' = tm + 1
  /\ rd_str' = Buffer(port) /\ port' = <<>>
  /\ IF Ended(asked, rd_str') THEN Goto("parse") ELSE UNCHANGED pc
  /\ UNCHANGED <<call, cut, owed, clean>>

\* mdm_rsp has no room for more than a few lines.
NoRoom == asked \in Rsp /\ Len(rd_str) > 3

\* mdm_get_model succeeds all the same.
GiveUp ==
  /\ pc = "read" /\ (tm = Rounds \/ NoRoom)
  /\ IF Again(cnt) THEN Goto("drain") /\ UNCHANGED <<result, rd_str>>
     ELSE Return(CASE asked = "mdl" -> Returned(0, Nothing)
                   [] asked = "slt" -> mdm_get_Slt_Sts(rd_str)
                   [] OTHER -> Failure)
  /\ UNCHANGED <<asked, cnt, cut, tm, port, owed, clean>>

\* What is not cut up: the status, a refusal, and a text without the echo of
\* AT+GSN, for which mdm_get_sn succeeds with no value.
Uncut ==
  \/ asked = "slt"
  \/ asked = "rat" /\ ~Contains(rd_str, OK)
  \/ asked = "sn" /\ ~Contains(rd_str, Echo("sn"))

Parse ==
  /\ pc = "parse" /\ Uncut
  /\ IF Again(cnt) THEN Goto("drain") /\ UNCHANGED <<result, rd_str>>
     ELSE Return(CASE asked = "slt" -> mdm_get_Slt_Sts(rd_str)
                   [] asked = "rat" -> Failure
                   [] asked = "sn" -> Returned(0, Nothing))
  /\ UNCHANGED <<asked, cnt, cut, tm, port, owed, clean>>

\* split_line: strtok() with the text,
SplitFirst ==
  /\ pc = "parse" /\ ~Uncut
  /\ lns' = <<Head(rd_str)>> /\ olds' = Tail(rd_str) /\ rd_str' = <<>> /\ Goto("split")
  /\ UNCHANGED <<call, mixed, tm, port, owed, clean>>

\* and without it, until it returns NULL or there are lines enough.
SplitNext ==
  /\ pc = "split" /\ Len(lns) < ln_max /\ olds # <<>>
  /\ lns' = Append(lns, Head(olds)) /\ olds' = Tail(olds)
  /\ UNCHANGED <<pc, call, rd_str, mixed, tm, port, owed, clean>>

Find ==
  /\ pc = "split" /\ (Len(lns) = ln_max \/ olds = <<>>)
  /\ lns' = <<>> /\ olds' = <<>>
  /\ IF ReadsNull(asked, lns) THEN Goto("dead") /\ UNCHANGED <<result, rd_str>>
                              ELSE Return(Found(asked, lns))
  /\ UNCHANGED <<asked, cnt, mixed, tm, port, owed, clean>>

\* cmd_split calls strtok() in th_port1: with a text of its own, or for more of the
\* one it finds, and its delimiters are others.
From(n) == SubSeq(olds, n, Len(olds))
Stirred ==
  {<<>>, <<Piece>>} \cup UNION {{From(n), <<Rest(olds[n])>> \o From(n + 1)} : n \in DOMAIN olds}
CmdSplit ==
  /\ pc = "split" /\ mixed < MaxMixed
  /\ olds' \in Stirred /\ mixed' = mixed + 1
  /\ UNCHANGED <<pc, call, rd_str, lns, tm, port, owed, clean>>

\* Nothing looks at the line between the last read and the result: what comes then
\* is as good as delivered afterwards.
Deliver ==
  /\ owed # <<>> /\ pc \notin {"parse", "split", "dead"}
  /\ port' = Append(port, Head(owed)) /\ owed' = Tail(owed)
  /\ UNCHANGED <<pc, call, rd_str, cut, tm, clean>>

Call == Drain \/ Write \/ Read \/ GiveUp \/ Parse \/ SplitFirst \/ SplitNext \/ Find
Next == Call \/ CmdSplit \/ Deliver \/ \E q \in Asked : Ask(q)

Spec == Init /\ [][Next]_vars
FairSpec == Spec /\ WF_vars(Call)

----------------------------------------------------------------------------
(* Properties.                                                             *)

Ended_with(q) == pc = "done" /\ asked = q /\ result.ret = 0

\* Every variable has its type; mdm_get_Slt_Sts asks three times at most.
TypeOK ==
  /\ pc \in {"done", "drain", "write", "read", "parse", "split", "dead"}
  /\ asked \in Quantities /\ tm \in 0..Rounds /\ cnt \in 0..RSP_CNT
  /\ result.ret \in {-1, 0} /\ clean \in BOOLEAN /\ mixed \in 0..MaxMixed

\* What a call that has succeeded may have: for a slot, also no state.
Own(q) == {Val(q)} \cup (IF q = "slt" THEN {Nothing} ELSE {})

\* A call whose command is written when the modem owes no answer, and whose answer
\* is cut up while th_port1 leaves strtok() alone, succeeds with the value asked for
\* or fails, however late answers were before and whatever it leaves behind: what
\* came too late is dropped.  Of other calls nothing of the kind is true: they may
\* take a late answer, or a piece of a command, for their value.  mdm_get_model is
\* left out, it may take what is in its buffer.
RightWhenCaughtUp ==
  clean /\ mixed = 0 /\ asked # "mdl" =>
    /\ pc # "dead"
    /\ \A q \in Asked : Ended_with(q) => result.line \in Own(q)

\* The values that are looked for by a text of their own (jenkins, CSQ:, RAT: and
\* +KSREP:) are never those of another quantity, whatever is late, whatever th_port1
\* leaves of an answer and however often the command has been echoed.
RightByLabel ==
  \A q \in {"fmwv", "csq", "rat", "slt"} : Ended_with(q) => result.line \in Own(q)

\* A call comes to an end although the modem may never answer.
CallEnds == pc = "drain" ~> pc \in {"done", "dead"}
=============================================================================
