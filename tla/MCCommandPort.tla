--------------------------- MODULE MCCommandPort ---------------------------
(***************************************************************************)
(* Instances of CommandPort for TLC: the device's commands, and commands   *)
(* with one thing wrong.                                                   *)
(***************************************************************************)
EXTENDS CommandPort, TLC, SequencesExt

Number(len, val) == [len |-> len, val |-> val]
SmallNumbers ==
     "0" :> Number(1, 0) @@ "1" :> Number(1, 1) @@ "2" :> Number(1, 2) @@ "7" :> Number(1, 7)
  @@ "-1" :> Number(-1, -1) @@ "-12" :> Number(-2, -12)
  @@ "179" :> Number(3, 179) @@ "180" :> Number(3, 180) @@ "7200" :> Number(4, 7200)
  @@ "7201" :> Number(4, 7201) @@ "phone" :> Number(10, 99)

\* The words of a command, the delimiters between its arguments written out.
Command(name, args) == <<"$RTR", "+", name, "=">> \o args

Separated(args) == FoldLeft(LAMBDA acc, w : IF acc = <<>> THEN <<w>> ELSE acc \o <<Comma, w>>, <<>>, args)
With(name, args) == Command(name, Separated(args))

SimTexts == {With("SIM", <<"1">>), With("SIM", <<"2">>), With("SIM", <<"7">>),
             With("SIM", <<"1", "2">>), With("SIM", <<"x">>)}
OtherTexts == {With("RST", <<"1">>), With("RST", <<"2">>), With("STS", <<"?">>),
               With("XYZ", <<"1">>), <<"RTR", "+", "SIM", "=", "1">>,
               <<"$RTR", "+", "SIM", "=">>, Command("SIM", <<"=">>),
               Command("STS", <<",">>), Command("XYZ", <<",", ",">>),
               <<"$RTR", "+", "+", "=", "1">>, <<"$RTR", "+", "+", "=", "1", ",", "2">>}
SmsTexts == {With("SMS", <<"R", "-1">>), With("SMS", <<"D", "2">>), With("SMS", <<"R", "7">>),
             With("SMS", <<"R", "-12">>), With("SMS", <<"W", "phone", "hi">>),
             With("SMS", <<"W", "phone", "hi", "2">>), With("SMS", <<"W", "phone">>),
             Command("SMS", <<",", "W", ",", ",", "phone", ",", ",">>)}

\* An upgrade by plan: without and with credentials.
Plan == <<"180", "7200", "0", "1", "2", "7">>
PlanTexts == {With("UPG", <<"P", "1", "0", "addr">> \o Plan),
              With("UPG", <<"P", "x", "1", "usr", "pw", "addr">> \o Plan),
              With("UPG", <<"P", "1", "0", "usr", "pw", "addr">> \o Plan),
              With("UPG", <<"P", "1", "1", "usr", "pw", "addr">> \o Plan \o <<"2">>)}
UpgTexts == {With("UPG", <<"I">>), With("UPG", <<"I", "1">>), With("UPG", <<"S">>),
             With("UPG", <<"C", "usr", "pw", "addr", "180", "7200">>),
             With("UPG", <<"C", "usr", "pw", "addr", "179", "7200">>),
             With("UPG", <<"C", "usr", "pw", "addr", "180", "7201">>),
             With("UPG", <<"C", "usr", "=", "addr", "180", "7200">>)}

AllTexts == SimTexts \cup OtherTexts \cup SmsTexts \cup PlanTexts \cup UpgTexts
FewTexts == {With("SIM", <<"1">>), With("UPG", <<"C", "usr", "pw", "addr", "180", "7200">>)}

\* The modem's answer to AT+CIMI.
Answers == {<<"echo", "NL", "imsi", "NL", "OK", "NL">>}
=============================================================================
