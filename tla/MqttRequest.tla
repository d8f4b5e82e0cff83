---------------------------- MODULE MqttRequest ----------------------------
(***************************************************************************)
(* The upgrade command (UPG) of th_port1 is a request to a program of the  *)
(* router over MQTT: mqtt_sub_pub subscribes to the topic of the answer,   *)
(* publishes the request and polls iTpq_no until the answer has come or    *)
(* time is up; cmd_op_UPG then returns the text in caMsg.  Both are        *)
(* written by mqtt_calBak_msg, which runs on the thread of the mosquitto   *)
(* library; nothing guards them but the order of the writes.               *)
(***************************************************************************)
EXTENDS Integers, Sequences

CONSTANTS
  Topics,       \* topics of answers: TPQ_UPGINST_RESP and TPQ_UPGSRV_CFG_RESP
  Faults,       \* the kinds of failure that may happen
  TooLong,      \* the requests whose answers have more than SZ_MQTT_MSG bytes
  MaxRequests   \* bound: requests made

FaultKinds ==
  {"late",      \* an answer takes longer than the time-out, or never comes
   "broker"}    \* the broker cannot be reached

ASSUME FaultsAssumption == Faults \subseteq FaultKinds
ASSUME TopicsAssumption == Topics \subseteq Nat \ {0}
ASSUME TooLongAssumption == TooLong \subseteq Nat
ASSUME RequestsAssumption == MaxRequests \in Nat \ {0}

VARIABLES
  pc,        \* where th_port1 is
  n,         \* number of the request; 0 before the first
  iCur_tpqNo,  \* topic of its answer
  ret,       \* what mqtt_sub_pub has returned
  rsp,       \* number of the request whose answer the command returns, 0 for none
  iTpq_no,   \* topic of the message received last, -1 when reverted
  caMsg,     \* text of that message: the number of the request it answers
  cb,        \* what mqtt_calBak_msg has still to write
  subs,      \* topics subscribed to at the broker
  asked,     \* requests that have not been answered yet
  forwarded, \* messages the broker has forwarded
  alive,     \* the mosquitto instance has not been destroyed
  promise    \* history: "void" once a poll has timed out or the broker has
             \* failed, "kept" before

call == <<n, iCur_tpqNo>>
uobj == <<iTpq_no, caMsg>>
broker == <<subs, asked, forwarded>>
vars == <<pc, call, ret, rsp, uobj, cb, broker, alive, promise>>

NoTopic == -1     \* no message to look at, or one of a topic of no interest
Success == 0
Err == -1
Message == [topic : Topics, of : 1..MaxRequests]

\* The text that is kept of the answer to a request: none of one that is too long.
Text(of) == IF of \in TooLong THEN 0 ELSE of

Init ==
  /\ pc = "idle" /\ n = 0 /\ iCur_tpqNo = 0 /\ ret = Success /\ rsp = 0
  /\ iTpq_no = 0 /\ caMsg = 0 /\ cb = "idle"
  /\ subs = {} /\ asked = {} /\ forwarded = <<>>
  /\ alive = TRUE /\ promise = "kept"

----------------------------------------------------------------------------
(* cmd_op_UPG and mqtt_sub_pub.                                            *)

Upgrade(topic) ==
  /\ pc = "idle" /\ n < MaxRequests
  /\ n' = n + 1 /\ iCur_tpqNo' = topic
  /\ rsp' = 0
  /\ pc' = "subscribe"
  /\ UNCHANGED <<ret, uobj, cb, broker, alive, promise>>

\* A failure destroys the instance, for every later request too.
Fails(from) ==
  /\ pc = from /\ ("broker" \in Faults \/ ~alive)
  /\ alive' = FALSE /\ ret' = Err /\ promise' = "void"
  /\ pc' = "copy"
  /\ UNCHANGED <<call, rsp, uobj, cb, broker>>

Subscribe ==
  /\ pc = "subscribe"
  /\ subs' = IF alive THEN subs \cup {iCur_tpqNo} ELSE subs
  /\ pc' = "publish"
  /\ UNCHANGED <<call, ret, rsp, uobj, cb, asked, forwarded, alive, promise>>

Publish ==
  /\ pc = "publish"
  /\ asked' = IF alive THEN asked \cup {[topic |-> iCur_tpqNo, of |-> n]} ELSE asked
  /\ pc' = "poll"
  /\ UNCHANGED <<call, ret, rsp, uobj, cb, subs, forwarded, alive, promise>>

Collected ==
  /\ pc = "poll" /\ iTpq_no = iCur_tpqNo
  /\ pc' = "revert"
  /\ UNCHANGED <<call, ret, rsp, uobj, cb, broker, alive, promise>>

\* Mutant: the time left is not counted down.
TimeOutMutant ==
  /\ pc = "poll" /\ iTpq_no # iCur_tpqNo
  /\ UNCHANGED vars

TimeOut ==
  /\ pc = "poll" /\ iTpq_no # iCur_tpqNo
  /\ "late" \in Faults \/ ~alive
  /\ pc' = "revert" /\ promise' = "void"
  /\ UNCHANGED <<call, ret, rsp, uobj, cb, broker, alive>>

Revert ==
  /\ pc = "revert" /\ pc' = "unsubscribe"
  /\ iTpq_no' = NoTopic
  /\ UNCHANGED <<call, ret, rsp, caMsg, cb, broker, alive, promise>>

\* The result is that of mosquitto_unsubscribe, whether or not the answer has
\* been collected.
Unsubscribe ==
  /\ pc = "unsubscribe" /\ pc' = "copy"
  /\ \/ ret' = Success /\ subs' = subs \ {iCur_tpqNo}
     \/ ("broker" \in Faults \/ ~alive) /\ ret' = Err /\ UNCHANGED subs
  /\ UNCHANGED <<call, rsp, uobj, cb, asked, forwarded, alive, promise>>

\* caMsg is returned whatever mqtt_sub_pub has returned.
Copy ==
  /\ pc = "copy" /\ pc' = "idle"
  /\ rsp' = caMsg
  /\ UNCHANGED <<call, ret, uobj, cb, broker, alive, promise>>

----------------------------------------------------------------------------
(* mqtt_calBak_msg: the text, then iTpq_no.                                *)

\* Mutant: iTpq_no is written before the text.
CallbackMutant ==
  \/ /\ cb = "idle" /\ forwarded # <<>>
     /\ iTpq_no' = Head(forwarded).topic /\ cb' = "revert"
     /\ UNCHANGED <<caMsg, forwarded>>
  \/ /\ cb = "revert"
     /\ caMsg' = Text(Head(forwarded).of) /\ cb' = "idle"
     /\ forwarded' = Tail(forwarded)
     /\ UNCHANGED iTpq_no

\* Mutant: the message is given back with its text, before its topic is read.
CallbackFreeMutant ==
  \/ /\ cb = "idle" /\ forwarded # <<>>
     /\ caMsg' = Text(Head(forwarded).of) /\ cb' = "revert"
     /\ forwarded' = Tail(forwarded)
     /\ UNCHANGED iTpq_no
  \/ /\ cb = "revert"
     /\ iTpq_no' = iCur_tpqNo /\ cb' = "idle"
     /\ UNCHANGED <<caMsg, forwarded>>

Callback ==
  \/ /\ cb = "idle" /\ forwarded # <<>>
     /\ caMsg' = Text(Head(forwarded).of) /\ cb' = "revert"
     /\ UNCHANGED <<iTpq_no, forwarded>>
  \/ /\ cb = "revert"
     /\ iTpq_no' = NoTopic /\ cb' = "topic"
     /\ UNCHANGED <<caMsg, forwarded>>
  \/ /\ cb = "topic"
     /\ iTpq_no' = Head(forwarded).topic /\ cb' = "idle"
     /\ forwarded' = Tail(forwarded)
     /\ UNCHANGED caMsg

MessageCallback ==
  /\ Callback
  /\ UNCHANGED <<pc, call, ret, rsp, subs, asked, alive, promise>>

(* The other programs and the broker.  An answer nobody has subscribed to  *)
(* is dropped.                                                             *)

Answer(m) ==
  /\ m \in asked
  /\ asked' = asked \ {m}
  /\ forwarded' = IF m.topic \in subs THEN Append(forwarded, m) ELSE forwarded
  /\ UNCHANGED <<pc, call, ret, rsp, uobj, cb, subs, alive, promise>>

----------------------------------------------------------------------------
Request ==
  \/ Fails("subscribe") \/ Fails("publish")
  \/ Subscribe \/ Publish \/ Collected \/ TimeOut \/ Revert \/ Unsubscribe \/ Copy
Agent == \E m \in Message : Answer(m)

Next ==
  \/ \E topic \in Topics : Upgrade(topic)
  \/ Request
  \/ MessageCallback
  \/ Agent

Spec == Init /\ [][Next]_vars

\* The thread goes on and its time-out ends the poll; the library's thread
\* runs; a program that is not late answers.
FairSpec == Spec /\ WF_vars(Request) /\ WF_vars(MessageCallback) /\ WF_vars(Agent)

----------------------------------------------------------------------------
(* Properties.                                                             *)

\* Every variable has its type; the callback has a message while it runs.
TypeOK ==
  /\ pc \in {"idle", "subscribe", "publish", "poll", "revert", "unsubscribe", "copy"}
  /\ n \in 0..MaxRequests /\ iCur_tpqNo \in Topics \cup {0}
  /\ ret \in {Success, Err} /\ rsp \in 0..n
  /\ iTpq_no \in Topics \cup {0, NoTopic} /\ caMsg \in 0..n
  /\ cb \in {"idle", "revert", "topic"}
  /\ subs \subseteq Topics /\ asked \subseteq Message /\ forwarded \in Seq(Message)
  /\ cb # "idle" => forwarded # <<>>
  /\ alive \in BOOLEAN /\ promise \in {"kept", "void"}

\* As long as every program has answered in time, an upgrade command returns
\* the answer to its own request (no text if it was too long), although caMsg,
\* iTpq_no and the topic are used again for the next request and are written by
\* two threads without a lock.
OwnAnswer == promise = "kept" /\ pc = "idle" => rsp = Text(n)

\* "Wait for the response of the broker upto iTmout(in seconds)", "Success = 0":
\* when mqtt_sub_pub returns 0, what cmd_op_UPG returns is never the answer to
\* another request.
SuccessIsOwn == pc = "idle" /\ ret = Success => rsp \in {0, n}

\* Every upgrade command comes to an end and the semaphore is released.
CommandEnds == pc = "subscribe" ~> pc = "idle"
=============================================================================
