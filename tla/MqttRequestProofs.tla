-------------------------- MODULE MqttRequestProofs --------------------------
(***************************************************************************)
(* Proofs about MqttRequest, for every set of topics, every set of         *)
(* failures and every number of requests.                                  *)
(***************************************************************************)
EXTENDS MqttRequest, TLAPS

\* A request in progress has a topic and a number.
CallInv == pc # "idle" => iCur_tpqNo \in Topics /\ n # 0

\* No message answers a request that has not been made.
PastInv ==
  /\ \A m \in asked : m.of <= n
  /\ \A k \in 1..Len(forwarded) : forwarded[k].of <= n

Current == [topic |-> iCur_tpqNo, of |-> n]
NoMessage == iTpq_no \in {0, NoTopic}

\* The three states of the answer while the thread polls.
Awaited == asked = {Current} /\ forwarded = <<>> /\ NoMessage
Arriving ==
  /\ asked = {} /\ Len(forwarded) = 1 /\ Head(forwarded) = Current /\ NoMessage
  /\ cb # "idle" => caMsg = Text(n)
Arrived == asked = {} /\ forwarded = <<>> /\ caMsg = Text(n) /\ iTpq_no = iCur_tpqNo

\* As long as every program has answered in time, no message but the answer to the
\* request in progress is anywhere, and none is left when it is over.
OwnInv ==
  promise = "kept" =>
    /\ alive = TRUE
    /\ pc \in {"idle", "subscribe", "publish"} => asked = {} /\ forwarded = <<>> /\ NoMessage
    /\ pc \in {"publish", "poll"} => iCur_tpqNo \in subs
    /\ pc = "poll" => Awaited \/ Arriving \/ Arrived
    /\ pc \in {"revert", "unsubscribe", "copy"} => asked = {} /\ forwarded = <<>> /\ caMsg = Text(n)
    /\ pc \in {"unsubscribe", "copy"} => NoMessage
    /\ pc = "idle" => rsp = Text(n)

IInv == TypeOK /\ CallInv /\ PastInv /\ OwnInv

----------------------------------------------------------------------------
\* What Head, Tail and Append do to the messages that are forwarded.
LEMMA MessageQueue ==
  /\ <<>> \in Seq(Message) /\ Len(<<>>) = 0
  /\ \A q \in Seq(Message) : Len(q) \in Nat
  /\ \A q \in Seq(Message) : Len(q) = 0 => q = <<>>
  /\ \A q \in Seq(Message), e \in Message :
       /\ Append(q, e) \in Seq(Message) /\ Len(Append(q, e)) = Len(q) + 1
       /\ Append(q, e) # <<>>
       /\ \A k \in 1..Len(q) : Append(q, e)[k] = q[k]
       /\ Append(q, e)[Len(q) + 1] = e
  /\ \A q \in Seq(Message) : q # <<>> =>
       /\ Head(q) \in Message /\ Head(q) = q[1] /\ Len(q) > 0
       /\ Tail(q) \in Seq(Message) /\ Len(Tail(q)) = Len(q) - 1
       /\ \A k \in 1..Len(Tail(q)) : Tail(q)[k] = q[k + 1]
  OBVIOUS

\* The invariant holds at the start.
LEMMA InitInv == Init => IInv
  <1> SUFFICES ASSUME Init PROVE IInv
    OBVIOUS
  <1> USE RequestsAssumption, MessageQueue DEF Init
  <1>1. TypeOK
    BY DEF TypeOK, Success, Err, NoTopic
  <1>2. CallInv
    BY DEF CallInv
  <1>3. PastInv
    BY DEF PastInv
  <1>4. OwnInv
    BY DEF OwnInv, NoMessage, Text
  <1> QED BY <1>1, <1>2, <1>3, <1>4 DEF IInv

\* Every step keeps it.
LEMMA StepInv == IInv /\ [Next]_vars => IInv'
  <1> SUFFICES ASSUME IInv, [Next]_vars PROVE IInv'
    OBVIOUS
  <1> USE FaultsAssumption, TopicsAssumption, RequestsAssumption, MessageQueue
      DEF IInv, call, uobj, broker
  <1>1. ASSUME NEW topic \in Topics, Upgrade(topic) PROVE IInv'
    <2>1. TypeOK'
      BY <1>1 DEF TypeOK, CallInv, PastInv, Success, Err, NoTopic, Upgrade, Message
    <2>2. CallInv'
      BY <1>1 DEF TypeOK, CallInv, Upgrade
    <2>3. PastInv'
      <3>1. n' = n + 1 /\ n \in Nat /\ asked' = asked /\ forwarded' = forwarded
        BY <1>1 DEF Upgrade, TypeOK
      <3>2. \A m \in asked : m.of \in Nat
        BY DEF TypeOK, Message
      <3>3. \A k \in 1..Len(forwarded) : forwarded[k].of \in Nat
        <4>1. \A k \in 1..Len(forwarded) : forwarded[k] \in Message
          BY DEF TypeOK
        <4> QED BY <4>1 DEF Message
      <3> QED BY <3>1, <3>2, <3>3 DEF PastInv
    <2>4. OwnInv'
      BY <1>1 DEF TypeOK, CallInv, OwnInv, NoMessage, Awaited, Arriving, Arrived, Current, NoTopic, Upgrade, Message
    <2> QED BY <2>1, <2>2, <2>3, <2>4
  <1>2. ASSUME Fails("subscribe") \/ Fails("publish") PROVE IInv'
    <2>1. TypeOK'
      BY <1>2 DEF TypeOK, CallInv, PastInv, Success, Err, NoTopic, Fails
    <2>2. CallInv'
      BY <1>2 DEF TypeOK, CallInv, Fails
    <2>3. PastInv'
      BY <1>2 DEF TypeOK, CallInv, PastInv, Fails
    <2>4. OwnInv'
      BY <1>2 DEF TypeOK, CallInv, OwnInv, NoMessage, Awaited, Arriving, Arrived, Current, NoTopic, Fails
    <2> QED BY <2>1, <2>2, <2>3, <2>4
  <1>3. ASSUME Subscribe PROVE IInv'
    <2>1. TypeOK'
      BY <1>3 DEF TypeOK, CallInv, PastInv, Success, Err, NoTopic, Subscribe
    <2>2. CallInv'
      BY <1>3 DEF TypeOK, CallInv, Subscribe
    <2>3. PastInv'
      BY <1>3 DEF TypeOK, CallInv, PastInv, Subscribe
    <2>4. OwnInv'
      BY <1>3 DEF TypeOK, CallInv, OwnInv, NoMessage, Awaited, Arriving, Arrived, Current, NoTopic, Subscribe
    <2> QED BY <2>1, <2>2, <2>3, <2>4
  <1>4. ASSUME Publish PROVE IInv'
    <2>1. TypeOK'
      BY <1>4 DEF TypeOK, CallInv, PastInv, Success, Err, NoTopic, Publish, Message
    <2>2. CallInv'
      BY <1>4 DEF TypeOK, CallInv, Publish
    <2>3. PastInv'
      BY <1>4 DEF TypeOK, CallInv, PastInv, Publish, Message
    <2>4. OwnInv'
      BY <1>4 DEF TypeOK, CallInv, OwnInv, NoMessage, Awaited, Arriving, Arrived, Current, NoTopic, Publish, Message
    <2> QED BY <2>1, <2>2, <2>3, <2>4
  <1>5. ASSUME Collected PROVE IInv'
    <2>1. TypeOK'
      BY <1>5 DEF TypeOK, CallInv, PastInv, Success, Err, NoTopic, Collected
    <2>2. CallInv'
      BY <1>5 DEF TypeOK, CallInv, Collected
    <2>3. PastInv'
      BY <1>5 DEF TypeOK, CallInv, PastInv, Collected
    <2>4. OwnInv'
      BY <1>5 DEF TypeOK, CallInv, OwnInv, NoMessage, Awaited, Arriving, Arrived, Current, NoTopic, Collected
    <2> QED BY <2>1, <2>2, <2>3, <2>4
  <1>6. ASSUME TimeOut PROVE IInv'
    <2>1. TypeOK'
      BY <1>6 DEF TypeOK, CallInv, PastInv, Success, Err, NoTopic, TimeOut
    <2>2. CallInv'
      BY <1>6 DEF TypeOK, CallInv, TimeOut
    <2>3. PastInv'
      BY <1>6 DEF TypeOK, CallInv, PastInv, TimeOut
    <2>4. OwnInv'
      BY <1>6 DEF TypeOK, CallInv, OwnInv, NoMessage, Awaited, Arriving, Arrived, Current, NoTopic, TimeOut
    <2> QED BY <2>1, <2>2, <2>3, <2>4
  <1>7. ASSUME Revert PROVE IInv'
    <2>1. TypeOK'
      BY <1>7 DEF TypeOK, CallInv, PastInv, Success, Err, NoTopic, Revert
    <2>2. CallInv'
      BY <1>7 DEF TypeOK, CallInv, Revert
    <2>3. PastInv'
      BY <1>7 DEF TypeOK, CallInv, PastInv, Revert
    <2>4. OwnInv'
      BY <1>7 DEF TypeOK, CallInv, OwnInv, NoMessage, Awaited, Arriving, Arrived, Current, NoTopic, Revert
    <2> QED BY <2>1, <2>2, <2>3, <2>4
  <1>8. ASSUME Unsubscribe PROVE IInv'
    <2>1. TypeOK'
      BY <1>8 DEF TypeOK, CallInv, PastInv, Success, Err, NoTopic, Unsubscribe
    <2>2. CallInv'
      BY <1>8 DEF TypeOK, CallInv, Unsubscribe
    <2>3. PastInv'
      BY <1>8 DEF TypeOK, CallInv, PastInv, Unsubscribe
    <2>4. OwnInv'
      BY <1>8 DEF TypeOK, CallInv, OwnInv, NoMessage, Awaited, Arriving, Arrived, Current, NoTopic, Unsubscribe
    <2> QED BY <2>1, <2>2, <2>3, <2>4
  <1>9. ASSUME Copy PROVE IInv'
    <2>1. TypeOK'
      BY <1>9 DEF TypeOK, CallInv, PastInv, Success, Err, NoTopic, Copy
    <2>2. CallInv'
      BY <1>9 DEF TypeOK, CallInv, Copy
    <2>3. PastInv'
      BY <1>9 DEF TypeOK, CallInv, PastInv, Copy
    <2>4. OwnInv'
      BY <1>9 DEF TypeOK, CallInv, OwnInv, NoMessage, Awaited, Arriving, Arrived, Current, NoTopic, Copy
    <2> QED BY <2>1, <2>2, <2>3, <2>4
  <1>10. ASSUME MessageCallback PROVE IInv'
    <2>0. forwarded # <<>> => Head(forwarded) \in Message /\ Head(forwarded).of \in 0..n
      <3> SUFFICES ASSUME forwarded # <<>> PROVE Head(forwarded).of \in 0..n
        BY MessageQueue DEF TypeOK
      <3>1. Len(forwarded) > 0 /\ Len(forwarded) \in Nat /\ Head(forwarded) = forwarded[1]
        BY DEF TypeOK
      <3>2. forwarded[1].of <= n
        BY <3>1 DEF PastInv
      <3>3. forwarded[1].of \in 1..MaxRequests
        BY <3>1 DEF TypeOK, Message
      <3> QED BY <3>1, <3>2, <3>3 DEF TypeOK
    <2>1. TypeOK'
      <3>1. forwarded # <<>> => Head(forwarded).topic \in Topics
        BY <2>0 DEF Message
      <3>2. caMsg' \in 0..n' /\ iTpq_no' \in Topics \cup {0, NoTopic}
        BY <1>10, <2>0, <3>1 DEF Text, TypeOK, MessageCallback, Callback
      <3>3. cb' \in {"idle", "revert", "topic"} /\ forwarded' \in Seq(Message)
        <4>1. cb' \in {"idle", "revert", "topic"}
          BY <1>10 DEF MessageCallback, Callback
        <4>2. forwarded' = forwarded \/ (forwarded # <<>> /\ forwarded' = Tail(forwarded))
          BY <1>10 DEF MessageCallback, Callback, TypeOK
        <4> QED BY <4>1, <4>2 DEF TypeOK
      <3>4. cb' # "idle" => forwarded' # <<>>
        BY <1>10 DEF TypeOK, MessageCallback, Callback
      <3> QED BY <1>10, <3>2, <3>3, <3>4 DEF TypeOK, MessageCallback
    <2>2. CallInv'
      BY <1>10 DEF TypeOK, CallInv, MessageCallback, Callback
    <2>3. PastInv'
      <3>1. CASE UNCHANGED forwarded
        BY <1>10, <3>1 DEF PastInv, MessageCallback
      <3>2. CASE forwarded # <<>> /\ forwarded' = Tail(forwarded)
        <4>1. n' = n /\ asked' = asked /\ forwarded \in Seq(Message)
          BY <1>10 DEF MessageCallback, TypeOK
        <4>2. \A k \in 1..Len(forwarded') :
                k + 1 \in 1..Len(forwarded) /\ forwarded'[k] = forwarded[k + 1]
          BY <3>2, <4>1
        <4> QED BY <4>1, <4>2 DEF PastInv
      <3>3. forwarded' = forwarded \/ (forwarded # <<>> /\ forwarded' = Tail(forwarded))
        BY <1>10 DEF MessageCallback, Callback, TypeOK
      <3> QED BY <3>1, <3>2, <3>3
    <2>4. OwnInv'
      BY <1>10 DEF TypeOK, CallInv, OwnInv, NoMessage, Awaited, Arriving, Arrived, Current, NoTopic, MessageCallback, Callback, Message
    <2> QED BY <2>1, <2>2, <2>3, <2>4
  <1>11. ASSUME NEW m \in Message, Answer(m) PROVE IInv'
    <2>1. TypeOK'
      BY <1>11 DEF TypeOK, CallInv, PastInv, Success, Err, NoTopic, Answer, Message
    <2>2. CallInv'
      BY <1>11 DEF TypeOK, CallInv, Answer
    <2>3. PastInv'
      BY <1>11 DEF TypeOK, CallInv, PastInv, Answer, Message
    <2>4. OwnInv'
      BY <1>11 DEF TypeOK, CallInv, OwnInv, NoMessage, Awaited, Arriving, Arrived, Current, NoTopic, Answer, Message
    <2> QED BY <2>1, <2>2, <2>3, <2>4
  <1>12. ASSUME UNCHANGED vars PROVE IInv'
    BY <1>12 DEF vars, TypeOK, CallInv, PastInv, OwnInv, NoMessage, Awaited, Arriving,
                 Arrived, Current
  <1> QED
    BY <1>1, <1>2, <1>3, <1>4, <1>5, <1>6, <1>7, <1>8, <1>9, <1>10, <1>11, <1>12 DEF Next, Request, Agent

----------------------------------------------------------------------------
\* Every reachable state of MqttRequest satisfies the inductive invariant.
THEOREM Invariance == Spec => []IInv
  BY InitInv, StepInv, PTL DEF Spec

\* Types: an upgrade command never returns the text of a request to come, and
\* mqtt_calBak_msg has a message as long as it runs.
THEOREM TypeCorrect == Spec => []TypeOK
  BY Invariance, PTL DEF IInv

\* As long as every program has answered in time, every upgrade command returns the
\* answer to its own request, however many requests are made on whatever
\* topics, although iTpq_no and caMsg are shared with the library's thread.
THEOREM Own == Spec => []OwnAnswer
  <1>1. IInv => OwnAnswer
    BY DEF IInv, OwnInv, OwnAnswer
  <1> QED BY Invariance, <1>1, PTL
=============================================================================
