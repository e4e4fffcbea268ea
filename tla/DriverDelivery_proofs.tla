----------------------- MODULE DriverDelivery_proofs -----------------------
(***************************************************************************)
(* The message engine, for any nodes, messages, threads and limits: first  *)
(* the invariants of Driver, where each helper of the model gets a lemma   *)
(* on the variables it changes and the proof that Next preserves the       *)
(* invariant cites one or two of them per action; then where the messages  *)
(* are: each is in one place, and moves as Delivery says.                  *)
(***************************************************************************)
EXTENDS DriverDelivery, SendQueue_proofs, FiniteSetTheorems

TransactionType ==
  /\ currentMsg \in Msg \cup {NoMsg}
  /\ expectedCallbackId \in CallbackIds
  /\ expectedReply \in Replies
  /\ waitingForAck \in BOOLEAN

IdType == callbackId \in [Msg -> CallbackIds] /\ nextCallbackId \in CallbackIds

QueueType == msgQueue \in [Queues -> Seq(Msg)] /\ queueEvent \in [Queues -> BOOLEAN]

-----------------------------------------------------------------------------
\* Lists of messages stay lists of messages.
LEMMA KeepMsg == ASSUME NEW q \in Seq(Msg), NEW S PROVE Keep(q, S) \in Seq(Msg)
<1>1. Keep(q, S) \in Seq(Msg \cap S)
  BY KeepType
<1> QED BY <1>1

LEMMA AfterType == ASSUME NEW id \in CallbackIds PROVE After(id) \in CallbackIds
BY DEF After, CallbackIds

LEMMA NextIdType == ASSUME IdType PROVE NextId \in CallbackIds \ {0}
BY DEF IdType, NextId, CallbackIds, FirstCallbackId

LEMMA FinalizeType ==
  ASSUME IdType, NEW m \in Msg, FinalizeNow(m) PROVE IdType'
<1>1. NextId \in CallbackIds /\ After(NextId) \in CallbackIds
  BY NextIdType, AfterType
<1> QED BY <1>1 DEF IdType, FinalizeNow, idVars

LEMMA ReplyType ==
  ASSUME NEW m \in Msg
  PROVE  ReplyTo(m) \in Replies /\ (~HasCallback(m) => ReplyTo(m) # "sendData")
BY DriverAssumption DEF ReplyTo, HasCallback, Replies, Kinds

LEMMA CloseOpen ==
  ASSUME CloseTransaction PROVE TransactionType' /\ TransactionOpen'
<1>1. currentMsg' = NoMsg /\ expectedCallbackId' = 0 /\ expectedReply' = "none"
      /\ waitingForAck' = FALSE
  BY DEF CloseTransaction
<1>2. 0 \in CallbackIds /\ "none" \in Replies
  BY DEF CallbackIds, Replies
<1>3. TransactionType'
  BY <1>1, <1>2 DEF TransactionType
<1>4. TransactionOpen'
  BY <1>1 DEF TransactionOpen, Busy
<1> QED BY <1>3, <1>4
-----------------------------------------------------------------------------
\* Sending, dropping or resending the message m leaves a well-formed transaction.
LEMMA TransmitType ==
  ASSUME TypeOK, NEW m \in Msg, NEW o \in 0 .. MaxOwed, Transmit(m, o)
  PROVE  /\ TransactionType' /\ TransactionOpen'
         /\ IdType' /\ sendAttempts' \in [Msg -> Nat]
         /\ air' \in SUBSET Frames /\ owed' \in 0 .. MaxOwed /\ deleted' \in SUBSET Msg
<1> DEFINE id == IF ~HasCallback(m) THEN 0
                 ELSE IF sendAttempts[m] = 0 THEN callbackId[m] ELSE NextId
<1>t. IdType
  BY DEF TypeOK, IdType
<1>1. id \in CallbackIds
  BY <1>t, NextIdType DEF TypeOK, CallbackIds
<1>2. TransactionType' /\ TransactionOpen'
  <2>1. currentMsg' = m /\ expectedCallbackId' = id /\ expectedReply' = ReplyTo(m)
        /\ waitingForAck' = TRUE
    BY DEF Transmit
  <2>2. m # NoMsg
    BY DriverAssumption
  <2> QED BY <1>1, <2>1, <2>2, ReplyType DEF TransactionType, TransactionOpen, Busy
<1>3. IdType'
  BY <1>t, FinalizeType DEF Transmit, IdType, idVars
<1>4. sendAttempts' \in [Msg -> Nat]
  BY DEF Transmit, TypeOK
<1>5. air' \in SUBSET Frames
  <2> DEFINE answers == IF ReplyTo(m) = "none" THEN {}
                        ELSE {[id |-> id, msg |-> m, latest |-> TRUE]}
  <2>1. answers \in SUBSET Frames
    BY <1>1 DEF Frames
  <2>2. { [f EXCEPT !.latest = @ /\ f.msg # m] : f \in air } \in SUBSET Frames
    <3>1. ASSUME NEW f \in air PROVE [f EXCEPT !.latest = @ /\ f.msg # m] \in Frames
      <4>1. f \in [id : CallbackIds, msg : Msg, latest : BOOLEAN]
        BY DEF TypeOK, Frames
      <4>2. (f.latest /\ f.msg # m) \in BOOLEAN
        OBVIOUS
      <4>3. [f EXCEPT !.latest = f.latest /\ f.msg # m]
              \in [id : CallbackIds, msg : Msg, latest : BOOLEAN]
        BY <4>1, <4>2
      <4> QED BY <4>3 DEF Frames
    <3> QED BY <3>1
  <2>3. air' = { [f EXCEPT !.latest = @ /\ f.msg # m] : f \in air } \cup answers
    BY DEF Transmit
  <2> QED BY <2>1, <2>2, <2>3
<1>6. owed' \in 0 .. MaxOwed
  BY DriverAssumption DEF Transmit
<1>7. deleted' \in SUBSET Msg
  BY DEF Transmit, TypeOK
<1> QED BY <1>2, <1>3, <1>4, <1>5, <1>6, <1>7

LEMMA WriteMsgType ==
  ASSUME TypeOK, NEW m \in Msg, NEW o \in 0 .. MaxOwed, NEW limit, WriteMsg(m, limit, o)
  PROVE  /\ TransactionType' /\ TransactionOpen'
         /\ IdType' /\ sendAttempts' \in [Msg -> Nat]
         /\ air' \in SUBSET Frames /\ owed' \in 0 .. MaxOwed /\ deleted' \in SUBSET Msg
<1>1. CASE Transmit(m, o)
  BY <1>1, TransmitType
<1>2. CASE CloseTransaction /\ Delete({m}) /\ owed' = o
           /\ UNCHANGED << idVars, sendAttempts, air >>
  <2>1. TransactionType' /\ TransactionOpen'
    BY <1>2, CloseOpen
  <2>2. IdType'
    BY <1>2 DEF TypeOK, IdType, idVars
  <2>3. deleted' \in SUBSET Msg
    BY <1>2 DEF Delete, TypeOK
  <2> QED BY <1>2, <2>1, <2>2, <2>3 DEF TypeOK
<1> QED BY <1>1, <1>2 DEF WriteMsg

LEMMA ResendType ==
  ASSUME TypeOK, NEW o \in 0 .. MaxOwed, NEW limit, Resend(limit, o)
  PROVE  /\ TransactionType' /\ TransactionOpen'
         /\ IdType' /\ sendAttempts' \in [Msg -> Nat]
         /\ air' \in SUBSET Frames /\ owed' \in 0 .. MaxOwed /\ deleted' \in SUBSET Msg
<1>1. CASE currentMsg = NoMsg
  <2>1. CloseTransaction /\ owed' = o /\ UNCHANGED << idVars, sendAttempts, air, deleted >>
    BY <1>1 DEF Resend
  <2>2. TransactionType' /\ TransactionOpen'
    BY <2>1, CloseOpen
  <2> QED BY <2>1, <2>2 DEF TypeOK, IdType, idVars
<1>2. CASE currentMsg # NoMsg
  BY <1>2, WriteMsgType DEF Resend, TypeOK
<1> QED BY <1>1, <1>2

\* The end of ProcessMsg: a frame that does not complete the transaction leaves
\* something to wait for.
LEMMA GenericType ==
  ASSUME TypeOK, TransactionOpen, NEW byte, NEW reply, GenericCallback(byte, reply)
  PROVE  TransactionType' /\ TransactionOpen'
<1>1. CASE CloseTransaction
  BY <1>1, CloseOpen
<1>2. CASE ~CloseTransaction
  <2> DEFINE id == IF expectedCallbackId = byte THEN 0 ELSE expectedCallbackId
             rest == IF reply = expectedReply THEN "none" ELSE expectedReply
  <2>1. /\ ~((expectedCallbackId # 0 \/ expectedReply # "none") /\ id = 0 /\ rest = "none")
        /\ expectedCallbackId' = id /\ expectedReply' = rest
        /\ UNCHANGED << currentMsg, waitingForAck >>
    BY <1>2 DEF GenericCallback
  <2>2. id \in CallbackIds /\ rest \in Replies
    BY DEF TypeOK, CallbackIds, Replies
  <2> QED BY <2>1, <2>2 DEF TypeOK, TransactionType, TransactionOpen, Busy
<1> QED BY <1>1, <1>2
-----------------------------------------------------------------------------
\* The queues and the events that announce them.
LEMMA PushType ==
  ASSUME TypeOK, QueueEventsMatch, NEW q \in Queues, NEW s \in Seq(Msg), Push(q, s)
  PROVE  QueueType' /\ QueueEventsMatch'
<1>1. msgQueue' = [msgQueue EXCEPT ![q] = @ \o s]
      /\ queueEvent' = [queueEvent EXCEPT ![q] = @ \/ s # << >>]
  BY DEF Push
<1>2. ASSUME NEW r \in Queues
      PROVE  /\ msgQueue'[r] = IF r = q THEN msgQueue[r] \o s ELSE msgQueue[r]
             /\ queueEvent'[r] = IF r = q THEN queueEvent[r] \/ s # << >> ELSE queueEvent[r]
             /\ msgQueue[r] \in Seq(Msg) /\ queueEvent[r] \in BOOLEAN
             /\ queueEvent[r] <=> msgQueue[r] # << >>
  BY <1>1 DEF TypeOK, QueueEventsMatch
<1>3. ASSUME NEW r \in Queues
      PROVE  msgQueue[r] \o s \in Seq(Msg)
             /\ (msgQueue[r] \o s # << >> <=> msgQueue[r] # << >> \/ s # << >>)
  BY <1>2
<1>4. QueueType'
  BY <1>1, <1>2, <1>3 DEF QueueType, TypeOK
<1>5. QueueEventsMatch'
  BY <1>2, <1>3 DEF QueueEventsMatch
<1> QED BY <1>4, <1>5

LEMMA QueuesUnchanged ==
  ASSUME TypeOK, QueueEventsMatch, UNCHANGED queueVars
  PROVE  QueueType' /\ QueueEventsMatch'
BY DEF TypeOK, QueueType, QueueEventsMatch, queueVars

LEMMA ParkType ==
  ASSUME TypeOK, NEW n \in Sleepy, NEW s \in Seq(Msg), Park(n, s)
  PROVE  pending' \in [Sleepy -> Seq(Msg)] /\ sendAttempts' \in [Msg -> Nat]
<1>1. pending[n] \o s \in Seq(Msg)
  BY DEF TypeOK
<1>2. QueueAll(pending[n], s, Content) \in Seq(Msg)
  BY <1>1, KeepMsg DEF QueueAll
<1> QED BY <1>2 DEF Park, TypeOK

LEMMA ListElements == ASSUME NEW q \in Seq(Msg) PROVE Range(q) \subseteq Msg
BY DEF Range

\* What is deleted is a set of messages.
LEMMA SupersededType ==
  ASSUME TypeOK, NEW n \in Sleepy, NEW s \in Seq(Msg)
  PROVE  Superseded(n, s) \subseteq Msg
<1>1. pending[n] \o s \in Seq(Msg)
  BY DEF TypeOK
<1> QED BY <1>1, ListElements DEF Superseded

LEMMA SupersededByType ==
  ASSUME TypeOK, NEW m \in Msg PROVE SupersededBy(m) \subseteq Msg
<1>1. << m >> \in Seq(Msg)
  OBVIOUS
<1> QED BY <1>1, SupersededType DEF SupersededBy, Asleep

LEMMA CompletedType ==
  ASSUME TypeOK, NEW byte, NEW reply PROVE Completed(byte, reply) \subseteq Msg \cup {NoMsg}
BY DEF TypeOK, Completed

LEMMA DeleteType ==
  ASSUME TypeOK, NEW S, S \subseteq Msg \cup {NoMsg}, Delete(S) PROVE deleted' \in SUBSET Msg
BY DEF TypeOK, Delete

LEMMA SendMsgType ==
  ASSUME TypeOK, QueueEventsMatch, NEW m \in Msg, SendMsg(m)
  PROVE  /\ QueueType' /\ QueueEventsMatch' /\ IdType'
         /\ pending' \in [Sleepy -> Seq(Msg)] /\ sendAttempts' \in [Msg -> Nat]
         /\ fresh' \in SUBSET Msg
<1>1. << m >> \in Seq(Msg) /\ QueueOf[m] \in Queues
  BY DriverAssumption
<1>2. IdType'
  BY FinalizeType DEF SendMsg, TypeOK, IdType
<1>3. CASE Asleep(Target[m])
  BY <1>1, <1>2, <1>3, ParkType, QueuesUnchanged DEF SendMsg, Asleep, TypeOK
<1>4. CASE ~Asleep(Target[m])
  BY <1>1, <1>2, <1>4, PushType DEF SendMsg, TypeOK
<1> QED BY <1>3, <1>4

-----------------------------------------------------------------------------
\* Nothing is left of an empty list.
LEMMA KeepEmpty == ASSUME NEW S PROVE Keep(<< >>, S) = << >>
<1>1. << >> \in Seq({})
  OBVIOUS
<1>2. Keep(<< >>, S) \in Seq({} \cap S)
  BY <1>1, KeepType
<1>3. \A s \in Seq({} \cap S) : s = << >>
  OBVIOUS
<1> QED BY <1>2, <1>3

\* Moving a node's messages to its wake-up queue leaves no open transaction, and
\* every event in step with its queue.
LEMMA MoveType ==
  ASSUME TypeOK, QueueEventsMatch, CurrentNode \in Sleepy,
         MoveMessagesToWakeUpQueue(CurrentNode)
  PROVE  /\ TransactionType' /\ TransactionOpen' /\ QueueType' /\ QueueEventsMatch'
         /\ pending' \in [Sleepy -> Seq(Msg)] /\ sendAttempts' \in [Msg -> Nat]
         /\ awake' \in [Sleepy -> BOOLEAN] /\ deleted' \in SUBSET Msg
<1> DEFINE n == CurrentNode
           all == << currentMsg >> \o AllQueues
<1>0. currentMsg \in Msg
  BY DriverAssumption DEF CurrentNode, TypeOK
<1>1. \A q \in Queues : msgQueue[q] \in Seq(Msg)
  BY DEF TypeOK
<1>2. all \in Seq(Msg)
  <2>1. AllQueues \in Seq(Msg)
    BY <1>1 DEF AllQueues, Queues
  <2>2. << currentMsg >> \in Seq(Msg)
    BY <1>0
  <2> QED BY <2>1, <2>2
<1>3. Moved(n) \in Seq(Msg)
  BY <1>2, KeepMsg DEF Moved
<1>4. TransactionType' /\ TransactionOpen'
  BY CloseOpen DEF MoveMessagesToWakeUpQueue
<1>5. pending' \in [Sleepy -> Seq(Msg)] /\ sendAttempts' \in [Msg -> Nat]
  BY <1>3, ParkType DEF MoveMessagesToWakeUpQueue
<1>6. deleted' \in SUBSET Msg
  <2>1. Dropped(n) \subseteq Msg
    BY <1>2, ListElements DEF Dropped
  <2>2. Superseded(n, Moved(n)) \subseteq Msg
    BY <1>3, SupersededType
  <2> QED BY <2>1, <2>2, DeleteType DEF MoveMessagesToWakeUpQueue
<1>7. awake' \in [Sleepy -> BOOLEAN]
  BY DEF MoveMessagesToWakeUpQueue, TypeOK
<1>8. /\ msgQueue' = [q \in Queues |-> Keep(msgQueue[q], Msg \ ForNode(n))]
      /\ queueEvent' = [q \in Queues |-> queueEvent[q] /\ msgQueue'[q] # << >>]
  BY DEF MoveMessagesToWakeUpQueue
<1>9. QueueType'
  BY <1>1, <1>8, KeepMsg DEF QueueType
<1>10. ASSUME NEW q \in Queues PROVE queueEvent'[q] <=> msgQueue'[q] # << >>
  <2>1. msgQueue[q] = << >> => msgQueue'[q] = << >>
    BY <1>8, KeepEmpty
  <2>2. queueEvent'[q] <=> queueEvent[q] /\ msgQueue'[q] # << >>
    BY <1>8
  <2> QED BY <2>1, <2>2 DEF QueueEventsMatch
<1> QED BY <1>4, <1>5, <1>6, <1>7, <1>9, <1>10 DEF QueueEventsMatch

\* A node that wakes up gets its messages through the WakeUp send queue.
LEMMA SetAwakeType ==
  ASSUME TypeOK, QueueEventsMatch, NEW n \in Sleepy, NEW s \in Seq(Msg), SetAwake(n, s)
  PROVE  /\ QueueType' /\ QueueEventsMatch'
         /\ awake' \in [Sleepy -> BOOLEAN] /\ pending' \in [Sleepy -> Seq(Msg)]
<1>1. pending[n] \o s \in Seq(Msg) /\ WakeUpQueue \in Queues
  BY DEF TypeOK, WakeUpQueue, Queues
<1>2. QueueType' /\ QueueEventsMatch'
  BY <1>1, PushType DEF SetAwake
<1>3. awake' \in [Sleepy -> BOOLEAN]
  BY DEF SetAwake, TypeOK
<1>4. pending' \in [Sleepy -> Seq(Msg)]
  BY DEF SetAwake, TypeOK
<1> QED BY <1>2, <1>3, <1>4

HealthType == nodeAlive \in [Node -> BOOLEAN] /\ errors \in [Node -> 0 .. DeadAfter]

\* What is heard from a node, or not heard, keeps its health well-formed.
LEMMA HealthTypes ==
  ASSUME TypeOK, NEW n,
         \/ UNCHANGED healthVars
         \/ n \in Node /\ HearFrom(n)
         \/ Revive(n)
         \/ CountError(n)
  PROVE  HealthType'
<1> USE DEF TypeOK, HealthType, DeadAfter
<1>1. CASE UNCHANGED healthVars
  BY <1>1 DEF healthVars
<1>2. CASE n \in Node /\ HearFrom(n)
  BY <1>2 DEF HearFrom
<1>3. CASE Revive(n)
  <2>1. CASE n \in Node /\ nodeAlive' = [nodeAlive EXCEPT ![n] = TRUE]
             /\ errors' = [errors EXCEPT ![n] = 0]
    BY <2>1
  <2>2. CASE UNCHANGED healthVars
    BY <1>1, <2>2
  <2> QED BY <1>3, <2>1, <2>2 DEF Revive
<1>4. CASE CountError(n) /\ n \in Node
  <2>1. errors' = [errors EXCEPT ![n] = IF @ < DeadAfter THEN @ + 1 ELSE @]
    BY <1>4 DEF CountError
  <2>2. nodeAlive' = [nodeAlive EXCEPT ![n] = @ /\ errors'[n] < DeadAfter]
    BY <1>4 DEF CountError
  <2>3. errors' \in [Node -> 0 .. DeadAfter]
    <3>1. errors[n] \in 0 .. 3
      BY <1>4
    <3>2. (IF errors[n] < DeadAfter THEN errors[n] + 1 ELSE errors[n]) \in 0 .. 3
      BY <3>1
    <3> QED BY <2>1, <3>2
  <2>4. nodeAlive' \in [Node -> BOOLEAN]
    BY <2>2
  <2> QED BY <2>3, <2>4
<1>5. CASE CountError(n) /\ n \notin Node
  BY <1>5 DEF CountError, healthVars
<1> QED BY <1>1, <1>2, <1>3, <1>4, <1>5
-----------------------------------------------------------------------------
SleepType == awake \in [Sleepy -> BOOLEAN] /\ pending \in [Sleepy -> Seq(Msg)]

TryType == sendAttempts \in [Msg -> Nat] /\ maxSendAttempts \in [Msg -> Nat]

LifeType == fresh \in SUBSET Msg /\ deleted \in SUBSET Msg

CallType == call \in [Thread -> Calls]

WireType == air \in SUBSET Frames /\ owed \in 0 .. MaxOwed

\* A thread that is going to park its message found the message's node asleep.
ParksForSleepy == \A t \in Thread : call[t].step = "park" => Target[call[t].msg] \in Sleepy

\* The inductive invariant.
Inv == TypeOK /\ TransactionOpen /\ QueueEventsMatch /\ ParksForSleepy

\* The parts of the type invariant, after a step, make up the whole.
LEMMA TypeParts ==
  ASSUME QueueType', TransactionType', IdType', TryType', LifeType',
         SleepType', HealthType', CallType', WireType'
  PROVE  TypeOK'
BY DEF TypeOK, QueueType, TransactionType, IdType, TryType, LifeType, SleepType,
       HealthType, CallType, WireType

\* A part stays well-formed when the step leaves its variables alone.
LEMMA Unchanged ==
  ASSUME TypeOK
  PROVE  /\ UNCHANGED queueVars => QueueType'
         /\ UNCHANGED transactionVars => TransactionType'
         /\ UNCHANGED idVars => IdType'
         /\ UNCHANGED tryVars => TryType'
         /\ UNCHANGED << fresh, deleted >> => LifeType'
         /\ UNCHANGED sleepVars => SleepType'
         /\ UNCHANGED healthVars => HealthType'
         /\ UNCHANGED call => CallType' /\ (ParksForSleepy => ParksForSleepy')
         /\ UNCHANGED wireVars => WireType'
BY DEF TypeOK, QueueType, TransactionType, IdType, TryType, LifeType, SleepType,
       HealthType, CallType, WireType, ParksForSleepy, queueVars, transactionVars, idVars, tryVars,
       sleepVars, healthVars, wireVars

LEMMA OpenUnchanged ==
  ASSUME TransactionOpen, UNCHANGED transactionVars PROVE TransactionOpen'
BY DEF TransactionOpen, Busy, transactionVars
-----------------------------------------------------------------------------
\* SendMsg, on the driver thread or another, starts from a message not yet built.
LEMMA WatcherSendsInv == ASSUME Inv, NEW m \in Msg, WatcherSends(m) PROVE Inv'
<1> USE DEF Inv
<1>1. /\ QueueType' /\ QueueEventsMatch' /\ IdType'
      /\ pending' \in [Sleepy -> Seq(Msg)] /\ sendAttempts' \in [Msg -> Nat]
      /\ fresh' \in SUBSET Msg
  BY SendMsgType DEF WatcherSends
<1>2. deleted' \in SUBSET Msg
  BY SupersededByType, DeleteType DEF WatcherSends
<1>3. UNCHANGED << transactionVars, maxSendAttempts, awake, healthVars, call, wireVars >>
  BY DEF WatcherSends
<1>4. TransactionType' /\ TransactionOpen' /\ HealthType' /\ CallType' /\ WireType'
      /\ ParksForSleepy'
  BY <1>3, Unchanged, OpenUnchanged
<1>5. TryType' /\ SleepType' /\ LifeType'
  BY <1>1, <1>2, <1>3 DEF TypeOK, TryType, SleepType, LifeType
<1> QED BY <1>1, <1>4, <1>5, TypeParts

LEMMA BeginSendInv ==
  ASSUME Inv, NEW t \in Thread, NEW m \in Msg, BeginSend(t, m) PROVE Inv'
<1> USE DEF Inv
<1>1. UNCHANGED << queueVars, transactionVars, nextCallbackId, tryVars, deleted,
                   sleepVars, healthVars, wireVars >>
  BY DEF BeginSend
<1>2. QueueType' /\ QueueEventsMatch'
  BY <1>1, QueuesUnchanged
<1>3. TransactionType' /\ TransactionOpen' /\ HealthType' /\ TryType' /\ SleepType' /\ WireType'
  BY <1>1, Unchanged, OpenUnchanged
<1>4. IdType'
  <2>1. NextId \in CallbackIds
    BY NextIdType DEF TypeOK, IdType
  <2>2. callbackId' = [callbackId EXCEPT ![m] = IF HasCallback(m) THEN NextId ELSE @]
    BY DEF BeginSend
  <2> QED BY <1>1, <2>1, <2>2 DEF TypeOK, IdType
<1>5. LifeType'
  BY <1>1 DEF BeginSend, TypeOK, LifeType
<1>6. CallType' /\ ParksForSleepy'
  <2>1. call' = [call EXCEPT ![t] = [step |-> "finalized", msg |-> m]]
    BY DEF BeginSend
  <2> QED BY <2>1 DEF TypeOK, CallType, Calls, ParksForSleepy
<1> QED BY <1>2, <1>3, <1>4, <1>5, <1>6, TypeParts

LEMMA TestAwakeInv == ASSUME Inv, NEW t \in Thread, TestAwake(t) PROVE Inv'
<1> USE DEF Inv
<1>1. UNCHANGED << queueVars, transactionVars, callbackId, tryVars, fresh, deleted,
                   sleepVars, healthVars, wireVars >>
  BY DEF TestAwake
<1>2. QueueType' /\ QueueEventsMatch'
  BY <1>1, QueuesUnchanged
<1>3. TransactionType' /\ TransactionOpen' /\ HealthType' /\ TryType' /\ SleepType'
      /\ LifeType' /\ WireType'
  BY <1>1, Unchanged, OpenUnchanged
<1>4. call[t].msg \in Msg /\ call[t].step = "finalized" /\ call[t] \in Calls
  BY DEF TestAwake, TypeOK, Calls, NoCall
<1>5. IdType'
  <2>1. After(callbackId[call[t].msg]) \in CallbackIds
    BY <1>4, AfterType DEF TypeOK
  <2> QED BY <1>1, <1>4, <2>1 DEF TestAwake, TypeOK, IdType
<1>6. CallType'
  <2>1. call[t] \in [step : {"finalized", "park", "push"}, msg : Msg]
    BY <1>4 DEF Calls, NoCall
  <2>2. PICK next \in {"park", "push"} : call' = [call EXCEPT ![t].step = next]
    BY DEF TestAwake
  <2>3. [call[t] EXCEPT !.step = next] \in Calls
    BY <2>1 DEF Calls
  <2> QED BY <2>2, <2>3 DEF TypeOK, CallType
<1>7. ParksForSleepy'
  <2>1. call' = [call EXCEPT ![t].step =
                   IF Asleep(Target[call[t].msg]) THEN "park" ELSE "push"]
    BY DEF TestAwake
  <2> QED BY <1>4, <2>1 DEF TypeOK, ParksForSleepy, Asleep
<1> QED BY <1>2, <1>3, <1>5, <1>6, <1>7, TypeParts

LEMMA EndSendInv == ASSUME Inv, NEW t \in Thread, EndSend(t) PROVE Inv'
<1> USE DEF Inv
<1> DEFINE m == call[t].msg
<1>1. UNCHANGED << transactionVars, idVars, maxSendAttempts, fresh, awake, healthVars, wireVars >>
  BY DEF EndSend
<1>2. call[t] \in Calls /\ call[t].step \in {"park", "push"}
  BY DEF EndSend, TypeOK
<1>3. m \in Msg /\ << m >> \in Seq(Msg) /\ QueueOf[m] \in Queues
  <2>1. m \in Msg
    BY <1>2 DEF Calls, NoCall
  <2> QED BY <2>1, DriverAssumption
<1>4. TransactionType' /\ TransactionOpen' /\ IdType' /\ HealthType' /\ WireType'
  BY <1>1, Unchanged, OpenUnchanged
<1>5. CallType' /\ ParksForSleepy'
  <2>1. call' = [call EXCEPT ![t] = NoCall]
    BY DEF EndSend
  <2> QED BY <2>1 DEF TypeOK, CallType, Calls, ParksForSleepy, NoCall
<1>6. /\ QueueType' /\ QueueEventsMatch'
      /\ pending' \in [Sleepy -> Seq(Msg)] /\ sendAttempts' \in [Msg -> Nat]
      /\ deleted' \in SUBSET Msg
  <2>1. CASE call[t].step = "park"
    <3>1. /\ Park(Target[m], << m >>) /\ Delete(Superseded(Target[m], << m >>))
          /\ UNCHANGED queueVars
      BY <2>1 DEF EndSend
    <3>2. Target[m] \in Sleepy
      BY <2>1 DEF ParksForSleepy
    <3> QED BY <1>3, <3>1, <3>2, ParkType, SupersededType, DeleteType, QueuesUnchanged
  <2>2. CASE call[t].step = "push"
    <3>1. Push(QueueOf[m], << m >>) /\ UNCHANGED << pending, sendAttempts, deleted >>
      BY <2>2 DEF EndSend
    <3> QED BY <1>3, <3>1, PushType DEF TypeOK
  <2> QED BY <1>2, <2>1, <2>2
<1>7. TryType' /\ SleepType' /\ LifeType'
  BY <1>1, <1>6 DEF TypeOK, TryType, SleepType, LifeType
<1> QED BY <1>4, <1>5, <1>6, <1>7, TypeParts
-----------------------------------------------------------------------------
\* The driver thread sends: a signalled queue is not empty, so it has a front.
LEMMA WriteNextMsgInv == ASSUME Inv, NEW q \in Queues, WriteNextMsg(q) PROVE Inv'
<1> USE DEF Inv
<1> DEFINE m == Head(msgQueue[q])
<1>1. UNCHANGED << maxSendAttempts, fresh, sleepVars, healthVars, call >>
  BY DEF WriteNextMsg
<1>2. msgQueue[q] # << >> /\ msgQueue[q] \in Seq(Msg)
  BY DEF WriteNextMsg, QueueEventsMatch, TypeOK
<1>3. m \in Msg /\ Tail(msgQueue[q]) \in Seq(Msg)
  BY <1>2
<1>4. /\ TransactionType' /\ TransactionOpen'
      /\ IdType' /\ sendAttempts' \in [Msg -> Nat]
      /\ air' \in SUBSET Frames /\ owed' \in 0 .. MaxOwed /\ deleted' \in SUBSET Msg
  <2>1. WriteMsg(m, maxSendAttempts[m], owed) /\ owed \in 0 .. MaxOwed
    BY DEF WriteNextMsg, TypeOK
  <2> QED BY <1>3, <2>1, WriteMsgType
<1>5. QueueType' /\ QueueEventsMatch'
  <2>1. /\ msgQueue' = [msgQueue EXCEPT ![q] = Tail(@)]
        /\ queueEvent' = [queueEvent EXCEPT ![q] = Tail(msgQueue[q]) # << >>]
    BY DEF WriteNextMsg
  <2> QED BY <1>3, <2>1 DEF TypeOK, QueueType, QueueEventsMatch
<1>6. SleepType' /\ HealthType' /\ CallType' /\ ParksForSleepy'
  BY <1>1, Unchanged
<1>7. TryType' /\ LifeType' /\ WireType'
  BY <1>1, <1>4 DEF TypeOK, TryType, LifeType, WireType
<1> QED BY <1>4, <1>5, <1>6, <1>7, TypeParts

\* A resend, whatever caused it, touches the current message and the wire only.
LEMMA ResendInv ==
  ASSUME Inv, NEW limit, NEW o \in 0 .. MaxOwed, Resend(limit, o),
         UNCHANGED << queueVars, fresh, sleepVars, healthVars, call >>,
         maxSendAttempts' \in [Msg -> Nat]
  PROVE  Inv'
<1> USE DEF Inv
<1>1. /\ TransactionType' /\ TransactionOpen'
      /\ IdType' /\ sendAttempts' \in [Msg -> Nat]
      /\ air' \in SUBSET Frames /\ owed' \in 0 .. MaxOwed /\ deleted' \in SUBSET Msg
  BY ResendType
<1>2. QueueType' /\ QueueEventsMatch'
  BY QueuesUnchanged
<1>3. SleepType' /\ HealthType' /\ CallType' /\ ParksForSleepy'
  BY Unchanged
<1>4. TryType' /\ LifeType' /\ WireType'
  BY <1>1 DEF TypeOK, TryType, LifeType, WireType
<1> QED BY <1>1, <1>2, <1>3, <1>4, TypeParts

LEMMA WaitTimeoutInv == ASSUME Inv, WaitTimeout PROVE Inv'
BY ResendInv DEF WaitTimeout, Inv, TypeOK

LEMMA ReceiveNakInv == ASSUME Inv, ReceiveNak PROVE Inv'
<1>1. owed - 1 \in 0 .. MaxOwed
  BY DriverAssumption DEF ReceiveNak, Inv, TypeOK
<1> QED BY <1>1, ResendInv DEF ReceiveNak, Inv, TypeOK

LEMMA ReceiveCanInv == ASSUME Inv, ReceiveCan PROVE Inv'
<1> DEFINE limit == IF maxSendAttempts[currentMsg] + 1 < MaxMaxTries
                    THEN maxSendAttempts[currentMsg] + 1 ELSE maxSendAttempts[currentMsg]
<1>1. owed - 1 \in 0 .. MaxOwed
  BY DriverAssumption DEF ReceiveCan, Inv, TypeOK
<1>2. maxSendAttempts' \in [Msg -> Nat]
  <2>1. CASE currentMsg = NoMsg
    BY <2>1 DEF ReceiveCan, Inv, TypeOK
  <2>2. CASE currentMsg # NoMsg
    <3>1. currentMsg \in Msg /\ maxSendAttempts[currentMsg] \in Nat
      BY <2>2 DEF Inv, TypeOK
    <3>2. maxSendAttempts' = [maxSendAttempts EXCEPT ![currentMsg] = limit]
      BY <2>2 DEF ReceiveCan
    <3> QED BY <3>1, <3>2 DEF Inv, TypeOK
  <2> QED BY <2>1, <2>2
<1>3. Resend(limit, owed - 1) /\ UNCHANGED << queueVars, fresh, sleepVars, healthVars, call >>
  BY DEF ReceiveCan
<1> QED BY <1>1, <1>2, <1>3, ResendInv

LEMMA ReceiveAckInv == ASSUME Inv, ReceiveAck PROVE Inv'
<1> USE DEF Inv
<1>1. UNCHANGED << queueVars, idVars, tryVars, fresh, sleepVars, healthVars, call, air >>
  BY DEF ReceiveAck
<1>2. QueueType' /\ QueueEventsMatch'
  BY <1>1, QueuesUnchanged
<1>3. IdType' /\ TryType' /\ SleepType' /\ HealthType' /\ CallType' /\ ParksForSleepy'
  BY <1>1, Unchanged
<1>4. WireType'
  BY <1>1, DriverAssumption DEF ReceiveAck, TypeOK, WireType
<1>5. TransactionType' /\ TransactionOpen' /\ deleted' \in SUBSET Msg
  <2>1. CASE RemoveCurrentMsg
    <3>1. {currentMsg} \subseteq Msg \cup {NoMsg}
      BY DEF TypeOK
    <3> QED BY <2>1, <3>1, CloseOpen, DeleteType DEF RemoveCurrentMsg
  <2>2. CASE ~RemoveCurrentMsg
    <3>1. ~(currentMsg # NoMsg /\ expectedCallbackId = 0 /\ expectedReply = "none")
          /\ waitingForAck' = FALSE
          /\ UNCHANGED << currentMsg, expectedCallbackId, expectedReply, deleted >>
      BY <2>2 DEF ReceiveAck
    <3> QED BY <3>1 DEF TypeOK, TransactionType, TransactionOpen, Busy
  <2> QED BY <2>1, <2>2
<1>6. LifeType'
  BY <1>1, <1>5 DEF TypeOK, LifeType
<1> QED BY <1>2, <1>3, <1>4, <1>5, <1>6, TypeParts
-----------------------------------------------------------------------------
\* A frame that is not parked for: the transaction goes on or closes, its message
\* is deleted.
LEMMA ProcessedType ==
  ASSUME Inv, NEW byte, NEW reply, GenericCallback(byte, reply),
         Delete(Completed(byte, reply))
  PROVE  TransactionType' /\ TransactionOpen' /\ deleted' \in SUBSET Msg
BY CompletedType, GenericType, DeleteType DEF Inv

LEMMA ReceiveCallbackInv ==
  ASSUME Inv, NEW f \in air, NEW answer, ReceiveCallback(f, answer) PROVE Inv'
<1> USE DEF Inv
<1> DEFINE n == CurrentNode
           parks == ~Unexpected(f.id) /\ answer = "noAck" /\ n \in Sleepy
           sleeps == /\ ~Unexpected(f.id) /\ answer = "ok"
                     /\ currentMsg # NoMsg /\ Kind[currentMsg] = "noMoreInfo"
<1>1. UNCHANGED << idVars, maxSendAttempts, fresh, call, owed >> /\ air' = air \ {f}
  BY DEF ReceiveCallback
<1>2. IdType' /\ CallType' /\ ParksForSleepy'
  BY <1>1, Unchanged
<1>3. WireType'
  BY <1>1 DEF TypeOK, WireType
<1>4. HealthType'
  <2>1. UNCHANGED healthVars \/ Revive(n) \/ CountError(n)
    BY DEF ReceiveCallback
  <2> QED BY <2>1, HealthTypes
<1>5. /\ TransactionType' /\ TransactionOpen' /\ QueueType' /\ QueueEventsMatch'
      /\ pending' \in [Sleepy -> Seq(Msg)] /\ sendAttempts' \in [Msg -> Nat]
      /\ awake' \in [Sleepy -> BOOLEAN] /\ deleted' \in SUBSET Msg
  <2>1. CASE parks
    <3>1. MoveMessagesToWakeUpQueue(CurrentNode)
      BY <2>1 DEF ReceiveCallback
    <3> QED BY <2>1, <3>1, MoveType
  <2>2. CASE ~parks
    <3>1. /\ GenericCallback(f.id, "sendData")
          /\ Delete(Completed(f.id, "sendData"))
          /\ awake' = IF sleeps THEN [awake EXCEPT ![n] = FALSE] ELSE awake
          /\ UNCHANGED << queueVars, pending, sendAttempts >>
      BY <2>2 DEF ReceiveCallback
    <3>2. TransactionType' /\ TransactionOpen' /\ deleted' \in SUBSET Msg
      BY <3>1, ProcessedType
    <3>3. QueueType' /\ QueueEventsMatch'
      BY <3>1, QueuesUnchanged
    <3> QED BY <3>1, <3>2, <3>3 DEF TypeOK
  <2> QED BY <2>1, <2>2
<1>6. TryType' /\ SleepType' /\ LifeType'
  BY <1>1, <1>5 DEF TypeOK, TryType, SleepType, LifeType
<1> QED BY <1>2, <1>3, <1>4, <1>5, <1>6, TypeParts

LEMMA ReceiveReportInv ==
  ASSUME Inv, NEW n \in Node, NEW right, NEW answer \in Msg \cup {NoMsg},
         ReceiveReport(n, right, answer)
  PROVE  Inv'
<1> USE DEF Inv
<1> DEFINE reply == ReportReply(n, right)
<1>1. HearFrom(n) /\ GenericCallback(0, reply)
      /\ UNCHANGED << maxSendAttempts, awake, call, wireVars >>
  BY DEF ReceiveReport
<1>2. HealthType' /\ CallType' /\ ParksForSleepy' /\ WireType'
  BY <1>1, HealthTypes, Unchanged
<1> HIDE DEF reply
<1>3. /\ TransactionType' /\ TransactionOpen' /\ QueueType' /\ QueueEventsMatch' /\ IdType'
      /\ pending' \in [Sleepy -> Seq(Msg)] /\ sendAttempts' \in [Msg -> Nat]
      /\ fresh' \in SUBSET Msg /\ deleted' \in SUBSET Msg
  <2>1. CASE answer = NoMsg
    <3>1. /\ Delete(Completed(0, reply))
          /\ UNCHANGED << queueVars, idVars, sendAttempts, fresh, pending >>
      BY <2>1 DEF ReceiveReport, reply
    <3>2. TransactionType' /\ TransactionOpen' /\ deleted' \in SUBSET Msg
      BY <1>1, <3>1, ProcessedType
    <3> QED BY <3>1, <3>2, QueuesUnchanged, Unchanged DEF TypeOK
  <2>2. CASE answer # NoMsg
    <3>1. SendMsg(answer) /\ Delete(Completed(0, reply) \cup SupersededBy(answer))
      BY <2>2 DEF ReceiveReport, reply
    <3>2. SupersededBy(answer) \subseteq Msg
      BY <2>2, SupersededByType
    <3>3. Completed(0, reply) \cup SupersededBy(answer) \subseteq Msg \cup {NoMsg}
      BY <3>2, CompletedType
    <3>4. TransactionType' /\ TransactionOpen' /\ deleted' \in SUBSET Msg
      BY <1>1, <3>1, <3>3, GenericType, DeleteType
    <3> QED BY <2>2, <3>1, <3>4, SendMsgType
  <2> QED BY <2>1, <2>2
<1>4. TryType' /\ SleepType' /\ LifeType'
  BY <1>1, <1>3 DEF TypeOK, TryType, SleepType, LifeType
<1> QED BY <1>2, <1>3, <1>4, TypeParts

LEMMA ReceiveWakeUpNotificationInv ==
  ASSUME Inv, NEW n \in Sleepy, NEW right, NEW m \in Msg,
         ReceiveWakeUpNotification(n, right, m)
  PROVE  Inv'
<1> USE DEF Inv
<1> DEFINE reply == ReportReply(n, right)
<1>1. /\ HearFrom(n) /\ fresh' = fresh \ {m} /\ FinalizeNow(m) /\ SetAwake(n, << m >>)
      /\ GenericCallback(0, reply) /\ Delete(Completed(0, reply))
      /\ UNCHANGED << tryVars, call, wireVars >>
  BY DEF ReceiveWakeUpNotification
<1>2. n \in Node /\ << m >> \in Seq(Msg)
  BY DriverAssumption
<1>3. HealthType' /\ TryType' /\ CallType' /\ ParksForSleepy' /\ WireType'
  BY <1>1, <1>2, HealthTypes, Unchanged
<1>4. QueueType' /\ QueueEventsMatch' /\ SleepType'
  BY <1>1, <1>2, SetAwakeType DEF SleepType
<1>5. IdType'
  BY <1>1, FinalizeType DEF TypeOK, IdType
<1>6. TransactionType' /\ TransactionOpen' /\ LifeType'
  <2> HIDE DEF reply
  <2>1. TransactionType' /\ TransactionOpen' /\ deleted' \in SUBSET Msg
    BY <1>1, ProcessedType
  <2> QED BY <1>1, <2>1 DEF TypeOK, LifeType
<1> QED BY <1>3, <1>4, <1>5, <1>6, TypeParts

LEMMA ReceiveNodeInfoInv == ASSUME Inv, NEW n \in Node, ReceiveNodeInfo(n) PROVE Inv'
<1> USE DEF Inv
<1> DEFINE reply == IF CurrentNode = n THEN "update" ELSE "nothing"
<1>1. /\ Revive(n)
      /\ IF n \in Sleepy THEN SetAwake(n, << >>) ELSE UNCHANGED << queueVars, sleepVars >>
      /\ GenericCallback(UpdateNodeInfoReceived, reply)
      /\ Delete(Completed(UpdateNodeInfoReceived, reply))
      /\ UNCHANGED << idVars, tryVars, fresh, call, wireVars >>
  BY DEF ReceiveNodeInfo
<1>2. HealthType' /\ IdType' /\ TryType' /\ CallType' /\ ParksForSleepy' /\ WireType'
  BY <1>1, HealthTypes, Unchanged
<1>3. QueueType' /\ QueueEventsMatch' /\ SleepType'
  <2>1. CASE n \in Sleepy
    <3>1. << >> \in Seq(Msg)
      OBVIOUS
    <3> QED BY <1>1, <2>1, <3>1, SetAwakeType DEF SleepType
  <2>2. CASE n \notin Sleepy
    BY <1>1, <2>2, QueuesUnchanged, Unchanged
  <2> QED BY <2>1, <2>2
<1>4. TransactionType' /\ TransactionOpen' /\ LifeType'
  <2> HIDE DEF reply
  <2>1. TransactionType' /\ TransactionOpen' /\ deleted' \in SUBSET Msg
    BY <1>1, ProcessedType
  <2> QED BY <1>1, <2>1 DEF TypeOK, LifeType
<1> QED BY <1>2, <1>3, <1>4, TypeParts

LEMMA ReceiveNodeInfoFailedInv ==
  ASSUME Inv, NEW f \in air, ReceiveNodeInfoFailed(f) PROVE Inv'
<1> USE DEF Inv
<1>1. UNCHANGED << idVars, maxSendAttempts, fresh, healthVars, call, owed >> /\ air' = air \ {f}
  BY DEF ReceiveNodeInfoFailed
<1>2. IdType' /\ HealthType' /\ CallType' /\ ParksForSleepy'
  BY <1>1, Unchanged
<1>3. WireType'
  BY <1>1 DEF TypeOK, WireType
<1>4. /\ TransactionType' /\ TransactionOpen' /\ QueueType' /\ QueueEventsMatch'
      /\ pending' \in [Sleepy -> Seq(Msg)] /\ sendAttempts' \in [Msg -> Nat]
      /\ awake' \in [Sleepy -> BOOLEAN] /\ deleted' \in SUBSET Msg
  <2>1. CASE CurrentNode \in Sleepy
    BY <2>1, MoveType DEF ReceiveNodeInfoFailed
  <2>2. CASE CurrentNode \notin Sleepy
    <3>1. /\ GenericCallback(UpdateNodeInfoFailed, "update")
          /\ Delete(Completed(UpdateNodeInfoFailed, "update"))
          /\ UNCHANGED << queueVars, sleepVars, sendAttempts >>
      BY <2>2 DEF ReceiveNodeInfoFailed
    <3>2. TransactionType' /\ TransactionOpen' /\ deleted' \in SUBSET Msg
      BY <3>1, ProcessedType
    <3> QED BY <3>1, <3>2, QueuesUnchanged DEF TypeOK, sleepVars
  <2> QED BY <2>1, <2>2
<1>5. TryType' /\ SleepType' /\ LifeType'
  BY <1>1, <1>4 DEF TypeOK, TryType, SleepType, LifeType
<1> QED BY <1>2, <1>3, <1>4, <1>5, TypeParts

LEMMA ReceiveResponseInv == ASSUME Inv, NEW f \in air, ReceiveResponse(f) PROVE Inv'
<1> USE DEF Inv
<1>1. /\ UNCHANGED << queueVars, idVars, tryVars, fresh, sleepVars, healthVars, call, owed >>
      /\ air' = air \ {f} /\ GenericCallback(0, "local") /\ Delete(Completed(0, "local"))
  BY DEF ReceiveResponse
<1>2. IdType' /\ TryType' /\ SleepType' /\ HealthType' /\ CallType' /\ ParksForSleepy'
  BY <1>1, Unchanged
<1>3. QueueType' /\ QueueEventsMatch' /\ WireType'
  BY <1>1, QueuesUnchanged DEF TypeOK, WireType
<1>4. TransactionType' /\ TransactionOpen' /\ LifeType'
  <2>1. TransactionType' /\ TransactionOpen' /\ deleted' \in SUBSET Msg
    BY <1>1, ProcessedType
  <2> QED BY <1>1, <2>1 DEF TypeOK, LifeType
<1> QED BY <1>2, <1>3, <1>4, TypeParts
-----------------------------------------------------------------------------
\* The driver starts with empty queues, no signalled event and no open transaction.
LEMMA InitInv == Init => Inv
<1> SUFFICES ASSUME Init PROVE Inv
  OBVIOUS
<1>1. msgQueue = [q \in Queues |-> << >>] /\ queueEvent = [q \in Queues |-> FALSE]
      /\ pending = [n \in Sleepy |-> << >>] /\ call = [t \in Thread |-> NoCall]
  BY DEF Init
<1>2. /\ msgQueue \in [Queues -> Seq(Msg)] /\ queueEvent \in [Queues -> BOOLEAN]
      /\ pending \in [Sleepy -> Seq(Msg)] /\ call \in [Thread -> Calls]
  <2>1. << >> \in Seq(Msg) /\ NoCall \in Calls
    BY DEF Calls
  <2> QED BY <1>1, <2>1
<1>3. /\ awake \in [Sleepy -> BOOLEAN] /\ nodeAlive \in [Node -> BOOLEAN]
      /\ errors \in [Node -> 0 .. DeadAfter]
  BY DEF Init, DeadAfter
<1>4. /\ callbackId \in [Msg -> CallbackIds] /\ sendAttempts \in [Msg -> Nat]
      /\ maxSendAttempts \in [Msg -> Nat] /\ nextCallbackId \in CallbackIds
  BY DriverAssumption DEF Init, CallbackIds, FirstCallbackId
<1>5. /\ currentMsg = NoMsg /\ expectedCallbackId = 0 /\ expectedReply = "none"
      /\ waitingForAck = FALSE
  BY DEF Init
<1>6. TypeOK
  <2>1. expectedCallbackId \in CallbackIds /\ expectedReply \in Replies
        /\ currentMsg \in Msg \cup {NoMsg}
    BY <1>5 DEF CallbackIds, Replies
  <2>b. waitingForAck \in BOOLEAN
    BY <1>5
  <2>2. fresh \in SUBSET Msg /\ deleted \in SUBSET Msg /\ air \in SUBSET Frames
    <3>1. fresh = Msg /\ deleted = {} /\ air = {}
      BY DEF Init
    <3>2. {} \in SUBSET Msg /\ {} \in SUBSET Frames /\ Msg \in SUBSET Msg
      OBVIOUS
    <3> QED BY <3>1, <3>2
  <2>3. owed \in 0 .. MaxOwed
    BY DriverAssumption DEF Init
  <2> QED BY <1>2, <1>3, <1>4, <2>1, <2>b, <2>2, <2>3 DEF TypeOK
<1>7. TransactionOpen
  BY <1>5 DEF TransactionOpen, Busy
<1>8. QueueEventsMatch
  BY <1>1 DEF QueueEventsMatch
<1>9. ParksForSleepy
  BY <1>1 DEF ParksForSleepy, NoCall
<1> QED BY <1>6, <1>7, <1>8, <1>9 DEF Inv

\* Every action of every actor preserves the invariant.
LEMMA NextInv == Inv /\ [Next]_vars => Inv'
<1> SUFFICES ASSUME Inv, [Next]_vars PROVE Inv'
  OBVIOUS
<1>1. CASE \E t \in Thread : AppNext(t)
  BY <1>1, BeginSendInv, TestAwakeInv, EndSendInv DEF AppNext
<1>2. CASE \E m \in Msg : WatcherSends(m)
  BY <1>2, WatcherSendsInv
<1>3. CASE SendNext
  BY <1>3, WriteNextMsgInv DEF SendNext
<1>4. CASE WaitTimeout
  BY <1>4, WaitTimeoutInv
<1>5. CASE ReceiveNext
  <2>1. CASE ReceiveAck \/ ReceiveNak \/ ReceiveCan
    BY <2>1, ReceiveAckInv, ReceiveNakInv, ReceiveCanInv
  <2>2. CASE \E f \in air : \/ \E answer \in Answers : ReceiveCallback(f, answer)
                          \/ ReceiveNodeInfoFailed(f)
                          \/ ReceiveResponse(f)
    BY <2>2, ReceiveCallbackInv, ReceiveNodeInfoFailedInv, ReceiveResponseInv
  <2>3. CASE \E n \in Node, right \in BOOLEAN, answer \in Msg \cup {NoMsg} :
               ReceiveReport(n, right, answer)
    BY <2>3, ReceiveReportInv
  <2>4. CASE \E n \in Sleepy, right \in BOOLEAN, m \in Msg :
               ReceiveWakeUpNotification(n, right, m)
    BY <2>4, ReceiveWakeUpNotificationInv
  <2>5. CASE \E n \in Node : ReceiveNodeInfo(n)
    BY <2>5, ReceiveNodeInfoInv
  <2> QED BY <1>5, <2>1, <2>2, <2>3, <2>4, <2>5 DEF ReceiveNext
<1>6. CASE UNCHANGED vars
  <2> USE DEF Inv
  <2>1. /\ UNCHANGED << queueVars, transactionVars, idVars, tryVars, fresh, deleted >>
        /\ UNCHANGED << sleepVars, healthVars, call, wireVars >>
    BY <1>6 DEF vars
  <2>2. QueueType' /\ QueueEventsMatch' /\ TransactionOpen'
    BY <2>1, QueuesUnchanged, OpenUnchanged
  <2>3. TransactionType' /\ IdType' /\ TryType' /\ LifeType' /\ SleepType'
        /\ HealthType' /\ CallType' /\ ParksForSleepy' /\ WireType'
    BY <2>1, Unchanged
  <2> QED BY <2>2, <2>3, TypeParts
<1> QED BY <1>1, <1>2, <1>3, <1>4, <1>5, <1>6 DEF Next

\* Whatever the nodes, the messages, the threads and the limits, the driver's
\* state keeps its type.
THEOREM TypeCorrect == Spec => []TypeOK
<1>1. Spec => []Inv
  BY InitInv, NextInv, PTL DEF Spec
<1>2. Inv => TypeOK
  BY DEF Inv
<1> QED BY <1>1, <1>2, PTL

\* The driver never waits for an answer without a message to resend, and never
\* holds a message that nothing will complete, resend or drop.
THEOREM TransactionCorrect == Spec => []TransactionOpen
<1>1. Spec => []Inv
  BY InitInv, NextInv, PTL DEF Spec
<1>2. Inv => TransactionOpen
  BY DEF Inv
<1> QED BY <1>1, <1>2, PTL

\* A send queue's event is signalled exactly while the queue holds a message, so
\* no message is stranded and WriteNextMsg never takes the front of an empty list.
THEOREM QueueEventsCorrect == Spec => []QueueEventsMatch
<1>1. Spec => []Inv
  BY InitInv, NextInv, PTL DEF Spec
<1>2. Inv => QueueEventsMatch
  BY DEF Inv
<1> QED BY <1>1, <1>2, PTL
-----------------------------------------------------------------------------
\* m is in the place k of this kind; k is 0 where there is only one place.
At(m, kind, k) ==
  \/ kind = "fresh" /\ k = 0 /\ m \in fresh
  \/ kind = "deleted" /\ k = 0 /\ m \in deleted
  \/ kind = "current" /\ k = 0 /\ m = currentMsg
  \/ kind = "call" /\ k \in Thread /\ m = call[k].msg
  \/ kind = "queue" /\ k \in Queues /\ m \in Range(msgQueue[k])
  \/ kind = "pending" /\ k \in Sleepy /\ m \in Range(pending[k])

Only(m, kind, k) == \A x, y : At(m, x, y) <=> x = kind /\ y = k

\* A step leaves m where it is.
Stays(m) == \A x, y : At(m, x, y)' <=> At(m, x, y)

ListsInjective ==
  /\ \A q \in Queues : IsInjective(msgQueue[q])
  /\ \A n \in Sleepy : IsInjective(pending[n])

\* The inductive invariant: on top of that of the queues and the transaction, no list
\* holds a message twice, and no message is in two places.
PlaceInv ==
  /\ Inv
  /\ ListsInjective
  /\ \A m \in Msg : \E kind, k : Only(m, kind, k)

-----------------------------------------------------------------------------
\* A message that is at a place is nowhere else.
LEMMA Elsewhere ==
  ASSUME PlaceInv, NEW m \in Msg, NEW kind, NEW k, At(m, kind, k)
  PROVE  Only(m, kind, k)
BY DEF PlaceInv, Only

\* What a message that is fresh, current, or with a thread is not.
LEMMA FreshOnly ==
  ASSUME PlaceInv, NEW m \in fresh
  PROVE  /\ m \in Msg /\ m \notin deleted /\ m # currentMsg
         /\ \A t \in Thread : m # call[t].msg
         /\ \A q \in Queues : m \notin Range(msgQueue[q])
         /\ \A n \in Sleepy : m \notin Range(pending[n])
<1>1. m \in Msg
  BY DEF PlaceInv, Inv, TypeOK
<1>2. Only(m, "fresh", 0)
  BY <1>1, Elsewhere DEF At
<1> QED BY <1>1, <1>2 DEF Only, At

LEMMA CurrentOnly ==
  ASSUME PlaceInv, currentMsg # NoMsg
  PROVE  /\ currentMsg \in Msg /\ currentMsg \notin fresh /\ currentMsg \notin deleted
         /\ \A t \in Thread : currentMsg # call[t].msg
         /\ \A q \in Queues : currentMsg \notin Range(msgQueue[q])
         /\ \A n \in Sleepy : currentMsg \notin Range(pending[n])
<1>1. currentMsg \in Msg
  BY DEF PlaceInv, Inv, TypeOK
<1>2. Only(currentMsg, "current", 0)
  BY <1>1, Elsewhere DEF At
<1> QED BY <1>1, <1>2 DEF Only, At

LEMMA CallOnly ==
  ASSUME PlaceInv, NEW t \in Thread, call[t].msg \in Msg
  PROVE  /\ call[t].msg \notin fresh /\ call[t].msg \notin deleted /\ call[t].msg # currentMsg
         /\ \A u \in Thread : call[u].msg = call[t].msg => u = t
         /\ \A q \in Queues : call[t].msg \notin Range(msgQueue[q])
         /\ \A n \in Sleepy : call[t].msg \notin Range(pending[n])
<1>1. Only(call[t].msg, "call", t)
  BY Elsewhere DEF At
<1> QED BY <1>1 DEF Only, At

LEMMA QueueOnly ==
  ASSUME PlaceInv, NEW q \in Queues, NEW m \in Range(msgQueue[q])
  PROVE  /\ m \in Msg /\ m \notin fresh /\ m \notin deleted /\ m # currentMsg
         /\ \A t \in Thread : m # call[t].msg
         /\ \A r \in Queues : m \in Range(msgQueue[r]) => r = q
         /\ \A n \in Sleepy : m \notin Range(pending[n])
<1>1. m \in Msg
  BY ListElements DEF PlaceInv, Inv, TypeOK
<1>2. Only(m, "queue", q)
  BY <1>1, Elsewhere DEF At
<1> QED BY <1>1, <1>2 DEF Only, At

LEMMA PendingOnly ==
  ASSUME PlaceInv, NEW n \in Sleepy, NEW m \in Range(pending[n])
  PROVE  /\ m \in Msg /\ m \notin fresh /\ m \notin deleted /\ m # currentMsg
         /\ \A t \in Thread : m # call[t].msg
         /\ \A q \in Queues : m \notin Range(msgQueue[q])
         /\ \A k \in Sleepy : m \in Range(pending[k]) => k = n
<1>1. m \in Msg
  BY ListElements DEF PlaceInv, Inv, TypeOK
<1>2. Only(m, "pending", n)
  BY <1>1, Elsewhere DEF At
<1> QED BY <1>1, <1>2 DEF Only, At

\* What the step does to every message decides whether the invariant is kept.
LEMMA Placed ==
  ASSUME PlaceInv, Inv', ListsInjective',
         \A m \in Msg : Stays(m) \/ \E kind, k : Only(m, kind, k)'
  PROVE  PlaceInv'
<1>1. ASSUME NEW m \in Msg, Stays(m) PROVE \E kind, k : Only(m, kind, k)'
  <2>1. PICK kind, k : Only(m, kind, k)
    BY DEF PlaceInv
  <2>2. Only(m, kind, k)'
    BY <1>1, <2>1 DEF Only, Stays
  <2> QED BY <2>2
<1> QED BY <1>1 DEF PlaceInv
-----------------------------------------------------------------------------
\* What the operations on the lists do to what is in them.
LEMMA PushLists ==
  ASSUME TypeOK, ListsInjective, NEW q \in Queues, NEW s \in Seq(Msg), IsInjective(s),
         Range(msgQueue[q]) \cap Range(s) = {}, Push(q, s)
  PROVE  \A r \in Queues :
           /\ IsInjective(msgQueue'[r])
           /\ Range(msgQueue'[r]) = IF r = q THEN Range(msgQueue[r]) \cup Range(s)
                                    ELSE Range(msgQueue[r])
<1>1. msgQueue[q] \in Seq(Msg)
  BY DEF TypeOK
<1>2. IsInjective(msgQueue[q] \o s) /\ Range(msgQueue[q] \o s) = Range(msgQueue[q]) \cup Range(s)
  BY <1>1, ConcatList DEF ListsInjective
<1>3. \A r \in Queues : msgQueue'[r] = IF r = q THEN msgQueue[q] \o s ELSE msgQueue[r]
  BY DEF Push, TypeOK
<1> QED BY <1>2, <1>3 DEF ListsInjective

LEMMA ParkLists ==
  ASSUME TypeOK, ListsInjective, NEW n \in Sleepy, NEW s \in Seq(Msg), IsInjective(s),
         Range(pending[n]) \cap Range(s) = {}, Park(n, s)
  PROVE  /\ Superseded(n, s) \subseteq Range(pending[n]) \cup Range(s)
         /\ \A k \in Sleepy :
              /\ IsInjective(pending'[k])
              /\ Range(pending'[k]) = IF k = n THEN (Range(pending[n]) \cup Range(s)) \ Superseded(n, s)
                                      ELSE Range(pending[k])
<1> DEFINE all == pending[n] \o s
           new == Newest(all, Content)
<1>1. pending[n] \in Seq(Msg)
  BY DEF TypeOK
<1>2. all \in Seq(Msg) /\ IsInjective(all) /\ Range(all) = Range(pending[n]) \cup Range(s)
  BY <1>1, ConcatList DEF ListsInjective
<1> HIDE DEF new
<1>3. IsInjective(Keep(all, new)) /\ Range(Keep(all, new)) = Range(all) \cap new
  <2> HIDE DEF all
  <2>1. /\ Keep(all, new) \in Seq(Msg \cap new)
        /\ Range(Keep(all, new)) = Range(all) \cap new
        /\ IsInjective(all) => IsInjective(Keep(all, new))
    BY <1>2, KeepList
  <2> QED BY <1>2, <2>1
<1>4. \A k \in Sleepy : pending'[k] = IF k = n THEN Keep(all, new) ELSE pending[k]
  BY DEF Park, TypeOK, QueueAll, new
<1>5. Superseded(n, s) = Range(all) \ new
  BY DEF Superseded, new
<1> HIDE DEF all
<1> QED BY <1>2, <1>3, <1>4, <1>5 DEF ListsInjective

LEMMA OneItem == ASSUME NEW m \in Msg
                 PROVE << m >> \in Seq(Msg) /\ IsInjective(<< m >>) /\ Range(<< m >>) = {m}
<1>1. << m >> \in Seq(Msg) /\ DOMAIN << m >> = {1} /\ << m >>[1] = m
  OBVIOUS
<1> QED BY <1>1 DEF IsInjective, Range

\* Lists that a step leaves alone.
LEMMA SameQueues ==
  ASSUME UNCHANGED msgQueue, ListsInjective
  PROVE  \A q \in Queues : IsInjective(msgQueue'[q]) /\ Range(msgQueue'[q]) = Range(msgQueue[q])
BY DEF ListsInjective

LEMMA SamePending ==
  ASSUME UNCHANGED pending, ListsInjective
  PROVE  \A n \in Sleepy : IsInjective(pending'[n]) /\ Range(pending'[n]) = Range(pending[n])
BY DEF ListsInjective

LEMMA InjectiveAfter ==
  ASSUME \A q \in Queues : IsInjective(msgQueue'[q]), \A n \in Sleepy : IsInjective(pending'[n])
  PROVE  ListsInjective'
BY DEF ListsInjective
-----------------------------------------------------------------------------
(* How each kind of step moves the messages. *)

\* The message m is in no list, nor the current one.
OffLists(m) ==
  /\ m \notin deleted /\ m # currentMsg
  /\ \A q \in Queues : m \notin Range(msgQueue[q])
  /\ \A n \in Sleepy : m \notin Range(pending[n])

\* The step takes m out of the hands of its maker.
Leaves(m) ==
  /\ fresh' = fresh \ {m}
  /\ \A t \in Thread : call'[t].msg = IF call[t].msg = m THEN NoMsg ELSE call[t].msg

SameHands == fresh' = fresh /\ \A t \in Thread : call'[t].msg = call[t].msg

\* The step ends the transaction of the messages in done, which is at most one.
Completes(done) ==
  done \subseteq {currentMsg} /\ currentMsg' = IF done = {} THEN currentMsg ELSE NoMsg

\* Messages of done are deleted, the others stay.
Settled(x, done) == IF x \in done THEN Only(x, "deleted", 0)' ELSE Stays(x)

\* A message is in the same place after a step when every place says so.
LEMMA StaysWhere ==
  ASSUME NEW m,
         m \in fresh' <=> m \in fresh, m \in deleted' <=> m \in deleted,
         m = currentMsg' <=> m = currentMsg,
         \A t \in Thread : m = call'[t].msg <=> m = call[t].msg,
         \A q \in Queues : m \in Range(msgQueue'[q]) <=> m \in Range(msgQueue[q]),
         \A n \in Sleepy : m \in Range(pending'[n]) <=> m \in Range(pending[n])
  PROVE  Stays(m)
BY DEF Stays, At

\* A message that has been deleted and is in no other place.
LEMMA OnlyDeleted ==
  ASSUME NEW m, m \in deleted', m \notin fresh', m # currentMsg',
         \A t \in Thread : m # call'[t].msg,
         \A q \in Queues : m \notin Range(msgQueue'[q]),
         \A n \in Sleepy : m \notin Range(pending'[n])
  PROVE  Only(m, "deleted", 0)'
BY DEF Only, At

\* A message that is parked for n and in no other place.
LEMMA OnlyPending ==
  ASSUME NEW m, NEW n \in Sleepy, m \notin deleted', m \notin fresh', m # currentMsg',
         \A t \in Thread : m # call'[t].msg,
         \A q \in Queues : m \notin Range(msgQueue'[q]),
         \A k \in Sleepy : m \in Range(pending'[k]) <=> k = n
  PROVE  Only(m, "pending", n)'
BY DEF Only, At

\* What the step ends is not the current message any more, the rest is what it was.
LEMMA CompletesSays ==
  ASSUME NEW done, Completes(done), NEW x \in Msg
  PROVE  /\ x \in done => x = currentMsg /\ x # currentMsg'
         /\ x \notin done => (x = currentMsg' <=> x = currentMsg)
BY DriverAssumption DEF Completes

\* SendMsg for an awake node.
LEMMA PushPlaces ==
  ASSUME PlaceInv, Inv', NEW m \in Msg, NEW q \in Queues, NEW done,
         OffLists(m), Leaves(m), Completes(done), Delete(done),
         Push(q, << m >>), UNCHANGED pending
  PROVE  /\ PlaceInv'
         /\ Only(m, "queue", q)'
         /\ \A x \in Msg \ {m} : Settled(x, done)
<1>1. \A r \in Queues : /\ IsInjective(msgQueue'[r])
                        /\ Range(msgQueue'[r]) = IF r = q THEN Range(msgQueue[r]) \cup {m}
                                                 ELSE Range(msgQueue[r])
  <2>1. << m >> \in Seq(Msg) /\ IsInjective(<< m >>) /\ Range(<< m >>) = {m}
    BY OneItem
  <2>2. Range(msgQueue[q]) \cap {m} = {}
    BY DEF OffLists
  <2>3. TypeOK /\ ListsInjective
    BY DEF PlaceInv, Inv
  <2> DEFINE s == << m >>
  <2> HIDE DEF s
  <2>4. s \in Seq(Msg) /\ IsInjective(s) /\ Range(s) = {m} /\ Push(q, s)
    BY <2>1 DEF s
  <2>5. \A r \in Queues : /\ IsInjective(msgQueue'[r])
                          /\ Range(msgQueue'[r]) = IF r = q THEN Range(msgQueue[r]) \cup Range(s)
                                                   ELSE Range(msgQueue[r])
    BY <2>2, <2>3, <2>4, PushLists
  <2> QED BY <2>4, <2>5
<1>2. \A n \in Sleepy : IsInjective(pending'[n]) /\ Range(pending'[n]) = Range(pending[n])
  BY SamePending DEF PlaceInv
<1>3. deleted' = deleted \cup (done \ {NoMsg}) /\ NoMsg \notin Msg
  BY DriverAssumption DEF Delete
<1>4. Only(m, "queue", q)'
  <2>1. m # NoMsg /\ m \notin fresh' /\ m \notin deleted' /\ m # currentMsg'
    BY <1>3 DEF OffLists, Leaves, Completes
  <2>2. \A t \in Thread : m # call'[t].msg
    BY <2>1 DEF Leaves
  <2>3. \A n \in Sleepy : m \notin Range(pending'[n])
    BY <1>2 DEF OffLists
  <2>4. \A r \in Queues : m \in Range(msgQueue'[r]) <=> r = q
    BY <1>1 DEF OffLists
  <2> QED BY <2>1, <2>2, <2>3, <2>4 DEF Only, At
<1>5. ASSUME NEW x \in Msg \ {m}, x \notin done PROVE Stays(x)
  <2>1. x = currentMsg' <=> x = currentMsg
    BY <1>5, CompletesSays
  <2>2. (x \in fresh' <=> x \in fresh) /\ (x \in deleted' <=> x \in deleted)
    BY <1>3, <1>5 DEF Leaves
  <2>3. \A t \in Thread : x = call'[t].msg <=> x = call[t].msg
    BY <1>3 DEF Leaves
  <2> QED BY <1>1, <1>2, <2>1, <2>2, <2>3, StaysWhere
<1>6. ASSUME NEW x \in Msg \ {m}, x \in done PROVE Only(x, "deleted", 0)'
  <2>1. x = currentMsg /\ x # currentMsg' /\ x # NoMsg /\ x \in deleted'
    BY <1>3, <1>6, CompletesSays
  <2>2. /\ x \notin fresh /\ \A t \in Thread : x # call[t].msg
        /\ \A r \in Queues : x \notin Range(msgQueue[r])
        /\ \A n \in Sleepy : x \notin Range(pending[n])
    BY <2>1, CurrentOnly
  <2>3. x \notin fresh' /\ \A t \in Thread : x # call'[t].msg
    BY <1>3, <2>2 DEF Leaves
  <2> QED BY <1>1, <1>2, <2>1, <2>2, <2>3, OnlyDeleted
<1>7. \A x \in Msg \ {m} : Settled(x, done)
  BY <1>5, <1>6 DEF Settled
<1>8. \A x \in Msg : Stays(x) \/ \E kind, k : Only(x, kind, k)'
  BY <1>4, <1>7 DEF Settled
<1>9. ListsInjective'
  BY <1>1, <1>2, InjectiveAfter
<1> QED BY <1>4, <1>7, <1>8, <1>9, Placed

\* The last of a list is not superseded.
LEMMA LastStays ==
  ASSUME NEW n \in Sleepy, pending[n] \in Seq(Msg), NEW m \in Msg
  PROVE  m \notin Superseded(n, << m >>)
<1> DEFINE all == pending[n] \o << m >>
<1>1. /\ all \in Seq(Msg) /\ Len(all) \in Nat /\ Len(all) \in DOMAIN all
      /\ all[Len(all)] = m /\ \A k \in DOMAIN all : ~(k > Len(all))
  OBVIOUS
<1> HIDE DEF all
<1>2. m \in Newest(all, Content)
  BY <1>1 DEF Newest
<1> QED BY <1>2 DEF Superseded, all

\* QueueMsg for a node that is asleep.
LEMMA ParkPlaces ==
  ASSUME PlaceInv, Inv', NEW m \in Msg, NEW n \in Sleepy, NEW done,
         OffLists(m), Leaves(m), Completes(done),
         Delete(done \cup Superseded(n, << m >>)), Park(n, << m >>), UNCHANGED msgQueue
  PROVE  /\ PlaceInv'
         /\ Only(m, "pending", n)'
         /\ Superseded(n, << m >>) \subseteq Range(pending[n])
         /\ \A x \in Msg \ {m} : Settled(x, done \cup Superseded(n, << m >>))
<1> DEFINE old == Superseded(n, << m >>)
<1>0. TypeOK /\ ListsInjective /\ pending[n] \in Seq(Msg)
  BY DEF PlaceInv, Inv, TypeOK
<1>1. m \notin old
  BY <1>0, LastStays
<1> HIDE DEF old
<1>2. /\ old \subseteq Range(pending[n])
      /\ \A k \in Sleepy : /\ IsInjective(pending'[k])
                           /\ Range(pending'[k]) = IF k = n THEN (Range(pending[n]) \cup {m}) \ old
                                                   ELSE Range(pending[k])
  <2>1. << m >> \in Seq(Msg) /\ IsInjective(<< m >>) /\ Range(<< m >>) = {m}
    BY OneItem
  <2>2. Range(pending[n]) \cap {m} = {}
    BY DEF OffLists
  <2>3. /\ old \subseteq Range(pending[n]) \cup {m}
        /\ \A k \in Sleepy : /\ IsInjective(pending'[k])
                             /\ Range(pending'[k]) = IF k = n THEN (Range(pending[n]) \cup {m}) \ old
                                                     ELSE Range(pending[k])
    BY <1>0, <2>1, <2>2, ParkLists DEF old
  <2> QED BY <1>1, <2>3
<1>3. \A q \in Queues : IsInjective(msgQueue'[q]) /\ Range(msgQueue'[q]) = Range(msgQueue[q])
  BY SameQueues DEF PlaceInv
<1>4. deleted' = deleted \cup ((done \cup old) \ {NoMsg}) /\ NoMsg \notin Msg
  BY DriverAssumption DEF Delete, old
<1>5. Only(m, "pending", n)'
  BY <1>1, <1>2, <1>3, <1>4 DEF Only, At, OffLists, Leaves, Completes
<1>6. ASSUME NEW x \in Msg \ {m}, x \notin done \cup old PROVE Stays(x)
  BY <1>2, <1>3, <1>4, <1>6 DEF Stays, At, Leaves, Completes
<1>7. ASSUME NEW x \in Msg \ {m}, x \in done PROVE Only(x, "deleted", 0)'
  <2>1. x = currentMsg /\ currentMsg' = NoMsg /\ x # NoMsg
    BY <1>4, <1>7 DEF Completes
  <2> QED BY <1>2, <1>3, <1>4, <1>7, <2>1, CurrentOnly DEF Only, At, Leaves
<1>8. ASSUME NEW x \in Msg \ {m}, x \in old PROVE Only(x, "deleted", 0)'
  <2>1. x \in Range(pending[n])
    BY <1>2, <1>8
  <2>2. /\ x \notin fresh /\ x # currentMsg /\ \A t \in Thread : x # call[t].msg
        /\ \A q \in Queues : x \notin Range(msgQueue[q])
        /\ \A k \in Sleepy : x \in Range(pending[k]) => k = n
    BY <2>1, PendingOnly
  <2>3. x # currentMsg' /\ x \in deleted'
    BY <1>4, <1>8, <2>2 DEF Completes
  <2> QED BY <1>2, <1>3, <1>4, <1>8, <2>2, <2>3 DEF Only, At, Leaves
<1>9. \A x \in Msg \ {m} : Settled(x, done \cup old)
  BY <1>6, <1>7, <1>8 DEF Settled
<1>10. \A x \in Msg : Stays(x) \/ \E kind, k : Only(x, kind, k)'
  BY <1>5, <1>9 DEF Settled
<1>11. ListsInjective'
  BY <1>2, <1>3, InjectiveAfter
<1> QED BY <1>2, <1>5, <1>9, <1>10, <1>11, Placed DEF old

\* A frame, a timeout or nothing at all ends the transaction or leaves it open.
LEMMA EndPlaces ==
  ASSUME PlaceInv, Inv', NEW done, SameHands, Completes(done), Delete(done),
         UNCHANGED << msgQueue, pending >>
  PROVE  PlaceInv' /\ \A x \in Msg : Settled(x, done)
<1>1. \A r \in Queues : IsInjective(msgQueue'[r]) /\ Range(msgQueue'[r]) = Range(msgQueue[r])
  BY SameQueues DEF PlaceInv
<1>2. \A n \in Sleepy : IsInjective(pending'[n]) /\ Range(pending'[n]) = Range(pending[n])
  BY SamePending DEF PlaceInv
<1>3. deleted' = deleted \cup (done \ {NoMsg}) /\ NoMsg \notin Msg
  BY DriverAssumption DEF Delete
<1>4. ASSUME NEW x \in Msg, x \notin done PROVE Stays(x)
  <2>1. x = currentMsg' <=> x = currentMsg
    BY <1>4, CompletesSays
  <2>2. (x \in fresh' <=> x \in fresh) /\ (x \in deleted' <=> x \in deleted)
    BY <1>3, <1>4 DEF SameHands
  <2>3. \A t \in Thread : x = call'[t].msg <=> x = call[t].msg
    BY DEF SameHands
  <2> QED BY <1>1, <1>2, <2>1, <2>2, <2>3, StaysWhere
<1>5. ASSUME NEW x \in Msg, x \in done PROVE Only(x, "deleted", 0)'
  <2>1. x = currentMsg /\ x # currentMsg' /\ x # NoMsg /\ x \in deleted'
    BY <1>3, <1>5, CompletesSays
  <2>2. /\ x \notin fresh /\ \A t \in Thread : x # call[t].msg
        /\ \A r \in Queues : x \notin Range(msgQueue[r])
        /\ \A n \in Sleepy : x \notin Range(pending[n])
    BY <2>1, CurrentOnly
  <2>3. x \notin fresh' /\ \A t \in Thread : x # call'[t].msg
    BY <2>2 DEF SameHands
  <2> QED BY <1>1, <1>2, <2>1, <2>2, <2>3, OnlyDeleted
<1>6. \A x \in Msg : Settled(x, done)
  BY <1>4, <1>5 DEF Settled
<1>7. \A x \in Msg : Stays(x) \/ \E kind, k : Only(x, kind, k)'
  BY <1>6 DEF Settled
<1>8. ListsInjective'
  BY <1>1, <1>2, InjectiveAfter
<1> QED BY <1>6, <1>7, <1>8, Placed

\* A thread that begins SendMsg has the message it made.
LEMMA HandPlaces ==
  ASSUME PlaceInv, Inv', NEW t \in Thread, NEW m \in fresh, call[t].msg \notin Msg,
         fresh' = fresh \ {m}, call'[t].msg = m,
         \A u \in Thread \ {t} : call'[u].msg = call[u].msg,
         UNCHANGED << msgQueue, pending, currentMsg, deleted >>
  PROVE  PlaceInv' /\ Only(m, "call", t)' /\ \A x \in Msg \ {m} : Stays(x)
<1>1. \A r \in Queues : IsInjective(msgQueue'[r]) /\ Range(msgQueue'[r]) = Range(msgQueue[r])
  BY SameQueues DEF PlaceInv
<1>2. \A n \in Sleepy : IsInjective(pending'[n]) /\ Range(pending'[n]) = Range(pending[n])
  BY SamePending DEF PlaceInv
<1>3. /\ m \in Msg /\ m \notin deleted /\ m # currentMsg
      /\ \A u \in Thread : m # call[u].msg
      /\ \A q \in Queues : m \notin Range(msgQueue[q])
      /\ \A n \in Sleepy : m \notin Range(pending[n])
  BY FreshOnly
<1>4. Only(m, "call", t)'
  <2>1. \A u \in Thread : m = call'[u].msg <=> u = t
    BY <1>3
  <2>2. m \notin fresh' /\ m \notin deleted' /\ m # currentMsg'
    BY <1>3
  <2>3. /\ \A q \in Queues : m \notin Range(msgQueue'[q])
        /\ \A n \in Sleepy : m \notin Range(pending'[n])
    BY <1>1, <1>2, <1>3
  <2> QED BY <2>1, <2>2, <2>3 DEF Only, At
<1>5. ASSUME NEW x \in Msg \ {m} PROVE Stays(x)
  <2>1. \A u \in Thread : x = call'[u].msg <=> x = call[u].msg
    OBVIOUS
  <2>2. x \in fresh' <=> x \in fresh
    OBVIOUS
  <2> QED BY <1>1, <1>2, <2>1, <2>2, StaysWhere
<1>6. \A x \in Msg : Stays(x) \/ \E kind, k : Only(x, kind, k)'
  BY <1>4, <1>5
<1>7. ListsInjective'
  BY <1>1, <1>2, InjectiveAfter
<1> QED BY <1>4, <1>5, <1>6, <1>7, Placed

\* The front of a queue is taken from it.
LEMMA TakeLists ==
  ASSUME TypeOK, ListsInjective, NEW q \in Queues, msgQueue[q] # << >>,
         msgQueue' = [msgQueue EXCEPT ![q] = Tail(@)]
  PROVE  /\ Head(msgQueue[q]) \in Msg /\ Head(msgQueue[q]) \in Range(msgQueue[q])
         /\ \A r \in Queues :
              /\ IsInjective(msgQueue'[r])
              /\ Range(msgQueue'[r]) = IF r = q THEN Range(msgQueue[r]) \ {Head(msgQueue[q])}
                                       ELSE Range(msgQueue[r])
<1> DEFINE m == Head(msgQueue[q])
           rest == Tail(msgQueue[q])
<1>1. msgQueue[q] \in Seq(Msg) /\ IsInjective(msgQueue[q])
  BY DEF TypeOK, ListsInjective
<1>2. /\ m \in Msg /\ Range(msgQueue[q]) = {m} \cup Range(rest)
      /\ IsInjective(rest) /\ m \notin Range(rest)
  BY <1>1, TailList
<1>3. msgQueue'[q] = rest /\ \A r \in Queues \ {q} : msgQueue'[r] = msgQueue[r]
  BY DEF TypeOK
<1> HIDE DEF m, rest
<1>4. Range(rest) = Range(msgQueue[q]) \ {m}
  BY <1>2
<1>5. ASSUME NEW r \in Queues
      PROVE  /\ IsInjective(msgQueue'[r])
             /\ Range(msgQueue'[r]) = IF r = q THEN Range(msgQueue[r]) \ {m} ELSE Range(msgQueue[r])
  <2>1. CASE r = q
    BY <1>2, <1>3, <1>4, <2>1
  <2>2. CASE r # q
    <3>1. msgQueue'[r] = msgQueue[r]
      BY <1>3, <2>2
    <3> QED BY <2>2, <3>1 DEF ListsInjective
  <2> QED BY <2>1, <2>2
<1> QED BY <1>2, <1>5 DEF m

\* The message m, taken from a queue, becomes the current message or is dropped.
LEMMA WritePlaces ==
  ASSUME PlaceInv, Inv', NEW q \in Queues, NEW m \in Msg, m \in Range(msgQueue[q]),
         \A r \in Queues :
           /\ IsInjective(msgQueue'[r])
           /\ Range(msgQueue'[r]) = IF r = q THEN Range(msgQueue[r]) \ {m}
                                    ELSE Range(msgQueue[r]),
         currentMsg = NoMsg,
         \/ currentMsg' = m /\ UNCHANGED deleted
         \/ currentMsg' = NoMsg /\ Delete({m}),
         SameHands, UNCHANGED pending
  PROVE  /\ PlaceInv' /\ Only(m, "queue", q)
         /\ Only(m, "current", 0)' \/ Only(m, "deleted", 0)'
         /\ \A x \in Msg \ {m} : Stays(x)
<1>4. \A n \in Sleepy : IsInjective(pending'[n]) /\ Range(pending'[n]) = Range(pending[n])
  BY SamePending DEF PlaceInv
<1>5. /\ m \notin fresh /\ m \notin deleted /\ m # currentMsg /\ m # NoMsg
      /\ \A t \in Thread : m # call[t].msg
      /\ \A r \in Queues : m \in Range(msgQueue[r]) <=> r = q
      /\ \A n \in Sleepy : m \notin Range(pending[n])
  BY QueueOnly, DriverAssumption
<1>6. /\ m \notin fresh' /\ \A t \in Thread : m # call'[t].msg
      /\ \A r \in Queues : m \notin Range(msgQueue'[r])
      /\ \A n \in Sleepy : m \notin Range(pending'[n])
  <2>1. m \notin fresh' /\ \A t \in Thread : m # call'[t].msg
    BY <1>5 DEF SameHands
  <2>2. \A r \in Queues : m \notin Range(msgQueue'[r])
    BY <1>5
  <2>3. \A n \in Sleepy : m \notin Range(pending'[n])
    BY <1>4, <1>5
  <2> QED BY <2>1, <2>2, <2>3
<1>7. Only(m, "current", 0)' \/ Only(m, "deleted", 0)'
  <2>1. CASE currentMsg' = m /\ UNCHANGED deleted
    <3>1. m \notin deleted'
      BY <1>5, <2>1
    <3> QED BY <1>6, <2>1, <3>1 DEF Only, At
  <2>2. CASE currentMsg' = NoMsg /\ Delete({m})
    <3>1. m # currentMsg' /\ m \in deleted'
      BY <1>5, <2>2 DEF Delete
    <3> QED BY <1>6, <3>1, OnlyDeleted
  <2> QED BY <2>1, <2>2
<1>8. ASSUME NEW x \in Msg \ {m} PROVE Stays(x)
  <2>1. (x = currentMsg' <=> x = currentMsg) /\ (x \in deleted' <=> x \in deleted)
    BY DriverAssumption DEF Delete
  <2>2. (x \in fresh' <=> x \in fresh) /\ \A t \in Thread : x = call'[t].msg <=> x = call[t].msg
    BY DEF SameHands
  <2> QED BY <1>4, <2>1, <2>2, StaysWhere
<1>9. \A x \in Msg : Stays(x) \/ \E kind, k : Only(x, kind, k)'
  <2>1. \E kind, k : Only(m, kind, k)'
    BY <1>7
  <2> QED BY <1>8, <2>1
<1>10. ListsInjective'
  BY <1>4, InjectiveAfter
<1>11. Only(m, "queue", q)
  BY <1>5 DEF Only, At
<1> QED BY <1>7, <1>8, <1>9, <1>10, <1>11, Placed

\* All that is parked for a node that wakes up, and perhaps a message made for it, is
\* queued.
LEMMA WakePlaces ==
  ASSUME PlaceInv, Inv', NEW n \in Sleepy, NEW extra \in Seq(Msg), IsInjective(extra),
         Range(extra) \subseteq fresh, fresh' = fresh \ Range(extra), UNCHANGED call,
         NEW done, Completes(done), Delete(done), SetAwake(n, extra)
  PROVE  /\ PlaceInv'
         /\ \A x \in Range(pending[n]) \cup Range(extra) : Only(x, "queue", WakeUpQueue)'
         /\ \A x \in Msg \ (Range(pending[n]) \cup Range(extra)) : Settled(x, done)
<1> DEFINE s == pending[n] \o extra
           moved == Range(pending[n]) \cup Range(extra)
<1>0. /\ TypeOK /\ ListsInjective /\ WakeUpQueue \in Queues
      /\ pending[n] \in Seq(Msg) /\ IsInjective(pending[n])
  <2>1. TypeOK /\ ListsInjective
    BY DEF PlaceInv, Inv
  <2>2. WakeUpQueue \in Queues
    BY DEF WakeUpQueue, Queues
  <2> QED BY <2>1, <2>2 DEF TypeOK, ListsInjective
<1>1. ASSUME NEW x \in moved
      PROVE  /\ x \in Msg /\ x \notin deleted /\ x # currentMsg /\ x \notin fresh'
             /\ \A t \in Thread : x # call[t].msg
             /\ \A r \in Queues : x \notin Range(msgQueue[r])
             /\ \A k \in Sleepy : x \in Range(pending[k]) => k = n
  <2>1. CASE x \in Range(pending[n])
    BY <2>1, PendingOnly
  <2>2. CASE x \in Range(extra)
    BY <2>2, FreshOnly
  <2> QED BY <2>1, <2>2
<1>2. s \in Seq(Msg) /\ IsInjective(s) /\ Range(s) = moved
  <2>1. Range(pending[n]) \cap Range(extra) = {}
    BY FreshOnly
  <2> QED BY <1>0, <2>1, ConcatList
<1> HIDE DEF s, moved
<1>3. \A r \in Queues : /\ IsInjective(msgQueue'[r])
                        /\ Range(msgQueue'[r]) = IF r = WakeUpQueue THEN Range(msgQueue[r]) \cup moved
                                                 ELSE Range(msgQueue[r])
  <2>1. Push(WakeUpQueue, s)
    BY DEF SetAwake, s
  <2>2. Range(msgQueue[WakeUpQueue]) \cap Range(s) = {}
    BY <1>0, <1>1, <1>2
  <2>3. \A r \in Queues : /\ IsInjective(msgQueue'[r])
                          /\ Range(msgQueue'[r]) = IF r = WakeUpQueue
                                                   THEN Range(msgQueue[r]) \cup Range(s)
                                                   ELSE Range(msgQueue[r])
    BY <1>0, <1>2, <2>1, <2>2, PushLists
  <2> QED BY <1>2, <2>3
<1>4. \A k \in Sleepy : /\ IsInjective(pending'[k])
                        /\ Range(pending'[k]) = IF k = n THEN {} ELSE Range(pending[k])
  <2>1. pending'[n] = << >> /\ \A k \in Sleepy \ {n} : pending'[k] = pending[k]
    BY <1>0 DEF SetAwake, TypeOK
  <2>2. IsInjective(<< >>) /\ Range(<< >>) = {}
    BY DEF IsInjective, Range
  <2> QED BY <1>0, <2>1, <2>2 DEF ListsInjective
<1>5. deleted' = deleted \cup (done \ {NoMsg}) /\ NoMsg \notin Msg /\ done \subseteq {currentMsg}
  BY DriverAssumption DEF Delete, Completes
<1>6. ASSUME NEW x \in moved PROVE Only(x, "queue", WakeUpQueue)'
  <2>1. x # currentMsg' /\ x \notin deleted' /\ x \notin fresh'
    BY <1>1, <1>5, <1>6, CompletesSays
  <2>2. \A t \in Thread : x # call'[t].msg
    BY <1>1, <1>6
  <2>3. \A k \in Sleepy : x \notin Range(pending'[k])
    BY <1>1, <1>4, <1>6
  <2>4. \A r \in Queues : x \in Range(msgQueue'[r]) <=> r = WakeUpQueue
    BY <1>1, <1>3, <1>6
  <2> QED BY <1>0, <2>1, <2>2, <2>3, <2>4 DEF Only, At
<1>7. ASSUME NEW x \in Msg \ moved, x \notin done PROVE Stays(x)
  <2>1. x = currentMsg' <=> x = currentMsg
    BY <1>7, CompletesSays
  <2>2. (x \in fresh' <=> x \in fresh) /\ (x \in deleted' <=> x \in deleted)
    BY <1>5, <1>7 DEF moved
  <2>3. \A k \in Sleepy : x \in Range(pending'[k]) <=> x \in Range(pending[k])
    BY <1>4 DEF moved
  <2> QED BY <1>3, <2>1, <2>2, <2>3, StaysWhere
<1>8. ASSUME NEW x \in Msg \ moved, x \in done PROVE Only(x, "deleted", 0)'
  <2>1. x = currentMsg /\ x # currentMsg' /\ x # NoMsg /\ x \in deleted'
    BY <1>5, <1>8, CompletesSays
  <2>2. /\ x \notin fresh /\ \A t \in Thread : x # call[t].msg
        /\ \A r \in Queues : x \notin Range(msgQueue[r])
        /\ \A k \in Sleepy : x \notin Range(pending[k])
    BY <2>1, CurrentOnly
  <2>3. \A r \in Queues : x \notin Range(msgQueue'[r])
    BY <1>3, <2>2
  <2>4. \A k \in Sleepy : x \notin Range(pending'[k])
    BY <1>4, <2>2
  <2> QED BY <2>1, <2>2, <2>3, <2>4, OnlyDeleted
<1>9. \A x \in Msg \ moved : Settled(x, done)
  BY <1>7, <1>8 DEF Settled
<1>10. \A x \in Msg : Stays(x) \/ \E kind, k : Only(x, kind, k)'
  BY <1>6, <1>9 DEF Settled
<1>11. ListsInjective'
  BY <1>3, <1>4, InjectiveAfter
<1> QED BY <1>6, <1>9, <1>10, <1>11, Placed DEF moved

\* All the queues, one after the other.
LEMMA TwoLists ==
  ASSUME NEW p \in Seq(Msg), NEW q \in Seq(Msg), NEW R, NEW S,
         IsInjective(p), IsInjective(q), Range(p) = R, Range(q) = S, R \cap S = {}
  PROVE  p \o q \in Seq(Msg) /\ IsInjective(p \o q) /\ Range(p \o q) = R \cup S
BY ConcatList

LEMMA AllQueuesList ==
  ASSUME PlaceInv
  PROVE  /\ AllQueues \in Seq(Msg) /\ IsInjective(AllQueues)
         /\ \A m : m \in Range(AllQueues) <=> \E q \in Queues : m \in Range(msgQueue[q])
<1> DEFINE In(k) == UNION { Range(msgQueue[q]) : q \in 0 .. k }
           Good(s, k) == s \in Seq(Msg) /\ IsInjective(s) /\ Range(s) = In(k)
<1>1. \A q \in Queues : msgQueue[q] \in Seq(Msg) /\ IsInjective(msgQueue[q])
  BY DEF PlaceInv, Inv, TypeOK, ListsInjective
<1>2. \A q, r \in Queues : q # r => Range(msgQueue[q]) \cap Range(msgQueue[r]) = {}
  BY QueueOnly
<1>3. ASSUME NEW k \in 0 .. 6, NEW s, Good(s, k) PROVE Good(s \o msgQueue[k + 1], k + 1)
  <2>1. k + 1 \in Queues /\ \A q \in 0 .. k : q \in Queues /\ q # k + 1
    BY DEF Queues
  <2>2. In(k) \cap Range(msgQueue[k + 1]) = {}
    BY <1>2, <2>1
  <2>3. In(k + 1) = In(k) \cup Range(msgQueue[k + 1])
    <3>1. 0 .. (k + 1) = (0 .. k) \cup {k + 1}
      OBVIOUS
    <3> QED BY <3>1
  <2>4. msgQueue[k + 1] \in Seq(Msg) /\ IsInjective(msgQueue[k + 1])
    BY <1>1, <2>1
  <2> HIDE DEF In
  <2>5. s \in Seq(Msg) /\ IsInjective(s) /\ Range(s) = In(k)
    BY <1>3
  <2> DEFINE next == msgQueue[k + 1]
  <2> HIDE DEF next
  <2>6. /\ s \o next \in Seq(Msg) /\ IsInjective(s \o next)
        /\ Range(s \o next) = In(k) \cup Range(next)
    BY <2>2, <2>4, <2>5, TwoLists DEF next
  <2> QED BY <2>3, <2>6 DEF next
<1>4. Good(msgQueue[0], 0)
  <2>1. 0 .. 0 = {0} /\ 0 \in Queues
    BY DEF Queues
  <2>2. In(0) = Range(msgQueue[0])
    BY <2>1
  <2> QED BY <1>1, <2>1, <2>2
<1> HIDE DEF Good
<1>5. Good(msgQueue[0] \o msgQueue[1], 1)
  BY <1>3, <1>4, 0 \in 0 .. 6, 0 + 1 = 1
<1>6. Good(msgQueue[0] \o msgQueue[1] \o msgQueue[2], 2)
  BY <1>3, <1>5, 1 \in 0 .. 6, 1 + 1 = 2
<1>7. Good(msgQueue[0] \o msgQueue[1] \o msgQueue[2] \o msgQueue[3], 3)
  BY <1>3, <1>6, 2 \in 0 .. 6, 2 + 1 = 3
<1>8. Good(msgQueue[0] \o msgQueue[1] \o msgQueue[2] \o msgQueue[3] \o msgQueue[4], 4)
  BY <1>3, <1>7, 3 \in 0 .. 6, 3 + 1 = 4
<1>9. Good(msgQueue[0] \o msgQueue[1] \o msgQueue[2] \o msgQueue[3] \o msgQueue[4]
           \o msgQueue[5], 5)
  BY <1>3, <1>8, 4 \in 0 .. 6, 4 + 1 = 5
<1>10. Good(msgQueue[0] \o msgQueue[1] \o msgQueue[2] \o msgQueue[3] \o msgQueue[4]
            \o msgQueue[5] \o msgQueue[6], 6)
  BY <1>3, <1>9, 5 \in 0 .. 6, 5 + 1 = 6
<1>11. Good(AllQueues, 7)
  BY <1>3, <1>10, 6 \in 0 .. 6, 6 + 1 = 7 DEF AllQueues
<1> QED BY <1>11 DEF Good, Queues

\* The messages for n that are queued or current.
Here(n) == { m \in Msg : Target[m] = n /\ (m = currentMsg \/ \E q \in Queues : m \in Range(msgQueue[q])) }

LEMMA MovedList ==
  ASSUME PlaceInv, NEW n, currentMsg \in Msg
  PROVE  /\ Moved(n) \in Seq(Msg) /\ IsInjective(Moved(n))
         /\ Range(Moved(n)) = { m \in Here(n) : ~Perishable(m) }
         /\ Dropped(n) = { m \in Here(n) : Perishable(m) }
<1> DEFINE all == << currentMsg >> \o AllQueues
           S == { m \in ForNode(n) : ~Perishable(m) }
<1>1. /\ AllQueues \in Seq(Msg) /\ IsInjective(AllQueues)
      /\ \A m : m \in Range(AllQueues) <=> \E q \in Queues : m \in Range(msgQueue[q])
  BY AllQueuesList
<1>2. currentMsg # NoMsg /\ currentMsg \notin Range(AllQueues)
  BY <1>1, CurrentOnly, DriverAssumption
<1>3. all \in Seq(Msg) /\ IsInjective(all) /\ Range(all) = {currentMsg} \cup Range(AllQueues)
  <2>1. << currentMsg >> \in Seq(Msg) /\ IsInjective(<< currentMsg >>)
        /\ Range(<< currentMsg >>) = {currentMsg}
    BY OneItem
  <2>2. {currentMsg} \cap Range(AllQueues) = {}
    BY <1>2
  <2> DEFINE one == << currentMsg >>
  <2> HIDE DEF one
  <2>3. one \in Seq(Msg) /\ IsInjective(one) /\ Range(one) = {currentMsg}
    BY <2>1 DEF one
  <2> DEFINE rest == AllQueues
  <2>4. rest \in Seq(Msg) /\ IsInjective(rest) /\ {currentMsg} \cap Range(rest) = {}
    BY <1>1, <2>2
  <2> HIDE DEF rest
  <2>5. /\ one \o rest \in Seq(Msg) /\ IsInjective(one \o rest)
        /\ Range(one \o rest) = {currentMsg} \cup Range(rest)
    BY <2>3, <2>4, TwoLists
  <2> QED BY <2>5 DEF one, rest, all
<1> HIDE DEF all, S
<1>4. /\ Keep(all, S) \in Seq(Msg \cap S)
      /\ Range(Keep(all, S)) = Range(all) \cap S
      /\ IsInjective(all) => IsInjective(Keep(all, S))
  BY <1>3, KeepList
<1>5. Keep(all, S) \in Seq(Msg) /\ IsInjective(Keep(all, S))
  BY <1>3, <1>4
<1>6. Range(all) \cap ForNode(n) = Here(n)
  BY <1>1, <1>3 DEF Here, ForNode
<1>7. Range(all) \cap S = { m \in Here(n) : ~Perishable(m) }
  BY <1>6 DEF S
<1>8. Dropped(n) = { m \in Here(n) : Perishable(m) }
  BY <1>6 DEF Dropped, all
<1> QED BY <1>4, <1>5, <1>7, <1>8 DEF Moved, all, S

\* MoveMessagesToWakeUpQueue: what is not dropped, nor superseded by an equal message,
\* is parked.
LEMMA MovePlaces ==
  ASSUME PlaceInv, Inv', NEW n \in Sleepy, n = CurrentNode, MoveMessagesToWakeUpQueue(n),
         SameHands
  PROVE  LET old == Superseded(n, Moved(n))
             all == Range(pending[n]) \cup { m \in Here(n) : ~Perishable(m) }
         IN  /\ PlaceInv'
             /\ \A k \in Sleepy : Range(pending'[k]) = IF k = n THEN all \ old ELSE Range(pending[k])
             /\ \A x \in all \ old : Only(x, "pending", n)'
             /\ \A x \in old \cup Here(n) : x \notin all \ old => Only(x, "deleted", 0)'
             /\ \A x \in Msg : x \notin Here(n) \cup Range(pending[n]) => Stays(x)
<1> DEFINE keep == { m \in Here(n) : ~Perishable(m) }
           drop == { m \in Here(n) : Perishable(m) }
           old == Superseded(n, Moved(n))
           all == Range(pending[n]) \cup keep
<1>0. n \in Sleepy /\ currentMsg \in Msg /\ Target[currentMsg] = n
  BY DriverAssumption DEF CurrentNode, PlaceInv, Inv, TypeOK
<1>1. /\ Moved(n) \in Seq(Msg) /\ IsInjective(Moved(n)) /\ Range(Moved(n)) = keep
      /\ Dropped(n) = drop
  BY <1>0, MovedList
<1>2. /\ currentMsg' = NoMsg /\ Park(n, Moved(n))
      /\ msgQueue' = [q \in Queues |-> Keep(msgQueue[q], Msg \ ForNode(n))]
      /\ Delete(Dropped(n) \cup old)
  BY DEF MoveMessagesToWakeUpQueue, CloseTransaction
<1>3. TypeOK /\ ListsInjective
  BY DEF PlaceInv, Inv
<1>4. ASSUME NEW x \in Here(n)
      PROVE  /\ x \in Msg /\ x \notin fresh /\ x \notin deleted
             /\ \A t \in Thread : x # call[t].msg
             /\ \A k \in Sleepy : x \notin Range(pending[k])
  <2>1. CASE x = currentMsg
    BY <1>0, <2>1, CurrentOnly, DriverAssumption
  <2>2. CASE \E q \in Queues : x \in Range(msgQueue[q])
    BY <2>2, QueueOnly
  <2> QED BY <2>1, <2>2 DEF Here
<1>5. ASSUME NEW x \in Range(pending[n])
      PROVE  /\ x \in Msg /\ x \notin fresh /\ x \notin deleted /\ x # currentMsg
             /\ \A t \in Thread : x # call[t].msg
             /\ \A q \in Queues : x \notin Range(msgQueue[q])
             /\ \A k \in Sleepy : x \in Range(pending[k]) => k = n
  BY <1>0, PendingOnly
<1>6. /\ old \subseteq all
      /\ \A k \in Sleepy :
           /\ IsInjective(pending'[k])
           /\ Range(pending'[k]) = IF k = n THEN all \ old ELSE Range(pending[k])
  <2>1. Range(pending[n]) \cap Range(Moved(n)) = {}
    BY <1>0, <1>1, <1>4
  <2> DEFINE s == Moved(n)
  <2>2. s \in Seq(Msg) /\ IsInjective(s) /\ Range(s) = keep /\ Park(n, s)
    BY <1>1, <1>2
  <2> HIDE DEF s, keep, all
  <2>3. /\ Superseded(n, s) \subseteq Range(pending[n]) \cup Range(s)
        /\ \A k \in Sleepy :
              /\ IsInjective(pending'[k])
              /\ Range(pending'[k]) = IF k = n THEN (Range(pending[n]) \cup Range(s)) \ Superseded(n, s)
                                      ELSE Range(pending[k])
    BY <1>0, <1>3, <2>1, <2>2, ParkLists DEF s
  <2> QED BY <2>2, <2>3 DEF s, all
<1>7. \A q \in Queues : /\ IsInjective(msgQueue'[q])
                        /\ Range(msgQueue'[q]) = Range(msgQueue[q]) \cap (Msg \ ForNode(n))
  <2> TAKE q \in Queues
  <2> DEFINE S == Msg \ ForNode(n)
             Q == msgQueue[q]
  <2>1. msgQueue'[q] = Keep(Q, S) /\ Q \in Seq(Msg) /\ IsInjective(Q)
    BY <1>2, <1>3 DEF TypeOK, ListsInjective
  <2> HIDE DEF S, Q
  <2>2. /\ Keep(Q, S) \in Seq(Msg \cap S)
        /\ Range(Keep(Q, S)) = Range(Q) \cap S
        /\ IsInjective(Q) => IsInjective(Keep(Q, S))
    BY <2>1, KeepList
  <2> QED BY <2>1, <2>2 DEF S, Q
<1>8. deleted' = deleted \cup drop \cup old /\ NoMsg \notin Msg
  <2>1. NoMsg \notin drop /\ NoMsg \notin old /\ NoMsg \notin Msg
    BY <1>4, <1>5, <1>6, DriverAssumption
  <2> QED BY <1>1, <1>2, <2>1 DEF Delete
<1> HIDE DEF old
<1>9. ASSUME NEW x \in Msg, x \notin Here(n) \cup Range(pending[n]) PROVE Stays(x)
  <2>1. x # currentMsg /\ x # currentMsg'
    BY <1>0, <1>2, <1>8, <1>9 DEF Here
  <2>2. \A q \in Queues : x \in Range(msgQueue'[q]) <=> x \in Range(msgQueue[q])
    BY <1>7, <1>9 DEF Here, ForNode
  <2>3. \A k \in Sleepy : x \in Range(pending'[k]) <=> x \in Range(pending[k])
    BY <1>6, <1>9
  <2>4. x \in deleted' <=> x \in deleted
    BY <1>6, <1>8, <1>9
  <2>5. (x \in fresh' <=> x \in fresh) /\ \A t \in Thread : x = call'[t].msg <=> x = call[t].msg
    BY DEF SameHands
  <2> QED BY <2>1, <2>2, <2>3, <2>4, <2>5, StaysWhere
<1>10. ASSUME NEW x \in Here(n) \cup Range(pending[n])
       PROVE  /\ x \in Msg /\ x \notin fresh' /\ x # currentMsg' /\ x \notin deleted
              /\ \A t \in Thread : x # call'[t].msg
              /\ \A q \in Queues : x \notin Range(msgQueue'[q])
              /\ \A k \in Sleepy \ {n} : x \notin Range(pending'[k])
  <2>1. /\ x \in Msg /\ x \notin fresh /\ x \notin deleted
        /\ \A t \in Thread : x # call[t].msg
        /\ \A k \in Sleepy \ {n} : x \notin Range(pending[k])
    BY <1>4, <1>5, <1>10
  <2>2. \A q \in Queues : x \notin Range(msgQueue'[q])
    <3>1. CASE x \in Here(n)
      BY <1>7, <3>1 DEF Here, ForNode
    <3>2. CASE x \in Range(pending[n])
      BY <1>5, <1>7, <3>2
    <3> QED BY <1>10, <3>1, <3>2
  <2>3. \A k \in Sleepy \ {n} : x \notin Range(pending'[k])
    BY <1>6, <2>1
  <2> QED BY <1>2, <1>8, <2>1, <2>2, <2>3 DEF SameHands
<1>11. ASSUME NEW x \in all \ old PROVE Only(x, "pending", n)'
  <2>1. x \in Here(n) \cup Range(pending[n]) /\ x \notin drop
    BY <1>4, <1>11, <1>0
  <2>2. x \notin deleted'
    BY <1>8, <1>10, <1>11, <2>1
  <2>3. \A k \in Sleepy : x \in Range(pending'[k]) <=> k = n
    BY <1>0, <1>6, <1>10, <1>11, <2>1
  <2>4. /\ x \notin fresh' /\ x # currentMsg' /\ \A t \in Thread : x # call'[t].msg
        /\ \A q \in Queues : x \notin Range(msgQueue'[q])
    BY <1>10, <2>1
  <2>5. n \in Sleepy
    BY <1>0
  <2> QED BY <2>2, <2>3, <2>4, <2>5, OnlyPending
<1>12. ASSUME NEW x \in old \cup Here(n), x \notin all \ old PROVE Only(x, "deleted", 0)'
  <2>1. x \in Here(n) \cup Range(pending[n])
    BY <1>6, <1>12
  <2>2. x \in drop \cup old
    BY <1>12
  <2>3. x \in deleted'
    BY <1>8, <2>2
  <2>4. \A k \in Sleepy : x \notin Range(pending'[k])
    BY <1>6, <1>10, <1>12, <2>1
  <2> QED BY <1>10, <2>1, <2>3, <2>4, OnlyDeleted
<1>13. ListsInjective'
  BY <1>6, <1>7, InjectiveAfter
<1>14. \A x \in Msg : Stays(x) \/ \E kind, k : Only(x, kind, k)'
  <2> TAKE x \in Msg
  <2>1. CASE x \notin Here(n) \cup Range(pending[n])
    BY <1>9, <2>1
  <2>2. CASE x \in all \ old
    BY <1>11, <2>2
  <2>3. CASE x \in Here(n) \cup Range(pending[n]) /\ x \notin all \ old
    <3>1. x \in old \cup Here(n)
      BY <2>3
    <3> QED BY <1>12, <2>3, <3>1
  <2> QED BY <2>1, <2>2, <2>3
<1>15. PlaceInv'
  BY <1>13, <1>14, Placed
<1> QED BY <1>6, <1>9, <1>11, <1>12, <1>15 DEF old
-----------------------------------------------------------------------------
(* What is parked, and what the status of a message tells. *)

\* What is parked for a node is for that node, is no command to sleep, and no two of its
\* messages are equal.
ParkedRight ==
  \A n \in Sleepy :
    /\ \A x \in Range(pending[n]) : Target[x] = n /\ Kind[x] # "noMoreInfo"
    /\ \A x, y \in Range(pending[n]) : Content[x] = Content[y] => x = y

\* Only the driver thread makes the command to sleep, when the node wakes up.
CallsRight == \A t \in Thread : call[t].msg \in Msg => Kind[call[t].msg] # "noMoreInfo"

DeliveryInv == PlaceInv /\ ParkedRight /\ CallsRight

\* What remains of a list and of the messages queued on it holds no two equal messages,
\* and an equal one for each.
LEMMA SupersededLeaves ==
  ASSUME NEW n, NEW s, pending[n] \o s \in Seq(Msg)
  PROVE  LET all == Range(pending[n] \o s)
         IN  /\ \A x, y \in all \ Superseded(n, s) : Content[x] = Content[y] => x = y
             /\ \A x \in all : \E y \in all \ Superseded(n, s) : Content[y] = Content[x]
<1> DEFINE q == pending[n] \o s
<1> HIDE DEF q
<1>1. q \in Seq(Msg)
  BY DEF q
<1>2. Newest(q, Content) \subseteq Range(q)
  BY DEF Newest, Range
<1>3. Superseded(n, s) = Range(q) \ Newest(q, Content)
  BY DEF Superseded, q
<1>4. \A x, y \in Newest(q, Content) : Content[x] = Content[y] => x = y
  BY <1>1, NewestOne
<1>5. \A x \in Range(q) : \E y \in Newest(q, Content) : Content[y] = Content[x]
  BY <1>1, NewestCovers
<1>6. Range(q) \ Superseded(n, s) = Newest(q, Content)
  BY <1>2, <1>3
<1> QED BY <1>4, <1>5, <1>6 DEF q

\* The sets to which that applies.
LEMMA SupersededLeft ==
  ASSUME TypeOK, NEW n \in Sleepy, NEW s \in Seq(Msg), NEW all,
         all = Range(pending[n]) \cup Range(s)
  PROVE  /\ \A x, y \in all \ Superseded(n, s) : Content[x] = Content[y] => x = y
         /\ \A x \in all : \E y \in all \ Superseded(n, s) : Content[y] = Content[x]
<1>1. pending[n] \in Seq(Msg)
  BY DEF TypeOK
<1>2. pending[n] \o s \in Seq(Msg) /\ Range(pending[n] \o s) = all
  BY <1>1, ConcatList
<1> QED BY <1>2, SupersededLeaves

\* A message that is queued on the list replaces those it is equal to, no others.
LEMMA SupersededEqual ==
  ASSUME TypeOK, ParkedRight, NEW n \in Sleepy, NEW m \in Msg, m \notin Range(pending[n])
  PROVE  Superseded(n, << m >>) = { k \in Range(pending[n]) : Content[k] = Content[m] }
<1> DEFINE all == Range(pending[n]) \cup {m}
           old == Superseded(n, << m >>)
<1>1. << m >> \in Seq(Msg) /\ Range(<< m >>) = {m} /\ pending[n] \in Seq(Msg)
  BY OneItem DEF TypeOK
<1>2. /\ \A x, y \in all \ old : Content[x] = Content[y] => x = y
      /\ \A x \in all : \E y \in all \ old : Content[y] = Content[x]
  <2> DEFINE s == << m >>
  <2>1. s \in Seq(Msg) /\ all = Range(pending[n]) \cup Range(s)
    BY <1>1
  <2> HIDE DEF s, all
  <2>2. /\ \A x, y \in all \ Superseded(n, s) : Content[x] = Content[y] => x = y
        /\ \A x \in all : \E y \in all \ Superseded(n, s) : Content[y] = Content[x]
    BY <2>1, SupersededLeft
  <2> QED BY <2>2 DEF s
<1>3. m \notin old
  BY <1>1, LastStays
<1>4. old \subseteq all
  <2> DEFINE s == << m >>
  <2>1. s \in Seq(Msg) /\ Range(s) = {m} /\ pending[n] \in Seq(Msg)
    BY <1>1
  <2> HIDE DEF s
  <2>2. Range(pending[n] \o s) = all
    BY <2>1, ConcatList
  <2> QED BY <2>2 DEF Superseded, s
<1>5. \A x, y \in Range(pending[n]) : Content[x] = Content[y] => x = y
  BY DEF ParkedRight
<1> HIDE DEF old
<1>6. ASSUME NEW k \in old PROVE k \in Range(pending[n]) /\ Content[k] = Content[m]
  <2>1. k \in Range(pending[n])
    BY <1>3, <1>4, <1>6
  <2>2. PICK y \in all \ old : Content[y] = Content[k]
    BY <1>2, <2>1
  <2>3. y # k
    BY <1>6, <2>2
  <2>4. y = m
    BY <1>5, <2>1, <2>2, <2>3
  <2> QED BY <2>1, <2>2, <2>4
<1>7. ASSUME NEW k \in Range(pending[n]), Content[k] = Content[m] PROVE k \in old
  <2>1. CASE k \notin old
    <3>1. k = m
      BY <1>2, <1>3, <1>7, <2>1
    <3> QED BY <1>7, <3>1
  <2> QED BY <2>1
<1> QED BY <1>6, <1>7 DEF old

-----------------------------------------------------------------------------
(* The place of a message gives its status. *)
NameOf(kind) ==
  [fresh |-> "idle", deleted |-> "gone", current |-> "sending", call |-> "handed",
   pending |-> "parked", queue |-> "queued"][kind]

PlaceKinds == {"fresh", "deleted", "current", "call", "pending", "queue"}

LEMMA StatusThere ==
  ASSUME NEW m, NEW kind \in PlaceKinds, NEW k, Only(m, kind, k) PROVE StatusOf(m) = NameOf(kind)
<1> USE DEF Only, At, StatusOf, NameOf
<1>1. At(m, kind, k) /\ \A x, y : At(m, x, y) => x = kind /\ y = k
  BY DEF Only
<1>2. CASE kind = "fresh"
  BY <1>1, <1>2
<1>3. CASE kind = "deleted"
  BY <1>1, <1>3
<1>4. CASE kind = "current"
  BY <1>1, <1>4
<1>5. CASE kind = "call"
  BY <1>1, <1>5
<1>6. CASE kind = "pending"
  BY <1>1, <1>6
<1>7. CASE kind = "queue"
  BY <1>1, <1>7
<1> QED BY <1>2, <1>3, <1>4, <1>5, <1>6, <1>7 DEF PlaceKinds

\* The same of the state after a step.
LEMMA StatusAfter ==
  ASSUME NEW m, NEW kind \in PlaceKinds, NEW k, Only(m, kind, k)' PROVE StatusOf(m)' = NameOf(kind)
<1> USE DEF Only, At, StatusOf, NameOf
<1>1. At(m, kind, k)' /\ \A x, y : At(m, x, y)' => x = kind /\ y = k
  BY DEF Only
<1>2. CASE kind = "fresh"
  BY <1>1, <1>2
<1>3. CASE kind = "deleted"
  BY <1>1, <1>3
<1>4. CASE kind = "current"
  BY <1>1, <1>4
<1>5. CASE kind = "call"
  BY <1>1, <1>5
<1>6. CASE kind = "pending"
  BY <1>1, <1>6
<1>7. CASE kind = "queue"
  BY <1>1, <1>7
<1> QED BY <1>2, <1>3, <1>4, <1>5, <1>6, <1>7 DEF PlaceKinds

LEMMA StatusStays == ASSUME NEW m, Stays(m) PROVE StatusOf(m)' = StatusOf(m)
<1>1. /\ m \in fresh' <=> m \in fresh
      /\ m \in deleted' <=> m \in deleted
      /\ m = currentMsg' <=> m = currentMsg
  BY DEF Stays, At
<1>2. (\E t \in Thread : call'[t].msg = m) <=> (\E t \in Thread : call[t].msg = m)
  <2>1. \A t \in Thread : m = call'[t].msg <=> m = call[t].msg
    BY DEF Stays, At
  <2> QED BY <2>1
<1>3. (\E n \in Sleepy : m \in Range(pending'[n])) <=> (\E n \in Sleepy : m \in Range(pending[n]))
  <2>1. \A n \in Sleepy : m \in Range(pending'[n]) <=> m \in Range(pending[n])
    BY DEF Stays, At
  <2> QED BY <2>1
<1> QED BY <1>1, <1>2, <1>3 DEF StatusOf
-----------------------------------------------------------------------------
(* Each kind of step, seen from Delivery. *)

status == [m \in Msg |-> StatusOf(m)]

\* The status of a message whose place is known.
LEMMA StatusIs ==
  ASSUME NEW m \in Msg
  PROVE  /\ m \in fresh => status[m] = "idle"
         /\ m \notin fresh /\ m \notin deleted /\ m = currentMsg => status[m] = "sending"
         /\ status[m] = "sending" => m = currentMsg
BY DEF status, StatusOf

\* A message that the step settles is gone or keeps its status.
LEMMA SettledStatus ==
  ASSUME NEW done, NEW x \in Msg, Settled(x, done)
  PROVE  status'[x] = IF x \in done THEN "gone" ELSE status[x]
<1>1. CASE x \in done
  <2>1. Only(x, "deleted", 0)'
    BY <1>1 DEF Settled
  <2>2. StatusOf(x)' = "gone"
    BY <2>1, StatusAfter DEF PlaceKinds, NameOf
  <2> QED BY <1>1, <2>2 DEF status
<1>2. CASE x \notin done
  <2>1. Stays(x)
    BY <1>2 DEF Settled
  <2> QED BY <1>2, <2>1, StatusStays DEF status
<1> QED BY <1>1, <1>2

\* What ends a transaction is a message being sent.
LEMMA DoneSending ==
  ASSUME PlaceInv, NEW done, Completes(done)
  PROVE  done \cap Msg \in SUBSET Promise!Having({"sending"})
<1>1. ASSUME NEW x \in done \cap Msg PROVE x \in Promise!Having({"sending"})
  <2>1. x = currentMsg /\ x # NoMsg
    BY DriverAssumption DEF Completes
  <2>2. status[x] = "sending"
    BY <2>1, CurrentOnly, StatusIs
  <2> QED BY <2>2 DEF Promise!Having, status
<1> QED BY <1>1

LEMMA HandDelivers ==
  ASSUME NEW m \in Msg, m \in fresh, NEW t, Only(m, "call", t)', \A x \in Msg \ {m} : Stays(x)
  PROVE  Promise!Hand(m)
<1>1. status[m] = "idle"
  BY StatusIs
<1>2. status'[m] = "handed"
  BY StatusAfter DEF PlaceKinds, NameOf, status
<1>3. \A x \in Msg \ {m} : status'[x] = status[x]
  BY StatusStays DEF status
<1> QED BY <1>1, <1>2, <1>3 DEF Promise!Hand, Promise!Become, status

LEMMA QueueDelivers ==
  ASSUME PlaceInv, NEW m \in Msg, status[m] \in {"idle", "handed"}, NEW q, Only(m, "queue", q)',
         NEW done, Completes(done), \A x \in Msg \ {m} : Settled(x, done)
  PROVE  \E gone \in SUBSET Promise!Having({"sending"}) : Promise!Queue(m, gone)
<1>1. done \cap Msg \in SUBSET Promise!Having({"sending"})
  BY DoneSending
<1>2. status'[m] = "queued"
  BY StatusAfter DEF PlaceKinds, NameOf, status
<1>3. \A x \in Msg \ {m} : status'[x] = IF x \in done \cap Msg THEN "gone" ELSE status[x]
  BY SettledStatus
<1>4. Promise!Queue(m, done \cap Msg)
  BY <1>2, <1>3 DEF Promise!Queue, Promise!Become, status
<1> QED BY <1>1, <1>4

LEMMA ParkDelivers ==
  ASSUME PlaceInv, ParkedRight, NEW m \in Msg, status[m] \in {"idle", "handed"},
         NEW n \in Sleepy, n = Target[m], Only(m, "pending", n)', m \notin Range(pending[n]),
         NEW done, Completes(done),
         \A x \in Msg \ {m} : Settled(x, done \cup Superseded(n, << m >>))
  PROVE  \E gone \in SUBSET Promise!Having({"sending"}) : Promise!ParkOne(m, gone)
<1> DEFINE copies == { k \in Promise!Having({"parked"}) : Content[k] = Content[m] }
           old == Superseded(n, << m >>)
<1>1. done \cap Msg \in SUBSET Promise!Having({"sending"})
  BY DoneSending
<1>2. status'[m] = "parked"
  BY StatusAfter DEF PlaceKinds, NameOf, status
<1>3. old = copies
  <2>0. TypeOK
    BY DEF PlaceInv, Inv
  <2>1. old = { k \in Range(pending[n]) : Content[k] = Content[m] }
    BY <2>0, SupersededEqual
  <2>2. ASSUME NEW k \in Range(pending[n]) PROVE k \in Promise!Having({"parked"})
    <3>1. k \in Msg /\ k \notin fresh /\ k \notin deleted /\ k # currentMsg
          /\ \A t \in Thread : k # call[t].msg
      BY PendingOnly
    <3>2. StatusOf(k) = "parked"
      BY <3>1 DEF StatusOf
    <3> QED BY <3>1, <3>2 DEF Promise!Having
  <2>3. ASSUME NEW k \in copies PROVE k \in Range(pending[n])
    <3>1. k \in Msg /\ StatusOf(k) = "parked" /\ Content[k] = Content[m]
      BY DEF Promise!Having
    <3>2. PICK r \in Sleepy : k \in Range(pending[r])
      BY <3>1 DEF StatusOf
    <3>3. Target[k] = r
      BY <3>2 DEF ParkedRight
    <3>4. Target[k] = n
      BY <3>1, DriverAssumption
    <3> QED BY <3>2, <3>3, <3>4
  <2> QED BY <2>1, <2>2, <2>3
<1> HIDE DEF old, copies
<1>4. \A x \in Msg \ {m} : status'[x] = IF x \in done \cup old THEN "gone" ELSE status[x]
  BY SettledStatus DEF old
<1>5. Promise!ParkOne(m, done \cap Msg)
  <2>1. \A x \in Msg \ {m} : status'[x] = IF x \in (done \cap Msg) \cup copies THEN "gone"
                                          ELSE status[x]
    BY <1>3, <1>4
  <2> QED BY <1>2, <2>1 DEF Promise!ParkOne, Promise!Become, status, copies
<1> QED BY <1>1, <1>5

LEMMA StartDelivers ==
  ASSUME PlaceInv, currentMsg = NoMsg, NEW m \in Msg, NEW q, Only(m, "queue", q),
         Only(m, "current", 0)' \/ Only(m, "deleted", 0)', \A x \in Msg \ {m} : Stays(x)
  PROVE  Promise!Start(m)
<1>1. status[m] = "queued"
  BY StatusThere DEF PlaceKinds, NameOf, status
<1>2. PICK s \in {"sending", "gone"} : status'[m] = s
  BY StatusAfter DEF PlaceKinds, NameOf, status
<1>3. \A x \in Msg \ {m} : status'[x] = status[x]
  BY StatusStays DEF status
<1>4. Promise!Having({"sending"}) = {}
  BY StatusIs, DriverAssumption DEF Promise!Having, status
<1> QED BY <1>1, <1>2, <1>3, <1>4 DEF Promise!Start, Promise!Become, status

LEMMA EndDelivers ==
  ASSUME PlaceInv, NEW done, Completes(done), \A x \in Msg : Settled(x, done)
  PROVE  (\E m \in Msg : Promise!Finish(m)) \/ UNCHANGED [m \in Msg |-> StatusOf(m)]
<1>1. \A x \in Msg : status'[x] = IF x \in done THEN "gone" ELSE status[x]
  BY SettledStatus
<1>2. CASE done \cap Msg = {}
  <2>1. \A x \in Msg : status'[x] = status[x]
    BY <1>1, <1>2
  <2> QED BY <2>1 DEF status
<1>3. CASE done \cap Msg # {}
  <2>1. PICK m \in Msg : m \in done /\ m = currentMsg
    BY <1>3 DEF Completes
  <2>2. status[m] = "sending"
    BY <2>1, CurrentOnly, StatusIs, DriverAssumption
  <2>3. \A x \in Msg : status'[x] = IF x = m THEN "gone" ELSE status[x]
    BY <1>1, <2>1 DEF Completes
  <2>4. Promise!Finish(m)
    BY <2>2, <2>3 DEF Promise!Finish, Promise!Become, status
  <2> QED BY <2>4
<1> QED BY <1>2, <1>3

\* The messages with a given status that are for n, by the places they are in.
LEMMA ParkedThere ==
  ASSUME PlaceInv, ParkedRight, NEW n \in Sleepy
  PROVE  { m \in Promise!Having({"parked"}) : Target[m] = n } = Range(pending[n])
<1>1. ASSUME NEW k \in Range(pending[n])
      PROVE  k \in Msg /\ Target[k] = n /\ StatusOf(k) = "parked"
  <2>1. k \in Msg /\ k \notin fresh /\ k \notin deleted /\ k # currentMsg
        /\ \A t \in Thread : k # call[t].msg
    BY PendingOnly
  <2>2. StatusOf(k) = "parked"
    BY <2>1 DEF StatusOf
  <2> QED BY <2>1, <2>2 DEF ParkedRight
<1>2. ASSUME NEW k \in Msg, StatusOf(k) = "parked", Target[k] = n PROVE k \in Range(pending[n])
  <2>1. PICK r \in Sleepy : k \in Range(pending[r])
    BY <1>2 DEF StatusOf
  <2>2. Target[k] = r
    BY <2>1 DEF ParkedRight
  <2> QED BY <1>2, <2>1, <2>2
<1>3. \A k \in Msg : k \in Promise!Having({"parked"}) <=> StatusOf(k) = "parked"
  BY DEF Promise!Having
<1>4. Promise!Having({"parked"}) \subseteq Msg
  BY DEF Promise!Having
<1> QED BY <1>1, <1>2, <1>3, <1>4

LEMMA HereThere ==
  ASSUME PlaceInv, NEW n \in Sleepy
  PROVE  { m \in Promise!Having({"queued", "sending"}) : Target[m] = n } = Here(n)
<1>1. \A k \in Msg : k \in Promise!Having({"queued", "sending"}) <=> StatusOf(k) \in {"queued", "sending"}
  BY DEF Promise!Having
<1>2. Promise!Having({"queued", "sending"}) \subseteq Msg
  BY DEF Promise!Having
<1>3. ASSUME NEW k \in Here(n) PROVE k \in Msg /\ Target[k] = n /\ StatusOf(k) \in {"queued", "sending"}
  <2>1. k \in Msg /\ Target[k] = n /\ k # NoMsg
    BY DriverAssumption DEF Here
  <2>2. CASE k = currentMsg
    BY <2>1, <2>2, CurrentOnly DEF StatusOf
  <2>3. CASE \E q \in Queues : k \in Range(msgQueue[q])
    <3>1. /\ k \notin fresh /\ k \notin deleted /\ k # currentMsg
          /\ \A t \in Thread : k # call[t].msg
          /\ \A r \in Sleepy : k \notin Range(pending[r])
      BY <2>3, QueueOnly
    <3> QED BY <2>1, <3>1 DEF StatusOf
  <2> QED BY <2>1, <2>2, <2>3 DEF Here
<1>4. ASSUME NEW k \in Msg, Target[k] = n, StatusOf(k) \in {"queued", "sending"} PROVE k \in Here(n)
  <2>1. PICK kind, p : Only(k, kind, p)
    BY DEF PlaceInv
  <2>2. At(k, kind, p)
    BY <2>1 DEF Only
  <2>3. kind \in PlaceKinds
    BY <2>2 DEF At, PlaceKinds
  <2>4. StatusOf(k) = NameOf(kind)
    BY <2>1, <2>3, StatusThere
  <2>5. kind \in {"queue", "current"}
    BY <1>4, <2>3, <2>4 DEF NameOf, PlaceKinds
  <2> QED BY <1>4, <2>2, <2>5 DEF At, Here
<1> QED BY <1>1, <1>2, <1>3, <1>4

LEMMA SleepDelivers ==
  ASSUME DeliveryInv, Inv', NEW n \in Sleepy, n = CurrentNode, MoveMessagesToWakeUpQueue(n), SameHands
  PROVE  DeliveryInv' /\ Promise!Sleep(n)
<1> DEFINE old == Superseded(n, Moved(n))
           all == Range(pending[n]) \cup { m \in Here(n) : ~Perishable(m) }
           Transient == { m \in Msg : Perishable(m) }
           stay == (all \ old) \ Transient
           here == { m \in Promise!Having({"queued", "sending"}) : Target[m] = n }
           keep == { m \in here \cup Promise!Having({"parked"}) : Target[m] = n } \ Transient
<1>0. PlaceInv /\ ParkedRight /\ CallsRight /\ TypeOK
  BY DEF DeliveryInv, PlaceInv, Inv
<1>1. /\ PlaceInv'
      /\ \A k \in Sleepy : Range(pending'[k]) = IF k = n THEN all \ old ELSE Range(pending[k])
      /\ \A x \in all \ old : Only(x, "pending", n)'
      /\ \A x \in old \cup Here(n) : x \notin all \ old => Only(x, "deleted", 0)'
      /\ \A x \in Msg : x \notin Here(n) \cup Range(pending[n]) => Stays(x)
  BY <1>0, MovePlaces
<1>2. /\ \A x, y \in all \ old : Content[x] = Content[y] => x = y
      /\ \A x \in all : \E y \in all \ old : Content[y] = Content[x]
  <2>1. currentMsg \in Msg
    BY <1>0, DriverAssumption DEF CurrentNode, TypeOK
  <2>2. Moved(n) \in Seq(Msg) /\ all = Range(pending[n]) \cup Range(Moved(n))
    BY <1>0, <2>1, MovedList
  <2> DEFINE s == Moved(n)
  <2>3. s \in Seq(Msg) /\ all = Range(pending[n]) \cup Range(s)
    BY <2>2
  <2> HIDE DEF s, all
  <2>4. /\ \A x, y \in all \ Superseded(n, s) : Content[x] = Content[y] => x = y
        /\ \A x \in all : \E y \in all \ Superseded(n, s) : Content[y] = Content[x]
    BY <1>0, <2>3, SupersededLeft
  <2> QED BY <2>4 DEF s
<1>3. \A x \in Range(pending[n]) : x \in Msg /\ Target[x] = n /\ Kind[x] # "noMoreInfo" /\ x \notin Here(n)
  <2>1. \A x \in Range(pending[n]) : x \in Msg /\ x # currentMsg /\ \A q \in Queues : x \notin Range(msgQueue[q])
    BY <1>0, PendingOnly
  <2> QED BY <1>0, <2>1 DEF ParkedRight, Here
<1>4. \A x \in Here(n) : x \in Msg /\ Target[x] = n
  BY DEF Here
<1>5. Promise!Having({"queued", "sending"}) \cup Promise!Having({"parked"}) \subseteq Msg
  BY DEF Promise!Having
<1>6. /\ here = Here(n)
      /\ { m \in Promise!Having({"parked"}) : Target[m] = n } = Range(pending[n])
  BY <1>0, HereThere, ParkedThere
<1>7. keep = all \ Transient
  <2>1. keep = (Here(n) \cup Range(pending[n])) \ Transient
    BY <1>6
  <2> QED BY <1>3, <1>4, <2>1
<1> HIDE DEF old, here, keep
<1>8. DeliveryInv'
  <2>1. ParkedRight'
    <3>1. ASSUME NEW k \in Sleepy
          PROVE  /\ \A x \in Range(pending'[k]) : Target[x] = k /\ Kind[x] # "noMoreInfo"
                 /\ \A x, y \in Range(pending'[k]) : Content[x] = Content[y] => x = y
      <4>1. CASE k = n
        <5>1. Range(pending'[k]) = all \ old
          BY <1>1, <4>1
        <5>2. \A x \in all : Target[x] = n /\ Kind[x] # "noMoreInfo"
          BY <1>3, <1>4 DEF Perishable
        <5> QED BY <1>2, <4>1, <5>1, <5>2
      <4>2. CASE k # n
        <5>1. Range(pending'[k]) = Range(pending[k])
          BY <1>1, <4>2
        <5> QED BY <1>0, <5>1 DEF ParkedRight
      <4> QED BY <4>1, <4>2
    <3> QED BY <3>1 DEF ParkedRight
  <2>2. CallsRight'
    BY <1>0 DEF CallsRight, SameHands
  <2> QED BY <1>1, <2>1, <2>2 DEF DeliveryInv
<1>9. stay \in SUBSET keep
  BY <1>7
<1>10. \A x \in keep : \E y \in stay : Content[y] = Content[x]
  <2>1. ASSUME NEW x \in keep PROVE \E y \in stay : Content[y] = Content[x]
    <3>1. PICK y \in all \ old : Content[y] = Content[x]
      BY <1>2, <1>7, <2>1
    <3>2. x \in Msg /\ y \in Msg /\ ~Perishable(x)
      BY <1>3, <1>4, <1>7, <2>1
    <3>3. ~Perishable(y)
      BY <3>1, <3>2, DriverAssumption DEF Perishable
    <3> QED BY <3>1, <3>3
  <2> QED BY <2>1
<1>11. \A x, y \in stay : Content[y] = Content[x] => y = x
  BY <1>2
<1>12. ASSUME NEW x \in Msg
       PROVE  status'[x] = IF x \in stay THEN "parked"
                           ELSE IF x \in Here(n) \cup keep THEN "gone" ELSE status[x]
  <2>1. CASE x \in all \ old
    <3>1. status'[x] = "parked"
      BY <1>1, <2>1, StatusAfter DEF PlaceKinds, NameOf, status
    <3>2. CASE x \in stay
      BY <3>1, <3>2
    <3>3. CASE x \notin stay
      <4>1. Perishable(x) /\ x \in Range(pending[n]) /\ x \notin Here(n) /\ x \notin keep
        BY <1>3, <1>7, <2>1, <3>3
      <4>2. StatusOf(x) = "parked"
        BY <1>6, <4>1 DEF Promise!Having
      <4> QED BY <3>1, <3>3, <4>1, <4>2 DEF status
    <3> QED BY <3>2, <3>3
  <2>2. CASE x \notin all \ old /\ x \in old \cup Here(n)
    <3>1. status'[x] = "gone"
      BY <1>1, <2>2, StatusAfter DEF PlaceKinds, NameOf, status
    <3>2. x \in Here(n) \cup keep
      <4>1. CASE x \in all /\ Perishable(x) /\ x \in old
        <5>1. PICK y \in all \ old : Content[y] = Content[x]
          BY <1>2, <4>1
        <5>2. y \in Msg /\ x \in Msg
          BY <1>3, <1>4, <5>1
        <5>3. Perishable(y)
          BY <4>1, <5>1, <5>2, DriverAssumption DEF Perishable
        <5>4. y \in Range(pending[n]) /\ x # y
          BY <4>1, <5>1, <5>3
        <5>5. CASE x \in Range(pending[n])
          BY <1>0, <5>1, <5>4, <5>5 DEF ParkedRight
        <5> QED BY <4>1, <5>5
      <4>2. CASE x \in Here(n)
        BY <4>2
      <4>3. CASE x \in all /\ ~Perishable(x)
        BY <1>7, <4>3
      <4>4. old \subseteq all
        <5>1. currentMsg \in Msg
          BY <1>0, DriverAssumption DEF CurrentNode, TypeOK
        <5>2. Moved(n) \in Seq(Msg) /\ Range(Moved(n)) = { m \in Here(n) : ~Perishable(m) }
          BY <1>0, <5>1, MovedList
        <5>3. Range(pending[n] \o Moved(n)) = Range(pending[n]) \cup Range(Moved(n))
          BY <1>0, <5>2, ConcatList DEF TypeOK
        <5> QED BY <5>2, <5>3 DEF Superseded, old
      <4> QED BY <2>2, <4>1, <4>2, <4>3, <4>4
    <3> QED BY <2>2, <3>1, <3>2
  <2>3. CASE x \notin all /\ x \notin old /\ x \notin Here(n)
    <3>1. status'[x] = status[x]
      BY <1>1, <2>3, StatusStays DEF status
    <3> QED BY <1>7, <2>3, <3>1
  <2> QED BY <2>1, <2>2, <2>3
<1>13. Promise!Sleep(n)
  <2> DEFINE next == [m \in Msg |-> IF m \in stay THEN "parked"
                                   ELSE IF m \in here \cup keep THEN "gone" ELSE status[m]]
  <2>1. [m \in Msg |-> StatusOf(m)]' = next
    BY <1>6, <1>12 DEF status
  <2>2. \E kept \in SUBSET keep :
          /\ \A m \in keep : \E k \in kept : Content[k] = Content[m]
          /\ \A m, k \in kept : Content[k] = Content[m] => k = m
          /\ [m \in Msg |-> StatusOf(m)]' =
               [m \in Msg |-> IF m \in kept THEN "parked"
                              ELSE IF m \in here \cup keep THEN "gone" ELSE status[m]]
    <3> HIDE DEF stay
    <3> QED BY <1>9, <1>10, <1>11, <2>1
  <2> QED BY <2>2 DEF Promise!Sleep, here, keep, status
<1> QED BY <1>8, <1>13

\* What is parked and what threads have stays right when nothing more is parked or handed.
LEMMA RightStays ==
  ASSUME DeliveryInv, \A n \in Sleepy : Range(pending'[n]) \subseteq Range(pending[n]),
         \A t \in Thread : call'[t].msg \in {call[t].msg, NoMsg}
  PROVE  ParkedRight' /\ CallsRight'
<1>1. ParkedRight /\ CallsRight
  BY DEF DeliveryInv
<1>2. ASSUME NEW n \in Sleepy
      PROVE  /\ \A x \in Range(pending'[n]) : Target[x] = n /\ Kind[x] # "noMoreInfo"
             /\ \A x, y \in Range(pending'[n]) : Content[x] = Content[y] => x = y
  <2>1. Range(pending'[n]) \subseteq Range(pending[n])
    OBVIOUS
  <2> QED BY <1>1, <2>1 DEF ParkedRight
<1>3. CallsRight'
  BY <1>1, DriverAssumption DEF CallsRight
<1> QED BY <1>2, <1>3 DEF ParkedRight

LEMMA WakeDelivers ==
  ASSUME DeliveryInv, Inv', NEW n \in Sleepy, NEW extra \in Seq(Msg), IsInjective(extra),
         Range(extra) \subseteq { m \in fresh : Perishable(m) /\ Target[m] = n },
         fresh' = fresh \ Range(extra), UNCHANGED call,
         NEW done, Completes(done), Delete(done), SetAwake(n, extra)
  PROVE  /\ DeliveryInv'
         /\ \E gone \in SUBSET Promise!Having({"sending"}) : Promise!Wake(n, Range(extra), gone)
<1> DEFINE new == Range(extra)
           kept == { m \in Promise!Having({"parked"}) : Target[m] = n }
<1>0. PlaceInv /\ ParkedRight /\ TypeOK
  BY DEF DeliveryInv, PlaceInv, Inv
<1>1. /\ PlaceInv'
      /\ \A x \in Range(pending[n]) \cup new : Only(x, "queue", WakeUpQueue)'
      /\ \A x \in Msg \ (Range(pending[n]) \cup new) : Settled(x, done)
  BY <1>0, WakePlaces
<1>2. DeliveryInv'
  <2>1. \A k \in Sleepy : Range(pending'[k]) \subseteq Range(pending[k])
    <3>1. \A k \in Sleepy : pending'[k] = IF k = n THEN << >> ELSE pending[k]
      BY <1>0 DEF SetAwake, TypeOK
    <3>2. Range(<< >>) = {}
      BY DEF Range
    <3> QED BY <3>1, <3>2
  <2>2. ParkedRight' /\ CallsRight'
    BY <2>1, RightStays
  <2> QED BY <1>1, <2>2 DEF DeliveryInv
<1>3. kept = Range(pending[n])
  BY <1>0, ParkedThere
<1>4. done \cap Msg \in SUBSET Promise!Having({"sending"})
  BY <1>0, DoneSending
<1>5. new \subseteq { m \in Promise!Having({"idle"}) \cap { m \in Msg : Perishable(m) } : Target[m] = n }
  <2>1. \A m \in new : m \in Msg /\ m \in fresh /\ Perishable(m) /\ Target[m] = n
    BY <1>0 DEF TypeOK
  <2>2. \A m \in new : StatusOf(m) = "idle"
    BY <2>1 DEF StatusOf
  <2>3. \A m \in new : m \in Promise!Having({"idle"})
    BY <2>1, <2>2 DEF Promise!Having
  <2> QED BY <2>1, <2>3
<1> HIDE DEF new, kept
<1>6. ASSUME NEW x \in Msg
      PROVE  status'[x] = IF x \in kept \cup new THEN "queued"
                          ELSE IF x \in done \cap Msg THEN "gone" ELSE status[x]
  <2>1. CASE x \in kept \cup new
    <3>1. Only(x, "queue", WakeUpQueue)'
      BY <1>1, <1>3, <2>1
    <3>2. StatusOf(x)' = "queued"
      BY <3>1, StatusAfter DEF PlaceKinds, NameOf
    <3> QED BY <2>1, <3>2 DEF status
  <2>2. CASE x \notin kept \cup new
    <3>1. Settled(x, done)
      BY <1>1, <1>3, <2>2
    <3> QED BY <2>2, <3>1, SettledStatus
  <2> QED BY <2>1, <2>2
<1>7. Promise!Wake(n, new, done \cap Msg)
  <2>1. [m \in Msg |-> StatusOf(m)]' =
          [m \in Msg |-> IF m \in kept \cup new THEN "queued"
                         ELSE IF m \in done \cap Msg THEN "gone" ELSE status[m]]
    BY <1>6 DEF status
  <2> QED BY <1>5, <2>1 DEF Promise!Wake, kept, status
<1> QED BY <1>2, <1>4, <1>7 DEF new

\* A message that is parked for its node, and is no command to sleep, keeps it right.
LEMMA ParkKeepsRight ==
  ASSUME DeliveryInv, NEW m \in Msg, Kind[m] # "noMoreInfo", NEW n \in Sleepy, n = Target[m],
         Park(n, << m >>), \A t \in Thread : call'[t].msg \in {call[t].msg, NoMsg},
         m \notin Range(pending[n])
  PROVE  ParkedRight' /\ CallsRight'
<1> DEFINE s == << m >>
           all == Range(pending[n]) \cup {m}
           old == Superseded(n, s)
<1>0. TypeOK /\ ListsInjective /\ ParkedRight /\ CallsRight
  BY DEF DeliveryInv, PlaceInv, Inv
<1>1. s \in Seq(Msg) /\ IsInjective(s) /\ Range(s) = {m} /\ Park(n, s)
  BY OneItem
<1> HIDE DEF s
<1>2. \A k \in Sleepy : Range(pending'[k]) = IF k = n THEN all \ old ELSE Range(pending[k])
  <2>1. Range(pending[n]) \cap Range(s) = {}
    BY <1>1
  <2>2. \A k \in Sleepy :
          Range(pending'[k]) = IF k = n THEN (Range(pending[n]) \cup Range(s)) \ Superseded(n, s)
                               ELSE Range(pending[k])
    BY <1>0, <1>1, <2>1, ParkLists
  <2> QED BY <1>1, <2>2
<1>3. \A x, y \in all \ old : Content[x] = Content[y] => x = y
  <2>1. all = Range(pending[n]) \cup Range(s)
    BY <1>1
  <2> HIDE DEF all
  <2>2. \A x, y \in all \ Superseded(n, s) : Content[x] = Content[y] => x = y
    BY <1>0, <1>1, <2>1, SupersededLeft
  <2> QED BY <2>2
<1>4. \A x \in all : Target[x] = n /\ Kind[x] # "noMoreInfo"
  BY <1>0 DEF ParkedRight
<1>5. ASSUME NEW k \in Sleepy
      PROVE  /\ \A x \in Range(pending'[k]) : Target[x] = k /\ Kind[x] # "noMoreInfo"
             /\ \A x, y \in Range(pending'[k]) : Content[x] = Content[y] => x = y
  <2>1. CASE k = n
    <3>1. Range(pending'[k]) = all \ old
      BY <1>2, <2>1
    <3> QED BY <1>3, <1>4, <2>1, <3>1
  <2>2. CASE k # n
    <3>1. Range(pending'[k]) = Range(pending[k])
      BY <1>2, <2>2
    <3> QED BY <1>0, <3>1 DEF ParkedRight
  <2> QED BY <2>1, <2>2
<1>6. CallsRight'
  BY <1>0, DriverAssumption DEF CallsRight
<1> QED BY <1>5, <1>6 DEF ParkedRight

\* SendMsg on the driver thread, by whatever handler; done is what the handler ends.
LEMMA SendDelivers ==
  ASSUME DeliveryInv, Inv', NEW m \in Sendable, SendMsg(m), UNCHANGED call,
         NEW done, Completes(done), Delete(done \cup SupersededBy(m))
  PROVE  /\ DeliveryInv'
         /\ \E gone \in SUBSET Promise!Having({"sending"}) :
              Promise!Queue(m, gone) \/ Promise!ParkOne(m, gone)
<1>0. PlaceInv /\ ParkedRight /\ TypeOK /\ m \in fresh /\ m \in Msg /\ Kind[m] # "noMoreInfo"
  BY DEF DeliveryInv, PlaceInv, Inv, TypeOK, Sendable
<1>1. /\ m \notin deleted /\ m # currentMsg
      /\ \A t \in Thread : m # call[t].msg
      /\ \A q \in Queues : m \notin Range(msgQueue[q])
      /\ \A n \in Sleepy : m \notin Range(pending[n])
  BY <1>0, FreshOnly
<1>2. OffLists(m) /\ Leaves(m)
  BY <1>1 DEF OffLists, Leaves, SendMsg
<1>3. status[m] \in {"idle", "handed"}
  BY <1>0, StatusIs
<1>4. CASE Asleep(Target[m])
  <2> DEFINE n == Target[m]
  <2>1. /\ n \in Sleepy /\ Park(n, << m >>) /\ UNCHANGED msgQueue
        /\ Delete(done \cup Superseded(n, << m >>))
    BY <1>4 DEF SendMsg, Asleep, SupersededBy, queueVars
  <2>2. /\ PlaceInv'
        /\ Only(m, "pending", n)'
        /\ Superseded(n, << m >>) \subseteq Range(pending[n])
        /\ \A x \in Msg \ {m} : Settled(x, done \cup Superseded(n, << m >>))
    BY <1>0, <1>2, <2>1, ParkPlaces
  <2>3. ParkedRight' /\ CallsRight'
    BY <1>0, <1>1, <2>1, ParkKeepsRight DEF DeliveryInv
  <2> QED BY <1>0, <1>1, <1>3, <2>1, <2>2, <2>3, ParkDelivers DEF DeliveryInv
<1>5. CASE ~Asleep(Target[m])
  <2> DEFINE q == QueueOf[m]
  <2>1. q \in Queues /\ Push(q, << m >>) /\ UNCHANGED pending /\ Delete(done)
    BY <1>0, <1>5, DriverAssumption DEF SendMsg, SupersededBy
  <2>2. /\ PlaceInv'
        /\ Only(m, "queue", q)'
        /\ \A x \in Msg \ {m} : Settled(x, done)
    BY <1>0, <1>2, <2>1, PushPlaces
  <2>3. ParkedRight' /\ CallsRight'
    BY <2>1, RightStays
  <2> QED BY <1>0, <1>3, <2>1, <2>2, <2>3, QueueDelivers DEF DeliveryInv
<1> QED BY <1>4, <1>5
-----------------------------------------------------------------------------
(* The actions. *)

Status == [m \in Msg |-> StatusOf(m)]

\* What each action is shown to do: the invariant again, and a step of Delivery or none.
Delivers == DeliveryInv' /\ (Promise!Next \/ UNCHANGED Status)

\* The ways to be a step of Delivery, whatever ends with it.
LEMMA DeliveryStep ==
  /\ (\E m \in Msg : Promise!Hand(m) \/ Promise!Start(m) \/ Promise!Finish(m)) => Promise!Next
  /\ (\E m \in Msg : \E gone \in SUBSET Promise!Having({"sending"}) :
        Promise!Queue(m, gone) \/ Promise!ParkOne(m, gone)) => Promise!Next
  /\ (\E n \in Node : \E gone \in SUBSET Promise!Having({"sending"}) :
        Promise!Wake(n, {}, gone) \/ \E m \in Msg : Promise!Wake(n, {m}, gone)) => Promise!Next
  /\ (\E n \in Node : Promise!Sleep(n)) => Promise!Next
BY DEF Promise!Next

\* A transaction that a frame completes, or not.
LEMMA GenericCompletes ==
  ASSUME NEW byte, NEW reply, GenericCallback(byte, reply)
  PROVE  Completes(Completed(byte, reply))
<1> DEFINE id == IF expectedCallbackId = byte THEN 0 ELSE expectedCallbackId
           rest == IF reply = expectedReply THEN "none" ELSE expectedReply
           ends == (expectedCallbackId # 0 \/ expectedReply # "none") /\ id = 0 /\ rest = "none"
<1>1. ends <=> /\ expectedCallbackId # 0 \/ expectedReply # "none"
               /\ expectedCallbackId \in {0, byte}
               /\ expectedReply \in {"none", reply}
  OBVIOUS
<1>2. Completed(byte, reply) = IF ends THEN {currentMsg} ELSE {}
  BY <1>1 DEF Completed
<1>3. CASE ends
  BY <1>2, <1>3 DEF GenericCallback, CloseTransaction, Completes
<1>4. CASE ~ends
  BY <1>2, <1>4 DEF GenericCallback, Completes
<1> QED BY <1>3, <1>4

\* A step that only ends the open transaction, or not even that.
LEMMA EndStep ==
  ASSUME DeliveryInv, Inv', NEW done, SameHands, Completes(done), Delete(done),
         UNCHANGED << msgQueue, pending >>
  PROVE  Delivers
<1>0. PlaceInv
  BY DEF DeliveryInv
<1>1. PlaceInv' /\ \A x \in Msg : Settled(x, done)
  BY <1>0, EndPlaces
<1>2. ParkedRight' /\ CallsRight'
  BY RightStays DEF SameHands
<1>3. (\E m \in Msg : Promise!Finish(m)) \/ UNCHANGED Status
  BY <1>0, <1>1, EndDelivers DEF Status
<1> QED BY <1>1, <1>2, <1>3, DeliveryStep DEF Delivers, DeliveryInv

\* Nothing is deleted and the transaction goes on.
LEMMA NothingEnds ==
  ASSUME UNCHANGED << currentMsg, deleted >> PROVE Completes({}) /\ Delete({})
BY DEF Completes, Delete

LEMMA CallUnchanged ==
  ASSUME UNCHANGED << fresh, call >> PROVE SameHands
BY DEF SameHands

LEMMA WatcherSendsDelivers ==
  ASSUME DeliveryInv, Inv', NEW m \in Msg, WatcherSends(m) PROVE Delivers
<1>1. /\ m \in Sendable /\ SendMsg(m) /\ Delete({} \cup SupersededBy(m))
      /\ UNCHANGED call /\ Completes({})
  BY DEF WatcherSends, transactionVars, Completes
<1>2. /\ DeliveryInv'
      /\ \E gone \in SUBSET Promise!Having({"sending"}) :
           Promise!Queue(m, gone) \/ Promise!ParkOne(m, gone)
  BY <1>1, SendDelivers
<1> QED BY <1>2, DeliveryStep DEF Delivers

LEMMA BeginSendDelivers ==
  ASSUME DeliveryInv, Inv', NEW t \in Thread, NEW m \in Msg, BeginSend(t, m) PROVE Delivers
<1>0. PlaceInv /\ TypeOK /\ CallsRight
  BY DEF DeliveryInv, PlaceInv, Inv
<1>1. /\ call[t] = NoCall /\ m \in Sendable /\ fresh' = fresh \ {m}
      /\ call' = [call EXCEPT ![t] = [step |-> "finalized", msg |-> m]]
      /\ UNCHANGED << msgQueue, pending, currentMsg, deleted >>
  BY DEF BeginSend, queueVars, transactionVars, sleepVars
<1>2. m \in fresh /\ Kind[m] # "noMoreInfo" /\ call[t].msg \notin Msg
  BY <1>1, DriverAssumption DEF Sendable, NoCall
<1>3. call'[t].msg = m /\ \A u \in Thread \ {t} : call'[u].msg = call[u].msg
  BY <1>0, <1>1 DEF TypeOK
<1>4. PlaceInv' /\ Only(m, "call", t)' /\ \A x \in Msg \ {m} : Stays(x)
  BY <1>0, <1>1, <1>2, <1>3, HandPlaces
<1>5. ParkedRight'
  BY <1>1 DEF DeliveryInv, ParkedRight
<1>6. CallsRight'
  BY <1>0, <1>2, <1>3 DEF CallsRight
<1>7. Promise!Hand(m)
  BY <1>2, <1>4, HandDelivers
<1> QED BY <1>4, <1>5, <1>6, <1>7, DeliveryStep DEF Delivers, DeliveryInv

LEMMA TestAwakeDelivers ==
  ASSUME DeliveryInv, Inv', NEW t \in Thread, TestAwake(t) PROVE Delivers
<1>0. TypeOK
  BY DEF DeliveryInv, PlaceInv, Inv
<1>1. UNCHANGED << msgQueue, pending, currentMsg, deleted, fresh >> /\ call[t].step = "finalized"
  BY DEF TestAwake, queueVars, transactionVars, sleepVars
<1>2. PICK next : call' = [call EXCEPT ![t].step = next]
  BY DEF TestAwake
<1>3. call[t] \in [step : {"finalized", "park", "push"}, msg : Msg]
  BY <1>0, <1>1 DEF TypeOK, Calls, NoCall
<1>4. \A u \in Thread : call'[u].msg = call[u].msg
  BY <1>0, <1>2, <1>3 DEF TypeOK
<1>5. SameHands
  BY <1>1, <1>4 DEF SameHands
<1> QED BY <1>1, <1>5, NothingEnds, EndStep

LEMMA EndSendDelivers ==
  ASSUME DeliveryInv, Inv', NEW t \in Thread, EndSend(t) PROVE Delivers
<1> DEFINE m == call[t].msg
<1>0. PlaceInv /\ TypeOK /\ ParkedRight /\ CallsRight /\ ParksForSleepy
  BY DEF DeliveryInv, PlaceInv, Inv
<1>1. UNCHANGED << currentMsg, fresh >> /\ call' = [call EXCEPT ![t] = NoCall]
      /\ call[t].step \in {"park", "push"} /\ Completes({})
  BY DEF EndSend, transactionVars, Completes
<1>2. m \in Msg
  BY <1>0, <1>1 DEF TypeOK, Calls, NoCall
<1>3. /\ m \notin fresh /\ m \notin deleted /\ m # currentMsg
      /\ \A u \in Thread : call[u].msg = m => u = t
      /\ \A q \in Queues : m \notin Range(msgQueue[q])
      /\ \A n \in Sleepy : m \notin Range(pending[n])
  BY <1>0, <1>2, CallOnly
<1>4. \A u \in Thread : call'[u].msg = IF u = t THEN NoMsg ELSE call[u].msg
  BY <1>0, <1>1 DEF TypeOK, NoCall
<1>5. Kind[m] # "noMoreInfo"
  BY <1>0, <1>2 DEF CallsRight
<1> HIDE DEF m
<1>6. PICK mm \in Msg : mm = m
  BY <1>2
<1>7. OffLists(mm) /\ Leaves(mm)
  BY <1>1, <1>3, <1>4, <1>6 DEF OffLists, Leaves, m
<1>8. status[mm] \in {"idle", "handed"}
  <2>1. mm \notin fresh /\ mm \notin deleted /\ mm # currentMsg /\ \E u \in Thread : call[u].msg = mm
    BY <1>3, <1>6 DEF m
  <2> QED BY <2>1 DEF status, StatusOf
<1>9. CASE call[t].step = "park"
  <2>1. PICK n \in Sleepy : n = Target[mm]
    BY <1>0, <1>6, <1>9 DEF ParksForSleepy, m
  <2>2. /\ Park(n, << mm >>) /\ UNCHANGED msgQueue
        /\ Delete({} \cup Superseded(n, << mm >>))
    BY <1>6, <1>9, <2>1 DEF EndSend, queueVars, m
  <2>3. /\ PlaceInv'
        /\ Only(mm, "pending", n)'
        /\ \A x \in Msg \ {mm} : Settled(x, {} \cup Superseded(n, << mm >>))
    BY <1>0, <1>1, <1>7, <2>2, ParkPlaces
  <2>4. mm \notin Range(pending[n]) /\ Kind[mm] # "noMoreInfo"
    BY <1>3, <1>5, <1>6
  <2>5. ParkedRight' /\ CallsRight'
    BY <1>4, <2>1, <2>2, <2>4, ParkKeepsRight
  <2>6. \E gone \in SUBSET Promise!Having({"sending"}) : Promise!ParkOne(mm, gone)
    BY <1>0, <1>1, <1>8, <2>1, <2>3, <2>4, ParkDelivers
  <2> QED BY <2>3, <2>5, <2>6, DeliveryStep DEF Delivers, DeliveryInv
<1>10. CASE call[t].step = "push"
  <2>1. PICK q \in Queues : q = QueueOf[mm]
    BY DriverAssumption
  <2>2. Push(q, << mm >>) /\ UNCHANGED pending /\ Delete({})
    BY <1>6, <1>10, <2>1, NothingEnds DEF EndSend, transactionVars, m
  <2>3. PlaceInv' /\ Only(mm, "queue", q)' /\ \A x \in Msg \ {mm} : Settled(x, {})
    BY <1>0, <1>1, <1>7, <2>2, PushPlaces
  <2>4. ParkedRight' /\ CallsRight'
    BY <1>4, <2>2, RightStays
  <2>5. \E gone \in SUBSET Promise!Having({"sending"}) : Promise!Queue(mm, gone)
    BY <1>0, <1>1, <1>8, <2>3, QueueDelivers
  <2> QED BY <2>3, <2>4, <2>5, DeliveryStep DEF Delivers, DeliveryInv
<1> QED BY <1>1, <1>9, <1>10

LEMMA WriteNextMsgDelivers ==
  ASSUME DeliveryInv, Inv', NEW q \in Queues, WriteNextMsg(q) PROVE Delivers
<1>0. PlaceInv /\ TypeOK /\ ListsInjective /\ TransactionOpen /\ QueueEventsMatch
  BY DEF DeliveryInv, PlaceInv, Inv
<1>1. /\ msgQueue[q] # << >> /\ currentMsg = NoMsg
      /\ msgQueue' = [msgQueue EXCEPT ![q] = Tail(@)]
      /\ UNCHANGED << pending, fresh, call >>
  BY <1>0 DEF WriteNextMsg, TransactionOpen, QueueEventsMatch, sleepVars
<1>2. /\ Head(msgQueue[q]) \in Msg /\ Head(msgQueue[q]) \in Range(msgQueue[q])
      /\ \A r \in Queues :
           /\ IsInjective(msgQueue'[r])
           /\ Range(msgQueue'[r]) = IF r = q THEN Range(msgQueue[r]) \ {Head(msgQueue[q])}
                                    ELSE Range(msgQueue[r])
  BY <1>0, <1>1, TakeLists
<1>3. PICK m \in Msg : m = Head(msgQueue[q])
  BY <1>2
<1>4. (currentMsg' = m /\ UNCHANGED deleted) \/ (currentMsg' = NoMsg /\ Delete({m}))
  <2>1. WriteMsg(m, maxSendAttempts[m], owed)
    BY <1>3 DEF WriteNextMsg
  <2> QED BY <2>1 DEF WriteMsg, Transmit, CloseTransaction
<1>5. SameHands
  BY <1>1, CallUnchanged
<1>6. /\ m \in Range(msgQueue[q])
      /\ \A r \in Queues :
           /\ IsInjective(msgQueue'[r])
           /\ Range(msgQueue'[r]) = IF r = q THEN Range(msgQueue[r]) \ {m} ELSE Range(msgQueue[r])
  BY <1>2, <1>3
<1>7. /\ PlaceInv' /\ Only(m, "queue", q)
      /\ Only(m, "current", 0)' \/ Only(m, "deleted", 0)'
      /\ \A x \in Msg \ {m} : Stays(x)
  BY <1>0, <1>1, <1>4, <1>5, <1>6, WritePlaces
<1>8. Promise!Start(m)
  BY <1>0, <1>1, <1>7, StartDelivers
<1>9. ParkedRight' /\ CallsRight'
  BY <1>1, RightStays
<1> QED BY <1>7, <1>8, <1>9, DeliveryStep DEF Delivers, DeliveryInv

LEMMA ResendDelivers ==
  ASSUME DeliveryInv, Inv', NEW limit, NEW o, Resend(limit, o),
         UNCHANGED << queueVars, fresh, sleepVars, call >>
  PROVE  Delivers
<1>1. PICK done : Completes(done) /\ Delete(done)
  <2>1. CASE currentMsg' = currentMsg /\ UNCHANGED deleted
    BY <2>1, NothingEnds
  <2>2. CASE currentMsg' = NoMsg /\ Delete({currentMsg})
    <3>1. Completes({currentMsg})
      BY <2>2 DEF Completes
    <3> QED BY <2>2, <3>1
  <2>3. CASE currentMsg = NoMsg
    BY <2>1, <2>3 DEF Resend, CloseTransaction
  <2>4. CASE currentMsg # NoMsg
    BY <2>1, <2>2, <2>4 DEF Resend, WriteMsg, Transmit, CloseTransaction
  <2> QED BY <2>3, <2>4
<1>2. SameHands /\ UNCHANGED << msgQueue, pending >>
  BY CallUnchanged DEF queueVars, sleepVars
<1> QED BY <1>1, <1>2, EndStep

LEMMA ResendsDeliver ==
  ASSUME DeliveryInv, Inv', WaitTimeout \/ ReceiveNak \/ ReceiveCan PROVE Delivers
<1>1. PICK limit, o : Resend(limit, o) /\ UNCHANGED << queueVars, fresh, sleepVars, call >>
  BY DEF WaitTimeout, ReceiveNak, ReceiveCan
<1> QED BY <1>1, ResendDelivers

LEMMA ReceiveAckDelivers == ASSUME DeliveryInv, Inv', ReceiveAck PROVE Delivers
<1>1. UNCHANGED << queueVars, fresh, sleepVars, call >>
  BY DEF ReceiveAck
<1>2. SameHands /\ UNCHANGED << msgQueue, pending >>
  BY <1>1, CallUnchanged DEF queueVars, sleepVars
<1>3. CASE RemoveCurrentMsg
  <2>1. Completes({currentMsg}) /\ Delete({currentMsg})
    BY <1>3 DEF RemoveCurrentMsg, CloseTransaction, Completes
  <2> QED BY <1>2, <2>1, EndStep
<1>4. CASE UNCHANGED << currentMsg, deleted >>
  BY <1>2, <1>4, NothingEnds, EndStep
<1> QED BY <1>3, <1>4 DEF ReceiveAck

\* A frame for which nothing is parked.
LEMMA ProcessedDelivers ==
  ASSUME DeliveryInv, Inv', NEW byte, NEW reply, GenericCallback(byte, reply),
         Delete(Completed(byte, reply)), UNCHANGED << msgQueue, pending, fresh, call >>
  PROVE  Delivers
<1>1. Completes(Completed(byte, reply)) /\ SameHands
  BY GenericCompletes, CallUnchanged
<1> QED BY <1>1, EndStep

LEMMA MoveDelivers ==
  ASSUME DeliveryInv, Inv', CurrentNode \in Sleepy, MoveMessagesToWakeUpQueue(CurrentNode),
         UNCHANGED << fresh, call >>
  PROVE  Delivers
<1>1. PICK n \in Sleepy : n = CurrentNode
  OBVIOUS
<1>2. SameHands /\ MoveMessagesToWakeUpQueue(n)
  BY <1>1, CallUnchanged
<1>3. DeliveryInv' /\ Promise!Sleep(n)
  BY <1>1, <1>2, SleepDelivers
<1>4. n \in Node
  BY DriverAssumption
<1> QED BY <1>3, <1>4, DeliveryStep DEF Delivers

LEMMA ReceiveCallbackDelivers ==
  ASSUME DeliveryInv, Inv', NEW f \in air, NEW answer, ReceiveCallback(f, answer) PROVE Delivers
<1>1. UNCHANGED << fresh, call >>
  BY DEF ReceiveCallback
<1>2. CASE ~Unexpected(f.id) /\ answer = "noAck" /\ CurrentNode \in Sleepy
  BY <1>1, <1>2, MoveDelivers DEF ReceiveCallback
<1>3. CASE ~(~Unexpected(f.id) /\ answer = "noAck" /\ CurrentNode \in Sleepy)
  <2>1. /\ GenericCallback(f.id, "sendData") /\ Delete(Completed(f.id, "sendData"))
        /\ UNCHANGED << msgQueue, pending >>
    BY <1>3 DEF ReceiveCallback, queueVars
  <2> QED BY <1>1, <2>1, ProcessedDelivers
<1> QED BY <1>2, <1>3

LEMMA ReceiveReportDelivers ==
  ASSUME DeliveryInv, Inv', NEW n \in Node, NEW right, NEW answer \in Msg \cup {NoMsg},
         ReceiveReport(n, right, answer)
  PROVE  Delivers
<1>1. PICK reply : reply = ReportReply(n, right)
  OBVIOUS
<1>2. GenericCallback(0, reply) /\ UNCHANGED call
  BY <1>1 DEF ReceiveReport
<1>3. CASE answer = NoMsg
  <2>1. Delete(Completed(0, reply)) /\ UNCHANGED << msgQueue, pending, fresh >>
    BY <1>1, <1>3 DEF ReceiveReport, queueVars
  <2> QED BY <1>2, <2>1, ProcessedDelivers
<1>4. CASE answer # NoMsg
  <2>1. /\ answer \in Sendable /\ SendMsg(answer)
        /\ Delete(Completed(0, reply) \cup SupersededBy(answer))
    BY <1>1, <1>4 DEF ReceiveReport
  <2>2. PICK done : done = Completed(0, reply)
    OBVIOUS
  <2>3. Completes(done) /\ Delete(done \cup SupersededBy(answer))
    BY <1>2, <2>1, <2>2, GenericCompletes
  <2>4. /\ DeliveryInv'
        /\ \E gone \in SUBSET Promise!Having({"sending"}) :
             Promise!Queue(answer, gone) \/ Promise!ParkOne(answer, gone)
    BY <1>2, <2>1, <2>3, SendDelivers
  <2> QED BY <1>4, <2>4, DeliveryStep DEF Delivers
<1> QED BY <1>3, <1>4

LEMMA ReceiveWakeUpNotificationDelivers ==
  ASSUME DeliveryInv, Inv', NEW n \in Sleepy, NEW right, NEW m \in Msg,
         ReceiveWakeUpNotification(n, right, m)
  PROVE  Delivers
<1>1. PICK done : done = Completed(0, ReportReply(n, right))
  OBVIOUS
<1>2. Completes(done) /\ Delete(done)
  BY <1>1, GenericCompletes DEF ReceiveWakeUpNotification
<1>3. PICK extra : extra = << m >>
  OBVIOUS
<1>4. extra \in Seq(Msg) /\ IsInjective(extra) /\ Range(extra) = {m}
  BY <1>3, OneItem
<1>5. /\ m \in fresh /\ Kind[m] = "noMoreInfo" /\ Target[m] = n
      /\ fresh' = fresh \ {m} /\ UNCHANGED call /\ SetAwake(n, extra)
  BY <1>3 DEF ReceiveWakeUpNotification
<1>6. /\ Range(extra) \subseteq { x \in fresh : Perishable(x) /\ Target[x] = n }
      /\ fresh' = fresh \ Range(extra)
  BY <1>4, <1>5 DEF Perishable
<1>7. /\ DeliveryInv'
      /\ \E gone \in SUBSET Promise!Having({"sending"}) : Promise!Wake(n, Range(extra), gone)
  BY <1>2, <1>4, <1>5, <1>6, WakeDelivers
<1>8. \E gone \in SUBSET Promise!Having({"sending"}) : Promise!Wake(n, {m}, gone)
  BY <1>4, <1>7
<1>9. n \in Node
  BY DriverAssumption
<1> QED BY <1>7, <1>8, <1>9, DeliveryStep DEF Delivers

LEMMA ReceiveNodeInfoDelivers ==
  ASSUME DeliveryInv, Inv', NEW n \in Node, ReceiveNodeInfo(n) PROVE Delivers
<1>1. PICK reply : reply = IF CurrentNode = n THEN "update" ELSE "nothing"
  OBVIOUS
<1>2. /\ GenericCallback(UpdateNodeInfoReceived, reply)
      /\ Delete(Completed(UpdateNodeInfoReceived, reply))
      /\ UNCHANGED << fresh, call >>
  BY <1>1 DEF ReceiveNodeInfo
<1>3. CASE n \notin Sleepy
  BY <1>2, <1>3, ProcessedDelivers DEF ReceiveNodeInfo, queueVars, sleepVars
<1>4. CASE n \in Sleepy
  <2>1. PICK done : done = Completed(UpdateNodeInfoReceived, reply)
    OBVIOUS
  <2>2. Completes(done) /\ Delete(done)
    BY <1>2, <2>1, GenericCompletes
  <2>3. PICK extra : extra = << >>
    OBVIOUS
  <2>4. extra \in Seq(Msg) /\ IsInjective(extra) /\ Range(extra) = {}
    BY <2>3 DEF IsInjective, Range
  <2>5. SetAwake(n, extra)
    BY <1>4, <2>3 DEF ReceiveNodeInfo
  <2>6. /\ Range(extra) \subseteq { x \in fresh : Perishable(x) /\ Target[x] = n }
        /\ fresh' = fresh \ Range(extra)
    BY <1>2, <2>4
  <2>7. /\ DeliveryInv'
        /\ \E gone \in SUBSET Promise!Having({"sending"}) : Promise!Wake(n, Range(extra), gone)
    BY <1>2, <1>4, <2>2, <2>4, <2>5, <2>6, WakeDelivers
  <2>8. \E gone \in SUBSET Promise!Having({"sending"}) : Promise!Wake(n, {}, gone)
    BY <2>4, <2>7
  <2> QED BY <2>7, <2>8, DeliveryStep DEF Delivers
<1> QED BY <1>3, <1>4

LEMMA ReceiveNodeInfoFailedDelivers ==
  ASSUME DeliveryInv, Inv', NEW f \in air, ReceiveNodeInfoFailed(f) PROVE Delivers
<1>1. UNCHANGED << fresh, call >>
  BY DEF ReceiveNodeInfoFailed
<1>2. CASE CurrentNode \in Sleepy
  BY <1>1, <1>2, MoveDelivers DEF ReceiveNodeInfoFailed
<1>3. CASE CurrentNode \notin Sleepy
  <2>1. /\ GenericCallback(UpdateNodeInfoFailed, "update")
        /\ Delete(Completed(UpdateNodeInfoFailed, "update"))
        /\ UNCHANGED << msgQueue, pending >>
    BY <1>3 DEF ReceiveNodeInfoFailed, queueVars, sleepVars
  <2> QED BY <1>1, <2>1, ProcessedDelivers
<1> QED BY <1>2, <1>3

LEMMA ReceiveResponseDelivers ==
  ASSUME DeliveryInv, Inv', NEW f \in air, ReceiveResponse(f) PROVE Delivers
<1>1. /\ GenericCallback(0, "local") /\ Delete(Completed(0, "local"))
      /\ UNCHANGED << msgQueue, pending, fresh, call >>
  BY DEF ReceiveResponse, queueVars, sleepVars
<1> QED BY <1>1, ProcessedDelivers
-----------------------------------------------------------------------------
\* At the start every message is still to be made.
LEMMA InitDelivers == Init => DeliveryInv /\ Promise!Init
<1> SUFFICES ASSUME Init PROVE DeliveryInv /\ Promise!Init
  OBVIOUS
<1>1. Inv
  BY InitInv
<1>2. /\ msgQueue = [q \in Queues |-> << >>] /\ pending = [n \in Sleepy |-> << >>]
      /\ call = [t \in Thread |-> NoCall] /\ fresh = Msg /\ deleted = {} /\ currentMsg = NoMsg
  BY DEF Init
<1>3. IsInjective(<< >>) /\ Range(<< >>) = {}
  BY DEF IsInjective, Range
<1>4. /\ \A q \in Queues : IsInjective(msgQueue[q]) /\ Range(msgQueue[q]) = {}
      /\ \A n \in Sleepy : IsInjective(pending[n]) /\ Range(pending[n]) = {}
      /\ \A t \in Thread : call[t].msg = NoMsg
  BY <1>2, <1>3 DEF NoCall
<1>5. ASSUME NEW m \in Msg PROVE Only(m, "fresh", 0)
  BY <1>2, <1>4, DriverAssumption DEF Only, At
<1>6. ListsInjective /\ ParkedRight /\ CallsRight
  BY <1>4, DriverAssumption DEF ListsInjective, ParkedRight, CallsRight
<1>7. DeliveryInv
  BY <1>1, <1>5, <1>6 DEF DeliveryInv, PlaceInv
<1>8. Promise!Init
  BY <1>2 DEF Promise!Init, StatusOf
<1> QED BY <1>7, <1>8

LEMMA NextDelivers == DeliveryInv /\ [Next]_vars => Delivers
<1> SUFFICES ASSUME DeliveryInv, [Next]_vars PROVE Delivers
  OBVIOUS
<1>0. Inv'
  BY NextInv DEF DeliveryInv, PlaceInv
<1>1. CASE \E t \in Thread : AppNext(t)
  BY <1>0, <1>1, BeginSendDelivers, TestAwakeDelivers, EndSendDelivers DEF AppNext
<1>2. CASE \E m \in Msg : WatcherSends(m)
  BY <1>0, <1>2, WatcherSendsDelivers
<1>3. CASE SendNext
  BY <1>0, <1>3, WriteNextMsgDelivers DEF SendNext
<1>4. CASE WaitTimeout
  BY <1>0, <1>4, ResendsDeliver
<1>5. CASE ReceiveNext
  <2>1. CASE ReceiveAck \/ ReceiveNak \/ ReceiveCan
    BY <1>0, <2>1, ReceiveAckDelivers, ResendsDeliver
  <2>2. CASE \E f \in air : \/ \E answer \in Answers : ReceiveCallback(f, answer)
                          \/ ReceiveNodeInfoFailed(f)
                          \/ ReceiveResponse(f)
    BY <1>0, <2>2, ReceiveCallbackDelivers, ReceiveNodeInfoFailedDelivers, ReceiveResponseDelivers
  <2>3. CASE \E n \in Node, right \in BOOLEAN, answer \in Msg \cup {NoMsg} :
               ReceiveReport(n, right, answer)
    BY <1>0, <2>3, ReceiveReportDelivers
  <2>4. CASE \E n \in Sleepy, right \in BOOLEAN, m \in Msg :
               ReceiveWakeUpNotification(n, right, m)
    BY <1>0, <2>4, ReceiveWakeUpNotificationDelivers
  <2>5. CASE \E n \in Node : ReceiveNodeInfo(n)
    BY <1>0, <2>5, ReceiveNodeInfoDelivers
  <2> QED BY <1>5, <2>1, <2>2, <2>3, <2>4, <2>5 DEF ReceiveNext
<1>6. CASE UNCHANGED vars
  <2>1. UNCHANGED << msgQueue, pending, fresh, call, currentMsg, deleted >>
    BY <1>6 DEF vars, queueVars, transactionVars, sleepVars
  <2> QED BY <1>0, <2>1, CallUnchanged, NothingEnds, EndStep
<1> QED BY <1>1, <1>2, <1>3, <1>4, <1>5, <1>6 DEF Next
-----------------------------------------------------------------------------
(* Counting the places. *)
LEMMA FoundNone ==
  ASSUME NEW lists, NEW m, \A k \in DOMAIN lists : m \notin Range(lists[k])
  PROVE  Found(lists, m) = 0
<1> DEFINE P == { p \in UNION { {k} \X DOMAIN lists[k] : k \in DOMAIN lists } : lists[p[1]][p[2]] = m }
<1>1. ASSUME NEW p \in P PROVE FALSE
  <2>1. PICK k \in DOMAIN lists : p \in {k} \X DOMAIN lists[k]
    OBVIOUS
  <2>2. p[1] = k /\ p[2] \in DOMAIN lists[k] /\ lists[k][p[2]] = m
    BY <2>1
  <2>3. m \in Range(lists[k])
    BY <2>2 DEF Range
  <2> QED BY <2>1, <2>3
<1>2. P = {}
  BY <1>1
<1> QED BY <1>2, FS_EmptySet DEF Found

LEMMA FoundOne ==
  ASSUME NEW lists, NEW m, NEW k \in DOMAIN lists, IsInjective(lists[k]), m \in Range(lists[k]),
         \A j \in DOMAIN lists : m \in Range(lists[j]) => j = k
  PROVE  Found(lists, m) = 1
<1> DEFINE P == { p \in UNION { {j} \X DOMAIN lists[j] : j \in DOMAIN lists } : lists[p[1]][p[2]] = m }
<1>1. PICK i \in DOMAIN lists[k] : lists[k][i] = m
  BY DEF Range
<1>2. << k, i >> \in P
  <2>1. << k, i >> \in {k} \X DOMAIN lists[k]
    BY <1>1
  <2> QED BY <1>1, <2>1
<1>3. ASSUME NEW p \in P PROVE p = << k, i >>
  <2>1. PICK j \in DOMAIN lists : p \in {j} \X DOMAIN lists[j]
    OBVIOUS
  <2>2. p = << j, p[2] >> /\ p[2] \in DOMAIN lists[j] /\ lists[j][p[2]] = m
    BY <2>1
  <2>3. m \in Range(lists[j])
    BY <2>2 DEF Range
  <2>4. j = k
    BY <2>3
  <2>5. p[2] = i
    BY <1>1, <2>2, <2>4 DEF IsInjective
  <2> QED BY <2>2, <2>4, <2>5
<1>4. P = { << k, i >> }
  BY <1>2, <1>3
<1> QED BY <1>4, FS_Singleton DEF Found

\* A message that is in one place is counted once, unless that place is for messages
\* that do not exist.
LEMMA CopiesThere == ASSUME PlaceInv PROVE OnePlace
<1> SUFFICES ASSUME NEW m \in Msg PROVE Copies(m) = IF m \in fresh \cup deleted THEN 0 ELSE 1
  BY DEF OnePlace
<1> DEFINE calls == { t \in Thread : call[t].msg = m }
<1>0. /\ DOMAIN msgQueue = Queues /\ DOMAIN pending = Sleepy /\ ListsInjective
  BY DEF PlaceInv, Inv, TypeOK
<1>1. PICK kind, k : Only(m, kind, k)
  BY DEF PlaceInv
<1>2. At(m, kind, k) /\ \A x, y : At(m, x, y) => x = kind /\ y = k
  BY <1>1 DEF Only
<1>3. /\ m \in fresh <=> kind = "fresh"
      /\ m \in deleted <=> kind = "deleted"
      /\ m = currentMsg <=> kind = "current"
  BY <1>2 DEF At
<1>4. /\ kind # "queue" => Found(msgQueue, m) = 0
      /\ kind = "queue" => Found(msgQueue, m) = 1
  <2>1. ASSUME kind # "queue" PROVE Found(msgQueue, m) = 0
    <3>1. \A q \in Queues : m \notin Range(msgQueue[q])
      BY <1>2, <2>1 DEF At
    <3> QED BY <1>0, <3>1, FoundNone
  <2>2. ASSUME kind = "queue" PROVE Found(msgQueue, m) = 1
    <3>1. k \in Queues /\ m \in Range(msgQueue[k])
      BY <1>2, <2>2 DEF At
    <3>2. \A q \in Queues : m \in Range(msgQueue[q]) => q = k
      BY <1>2 DEF At
    <3> QED BY <1>0, <3>1, <3>2, FoundOne DEF ListsInjective
  <2> QED BY <2>1, <2>2
<1>5. /\ kind # "pending" => Found(pending, m) = 0
      /\ kind = "pending" => Found(pending, m) = 1
  <2>1. ASSUME kind # "pending" PROVE Found(pending, m) = 0
    <3>1. \A n \in Sleepy : m \notin Range(pending[n])
      BY <1>2, <2>1 DEF At
    <3> QED BY <1>0, <3>1, FoundNone
  <2>2. ASSUME kind = "pending" PROVE Found(pending, m) = 1
    <3>1. k \in Sleepy /\ m \in Range(pending[k])
      BY <1>2, <2>2 DEF At
    <3>2. \A n \in Sleepy : m \in Range(pending[n]) => n = k
      BY <1>2 DEF At
    <3> QED BY <1>0, <3>1, <3>2, FoundOne DEF ListsInjective
  <2> QED BY <2>1, <2>2
<1>6. /\ kind # "call" => Cardinality(calls) = 0
      /\ kind = "call" => Cardinality(calls) = 1
  <2>1. ASSUME kind # "call" PROVE Cardinality(calls) = 0
    <3>1. calls = {}
      BY <1>2, <2>1 DEF At
    <3> QED BY <3>1, FS_EmptySet
  <2>2. ASSUME kind = "call" PROVE Cardinality(calls) = 1
    <3>1. calls = {k}
      BY <1>2, <2>2 DEF At
    <3> QED BY <3>1, FS_Singleton
  <2> QED BY <2>1, <2>2
<1>7. kind \in PlaceKinds
  BY <1>2 DEF At, PlaceKinds
<1> HIDE DEF calls
<1>8. Copies(m) = Found(msgQueue, m) + Found(pending, m) + Cardinality(calls)
                  + (IF currentMsg = m THEN 1 ELSE 0)
  BY DEF Copies, calls
<1> QED BY <1>3, <1>4, <1>5, <1>6, <1>7, <1>8 DEF PlaceKinds
-----------------------------------------------------------------------------
\* Every message that was made is in one place, and a deleted one is nowhere: whatever the
\* nodes, threads and messages, none is leaked, deleted twice or used after it was deleted.
THEOREM OnePlaceCorrect == Spec => []OnePlace
<1>1. Spec => []DeliveryInv
  BY InitDelivers, NextDelivers, PTL DEF Spec, Delivers
<1>2. DeliveryInv => OnePlace
  BY CopiesThere DEF DeliveryInv
<1> QED BY <1>1, <1>2, PTL

\* The message engine implements Delivery: every step of every thread is a step in the
\* life of the messages as their senders see it, or changes nothing there.
THEOREM DeliveryImplemented == Spec => ImplementsDelivery
<1>1. Spec => []DeliveryInv
  BY InitDelivers, NextDelivers, PTL DEF Spec, Delivers
<1>2. DeliveryInv /\ [Next]_vars => [Promise!Next]_[m \in Msg |-> StatusOf(m)]
  BY NextDelivers DEF Delivers, Status
<1>3. Init => Promise!Init
  BY InitDelivers
<1> QED BY <1>1, <1>2, <1>3, PTL DEF Spec, ImplementsDelivery, Promise!Spec
-----------------------------------------------------------------------------
(* What a step puts on a wake-up queue. *)

\* What the two properties say of a step and one node.
ParksRight(n) ==
  /\ awake'[n] => \A m \in Range(pending'[n]) :
       \/ awake[n] /\ m \in Range(pending[n])
       \/ \E t \in Thread : call[t] = [step |-> "park", msg |-> m]
  /\ \A m \in Range(pending'[n]) \ Range(pending[n]) :
       Kind[m] \in {"noOp", "noMoreInfo"} =>
         Kind[m] = "noOp" /\ (m \in fresh \/ \E t \in Thread : call[t].msg = m)

AllParkRight == \A n \in Sleepy : ParksRight(n)

\* Nothing but what is parked joins a wake-up queue.
LEMMA ParkRange ==
  ASSUME TypeOK, NEW n \in Sleepy, NEW s \in Seq(Msg), Park(n, s)
  PROVE  /\ Range(pending'[n]) \subseteq Range(pending[n]) \cup Range(s)
         /\ \A k \in Sleepy : k # n => pending'[k] = pending[k]
<1>1. pending[n] \in Seq(Msg)
  BY DEF TypeOK
<1>2. pending[n] \o s \in Seq(Msg) /\ Range(pending[n] \o s) = Range(pending[n]) \cup Range(s)
  BY <1>1, ConcatList
<1>3. pending'[n] = QueueAll(pending[n], s, Content)
      /\ \A k \in Sleepy : k # n => pending'[k] = pending[k]
  BY DEF Park, TypeOK
<1>4. Range(QueueAll(pending[n], s, Content)) \subseteq Range(pending[n] \o s)
  <2> DEFINE all == pending[n] \o s
             new == Newest(all, Content)
  <2> HIDE DEF all, new
  <2>1. Range(Keep(all, new)) = Range(all) \cap new
    BY <1>2, KeepList DEF all
  <2> QED BY <2>1 DEF QueueAll, all, new
<1> QED BY <1>2, <1>3, <1>4

\* A node that no longer is awake, or stays as it was, is given nothing.
LEMMA NothingParked ==
  ASSUME TypeOK, NEW n \in Sleepy, pending'[n] = pending[n], awake'[n] => awake[n]
  PROVE  ParksRight(n)
BY DEF ParksRight

\* SendMsg on the driver thread parks for a node that is asleep.
LEMMA SendParksRight ==
  ASSUME TypeOK, NEW m \in Sendable, SendMsg(m), UNCHANGED awake PROVE AllParkRight
<1>1. m \in fresh /\ m \in Msg /\ Kind[m] # "noMoreInfo"
  BY DEF Sendable, TypeOK
<1>2. CASE ~Asleep(Target[m])
  BY <1>2, NothingParked DEF SendMsg, AllParkRight
<1>3. CASE Asleep(Target[m])
  <2>1. PICK n \in Sleepy : n = Target[m] /\ ~awake[n] /\ Park(n, << m >>)
    BY <1>3 DEF Asleep, SendMsg
  <2>2. << m >> \in Seq(Msg) /\ Range(<< m >>) = {m}
    BY <1>1, OneItem
  <2>3. /\ Range(pending'[n]) \subseteq Range(pending[n]) \cup {m}
        /\ \A k \in Sleepy : k # n => pending'[k] = pending[k]
    BY <2>1, <2>2, ParkRange
  <2>4. ParksRight(n)
    BY <1>1, <2>1, <2>3 DEF ParksRight
  <2>5. \A k \in Sleepy : k # n => ParksRight(k)
    BY <2>3, NothingParked
  <2> QED BY <2>4, <2>5 DEF AllParkRight
<1> QED BY <1>2, <1>3

\* Another thread may park for a node that woke up meanwhile; it found it asleep.
LEMMA EndSendParksRight ==
  ASSUME DeliveryInv, NEW t \in Thread, EndSend(t) PROVE AllParkRight
<1>0. TypeOK /\ ParksForSleepy /\ CallsRight /\ UNCHANGED awake
  BY DEF DeliveryInv, PlaceInv, Inv, EndSend
<1>1. CASE call[t].step # "park"
  BY <1>0, <1>1, NothingParked DEF EndSend, AllParkRight
<1>2. CASE call[t].step = "park"
  <2>1. call[t].msg \in Msg /\ call[t] = [step |-> "park", msg |-> call[t].msg]
    BY <1>0, <1>2 DEF TypeOK, Calls, NoCall
  <2>2. PICK m \in Msg : m = call[t].msg /\ call[t] = [step |-> "park", msg |-> m]
    BY <2>1
  <2>3. PICK n \in Sleepy : n = Target[m]
    BY <1>0, <1>2, <2>2 DEF ParksForSleepy
  <2>4. Park(n, << m >>)
    BY <1>2, <2>2, <2>3 DEF EndSend
  <2>5. << m >> \in Seq(Msg) /\ Range(<< m >>) = {m}
    BY OneItem
  <2>6. /\ Range(pending'[n]) \subseteq Range(pending[n]) \cup {m}
        /\ \A k \in Sleepy : k # n => pending'[k] = pending[k]
    BY <1>0, <2>4, <2>5, ParkRange
  <2>7. Kind[m] # "noMoreInfo"
    BY <1>0, <2>2 DEF CallsRight
  <2>8. ParksRight(n)
    BY <1>0, <2>2, <2>6, <2>7 DEF ParksRight
  <2>9. \A k \in Sleepy : k # n => ParksRight(k)
    BY <1>0, <2>6, NothingParked
  <2> QED BY <2>8, <2>9 DEF AllParkRight
<1> QED BY <1>1, <1>2

\* The driver thread parks what makes sense later, for a node it marks asleep.
LEMMA MoveParksRight ==
  ASSUME DeliveryInv, CurrentNode \in Sleepy, MoveMessagesToWakeUpQueue(CurrentNode)
  PROVE  AllParkRight
<1>0. PlaceInv /\ TypeOK
  BY DEF DeliveryInv, PlaceInv, Inv
<1>1. PICK n \in Sleepy : n = CurrentNode
  OBVIOUS
<1>2. currentMsg \in Msg
  BY <1>0, DriverAssumption DEF CurrentNode, TypeOK
<1>3. awake' = [awake EXCEPT ![n] = FALSE] /\ Park(n, Moved(n))
  BY <1>1 DEF MoveMessagesToWakeUpQueue
<1>4. Moved(n) \in Seq(Msg) /\ \A m \in Range(Moved(n)) : ~Perishable(m)
  BY <1>0, <1>2, MovedList
<1>5. /\ Range(pending'[n]) \subseteq Range(pending[n]) \cup Range(Moved(n))
      /\ \A k \in Sleepy : k # n => pending'[k] = pending[k]
  BY <1>0, <1>3, <1>4, ParkRange
<1>6. ~awake'[n] /\ \A k \in Sleepy : k # n => awake'[k] = awake[k]
  BY <1>0, <1>3 DEF TypeOK
<1>7. ParksRight(n)
  BY <1>4, <1>5, <1>6 DEF ParksRight, Perishable
<1>8. \A k \in Sleepy : k # n => ParksRight(k)
  BY <1>0, <1>5, <1>6, NothingParked
<1> QED BY <1>7, <1>8 DEF AllParkRight

\* A node that wakes up has nothing left.
LEMMA WakeParksRight ==
  ASSUME TypeOK, NEW n \in Sleepy, NEW s, SetAwake(n, s) PROVE AllParkRight
<1>1. pending' = [pending EXCEPT ![n] = << >>] /\ awake' = [awake EXCEPT ![n] = TRUE]
  BY DEF SetAwake
<1>2. \A k \in Sleepy : k # n => pending'[k] = pending[k] /\ awake'[k] = awake[k]
  BY <1>1 DEF TypeOK
<1>3. pending'[n] = << >> /\ Range(<< >>) = {}
  BY <1>1 DEF TypeOK, Range
<1>4. ParksRight(n)
  BY <1>3 DEF ParksRight
<1>5. \A k \in Sleepy : k # n => ParksRight(k)
  BY <1>2, NothingParked
<1> QED BY <1>4, <1>5 DEF AllParkRight

LEMMA SleepUnchanged == ASSUME TypeOK, UNCHANGED sleepVars PROVE AllParkRight
BY NothingParked DEF AllParkRight, sleepVars

LEMMA NextParksRight == DeliveryInv /\ [Next]_vars => AllParkRight
<1> SUFFICES ASSUME DeliveryInv, [Next]_vars PROVE AllParkRight
  OBVIOUS
<1>0. TypeOK
  BY DEF DeliveryInv, PlaceInv, Inv
<1>1. CASE \E m \in Msg : WatcherSends(m)
  BY <1>0, <1>1, SendParksRight DEF WatcherSends
<1>2. CASE \/ SendNext \/ WaitTimeout \/ ReceiveAck \/ ReceiveNak \/ ReceiveCan
           \/ UNCHANGED vars
  BY <1>0, <1>2, SleepUnchanged DEF SendNext, WriteNextMsg, WaitTimeout, ReceiveAck, ReceiveNak,
     ReceiveCan, vars
<1>3. ASSUME NEW f \in air, NEW answer, ReceiveCallback(f, answer) PROVE AllParkRight
  <2>1. CASE ~Unexpected(f.id) /\ answer = "noAck" /\ CurrentNode \in Sleepy
    BY <1>3, <2>1, MoveParksRight DEF ReceiveCallback
  <2>2. CASE ~(~Unexpected(f.id) /\ answer = "noAck" /\ CurrentNode \in Sleepy)
    <3>1. /\ UNCHANGED pending
          /\ awake' = [awake EXCEPT ![CurrentNode] = FALSE] \/ UNCHANGED awake
      BY <1>3, <2>2 DEF ReceiveCallback
    <3>2. \A n \in Sleepy : awake'[n] => awake[n]
      BY <1>0, <3>1 DEF TypeOK
    <3> QED BY <1>0, <3>1, <3>2, NothingParked DEF AllParkRight
  <2> QED BY <2>1, <2>2
<1>4. ASSUME NEW f \in air, ReceiveNodeInfoFailed(f) \/ ReceiveResponse(f) PROVE AllParkRight
  <2>1. \/ CurrentNode \in Sleepy /\ MoveMessagesToWakeUpQueue(CurrentNode)
        \/ UNCHANGED sleepVars
    BY <1>4 DEF ReceiveNodeInfoFailed, ReceiveResponse
  <2> QED BY <1>0, <2>1, MoveParksRight, SleepUnchanged
<1>5. ASSUME NEW n, NEW right, NEW answer, ReceiveReport(n, right, answer) PROVE AllParkRight
  <2>1. UNCHANGED awake
    BY <1>5 DEF ReceiveReport
  <2>2. CASE answer = NoMsg
    BY <1>0, <1>5, <2>1, <2>2, SleepUnchanged DEF ReceiveReport, sleepVars
  <2>3. CASE answer # NoMsg
    <3>1. answer \in Sendable /\ SendMsg(answer)
      BY <1>5, <2>3 DEF ReceiveReport
    <3> QED BY <1>0, <2>1, <3>1, SendParksRight
  <2> QED BY <2>2, <2>3
<1>6. ASSUME NEW n \in Sleepy, NEW right, NEW m, ReceiveWakeUpNotification(n, right, m)
      PROVE  AllParkRight
  BY <1>0, <1>6, WakeParksRight DEF ReceiveWakeUpNotification
<1>7. ASSUME NEW n, ReceiveNodeInfo(n) PROVE AllParkRight
  BY <1>0, <1>7, WakeParksRight, SleepUnchanged DEF ReceiveNodeInfo
<1>8. ASSUME NEW t \in Thread, AppNext(t) PROVE AllParkRight
  <2>1. UNCHANGED sleepVars \/ EndSend(t)
    BY <1>8 DEF AppNext, BeginSend, TestAwake
  <2> QED BY <1>0, <2>1, EndSendParksRight, SleepUnchanged
<1> QED BY <1>1, <1>2, <1>3, <1>4, <1>5, <1>6, <1>7, <1>8 DEF Next, ReceiveNext

\* Whatever the threads do, a message is left waiting for a node that is awake only by a
\* thread that tested IsAwake before the node woke up: WakeUp::SetAwake leaves nothing, and
\* neither SendMsg on the driver thread nor MoveMessagesToWakeUpQueue strands a message.
THEOREM OnlyRaceStrandsCorrect == Spec => OnlyRaceStrands
<1>1. Spec => []DeliveryInv
  BY InitDelivers, NextDelivers, PTL DEF Spec, Delivers
<1>2. DeliveryInv /\ [Next]_vars
        => [\A n \in Sleepy : awake'[n] => \A m \in Range(pending'[n]) :
              \/ awake[n] /\ m \in Range(pending[n])
              \/ \E t \in Thread : call[t] = [step |-> "park", msg |-> m]]_vars
  BY NextParksRight DEF AllParkRight, ParksRight
<1> QED BY <1>1, <1>2, PTL DEF Spec, OnlyRaceStrands

\* When a node falls asleep with messages in eight queues and in the transaction, no command
\* to sleep and no probe is kept for its wake-up; a probe gets there only from its sender.
THEOREM SleepCommandsDroppedCorrect == Spec => SleepCommandsDropped
<1>1. Spec => []DeliveryInv
  BY InitDelivers, NextDelivers, PTL DEF Spec, Delivers
<1>2. DeliveryInv /\ [Next]_vars
        => [\A n \in Sleepy : \A m \in Range(pending'[n]) \ Range(pending[n]) :
              Kind[m] \in {"noOp", "noMoreInfo"} =>
                /\ Kind[m] = "noOp"
                /\ m \in fresh \/ \E t \in Thread : call[t].msg = m]_vars
  BY NextParksRight DEF AllParkRight, ParksRight
<1> QED BY <1>1, <1>2, PTL DEF Spec, SleepCommandsDropped
-----------------------------------------------------------------------------
(* No message is deleted without a reason. *)

\* On top of DeliveryInv: the message of the open transaction has been transmitted, and
\* every message may be tried once.
TriedInv ==
  /\ currentMsg # NoMsg => sendAttempts[currentMsg] > 0
  /\ \A m \in Msg : maxSendAttempts[m] > 0

NoneLost == \A m \in deleted' \ deleted : Justified(m)

\* What a step has to keep: the tries of the current message, and the limits.
LEMMA TriesUnchanged ==
  ASSUME DeliveryInv, TriedInv, UNCHANGED maxSendAttempts,
         currentMsg' = NoMsg \/ (currentMsg' = currentMsg
                                   /\ (currentMsg # NoMsg => sendAttempts'[currentMsg] = sendAttempts[currentMsg]))
  PROVE  TriedInv'
BY DEF TriedInv

\* The end of the transaction deletes a message that was transmitted.
LEMMA CurrentJustified ==
  ASSUME TriedInv, NEW m, m = currentMsg, m # NoMsg PROVE Justified(m)
BY DEF TriedInv, Justified

LEMMA CompletedCurrent == ASSUME NEW byte, NEW reply PROVE Completed(byte, reply) \subseteq {currentMsg}
BY DEF Completed

LEMMA GenericCurrent ==
  ASSUME NEW byte, NEW reply, GenericCallback(byte, reply) PROVE currentMsg' \in {currentMsg, NoMsg}
BY GenericCompletes DEF Completes

\* A message that is replaced on a list leaves an equal one there.
LEMMA SupersededJustified ==
  ASSUME TypeOK, PlaceInv', NEW n \in Sleepy, NEW s \in Seq(Msg), Park(n, s),
         NEW m \in Superseded(n, s)
  PROVE  Justified(m)
<1> DEFINE all == pending[n] \o s
           new == Newest(all, Content)
<1>1. pending[n] \in Seq(Msg)
  BY DEF TypeOK
<1>2. all \in Seq(Msg)
  BY <1>1
<1>3. pending'[n] = Keep(all, new)
  BY DEF Park, QueueAll, TypeOK
<1>4. Superseded(n, s) = Range(all) \ new
  BY DEF Superseded
<1> HIDE DEF all
<1>5. new \subseteq Range(all) /\ Range(all) \subseteq Msg
  BY <1>2, ListElements DEF Newest, Range
<1>6. Range(pending'[n]) = new
  <2> HIDE DEF new
  <2>1. Range(Keep(all, new)) = Range(all) \cap new
    BY <1>2, KeepList
  <2> QED BY <1>3, <1>5, <2>1
<1>7. PICK k \in new : Content[k] = Content[m]
  BY <1>2, <1>4, NewestCovers
<1>8. k \in Msg /\ k # m /\ At(k, "pending", n)'
  BY <1>4, <1>5, <1>6, <1>7 DEF At
<1>9. k \notin fresh' /\ k \notin deleted'
  <2>1. PICK kind, x : Only(k, kind, x)'
    BY <1>8 DEF PlaceInv
  <2>2. ~At(k, "fresh", 0)' /\ ~At(k, "deleted", 0)'
    BY <1>8, <2>1 DEF Only
  <2> QED BY <2>2 DEF At
<1> QED BY <1>7, <1>8, <1>9 DEF Justified

\* SendMsg on the driver thread.
LEMMA SendLoses ==
  ASSUME DeliveryInv, DeliveryInv', TriedInv, NEW m \in fresh, SendMsg(m), NEW done,
         done \subseteq {currentMsg}, Delete(done \cup SupersededBy(m)),
         currentMsg' \in {currentMsg, NoMsg}, UNCHANGED maxSendAttempts
  PROVE  TriedInv' /\ NoneLost
<1>0. PlaceInv /\ TypeOK /\ PlaceInv' /\ m \in Msg /\ m # currentMsg
  BY FreshOnly DEF DeliveryInv, PlaceInv, Inv
<1>1. currentMsg # NoMsg => sendAttempts'[currentMsg] = sendAttempts[currentMsg]
  <2>1. CASE Asleep(Target[m])
    <3>1. Range(<< m >>) = {m}
      BY <1>0, OneItem
    <3>2. \A x \in Msg : x # m => sendAttempts'[x] = sendAttempts[x]
      BY <2>1, <3>1 DEF SendMsg, Park
    <3> QED BY <1>0, <3>2 DEF TypeOK
  <2>2. CASE ~Asleep(Target[m])
    BY <2>2 DEF SendMsg
  <2> QED BY <2>1, <2>2
<1>2. TriedInv'
  BY <1>1, TriesUnchanged
<1>3. ASSUME NEW x \in deleted' \ deleted PROVE Justified(x)
  <2>1. x # NoMsg /\ x \in done \cup SupersededBy(m)
    BY <1>3 DEF Delete
  <2>2. CASE x \in done
    BY <2>1, <2>2, CurrentJustified
  <2>3. CASE x \in SupersededBy(m)
    <3>1. PICK n \in Sleepy : n = Target[m]
      BY <2>3 DEF SupersededBy, Asleep
    <3>2. Asleep(Target[m]) /\ x \in Superseded(n, << m >>) /\ Park(n, << m >>)
      BY <2>3, <3>1 DEF SupersededBy, SendMsg
    <3>3. << m >> \in Seq(Msg)
      BY <1>0, OneItem
    <3> QED BY <1>0, <3>2, <3>3, SupersededJustified
  <2> QED BY <2>1, <2>2, <2>3
<1> QED BY <1>2, <1>3 DEF NoneLost

\* A step that deletes the current message or nothing, and leaves the tries alone.
LEMMA EndLoses ==
  ASSUME DeliveryInv, TriedInv, NEW done, done \subseteq {currentMsg}, Delete(done),
         currentMsg' \in {currentMsg, NoMsg}, UNCHANGED tryVars
  PROVE  TriedInv' /\ NoneLost
<1>1. TriedInv'
  BY TriesUnchanged DEF tryVars
<1>2. ASSUME NEW x \in deleted' \ deleted PROVE Justified(x)
  BY <1>2, CurrentJustified DEF Delete
<1> QED BY <1>1, <1>2 DEF NoneLost

\* The end of ProcessMsg.
LEMMA ProcessedLoses ==
  ASSUME DeliveryInv, TriedInv, NEW byte, NEW reply, GenericCallback(byte, reply),
         Delete(Completed(byte, reply)), UNCHANGED tryVars
  PROVE  TriedInv' /\ NoneLost
BY CompletedCurrent, GenericCurrent, EndLoses

LEMMA EndSendLoses ==
  ASSUME DeliveryInv, DeliveryInv', TriedInv, NEW t \in Thread, EndSend(t)
  PROVE  TriedInv' /\ NoneLost
<1>0. PlaceInv /\ TypeOK /\ PlaceInv' /\ ParksForSleepy
  BY DEF DeliveryInv, PlaceInv, Inv
<1>1. UNCHANGED << currentMsg, maxSendAttempts >> /\ call[t].step \in {"park", "push"}
  BY DEF EndSend, transactionVars
<1>2. CASE call[t].step = "push"
  <2>1. UNCHANGED << sendAttempts, deleted >>
    BY <1>2 DEF EndSend
  <2> QED BY <1>1, <2>1, NothingEnds, EndLoses DEF tryVars
<1>3. CASE call[t].step = "park"
  <2>0. call[t].msg \in Msg
    BY <1>0, <1>3 DEF TypeOK, Calls, NoCall
  <2>1. PICK m \in Msg : m = call[t].msg
    BY <2>0
  <2>2. PICK n \in Sleepy : n = Target[m]
    BY <1>0, <1>3, <2>1 DEF ParksForSleepy
  <2>3. Park(n, << m >>) /\ Delete(Superseded(n, << m >>))
    BY <1>3, <2>1, <2>2 DEF EndSend
  <2>4. << m >> \in Seq(Msg) /\ Range(<< m >>) = {m} /\ m # currentMsg
    BY <1>0, <2>1, OneItem, CallOnly
  <2>5. currentMsg # NoMsg => sendAttempts'[currentMsg] = sendAttempts[currentMsg]
    <3>1. \A x \in Msg : x # m => sendAttempts'[x] = sendAttempts[x]
      BY <2>3, <2>4 DEF Park
    <3> QED BY <1>0, <2>4, <3>1 DEF TypeOK
  <2>6. TriedInv'
    BY <1>1, <2>5, TriesUnchanged
  <2>7. ASSUME NEW x \in deleted' \ deleted PROVE Justified(x)
    <3>1. x \in Superseded(n, << m >>)
      BY <2>3, <2>7 DEF Delete
    <3> QED BY <1>0, <2>3, <2>4, <3>1, SupersededJustified
  <2> QED BY <2>6, <2>7 DEF NoneLost
<1> QED BY <1>1, <1>2, <1>3

\* WriteMsg gives a message up only after its tries, or because its node is dead.
LEMMA WriteLoses ==
  ASSUME DeliveryInv, TriedInv, NEW m \in Msg, NEW limit \in Nat \ {0}, NEW o,
         WriteMsg(m, limit, o), \A x \in Msg : maxSendAttempts'[x] > 0
  PROVE  TriedInv' /\ NoneLost
<1>0. TypeOK /\ sendAttempts[m] \in Nat
  BY DEF DeliveryInv, PlaceInv, Inv, TypeOK
<1>1. CASE sendAttempts[m] >= limit \/ NodeIsDead(m)
  <2>1. currentMsg' = NoMsg /\ Delete({m})
    BY <1>1 DEF WriteMsg, CloseTransaction
  <2>2. TriedInv'
    BY <2>1 DEF TriedInv
  <2>3. Justified(m)
    BY <1>0, <1>1 DEF Justified
  <2>4. deleted' \ deleted \subseteq {m}
    BY <2>1 DEF Delete
  <2> QED BY <2>2, <2>3, <2>4 DEF NoneLost
<1>2. CASE ~(sendAttempts[m] >= limit \/ NodeIsDead(m))
  <2>1. Transmit(m, o)
    BY <1>2 DEF WriteMsg
  <2>2. currentMsg' = m /\ sendAttempts' = [sendAttempts EXCEPT ![m] = @ + 1] /\ deleted' = deleted
    BY <2>1 DEF Transmit
  <2>3. sendAttempts'[m] > 0
    BY <1>0, <2>2 DEF TypeOK
  <2> QED BY <2>2, <2>3 DEF TriedInv, NoneLost
<1> QED BY <1>1, <1>2

LEMMA WriteNextMsgLoses ==
  ASSUME DeliveryInv, TriedInv, NEW q \in Queues, WriteNextMsg(q) PROVE TriedInv' /\ NoneLost
<1>0. PlaceInv /\ TypeOK /\ QueueEventsMatch
  BY DEF DeliveryInv, PlaceInv, Inv
<1>1. msgQueue[q] # << >> /\ msgQueue[q] \in Seq(Msg) /\ UNCHANGED maxSendAttempts
  BY <1>0 DEF WriteNextMsg, QueueEventsMatch, TypeOK
<1>2. PICK m \in Msg : m = Head(msgQueue[q])
  BY <1>1, TailList
<1>3. WriteMsg(m, maxSendAttempts[m], owed)
  BY <1>2 DEF WriteNextMsg
<1>4. maxSendAttempts[m] \in Nat \ {0}
  BY <1>0 DEF TypeOK, TriedInv
<1> QED BY <1>1, <1>3, <1>4, WriteLoses DEF TriedInv

LEMMA ResendLoses ==
  ASSUME DeliveryInv, TriedInv, NEW limit, currentMsg # NoMsg => limit \in Nat \ {0}, NEW o,
         Resend(limit, o), \A x \in Msg : maxSendAttempts'[x] > 0
  PROVE  TriedInv' /\ NoneLost
<1>1. CASE currentMsg = NoMsg
  BY <1>1 DEF Resend, CloseTransaction, TriedInv, NoneLost
<1>2. CASE currentMsg # NoMsg
  <2>1. PICK m \in Msg : m = currentMsg
    BY <1>2 DEF DeliveryInv, PlaceInv, Inv, TypeOK
  <2>2. WriteMsg(m, limit, o)
    BY <1>2, <2>1 DEF Resend
  <2> QED BY <1>2, <2>2, WriteLoses
<1> QED BY <1>1, <1>2

LEMMA ResendsLose ==
  ASSUME DeliveryInv, TriedInv, WaitTimeout \/ ReceiveNak \/ ReceiveCan
  PROVE  TriedInv' /\ NoneLost
<1>0. TypeOK /\ \A x \in Msg : maxSendAttempts[x] \in Nat \ {0}
  BY DEF DeliveryInv, PlaceInv, Inv, TypeOK, TriedInv
<1>1. currentMsg # NoMsg => currentMsg \in Msg
  BY <1>0 DEF TypeOK
<1>2. CASE WaitTimeout \/ ReceiveNak
  <2>1. PICK o : Resend(maxSendAttempts[currentMsg], o) /\ UNCHANGED maxSendAttempts
    BY <1>2 DEF WaitTimeout, ReceiveNak
  <2> QED BY <1>0, <1>1, <2>1, ResendLoses
<1>3. CASE ReceiveCan
  <2>1. PICK limit : /\ limit = IF maxSendAttempts[currentMsg] + 1 < MaxMaxTries
                                THEN maxSendAttempts[currentMsg] + 1 ELSE maxSendAttempts[currentMsg]
                     /\ Resend(limit, owed - 1)
                     /\ maxSendAttempts' = IF currentMsg = NoMsg THEN maxSendAttempts
                                           ELSE [maxSendAttempts EXCEPT ![currentMsg] = limit]
    BY <1>3 DEF ReceiveCan
  <2>2. currentMsg # NoMsg => limit \in Nat \ {0}
    BY <1>0, <1>1, <2>1
  <2>3. \A x \in Msg : maxSendAttempts'[x] > 0
    BY <1>0, <1>1, <2>1, <2>2 DEF TypeOK
  <2> QED BY <2>1, <2>2, <2>3, ResendLoses
<1> QED BY <1>2, <1>3

LEMMA ReceiveAckLoses ==
  ASSUME DeliveryInv, TriedInv, ReceiveAck PROVE TriedInv' /\ NoneLost
<1>1. UNCHANGED tryVars
  BY DEF ReceiveAck
<1>2. CASE RemoveCurrentMsg
  <2>1. currentMsg' = NoMsg /\ Delete({currentMsg})
    BY <1>2 DEF RemoveCurrentMsg, CloseTransaction
  <2> QED BY <1>1, <2>1, EndLoses
<1>3. CASE UNCHANGED << currentMsg, deleted >>
  <2>1. currentMsg' = currentMsg /\ Delete({})
    BY <1>3, NothingEnds
  <2> QED BY <1>1, <2>1, EndLoses
<1> QED BY <1>2, <1>3 DEF ReceiveAck

\* The node has gone to sleep: commands that would keep it there or ask whether it is there
\* make no sense later.
LEMMA MoveLoses ==
  ASSUME DeliveryInv, DeliveryInv', TriedInv, CurrentNode \in Sleepy,
         MoveMessagesToWakeUpQueue(CurrentNode), UNCHANGED maxSendAttempts
  PROVE  TriedInv' /\ NoneLost
<1>0. PlaceInv /\ TypeOK /\ PlaceInv'
  BY DEF DeliveryInv, PlaceInv, Inv
<1>1. PICK n \in Sleepy : n = CurrentNode
  OBVIOUS
<1>2. currentMsg \in Msg
  BY <1>0, DriverAssumption DEF CurrentNode, TypeOK
<1>3. /\ currentMsg' = NoMsg /\ awake' = [awake EXCEPT ![n] = FALSE] /\ Park(n, Moved(n))
      /\ Delete(Dropped(n) \cup Superseded(n, Moved(n)))
  BY <1>1 DEF MoveMessagesToWakeUpQueue, CloseTransaction
<1>4. Moved(n) \in Seq(Msg)
  BY <1>0, <1>2, MovedList
<1>5. TriedInv'
  BY <1>3, TriesUnchanged
<1>6. ASSUME NEW x \in deleted' \ deleted PROVE Justified(x)
  <2>1. x \in Dropped(n) \cup Superseded(n, Moved(n))
    BY <1>3, <1>6 DEF Delete
  <2>2. CASE x \in Dropped(n)
    <3>1. Target[x] = n /\ Perishable(x)
      BY <2>2 DEF Dropped, ForNode
    <3>2. ~awake'[n]
      BY <1>0, <1>3 DEF TypeOK
    <3> QED BY <3>1, <3>2 DEF Justified
  <2>3. CASE x \in Superseded(n, Moved(n))
    BY <1>0, <1>3, <1>4, <2>3, SupersededJustified
  <2> QED BY <2>1, <2>2, <2>3
<1> QED BY <1>5, <1>6 DEF NoneLost

LEMMA InitTried == Init => TriedInv
BY DriverAssumption DEF Init, TriedInv

LEMMA NextLoses == DeliveryInv /\ DeliveryInv' /\ TriedInv /\ [Next]_vars => TriedInv' /\ NoneLost
<1> SUFFICES ASSUME DeliveryInv, DeliveryInv', TriedInv, [Next]_vars PROVE TriedInv' /\ NoneLost
  OBVIOUS
<1>1. ASSUME NEW m \in Msg, WatcherSends(m) PROVE TriedInv' /\ NoneLost
  <2>1. PICK done : done = {}
    OBVIOUS
  <2>2. /\ m \in fresh /\ SendMsg(m) /\ Delete(done \cup SupersededBy(m))
        /\ UNCHANGED << currentMsg, maxSendAttempts >>
    BY <1>1, <2>1 DEF WatcherSends, Sendable, transactionVars
  <2> QED BY <2>1, <2>2, SendLoses
<1>2. ASSUME NEW t \in Thread, AppNext(t) PROVE TriedInv' /\ NoneLost
  <2>1. CASE EndSend(t)
    BY <2>1, EndSendLoses
  <2>2. CASE (\E m \in Msg : BeginSend(t, m)) \/ TestAwake(t)
    <3>1. UNCHANGED << currentMsg, deleted, tryVars >>
      BY <2>2 DEF BeginSend, TestAwake, transactionVars
    <3> QED BY <3>1, NothingEnds, EndLoses
  <2> QED BY <1>2, <2>1, <2>2 DEF AppNext
<1>3. CASE SendNext
  BY <1>3, WriteNextMsgLoses DEF SendNext
<1>4. CASE WaitTimeout \/ ReceiveNak \/ ReceiveCan
  BY <1>4, ResendsLose
<1>5. CASE ReceiveAck
  BY <1>5, ReceiveAckLoses
<1>6. ASSUME NEW f \in air, NEW answer, ReceiveCallback(f, answer) PROVE TriedInv' /\ NoneLost
  <2>0. UNCHANGED maxSendAttempts
    BY <1>6 DEF ReceiveCallback
  <2>1. CASE ~Unexpected(f.id) /\ answer = "noAck" /\ CurrentNode \in Sleepy
    BY <1>6, <2>0, <2>1, MoveLoses DEF ReceiveCallback
  <2>2. CASE ~(~Unexpected(f.id) /\ answer = "noAck" /\ CurrentNode \in Sleepy)
    <3>1. /\ GenericCallback(f.id, "sendData") /\ Delete(Completed(f.id, "sendData"))
          /\ UNCHANGED sendAttempts
      BY <1>6, <2>2 DEF ReceiveCallback
    <3> QED BY <2>0, <3>1, ProcessedLoses DEF tryVars
  <2> QED BY <2>1, <2>2
<1>7. ASSUME NEW f \in air, ReceiveNodeInfoFailed(f) PROVE TriedInv' /\ NoneLost
  <2>0. UNCHANGED maxSendAttempts
    BY <1>7 DEF ReceiveNodeInfoFailed
  <2>1. CASE CurrentNode \in Sleepy
    BY <1>7, <2>0, <2>1, MoveLoses DEF ReceiveNodeInfoFailed
  <2>2. CASE CurrentNode \notin Sleepy
    <3>1. /\ GenericCallback(UpdateNodeInfoFailed, "update")
          /\ Delete(Completed(UpdateNodeInfoFailed, "update")) /\ UNCHANGED sendAttempts
      BY <1>7, <2>2 DEF ReceiveNodeInfoFailed
    <3> QED BY <2>0, <3>1, ProcessedLoses DEF tryVars
  <2> QED BY <2>1, <2>2
<1>8. ASSUME NEW f \in air, ReceiveResponse(f) PROVE TriedInv' /\ NoneLost
  BY <1>8, ProcessedLoses DEF ReceiveResponse
<1>9. ASSUME NEW n, NEW right, NEW answer \in Msg \cup {NoMsg}, ReceiveReport(n, right, answer)
      PROVE  TriedInv' /\ NoneLost
  <2>1. PICK reply : reply = ReportReply(n, right)
    OBVIOUS
  <2>2. GenericCallback(0, reply) /\ UNCHANGED maxSendAttempts
    BY <1>9, <2>1 DEF ReceiveReport
  <2>3. CASE answer = NoMsg
    <3>1. Delete(Completed(0, reply)) /\ UNCHANGED tryVars
      BY <1>9, <2>1, <2>2, <2>3 DEF ReceiveReport, tryVars
    <3> QED BY <2>2, <3>1, ProcessedLoses
  <2>4. CASE answer # NoMsg
    <3>1. answer \in fresh /\ SendMsg(answer) /\ Delete(Completed(0, reply) \cup SupersededBy(answer))
      BY <1>9, <2>1, <2>4 DEF ReceiveReport, Sendable
    <3> QED BY <2>2, <3>1, CompletedCurrent, GenericCurrent, SendLoses
  <2> QED BY <2>3, <2>4
<1>10. ASSUME NEW n, NEW right, NEW m, ReceiveWakeUpNotification(n, right, m)
       PROVE  TriedInv' /\ NoneLost
  BY <1>10, ProcessedLoses DEF ReceiveWakeUpNotification
<1>11. ASSUME NEW n, ReceiveNodeInfo(n) PROVE TriedInv' /\ NoneLost
  BY <1>11, ProcessedLoses DEF ReceiveNodeInfo
<1>12. CASE UNCHANGED vars
  BY <1>12 DEF vars, transactionVars, tryVars, TriedInv, NoneLost
<1> QED BY <1>1, <1>2, <1>3, <1>4, <1>5, <1>6, <1>7, <1>8, <1>9, <1>10, <1>11, <1>12
  DEF Next, ReceiveNext

\* No message is deleted silently, whatever the threads, the network and the nodes do: it was
\* transmitted, or an equal one is kept in its place (WakeUp::QueueMsg), or its node is dead,
\* or asleep and the message makes no sense later (WriteMsg, MoveMessagesToWakeUpQueue).
THEOREM NoSilentLossCorrect == Spec => NoSilentLoss
<1>1. Spec => []DeliveryInv
  BY InitDelivers, NextDelivers, PTL DEF Spec, Delivers
<1>2. Spec => [](DeliveryInv /\ TriedInv)
  BY <1>1, InitTried, NextLoses, PTL DEF Spec
<1>3. DeliveryInv /\ DeliveryInv' /\ TriedInv /\ [Next]_vars
        => [\A m \in deleted' \ deleted : Justified(m)]_vars
  BY NextLoses DEF NoneLost
<1> QED BY <1>1, <1>2, <1>3, PTL DEF Spec, NoSilentLoss
=============================================================================
