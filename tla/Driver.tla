------------------------------- MODULE Driver -------------------------------
(***************************************************************************)
(* The message engine of one OpenZWave Driver: the send queues, the one    *)
(* transaction that is open with the controller, retransmission, callback  *)
(* ids, and the queue every sleeping node keeps until it wakes up.         *)
(*                                                                         *)
(* The driver thread runs DriverThreadProc: it waits for serial data, for  *)
(* a queue event or for a timeout and runs one handler to its end.  The    *)
(* application, the poll thread and watcher callbacks call SendMsg.        *)
(*                                                                         *)
(* Scope: nodes whose interview is complete, no controller command and no  *)
(* Security encapsulation in progress.                                     *)
(***************************************************************************)
EXTENDS SendQueue, Integers, FiniteSets

CONSTANTS
  Node,           \* the nodes of the network
  Sleepy,         \* those that are not listening and have the WakeUp class
  Thread,         \* threads other than the driver's that call SendMsg
  Msg,            \* the message objects
  NoMsg,          \* the NULL message
  Controller,     \* target of a message for the controller itself (0xff)
  Kind,           \* [Msg -> Kinds]
  Target,         \* [Msg -> Node \cup {Controller}]
  Content,        \* the bytes of a message without callback id and checksum
  QueueOf,        \* the queue a message is sent with
  StartId,        \* s_nextCallbackId when the behaviour begins
  MaxTries,       \* MAX_TRIES
  MaxMaxTries,    \* MAX_MAX_TRIES
  MaxOwed         \* bound: ACK, NAK and CAN bytes on their way from the controller

Kinds == {"get", "set", "noOp", "noMoreInfo", "nodeInfo", "local", "plain"}
Replies == {"none", "report", "sendData", "update", "local"}

Queues == 0 .. 7
WakeUpQueue == 4

FirstCallbackId == 10
CallbackIds == 0 .. 255

\* Bytes that begin an APPLICATION_UPDATE frame, where a callback id could be.
UpdateNodeInfoFailed == 129
UpdateNodeInfoReceived == 132

DeadAfter == 3

ASSUME DriverAssumption ==
  /\ Sleepy \subseteq Node
  /\ Controller \notin Node
  /\ NoMsg \notin Msg
  /\ Kind \in [Msg -> Kinds]
  /\ Target \in [Msg -> Node \cup {Controller}]
  /\ \A m \in Msg : Kind[m] \in {"local", "plain"} <=> Target[m] = Controller
  /\ \A m \in Msg : Kind[m] = "noMoreInfo" => Target[m] \in Sleepy
  /\ DOMAIN Content = Msg
  \* The bytes hold the node id, the command class and the command.
  /\ \A m, k \in Msg : Content[m] = Content[k] =>
       /\ Target[m] = Target[k]
       /\ Kind[m] \in {"noOp", "noMoreInfo"} <=> Kind[k] \in {"noOp", "noMoreInfo"}
  /\ QueueOf \in [Msg -> Queues]
  /\ StartId \in FirstCallbackId .. 255
  /\ MaxTries \in Nat \ {0}
  /\ MaxMaxTries \in Nat /\ MaxTries < MaxMaxTries
  /\ MaxOwed \in Nat \ {0}

VARIABLES
  msgQueue,            \* m_msgQueue: a list of messages per queue
  queueEvent,          \* m_queueEvent: which queues are signalled
  currentMsg,          \* m_currentMsg
  expectedCallbackId,  \* m_expectedCallbackId, 0 when none
  expectedReply,       \* m_expectedReply, "none" when 0
  waitingForAck,       \* m_waitingForAck
  callbackId,          \* m_callbackId of each message
  sendAttempts,        \* m_sendAttempts of each message
  maxSendAttempts,     \* m_maxSendAttempts of each message
  nextCallbackId,      \* Msg::s_nextCallbackId
  fresh,               \* messages not constructed yet
  deleted,             \* messages deleted
  awake,               \* WakeUp::m_awake of each sleepy node
  pending,             \* WakeUp::m_pendingQueue of each sleepy node
  nodeAlive,           \* Node::m_nodeAlive
  errors,              \* Node::m_errors, counted up to DeadAfter
  call,                \* where each thread is inside SendMsg
  air,                 \* frames the controller may still deliver
  owed                 \* ACK, NAK and CAN bytes the controller may still deliver

queueVars == << msgQueue, queueEvent >>
transactionVars == << currentMsg, expectedCallbackId, expectedReply, waitingForAck >>
idVars == << callbackId, nextCallbackId >>
tryVars == << sendAttempts, maxSendAttempts >>
sleepVars == << awake, pending >>
healthVars == << nodeAlive, errors >>
wireVars == << air, owed >>
vars == << queueVars, transactionVars, idVars, tryVars, fresh, deleted,
           sleepVars, healthVars, call, wireVars >>

NoCall == [step |-> "none", msg |-> NoMsg]
Calls == [step : {"finalized", "park", "push"}, msg : Msg] \cup {NoCall}
Frames == [id : CallbackIds, msg : Msg, latest : BOOLEAN]
Answers == {"ok", "noAck", "fail"}

HasCallback(m) == Kind[m] \in {"get", "set", "noOp", "noMoreInfo"}

ReplyTo(m) == [get |-> "report", set |-> "sendData", noOp |-> "sendData",
               noMoreInfo |-> "sendData", nodeInfo |-> "update",
               local |-> "local", plain |-> "none"][Kind[m]]

\* Mutant: the test for the end of the wake-up session is forgotten.
PerishableNoOp(m) == Kind[m] = "noOp"

\* Messages that are dropped, not kept, when their node goes to sleep.
Perishable(m) == Kind[m] \in {"noOp", "noMoreInfo"}

\* Mutant: IsAwake is not asked.
AsleepAlways(n) == n \in Sleepy

Asleep(n) == n \in Sleepy /\ ~awake[n]

\* What DriverThreadProc tests before it looks at the send queues.
Busy == waitingForAck \/ expectedCallbackId # 0 \/ expectedReply # "none"

TypeOK ==
  /\ msgQueue \in [Queues -> Seq(Msg)]
  /\ queueEvent \in [Queues -> BOOLEAN]
  /\ currentMsg \in Msg \cup {NoMsg}
  /\ expectedCallbackId \in CallbackIds
  /\ expectedReply \in Replies
  /\ waitingForAck \in BOOLEAN
  /\ callbackId \in [Msg -> CallbackIds]
  /\ sendAttempts \in [Msg -> Nat]
  /\ maxSendAttempts \in [Msg -> Nat]
  /\ nextCallbackId \in CallbackIds
  /\ fresh \in SUBSET Msg
  /\ deleted \in SUBSET Msg
  /\ awake \in [Sleepy -> BOOLEAN]
  /\ pending \in [Sleepy -> Seq(Msg)]
  /\ nodeAlive \in [Node -> BOOLEAN]
  /\ errors \in [Node -> 0 .. DeadAfter]
  /\ call \in [Thread -> Calls]
  /\ air \in SUBSET Frames
  /\ owed \in 0 .. MaxOwed

\* Every queue is empty; AssumeAwake is the option that seeds m_awake.
Init ==
  /\ msgQueue = [q \in Queues |-> << >>]
  /\ queueEvent = [q \in Queues |-> FALSE]
  /\ currentMsg = NoMsg
  /\ expectedCallbackId = 0
  /\ expectedReply = "none"
  /\ waitingForAck = FALSE
  /\ callbackId = [m \in Msg |-> 0]
  /\ sendAttempts = [m \in Msg |-> 0]
  /\ maxSendAttempts = [m \in Msg |-> MaxTries]
  /\ nextCallbackId = StartId
  /\ fresh = Msg
  /\ deleted = {}
  /\ \E assumeAwake \in BOOLEAN : awake = [n \in Sleepy |-> assumeAwake]
  /\ pending = [n \in Sleepy |-> << >>]
  /\ nodeAlive = [n \in Node |-> TRUE]
  /\ errors = [n \in Node |-> 0]
  /\ call = [t \in Thread |-> NoCall]
  /\ air = {}
  /\ owed = 0
-----------------------------------------------------------------------------
(***************************************************************************)
(* Callback ids.  The counter is a uint8: after 255 comes 0, which stands  *)
(* for "none" and is replaced by 10 when the next id is taken.             *)
(***************************************************************************)
NextId == IF nextCallbackId = 0 THEN FirstCallbackId ELSE nextCallbackId

\* Mutants: the counter does not wrap at 8 bits, or is not incremented.
AfterNoWrap(id) == id + 1
AfterSame(id) == id

After(id) == (id + 1) % 256

\* Finalize by the driver thread, which does not lose the processor in between.
FinalizeNow(m) ==
  IF HasCallback(m)
  THEN /\ callbackId' = [callbackId EXCEPT ![m] = NextId]
       /\ nextCallbackId' = After(NextId)
  ELSE UNCHANGED idVars
-----------------------------------------------------------------------------
(***************************************************************************)
(* The open transaction.                                                   *)
(***************************************************************************)
Delete(S) == deleted' = deleted \cup (S \ {NoMsg})

\* Mutant: m_expectedReply is not reset.
CloseTransactionKeepsReply ==
  /\ currentMsg' = NoMsg
  /\ expectedCallbackId' = 0
  /\ waitingForAck' = FALSE
  /\ UNCHANGED expectedReply

CloseTransaction ==
  /\ currentMsg' = NoMsg
  /\ expectedCallbackId' = 0
  /\ expectedReply' = "none"
  /\ waitingForAck' = FALSE

\* Mutant: the message is forgotten but not deleted.
RemoveCurrentMsgLeaks == CloseTransaction /\ UNCHANGED deleted

RemoveCurrentMsg == CloseTransaction /\ Delete({currentMsg})

\* The message is written to the port; the controller owes an ACK and, unless
\* the message expects nothing more, an answer to this very transmission.
Transmit(m, owedNow) ==
  LET id == IF ~HasCallback(m) THEN 0
            ELSE IF sendAttempts[m] = 0 THEN callbackId[m] ELSE NextId
      answers == IF ReplyTo(m) = "none" THEN {}
                 ELSE {[id |-> id, msg |-> m, latest |-> TRUE]}
  IN  /\ currentMsg' = m
      /\ expectedCallbackId' = id
      /\ expectedReply' = ReplyTo(m)
      /\ waitingForAck' = TRUE
      /\ sendAttempts' = [sendAttempts EXCEPT ![m] = @ + 1]
      /\ IF sendAttempts[m] = 0 THEN UNCHANGED idVars ELSE FinalizeNow(m)
      /\ air' = { [f EXCEPT !.latest = @ /\ f.msg # m] : f \in air } \cup answers
      /\ owed' = IF owedNow < MaxOwed THEN owedNow + 1 ELSE MaxOwed
      /\ UNCHANGED deleted

NodeIsDead(m) == Target[m] \in Node /\ ~nodeAlive[Target[m]] /\ Kind[m] # "noOp"

\* WriteMsg for the message m, which is or becomes the current one.
WriteMsg(m, limit, owedNow) ==
  IF sendAttempts[m] >= limit \/ NodeIsDead(m)
  THEN /\ CloseTransaction
       /\ Delete({m})
       /\ owed' = owedNow
       /\ UNCHANGED << idVars, sendAttempts, air >>
  ELSE Transmit(m, owedNow)

\* Mutant: nothing is done when the answer does not come.
ResendNothing(limit, owedNow) ==
  /\ owed' = owedNow
  /\ UNCHANGED << transactionVars, idVars, sendAttempts, air, deleted >>

\* WriteMsg when there may be no current message.
Resend(limit, owedNow) ==
  IF currentMsg = NoMsg
  THEN /\ CloseTransaction
       /\ owed' = owedNow
       /\ UNCHANGED << idVars, sendAttempts, air, deleted >>
  ELSE WriteMsg(currentMsg, limit, owedNow)
-----------------------------------------------------------------------------
(***************************************************************************)
(* SendMsg.                                                                *)
(***************************************************************************)
\* Mutant: the queue's event is not set.
PushQuietly(q, s) ==
  /\ msgQueue' = [msgQueue EXCEPT ![q] = @ \o s]
  /\ UNCHANGED queueEvent

Push(q, s) ==
  /\ msgQueue' = [msgQueue EXCEPT ![q] = @ \o s]
  /\ queueEvent' = [queueEvent EXCEPT ![q] = @ \/ s # << >>]

\* WakeUp::QueueMsg for each message of s: earlier copies are deleted.
Park(n, s) ==
  /\ pending' = [pending EXCEPT ![n] = QueueAll(@, s, Content)]
  /\ sendAttempts' = [m \in Msg |-> IF m \in Range(s) THEN 0 ELSE sendAttempts[m]]

\* Mutants: an earlier copy is erased from the list and leaked, or whatever waits
\* is deleted without a comparison.
SupersededLeaks(n, s) == {}
SupersededAll(n, s) == Range(pending[n])

Superseded(n, s) ==
  Range(pending[n] \o s) \ Newest(pending[n] \o s, Content)

\* SendMsg called on the driver thread: by a command class handling a report,
\* or by a watcher that NotifyWatchers calls.
SendMsg(m) ==
  /\ fresh' = fresh \ {m}
  /\ FinalizeNow(m)
  /\ IF Asleep(Target[m])
     THEN /\ Park(Target[m], << m >>)
          /\ UNCHANGED queueVars
     ELSE /\ Push(QueueOf[m], << m >>)
          /\ UNCHANGED << pending, sendAttempts >>

SupersededBy(m) == IF Asleep(Target[m]) THEN Superseded(Target[m], << m >>) ELSE {}

Sendable == { m \in fresh : Kind[m] # "noMoreInfo" }

WatcherSends(m) ==
  /\ m \in Sendable
  /\ SendMsg(m)
  /\ Delete(SupersededBy(m))
  /\ UNCHANGED << transactionVars, maxSendAttempts, awake, healthVars, call, wireVars >>

\* Another thread in SendMsg.  Finalize takes no lock: it reads the counter...
BeginSend(t, m) ==
  /\ call[t] = NoCall
  /\ m \in Sendable
  /\ fresh' = fresh \ {m}
  /\ callbackId' = [callbackId EXCEPT ![m] = IF HasCallback(m) THEN NextId ELSE @]
  /\ call' = [call EXCEPT ![t] = [step |-> "finalized", msg |-> m]]
  /\ UNCHANGED << queueVars, transactionVars, nextCallbackId, tryVars, deleted,
                  sleepVars, healthVars, wireVars >>

\* ... writes back what it read plus one, and SendMsg tests IsAwake.
TestAwake(t) ==
  LET m == call[t].msg
  IN  /\ call[t].step = "finalized"
      /\ nextCallbackId' = IF HasCallback(m) THEN After(callbackId[m]) ELSE nextCallbackId
      /\ call' = [call EXCEPT ![t].step = IF Asleep(Target[m]) THEN "park" ELSE "push"]
      /\ UNCHANGED << queueVars, transactionVars, callbackId, tryVars, fresh, deleted,
                      sleepVars, healthVars, wireVars >>

\* What was tested may no longer hold when the message reaches its list.
EndSend(t) ==
  LET m == call[t].msg
  IN  /\ \/ /\ call[t].step = "park"
            /\ Park(Target[m], << m >>)
            /\ Delete(Superseded(Target[m], << m >>))
            /\ UNCHANGED queueVars
         \/ /\ call[t].step = "push"
            /\ Push(QueueOf[m], << m >>)
            /\ UNCHANGED << pending, sendAttempts, deleted >>
      /\ call' = [call EXCEPT ![t] = NoCall]
      /\ UNCHANGED << transactionVars, idVars, maxSendAttempts, fresh, awake,
                      healthVars, wireVars >>
-----------------------------------------------------------------------------
(***************************************************************************)
(* The driver thread picks the first signalled queue and sends its front.  *)
(***************************************************************************)
WriteNextMsg(q) ==
  LET m == Head(msgQueue[q])
  IN  /\ ~Busy
      /\ queueEvent[q]
      /\ \A r \in Queues : r < q => ~queueEvent[r]
      /\ msgQueue' = [msgQueue EXCEPT ![q] = Tail(@)]
      /\ queueEvent' = [queueEvent EXCEPT ![q] = Tail(msgQueue[q]) # << >>]
      /\ WriteMsg(m, maxSendAttempts[m], owed)
      /\ UNCHANGED << maxSendAttempts, fresh, sleepVars, healthVars, call >>

\* Neither the ACK nor the rest of the answer came in time.
WaitTimeout ==
  /\ Busy
  /\ Resend(maxSendAttempts[currentMsg], owed)
  /\ UNCHANGED << queueVars, maxSendAttempts, fresh, sleepVars, healthVars, call >>

ReceiveNak ==
  /\ owed > 0
  /\ Resend(maxSendAttempts[currentMsg], owed - 1)
  /\ UNCHANGED << queueVars, maxSendAttempts, fresh, sleepVars, healthVars, call >>

\* A CAN grants one more attempt, up to a limit.
ReceiveCan ==
  LET limit == IF maxSendAttempts[currentMsg] + 1 < MaxMaxTries
               THEN maxSendAttempts[currentMsg] + 1 ELSE maxSendAttempts[currentMsg]
  IN  /\ owed > 0
      /\ Resend(limit, owed - 1)
      /\ maxSendAttempts' = IF currentMsg = NoMsg THEN maxSendAttempts
                            ELSE [maxSendAttempts EXCEPT ![currentMsg] = limit]
      /\ UNCHANGED << queueVars, fresh, sleepVars, healthVars, call >>

ReceiveAck ==
  /\ owed > 0
  /\ owed' = owed - 1
  /\ IF currentMsg # NoMsg /\ expectedCallbackId = 0 /\ expectedReply = "none"
     THEN RemoveCurrentMsg
     ELSE /\ waitingForAck' = FALSE
          /\ UNCHANGED << currentMsg, expectedCallbackId, expectedReply, deleted >>
  /\ UNCHANGED << queueVars, idVars, tryVars, fresh, sleepVars, healthVars, call, air >>
-----------------------------------------------------------------------------
(***************************************************************************)
(* Frames from the controller.  The end of ProcessMsg compares every frame *)
(* with what the open transaction expects: byte is what stands where a     *)
(* callback id would, reply the expected reply the frame satisfies.        *)
(***************************************************************************)
GenericCallback(byte, reply) ==
  LET id == IF expectedCallbackId = byte THEN 0 ELSE expectedCallbackId
      rest == IF reply = expectedReply THEN "none" ELSE expectedReply
  IN  IF (expectedCallbackId # 0 \/ expectedReply # "none") /\ id = 0 /\ rest = "none"
      THEN CloseTransaction
      ELSE /\ expectedCallbackId' = id
           /\ expectedReply' = rest
           /\ UNCHANGED << currentMsg, waitingForAck >>

Completed(byte, reply) ==
  IF /\ expectedCallbackId # 0 \/ expectedReply # "none"
     /\ expectedCallbackId \in {0, byte}
     /\ expectedReply \in {"none", reply}
  THEN {currentMsg} ELSE {}

\* MoveMessagesToWakeUpQueue(n, true) for the target of the current message.
AllQueues == msgQueue[0] \o msgQueue[1] \o msgQueue[2] \o msgQueue[3] \o
             msgQueue[4] \o msgQueue[5] \o msgQueue[6] \o msgQueue[7]

ForNode(n) == { m \in Msg : Target[m] = n }

Moved(n) == Keep(<< currentMsg >> \o AllQueues,
                 { m \in ForNode(n) : ~Perishable(m) })

\* Mutant: a message that is not kept is not deleted either.
DroppedLeaks(n) == {}

Dropped(n) == { m \in Range(<< currentMsg >> \o AllQueues) \cap ForNode(n) : Perishable(m) }

MoveMessagesToWakeUpQueue(n) ==
  /\ awake' = [awake EXCEPT ![n] = FALSE]
  /\ CloseTransaction
  /\ msgQueue' = [q \in Queues |-> Keep(msgQueue[q], Msg \ ForNode(n))]
  /\ queueEvent' = [q \in Queues |-> queueEvent[q] /\ msgQueue'[q] # << >>]
  /\ Park(n, Moved(n))
  /\ Delete(Dropped(n) \cup Superseded(n, Moved(n)))

CurrentNode == IF currentMsg = NoMsg THEN Controller ELSE Target[currentMsg]

CountError(n) ==
  IF n \in Node
  THEN /\ errors' = [errors EXCEPT ![n] = IF @ < DeadAfter THEN @ + 1 ELSE @]
       /\ nodeAlive' = [nodeAlive EXCEPT ![n] = @ /\ errors'[n] < DeadAfter]
  ELSE UNCHANGED healthVars

\* SetNodeAlive(true), called only for a node that is presumed dead.
Revive(n) ==
  IF n \in Node /\ ~nodeAlive[n]
  THEN /\ nodeAlive' = [nodeAlive EXCEPT ![n] = TRUE]
       /\ errors' = [errors EXCEPT ![n] = 0]
  ELSE UNCHANGED healthVars

\* HandleSendDataRequest: an id above 10 that is not the expected one is ignored.
Unexpected(id) == id > FirstCallbackId /\ id # expectedCallbackId

\* The answer to a SEND_DATA: the node acknowledged, did not, or the radio failed.
ReceiveCallback(f, answer) ==
  LET n == CurrentNode
      parks == ~Unexpected(f.id) /\ answer = "noAck" /\ n \in Sleepy
      sleeps == /\ ~Unexpected(f.id) /\ answer = "ok"
                /\ currentMsg # NoMsg /\ Kind[currentMsg] = "noMoreInfo"
  IN  /\ f \in air
      /\ HasCallback(f.msg)
      /\ air' = air \ {f}
      /\ IF parks
         THEN MoveMessagesToWakeUpQueue(n)
         ELSE /\ GenericCallback(f.id, "sendData")
              /\ Delete(Completed(f.id, "sendData"))
              /\ awake' = IF sleeps THEN [awake EXCEPT ![n] = FALSE] ELSE awake
              /\ UNCHANGED << queueVars, pending, sendAttempts >>
      /\ IF Unexpected(f.id) \/ parks THEN UNCHANGED healthVars
         ELSE IF answer = "ok" THEN Revive(n) ELSE CountError(n)
      /\ UNCHANGED << idVars, maxSendAttempts, fresh, call, owed >>

\* What a report from n satisfies: the class counts only once the callback came.
ReportReply(n, right) ==
  IF right /\ expectedCallbackId = 0 /\ CurrentNode = n THEN "report" ELSE "nothing"

HearFrom(n) ==
  /\ nodeAlive' = [nodeAlive EXCEPT ![n] = TRUE]
  /\ errors' = [errors EXCEPT ![n] = 0]

\* A report from node n, expected or not; the command class may answer it.
ReceiveReport(n, right, answer) ==
  /\ HearFrom(n)
  /\ GenericCallback(0, ReportReply(n, right))
  /\ IF answer = NoMsg
     THEN /\ Delete(Completed(0, ReportReply(n, right)))
          /\ UNCHANGED << queueVars, idVars, sendAttempts, fresh, pending >>
     ELSE /\ answer \in Sendable /\ Target[answer] = n
          /\ SendMsg(answer)
          /\ Delete(Completed(0, ReportReply(n, right)) \cup SupersededBy(answer))
  /\ UNCHANGED << maxSendAttempts, awake, call, wireVars >>

\* SetAwake(true) and SendPending.  A thread between its test of IsAwake and
\* QueueMsg holds the node mutex, which SendMsg for a pending message needs: here
\* the driver thread waits for it, SendPending.tla has the locks step by step.
SetAwake(n, extra) ==
  /\ pending[n] # << >> => \A t \in Thread : call[t].step # "park"
  /\ awake' = [awake EXCEPT ![n] = TRUE]
  /\ pending' = [pending EXCEPT ![n] = << >>]
  /\ Push(WakeUpQueue, pending[n] \o extra)

\* A wake-up notification: the pending messages are sent, and after them the
\* command that lets the node go back to sleep.
ReceiveWakeUpNotification(n, right, m) ==
  /\ m \in fresh /\ Kind[m] = "noMoreInfo" /\ Target[m] = n
  /\ HearFrom(n)
  /\ fresh' = fresh \ {m}
  /\ FinalizeNow(m)
  /\ SetAwake(n, << m >>)
  /\ GenericCallback(0, ReportReply(n, right))
  /\ Delete(Completed(0, ReportReply(n, right)))
  /\ UNCHANGED << tryVars, call, wireVars >>

\* A node information frame, requested or not, shows that the node is awake.
ReceiveNodeInfo(n) ==
  LET reply == IF CurrentNode = n THEN "update" ELSE "nothing"
  IN  /\ Revive(n)
      /\ IF n \in Sleepy THEN SetAwake(n, << >>) ELSE UNCHANGED << queueVars, sleepVars >>
      /\ GenericCallback(UpdateNodeInfoReceived, reply)
      /\ Delete(Completed(UpdateNodeInfoReceived, reply))
      /\ UNCHANGED << idVars, tryVars, fresh, call, wireVars >>

\* The controller could not get a node information frame.  The frame names no
\* node: it is taken to be about the target of the current message.
ReceiveNodeInfoFailed(f) ==
  /\ f \in air
  /\ Kind[f.msg] = "nodeInfo"
  /\ air' = air \ {f}
  /\ IF CurrentNode \in Sleepy
     THEN MoveMessagesToWakeUpQueue(CurrentNode)
     ELSE /\ GenericCallback(UpdateNodeInfoFailed, "update")
          /\ Delete(Completed(UpdateNodeInfoFailed, "update"))
          /\ UNCHANGED << queueVars, sleepVars, sendAttempts >>
  /\ UNCHANGED << idVars, maxSendAttempts, fresh, healthVars, call, owed >>

\* The controller's own answer to a message for it.
ReceiveResponse(f) ==
  /\ f \in air
  /\ Kind[f.msg] = "local"
  /\ air' = air \ {f}
  /\ GenericCallback(0, "local")
  /\ Delete(Completed(0, "local"))
  /\ UNCHANGED << queueVars, idVars, tryVars, fresh, sleepVars, healthVars, call, owed >>
-----------------------------------------------------------------------------
AppNext(t) == (\E m \in Msg : BeginSend(t, m)) \/ TestAwake(t) \/ EndSend(t)

SendNext == \E q \in Queues : WriteNextMsg(q)

ReceiveNext ==
  \/ ReceiveAck
  \/ ReceiveNak
  \/ ReceiveCan
  \/ \E f \in air :
       \/ \E answer \in Answers : ReceiveCallback(f, answer)
       \/ ReceiveNodeInfoFailed(f)
       \/ ReceiveResponse(f)
  \/ \E n \in Node, right \in BOOLEAN, answer \in Msg \cup {NoMsg} :
       ReceiveReport(n, right, answer)
  \/ \E n \in Sleepy, right \in BOOLEAN, m \in Msg : ReceiveWakeUpNotification(n, right, m)
  \/ \E n \in Node : ReceiveNodeInfo(n)

Next ==
  \/ \E t \in Thread : AppNext(t)
  \/ \E m \in Msg : WatcherSends(m)
  \/ SendNext
  \/ WaitTimeout
  \/ ReceiveNext

\* The driver thread keeps running and a timer that stays armed expires; a thread
\* inside SendMsg gets to its end.  Nothing is assumed of the network.
Fairness ==
  /\ WF_vars(SendNext)
  /\ WF_vars(WaitTimeout)
  /\ \A t \in Thread : WF_vars(TestAwake(t)) /\ WF_vars(EndSend(t))

Spec == Init /\ [][Next]_vars

FairSpec == Spec /\ Fairness
-----------------------------------------------------------------------------
(***************************************************************************)
(* Properties.                                                             *)
(***************************************************************************)

\* The driver expects something exactly while it has a current message.  If it
\* expected something without one it would serve no queue until a timeout; if it
\* had one and expected nothing, the next WriteNextMsg would leak it.
TransactionOpen == currentMsg # NoMsg <=> Busy

\* A queue is signalled exactly when it holds something (Driver.h, m_queueEvent):
\* a lost signal strands its messages, a stale one takes the front of an empty list.
QueueEventsMatch == \A q \in Queues : queueEvent[q] <=> msgQueue[q] # << >>

\* How often m is found in some lists, each position counting.
Found(lists, m) ==
  Cardinality({ p \in UNION { {k} \X DOMAIN lists[k] : k \in DOMAIN lists } : lists[p[1]][p[2]] = m })

\* The places in which m is found.
Copies(m) ==
  Found(msgQueue, m) + Found(pending, m)
  + Cardinality({ t \in Thread : call[t].msg = m })
  + (IF currentMsg = m THEN 1 ELSE 0)

\* Every message that exists is in one place - a send queue, a wake-up queue, the
\* hands of the thread sending it, or the open transaction - and a deleted one is
\* nowhere: no message is leaked, deleted twice or used after it was deleted.
OnePlace == \A m \in Msg : Copies(m) = IF m \in fresh \cup deleted THEN 0 ELSE 1

\* An answer that is still on its way and carries the id the driver waits for is
\* the answer to the transmission the driver waits for, not to an earlier attempt
\* or to another message.
AnswersCurrent ==
  \A f \in air : f.id # 0 /\ f.id = expectedCallbackId => f.msg = currentMsg /\ f.latest

\* After a step that leaves a node awake, a message waits for its next wake-up only
\* if it waited before, or if it is parked in this step by a thread that found the
\* node asleep and was overtaken by its waking up (SendMsg tests IsAwake without a
\* lock): no step of the driver thread strands a message, and no thread that found
\* the node awake does.
OnlyRaceStrands ==
  [][\A n \in Sleepy : awake'[n] => \A m \in Range(pending'[n]) :
       \/ awake[n] /\ m \in Range(pending[n])
       \/ \E t \in Thread : call[t] = [step |-> "park", msg |-> m]]_vars

\* The command that sends a node to sleep is never kept for its next wake-up, where
\* it would put the node to sleep before its messages are sent, and a probe only by
\* the thread that sends it to a node asleep: none is carried over from a queue or
\* from the transaction when the node falls asleep.
SleepCommandsDropped ==
  [][\A n \in Sleepy : \A m \in Range(pending'[n]) \ Range(pending[n]) :
       Kind[m] \in {"noOp", "noMoreInfo"} =>
         /\ Kind[m] = "noOp"
         /\ m \in fresh \/ \E t \in Thread : call[t].msg = m]_vars

\* A message is deleted only after it was transmitted, or when a copy with the same
\* content takes its place, or because its node is dead or has gone to sleep and
\* the message makes no sense later.
Justified(m) ==
  \/ sendAttempts[m] > 0
  \/ \E k \in Msg \ (fresh' \cup deleted') : k # m /\ Content[k] = Content[m]
  \/ NodeIsDead(m)
  \/ Perishable(m) /\ ~awake'[Target[m]]

NoSilentLoss == [][\A m \in deleted' \ deleted : Justified(m)]_vars

\* Every transaction comes to an end, whatever the controller does or does not send.
TransactionEnds == Busy ~> ~Busy

\* Every message handed to SendMsg is eventually answered for and deleted.
MessagesSettle == \A m \in Msg : m \notin fresh ~> m \in deleted
=============================================================================
