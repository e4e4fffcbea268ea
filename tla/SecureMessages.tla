--------------------------- MODULE SecureMessages ---------------------------
(***************************************************************************)
(* Messages to nodes with the Security class.  In the place of an          *)
(* encrypted message a request for a nonce goes out; when the nonce comes  *)
(* the message is encrypted with it and sent.  A node that has something   *)
(* to report asks for a nonce in turn, and the driver keeps that report of *)
(* a nonce in m_nonceReportSent until the encrypted report is there.       *)
(*                                                                         *)
(* The transaction is that of Driver.tla, which has late answers, dead     *)
(* nodes, CAN and the other queues; here are one queue and the exchange of *)
(* nonces.  Ciphers are not modelled: a report can be read when the nonce  *)
(* it was made with is still among the last of its node.                   *)
(***************************************************************************)
EXTENDS Integers, FiniteSets, SequencesExt, SendQueue

CONSTANTS
  Node, Msg,
  NoNode, NoMsg,
  Target,         \* [Msg -> Node]
  Encrypted,      \* the messages to be encrypted
  Get,            \* those answered by a report; the others are just acknowledged
  Sleepy,         \* the nodes that sleep
  MaxTries,       \* MAX_TRIES
  Slots,          \* how many nonces a node's table has: 8 in the code
  MaxOwed,        \* bound: ACK and NAK bytes on their way from the controller
  News, Wakes,    \* bounds: reports of the nodes' own accord, and wake-ups
  Overlap,        \* whether these reports, and nodes that fall asleep, meet other messages
  Late            \* whether frames come after the message they belong to is gone

ASSUME SecureAssumption ==
  /\ Target \in [Msg -> Node] /\ Encrypted \subseteq Msg /\ Get \subseteq Msg
  /\ Sleepy \subseteq Node /\ NoNode \notin Node /\ NoMsg \notin Msg
  /\ MaxTries \in Nat \ {0} /\ Slots \in Nat \ {0} /\ MaxOwed \in Nat \ {0}
  /\ News \in Nat /\ Wakes \in Nat /\ Overlap \in BOOLEAN /\ Late \in BOOLEAN

VARIABLES
  fresh, queue, parked, deleted,  \* messages not sent yet, in the send queue, in a wake-up queue, deleted
  awake,
  currentMsg, expectedCallbackId, expectedReply, waitingForAck,
  sendAttempts,
  callbackId,             \* of each message, counted by how often it was changed
  nonce,                  \* m_nonce of each message, 0 when it has none
  nonceReportSent,        \* the node a nonce was sent to
  nonceReportSentAttempt,
  nonces,                 \* the nonces the nodes gave out, and how often each was used
  wants,                  \* what each node reports: on which message, NoMsg for news
  air,                    \* frames on their way to the driver; two that are equal count as one
  owed,                   \* ACK and NAK bytes on their way to the driver
  sent,                   \* the messages that went out themselves
  crashed,                \* the driver used a NULL message
  news, wakes             \* counters for the bounds

placeVars == << fresh, queue, parked, awake >>
expectVars == << expectedCallbackId, expectedReply, waitingForAck >>
msgVars == << sendAttempts, callbackId, nonce >>
reportVars == << nonceReportSent, nonceReportSentAttempt >>
nodeVars == << nonces, wants, sent >>
boundVars == << news, wakes >>
vars == << placeVars, deleted, currentMsg, expectVars, msgVars, reportVars, nodeVars, air, owed, crashed, boundVars >>

\* Callback ids: 1 and 2 are those of nonces, the others are never used twice.
NoId == << NoMsg, 0 >>
NonceReportId == << NoMsg, 1 >>
NonceGetId == << NoMsg, 2 >>
NonceIds == {NonceReportId, NonceGetId}
Id(m) == << m, callbackId[m] >>

\* about is the message a frame belongs to.
Frame ==
  [kind : {"callback"}, id : (Msg \cup {NoMsg}) \X Nat, about : Msg \cup {NoMsg}] \cup
  [kind : {"nonceReport"}, nonce : Nat, about : Msg] \cup
  [kind : {"nonceGet", "report"}, node : Node, about : Msg \cup {NoMsg}] \cup
  [kind : {"encap"}, node : Node, age : 0 .. Slots, about : Msg \cup {NoMsg}]

TypeOK ==
  /\ fresh \subseteq Msg /\ deleted \subseteq Msg /\ sent \subseteq Msg
  /\ queue \in Seq(Msg)
  /\ parked \in [Node -> Seq(Msg)] /\ awake \in [Node -> BOOLEAN]
  /\ currentMsg \in Msg \cup {NoMsg}
  /\ expectedCallbackId \in {NoId} \cup (Msg \X Nat)
  /\ expectedReply \in {"none", "sendData", "report"} /\ waitingForAck \in BOOLEAN
  /\ sendAttempts \in [Msg -> 0 .. MaxTries] /\ callbackId \in [Msg -> Nat]
  /\ nonces \in Seq([node : Node, uses : Nat]) /\ nonce \in [Msg -> 0 .. Len(nonces)]
  /\ nonceReportSent \in Node \cup {NoNode} /\ nonceReportSentAttempt \in 0 .. MaxTries
  /\ wants \in [Node -> Msg \cup {NoMsg}] /\ air \subseteq Frame /\ owed \in 0 .. MaxOwed
  /\ crashed \in BOOLEAN /\ news \in 0 .. News /\ wakes \in 0 .. Wakes

Init ==
  /\ fresh = Msg /\ queue = << >> /\ deleted = {} /\ sent = {}
  /\ parked = [n \in Node |-> << >>] /\ awake = [n \in Node |-> TRUE]
  /\ currentMsg = NoMsg /\ expectedCallbackId = NoId
  /\ expectedReply = "none" /\ waitingForAck = FALSE
  /\ sendAttempts = [m \in Msg |-> 0] /\ callbackId = [m \in Msg |-> 0]
  /\ nonce = [m \in Msg |-> 0] /\ nonces = << >>
  /\ nonceReportSent = NoNode /\ nonceReportSentAttempt = 0
  /\ wants = [n \in Node |-> NoMsg]
  /\ air = {} /\ owed = 0
  /\ crashed = FALSE /\ news = 0 /\ wakes = 0
-----------------------------------------------------------------------------
(* What the transmissions make the nodes send; whether it arrives is another matter. *)

Owe(o) == IF o < MaxOwed THEN o + 1 ELSE MaxOwed

\* Without Late a frame that belongs to the message m is lost when m is gone.
Left(frames, m) == IF Late THEN frames ELSE { f \in frames : f.about # m }

Callback(id, m) == [kind |-> "callback", id |-> id, about |-> m]

\* GenerateNonceKey writes over the oldest nonce of its table.
Older(frames, n) ==
  { IF f.kind = "encap" /\ f.node = n /\ f.age < Slots THEN [f EXCEPT !.age = @ + 1] ELSE f : f \in frames }

\* SendNonceKey: the node n can encrypt what it has to report.
SendNonceKey(n, owedNow, frames) ==
  /\ nonceReportSent' = n
  /\ air' = Older(frames, n) \cup
              { Callback(NonceReportId, wants[n]),
                [kind |-> "encap", node |-> n, age |-> 0, about |-> wants[n]] }
  /\ owed' = Owe(owedNow)
  /\ UNCHANGED nodeVars

\* SendNonceRequest in the place of m.
SendNonceRequest(m, owedNow) ==
  /\ nonces' = Append(nonces, [node |-> Target[m], uses |-> 0])
  /\ air' = air \cup { Callback(NonceGetId, m),
                       [kind |-> "nonceReport", nonce |-> Len(nonces'), about |-> m] }
  /\ owed' = Owe(owedNow)
  /\ UNCHANGED << nonce, wants, sent >>

\* The message m itself with the nonce x; the node answers when it can read it.
Send(m, id, x, owedNow, frames) ==
  LET n == Target[m]
      read == m \notin Encrypted \/ (nonces[x].node = n /\ nonces[x].uses = 0)
      answers == IF m \notin Get \/ ~read THEN {}
                 ELSE {[kind |-> IF m \in Encrypted THEN "nonceGet" ELSE "report", node |-> n, about |-> m]}
  IN  /\ air' = frames \cup {Callback(id, m)} \cup answers
      /\ wants' = IF answers = {} THEN wants ELSE [wants EXCEPT ![n] = m]
      /\ nonces' = IF m \in Encrypted THEN [nonces EXCEPT ![x].uses = @ + 1] ELSE nonces
      /\ owed' = Owe(owedNow)
      /\ sent' = sent \cup {m}

\* Mutant: the nonce is kept after it was used.
SendEncryptedMessageKeeps(m, id, x, owedNow, frames) ==
  /\ Send(m, id, x, owedNow, frames)
  /\ nonce' = [nonce EXCEPT ![m] = x]

\* The buffer of a message that is not encrypted is sent as it is.
SendEncryptedMessage(m, id, x, owedNow, frames) ==
  /\ Send(m, id, x, owedNow, frames)
  /\ nonce' = [nonce EXCEPT ![m] = 0]
-----------------------------------------------------------------------------
(* The transaction. *)

Forget ==
  /\ currentMsg' = NoMsg
  /\ expectedCallbackId' = NoId /\ expectedReply' = "none" /\ waitingForAck' = FALSE

\* RemoveCurrentMsg, when m is the current message.
RemoveMsg(m, frames) ==
  /\ Forget
  /\ nonceReportSent' = NoNode /\ nonceReportSentAttempt' = 0
  /\ deleted' = deleted \cup {m}
  /\ air' = Left(frames, m)
  /\ UNCHANGED << nodeVars, msgVars >>

\* RemoveCurrentMsg when there may be none.
RemoveCurrentMsg(frames) ==
  IF currentMsg # NoMsg THEN RemoveMsg(currentMsg, frames)
  ELSE /\ Forget
       /\ nonceReportSent' = NoNode /\ nonceReportSentAttempt' = 0
       /\ air' = frames
       /\ UNCHANGED << deleted, nodeVars, msgVars >>

\* Mutant: the reports of a nonce are not counted.
RepeatUncounted(m, owedNow) ==
  /\ currentMsg' = m
  /\ SendNonceKey(nonceReportSent, owedNow, air)
  /\ UNCHANGED << nonceReportSentAttempt, expectVars, deleted, msgVars >>

\* WriteMsg while m_nonceReportSent is set.
RepeatNonceReport(m, owedNow) ==
  IF nonceReportSentAttempt >= MaxTries
  THEN RemoveMsg(m, air) /\ owed' = owedNow
  ELSE /\ currentMsg' = m
       /\ nonceReportSentAttempt' = nonceReportSentAttempt + 1
       /\ SendNonceKey(nonceReportSent, owedNow, air)
       /\ UNCHANGED << expectVars, deleted, msgVars >>

\* Mutant: what is expected is set when the message itself goes out.
TransmitExpectsLater(m, owedNow) ==
  LET asks == m \in Encrypted /\ nonce[m] = 0
      id == << m, IF sendAttempts[m] = 0 THEN callbackId[m] ELSE callbackId[m] + 1 >>
  IN  /\ sendAttempts' = [sendAttempts EXCEPT ![m] = IF asks \/ m \notin Encrypted THEN @ + 1 ELSE @]
      /\ callbackId' = [callbackId EXCEPT ![m] = id[2]]
      /\ currentMsg' = m
      /\ expectedCallbackId' = IF asks THEN NoId ELSE id
      /\ expectedReply' = IF asks THEN "none" ELSE IF m \in Get THEN "report" ELSE "sendData"
      /\ waitingForAck' = TRUE
      /\ IF asks THEN SendNonceRequest(m, owedNow)
                 ELSE SendEncryptedMessage(m, id, nonce[m], owedNow, air)
      /\ UNCHANGED << reportVars, deleted >>

\* WriteMsg otherwise. Of an encrypted message the requests for a nonce are counted.
Transmit(m, owedNow) ==
  LET asks == m \in Encrypted /\ nonce[m] = 0
      id == << m, IF sendAttempts[m] = 0 THEN callbackId[m] ELSE callbackId[m] + 1 >>
  IN  /\ sendAttempts' = [sendAttempts EXCEPT ![m] = IF asks \/ m \notin Encrypted THEN @ + 1 ELSE @]
      /\ callbackId' = [callbackId EXCEPT ![m] = id[2]]
      /\ currentMsg' = m
      /\ expectedCallbackId' = id
      /\ expectedReply' = IF m \in Get THEN "report" ELSE "sendData"
      /\ waitingForAck' = TRUE
      /\ IF asks THEN SendNonceRequest(m, owedNow)
                 ELSE SendEncryptedMessage(m, id, nonce[m], owedNow, air)
      /\ UNCHANGED << reportVars, deleted >>

WriteMsg(m, owedNow) ==
  IF nonceReportSent # NoNode THEN RepeatNonceReport(m, owedNow)
  ELSE IF sendAttempts[m] >= MaxTries THEN RemoveMsg(m, air) /\ owed' = owedNow
  ELSE Transmit(m, owedNow)

Resend(owedNow) ==
  IF currentMsg = NoMsg
  THEN /\ Forget
       /\ owed' = owedNow
       /\ UNCHANGED << deleted, msgVars, reportVars, nodeVars, air >>
  ELSE WriteMsg(currentMsg, owedNow)

\* Mutant: a message is done with its callback.
BusyForgetsReply == waitingForAck \/ expectedCallbackId # NoId

Busy == waitingForAck \/ expectedCallbackId # NoId \/ expectedReply # "none"

\* The current message is overwritten, if there is one.
WriteNextMsg ==
  /\ ~crashed /\ ~Busy /\ queue # << >>
  /\ queue' = Tail(queue)
  /\ WriteMsg(Head(queue), owed)
  /\ UNCHANGED << fresh, parked, awake, crashed, boundVars >>

WaitTimeout ==
  /\ ~crashed /\ Busy
  /\ Resend(owed)
  /\ UNCHANGED << placeVars, crashed, boundVars >>

ReceiveNak ==
  /\ ~crashed /\ owed > 0
  /\ Resend(owed - 1)
  /\ UNCHANGED << placeVars, crashed, boundVars >>

\* A message that expects nothing is done with its ACK.
ReceiveAck ==
  /\ ~crashed /\ owed > 0
  /\ owed' = owed - 1
  /\ IF currentMsg # NoMsg /\ expectedCallbackId = NoId /\ expectedReply = "none"
     THEN RemoveMsg(currentMsg, air)
     ELSE waitingForAck' = FALSE
       /\ UNCHANGED << currentMsg, expectedCallbackId, expectedReply, deleted, msgVars, reportVars, nodeVars, air >>
  /\ UNCHANGED << placeVars, crashed, boundVars >>
-----------------------------------------------------------------------------
(* Frames. *)

\* The end of ProcessMsg: what the transaction still expects after a frame with this
\* callback id that satisfies this reply.
Complete(id, reply, frames) ==
  LET left == IF expectedCallbackId = id THEN NoId ELSE expectedCallbackId
      rest == IF expectedReply = reply THEN "none" ELSE expectedReply
      open == expectedCallbackId # NoId \/ expectedReply # "none"
  IN  IF open /\ left = NoId /\ rest = "none"
      THEN RemoveMsg(currentMsg, frames)
      ELSE /\ expectedCallbackId' = left /\ expectedReply' = rest
           /\ air' = frames
           /\ UNCHANGED << currentMsg, waitingForAck, deleted, msgVars, reportVars, nodeVars >>

\* MoveMessagesToWakeUpQueue: m_nonceReportSent stays as it is.
Park(n, frames) ==
  /\ awake' = [awake EXCEPT ![n] = FALSE]
  /\ parked' = [parked EXCEPT ![n] = @ \o << currentMsg >> \o Keep(queue, { m \in Msg : Target[m] = n })]
  /\ queue' = Keep(queue, { m \in Msg : Target[m] # n })
  /\ sendAttempts' = [sendAttempts EXCEPT ![currentMsg] = 0]
  /\ Forget
  /\ air' = Left(frames, currentMsg)
  /\ UNCHANGED << deleted, callbackId, nonce, reportVars, nodeVars >>

\* HandleSendDataRequest and the end of ProcessMsg.
ReceiveCallback ==
  \E f \in air, noAck \in BOOLEAN :
    LET rest == air \ {f}
        mine == f.id \in NonceIds \/ f.id = expectedCallbackId
    IN  /\ ~crashed /\ f.kind = "callback"
        /\ IF noAck /\ mine /\ currentMsg # NoMsg /\ Target[currentMsg] \in Sleepy
           THEN /\ Overlap \/ nonceReportSent = NoNode
                /\ Park(Target[currentMsg], rest)
           ELSE /\ IF f.id \in NonceIds /\ expectedCallbackId # NoId
                   THEN Complete(NoId, "none", rest)
                   ELSE Complete(f.id, "sendData", rest)
                /\ UNCHANGED << queue, parked, awake >>
        /\ UNCHANGED << fresh, owed, crashed, boundVars >>

\* The nonce goes to whichever message is current.
ReceiveNonceReport ==
  \E f \in air :
    /\ ~crashed /\ f.kind = "nonceReport"
    /\ IF currentMsg = NoMsg
       THEN /\ crashed' = TRUE
            /\ air' = air \ {f}
            /\ UNCHANGED << expectedCallbackId, callbackId, nonce, nodeVars, owed >>
       ELSE LET id == << currentMsg, callbackId[currentMsg] + 1 >>
            IN  /\ callbackId' = [callbackId EXCEPT ![currentMsg] = id[2]]
                /\ expectedCallbackId' = id
                /\ SendEncryptedMessage(currentMsg, id, f.nonce, owed, air \ {f})
                /\ UNCHANGED crashed
    /\ UNCHANGED << placeVars, deleted, currentMsg, expectedReply, waitingForAck, sendAttempts, reportVars, boundVars >>

ReceiveNonceGet ==
  \E f \in air :
    /\ ~crashed /\ f.kind = "nonceGet"
    /\ SendNonceKey(f.node, owed, air \ {f})
    /\ UNCHANGED << placeVars, deleted, currentMsg, expectVars, msgVars, nonceReportSentAttempt, crashed, boundVars >>

\* Each message has a command class of its own, and so has news: a report that arrives
\* is the one that is expected when it is about the current message.
Answers(f) ==
  currentMsg # NoMsg /\ f.about = currentMsg /\ expectedCallbackId = NoId

ReceiveReport ==
  \E f \in air :
    /\ ~crashed /\ f.kind = "report"
    /\ Complete(NoId, IF Answers(f) THEN "report" ELSE "none", air \ {f})
    /\ UNCHANGED << placeVars, owed, crashed, boundVars >>

\* A report that is decrypted is processed like another; its nonce must still be in the
\* node's table.  m_nonceReportSent is reset in any case.  One that asks for another nonce
\* is told from the others by a byte the decrypted packet has overwritten: none is sent.
Decrypt(f) ==
  IF f.age < Slots /\ Answers(f) /\ expectedReply = "report" THEN RemoveMsg(currentMsg, air \ {f})
  ELSE /\ nonceReportSent' = NoNode /\ nonceReportSentAttempt' = 0
       /\ air' = air \ {f}
       /\ UNCHANGED << deleted, currentMsg, expectVars, msgVars, nodeVars >>

\* A nonce is looked up by its first byte, which another may share: then the report
\* cannot be decrypted, and the current message, whichever it is, is removed.
ReceiveEncap ==
  \E f \in air :
    /\ ~crashed /\ f.kind = "encap"
    /\ Decrypt(f) \/ RemoveCurrentMsg(air \ {f})
    /\ UNCHANGED << placeVars, owed, crashed, boundVars >>
-----------------------------------------------------------------------------
(* The application and the nodes. *)

\* Nothing about news is outstanding.
Quiet == (\A f \in air : f.about # NoMsg) /\ (nonceReportSent # NoNode => Busy)

\* SendMsg: encrypted or not, a message for a node that sleeps waits for it.
SendMsg(m) ==
  /\ m \in fresh /\ (Overlap \/ Quiet)
  /\ fresh' = fresh \ {m}
  /\ IF awake[Target[m]]
     THEN queue' = Append(queue, m) /\ UNCHANGED parked
     ELSE parked' = [parked EXCEPT ![Target[m]] = Append(@, m)] /\ UNCHANGED queue
  /\ UNCHANGED << deleted, awake, currentMsg, expectVars, msgVars, reportVars, nodeVars, air, owed, crashed, boundVars >>

\* A node has news and asks for a nonce.
DeviceNews(n) ==
  /\ news < News /\ (Overlap \/ (Quiet /\ currentMsg = NoMsg /\ queue = << >>))
  /\ news' = news + 1
  /\ wants' = [wants EXCEPT ![n] = NoMsg]
  /\ air' = air \cup {[kind |-> "nonceGet", node |-> n, about |-> NoMsg]}
  /\ UNCHANGED << placeVars, deleted, currentMsg, expectVars, msgVars, reportVars, nonces, sent, owed, crashed, wakes >>

\* SetAwake and SendPending.
WakesUp(n) ==
  /\ ~crashed /\ wakes < Wakes /\ ~awake[n] /\ (Overlap \/ Quiet)
  /\ wakes' = wakes + 1
  /\ awake' = [awake EXCEPT ![n] = TRUE]
  /\ queue' = queue \o parked[n]
  /\ parked' = [parked EXCEPT ![n] = << >>]
  /\ UNCHANGED << fresh, deleted, currentMsg, expectVars, msgVars, reportVars, nodeVars, air, owed, crashed, news >>

Receive == ReceiveCallback \/ ReceiveNonceReport \/ ReceiveNonceGet \/ ReceiveEncap \/ ReceiveReport

Next ==
  \/ WriteNextMsg \/ WaitTimeout \/ ReceiveNak \/ ReceiveAck \/ Receive
  \/ \E m \in Msg : SendMsg(m)
  \/ \E n \in Node : DeviceNews(n) \/ WakesUp(n)

Spec == Init /\ [][Next]_vars

\* The driver thread sends what is queued, and its wait for an answer times out.
FairSpec == Spec /\ WF_vars(WriteNextMsg) /\ WF_vars(WaitTimeout)
-----------------------------------------------------------------------------
(* What the driver promises. *)

Waiting == ToSet(queue) \cup UNION { ToSet(parked[n]) : n \in Node }

\* Whatever is current, late or repeated, a message is in one place; one that is the
\* current message is neither forgotten nor overwritten (WriteNextMsg, Driver.cpp:1047,
\* RemoveCurrentMsg, MoveMessagesToWakeUpQueue).
OnePlace ==
  /\ TypeOK
  /\ IsInjective(queue)
  /\ \A m \in Msg :
       Cardinality({ p \in {"fresh", "waiting", "current", "deleted"} :
         \/ p = "fresh" /\ m \in fresh
         \/ p = "waiting" /\ m \in Waiting
         \/ p = "current" /\ m = currentMsg
         \/ p = "deleted" /\ m \in deleted }) = 1

\* However often a message is sent again, no two transmissions are encrypted with the same
\* nonce (SendEncryptedMessage and clearNonce, Driver.cpp:6737-6748): the node refuses the
\* second, and the pair would tell what both contain.
NonceOnce == \A i \in 1 .. Len(nonces) : nonces[i].uses <= 1

\* A message that neither went out nor was tried as often as it may be is deleted only for
\* one of three reasons: the reports of a nonce to a node have used up its attempts, one was
\* sent in its place, so that not even an ACK is expected for it, or a report of something
\* else cannot be decrypted (WriteMsg, Driver.cpp:1153-1177 and 1211-1214, ReceiveAck,
\* Driver.cpp:1773-1777, ProcessMsg, Driver.cpp:1891-1895).
NotLostUnsent ==
  [][ \A m \in deleted' \ deleted :
        \/ m \in sent \/ sendAttempts[m] >= MaxTries
        \/ nonceReportSent # NoNode /\ nonceReportSentAttempt >= MaxTries
        \/ m = currentMsg /\ ~Busy
        \/ \E f \in air \ air' : f.kind = "encap" /\ f.about # m ]_vars

\* With the retries, the nonces asked for in between and what the node reports, every message
\* comes to an end or waits in a wake-up queue (Driver.cpp:1160, 1197-1202).
Settles ==
  \A m \in Msg : (m \notin fresh) ~> (m \in deleted \/ \E n \in Node : m \in ToSet(parked[n]))
=============================================================================
