----------------------- MODULE SecureMessages_proofs -----------------------
(***************************************************************************)
(* No nonce is used twice, whatever comes late or repeated; and, while     *)
(* what the nodes report of their own accord meets no other message, every *)
(* message is in one place and none is deleted before it was sent or tried *)
(* as often as it may be.                                                  *)
(***************************************************************************)
EXTENDS SecureMessages, SendQueue_proofs, FiniteSetTheorems

\* The parts of TypeOK: what the transaction changes, what is on the way, and the rest.
MsgTyped ==
  /\ deleted \subseteq Msg /\ sent \subseteq Msg
  /\ currentMsg \in Msg \cup {NoMsg}
  /\ expectedCallbackId \in {NoId} \cup (Msg \X Nat)
  /\ expectedReply \in {"none", "sendData", "report"} /\ waitingForAck \in BOOLEAN
  /\ sendAttempts \in [Msg -> 0 .. MaxTries] /\ callbackId \in [Msg -> Nat]
  /\ nonceReportSent \in Node \cup {NoNode} /\ nonceReportSentAttempt \in 0 .. MaxTries

AirTyped ==
  /\ nonces \in Seq([node : Node, uses : Nat]) /\ nonce \in [Msg -> 0 .. Len(nonces)]
  /\ wants \in [Node -> Msg \cup {NoMsg}] /\ air \subseteq Frame /\ owed \in 0 .. MaxOwed

PlaceTyped ==
  /\ fresh \subseteq Msg /\ queue \in Seq(Msg)
  /\ parked \in [Node -> Seq(Msg)] /\ awake \in [Node -> BOOLEAN]
  /\ crashed \in BOOLEAN /\ news \in 0 .. News /\ wakes \in 0 .. Wakes

LEMMA TypeParts == TypeOK <=> MsgTyped /\ AirTyped /\ PlaceTyped
BY DEF TypeOK, MsgTyped, AirTyped, PlaceTyped

\* A nonce that is on its way is unused, on its way once and kept by no message.
NonceInv ==
  /\ \A m \in Msg : nonce[m] = 0
  /\ \A f \in air : f.kind = "nonceReport" => f.nonce \in 1 .. Len(nonces) /\ nonces[f.nonce].uses = 0
  /\ \A f, g \in air : f.kind = "nonceReport" /\ g.kind = "nonceReport" /\ f.nonce = g.nonce => f = g
  /\ NonceOnce

\* What is expected is expected for the current message.
Expecting == expectedCallbackId # NoId \/ expectedReply # "none"

\* The inductive invariant, without the places of the messages.
TxInv == MsgTyped /\ AirTyped /\ NonceInv /\ (Expecting => currentMsg # NoMsg)

-----------------------------------------------------------------------------
(* Frames. *)

LEMMA CallbackFrame ==
  ASSUME NEW id \in (Msg \cup {NoMsg}) \X Nat, NEW m \in Msg \cup {NoMsg}
  PROVE  Callback(id, m) \in Frame /\ Callback(id, m).kind = "callback" /\ Callback(id, m).about = m
BY DEF Callback, Frame

LEMMA NonceReportFrame ==
  ASSUME NEW x \in Nat, NEW m \in Msg
  PROVE  [kind |-> "nonceReport", nonce |-> x, about |-> m] \in Frame
BY DEF Frame

LEMMA NodeFrame ==
  ASSUME NEW k \in {"nonceGet", "report"}, NEW n \in Node, NEW m \in Msg \cup {NoMsg}
  PROVE  [kind |-> k, node |-> n, about |-> m] \in Frame
BY DEF Frame

LEMMA EncapFrame ==
  ASSUME NEW n \in Node, NEW a \in 0 .. Slots, NEW m \in Msg \cup {NoMsg}
  PROVE  [kind |-> "encap", node |-> n, age |-> a, about |-> m] \in Frame
BY DEF Frame

LEMMA FrameFields ==
  ASSUME NEW f \in Frame
  PROVE  /\ f.kind \in {"callback", "nonceReport", "nonceGet", "report", "encap"}
         /\ f.about \in Msg \cup {NoMsg}
         /\ f.kind = "callback" => f.id \in (Msg \cup {NoMsg}) \X Nat
         /\ f.kind = "nonceReport" => f.nonce \in Nat /\ f.about \in Msg
         /\ f.kind \in {"nonceGet", "report", "encap"} => f.node \in Node
         /\ f.kind = "encap" =>
              f.age \in 0 .. Slots
              /\ f = [kind |-> "encap", node |-> f.node, age |-> f.age, about |-> f.about]
BY DEF Frame

\* Older keeps all but the age.
LEMMA OlderFrames ==
  ASSUME NEW frames, frames \subseteq Frame, NEW n
  PROVE  /\ Older(frames, n) \subseteq Frame
         /\ \A g \in Older(frames, n) : g \in frames \/
              (g.kind = "encap" /\ \E f \in frames : f.kind = "encap" /\ f.about = g.about /\ f.node = g.node)
<1> SUFFICES ASSUME NEW g \in Older(frames, n)
             PROVE  g \in Frame /\ (g \in frames \/
                      (g.kind = "encap" /\ \E f \in frames : f.kind = "encap" /\ f.about = g.about /\ f.node = g.node))
  OBVIOUS
<1>1. PICK f \in frames :
        g = IF f.kind = "encap" /\ f.node = n /\ f.age < Slots THEN [f EXCEPT !.age = @ + 1] ELSE f
  BY DEF Older
<1>2. CASE f.kind = "encap" /\ f.node = n /\ f.age < Slots
  <2>1. /\ f.node \in Node /\ f.age \in 0 .. Slots /\ f.about \in Msg \cup {NoMsg}
        /\ f = [kind |-> "encap", node |-> f.node, age |-> f.age, about |-> f.about]
    BY <1>2, FrameFields
  <2>2. PICK a \in 0 .. Slots : a = f.age + 1
    BY <1>2, <2>1, SecureAssumption
  <2>3. g = [f EXCEPT !.age = f.age + 1]
    BY <1>1, <1>2
  <2>4. g = [kind |-> "encap", node |-> f.node, age |-> a, about |-> f.about]
    BY <2>1, <2>2, <2>3
  <2>5. g \in Frame
    BY <2>1, <2>4, EncapFrame
  <2> QED BY <1>2, <2>4, <2>5
<1>3. CASE ~(f.kind = "encap" /\ f.node = n /\ f.age < Slots)
  BY <1>1, <1>3
<1> QED BY <1>2, <1>3

LEMMA OweType == ASSUME NEW o \in 0 .. MaxOwed PROVE Owe(o) \in 0 .. MaxOwed
BY SecureAssumption DEF Owe

LEMMA Ids == /\ NoId \in (Msg \cup {NoMsg}) \X Nat /\ NoId \notin Msg \X Nat
             /\ NonceReportId \in (Msg \cup {NoMsg}) \X Nat /\ NonceReportId \notin Msg \X Nat
             /\ NonceGetId \in (Msg \cup {NoMsg}) \X Nat /\ NonceGetId \notin Msg \X Nat
             /\ NoId \notin NonceIds
BY SecureAssumption DEF NoId, NonceReportId, NonceGetId, NonceIds

-----------------------------------------------------------------------------
(* What the operations on the transaction keep. *)

\* Nothing new about nonces is on the way.
LEMMA NonceKept ==
  ASSUME NonceInv, nonces' = nonces, nonce' = nonce,
         \A f \in air' : f.kind = "nonceReport" => f \in air
  PROVE  NonceInv'
BY DEF NonceInv, NonceOnce

LEMMA RemoveMsgKeeps ==
  ASSUME TxInv, NEW m \in Msg, NEW frames, frames \subseteq air, RemoveMsg(m, frames),
         owed' \in 0 .. MaxOwed
  PROVE  TxInv'
<1>1. air' \subseteq air
  BY DEF RemoveMsg, Left
<1>2. MsgTyped'
  <2>1. /\ currentMsg' = NoMsg /\ expectedCallbackId' = NoId /\ expectedReply' = "none"
        /\ waitingForAck' = FALSE /\ nonceReportSent' = NoNode /\ nonceReportSentAttempt' = 0
        /\ deleted' = deleted \cup {m} /\ sent' = sent
        /\ sendAttempts' = sendAttempts /\ callbackId' = callbackId
    BY DEF RemoveMsg, Forget, nodeVars, msgVars
  <2>2. 0 \in 0 .. MaxTries
    BY SecureAssumption
  <2> QED BY <2>1, <2>2 DEF TxInv, MsgTyped
<1>3. AirTyped'
  BY <1>1 DEF TxInv, AirTyped, RemoveMsg, nodeVars, msgVars
<1>4. NonceInv'
  BY <1>1, NonceKept DEF TxInv, RemoveMsg, nodeVars, msgVars
<1> QED BY <1>2, <1>3, <1>4 DEF TxInv, RemoveMsg, Forget, Expecting

\* SendNonceKey adds a callback and a report, and no report of a nonce.
LEMMA SendNonceKeyKeeps ==
  ASSUME AirTyped, NonceInv, NEW n \in Node, NEW o \in 0 .. MaxOwed, NEW frames,
         frames \subseteq air, SendNonceKey(n, o, frames), nonce' = nonce
  PROVE  AirTyped' /\ NonceInv' /\ nonceReportSent' = n
<1> DEFINE cb == Callback(NonceReportId, wants[n])
           ec == [kind |-> "encap", node |-> n, age |-> 0, about |-> wants[n]]
<1>1. wants[n] \in Msg \cup {NoMsg} /\ frames \subseteq Frame
  BY DEF AirTyped
<1>2. cb \in Frame /\ cb.kind = "callback"
  BY <1>1, Ids, CallbackFrame
<1>3. ec \in Frame /\ ec.kind = "encap"
  BY <1>1, EncapFrame, SecureAssumption
<1>4. Older(frames, n) \subseteq Frame /\ \A g \in Older(frames, n) : g \in frames \/ g.kind = "encap"
  BY <1>1, OlderFrames
<1>5. air' = Older(frames, n) \cup {cb, ec}
  BY DEF SendNonceKey
<1> HIDE DEF cb, ec
<1>6. AirTyped'
  BY <1>2, <1>3, <1>4, <1>5, OweType DEF AirTyped, SendNonceKey, nodeVars
<1>7. NonceInv'
  BY <1>2, <1>3, <1>4, <1>5, NonceKept DEF SendNonceKey, nodeVars
<1> QED BY <1>6, <1>7 DEF SendNonceKey

LEMMA RepeatKeeps ==
  ASSUME TxInv, NEW m \in Msg, NEW o \in 0 .. MaxOwed, nonceReportSent # NoNode,
         RepeatNonceReport(m, o)
  PROVE  TxInv'
<1>1. CASE nonceReportSentAttempt >= MaxTries
  <2>1. RemoveMsg(m, air) /\ owed' = o
    BY <1>1 DEF RepeatNonceReport
  <2> QED BY <2>1, RemoveMsgKeeps
<1>2. CASE ~ (nonceReportSentAttempt >= MaxTries)
  <2>1. /\ currentMsg' = m /\ nonceReportSentAttempt' = nonceReportSentAttempt + 1
        /\ SendNonceKey(nonceReportSent, o, air)
        /\ UNCHANGED << expectVars, deleted, msgVars >>
    BY <1>2 DEF RepeatNonceReport
  <2>2. PICK n \in Node : n = nonceReportSent
    BY DEF TxInv, MsgTyped
  <2>3. AirTyped' /\ NonceInv' /\ nonceReportSent' = n
    BY <2>1, <2>2, SendNonceKeyKeeps DEF TxInv, msgVars
  <2>4. nonceReportSentAttempt' \in 0 .. MaxTries
    BY <1>2, <2>1, SecureAssumption DEF TxInv, MsgTyped
  <2>5. MsgTyped'
    BY <2>1, <2>3, <2>4 DEF TxInv, MsgTyped, expectVars, msgVars, SendNonceKey, nodeVars
  <2> QED BY <2>1, <2>3, <2>5, SecureAssumption DEF TxInv
<1> QED BY <1>1, <1>2

LEMMA ElementOf == ASSUME NEW S, NEW q \in Seq(S), NEW i \in 1 .. Len(q) PROVE q[i] \in S
OBVIOUS

\* A message is sent: with a nonce that is used once more when it is encrypted.
LEMMA SendKeeps ==
  ASSUME TxInv, NEW m \in Msg, NEW id \in Msg \X Nat, NEW x \in Nat, NEW o \in 0 .. MaxOwed,
         NEW frames, frames \subseteq air, SendEncryptedMessage(m, id, x, o, frames),
         m \in Encrypted => /\ x \in 1 .. Len(nonces) /\ nonces[x].uses = 0
                            /\ \A f \in frames : f.kind = "nonceReport" => f.nonce # x
  PROVE  AirTyped' /\ NonceInv' /\ sent' = sent \cup {m}
<1> DEFINE cb == Callback(id, m)
           answer == [kind |-> IF m \in Encrypted THEN "nonceGet" ELSE "report",
                      node |-> Target[m], about |-> m]
<1>1. Target[m] \in Node /\ frames \subseteq Frame
  BY SecureAssumption DEF TxInv, AirTyped
<1>2. cb \in Frame /\ cb.kind = "callback"
  BY CallbackFrame
<1>3. answer \in Frame /\ answer.kind \in {"nonceGet", "report"}
  BY <1>1, NodeFrame
<1>4. /\ air' \subseteq frames \cup {cb, answer}
      /\ wants' = wants \/ wants' = [wants EXCEPT ![Target[m]] = m]
      /\ nonces' = IF m \in Encrypted THEN [nonces EXCEPT ![x].uses = @ + 1] ELSE nonces
      /\ owed' = Owe(o) /\ sent' = sent \cup {m} /\ nonce' = [nonce EXCEPT ![m] = 0]
  BY DEF SendEncryptedMessage, Send
<1> HIDE DEF cb, answer
<1>5. air' \subseteq Frame /\ \A f \in air' : f.kind = "nonceReport" => f \in frames
  BY <1>1, <1>2, <1>3, <1>4
<1>6. wants' \in [Node -> Msg \cup {NoMsg}]
  BY <1>1, <1>4 DEF TxInv, AirTyped
<1>7. nonce' = nonce
  BY <1>4 DEF TxInv, NonceInv, AirTyped
<1>8. owed' \in 0 .. MaxOwed
  BY <1>4, OweType
<1>9. /\ nonces' \in Seq([node : Node, uses : Nat]) /\ Len(nonces') = Len(nonces)
      /\ \A i \in 1 .. Len(nonces) : nonces'[i].uses <= 1 /\ (nonces'[i] = nonces[i] \/ (i = x /\ m \in Encrypted))
  <2>0. nonces \in Seq([node : Node, uses : Nat]) /\ \A i \in 1 .. Len(nonces) : nonces[i].uses <= 1
    BY DEF TxInv, AirTyped, NonceInv, NonceOnce
  <2>1. CASE m \in Encrypted
    <3>0. nonces[x].uses = 0 /\ x \in 1 .. Len(nonces)
      BY <2>1
    <3>1. PICK w \in [node : Node, uses : Nat] : w = nonces[x] /\ w.uses = 0
      <4>1. nonces[x] \in [node : Node, uses : Nat]
        BY <2>0, <3>0, ElementOf
      <4> QED BY <3>0, <4>1
    <3>2. PICK r \in [node : Node, uses : Nat] : r = [w EXCEPT !.uses = w.uses + 1] /\ r.uses = 1
      <4>1. w.uses + 1 = 1 /\ w.node \in Node
        BY <3>1
      <4>2. [w EXCEPT !.uses = 1] \in [node : Node, uses : Nat] /\ [w EXCEPT !.uses = 1].uses = 1
        BY <4>1
      <4> QED BY <4>1, <4>2
    <3>3. nonces' = [nonces EXCEPT ![x] = r]
      <4>1. nonces' = [nonces EXCEPT ![x].uses = nonces[x].uses + 1]
        BY <1>4, <2>1
      <4> QED BY <3>1, <3>2, <4>1
    <3>4. nonces' \in Seq([node : Node, uses : Nat]) /\ Len(nonces') = Len(nonces)
          /\ \A i \in 1 .. Len(nonces) : nonces'[i] = IF i = x THEN r ELSE nonces[i]
      BY <2>0, <3>0, <3>3
    <3> QED BY <2>0, <2>1, <3>2, <3>4
  <2>2. CASE m \notin Encrypted
    BY <1>4, <2>0, <2>2
  <2> QED BY <2>1, <2>2
<1>10. AirTyped'
  BY <1>5, <1>6, <1>7, <1>8, <1>9 DEF TxInv, AirTyped
<1>11. NonceInv'
  <2>1. \A i \in Msg : nonce'[i] = 0
    BY <1>7 DEF TxInv, NonceInv
  <2>2. ASSUME NEW f \in air', f.kind = "nonceReport"
        PROVE  f.nonce \in 1 .. Len(nonces') /\ nonces'[f.nonce].uses = 0
    <3>1. f \in frames /\ f \in air
      BY <1>5, <2>2
    <3>2. f.nonce \in 1 .. Len(nonces) /\ nonces[f.nonce].uses = 0
      BY <2>2, <3>1 DEF TxInv, NonceInv
    <3>3. m \in Encrypted => f.nonce # x
      BY <2>2, <3>1
    <3> QED BY <1>9, <3>2, <3>3
  <2>3. ASSUME NEW f \in air', NEW g \in air', f.kind = "nonceReport", g.kind = "nonceReport",
               f.nonce = g.nonce
        PROVE  f = g
    BY <1>5, <2>3 DEF TxInv, NonceInv
  <2>4. NonceOnce'
    BY <1>9 DEF NonceOnce
  <2> QED BY <2>1, <2>2, <2>3, <2>4 DEF NonceInv
<1> QED BY <1>4, <1>10, <1>11

\* The nonce asked for is a new one.
LEMMA RequestKeeps ==
  ASSUME TxInv, NEW m \in Msg, NEW o \in 0 .. MaxOwed, SendNonceRequest(m, o)
  PROVE  AirTyped' /\ NonceInv' /\ sent' = sent
<1> DEFINE new == [node |-> Target[m], uses |-> 0]
           cb == Callback(NonceGetId, m)
           nr == [kind |-> "nonceReport", nonce |-> Len(nonces'), about |-> m]
<1>1. /\ nonces' = Append(nonces, new) /\ air' = air \cup {cb, nr} /\ owed' = Owe(o)
      /\ nonce' = nonce /\ wants' = wants /\ sent' = sent
  BY DEF SendNonceRequest
<1>2. new \in [node : Node, uses : Nat] /\ new.uses = 0
  BY SecureAssumption
<1>3. nonces \in Seq([node : Node, uses : Nat])
  BY DEF TxInv, AirTyped
<1>4. PICK k \in Nat : k = Len(nonces)
  BY <1>3
<1> HIDE DEF new
<1>5. /\ nonces' \in Seq([node : Node, uses : Nat]) /\ Len(nonces') = k + 1
      /\ \A i \in 1 .. k + 1 : nonces'[i] = IF i = k + 1 THEN new ELSE nonces[i]
  BY <1>1, <1>2, <1>3, <1>4
<1>6. cb \in Frame /\ cb.kind = "callback"
  BY Ids, CallbackFrame
<1>7. nr \in Frame /\ nr.kind = "nonceReport" /\ nr.nonce = k + 1
  BY <1>4, <1>5, NonceReportFrame
<1> HIDE DEF cb, nr
<1>8. AirTyped'
  <2>1. air' \subseteq Frame /\ owed' \in 0 .. MaxOwed
    BY <1>1, <1>6, <1>7, OweType DEF TxInv, AirTyped
  <2>2. nonce' \in [Msg -> 0 .. Len(nonces')]
    <3>1. nonce \in [Msg -> 0 .. k]
      BY <1>4 DEF TxInv, AirTyped
    <3> QED BY <1>1, <1>5, <3>1
  <2> QED BY <1>1, <1>5, <2>1, <2>2 DEF TxInv, AirTyped
<1>9. NonceInv'
  <2>0. \A f \in air : f.kind = "nonceReport" => f.nonce \in 1 .. k /\ nonces[f.nonce].uses = 0
    BY <1>4 DEF TxInv, NonceInv
  <2>1. \A f \in air' : f.kind = "nonceReport" => f \in air \/ f = nr
    BY <1>1, <1>6
  <2>2. ASSUME NEW f \in air', f.kind = "nonceReport"
        PROVE  f.nonce \in 1 .. Len(nonces') /\ nonces'[f.nonce].uses = 0
    <3>1. CASE f \in air
      <4>1. PICK i \in 1 .. k : i = f.nonce /\ nonces[i].uses = 0
        BY <2>0, <2>2, <3>1
      <4> QED BY <1>5, <4>1
    <3>2. CASE f = nr
      BY <1>2, <1>5, <1>7, <3>2
    <3> QED BY <2>1, <2>2, <3>1, <3>2
  <2>3. ASSUME NEW f \in air', NEW g \in air', f.kind = "nonceReport", g.kind = "nonceReport",
               f.nonce = g.nonce
        PROVE  f = g
    <3>1. \A h \in air : h.kind = "nonceReport" => h.nonce # k + 1
      BY <2>0
    <3> QED BY <1>7, <2>1, <2>3, <3>1 DEF TxInv, NonceInv
  <2>4. NonceOnce'
    BY <1>2, <1>4, <1>5 DEF NonceOnce, TxInv, NonceInv
  <2>5. \A i \in Msg : nonce'[i] = 0
    BY <1>1 DEF TxInv, NonceInv
  <2> QED BY <2>2, <2>3, <2>4, <2>5 DEF NonceInv
<1> QED BY <1>1, <1>8, <1>9

LEMMA TransmitKeeps ==
  ASSUME TxInv, NEW m \in Msg, NEW o \in 0 .. MaxOwed, sendAttempts[m] < MaxTries, Transmit(m, o)
  PROVE  /\ TxInv' /\ currentMsg' = m /\ Expecting'
         /\ expectedReply' = IF m \in Get THEN "report" ELSE "sendData"
<1> DEFINE asks == m \in Encrypted /\ nonce[m] = 0
           id == << m, IF sendAttempts[m] = 0 THEN callbackId[m] ELSE callbackId[m] + 1 >>
<1>0. sendAttempts \in [Msg -> 0 .. MaxTries] /\ callbackId \in [Msg -> Nat]
  BY DEF TxInv, MsgTyped
<1>1. id \in Msg \X Nat
  BY <1>0
<1>2. /\ sendAttempts' = [sendAttempts EXCEPT ![m] = IF asks \/ m \notin Encrypted THEN @ + 1 ELSE @]
      /\ callbackId' = [callbackId EXCEPT ![m] = id[2]]
      /\ currentMsg' = m /\ expectedCallbackId' = id
      /\ expectedReply' = IF m \in Get THEN "report" ELSE "sendData"
      /\ waitingForAck' = TRUE
      /\ IF asks THEN SendNonceRequest(m, o) ELSE SendEncryptedMessage(m, id, nonce[m], o, air)
      /\ nonceReportSent' = nonceReportSent /\ nonceReportSentAttempt' = nonceReportSentAttempt
      /\ deleted' = deleted
  BY DEF Transmit, reportVars
<1>3. nonce[m] = 0
  BY DEF TxInv, NonceInv
<1>4. AirTyped' /\ NonceInv' /\ sent' \subseteq Msg
  <2>0. sent \subseteq Msg
    BY DEF TxInv, MsgTyped
  <2>1. CASE m \in Encrypted
    <3>1. SendNonceRequest(m, o)
      BY <1>2, <1>3, <2>1
    <3> QED BY <2>0, <3>1, RequestKeeps
  <2>2. CASE m \notin Encrypted
    <3>1. SendEncryptedMessage(m, id, 0, o, air)
      BY <1>2, <1>3, <2>2
    <3> HIDE DEF id
    <3>2. AirTyped' /\ NonceInv' /\ sent' = sent \cup {m}
      BY <1>1, <2>2, <3>1, SendKeeps
    <3> QED BY <2>0, <3>2
  <2> QED BY <2>1, <2>2
<1>5. sendAttempts' \in [Msg -> 0 .. MaxTries] /\ callbackId' \in [Msg -> Nat]
  <2>1. PICK k \in Nat : k = id[2]
    BY <1>1
  <2>2. callbackId' \in [Msg -> Nat]
    BY <1>0, <1>2, <2>1
  <2>3. PICK a \in 0 .. MaxTries : a = (IF asks \/ m \notin Encrypted THEN sendAttempts[m] + 1 ELSE sendAttempts[m])
    BY <1>0, SecureAssumption
  <2>4. sendAttempts' = [sendAttempts EXCEPT ![m] = a]
    BY <1>2, <2>3
  <2> QED BY <1>0, <2>2, <2>4
<1> HIDE DEF id
<1>6. MsgTyped'
  BY <1>1, <1>2, <1>4, <1>5 DEF TxInv, MsgTyped
<1> QED BY <1>2, <1>4, <1>6, SecureAssumption DEF TxInv, Expecting

LEMMA WriteMsgKeeps ==
  ASSUME TxInv, NEW m \in Msg, NEW o \in 0 .. MaxOwed, WriteMsg(m, o)
  PROVE  TxInv'
<1>1. CASE nonceReportSent # NoNode
  BY <1>1, RepeatKeeps DEF WriteMsg
<1>2. CASE nonceReportSent = NoNode /\ sendAttempts[m] >= MaxTries
  <2>1. RemoveMsg(m, air) /\ owed' = o
    BY <1>2 DEF WriteMsg
  <2> QED BY <2>1, RemoveMsgKeeps
<1>3. CASE nonceReportSent = NoNode /\ ~(sendAttempts[m] >= MaxTries)
  <2>1. Transmit(m, o)
    BY <1>3 DEF WriteMsg
  <2>2. sendAttempts[m] < MaxTries
    BY <1>3, SecureAssumption DEF TxInv, MsgTyped
  <2> QED BY <2>1, <2>2, TransmitKeeps
<1> QED BY <1>1, <1>2, <1>3

LEMMA ResendKeeps ==
  ASSUME TxInv, NEW o \in 0 .. MaxOwed, Resend(o)
  PROVE  TxInv'
<1>1. CASE currentMsg = NoMsg
  <2>1. /\ currentMsg' = NoMsg /\ expectedCallbackId' = NoId /\ expectedReply' = "none"
        /\ waitingForAck' = FALSE /\ owed' = o
        /\ UNCHANGED << deleted, msgVars, reportVars, nodeVars, air >>
    BY <1>1 DEF Resend, Forget
  <2>2. MsgTyped'
    BY <2>1 DEF TxInv, MsgTyped, msgVars, reportVars, nodeVars
  <2>3. AirTyped'
    BY <2>1 DEF TxInv, AirTyped, msgVars, nodeVars
  <2>4. NonceInv'
    BY <2>1, NonceKept DEF TxInv, msgVars, nodeVars
  <2> QED BY <2>1, <2>2, <2>3, <2>4 DEF TxInv, Expecting
<1>2. CASE currentMsg # NoMsg
  <2>1. PICK m \in Msg : m = currentMsg
    BY <1>2 DEF TxInv, MsgTyped
  <2>2. WriteMsg(m, o)
    BY <1>2, <2>1 DEF Resend
  <2> QED BY <2>2, WriteMsgKeeps
<1> QED BY <1>1, <1>2

LEMMA CompleteKeeps ==
  ASSUME TxInv, NEW id, NEW reply, NEW frames, frames \subseteq air,
         Complete(id, reply, frames), owed' \in 0 .. MaxOwed
  PROVE  TxInv'
<1> DEFINE left == IF expectedCallbackId = id THEN NoId ELSE expectedCallbackId
           rest == IF expectedReply = reply THEN "none" ELSE expectedReply
<1>1. CASE Expecting /\ left = NoId /\ rest = "none"
  <2>1. PICK m \in Msg : m = currentMsg
    BY <1>1 DEF TxInv, MsgTyped
  <2>2. RemoveMsg(m, frames)
    BY <1>1, <2>1 DEF Complete, Expecting
  <2> QED BY <2>2, RemoveMsgKeeps
<1>2. CASE ~(Expecting /\ left = NoId /\ rest = "none")
  <2>1. /\ expectedCallbackId' = left /\ expectedReply' = rest /\ air' = frames
        /\ UNCHANGED << currentMsg, waitingForAck, deleted, msgVars, reportVars, nodeVars >>
    BY <1>2 DEF Complete, Expecting
  <2>2. MsgTyped'
    BY <2>1 DEF TxInv, MsgTyped, msgVars, reportVars, nodeVars
  <2>3. AirTyped'
    BY <2>1 DEF TxInv, AirTyped, msgVars, nodeVars
  <2>4. NonceInv'
    BY <2>1, NonceKept DEF TxInv, msgVars, nodeVars
  <2> QED BY <2>1, <2>2, <2>3, <2>4 DEF TxInv, Expecting
<1> QED BY <1>1, <1>2

-----------------------------------------------------------------------------
(* The steps. *)

LEMMA NonceReportKeeps == ASSUME TxInv, ReceiveNonceReport PROVE TxInv'
<1>1. PICK f \in air :
        /\ f.kind = "nonceReport"
        /\ IF currentMsg = NoMsg
           THEN /\ crashed' = TRUE
                /\ air' = air \ {f}
                /\ UNCHANGED << expectedCallbackId, callbackId, nonce, nodeVars, owed >>
           ELSE LET id == << currentMsg, callbackId[currentMsg] + 1 >>
                IN  /\ callbackId' = [callbackId EXCEPT ![currentMsg] = id[2]]
                    /\ expectedCallbackId' = id
                    /\ SendEncryptedMessage(currentMsg, id, f.nonce, owed, air \ {f})
                    /\ UNCHANGED crashed
        /\ UNCHANGED << placeVars, deleted, currentMsg, expectedReply, waitingForAck, sendAttempts, reportVars, boundVars >>
  BY DEF ReceiveNonceReport
<1>2. CASE currentMsg = NoMsg
  <2>1. /\ air' = air \ {f} /\ UNCHANGED << expectedCallbackId, callbackId, nonce, nodeVars, owed >>
        /\ UNCHANGED << deleted, currentMsg, expectedReply, waitingForAck, sendAttempts, reportVars >>
    BY <1>1, <1>2
  <2>2. MsgTyped'
    BY <2>1 DEF TxInv, MsgTyped, nodeVars, reportVars
  <2>3. AirTyped'
    BY <2>1 DEF TxInv, AirTyped, nodeVars
  <2>4. NonceInv'
    BY <2>1, NonceKept DEF TxInv, nodeVars
  <2> QED BY <2>1, <2>2, <2>3, <2>4 DEF TxInv, Expecting
<1>3. CASE currentMsg # NoMsg
  <2>1. PICK m \in Msg : m = currentMsg
    BY <1>3 DEF TxInv, MsgTyped
  <2>2. PICK k \in Nat : k = callbackId[m] + 1
    BY DEF TxInv, MsgTyped
  <2>3. PICK id \in Msg \X Nat : id = << m, k >> /\ id[2] = k
    <3>1. << m, k >> \in Msg \X Nat /\ << m, k >>[2] = k
      OBVIOUS
    <3> QED BY <3>1
  <2>4. /\ callbackId' = [callbackId EXCEPT ![m] = k] /\ expectedCallbackId' = id
        /\ SendEncryptedMessage(m, id, f.nonce, owed, air \ {f})
        /\ UNCHANGED << deleted, currentMsg, expectedReply, waitingForAck, sendAttempts, reportVars >>
    BY <1>1, <1>3, <2>1, <2>2, <2>3
  <2>5. PICK x \in Nat : x = f.nonce /\ x \in 1 .. Len(nonces) /\ nonces[x].uses = 0
    BY <1>1 DEF TxInv, NonceInv, AirTyped
  <2>6. PICK frames : frames = air \ {f}
    OBVIOUS
  <2>7. frames \subseteq air /\ \A g \in frames : g.kind = "nonceReport" => g.nonce # x
    BY <1>1, <2>5, <2>6 DEF TxInv, NonceInv
  <2>8. SendEncryptedMessage(m, id, x, owed, frames)
    BY <2>4, <2>5, <2>6
  <2>9. PICK o \in 0 .. MaxOwed : o = owed
    BY DEF TxInv, AirTyped
  <2>10. AirTyped' /\ NonceInv' /\ sent' = sent \cup {m}
    BY <2>5, <2>7, <2>8, <2>9, SendKeeps
  <2>11. MsgTyped'
    BY <2>2, <2>4, <2>10 DEF TxInv, MsgTyped, reportVars
  <2> QED BY <1>3, <2>4, <2>10, <2>11 DEF TxInv
<1> QED BY <1>2, <1>3

LEMMA NonceGetKeeps == ASSUME TxInv, ReceiveNonceGet PROVE TxInv'
<1>1. PICK f \in air :
        /\ f.kind = "nonceGet" /\ SendNonceKey(f.node, owed, air \ {f})
        /\ UNCHANGED << placeVars, deleted, currentMsg, expectVars, msgVars, nonceReportSentAttempt, crashed, boundVars >>
  BY DEF ReceiveNonceGet
<1>2. PICK n \in Node : n = f.node
  <2>1. f \in Frame
    BY DEF TxInv, AirTyped
  <2> QED BY <1>1, <2>1, FrameFields
<1>3. PICK frames : frames = air \ {f}
  OBVIOUS
<1>4. PICK o \in 0 .. MaxOwed : o = owed
  BY DEF TxInv, AirTyped
<1>5. SendNonceKey(n, o, frames) /\ frames \subseteq air /\ nonce' = nonce
  BY <1>1, <1>2, <1>3, <1>4 DEF msgVars
<1>6. AirTyped' /\ NonceInv' /\ nonceReportSent' = n
  BY <1>5, SendNonceKeyKeeps DEF TxInv
<1>7. MsgTyped'
  <2>1. /\ UNCHANGED << deleted, currentMsg, expectedCallbackId, expectedReply, waitingForAck,
                        sendAttempts, callbackId, nonceReportSentAttempt, sent >>
    BY <1>1 DEF expectVars, msgVars, SendNonceKey, nodeVars
  <2> QED BY <1>6, <2>1 DEF TxInv, MsgTyped
<1> QED BY <1>1, <1>6, <1>7 DEF TxInv, Expecting, expectVars

\* An encrypted report ends the current message or changes no message.
LEMMA EncapCases ==
  ASSUME TxInv, ReceiveEncap
  PROVE  /\ UNCHANGED << placeVars, owed, crashed, boundVars >>
         /\ \E f \in air :
              /\ f.kind = "encap"
              /\ \/ currentMsg # NoMsg /\ RemoveMsg(currentMsg, air \ {f})
                 \/ /\ nonceReportSent' = NoNode /\ nonceReportSentAttempt' = 0 /\ air' = air \ {f}
                    /\ UNCHANGED << deleted, currentMsg, expectedCallbackId, expectedReply, msgVars, nodeVars >>
                    /\ waitingForAck' \in BOOLEAN /\ (waitingForAck' => waitingForAck)
<1>1. PICK f \in air : f.kind = "encap" /\ (Decrypt(f) \/ RemoveCurrentMsg(air \ {f}))
  BY DEF ReceiveEncap
<1>2. CASE Decrypt(f)
  <2>1. CASE f.age < Slots /\ Answers(f) /\ expectedReply = "report"
    BY <1>1, <1>2, <2>1 DEF Decrypt, Answers, ReceiveEncap
  <2>2. CASE ~(f.age < Slots /\ Answers(f) /\ expectedReply = "report")
    BY <1>1, <1>2, <2>2 DEF Decrypt, ReceiveEncap, expectVars, TxInv, MsgTyped
  <2> QED BY <2>1, <2>2
<1>3. CASE RemoveCurrentMsg(air \ {f})
  <2>1. CASE currentMsg # NoMsg
    BY <1>1, <1>3, <2>1 DEF RemoveCurrentMsg, ReceiveEncap
  <2>2. CASE currentMsg = NoMsg
    BY <1>1, <1>3, <2>2 DEF RemoveCurrentMsg, Forget, ReceiveEncap, TxInv, Expecting
  <2> QED BY <2>1, <2>2
<1> QED BY <1>1, <1>2, <1>3

LEMMA EncapKeeps == ASSUME TxInv, ReceiveEncap PROVE TxInv'
<1>1. PICK f \in air :
        \/ currentMsg # NoMsg /\ RemoveMsg(currentMsg, air \ {f})
        \/ /\ nonceReportSent' = NoNode /\ nonceReportSentAttempt' = 0 /\ air' = air \ {f}
           /\ UNCHANGED << deleted, currentMsg, expectedCallbackId, expectedReply, msgVars, nodeVars >>
           /\ waitingForAck' \in BOOLEAN /\ (waitingForAck' => waitingForAck)
  BY EncapCases
<1>2. owed' \in 0 .. MaxOwed
  BY EncapCases DEF TxInv, AirTyped
<1>3. CASE currentMsg # NoMsg /\ RemoveMsg(currentMsg, air \ {f})
  <2>1. PICK m \in Msg : m = currentMsg
    BY <1>3 DEF TxInv, MsgTyped
  <2>2. PICK frames : frames = air \ {f} /\ frames \subseteq air
    OBVIOUS
  <2>3. RemoveMsg(m, frames)
    BY <1>3, <2>1, <2>2
  <2> QED BY <1>2, <2>2, <2>3, RemoveMsgKeeps
<1>4. CASE /\ nonceReportSent' = NoNode /\ nonceReportSentAttempt' = 0 /\ air' = air \ {f}
           /\ UNCHANGED << deleted, currentMsg, expectedCallbackId, expectedReply, msgVars, nodeVars >>
           /\ waitingForAck' \in BOOLEAN /\ (waitingForAck' => waitingForAck)
  <2>2. 0 \in 0 .. MaxTries
    BY SecureAssumption
  <2>3. MsgTyped'
    BY <1>4, <2>2 DEF TxInv, MsgTyped, msgVars, nodeVars
  <2>4. AirTyped'
    BY <1>2, <1>4 DEF TxInv, AirTyped, msgVars, nodeVars
  <2>5. NonceInv'
    BY <1>4, NonceKept DEF TxInv, msgVars, nodeVars
  <2> QED BY <1>4, <2>3, <2>4, <2>5 DEF TxInv, Expecting
<1> QED BY <1>1, <1>3, <1>4

LEMMA ReportKeeps == ASSUME TxInv, ReceiveReport PROVE TxInv'
<1>1. PICK f \in air : Complete(NoId, IF Answers(f) THEN "report" ELSE "none", air \ {f}) /\ owed' = owed
  BY DEF ReceiveReport
<1>2. PICK reply, frames : reply = (IF Answers(f) THEN "report" ELSE "none") /\ frames = air \ {f}
                           /\ frames \subseteq air
  OBVIOUS
<1>3. Complete(NoId, reply, frames)
  BY <1>1, <1>2
<1>4. owed' \in 0 .. MaxOwed
  BY <1>1 DEF TxInv, AirTyped
<1> QED BY <1>2, <1>3, <1>4, CompleteKeeps

\* MoveMessagesToWakeUpQueue, as far as the transaction goes.
LEMMA ParkKeeps ==
  ASSUME TxInv, NEW n, NEW frames, frames \subseteq air, Park(n, frames), owed' = owed,
         currentMsg # NoMsg
  PROVE  TxInv'
<1>1. /\ currentMsg' = NoMsg /\ expectedCallbackId' = NoId /\ expectedReply' = "none"
      /\ waitingForAck' = FALSE /\ sendAttempts' = [sendAttempts EXCEPT ![currentMsg] = 0]
      /\ UNCHANGED << deleted, callbackId, nonce, reportVars, nodeVars >>
  BY DEF Park, Forget
<1>2. air' \subseteq air
  BY DEF Park, Left
<1>3. sendAttempts' \in [Msg -> 0 .. MaxTries]
  BY <1>1, SecureAssumption DEF TxInv, MsgTyped
<1>4. MsgTyped'
  BY <1>1, <1>3 DEF TxInv, MsgTyped, reportVars, nodeVars
<1>5. AirTyped'
  BY <1>1, <1>2 DEF TxInv, AirTyped, nodeVars
<1>6. NonceInv'
  BY <1>1, <1>2, NonceKept DEF TxInv, nodeVars
<1> QED BY <1>1, <1>4, <1>5, <1>6 DEF TxInv, Expecting

LEMMA CallbackKeeps == ASSUME TxInv, ReceiveCallback PROVE TxInv'
<1>1. PICK f \in air, noAck \in BOOLEAN :
        LET rest == air \ {f}
            mine == f.id \in NonceIds \/ f.id = expectedCallbackId
        IN  /\ f.kind = "callback"
            /\ IF noAck /\ mine /\ currentMsg # NoMsg /\ Target[currentMsg] \in Sleepy
               THEN /\ Overlap \/ nonceReportSent = NoNode
                    /\ Park(Target[currentMsg], rest)
               ELSE /\ IF f.id \in NonceIds /\ expectedCallbackId # NoId
                       THEN Complete(NoId, "none", rest)
                       ELSE Complete(f.id, "sendData", rest)
                    /\ UNCHANGED << queue, parked, awake >>
            /\ UNCHANGED << fresh, owed, crashed, boundVars >>
  BY DEF ReceiveCallback
<1>2. PICK frames : frames = air \ {f} /\ frames \subseteq air
  OBVIOUS
<1>3. owed' = owed /\ owed' \in 0 .. MaxOwed
  BY <1>1 DEF TxInv, AirTyped
<1>4. \/ currentMsg # NoMsg /\ Park(Target[currentMsg], frames)
      \/ Complete(NoId, "none", frames)
      \/ Complete(f.id, "sendData", frames)
  BY <1>1, <1>2
<1> QED BY <1>2, <1>3, <1>4, ParkKeeps, CompleteKeeps

LEMMA AckKeeps == ASSUME TxInv, ReceiveAck PROVE TxInv'
<1>1. owed > 0 /\ owed' = owed - 1 /\ owed' \in 0 .. MaxOwed
  BY SecureAssumption DEF ReceiveAck, TxInv, AirTyped
<1>2. CASE currentMsg # NoMsg /\ expectedCallbackId = NoId /\ expectedReply = "none"
  <2>1. PICK m \in Msg : m = currentMsg
    BY <1>2 DEF TxInv, MsgTyped
  <2>2. RemoveMsg(m, air)
    BY <1>2, <2>1 DEF ReceiveAck
  <2> QED BY <1>1, <2>2, RemoveMsgKeeps
<1>3. CASE ~(currentMsg # NoMsg /\ expectedCallbackId = NoId /\ expectedReply = "none")
  <2>1. waitingForAck' = FALSE
        /\ UNCHANGED << currentMsg, expectedCallbackId, expectedReply, deleted, msgVars, reportVars, nodeVars, air >>
    BY <1>3 DEF ReceiveAck
  <2>2. MsgTyped'
    BY <2>1 DEF TxInv, MsgTyped, msgVars, reportVars, nodeVars
  <2>3. AirTyped'
    BY <1>1, <2>1 DEF TxInv, AirTyped, msgVars, nodeVars
  <2>4. NonceInv'
    BY <2>1, NonceKept DEF TxInv, msgVars, nodeVars
  <2> QED BY <2>1, <2>2, <2>3, <2>4 DEF TxInv, Expecting
<1> QED BY <1>2, <1>3

LEMMA NewsKeeps == ASSUME TxInv, NEW n \in Node, DeviceNews(n) PROVE TxInv'
<1>1. PICK f \in Frame : f = [kind |-> "nonceGet", node |-> n, about |-> NoMsg] /\ f.kind = "nonceGet"
  <2>1. NoMsg \in Msg \cup {NoMsg} /\ "nonceGet" \in {"nonceGet", "report"}
    OBVIOUS
  <2>2. [kind |-> "nonceGet", node |-> n, about |-> NoMsg] \in Frame
    BY <2>1, NodeFrame
  <2> QED BY <2>2
<1>2. /\ air' = air \cup {f} /\ wants' = [wants EXCEPT ![n] = NoMsg]
      /\ UNCHANGED << deleted, currentMsg, expectVars, msgVars, reportVars, nonces, sent, owed >>
  BY <1>1 DEF DeviceNews
<1>3. MsgTyped'
  BY <1>2 DEF TxInv, MsgTyped, expectVars, msgVars, reportVars
<1>4. AirTyped'
  BY <1>2 DEF TxInv, AirTyped, msgVars
<1>5. NonceInv'
  BY <1>1, <1>2, NonceKept DEF TxInv, msgVars
<1> QED BY <1>2, <1>3, <1>4, <1>5 DEF TxInv, Expecting, expectVars

\* Steps that leave the transaction alone.
LEMMA UntouchedKeeps ==
  ASSUME TxInv,
         UNCHANGED << deleted, currentMsg, expectVars, msgVars, reportVars, nodeVars, air, owed >>
  PROVE  TxInv'
<1>1. MsgTyped'
  BY DEF TxInv, MsgTyped, expectVars, msgVars, reportVars, nodeVars
<1>2. AirTyped'
  BY DEF TxInv, AirTyped, msgVars, nodeVars
<1>3. NonceInv'
  BY NonceKept DEF TxInv, msgVars, nodeVars
<1> QED BY <1>1, <1>2, <1>3 DEF TxInv, Expecting, expectVars

LEMMA WriteNextKeeps == ASSUME TxInv, PlaceTyped, WriteNextMsg PROVE TxInv'
<1>1. PICK m \in Msg : m = Head(queue)
  BY TailList DEF WriteNextMsg, PlaceTyped
<1>2. PICK o \in 0 .. MaxOwed : o = owed
  BY DEF TxInv, AirTyped
<1>3. WriteMsg(m, o)
  BY <1>1, <1>2 DEF WriteNextMsg
<1> QED BY <1>3, WriteMsgKeeps

LEMMA InitTx == Init => TxInv /\ PlaceTyped
<1> SUFFICES ASSUME Init PROVE TxInv /\ PlaceTyped
  OBVIOUS
<1>0. 0 \in 0 .. MaxTries /\ 0 \in 0 .. MaxOwed /\ 0 \in 0 .. News /\ 0 \in 0 .. Wakes
  BY SecureAssumption
<1>1. MsgTyped
  BY <1>0 DEF Init, MsgTyped
<1>2. AirTyped
  <2>1. nonces \in Seq([node : Node, uses : Nat]) /\ Len(nonces) = 0
    BY DEF Init
  <2>2. nonce \in [Msg -> 0 .. Len(nonces)]
    BY <2>1 DEF Init
  <2> QED BY <2>1, <2>2, SecureAssumption DEF Init, AirTyped
<1>3. NonceInv
  BY DEF Init, NonceInv, NonceOnce
<1>4. PlaceTyped
  <2>1. << >> \in Seq(Msg)
    OBVIOUS
  <2> QED BY <1>0, <2>1 DEF Init, PlaceTyped
<1> QED BY <1>1, <1>2, <1>3, <1>4 DEF Init, TxInv, Expecting

LEMMA NextTx == ASSUME TxInv, PlaceTyped, [Next]_vars PROVE TxInv'
<1>1. CASE UNCHANGED vars
  BY <1>1, UntouchedKeeps DEF vars
<1>2. CASE WaitTimeout
  <2>1. PICK o \in 0 .. MaxOwed : o = owed
    BY DEF TxInv, AirTyped
  <2>2. Resend(o)
    BY <1>2, <2>1 DEF WaitTimeout
  <2> QED BY <2>2, ResendKeeps
<1>3. CASE ReceiveNak
  <2>1. PICK o \in 0 .. MaxOwed : o = owed - 1
    BY <1>3, SecureAssumption DEF TxInv, AirTyped, ReceiveNak
  <2>2. Resend(o)
    BY <1>3, <2>1 DEF ReceiveNak
  <2> QED BY <2>2, ResendKeeps
<1>4. CASE \E m \in Msg : SendMsg(m)
  BY <1>4, UntouchedKeeps DEF SendMsg
<1>5. CASE \E n \in Node : WakesUp(n)
  BY <1>5, UntouchedKeeps DEF WakesUp
<1> QED BY <1>1, <1>2, <1>3, <1>4, <1>5, WriteNextKeeps, AckKeeps, CallbackKeeps, NonceReportKeeps,
          NonceGetKeeps, EncapKeeps, ReportKeeps, NewsKeeps DEF Next, Receive

-----------------------------------------------------------------------------
(* The types of the places. *)

\* What Park leaves in the queue and puts behind what is parked.
LEMMA ParkLists ==
  ASSUME PlaceTyped, NEW n \in Node, NEW m \in Msg, NEW S \in SUBSET Msg, NEW R \in SUBSET Msg,
         NEW old \in Seq(Msg), NEW one, one = << m >>, NEW mine, mine = Keep(queue, S),
         NEW others, others = Keep(queue, R)
  PROVE  /\ old \o one \o mine \in Seq(Msg) /\ others \in Seq(Msg)
         /\ Range(old \o one \o mine) = Range(old) \cup {m} \cup (Range(queue) \cap S)
         /\ Range(others) = Range(queue) \cap R
         /\ IsInjective(queue) => IsInjective(others)
         /\ IsInjective(queue) /\ IsInjective(old) /\ m \notin Range(old) /\ m \notin Range(queue)
              /\ Range(old) \cap Range(queue) = {}
            => IsInjective(old \o one \o mine)
<1>1. queue \in Seq(Msg)
  BY DEF PlaceTyped
<1>2. /\ Range(mine) = Range(queue) \cap S /\ (IsInjective(queue) => IsInjective(mine))
      /\ Range(others) = Range(queue) \cap R /\ (IsInjective(queue) => IsInjective(others))
  BY <1>1, KeepList
<1>3. mine \in Seq(Msg \cap S) /\ others \in Seq(Msg \cap R)
  BY <1>1, KeepType
<1>4. mine \in Seq(Msg) /\ others \in Seq(Msg)
  <2>1. Msg \cap S = S /\ Msg \cap R = R
    OBVIOUS
  <2> QED BY <1>3
<1>5. one \in Seq(Msg) /\ Range(one) = {m} /\ IsInjective(one)
  BY DEF Range, IsInjective
<1>6. PICK p \in Seq(Msg) : p = old \o one
  <2>1. old \o one \in Seq(Msg)
    BY <1>5, ConcatList
  <2> QED BY <2>1
<1>7. Range(p) = Range(old) \cup {m} /\ (IsInjective(old) /\ m \notin Range(old) => IsInjective(p))
  <2>1. /\ Range(old \o one) = Range(old) \cup Range(one)
        /\ IsInjective(old) /\ IsInjective(one) /\ Range(old) \cap Range(one) = {} => IsInjective(old \o one)
    BY <1>5, ConcatList
  <2> QED BY <1>5, <1>6, <2>1
<1>8. /\ p \o mine \in Seq(Msg) /\ Range(p \o mine) = Range(p) \cup Range(mine)
      /\ IsInjective(p) /\ IsInjective(mine) /\ Range(p) \cap Range(mine) = {} => IsInjective(p \o mine)
  BY <1>4, ConcatList
<1> QED BY <1>2, <1>4, <1>6, <1>7, <1>8

LEMMA ParkTyped ==
  ASSUME PlaceTyped, TxInv, NEW n \in Node, NEW frames, Park(n, frames), currentMsg # NoMsg,
         UNCHANGED << fresh, crashed, news, wakes >>
  PROVE  PlaceTyped'
<1>1. PICK m \in Msg : m = currentMsg
  BY DEF TxInv, MsgTyped
<1>2. PICK S \in SUBSET Msg, R \in SUBSET Msg :
        S = { k \in Msg : Target[k] = n } /\ R = { k \in Msg : Target[k] # n }
  OBVIOUS
<1>3. PICK old \in Seq(Msg) : old = parked[n]
  BY DEF PlaceTyped
<1>4. PICK one, mine, others : one = << m >> /\ mine = Keep(queue, S) /\ others = Keep(queue, R)
  OBVIOUS
<1>5. old \o one \o mine \in Seq(Msg) /\ others \in Seq(Msg)
  BY <1>4, ParkLists
<1>6. parked' = [parked EXCEPT ![n] = old \o one \o mine] /\ queue' = others
      /\ awake' = [awake EXCEPT ![n] = FALSE]
  BY <1>1, <1>2, <1>3, <1>4 DEF Park
<1>7. parked' \in [Node -> Seq(Msg)] /\ awake' \in [Node -> BOOLEAN]
  BY <1>5, <1>6 DEF PlaceTyped
<1> QED BY <1>5, <1>6, <1>7 DEF PlaceTyped

LEMMA NextTyped == ASSUME TxInv, PlaceTyped, [Next]_vars PROVE PlaceTyped'
<1>0. ASSUME UNCHANGED << fresh, queue, parked, awake, crashed, news, wakes >> PROVE PlaceTyped'
  BY <1>0 DEF PlaceTyped
<1>1. CASE UNCHANGED vars \/ WaitTimeout \/ ReceiveNak \/ ReceiveAck \/ ReceiveNonceGet
           \/ ReceiveEncap \/ ReceiveReport
  BY <1>0, <1>1 DEF vars, placeVars, boundVars, WaitTimeout, ReceiveNak, ReceiveAck,
                    ReceiveNonceGet, ReceiveEncap, ReceiveReport
<1>2. CASE WriteNextMsg
  <2>1. Tail(queue) \in Seq(Msg) /\ queue' = Tail(queue)
    BY <1>2, TailList DEF WriteNextMsg, PlaceTyped
  <2> QED BY <1>2, <2>1 DEF WriteNextMsg, PlaceTyped, boundVars
<1>3. CASE ReceiveNonceReport
  <2>1. crashed' \in BOOLEAN /\ UNCHANGED << placeVars, boundVars >>
    BY <1>3 DEF ReceiveNonceReport, PlaceTyped
  <2> QED BY <2>1 DEF PlaceTyped, placeVars, boundVars
<1>4. CASE ReceiveCallback
  <2>1. PICK f \in air, noAck \in BOOLEAN :
          LET rest == air \ {f}
              mine == f.id \in NonceIds \/ f.id = expectedCallbackId
          IN  /\ IF noAck /\ mine /\ currentMsg # NoMsg /\ Target[currentMsg] \in Sleepy
                 THEN Park(Target[currentMsg], rest)
                 ELSE UNCHANGED << queue, parked, awake >>
              /\ UNCHANGED << fresh, owed, crashed, boundVars >>
    BY <1>4 DEF ReceiveCallback
  <2>2. CASE UNCHANGED << queue, parked, awake >>
    BY <1>0, <2>1, <2>2 DEF boundVars
  <2>3. CASE currentMsg # NoMsg /\ Park(Target[currentMsg], air \ {f})
    <3>1. PICK n \in Node : n = Target[currentMsg]
      BY <2>3, SecureAssumption DEF TxInv, MsgTyped
    <3>2. PICK frames : frames = air \ {f}
      OBVIOUS
    <3> QED BY <2>1, <2>3, <3>1, <3>2, ParkTyped DEF boundVars
  <2> QED BY <2>1, <2>2, <2>3
<1>5. ASSUME NEW m \in Msg, SendMsg(m) PROVE PlaceTyped'
  <2>1. PICK n \in Node : n = Target[m]
    BY SecureAssumption
  <2>2. Append(queue, m) \in Seq(Msg) /\ Append(parked[n], m) \in Seq(Msg)
    BY DEF PlaceTyped
  <2>3. queue' \in Seq(Msg) /\ parked' \in [Node -> Seq(Msg)]
    BY <1>5, <2>1, <2>2 DEF SendMsg, PlaceTyped
  <2> QED BY <1>5, <2>3 DEF SendMsg, PlaceTyped, boundVars
<1>6. ASSUME NEW n \in Node, DeviceNews(n) PROVE PlaceTyped'
  <2>1. news' \in 0 .. News
    BY <1>6, SecureAssumption DEF DeviceNews, PlaceTyped
  <2> QED BY <1>6, <2>1 DEF DeviceNews, PlaceTyped, placeVars
<1>7. ASSUME NEW n \in Node, WakesUp(n) PROVE PlaceTyped'
  <2>1. wakes' \in 0 .. Wakes
    BY <1>7, SecureAssumption DEF WakesUp, PlaceTyped
  <2>2. queue \o parked[n] \in Seq(Msg) /\ << >> \in Seq(Msg)
    BY DEF PlaceTyped
  <2>3. queue' \in Seq(Msg) /\ parked' \in [Node -> Seq(Msg)] /\ awake' \in [Node -> BOOLEAN]
    BY <1>7, <2>2 DEF WakesUp, PlaceTyped
  <2> QED BY <1>7, <2>1, <2>3 DEF WakesUp, PlaceTyped
<1> QED BY <1>1, <1>2, <1>3, <1>4, <1>5, <1>6, <1>7 DEF Next, Receive

LEMMA TxInvariant == Spec => [](TxInv /\ PlaceTyped)
<1>1. TxInv /\ PlaceTyped /\ [Next]_vars => (TxInv /\ PlaceTyped)'
  BY NextTx, NextTyped
<1> QED BY <1>1, InitTx, PTL DEF Spec

\* However often a message is sent again, whatever comes late and whichever message is current
\* when a nonce comes, no nonce encrypts two transmissions: clearNonce of
\* SendEncryptedMessage, for any number of nodes, messages and retries.
THEOREM NonceOnceCorrect == Spec => []NonceOnce
<1>1. TxInv => NonceOnce
  BY DEF TxInv, NonceInv
<1> QED BY <1>1, TxInvariant, PTL

-----------------------------------------------------------------------------
(* Every message in one place, when what the nodes report of their own accord *)
(* meets no other message and no frame outlives the message it is about.      *)

Idle == currentMsg = NoMsg /\ queue = << >>

\* What is expected is expected for the current message, and for that something is.
AnswerInv ==
  /\ currentMsg = NoMsg => ~Busy
  /\ currentMsg # NoMsg => Expecting
  /\ currentMsg \in Get => expectedReply = "report"

\* The frames on the way are about the current message; or they are news, and nothing else
\* is to be done. A node that asks for a nonce, and the one that a nonce went to, wants it
\* for the report that is due.
AirInv ==
  /\ \A f \in air : f.about \in {NoMsg, currentMsg} /\ (f.about = NoMsg => Idle)
  /\ \A f \in air : f.kind = "nonceGet" => wants[f.node] = f.about /\ f.about \in Get \cup {NoMsg}
  /\ nonceReportSent # NoNode =>
       \/ currentMsg \in Get /\ wants[nonceReportSent] = currentMsg
       \/ Idle /\ wants[nonceReportSent] = NoMsg

\* No frame is about another message than m.
OnlyAbout(m) ==
  \A f \in air : f.about = m /\ (f.kind = "nonceGet" => wants[f.node] = m /\ m \in Get)

LEMMA AboutCurrent ==
  ASSUME TxInv, AirInv, currentMsg # NoMsg
  PROVE  OnlyAbout(currentMsg)
BY SecureAssumption DEF AirInv, OnlyAbout, Idle, TxInv, MsgTyped

LEMMA NothingInAir ==
  ASSUME AnswerInv, AirInv, ~Busy, queue # << >>
  PROVE  air = {} /\ nonceReportSent = NoNode /\ currentMsg = NoMsg
<1>1. currentMsg = NoMsg /\ ~Idle
  BY DEF AnswerInv, Busy, Expecting, Idle
<1> QED BY <1>1, SecureAssumption DEF AirInv

\* Nothing is left of a message that is removed.
LEMMA RemovedAnswers ==
  ASSUME ~Late, NEW m \in Msg, NEW frames, frames \subseteq air, \A f \in air : f.about = m,
         RemoveMsg(m, frames)
  PROVE  AnswerInv' /\ AirInv'
<1>1. air' = {}
  BY DEF RemoveMsg, Left
<1>2. nonceReportSent' = NoNode /\ currentMsg' = NoMsg /\ ~Busy' /\ NoMsg \notin Get
  BY SecureAssumption DEF RemoveMsg, Forget, Busy
<1> QED BY <1>1, <1>2 DEF AnswerInv, AirInv

\* What is sent for m is about m.
LEMMA SendAbout ==
  ASSUME TxInv, NEW m \in Msg, NEW id, NEW x, NEW o, NEW frames, frames \subseteq air, OnlyAbout(m),
         SendEncryptedMessage(m, id, x, o, frames)
  PROVE  OnlyAbout(m)' /\ \A n \in Node : wants[n] = m => wants'[n] = m
<1> DEFINE cb == Callback(id, m)
           answer == [kind |-> IF m \in Encrypted THEN "nonceGet" ELSE "report",
                      node |-> Target[m], about |-> m]
<1>1. cb.kind = "callback" /\ cb.about = m /\ answer.about = m /\ answer.node = Target[m]
  BY DEF Callback
<1>2. \/ air' = frames \cup {cb} /\ wants' = wants
      \/ air' = frames \cup {cb, answer} /\ wants' = [wants EXCEPT ![Target[m]] = m] /\ m \in Get
  <2>1. CASE m \notin Get \/ ~(m \notin Encrypted \/ (nonces[x].node = Target[m] /\ nonces[x].uses = 0))
    BY <2>1 DEF SendEncryptedMessage, Send
  <2>2. CASE ~(m \notin Get \/ ~(m \notin Encrypted \/ (nonces[x].node = Target[m] /\ nonces[x].uses = 0)))
    BY <2>2 DEF SendEncryptedMessage, Send
  <2> QED BY <2>1, <2>2
<1> HIDE DEF cb, answer
<1>3. wants \in [Node -> Msg \cup {NoMsg}] /\ Target[m] \in Node
  BY SecureAssumption DEF TxInv, AirTyped
<1>4. \A n \in Node : (wants[n] = m => wants'[n] = m)
  BY <1>2, <1>3
<1>5. \A f \in frames : f.kind = "nonceGet" => f.node \in Node
  BY FrameFields DEF TxInv, AirTyped
<1>6. ASSUME NEW f \in air' PROVE f.about = m /\ (f.kind = "nonceGet" => wants'[f.node] = m /\ m \in Get)
  <2>1. CASE f \in frames
    BY <1>4, <1>5, <2>1 DEF OnlyAbout
  <2>2. CASE f = cb
    BY <1>1, <2>2
  <2>3. CASE f = answer /\ wants' = [wants EXCEPT ![Target[m]] = m] /\ m \in Get
    BY <1>1, <1>3, <2>3
  <2> QED BY <1>2, <1>6, <2>1, <2>2, <2>3
<1> QED BY <1>4, <1>6 DEF OnlyAbout

LEMMA RequestAbout ==
  ASSUME NEW m \in Msg, NEW o, OnlyAbout(m), SendNonceRequest(m, o)
  PROVE  OnlyAbout(m)'
<1> DEFINE cb == Callback(NonceGetId, m)
           nr == [kind |-> "nonceReport", nonce |-> Len(nonces'), about |-> m]
<1>1. cb.kind = "callback" /\ cb.about = m /\ nr.about = m /\ nr.kind = "nonceReport"
  BY DEF Callback
<1>2. air' = air \cup {cb, nr} /\ wants' = wants
  BY DEF SendNonceRequest
<1> HIDE DEF cb, nr
<1> QED BY <1>1, <1>2 DEF OnlyAbout

LEMMA AboutAnswers ==
  ASSUME NEW m \in Msg, OnlyAbout(m)', currentMsg' = m, nonceReportSent' = NoNode
  PROVE  AirInv'
BY SecureAssumption DEF OnlyAbout, AirInv

LEMMA TransmitAnswers ==
  ASSUME TxInv, NEW m \in Msg, NEW o, OnlyAbout(m), nonceReportSent = NoNode, Transmit(m, o)
  PROVE  AnswerInv' /\ AirInv'
<1>1. /\ currentMsg' = m /\ nonceReportSent' = NoNode
      /\ expectedCallbackId' = << m, IF sendAttempts[m] = 0 THEN callbackId[m] ELSE callbackId[m] + 1 >>
      /\ expectedReply' = IF m \in Get THEN "report" ELSE "sendData"
  BY DEF Transmit, reportVars
<1>2. expectedCallbackId' # NoId /\ m # NoMsg
  BY <1>1, SecureAssumption DEF NoId
<1>3. AnswerInv'
  BY <1>1, <1>2 DEF AnswerInv, Expecting
<1>4. OnlyAbout(m)'
  <2>1. CASE m \in Encrypted /\ nonce[m] = 0
    BY <2>1, RequestAbout DEF Transmit
  <2>2. CASE ~(m \in Encrypted /\ nonce[m] = 0)
    <3>1. PICK id, x : SendEncryptedMessage(m, id, x, o, air)
      BY <2>2 DEF Transmit
    <3> QED BY <3>1, SendAbout
  <2> QED BY <2>1, <2>2
<1> QED BY <1>1, <1>3, <1>4, AboutAnswers

\* The report of a nonce is about what the node wants it for.
LEMMA KeyAbout ==
  ASSUME TxInv, AirInv, NEW n \in Node, NEW o, NEW frames, frames \subseteq air, SendNonceKey(n, o, frames),
         wants[n] \in {NoMsg, currentMsg}, wants[n] = NoMsg => Idle,
         \/ currentMsg \in Get /\ wants[n] = currentMsg
         \/ Idle /\ wants[n] = NoMsg,
         currentMsg' = currentMsg, queue' = queue
  PROVE  AirInv'
<1> DEFINE cb == Callback(NonceReportId, wants[n])
           ec == [kind |-> "encap", node |-> n, age |-> 0, about |-> wants[n]]
<1>1. cb.kind = "callback" /\ cb.about = wants[n] /\ ec.kind = "encap" /\ ec.about = wants[n]
  BY DEF Callback
<1>2. air' = Older(frames, n) \cup {cb, ec} /\ wants' = wants /\ nonceReportSent' = n
  BY DEF SendNonceKey, nodeVars
<1> HIDE DEF cb, ec
<1>3. \A g \in Older(frames, n) : g \in frames \/
        (g.kind = "encap" /\ \E f \in frames : f.about = g.about)
  BY OlderFrames DEF TxInv, AirTyped
<1>4. Idle' = Idle
  BY DEF Idle
<1>5. \A f \in air' : f.about \in {NoMsg, currentMsg} /\ (f.about = NoMsg => Idle)
  BY <1>1, <1>2, <1>3 DEF AirInv
<1>6. \A f \in air' : f.kind = "nonceGet" => f \in air
  BY <1>1, <1>2, <1>3
<1> QED BY <1>2, <1>4, <1>5, <1>6 DEF AirInv

LEMMA WriteAnswers ==
  ASSUME ~Late, TxInv, AnswerInv, AirInv, NEW m \in Msg, NEW o, m = currentMsg, WriteMsg(m, o), queue' = queue
  PROVE  AnswerInv' /\ AirInv'
<1>1. OnlyAbout(m) /\ currentMsg # NoMsg /\ \A f \in air : f.about = m
  BY SecureAssumption, AboutCurrent DEF OnlyAbout
<1>2. CASE RemoveMsg(m, air)
  BY <1>1, <1>2, RemovedAnswers
<1>3. CASE nonceReportSent = NoNode /\ Transmit(m, o)
  BY <1>1, <1>3, TransmitAnswers
<1>4. CASE nonceReportSent # NoNode /\ nonceReportSentAttempt < MaxTries /\ RepeatNonceReport(m, o)
  <2>1. PICK n \in Node : n = nonceReportSent
    BY <1>4 DEF TxInv, MsgTyped
  <2>2. /\ currentMsg' = m /\ SendNonceKey(n, o, air)
        /\ UNCHANGED << expectVars, deleted, msgVars >>
    <3>1. ~(nonceReportSentAttempt >= MaxTries)
      BY <1>4, SecureAssumption DEF TxInv, MsgTyped
    <3> QED BY <1>4, <2>1, <3>1 DEF RepeatNonceReport
  <2>3. currentMsg \in Get /\ wants[n] = currentMsg
    BY <1>1, <1>4, <2>1 DEF AirInv, Idle
  <2>4. AirInv'
    BY <1>1, <2>2, <2>3, KeyAbout
  <2>5. AnswerInv'
    BY <1>1, <2>2 DEF AnswerInv, Expecting, expectVars
  <2> QED BY <2>4, <2>5
<1>5. nonceReportSentAttempt >= MaxTries \/ nonceReportSentAttempt < MaxTries
  BY SecureAssumption DEF TxInv, MsgTyped
<1>6. nonceReportSent # NoNode => RepeatNonceReport(m, o)
  BY DEF WriteMsg
<1>7. nonceReportSent # NoNode /\ nonceReportSentAttempt >= MaxTries => RemoveMsg(m, air)
  BY <1>6 DEF RepeatNonceReport
<1>8. nonceReportSent = NoNode => RemoveMsg(m, air) \/ Transmit(m, o)
  BY DEF WriteMsg
<1> QED BY <1>2, <1>3, <1>4, <1>5, <1>6, <1>7, <1>8

LEMMA ResendAnswers ==
  ASSUME ~Late, TxInv, AnswerInv, AirInv, NEW o, Resend(o), queue' = queue
  PROVE  AnswerInv' /\ AirInv'
<1>1. CASE currentMsg = NoMsg
  <2>1. /\ currentMsg' = NoMsg /\ ~Busy' /\ NoMsg \notin Get
        /\ air' = air /\ wants' = wants /\ nonceReportSent' = nonceReportSent
    BY <1>1, SecureAssumption DEF Resend, Forget, Busy, nodeVars, reportVars
  <2> QED BY <1>1, <2>1 DEF AnswerInv, AirInv, Idle
<1>2. CASE currentMsg # NoMsg
  <2>1. PICK m \in Msg : m = currentMsg
    BY <1>2 DEF TxInv, MsgTyped
  <2> QED BY <1>2, <2>1, WriteAnswers DEF Resend
<1> QED BY <1>1, <1>2

\* Frames are lost or taken, and whether something is to be done stays as it is.
LEMMA FewerAnswers ==
  ASSUME AirInv, air' \subseteq air, wants' = wants, currentMsg' = currentMsg, queue' = queue,
         nonceReportSent' \in {NoNode, nonceReportSent}
  PROVE  AirInv'
BY DEF AirInv, Idle

LEMMA CompleteAnswers ==
  ASSUME ~Late, TxInv, AnswerInv, AirInv, NEW id, NEW reply, NEW frames, frames \subseteq air,
         reply = "report" => expectedCallbackId = NoId, queue' = queue, Complete(id, reply, frames)
  PROVE  AnswerInv' /\ AirInv'
<1> DEFINE left == IF expectedCallbackId = id THEN NoId ELSE expectedCallbackId
           rest == IF expectedReply = reply THEN "none" ELSE expectedReply
<1>1. CASE Expecting /\ left = NoId /\ rest = "none"
  <2>1. currentMsg # NoMsg /\ RemoveMsg(currentMsg, frames)
    BY <1>1 DEF TxInv, Complete, Expecting
  <2>2. PICK m \in Msg : m = currentMsg
    BY <2>1 DEF TxInv, MsgTyped
  <2>3. \A f \in air : f.about = m
    BY <2>1, <2>2, AboutCurrent DEF OnlyAbout
  <2> QED BY <2>1, <2>2, <2>3, RemovedAnswers
<1>2. CASE ~(Expecting /\ left = NoId /\ rest = "none")
  <2>1. /\ expectedCallbackId' = left /\ expectedReply' = rest /\ air' = frames
        /\ UNCHANGED << currentMsg, waitingForAck, deleted, msgVars, reportVars, nodeVars >>
    BY <1>2 DEF Complete, Expecting
  <2>2. AirInv'
    BY <2>1, FewerAnswers DEF reportVars, nodeVars
  <2>3. currentMsg = NoMsg => ~Busy'
    BY <2>1 DEF AnswerInv, Busy
  <2>4. currentMsg # NoMsg => Expecting'
    BY <1>2, <2>1 DEF AnswerInv, Expecting
  <2>5. currentMsg \in Get => expectedReply' = "report"
    BY <1>2, <2>1 DEF AnswerInv, Expecting
  <2> QED BY <2>1, <2>2, <2>3, <2>4, <2>5 DEF AnswerInv
<1> QED BY <1>1, <1>2

LEMMA NonceReportAnswers ==
  ASSUME TxInv, AnswerInv, AirInv, ReceiveNonceReport
  PROVE  AnswerInv' /\ AirInv'
<1>1. PICK f \in air :
        /\ f.kind = "nonceReport"
        /\ currentMsg # NoMsg =>
             LET id == << currentMsg, callbackId[currentMsg] + 1 >>
             IN  /\ expectedCallbackId' = id
                 /\ SendEncryptedMessage(currentMsg, id, f.nonce, owed, air \ {f})
        /\ UNCHANGED << placeVars, currentMsg, expectedReply, reportVars >>
  BY DEF ReceiveNonceReport
<1>2. f.about \in Msg
  BY <1>1, FrameFields DEF TxInv, AirTyped
<1>3. PICK m \in Msg : m = currentMsg /\ m # NoMsg
  BY <1>2, SecureAssumption DEF AirInv
<1>4. /\ expectedCallbackId' = << m, callbackId[m] + 1 >> /\ currentMsg' = m
      /\ expectedReply' = expectedReply /\ nonceReportSent' = nonceReportSent
      /\ SendEncryptedMessage(m, << m, callbackId[m] + 1 >>, f.nonce, owed, air \ {f})
  BY <1>1, <1>3 DEF reportVars
<1>5. OnlyAbout(m)' /\ \A n \in Node : wants[n] = m => wants'[n] = m
  <2>1. OnlyAbout(m) /\ air \ {f} \subseteq air
    BY <1>3, AboutCurrent
  <2> QED BY <1>4, <2>1, SendAbout
<1>6. AnswerInv'
  BY <1>3, <1>4, SecureAssumption DEF AnswerInv, Expecting, NoId
<1>7. nonceReportSent # NoNode => m \in Get /\ nonceReportSent \in Node /\ wants[nonceReportSent] = m
  BY <1>3 DEF TxInv, MsgTyped, AirInv, Idle
<1>8. AirInv'
  BY <1>3, <1>4, <1>5, <1>7 DEF AirInv, OnlyAbout
<1> QED BY <1>6, <1>8

LEMMA NonceGetAnswers ==
  ASSUME TxInv, AnswerInv, AirInv, ReceiveNonceGet
  PROVE  AnswerInv' /\ AirInv'
<1>1. PICK f \in air :
        /\ f.kind = "nonceGet" /\ SendNonceKey(f.node, owed, air \ {f})
        /\ UNCHANGED << placeVars, currentMsg, expectVars >>
  BY DEF ReceiveNonceGet
<1>2. PICK n \in Node : n = f.node
  BY <1>1, FrameFields DEF TxInv, AirTyped
<1>3. wants[n] = f.about /\ f.about \in Get \cup {NoMsg} /\ f.about \in {NoMsg, currentMsg}
      /\ (f.about = NoMsg => Idle)
  BY <1>1, <1>2 DEF AirInv
<1>4. currentMsg' = currentMsg /\ queue' = queue /\ air \ {f} \subseteq air
  BY <1>1 DEF placeVars
<1>5. AirInv'
  BY <1>1, <1>2, <1>3, <1>4, KeyAbout, SecureAssumption
<1>6. AnswerInv'
  BY <1>1 DEF AnswerInv, Expecting, Busy, expectVars
<1> QED BY <1>5, <1>6

LEMMA CallbackAnswers ==
  ASSUME ~Late, ~Overlap, TxInv, AnswerInv, AirInv, ReceiveCallback
  PROVE  AnswerInv' /\ AirInv'
<1>1. PICK f \in air, noAck \in BOOLEAN :
        LET rest == air \ {f}
            mine == f.id \in NonceIds \/ f.id = expectedCallbackId
        IN  IF noAck /\ mine /\ currentMsg # NoMsg /\ Target[currentMsg] \in Sleepy
            THEN nonceReportSent = NoNode /\ Park(Target[currentMsg], rest)
            ELSE /\ IF f.id \in NonceIds /\ expectedCallbackId # NoId
                    THEN Complete(NoId, "none", rest)
                    ELSE Complete(f.id, "sendData", rest)
                 /\ UNCHANGED << queue, parked, awake >>
  BY DEF ReceiveCallback
<1>2. CASE currentMsg # NoMsg /\ nonceReportSent = NoNode /\ Park(Target[currentMsg], air \ {f})
  <2>1. \A g \in air : g.about = currentMsg
    BY <1>2, AboutCurrent DEF OnlyAbout
  <2>2. air' = {} /\ nonceReportSent' = NoNode
    BY <1>2, <2>1 DEF Park, Left, reportVars
  <2>3. currentMsg' = NoMsg /\ ~Busy' /\ NoMsg \notin Get
    BY <1>2, SecureAssumption DEF Park, Forget, Busy
  <2> QED BY <2>2, <2>3 DEF AnswerInv, AirInv
<1>3. CASE queue' = queue /\ \/ Complete(NoId, "none", air \ {f})
                             \/ Complete(f.id, "sendData", air \ {f})
  BY <1>3, CompleteAnswers
<1> QED BY <1>1, <1>2, <1>3

LEMMA EncapAnswers ==
  ASSUME ~Late, TxInv, AnswerInv, AirInv, ReceiveEncap
  PROVE  AnswerInv' /\ AirInv'
<1>1. PICK f \in air :
        \/ currentMsg # NoMsg /\ RemoveMsg(currentMsg, air \ {f})
        \/ /\ nonceReportSent' = NoNode /\ air' = air \ {f}
           /\ UNCHANGED << currentMsg, expectedCallbackId, expectedReply, nodeVars >>
           /\ waitingForAck' \in BOOLEAN /\ (waitingForAck' => waitingForAck)
  BY EncapCases
<1>2. queue' = queue
  BY EncapCases DEF placeVars
<1>3. CASE currentMsg # NoMsg /\ RemoveMsg(currentMsg, air \ {f})
  <2>1. PICK m \in Msg : m = currentMsg /\ m # NoMsg
    BY <1>3 DEF TxInv, MsgTyped
  <2>2. \A g \in air : g.about = m
    BY <2>1, AboutCurrent DEF OnlyAbout
  <2> QED BY <1>3, <2>1, <2>2, RemovedAnswers
<1>4. CASE /\ nonceReportSent' = NoNode /\ air' = air \ {f}
           /\ UNCHANGED << currentMsg, expectedCallbackId, expectedReply, nodeVars >>
           /\ waitingForAck' \in BOOLEAN /\ (waitingForAck' => waitingForAck)
  <2>1. AirInv'
    BY <1>2, <1>4, FewerAnswers DEF nodeVars
  <2> QED BY <1>4, <2>1 DEF AnswerInv, Expecting, Busy
<1> QED BY <1>1, <1>3, <1>4

LEMMA ReportAnswers ==
  ASSUME ~Late, TxInv, AnswerInv, AirInv, ReceiveReport
  PROVE  AnswerInv' /\ AirInv'
<1>1. PICK f \in air : Complete(NoId, IF Answers(f) THEN "report" ELSE "none", air \ {f})
  BY DEF ReceiveReport
<1>2. queue' = queue
  BY DEF ReceiveReport, placeVars
<1>3. CASE Answers(f)
  BY <1>1, <1>2, <1>3, CompleteAnswers DEF Answers
<1>4. CASE ~Answers(f)
  BY <1>1, <1>2, <1>4, CompleteAnswers
<1> QED BY <1>3, <1>4

LEMMA AckAnswers ==
  ASSUME ~Late, TxInv, AnswerInv, AirInv, ReceiveAck
  PROVE  AnswerInv' /\ AirInv'
<1>1. /\ queue' = queue /\ waitingForAck' = FALSE
      /\ UNCHANGED << currentMsg, expectedCallbackId, expectedReply, reportVars, nodeVars, air >>
  BY DEF ReceiveAck, placeVars, AnswerInv, Expecting
<1>2. AirInv'
  BY <1>1, FewerAnswers DEF nodeVars, reportVars
<1> QED BY <1>1, <1>2 DEF AnswerInv, Expecting, Busy

\* SendMsg and WakesUp while nothing about news is on the way.
LEMMA QuietAnswers ==
  ASSUME TxInv, AnswerInv, AirInv, Quiet, UNCHANGED << currentMsg, expectVars, reportVars, nodeVars, air >>
  PROVE  AnswerInv' /\ AirInv'
<1>1. /\ currentMsg' = currentMsg /\ air' = air /\ wants' = wants /\ nonceReportSent' = nonceReportSent
      /\ \A f \in air : f.about = currentMsg /\ f.about # NoMsg
      /\ nonceReportSent # NoNode => currentMsg # NoMsg
  BY DEF Quiet, AirInv, AnswerInv, nodeVars, reportVars
<1>2. AirInv'
  BY <1>1 DEF AirInv, Idle
<1> QED BY <1>2 DEF AnswerInv, Expecting, Busy, expectVars

LEMMA NewsAnswers ==
  ASSUME ~Overlap, TxInv, AnswerInv, AirInv, NEW n \in Node, DeviceNews(n)
  PROVE  AnswerInv' /\ AirInv'
<1> DEFINE ng == [kind |-> "nonceGet", node |-> n, about |-> NoMsg]
<1>1. ng.kind = "nonceGet" /\ ng.node = n /\ ng.about = NoMsg
  OBVIOUS
<1>2. /\ Quiet /\ Idle /\ wants' = [wants EXCEPT ![n] = NoMsg] /\ air' = air \cup {ng}
      /\ UNCHANGED << placeVars, currentMsg, expectVars, reportVars >>
  BY DEF DeviceNews, Idle
<1> HIDE DEF ng
<1>3. air = {} /\ nonceReportSent = NoNode
  BY <1>2 DEF Quiet, AirInv, AnswerInv, Idle
<1>4. Idle' /\ nonceReportSent' = NoNode
  BY <1>2, <1>3 DEF Idle, placeVars, reportVars
<1>5. wants'[n] = NoMsg
  BY <1>2 DEF TxInv, AirTyped
<1>6. AirInv'
  BY <1>1, <1>2, <1>3, <1>4, <1>5 DEF AirInv
<1> QED BY <1>2, <1>6 DEF AnswerInv, Expecting, Busy, expectVars

LEMMA WriteNextAnswers ==
  ASSUME ~Late, TxInv, PlaceTyped, AnswerInv, AirInv, WriteNextMsg
  PROVE  AnswerInv' /\ AirInv'
<1>1. PICK m \in Msg : m = Head(queue)
  BY TailList DEF WriteNextMsg, PlaceTyped
<1>2. air = {} /\ nonceReportSent = NoNode /\ WriteMsg(m, owed)
  BY <1>1, NothingInAir DEF WriteNextMsg
<1>3. OnlyAbout(m) /\ \A f \in air : f.about = m
  BY <1>2 DEF OnlyAbout
<1>4. CASE RemoveMsg(m, air)
  BY <1>3, <1>4, RemovedAnswers
<1>5. CASE Transmit(m, owed)
  BY <1>2, <1>3, <1>5, TransmitAnswers
<1> QED BY <1>2, <1>4, <1>5 DEF WriteMsg

LEMMA NextAnswers ==
  ASSUME ~Overlap, ~Late, TxInv, PlaceTyped, AnswerInv, AirInv, [Next]_vars
  PROVE  AnswerInv' /\ AirInv'
<1>1. CASE UNCHANGED vars
  <2>1. UNCHANGED << currentMsg, queue, nonceReportSent, wants, air, expectedCallbackId, expectedReply, waitingForAck >>
    BY <1>1 DEF vars, placeVars, expectVars, nodeVars, reportVars
  <2> QED BY <2>1 DEF AnswerInv, AirInv, Expecting, Busy, Idle
<1>2. CASE WaitTimeout \/ ReceiveNak
  <2>1. PICK o : Resend(o) /\ queue' = queue
    BY <1>2 DEF WaitTimeout, ReceiveNak, placeVars
  <2> QED BY <2>1, ResendAnswers
<1>3. CASE \E m \in Msg : SendMsg(m)
  BY <1>3, QuietAnswers DEF SendMsg
<1>4. CASE \E n \in Node : WakesUp(n)
  BY <1>4, QuietAnswers DEF WakesUp
<1> QED BY <1>1, <1>2, <1>3, <1>4, WriteNextAnswers, AckAnswers, CallbackAnswers, NonceReportAnswers,
          NonceGetAnswers, EncapAnswers, ReportAnswers, NewsAnswers DEF Next, Receive

-----------------------------------------------------------------------------
(* The places. *)

Parked == UNION { Range(parked[n]) : n \in Node }

\* No list has a message twice, the queue has none that is parked, and a node's messages are its own.
ListsInv ==
  /\ IsInjective(queue)
  /\ \A n \in Node : IsInjective(parked[n]) /\ \A m \in Range(parked[n]) : Target[m] = n

\* The places have no message in common, and between them they have all.
PartInv ==
  /\ Msg \subseteq fresh \cup Range(queue) \cup Parked \cup deleted \cup {currentMsg}
  /\ fresh \cap (Range(queue) \cup Parked \cup deleted \cup {currentMsg}) = {}
  /\ Range(queue) \cap (Parked \cup deleted \cup {currentMsg}) = {}
  /\ Parked \cap (deleted \cup {currentMsg}) = {}
  /\ currentMsg \notin deleted

PlacesInv == ListsInv /\ PartInv

LEMMA PlacesAreMessages ==
  ASSUME TxInv, PlaceTyped
  PROVE  /\ Range(queue) \subseteq Msg /\ Parked \subseteq Msg
         /\ \A n \in Node : Range(parked[n]) \subseteq Msg
         /\ NoMsg \notin fresh \cup Range(queue) \cup Parked \cup deleted
<1>1. \A n \in Node : Range(parked[n]) \subseteq Msg
  BY DEF PlaceTyped, Range
<1>2. Range(queue) \subseteq Msg /\ Parked \subseteq Msg
  BY <1>1 DEF PlaceTyped, Range, Parked
<1> QED BY <1>1, <1>2, SecureAssumption DEF TxInv, MsgTyped, PlaceTyped

\* The current message stays or is deleted.
LEMMA DonePlaces ==
  ASSUME TxInv, PlaceTyped, PlacesInv, UNCHANGED << fresh, queue, parked >>,
         \/ currentMsg' = currentMsg /\ deleted' = deleted
         \/ currentMsg' = NoMsg /\ deleted' = deleted \cup {currentMsg} /\ currentMsg # NoMsg
  PROVE  PlacesInv'
<1>1. Parked' = Parked /\ Range(queue)' = Range(queue) /\ ListsInv'
  BY DEF Parked, Range, PlacesInv, ListsInv, IsInjective
<1>2. PartInv'
  <2>1. NoMsg \notin fresh \cup Range(queue) \cup Parked \cup deleted
    BY PlacesAreMessages
  <2> QED BY <1>1, <2>1 DEF PlacesInv, PartInv
<1> QED BY <1>1, <1>2 DEF PlacesInv

LEMMA WriteNextPlaces ==
  ASSUME TxInv, PlaceTyped, AnswerInv, AirInv, PlacesInv, WriteNextMsg
  PROVE  PlacesInv'
<1>0. queue \in Seq(Msg) /\ queue # << >>
  BY DEF WriteNextMsg, PlaceTyped
<1>1. PICK m \in Msg : m = Head(queue)
  BY <1>0, TailList
<1>2. PICK rest \in Seq(Msg) : rest = Tail(queue)
  BY <1>0, TailList
<1>3. /\ Range(queue) = {m} \cup Range(rest)
      /\ IsInjective(rest) /\ m \notin Range(rest)
  BY <1>0, <1>1, <1>2, TailList DEF PlacesInv, ListsInv
<1>4. /\ queue' = rest /\ fresh' = fresh /\ parked' = parked
      /\ currentMsg = NoMsg /\ nonceReportSent = NoNode /\ WriteMsg(m, owed)
  BY <1>1, <1>2, NothingInAir DEF WriteNextMsg
<1>5. \/ currentMsg' = m /\ deleted' = deleted
      \/ currentMsg' = NoMsg /\ deleted' = deleted \cup {m}
  BY <1>4 DEF WriteMsg, Transmit, RemoveMsg, Forget
<1>6. Range(queue)' = Range(rest) /\ Parked' = Parked
  BY <1>4 DEF Parked
<1>7. ListsInv'
  <2>1. IsInjective(queue)'
    BY <1>3, <1>4
  <2> QED BY <1>4, <2>1 DEF PlacesInv, ListsInv
<1>8. PartInv'
  BY <1>3, <1>4, <1>5, <1>6, PlacesAreMessages, SecureAssumption DEF PlacesInv, PartInv
<1> QED BY <1>7, <1>8 DEF PlacesInv

LEMMA ParkPlaces ==
  ASSUME TxInv, PlaceTyped, PlacesInv, currentMsg # NoMsg, NEW frames,
         Park(Target[currentMsg], frames), fresh' = fresh
  PROVE  PlacesInv'
<1>1. PICK m \in Msg : m = currentMsg
  BY DEF TxInv, MsgTyped
<1>2. PICK n \in Node : n = Target[m]
  BY SecureAssumption
<1>3. PICK S \in SUBSET Msg, R \in SUBSET Msg :
        S = { k \in Msg : Target[k] = n } /\ R = { k \in Msg : Target[k] # n }
  OBVIOUS
<1>4. PICK old \in Seq(Msg) : old = parked[n]
  BY DEF PlaceTyped
<1>5. PICK one, mine, others : one = << m >> /\ mine = Keep(queue, S) /\ others = Keep(queue, R)
  OBVIOUS
<1>6. PICK new : new = old \o one \o mine
  OBVIOUS
<1>7. /\ parked' = [parked EXCEPT ![n] = new] /\ queue' = others
      /\ currentMsg' = NoMsg /\ deleted' = deleted
  BY <1>1, <1>2, <1>3, <1>4, <1>5, <1>6 DEF Park, Forget
<1>8. Range(old) \subseteq Parked /\ Range(queue) \subseteq Msg /\ Parked \subseteq Msg
      /\ NoMsg \notin fresh \cup Range(queue) \cup Parked \cup deleted
  BY <1>4, PlacesAreMessages DEF Parked
<1>9. /\ IsInjective(queue) /\ IsInjective(old) /\ m \notin Range(old) /\ m \notin Range(queue)
      /\ Range(old) \cap Range(queue) = {} /\ \A k \in Range(old) : Target[k] = n
  <2>1. IsInjective(queue) /\ IsInjective(old) /\ \A k \in Range(old) : Target[k] = n
    BY <1>4 DEF PlacesInv, ListsInv
  <2> QED BY <1>1, <1>8, <2>1 DEF PlacesInv, PartInv
<1>10. /\ Range(new) = Range(old) \cup {m} \cup (Range(queue) \cap S) /\ IsInjective(new)
       /\ Range(others) = Range(queue) \cap R /\ IsInjective(others)
  <2>1. /\ Range(old \o one \o mine) = Range(old) \cup {m} \cup (Range(queue) \cap S)
        /\ Range(others) = Range(queue) \cap R /\ IsInjective(others)
        /\ IsInjective(old \o one \o mine)
    BY <1>5, <1>9, ParkLists
  <2> QED BY <1>6, <2>1
<1>11. \A k \in Range(new) : Target[k] = n
  BY <1>2, <1>3, <1>9, <1>10
<1>12. \A k \in Node : parked'[k] = IF k = n THEN new ELSE parked[k]
  BY <1>7 DEF PlaceTyped
<1>13. Parked' = Parked \cup {m} \cup (Range(queue) \cap S)
  <2>1. Parked' = UNION { Range(parked'[k]) : k \in Node }
    BY DEF Parked
  <2>2. ASSUME NEW x PROVE x \in Parked' <=> x \in Parked \cup {m} \cup (Range(queue) \cap S)
    <3>1. x \in Parked' <=> \E k \in Node : x \in Range(parked'[k])
      BY <2>1
    <3>2. x \in Parked <=> \E k \in Node : x \in Range(parked[k])
      BY DEF Parked
    <3>3. (\E k \in Node : x \in Range(parked'[k])) <=>
            (x \in Range(new) \/ \E k \in Node : k # n /\ x \in Range(parked[k]))
      BY <1>12
    <3>4. x \in Parked <=> (x \in Range(old) \/ \E k \in Node : k # n /\ x \in Range(parked[k]))
      BY <1>4, <3>2
    <3> QED BY <1>10, <3>1, <3>3, <3>4
  <2> QED BY <2>2
<1>14. Range(queue)' = Range(queue) \cap R
  BY <1>7, <1>10
<1>15. S \cap R = {} /\ Msg = S \cup R
  BY <1>3
<1>16. ListsInv'
  <2>1. IsInjective(queue)'
    BY <1>7, <1>10
  <2>2. ASSUME NEW k \in Node PROVE IsInjective(parked'[k]) /\ \A x \in Range(parked'[k]) : Target[x] = k
    BY <1>10, <1>11, <1>12 DEF PlacesInv, ListsInv
  <2> QED BY <2>1, <2>2 DEF ListsInv
<1>17. PartInv'
  BY <1>1, <1>7, <1>8, <1>13, <1>14, <1>15 DEF PlacesInv, PartInv
<1> QED BY <1>16, <1>17 DEF PlacesInv

LEMMA SendMsgPlaces ==
  ASSUME TxInv, PlaceTyped, PlacesInv, NEW m \in Msg, SendMsg(m)
  PROVE  PlacesInv'
<1>1. PICK n \in Node : n = Target[m]
  BY SecureAssumption
<1>2. m \in fresh /\ fresh' = fresh \ {m} /\ currentMsg' = currentMsg /\ deleted' = deleted
  BY DEF SendMsg
<1>3. m \notin Range(queue) /\ m \notin Parked /\ Range(parked[n]) \subseteq Parked
  BY <1>2 DEF PlacesInv, PartInv, Parked
<1>4. CASE queue' = Append(queue, m) /\ parked' = parked
  <2>1. PICK q \in Seq(Msg) : q = queue /\ IsInjective(q)
    BY DEF PlaceTyped, PlacesInv, ListsInv
  <2>2. Range(Append(q, m)) = Range(q) \cup {m} /\ IsInjective(Append(q, m))
    BY <1>3, <2>1, AppendItem
  <2>3. Range(queue)' = Range(queue) \cup {m} /\ IsInjective(queue)' /\ Parked' = Parked
    BY <1>4, <2>1, <2>2 DEF Parked
  <2>4. ListsInv'
    BY <1>4, <2>3 DEF PlacesInv, ListsInv
  <2> QED BY <1>2, <1>3, <2>3, <2>4 DEF PlacesInv, PartInv
<1>5. CASE queue' = queue /\ parked' = [parked EXCEPT ![n] = Append(@, m)]
  <2>1. PICK old \in Seq(Msg) : old = parked[n]
    BY DEF PlaceTyped
  <2>2. PICK new : new = Append(old, m)
    OBVIOUS
  <2>3. Range(new) = Range(old) \cup {m} /\ IsInjective(new)
    BY <1>3, <2>1, <2>2, AppendItem DEF PlacesInv, ListsInv
  <2>4. \A k \in Node : parked'[k] = IF k = n THEN new ELSE parked[k]
    BY <1>5, <2>1, <2>2 DEF PlaceTyped
  <2>5. ListsInv'
    <3>1. ASSUME NEW k \in Node PROVE IsInjective(parked'[k]) /\ \A x \in Range(parked'[k]) : Target[x] = k
      BY <1>1, <2>1, <2>3, <2>4 DEF PlacesInv, ListsInv
    <3>2. IsInjective(queue)'
      BY <1>5 DEF PlacesInv, ListsInv
    <3> QED BY <3>1, <3>2 DEF ListsInv
  <2>6. Parked' = Parked \cup {m}
    <3>1. ASSUME NEW x PROVE x \in Parked' <=> x \in Parked \cup {m}
      <4>1. x \in Parked' <=> \E k \in Node : x \in Range(parked'[k])
        BY DEF Parked
      <4>2. x \in Parked <=> \E k \in Node : x \in Range(parked[k])
        BY DEF Parked
      <4> QED BY <2>1, <2>3, <2>4, <4>1, <4>2
    <3> QED BY <3>1
  <2>7. Range(queue)' = Range(queue)
    BY <1>5
  <2> QED BY <1>2, <1>3, <2>5, <2>6, <2>7 DEF PlacesInv, PartInv
<1> QED BY <1>1, <1>4, <1>5 DEF SendMsg

LEMMA WakesUpPlaces ==
  ASSUME TxInv, PlaceTyped, PlacesInv, NEW n \in Node, WakesUp(n)
  PROVE  PlacesInv'
<1>1. /\ queue' = queue \o parked[n] /\ parked' = [parked EXCEPT ![n] = << >>]
      /\ fresh' = fresh /\ currentMsg' = currentMsg /\ deleted' = deleted
  BY DEF WakesUp
<1>2. PICK q \in Seq(Msg), old \in Seq(Msg) : q = queue /\ old = parked[n]
  BY DEF PlaceTyped
<1>3. IsInjective(q) /\ IsInjective(old) /\ Range(q) \cap Range(old) = {} /\ Range(old) \subseteq Parked
  <2>1. Range(old) \subseteq Parked
    BY <1>2 DEF Parked
  <2> QED BY <1>2, <2>1 DEF PlacesInv, ListsInv, PartInv
<1>4. IsInjective(q \o old) /\ Range(q \o old) = Range(q) \cup Range(old)
  BY <1>3, ConcatList
<1>5. \A k \in Node : parked'[k] = IF k = n THEN << >> ELSE parked[k]
  BY <1>1 DEF PlaceTyped
<1>6. Range(<< >>) = {} /\ IsInjective(<< >>)
  BY DEF Range, IsInjective
<1>7. ListsInv'
  <2>1. ASSUME NEW k \in Node PROVE IsInjective(parked'[k]) /\ \A x \in Range(parked'[k]) : Target[x] = k
    BY <1>5, <1>6 DEF PlacesInv, ListsInv
  <2>2. IsInjective(queue)'
    BY <1>1, <1>2, <1>4
  <2> QED BY <2>1, <2>2 DEF ListsInv
<1>8. ASSUME NEW x PROVE x \in Parked' <=> x \in Parked \ Range(old)
  <2>1. x \in Parked' <=> \E k \in Node : x \in Range(parked'[k])
    BY DEF Parked
  <2>2. x \in Parked <=> \E k \in Node : x \in Range(parked[k])
    BY DEF Parked
  <2>3. \A k \in Node : x \in Range(parked[k]) /\ x \in Range(old) => k = n
    BY <1>2 DEF PlacesInv, ListsInv
  <2> QED BY <1>2, <1>5, <1>6, <2>1, <2>2, <2>3
<1>9. Range(queue)' = Range(queue) \cup Range(old) /\ Parked' = Parked \ Range(old)
  BY <1>1, <1>2, <1>4, <1>8
<1>10. PartInv'
  BY <1>1, <1>3, <1>9 DEF PlacesInv, PartInv
<1> QED BY <1>7, <1>10 DEF PlacesInv

LEMMA NextPlaces ==
  ASSUME ~Overlap, ~Late, TxInv, PlaceTyped, AnswerInv, AirInv, PlacesInv, [Next]_vars
  PROVE  PlacesInv'
<1>1. ASSUME UNCHANGED << fresh, queue, parked >>,
             \/ currentMsg' = currentMsg /\ deleted' = deleted
             \/ \E frames : RemoveMsg(currentMsg, frames),
             currentMsg # NoMsg \/ (currentMsg' = currentMsg /\ deleted' = deleted)
      PROVE  PlacesInv'
  BY <1>1, DonePlaces DEF RemoveMsg, Forget
<1>2. CASE UNCHANGED vars
  BY <1>1, <1>2 DEF vars, placeVars
<1>3. CASE WaitTimeout \/ ReceiveNak
  <2>1. PICK o : Resend(o) /\ UNCHANGED << fresh, queue, parked >>
    BY <1>3 DEF WaitTimeout, ReceiveNak, placeVars
  <2>2. CASE currentMsg = NoMsg
    BY <1>1, <2>1, <2>2 DEF Resend, Forget
  <2>3. CASE currentMsg # NoMsg
    <3>1. \/ currentMsg' = currentMsg /\ deleted' = deleted
          \/ RemoveMsg(currentMsg, air)
      BY <2>1, <2>3 DEF Resend, WriteMsg, RepeatNonceReport, Transmit
    <3> QED BY <1>1, <2>1, <2>3, <3>1
  <2> QED BY <2>2, <2>3
<1>4. CASE ReceiveAck
  <2>1. UNCHANGED << fresh, queue, parked, currentMsg, deleted >>
    BY <1>4 DEF ReceiveAck, placeVars, AnswerInv, Expecting
  <2> QED BY <1>1, <2>1
<1>5. ASSUME NEW id, NEW reply, NEW frames, Complete(id, reply, frames), UNCHANGED << fresh, queue, parked >>
      PROVE  PlacesInv'
  <2>1. \/ currentMsg' = currentMsg /\ deleted' = deleted
        \/ Expecting /\ RemoveMsg(currentMsg, frames)
    BY <1>5 DEF Complete, Expecting
  <2> QED BY <1>1, <1>5, <2>1 DEF TxInv
<1>6. CASE ReceiveCallback
  <2>1. PICK f \in air, noAck \in BOOLEAN :
          LET rest == air \ {f}
              mine == f.id \in NonceIds \/ f.id = expectedCallbackId
          IN  /\ IF noAck /\ mine /\ currentMsg # NoMsg /\ Target[currentMsg] \in Sleepy
                 THEN Park(Target[currentMsg], rest)
                 ELSE /\ IF f.id \in NonceIds /\ expectedCallbackId # NoId
                         THEN Complete(NoId, "none", rest)
                         ELSE Complete(f.id, "sendData", rest)
                      /\ UNCHANGED << queue, parked, awake >>
              /\ UNCHANGED << fresh, owed, crashed, boundVars >>
    BY <1>6 DEF ReceiveCallback
  <2>2. \/ currentMsg # NoMsg /\ Park(Target[currentMsg], air \ {f}) /\ fresh' = fresh
        \/ /\ Complete(NoId, "none", air \ {f}) \/ Complete(f.id, "sendData", air \ {f})
           /\ UNCHANGED << fresh, queue, parked >>
    BY <2>1
  <2> QED BY <1>5, <2>2, ParkPlaces
<1>7. CASE ReceiveNonceReport \/ ReceiveNonceGet
  <2>1. UNCHANGED << fresh, queue, parked, currentMsg, deleted >>
    BY <1>7 DEF ReceiveNonceReport, ReceiveNonceGet, placeVars
  <2> QED BY <1>1, <2>1
<1>8. CASE ReceiveEncap
  <2>1. \/ currentMsg' = currentMsg /\ deleted' = deleted
        \/ currentMsg' = NoMsg /\ deleted' = deleted \cup {currentMsg} /\ currentMsg # NoMsg
    BY <1>8, EncapCases DEF RemoveMsg, Forget
  <2>2. UNCHANGED << fresh, queue, parked >>
    BY <1>8, EncapCases DEF placeVars
  <2> QED BY <2>1, <2>2, DonePlaces
<1>9. CASE ReceiveReport
  <2>1. PICK f \in air : Complete(NoId, IF Answers(f) THEN "report" ELSE "none", air \ {f})
                         /\ UNCHANGED << fresh, queue, parked >>
    BY <1>9 DEF ReceiveReport, placeVars
  <2> QED BY <1>5, <2>1
<1>10. CASE \E n \in Node : DeviceNews(n)
  <2>1. UNCHANGED << fresh, queue, parked, currentMsg, deleted >>
    BY <1>10 DEF DeviceNews, placeVars
  <2> QED BY <1>1, <2>1
<1> QED BY <1>2, <1>3, <1>4, <1>6, <1>7, <1>8, <1>9, <1>10, WriteNextPlaces, SendMsgPlaces, WakesUpPlaces
        DEF Next, Receive

LEMMA InitPlaces == Init => AnswerInv /\ AirInv /\ PlacesInv
<1> SUFFICES ASSUME Init PROVE AnswerInv /\ AirInv /\ PlacesInv
  OBVIOUS
<1>1. currentMsg = NoMsg /\ ~Busy /\ air = {} /\ nonceReportSent = NoNode /\ NoMsg \notin Get
  BY SecureAssumption DEF Init, Busy
<1>2. fresh = Msg /\ queue = << >> /\ deleted = {} /\ \A n \in Node : parked[n] = << >>
  BY DEF Init
<1>3. Range(<< >>) = {} /\ IsInjective(<< >>)
  BY DEF Range, IsInjective
<1>4. Range(queue) = {} /\ Parked = {} /\ ListsInv
  BY <1>2, <1>3 DEF Parked, ListsInv
<1>5. PartInv
  BY <1>1, <1>2, <1>4, SecureAssumption DEF PartInv
<1> QED BY <1>1, <1>4, <1>5 DEF AnswerInv, AirInv, PlacesInv

\* OnePlace counts the places of each message.
LEMMA PlacesCount == TxInv /\ PlaceTyped /\ PlacesInv => OnePlace
<1> SUFFICES ASSUME TxInv, PlaceTyped, PlacesInv PROVE OnePlace
  OBVIOUS
<1>1. TypeOK /\ IsInjective(queue)
  BY TypeParts DEF TxInv, PlacesInv, ListsInv
<1>2. Waiting = Range(queue) \cup Parked
  BY DEF Waiting, Parked, ToSet, Range
<1>3. ASSUME NEW m \in Msg
      PROVE  Cardinality({ p \in {"fresh", "waiting", "current", "deleted"} :
               \/ p = "fresh" /\ m \in fresh
               \/ p = "waiting" /\ m \in Waiting
               \/ p = "current" /\ m = currentMsg
               \/ p = "deleted" /\ m \in deleted }) = 1
  <2> DEFINE P == { p \in {"fresh", "waiting", "current", "deleted"} :
               \/ p = "fresh" /\ m \in fresh
               \/ p = "waiting" /\ m \in Waiting
               \/ p = "current" /\ m = currentMsg
               \/ p = "deleted" /\ m \in deleted }
  <2>1. \/ m \in fresh /\ m \notin Waiting /\ m # currentMsg /\ m \notin deleted
        \/ m \notin fresh /\ m \in Waiting /\ m # currentMsg /\ m \notin deleted
        \/ m \notin fresh /\ m \notin Waiting /\ m = currentMsg /\ m \notin deleted
        \/ m \notin fresh /\ m \notin Waiting /\ m # currentMsg /\ m \in deleted
    BY <1>2 DEF PlacesInv, PartInv
  <2>2. \E p : P = {p}
    <3>1. CASE m \in fresh /\ m \notin Waiting /\ m # currentMsg /\ m \notin deleted
      <4>1. P = {"fresh"}
        BY <3>1
      <4> QED BY <4>1
    <3>2. CASE m \notin fresh /\ m \in Waiting /\ m # currentMsg /\ m \notin deleted
      <4>1. P = {"waiting"}
        BY <3>2
      <4> QED BY <4>1
    <3>3. CASE m \notin fresh /\ m \notin Waiting /\ m = currentMsg /\ m \notin deleted
      <4>1. P = {"current"}
        BY <3>3
      <4> QED BY <4>1
    <3>4. CASE m \notin fresh /\ m \notin Waiting /\ m # currentMsg /\ m \in deleted
      <4>1. P = {"deleted"}
        BY <3>4
      <4> QED BY <4>1
    <3> QED BY <2>1, <3>1, <3>2, <3>3, <3>4
  <2> HIDE DEF P
  <2>3. Cardinality(P) = 1
    BY <2>2, FS_Singleton
  <2> QED BY <2>3 DEF P
<1> QED BY <1>1, <1>3 DEF OnePlace

\* While what the nodes report of their own accord meets no other message and no frame outlives
\* its message, every message is in one place, through resends, nonces that fail, a node that
\* falls asleep in the middle and its waking up (WriteNextMsg, RemoveCurrentMsg,
\* MoveMessagesToWakeUpQueue), for any number of nodes, messages and retries.
THEOREM OnePlaceSecure ==
  ASSUME ~Overlap, ~Late
  PROVE  Spec => []OnePlace
<1> DEFINE IInv == TxInv /\ PlaceTyped /\ AnswerInv /\ AirInv /\ PlacesInv
<1>1. Init => IInv
  BY InitTx, InitPlaces
<1>2. IInv /\ [Next]_vars => IInv'
  BY NextTx, NextTyped, NextAnswers, NextPlaces
<1>3. IInv => OnePlace
  BY PlacesCount
<1> QED BY <1>1, <1>2, <1>3, PTL DEF Spec

-----------------------------------------------------------------------------
(* What is deleted unsent. *)

\* A callback, a node that has something to report on a message, and its report show that
\* the message went out; so does what is expected of the current message when the callback
\* is there.  When nothing is expected, no ACK is.
SentInv ==
  /\ currentMsg # NoMsg /\ expectedCallbackId = NoId /\ expectedReply # "none" => currentMsg \in sent
  /\ expectedCallbackId # NoId => expectedCallbackId[1] = currentMsg
  /\ waitingForAck => Expecting
  /\ \A f \in air : f.kind = "callback" /\ f.id \in Msg \X Nat => f.id[1] \in sent
  /\ \A f \in air : f.kind = "encap" => f.about \in sent \cup {NoMsg}
  /\ \A n \in Node : wants[n] \in sent \cup {NoMsg}

LEMMA UntouchedSent ==
  ASSUME SentInv, UNCHANGED << currentMsg, expectedCallbackId, expectedReply, sent, wants >>,
         waitingForAck' => waitingForAck,
         \A f \in air' : f.kind \in {"callback", "encap"} => f \in air
  PROVE  SentInv'
BY DEF SentInv, Expecting

LEMMA ForgottenSent ==
  ASSUME SentInv, Forget, sent' = sent, wants' = wants, air' \subseteq air
  PROVE  SentInv'
BY DEF SentInv, Forget

LEMMA RemovedSent ==
  ASSUME SentInv, NEW m, NEW frames, frames \subseteq air, RemoveMsg(m, frames)
  PROVE  SentInv'
BY ForgottenSent DEF RemoveMsg, Left, nodeVars

\* The message that is current then is the one before, or nothing was expected.
LEMMA KeySent ==
  ASSUME TxInv, SentInv, NEW n \in Node, NEW o, NEW frames, frames \subseteq air, SendNonceKey(n, o, frames),
         UNCHANGED expectVars, currentMsg' = currentMsg \/ ~Busy
  PROVE  SentInv'
<1> DEFINE cb == Callback(NonceReportId, wants[n])
           ec == [kind |-> "encap", node |-> n, age |-> 0, about |-> wants[n]]
<1>1. /\ cb.kind = "callback" /\ cb.id = NonceReportId
      /\ ec.kind = "encap" /\ ec.about = wants[n] /\ wants[n] \in sent \cup {NoMsg}
  BY DEF Callback, SentInv
<1>2. air' = Older(frames, n) \cup {cb, ec} /\ wants' = wants /\ sent' = sent
  BY DEF SendNonceKey, nodeVars
<1> HIDE DEF cb, ec
<1>3. \A g \in Older(frames, n) : g \in frames \/
        (g.kind = "encap" /\ \E f \in frames : f.kind = "encap" /\ f.about = g.about /\ f.node = g.node)
  <2>1. frames \subseteq Frame
    BY DEF TxInv, AirTyped
  <2> QED BY <2>1, OlderFrames
<1>4. \A f \in air' : f.kind = "callback" /\ f.id \in Msg \X Nat => f \in air
  BY <1>1, <1>2, <1>3, Ids
<1>5. \A f \in air' : f.kind = "encap" => f.about \in sent \cup {NoMsg}
  BY <1>1, <1>2, <1>3 DEF SentInv
<1> QED BY <1>2, <1>4, <1>5 DEF SentInv, Busy, Expecting, expectVars

LEMMA SendSent ==
  ASSUME TxInv, SentInv, NEW m \in Msg, NEW k, NEW x, NEW o, NEW frames, frames \subseteq air,
         SendEncryptedMessage(m, << m, k >>, x, o, frames), currentMsg' = m, expectedCallbackId' = << m, k >>
  PROVE  SentInv'
<1> DEFINE cb == Callback(<< m, k >>, m)
           answer == [kind |-> IF m \in Encrypted THEN "nonceGet" ELSE "report",
                      node |-> Target[m], about |-> m]
<1>1. cb.kind = "callback" /\ cb.id = << m, k >> /\ answer.kind \notin {"callback", "encap"}
  BY DEF Callback
<1>2. /\ air' \subseteq frames \cup {cb, answer} /\ sent' = sent \cup {m}
      /\ wants' = wants \/ wants' = [wants EXCEPT ![Target[m]] = m]
  BY DEF SendEncryptedMessage, Send
<1> HIDE DEF cb, answer
<1>3. \A n \in Node : wants'[n] \in sent' \cup {NoMsg}
  BY <1>2, SecureAssumption DEF SentInv, TxInv, AirTyped
<1>4. \A f \in air' : f.kind = "callback" /\ f.id \in Msg \X Nat => f.id[1] \in sent'
  BY <1>1, <1>2 DEF SentInv
<1>5. \A f \in air' : f.kind = "encap" => f.about \in sent' \cup {NoMsg}
  BY <1>1, <1>2 DEF SentInv
<1>6. << m, k >> # NoId
  BY SecureAssumption DEF NoId
<1> QED BY <1>2, <1>3, <1>4, <1>5, <1>6 DEF SentInv, Expecting

LEMMA TransmitSent ==
  ASSUME TxInv, SentInv, NEW m \in Msg, NEW o, Transmit(m, o)
  PROVE  SentInv'
<1>1. PICK k : k = IF sendAttempts[m] = 0 THEN callbackId[m] ELSE callbackId[m] + 1
  OBVIOUS
<1>2. currentMsg' = m /\ expectedCallbackId' = << m, k >> /\ << m, k >> # NoId
  BY <1>1, SecureAssumption DEF Transmit, NoId
<1>3. CASE m \in Encrypted /\ nonce[m] = 0
  <2> DEFINE cb == Callback(NonceGetId, m)
             nr == [kind |-> "nonceReport", nonce |-> Len(nonces'), about |-> m]
  <2>1. cb.kind = "callback" /\ cb.id = NonceGetId /\ nr.kind = "nonceReport"
    BY DEF Callback
  <2>2. air' = air \cup {cb, nr} /\ wants' = wants /\ sent' = sent
    BY <1>3 DEF Transmit, SendNonceRequest
  <2> HIDE DEF cb, nr
  <2>3. \A f \in air' : /\ f.kind = "callback" /\ f.id \in Msg \X Nat => f \in air
                        /\ f.kind = "encap" => f \in air
    BY <2>1, <2>2, Ids
  <2> QED BY <1>2, <2>2, <2>3 DEF SentInv, Expecting
<1>4. CASE ~(m \in Encrypted /\ nonce[m] = 0)
  <2>1. SendEncryptedMessage(m, << m, k >>, nonce[m], o, air)
    BY <1>1, <1>4 DEF Transmit
  <2> QED BY <1>2, <2>1, SendSent
<1> QED BY <1>3, <1>4

LEMMA WriteSent ==
  ASSUME TxInv, SentInv, NEW m \in Msg, NEW o, WriteMsg(m, o), currentMsg = m \/ ~Busy
  PROVE  SentInv'
<1>1. CASE RemoveMsg(m, air)
  BY <1>1, RemovedSent
<1>2. CASE Transmit(m, o)
  BY <1>2, TransmitSent
<1>3. CASE nonceReportSent # NoNode /\ RepeatNonceReport(m, o) /\ ~(nonceReportSentAttempt >= MaxTries)
  <2>1. PICK n \in Node : n = nonceReportSent
    BY <1>3 DEF TxInv, MsgTyped
  <2>2. currentMsg' = m /\ SendNonceKey(n, o, air) /\ UNCHANGED expectVars
    BY <1>3, <2>1 DEF RepeatNonceReport
  <2> QED BY <2>2, KeySent
<1> QED BY <1>1, <1>2, <1>3 DEF WriteMsg, RepeatNonceReport

\* A callback with the expected id shows that the message went out.
LEMMA CompleteSent ==
  ASSUME TxInv, SentInv, NEW id, NEW reply, NEW frames, frames \subseteq air, Complete(id, reply, frames),
         id = expectedCallbackId /\ id # NoId => currentMsg \in sent
  PROVE  /\ SentInv'
         /\ deleted' = deleted \/ (deleted' = deleted \cup {currentMsg} /\ currentMsg \in sent)
<1> DEFINE left == IF expectedCallbackId = id THEN NoId ELSE expectedCallbackId
           rest == IF expectedReply = reply THEN "none" ELSE expectedReply
<1>1. Expecting => currentMsg # NoMsg
  BY DEF TxInv
<1>2. Expecting /\ left = NoId => currentMsg \in sent
  BY <1>1 DEF SentInv, Expecting
<1>3. CASE Expecting /\ left = NoId /\ rest = "none"
  <2>1. RemoveMsg(currentMsg, frames)
    BY <1>3 DEF Complete, Expecting
  <2>2. deleted' = deleted \cup {currentMsg}
    BY <2>1 DEF RemoveMsg
  <2> QED BY <1>2, <1>3, <2>1, <2>2, RemovedSent
<1>4. CASE ~(Expecting /\ left = NoId /\ rest = "none")
  <2>1. /\ expectedCallbackId' = left /\ expectedReply' = rest /\ air' = frames
        /\ UNCHANGED << currentMsg, waitingForAck, deleted, nodeVars >>
    BY <1>4 DEF Complete, Expecting
  <2>2. Expecting => Expecting'
    BY <1>4, <2>1 DEF Expecting
  <2>3. ~Expecting => left = NoId /\ rest = "none"
    BY DEF Expecting
  <2>4. left = NoId \/ left = expectedCallbackId
    OBVIOUS
  <2> HIDE DEF left, rest
  <2>5. SentInv'
    BY <1>2, <2>1, <2>2, <2>3, <2>4 DEF SentInv, nodeVars
  <2> QED BY <2>1, <2>5
<1> QED BY <1>3, <1>4

\* What NotLostUnsent says of a step.
DeletesSent ==
  \A m \in deleted' \ deleted :
    \/ m \in sent \/ sendAttempts[m] >= MaxTries
    \/ nonceReportSent # NoNode /\ nonceReportSentAttempt >= MaxTries
    \/ m = currentMsg /\ ~Busy
    \/ \E f \in air \ air' : f.kind = "encap" /\ f.about # m

LEMMA WriteDeletes ==
  ASSUME NEW m, NEW o, WriteMsg(m, o)
  PROVE  DeletesSent
<1>1. CASE nonceReportSent # NoNode
  <2>1. deleted' = deleted \/ nonceReportSentAttempt >= MaxTries
    BY <1>1 DEF WriteMsg, RepeatNonceReport
  <2> QED BY <1>1, <2>1 DEF DeletesSent
<1>2. CASE nonceReportSent = NoNode
  <2>1. deleted' = deleted \/ (deleted' = deleted \cup {m} /\ sendAttempts[m] >= MaxTries)
    BY <1>2 DEF WriteMsg, RemoveMsg, Transmit
  <2> QED BY <2>1 DEF DeletesSent
<1> QED BY <1>1, <1>2

LEMMA ResendSent ==
  ASSUME TxInv, SentInv, NEW o, Resend(o)
  PROVE  SentInv' /\ DeletesSent
<1>1. CASE currentMsg = NoMsg
  <2>1. Forget /\ sent' = sent /\ wants' = wants /\ air' = air /\ deleted' = deleted
    BY <1>1 DEF Resend, nodeVars
  <2> QED BY <2>1, ForgottenSent DEF DeletesSent
<1>2. CASE currentMsg # NoMsg
  <2>1. PICK m \in Msg : m = currentMsg
    BY <1>2 DEF TxInv, MsgTyped
  <2> QED BY <1>2, <2>1, WriteSent, WriteDeletes DEF Resend
<1> QED BY <1>1, <1>2

\* An ACK ends the current message only when not even an ACK was expected.
LEMMA AckSent ==
  ASSUME TxInv, SentInv, ReceiveAck
  PROVE  SentInv' /\ DeletesSent
<1>1. CASE currentMsg # NoMsg /\ expectedCallbackId = NoId /\ expectedReply = "none"
  <2>1. RemoveMsg(currentMsg, air)
    BY <1>1 DEF ReceiveAck
  <2>2. ~Busy /\ deleted' = deleted \cup {currentMsg}
    BY <1>1, <2>1 DEF SentInv, Busy, Expecting, RemoveMsg
  <2> QED BY <2>1, <2>2, RemovedSent DEF DeletesSent
<1>2. CASE ~(currentMsg # NoMsg /\ expectedCallbackId = NoId /\ expectedReply = "none")
  <2>1. /\ waitingForAck' = FALSE
        /\ UNCHANGED << currentMsg, expectedCallbackId, expectedReply, deleted, nodeVars, air >>
    BY <1>2 DEF ReceiveAck
  <2> QED BY <2>1, UntouchedSent DEF DeletesSent, nodeVars
<1> QED BY <1>1, <1>2

LEMMA NonceReportSent ==
  ASSUME TxInv, SentInv, ReceiveNonceReport
  PROVE  SentInv' /\ deleted' = deleted
<1>1. PICK f \in air :
        /\ currentMsg = NoMsg => air' = air \ {f} /\ UNCHANGED << expectedCallbackId, nodeVars >>
        /\ currentMsg # NoMsg =>
             LET id == << currentMsg, callbackId[currentMsg] + 1 >>
             IN  /\ expectedCallbackId' = id
                 /\ SendEncryptedMessage(currentMsg, id, f.nonce, owed, air \ {f})
        /\ UNCHANGED << deleted, currentMsg, expectedReply, waitingForAck >>
  BY DEF ReceiveNonceReport
<1>2. CASE currentMsg = NoMsg
  BY <1>1, <1>2, UntouchedSent DEF nodeVars
<1>3. CASE currentMsg # NoMsg
  <2>1. PICK m \in Msg : m = currentMsg
    BY <1>3 DEF TxInv, MsgTyped
  <2>2. PICK k, x, frames : k = callbackId[currentMsg] + 1 /\ x = f.nonce /\ frames = air \ {f} /\ frames \subseteq air
    OBVIOUS
  <2>3. /\ expectedCallbackId' = << m, k >> /\ SendEncryptedMessage(m, << m, k >>, x, owed, frames)
        /\ currentMsg' = m
    BY <1>1, <1>3, <2>1, <2>2
  <2> QED BY <1>1, <2>2, <2>3, SendSent
<1> QED BY <1>2, <1>3, <1>1

\* A report that cannot be decrypted removes the current message, whichever it is.
LEMMA EncapSent ==
  ASSUME TxInv, SentInv, ReceiveEncap
  PROVE  SentInv' /\ DeletesSent
<1>1. PICK f \in air :
        /\ f.kind = "encap"
        /\ \/ currentMsg # NoMsg /\ RemoveMsg(currentMsg, air \ {f})
           \/ /\ air' = air \ {f}
              /\ UNCHANGED << deleted, currentMsg, expectedCallbackId, expectedReply, nodeVars >>
              /\ waitingForAck' \in BOOLEAN /\ (waitingForAck' => waitingForAck)
  BY EncapCases
<1>2. CASE currentMsg # NoMsg /\ RemoveMsg(currentMsg, air \ {f})
  <2>1. deleted' = deleted \cup {currentMsg} /\ f \in air \ air'
    BY <1>2 DEF RemoveMsg, Left
  <2>2. f.about = currentMsg => currentMsg \in sent
    BY <1>1, <1>2 DEF SentInv
  <2>3. SentInv'
    BY <1>2, RemovedSent
  <2> QED BY <1>1, <2>1, <2>2, <2>3 DEF DeletesSent
<1>3. CASE /\ air' = air \ {f}
           /\ UNCHANGED << deleted, currentMsg, expectedCallbackId, expectedReply, nodeVars >>
           /\ waitingForAck' \in BOOLEAN /\ (waitingForAck' => waitingForAck)
  BY <1>3, UntouchedSent DEF DeletesSent, nodeVars
<1> QED BY <1>1, <1>2, <1>3

LEMMA NextSent ==
  ASSUME TxInv, PlaceTyped, SentInv, [Next]_vars
  PROVE  SentInv' /\ DeletesSent
<1>1. CASE UNCHANGED vars \/ (\E m \in Msg : SendMsg(m)) \/ \E n \in Node : WakesUp(n)
  <2>1. UNCHANGED << currentMsg, expectVars, nodeVars, deleted, air >>
    BY <1>1 DEF vars, SendMsg, WakesUp
  <2> QED BY <2>1, UntouchedSent DEF DeletesSent, nodeVars, expectVars
<1>2. CASE WaitTimeout \/ ReceiveNak
  BY <1>2, ResendSent DEF WaitTimeout, ReceiveNak
<1>3. CASE WriteNextMsg
  <2>1. PICK m \in Msg : m = Head(queue)
    BY <1>3, TailList DEF WriteNextMsg, PlaceTyped
  <2>2. WriteMsg(m, owed) /\ ~Busy
    BY <1>3, <2>1 DEF WriteNextMsg
  <2> QED BY <2>2, WriteSent, WriteDeletes
<1>4. ASSUME NEW n \in Node, DeviceNews(n) PROVE SentInv' /\ DeletesSent
  <2>1. /\ wants' = [wants EXCEPT ![n] = NoMsg] /\ sent' = sent /\ deleted' = deleted
        /\ currentMsg' = currentMsg /\ UNCHANGED expectVars
        /\ air' = air \cup {[kind |-> "nonceGet", node |-> n, about |-> NoMsg]}
    BY <1>4 DEF DeviceNews
  <2>2. \A f \in air' : f.kind \in {"callback", "encap"} => f \in air
    BY <2>1
  <2>3. \A k \in Node : wants'[k] \in sent \cup {NoMsg}
    BY <2>1 DEF SentInv, TxInv, AirTyped
  <2> QED BY <2>1, <2>2, <2>3 DEF SentInv, DeletesSent, Expecting, expectVars
<1>5. CASE ReceiveNonceGet
  <2>1. PICK f \in air : f.kind = "nonceGet" /\ SendNonceKey(f.node, owed, air \ {f})
                         /\ UNCHANGED << currentMsg, expectVars, deleted >>
    BY <1>5 DEF ReceiveNonceGet
  <2>2. PICK n \in Node : n = f.node
    BY <2>1, FrameFields DEF TxInv, AirTyped
  <2>3. PICK frames : frames = air \ {f} /\ frames \subseteq air
    OBVIOUS
  <2>4. SentInv'
    BY <2>1, <2>2, <2>3, KeySent
  <2> QED BY <2>1, <2>4 DEF DeletesSent
<1>6. CASE ReceiveNonceReport
  BY <1>6, NonceReportSent DEF DeletesSent
<1>7. ASSUME NEW id, NEW reply, NEW frames, frames \subseteq air, Complete(id, reply, frames),
              id = expectedCallbackId /\ id # NoId => currentMsg \in sent
       PROVE  SentInv' /\ DeletesSent
  BY <1>7, CompleteSent DEF DeletesSent
<1>8. CASE ReceiveReport
  BY <1>7, <1>8 DEF ReceiveReport
<1>9. CASE ReceiveCallback
  <2>1. PICK f \in air :
          /\ f.kind = "callback"
          /\ \/ Park(Target[currentMsg], air \ {f})
             \/ Complete(NoId, "none", air \ {f}) \/ Complete(f.id, "sendData", air \ {f})
    BY <1>9 DEF ReceiveCallback
  <2>2. CASE Park(Target[currentMsg], air \ {f})
    <3>1. Forget /\ air' \subseteq air /\ sent' = sent /\ wants' = wants /\ deleted' = deleted
      BY <2>2 DEF Park, Left, nodeVars
    <3> QED BY <3>1, ForgottenSent DEF DeletesSent
  <2>3. CASE Complete(NoId, "none", air \ {f})
    BY <1>7, <2>3
  <2>4. CASE Complete(f.id, "sendData", air \ {f})
    <3>1. f.id = expectedCallbackId /\ f.id # NoId => currentMsg \in sent
      BY <2>1 DEF SentInv, TxInv, MsgTyped
    <3> QED BY <1>7, <2>4, <3>1
  <2> QED BY <2>1, <2>2, <2>3, <2>4
<1> QED BY <1>1, <1>2, <1>3, <1>4, <1>5, <1>6, <1>8, <1>9, AckSent, EncapSent DEF Next, Receive

\* Whatever is late or overlaps, a message that neither went out nor was tried as often as it may
\* be is deleted only when the reports of a nonce have used up its attempts, when one was sent in
\* its place, or when a report of something else cannot be decrypted: a nonce that is asked for,
\* and the callback of that request, are never taken for the message itself.
THEOREM NotLostUnsentCorrect == Spec => NotLostUnsent
<1> DEFINE IInv == TxInv /\ PlaceTyped /\ SentInv
<1>1. Init => IInv
  <2>1. Init => SentInv
    BY DEF Init, SentInv
  <2> QED BY <2>1, InitTx
<1>2. IInv /\ [Next]_vars => IInv'
  BY NextTx, NextTyped, NextSent
<1>3. IInv /\ [Next]_vars =>
        [\A m \in deleted' \ deleted :
           \/ m \in sent \/ sendAttempts[m] >= MaxTries
           \/ nonceReportSent # NoNode /\ nonceReportSentAttempt >= MaxTries
           \/ m = currentMsg /\ ~Busy
           \/ \E f \in air \ air' : f.kind = "encap" /\ f.about # m]_vars
  BY NextSent DEF DeletesSent
<1> QED BY <1>1, <1>2, <1>3, PTL DEF Spec, NotLostUnsent
=============================================================================
