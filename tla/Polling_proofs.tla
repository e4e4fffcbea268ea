--------------------------- MODULE Polling_proofs ---------------------------
(***************************************************************************)
(* What can part the list of polled values from the values, when a thread  *)
(* keeps m_pollMutex, and that one wrong reading is never shown.           *)
(***************************************************************************)
EXTENDS Polling, SendQueue_proofs, FiniteSetTheorems

\* The parts of TypeOK, one for each part of the state.
DataTyped ==
  /\ value \in [Value -> Objects \cup {None}]
  /\ actual \in [Value -> Reading]

ThreadTyped ==
  /\ pollLock \in {"free", "poll", "application"} /\ leaked \in BOOLEAN
  /\ pc \in {"test", "lock", "popped", "request", "wait", "undefined"}
  /\ taken \in Value \cup {None} /\ (taken # None <=> pc \in {"popped", "request"})
  /\ call \in Call \cup {None} /\ deleting \in Node \cup {None}

EntryType == [value : Value, counter : 0 .. Byte - 1]

ListTyped == list \in Seq(EntryType)

MessageTyped ==
  /\ requests \in [Range(Queue) -> Seq(Value)] /\ current \in Value \cup {None}
  /\ awake \in [Node -> BOOLEAN] /\ \A n \in Listening : awake[n]
  /\ parked \in [Node -> SUBSET Value] /\ pollRequired \in [Node -> BOOLEAN]

UsedTyped == used \in [Bounded -> Nat] /\ \A b \in Bounded : used[b] \in 0 .. Bound[b]

Typed == DataTyped /\ ThreadTyped /\ ListTyped /\ MessageTyped /\ UsedTyped

LEMMA TypedIsTypeOK == Typed => TypeOK
BY DEF Typed, DataTyped, ThreadTyped, ListTyped, EntryType, MessageTyped, UsedTyped, TypeOK

-----------------------------------------------------------------------------
(* Objects, entries, lists. *)

LEMMA ObjectType ==
  ASSUME NEW i \in 0 .. Byte - 1, NEW s \in BOOLEAN, NEW r \in Reading
  PROVE  Object(i, s, r) \in Objects /\ Object(i, s, r).intensity = i /\ Object(i, s, r).set = s
         /\ Object(i, s, r).shown = r /\ Object(i, s, r).check = None
BY DEF Object, Objects

LEMMA ObjectFields ==
  ASSUME NEW o \in Objects
  PROVE  /\ o.intensity \in 0 .. Byte - 1 /\ o.set \in BOOLEAN /\ o.shown \in Reading \cup {Noise}
         /\ o.check \in Reading \cup {Noise, None} /\ o # None
BY PollingAssumption DEF Objects

LEMMA WithIntensity ==
  ASSUME NEW o \in Objects, NEW i \in 0 .. Byte - 1
  PROVE  [o EXCEPT !.intensity = i] \in Objects /\ [o EXCEPT !.intensity = i].intensity = i
         /\ [o EXCEPT !.intensity = i].check = o.check /\ [o EXCEPT !.intensity = i].shown = o.shown
BY DEF Objects

LEMMA VerifyType ==
  ASSUME NEW o \in Objects, NEW v, NEW r \in Reading \cup {Noise}
  PROVE  /\ Verify(o, v, r) \in Objects
         /\ Verify(o, v, r).intensity = o.intensity
         /\ Verify(o, v, r).check \in {None, r}
         /\ Verify(o, v, r).shown \in {o.shown, r}
         /\ v \in Verified /\ o.set /\ r # o.check => Verify(o, v, r).shown = o.shown
<1>1. CASE ~o.set \/ v \notin Verified \/ r = o.check
  <2> DEFINE w == [o EXCEPT !.set = TRUE, !.shown = r, !.check = None]
  <2>1. w \in Objects /\ w.intensity = o.intensity /\ w.check = None /\ w.shown = r
    BY DEF Objects
  <2>2. Verify(o, v, r) = w
    BY <1>1 DEF Verify
  <2> HIDE DEF w
  <2> QED BY <1>1, <2>1, <2>2
<1>2. CASE ~(~o.set \/ v \notin Verified \/ r = o.check)
  <2>1. PICK c \in {None, r} : c = IF r = o.shown THEN None ELSE r
    OBVIOUS
  <2> DEFINE w == [o EXCEPT !.check = c]
  <2>2. w \in Objects /\ w.intensity = o.intensity /\ w.check = c /\ w.shown = o.shown
    BY DEF Objects
  <2>3. Verify(o, v, r) = w
    BY <1>2, <2>1 DEF Verify
  <2> HIDE DEF w
  <2> QED BY <2>1, <2>2, <2>3
<1> QED BY <1>1, <1>2

LEMMA EntryFields ==
  ASSUME NEW v \in Value, NEW c \in 0 .. Byte - 1
  PROVE  Entry(v, c) \in EntryType /\ Entry(v, c).value = v /\ Entry(v, c).counter = c
BY DEF Entry, EntryType

\* A set written down as a list.
LEMMA SetToSeqList ==
  ASSUME NEW S, IsFiniteSet(S)
  PROVE  /\ SetToSeq(S) \in Seq(S) /\ IsInjective(SetToSeq(S)) /\ Range(SetToSeq(S)) \subseteq S
         /\ Len(SetToSeq(S)) = Cardinality(S)
<1>1. PICK f \in [1 .. Cardinality(S) -> S] : IsInjective(f)
  BY FS_CardinalityType DEF ExistsBijection, Bijection, Injection
<1>2. SetToSeq(S) \in [1 .. Cardinality(S) -> S] /\ IsInjective(SetToSeq(S))
  BY <1>1 DEF SetToSeq
<1>3. Cardinality(S) \in Nat
  BY FS_CardinalityType
<1> QED BY <1>2, <1>3 DEF Range

-----------------------------------------------------------------------------
(* Type correctness. *)

LEMMA UseType ==
  ASSUME UsedTyped, NEW b \in Bounded, Use(b)
  PROVE  UsedTyped'
<1>1. used' \in [Bounded -> Nat]
  BY DEF UsedTyped, Use
<1>2. ASSUME NEW c \in Bounded PROVE used'[c] \in 0 .. Bound[c]
  <2>1. used[c] \in 0 .. Bound[c] /\ used[c] \in Nat /\ Bound[c] \in Nat
    BY PollingAssumption DEF UsedTyped
  <2>2. CASE c = b
    <3>1. used'[c] = used[c] + 1 /\ used[c] < Bound[c]
      BY <2>2 DEF Use, UsedTyped
    <3> QED BY <2>1, <3>1
  <2>3. CASE c # b
    <3>1. used'[c] = used[c]
      BY <2>3 DEF Use, UsedTyped
    <3> QED BY <2>1, <3>1
  <2> QED BY <2>2, <2>3
<1> QED BY <1>1, <1>2 DEF UsedTyped

LEMMA UsedKept == ASSUME UsedTyped, used' = used PROVE UsedTyped'
BY DEF UsedTyped

LEMMA UsedOnce == ASSUME [Next]_vars PROVE used' = used \/ \E b \in Bounded : Use(b)
<1>1. CASE UNCHANGED vars
  BY <1>1 DEF vars
<1>2. CASE \E c \in Call : Begin(c)
  BY <1>2 DEF Begin, Bounded
<1>3. CASE Application
  BY <1>3 DEF Application, EnablePoll, DisablePoll, SetPollIntensity
<1>4. CASE PollThread
  BY <1>4 DEF PollThread, Test, Pop, PushBack, Request, EndWait
<1>5. CASE Send \/ EndDelete
  BY <1>5 DEF Send, EndDelete
<1>6. CASE Lost
  BY <1>6 DEF Lost, Bounded
<1>7. ASSUME NEW v \in Value, Answer(v) \/ Change(v) \/ Created(v) \/ Vanishes(v) \/ Misread(v)
      PROVE used' = used \/ \E b \in Bounded : Use(b)
  BY <1>7 DEF Answer, Change, Created, Vanishes, Misread, Bounded
<1>8. ASSUME NEW n \in Node, FallsAsleep(n) \/ WakesUp(n) \/ StartDelete(n)
      PROVE used' = used \/ \E b \in Bounded : Use(b)
  BY <1>8 DEF FallsAsleep, WakesUp, StartDelete, Bounded
<1>9. Verified \subseteq Value
  BY PollingAssumption
<1> QED BY <1>1, <1>2, <1>3, <1>4, <1>5, <1>6, <1>7, <1>8, <1>9 DEF Next

LEMMA NextUsed == ASSUME UsedTyped, [Next]_vars PROVE UsedTyped'
BY UsedOnce, UseType, UsedKept

LEMMA RequestedType ==
  ASSUME MessageTyped, NEW v \in Value, NEW q \in Range(Queue), Requested(v, q)
  PROVE  requests' \in [Range(Queue) -> Seq(Value)] /\ parked' \in [Node -> SUBSET Value]
<1>1. requests \in [Range(Queue) -> Seq(Value)] /\ parked \in [Node -> SUBSET Value] /\ NodeOf[v] \in Node
  BY PollingAssumption DEF MessageTyped
<1>2. CASE awake[NodeOf[v]]
  <2>1. requests' = [requests EXCEPT ![q] = Append(@, v)] /\ parked' = parked
    BY <1>2 DEF Requested
  <2>2. Append(requests[q], v) \in Seq(Value)
    BY <1>1
  <2> QED BY <1>1, <2>1, <2>2
<1>3. CASE ~awake[NodeOf[v]]
  <2>1. parked' = [parked EXCEPT ![NodeOf[v]] = @ \cup {v}] /\ requests' = requests
    BY <1>3 DEF Requested
  <2> QED BY <1>1, <2>1
<1> QED BY <1>2, <1>3

LEMMA RefreshType ==
  ASSUME DataTyped, MessageTyped, NEW v \in Value, NEW r \in Reading \cup {Noise}, Refresh(v, r)
  PROVE  /\ value' \in [Value -> Objects \cup {None}]
         /\ requests' \in [Range(Queue) -> Seq(Value)] /\ parked' \in [Node -> SUBSET Value]
         /\ \A w \in Value : value'[w] = IF w = v /\ value[v] # None THEN Verify(value[v], v, r) ELSE value[w]
<1>1. "Send" \in Range(Queue)
  BY DEF Range, Queue
<1>2. requests' \in [Range(Queue) -> Seq(Value)] /\ parked' \in [Node -> SUBSET Value]
  BY <1>1, RequestedType DEF Refresh, MessageTyped
<1>3. CASE value[v] = None
  BY <1>2, <1>3 DEF Refresh, DataTyped
<1>4. CASE value[v] # None
  <2>1. PICK o \in Objects : o = value[v]
    BY <1>4 DEF DataTyped
  <2>2. PICK w \in Objects : w = Verify(o, v, r)
    BY VerifyType
  <2>3. value' = [value EXCEPT ![v] = w]
    BY <1>4, <2>1, <2>2 DEF Refresh
  <2> QED BY <1>2, <1>4, <2>1, <2>2, <2>3 DEF DataTyped
<1> QED BY <1>3, <1>4

\* The steps that leave the messages alone, and those that leave the values alone.
LEMMA NextMessages ==
  ASSUME DataTyped, ThreadTyped, MessageTyped, [Next]_vars
  PROVE  MessageTyped'
<1>0. ASSUME UNCHANGED << messageVars, nodeVars >> PROVE MessageTyped'
  BY <1>0 DEF MessageTyped, messageVars, nodeVars
<1>1. ASSUME requests' \in [Range(Queue) -> Seq(Value)], parked' \in [Node -> SUBSET Value],
             current' \in Value \cup {None}, UNCHANGED << awake, pollRequired >>
      PROVE  MessageTyped'
  BY <1>1 DEF MessageTyped
<1>2. CASE UNCHANGED vars \/ (\E c \in Call : Begin(c)) \/ Application
  BY <1>0, <1>2 DEF vars, Begin, Application, EnablePoll, DisablePoll, SetPollIntensity
<1>3. CASE Test \/ Pop \/ PushBack \/ EndWait
  BY <1>0, <1>3 DEF Test, Pop, PushBack, EndWait
<1>4. CASE Request
  <2>1. PICK v \in Value : v = taken
    BY <1>4 DEF Request, ThreadTyped
  <2>2. "Poll" \in Range(Queue) /\ NodeOf[v] \in Node
    BY PollingAssumption DEF Range, Queue
  <2>3. Ask(v) /\ UNCHANGED << current, awake >>
    BY <1>4, <2>1 DEF Request
  <2>4. CASE awake[NodeOf[v]]
    BY <1>1, <2>2, <2>3, <2>4, RequestedType DEF Ask, MessageTyped
  <2>5. CASE ~awake[NodeOf[v]]
    BY <2>2, <2>3, <2>5 DEF Ask, MessageTyped
  <2> QED BY <2>4, <2>5
<1>5. CASE Send
  <2>1. PICK i \in DOMAIN Queue : /\ requests[Queue[i]] # << >> /\ current' = Head(requests[Queue[i]])
                                  /\ requests' = [requests EXCEPT ![Queue[i]] = Tail(@)]
    BY <1>5 DEF Send, NonEmpty
  <2>2. PICK q \in Range(Queue) : q = Queue[i]
    BY DEF Range
  <2>3. PICK s \in Seq(Value) : s = requests[q] /\ s # << >>
    BY <2>1, <2>2 DEF MessageTyped
  <2>4. Head(s) \in Value /\ Tail(s) \in Seq(Value)
    BY <2>3, TailList
  <2>5. current' \in Value /\ requests' = [requests EXCEPT ![q] = Tail(s)]
    BY <2>1, <2>2, <2>3, <2>4
  <2> QED BY <1>1, <1>5, <2>4, <2>5 DEF Send, nodeVars, MessageTyped
<1>6. CASE Lost
  <2>1. PICK n \in Node : n = NodeOf[current]
    BY <1>6, PollingAssumption DEF Lost, MessageTyped
  <2>2. CASE n \in Listening
    BY <1>6, <2>1, <2>2 DEF Lost, MessageTyped, nodeVars
  <2>3. CASE n \notin Listening
    <3>1. /\ requests' = [q \in Range(Queue) |-> Keep(requests[q], { v \in Value : NodeOf[v] # n })]
          /\ parked' = [parked EXCEPT ![n] = @ \cup {current} \cup
                              { v \in ValuesOf(n) : \E q \in Range(Queue) : v \in Range(requests[q]) }]
          /\ awake' = [awake EXCEPT ![n] = FALSE]
          /\ current' = None /\ pollRequired' = pollRequired /\ current \in Value
      BY <1>6, <2>1, <2>3 DEF Lost, MessageTyped
    <3>2. PICK R \in SUBSET Value : R = { v \in Value : NodeOf[v] # n }
      OBVIOUS
    <3>3. \A q \in Range(Queue) : Keep(requests[q], R) \in Seq(Value)
      <4>1. ASSUME NEW s \in Seq(Value) PROVE Keep(s, R) \in Seq(Value)
        <5>1. Keep(s, R) \in Seq(Value \cap R) /\ Value \cap R = R
          BY KeepType
        <5> QED BY <5>1
      <4> QED BY <4>1 DEF MessageTyped
    <3>4. requests' \in [Range(Queue) -> Seq(Value)]
      BY <3>1, <3>2, <3>3
    <3>5. PICK P \in SUBSET Value : P = {current} \cup
                 { v \in ValuesOf(n) : \E q \in Range(Queue) : v \in Range(requests[q]) }
      BY <3>1 DEF ValuesOf
    <3>6. parked' \in [Node -> SUBSET Value]
      <4>1. parked' = [parked EXCEPT ![n] = @ \cup P]
        BY <3>1, <3>5
      <4> QED BY <4>1 DEF MessageTyped
    <3>7. awake' \in [Node -> BOOLEAN] /\ \A k \in Listening : awake'[k]
      BY <2>3, <3>1, PollingAssumption DEF MessageTyped
    <3> QED BY <3>1, <3>4, <3>6, <3>7 DEF MessageTyped
  <2> QED BY <2>2, <2>3
<1>7. ASSUME NEW v \in Value, Answer(v) \/ Change(v) PROVE MessageTyped'
  <2>1. /\ \/ \E r \in Reading : Refresh(v, r)
           \/ UNCHANGED << requests, parked >>
        /\ current' \in Value \cup {None} /\ UNCHANGED << awake, pollRequired >>
    BY <1>7 DEF Answer, Change, DataTyped, MessageTyped
  <2> QED BY <1>1, <2>1, RefreshType DEF MessageTyped
<1>8. ASSUME NEW v \in Value, Misread(v) PROVE MessageTyped'
  <2>1. Refresh(v, Noise) /\ current' \in Value \cup {None} /\ UNCHANGED << awake, pollRequired >>
    BY <1>8 DEF Misread, MessageTyped
  <2> QED BY <1>1, <2>1, RefreshType
<1>9. ASSUME NEW v \in Value, Created(v) \/ Vanishes(v) PROVE MessageTyped'
  <2>1. "Query" \in Range(Queue)
    BY DEF Range, Queue
  <2>2. CASE Created(v)
    BY <1>1, <2>1, <2>2, RequestedType DEF Created, MessageTyped
  <2>3. CASE Vanishes(v)
    BY <1>0, <2>3 DEF Vanishes
  <2> QED BY <1>9, <2>2, <2>3
<1>10. ASSUME NEW n \in Node, FallsAsleep(n) PROVE MessageTyped'
  BY <1>10, PollingAssumption DEF FallsAsleep, MessageTyped, messageVars
<1>11. ASSUME NEW n \in Node, WakesUp(n) PROVE MessageTyped'
  <2>1. /\ { v \in ValuesOf(n) : value[v] # None } \subseteq Value /\ parked[n] \subseteq Value
    BY DEF ValuesOf, MessageTyped
  <2>2. ASSUME NEW S \in SUBSET Value PROVE SetToSeq(S) \in Seq(Value)
    <3>1. IsFiniteSet(S)
      BY FS_Subset, PollingAssumption
    <3>2. SetToSeq(S) \in Seq(S)
      BY <3>1, SetToSeqList
    <3> QED BY <3>2
  <2>3. PICK due \in Seq(Value), back \in Seq(Value) :
          /\ due = IF pollRequired[n] THEN SetToSeq({ v \in ValuesOf(n) : value[v] # None }) ELSE << >>
          /\ back = SetToSeq(parked[n])
    <3>1. << >> \in Seq(Value)
      OBVIOUS
    <3> QED BY <2>1, <2>2, <3>1
  <2>4. /\ requests' = [requests EXCEPT !["Query"] = @ \o due, !["WakeUp"] = @ \o back]
        /\ awake' = [awake EXCEPT ![n] = TRUE] /\ parked' = [parked EXCEPT ![n] = {}]
        /\ pollRequired' = [pollRequired EXCEPT ![n] = FALSE] /\ current' = current
    BY <1>11, <2>3 DEF WakesUp
  <2>5. "Query" \in Range(Queue) /\ "WakeUp" \in Range(Queue)
    BY DEF Range, Queue
  <2>6. requests["Query"] \o due \in Seq(Value) /\ requests["WakeUp"] \o back \in Seq(Value)
    BY <2>5 DEF MessageTyped
  <2>7. requests' \in [Range(Queue) -> Seq(Value)]
    BY <2>4, <2>5, <2>6 DEF MessageTyped
  <2>8. awake' \in [Node -> BOOLEAN] /\ (\A k \in Listening : awake'[k])
    BY <2>4, PollingAssumption DEF MessageTyped
  <2> QED BY <2>4, <2>7, <2>8 DEF MessageTyped
<1>12. ASSUME NEW n \in Node, StartDelete(n) PROVE MessageTyped'
  <2>1. /\ requests' = [q \in Range(Queue) |-> Keep(requests[q], { v \in Value : NodeOf[v] # n })]
        /\ current' \in Value \cup {None} /\ UNCHANGED nodeVars
    BY <1>12 DEF StartDelete, MessageTyped
  <2>2. PICK R \in SUBSET Value : R = { v \in Value : NodeOf[v] # n }
    OBVIOUS
  <2>3. \A q \in Range(Queue) : Keep(requests[q], R) \in Seq(Value)
    <3>1. ASSUME NEW s \in Seq(Value) PROVE Keep(s, R) \in Seq(Value)
      <4>1. Keep(s, R) \in Seq(Value \cap R) /\ Value \cap R = R
        BY KeepType
      <4> QED BY <4>1
    <3> QED BY <3>1 DEF MessageTyped
  <2> QED BY <2>1, <2>2, <2>3 DEF MessageTyped, nodeVars
<1>13. CASE EndDelete
  <2>1. /\ deleting \in Node /\ UNCHANGED messageVars
        /\ awake' = [awake EXCEPT ![deleting] = TRUE] /\ parked' = [parked EXCEPT ![deleting] = {}]
        /\ pollRequired' = [pollRequired EXCEPT ![deleting] = FALSE]
    BY <1>13 DEF EndDelete, ThreadTyped
  <2>2. awake' \in [Node -> BOOLEAN] /\ (\A k \in Listening : awake'[k])
    BY <2>1, PollingAssumption DEF MessageTyped
  <2> QED BY <2>1, <2>2 DEF MessageTyped, messageVars
<1> QED BY <1>2, <1>3, <1>4, <1>5, <1>6, <1>7, <1>8, <1>9, <1>10, <1>11, <1>12, <1>13, PollingAssumption
        DEF Next, PollThread

LEMMA CallFields ==
  ASSUME ThreadTyped, call # None
  PROVE  call \in Call /\ call.op \in {"enable", "disable", "set"} /\ call.value \in Value /\ call.intensity \in Intensity
         /\ call.intensity \in 0 .. Byte - 1
BY PollingAssumption DEF ThreadTyped, Call

\* What a call does to the intensity of its value.
LEMMA IntensityType ==
  ASSUME DataTyped, NEW v \in Value, NEW i \in 0 .. Byte - 1,
         value' = IF value[v] = None THEN value ELSE [value EXCEPT ![v].intensity = i]
  PROVE  /\ value' \in [Value -> Objects \cup {None}]
         /\ \A w \in Value : w # v \/ value[v] = None => value'[w] = value[w]
         /\ value[v] # None => /\ value'[v] # None /\ value'[v].intensity = i
                               /\ value'[v].check = value[v].check /\ value'[v].shown = value[v].shown
<1>1. CASE value[v] = None
  BY <1>1 DEF DataTyped
<1>2. CASE value[v] # None
  <2>1. PICK o \in Objects : o = value[v]
    BY <1>2 DEF DataTyped
  <2>2. PICK w \in Objects : w = [o EXCEPT !.intensity = i] /\ w.intensity = i /\ w.check = o.check /\ w.shown = o.shown
    BY WithIntensity
  <2>3. value' = [value EXCEPT ![v] = w]
    BY <1>2, <2>1, <2>2
  <2>4. w # None
    BY ObjectFields
  <2> QED BY <1>2, <2>1, <2>2, <2>3, <2>4 DEF DataTyped
<1> QED BY <1>1, <1>2

LEMMA CallValue ==
  ASSUME DataTyped, ThreadTyped, Application
  PROVE  /\ call # None /\ actual' = actual
         /\ value' = value \/ \E i \in 0 .. Byte - 1 :
              /\ i \in Intensity \cup {0}
              /\ value' = IF value[call.value] = None THEN value ELSE [value EXCEPT ![call.value].intensity = i]
<1>1. CASE EnablePoll
  BY <1>1, CallFields DEF EnablePoll
<1>2. CASE SetPollIntensity
  BY <1>2, CallFields DEF SetPollIntensity
<1>3. CASE DisablePoll
  <2>1. 0 \in 0 .. Byte - 1
    BY PollingAssumption
  <2> QED BY <1>3, <2>1 DEF DisablePoll, Disable
<1> QED BY <1>1, <1>2, <1>3 DEF Application

LEMMA NextData ==
  ASSUME DataTyped, ThreadTyped, MessageTyped, [Next]_vars
  PROVE  DataTyped'
<1>0. ASSUME UNCHANGED << value, actual >> PROVE DataTyped'
  BY <1>0 DEF DataTyped
<1>1. CASE UNCHANGED vars \/ (\E c \in Call : Begin(c)) \/ Send \/ Lost
  BY <1>0, <1>1 DEF vars, Begin, Send, Lost
<1>2. CASE PollThread
  BY <1>0, <1>2 DEF PollThread, Test, Pop, PushBack, Request, EndWait
<1>3. CASE Application
  BY <1>3, CallValue, CallFields, IntensityType DEF DataTyped
<1>4. ASSUME NEW v \in Value, Answer(v) \/ Change(v) \/ (v \in Verified /\ Misread(v)) PROVE DataTyped'
  <2>1. /\ \/ \E r \in Reading \cup {Noise} : Refresh(v, r)
           \/ value' = value
        /\ actual' \in [Value -> Reading]
    BY <1>4 DEF Answer, Change, Misread, DataTyped
  <2> QED BY <2>1, RefreshType DEF DataTyped
<1>5. ASSUME NEW v \in Value, Created(v) \/ Vanishes(v) PROVE DataTyped'
  <2>1. PICK r \in Reading : r = CHOOSE x \in Reading : TRUE
    BY PollingAssumption
  <2>2. 0 \in 0 .. Byte - 1
    BY PollingAssumption
  <2>3. PICK o \in Objects : o = Object(0, FALSE, r)
    BY <2>2, ObjectType
  <2>4. actual' = actual /\ (value' = [value EXCEPT ![v] = o] \/ value' = [value EXCEPT ![v] = None])
    BY <1>5, <2>1, <2>3 DEF Created, Vanishes
  <2> QED BY <2>4 DEF DataTyped
<1>6. ASSUME NEW n \in Node, FallsAsleep(n) \/ WakesUp(n) \/ StartDelete(n) PROVE DataTyped'
  BY <1>0, <1>6 DEF FallsAsleep, WakesUp, StartDelete
<1>7. CASE EndDelete
  BY <1>7 DEF EndDelete, DataTyped
<1> QED BY <1>1, <1>2, <1>3, <1>4, <1>5, <1>6, <1>7, PollingAssumption DEF Next

\* Entries that stay keep their type and their order.
LEMMA KeepEntries ==
  ASSUME ListTyped, NEW R, R \subseteq Range(list), NEW kept, kept = Keep(list, R)
  PROVE  /\ kept \in Seq(EntryType) /\ Range(kept) = R
         /\ IsInjective(list) => IsInjective(kept)
<1>1. list \in Seq(EntryType)
  BY DEF ListTyped
<1>2. Range(list) \subseteq EntryType
  BY <1>1 DEF Range
<1>3. EntryType \cap R = R /\ Range(list) \cap R = R
  BY <1>2
<1>4. kept \in Seq(EntryType \cap R) /\ Range(kept) = R /\ (IsInjective(list) => IsInjective(kept))
  BY <1>1, <1>3, KeepList
<1>5. kept \in Seq(EntryType)
  <2>1. kept \in Seq(R) /\ R \subseteq EntryType
    BY <1>2, <1>3, <1>4
  <2> QED BY <2>1
<1> QED BY <1>4, <1>5

LEMMA ListedValues ==
  ASSUME ListTyped
  PROVE  \A e \in Range(list) : e.value \in Value
<1>1. Range(list) \subseteq EntryType
  BY DEF ListTyped, Range
<1>2. \A e \in EntryType : e.value \in Value
  BY DEF EntryType
<1> QED BY <1>1, <1>2

LEMMA HeadEntry ==
  ASSUME ListTyped, list # << >>
  PROVE  /\ Head(list) \in EntryType /\ Head(list).value \in Value /\ Head(list).counter \in 0 .. Byte - 1
         /\ Tail(list) \in Seq(EntryType)
         /\ Range(list) = {Head(list)} \cup Range(Tail(list))
         /\ IsInjective(list) => IsInjective(Tail(list)) /\ Head(list) \notin Range(Tail(list))
<1>1. /\ Head(list) \in EntryType /\ Tail(list) \in Seq(EntryType)
      /\ Range(list) = {Head(list)} \cup Range(Tail(list))
      /\ IsInjective(list) => IsInjective(Tail(list)) /\ Head(list) \notin Range(Tail(list))
  BY TailList DEF ListTyped
<1>2. PICK e \in EntryType : e = Head(list)
  BY <1>1
<1>3. e.value \in Value /\ e.counter \in 0 .. Byte - 1
  BY DEF EntryType
<1> QED BY <1>1, <1>2, <1>3

LEMMA SkipEntry ==
  ASSUME NEW e \in EntryType
  PROVE  [e EXCEPT !.counter = (@ - 1) % Byte] \in EntryType
         /\ [e EXCEPT !.counter = (@ - 1) % Byte].value = e.value
<1>1. e.value \in Value /\ e.counter \in 0 .. Byte - 1
  BY DEF EntryType
<1>2. PICK c \in Int : c = e.counter - 1
  BY <1>1
<1>3. c % Byte \in 0 .. Byte - 1
  BY <1>2, PollingAssumption
<1>4. PICK d \in 0 .. Byte - 1 : d = c % Byte
  BY <1>3
<1>5. [e EXCEPT !.counter = (@ - 1) % Byte] = [e EXCEPT !.counter = d]
  BY <1>2, <1>4
<1> QED BY <1>1, <1>5 DEF EntryType

\* The steps of the list: an entry is added, moved to the end, taken from the front or erased.
LEMMA NextList ==
  ASSUME DataTyped, ThreadTyped, ListTyped, MessageTyped, [Next]_vars
  PROVE  ListTyped'
<1>0. ASSUME list' = list PROVE ListTyped'
  BY <1>0 DEF ListTyped
<1>1. ASSUME NEW v \in Value, NEW c \in 0 .. Byte - 1, list' = Append(list, Entry(v, c)) PROVE ListTyped'
  <2>1. Entry(v, c) \in EntryType
    BY EntryFields
  <2> QED BY <1>1, <2>1 DEF ListTyped
<1>2. ASSUME NEW R, R \subseteq Range(list), list' = Keep(list, R) PROVE ListTyped'
  BY <1>2, KeepEntries DEF ListTyped
<1>3. CASE UNCHANGED vars \/ (\E c \in Call : Begin(c)) \/ Send \/ Lost
  BY <1>0, <1>3 DEF vars, Begin, Send, Lost
<1>4. ASSUME NEW v \in Value, Answer(v) \/ Change(v) \/ Created(v) \/ Vanishes(v) \/ Misread(v)
      PROVE  ListTyped'
  BY <1>0, <1>4 DEF Answer, Change, Created, Vanishes, Misread
<1>5. ASSUME NEW n \in Node, FallsAsleep(n) \/ WakesUp(n) \/ StartDelete(n) PROVE ListTyped'
  BY <1>0, <1>5 DEF FallsAsleep, WakesUp, StartDelete
<1>6. CASE EndDelete
  <2>1. PICK R : R \subseteq Range(list) /\ list' = Keep(list, R)
    BY <1>6 DEF EndDelete
  <2> QED BY <1>2, <2>1
<1>7. CASE EnablePoll
  BY <1>0, <1>1, <1>7, CallFields DEF EnablePoll, Enlist
<1>8. CASE DisablePoll
  <2>1. list' = list \/ \E R : R \subseteq Range(list) /\ list' = Keep(list, R)
    BY <1>8 DEF DisablePoll, Disable, Erase
  <2> QED BY <1>0, <1>2, <2>1
<1>9. CASE SetPollIntensity \/ Test \/ Request \/ EndWait
  BY <1>0, <1>9 DEF SetPollIntensity, Test, Request, EndWait
<1>10. CASE Pop
  <2>1. CASE list = << >>
    BY <1>0, <1>10, <2>1 DEF Pop
  <2>2. CASE list # << >> /\ Head(list).counter # 1
    <3>1. PICK e \in EntryType : e = [Head(list) EXCEPT !.counter = (@ - 1) % Byte]
      BY <2>2, HeadEntry, SkipEntry
    <3>2. list' = Append(Tail(list), e)
      BY <1>10, <2>2, <3>1 DEF Pop, Skip
    <3> QED BY <2>2, <3>2, HeadEntry DEF ListTyped
  <2>3. CASE list # << >> /\ Head(list).counter = 1
    <3>1. list' = Tail(list)
      BY <1>10, <2>3 DEF Pop
    <3> QED BY <2>3, <3>1, HeadEntry DEF ListTyped
  <2> QED BY <2>1, <2>2, <2>3
<1>11. CASE PushBack
  <2>1. PICK v \in Value : v = taken
    BY <1>11 DEF PushBack, ThreadTyped
  <2>2. CASE value[v] = None
    BY <1>0, <1>11, <2>1, <2>2 DEF PushBack
  <2>3. CASE value[v] # None
    <3>1. value[v].intensity \in 0 .. Byte - 1
      BY <2>3, ObjectFields DEF DataTyped
    <3> QED BY <1>1, <1>11, <2>1, <2>3, <3>1 DEF PushBack
  <2> QED BY <2>2, <2>3
<1> QED BY <1>3, <1>4, <1>5, <1>6, <1>7, <1>8, <1>9, <1>10, <1>11, PollingAssumption
        DEF Next, Application, PollThread

LEMMA NextThread ==
  ASSUME ThreadTyped, ListTyped, [Next]_vars
  PROVE  ThreadTyped'
<1>0. ASSUME UNCHANGED << lockVars, threadVars, call, deleting >> PROVE ThreadTyped'
  BY <1>0 DEF ThreadTyped, lockVars, threadVars
<1>1. CASE UNCHANGED vars \/ Send \/ Lost
  BY <1>0, <1>1 DEF vars, Send, Lost
<1>2. ASSUME NEW v \in Value, Answer(v) \/ Change(v) \/ Created(v) \/ Vanishes(v) \/ Misread(v)
      PROVE  ThreadTyped'
  BY <1>0, <1>2 DEF Answer, Change, Created, Vanishes, Misread
<1>3. ASSUME NEW n \in Node, FallsAsleep(n) \/ WakesUp(n) \/ StartDelete(n) PROVE ThreadTyped'
  BY <1>0, <1>3 DEF FallsAsleep, WakesUp, StartDelete, ThreadTyped, lockVars, threadVars
<1>4. ASSUME NEW c \in Call, Begin(c) PROVE ThreadTyped'
  BY <1>4 DEF Begin, ThreadTyped, threadVars
<1>5. CASE EndDelete
  BY <1>5 DEF EndDelete, ThreadTyped, lockVars, threadVars
<1>6. CASE Application
  <2>1. /\ pollLock' \in {pollLock, "free"} /\ leaked' \in {leaked, TRUE}
        /\ call' = None /\ UNCHANGED << threadVars, deleting >>
    BY <1>6 DEF Application, EnablePoll, DisablePoll, SetPollIntensity, Disable, Unlock, Leak, Return
  <2> QED BY <2>1 DEF ThreadTyped, threadVars
<1>7. CASE Test \/ EndWait
  BY <1>7, PollingAssumption DEF Test, EndWait, ThreadTyped, lockVars
<1>8. CASE Pop
  <2>1. CASE list = << >>
    BY <1>8, <2>1, PollingAssumption DEF Pop, ThreadTyped
  <2>2. CASE list # << >> /\ Head(list).counter # 1
    BY <1>8, <2>2 DEF Pop, ThreadTyped, lockVars
  <2>3. CASE list # << >> /\ Head(list).counter = 1
    <3>1. taken' \in Value /\ pc' = "popped" /\ pollLock' = "poll" /\ UNCHANGED << leaked, call, deleting >>
      BY <1>8, <2>3, HeadEntry DEF Pop
    <3> QED BY <3>1, PollingAssumption DEF ThreadTyped
  <2> QED BY <2>1, <2>2, <2>3
<1>9. CASE PushBack
  BY <1>9 DEF PushBack, ThreadTyped, Leak, lockVars
<1>10. CASE Request
  BY <1>10 DEF Request, ThreadTyped, Unlock
<1> QED BY <1>1, <1>2, <1>3, <1>4, <1>5, <1>6, <1>7, <1>8, <1>9, <1>10, PollingAssumption
        DEF Next, PollThread

-----------------------------------------------------------------------------
(* The lock, and the list against the values. *)

\* m_pollMutex belongs to the application during a call, and to the polling thread from
\* taking a value to asking for it.
LockInv ==
  /\ call # None => pollLock = "application"
  /\ pc \in {"popped", "request", "undefined"} => pollLock = "poll"

\* No value is on the list twice.  The one that is taken is off it, and then at its end.
OnceInv ==
  /\ IsInjective(list) /\ \A d, e \in Range(list) : d.value = e.value => d = e
  /\ pc = "popped" => \A e \in Range(list) : e.value # taken
  /\ pc = "request" => \E e \in Range(list) : e.value = taken

PollInv == LockInv /\ OnceInv

\* What a call does to the lock.
LEMMA CallLock ==
  ASSUME Typed, PollInv, Application
  PROVE  /\ call # None /\ call' = None /\ UNCHANGED << pc, taken >> /\ taken = None
         /\ pollLock = "application" /\ pc \notin {"popped", "request", "undefined"}
         /\ \/ pollLock' = "free" /\ ~leaked /\ ~leaked'
            \/ leaked
            \/ call.op \in {"disable", "set"} /\ value[call.value] = None
<1>1. call # None /\ call' = None /\ UNCHANGED << pc, taken >>
  BY DEF Application, EnablePoll, DisablePoll, SetPollIntensity, Return, threadVars
<1>2. pollLock = "application" /\ pc \notin {"popped", "request", "undefined"} /\ taken = None
  BY <1>1 DEF PollInv, LockInv, Typed, ThreadTyped
<1>3. CASE EnablePoll
  BY <1>1, <1>2, <1>3 DEF EnablePoll, Unlock, Typed, ThreadTyped
<1>4. CASE SetPollIntensity
  BY <1>1, <1>2, <1>4 DEF SetPollIntensity, Unlock, Typed, ThreadTyped
<1>5. CASE DisablePoll
  BY <1>1, <1>2, <1>5 DEF DisablePoll, Disable, Unlock, Typed, ThreadTyped
<1> QED BY <1>1, <1>2, <1>3, <1>4, <1>5 DEF Application

LEMMA NextLock ==
  ASSUME Typed, PollInv, [Next]_vars
  PROVE  LockInv' /\ (~LeftLocked /\ LeftLocked' =>
                        \/ call # None /\ call.op \in {"disable", "set"} /\ value[call.value] = None
                        \/ taken # None /\ value[taken] = None)
<1> DEFINE Goal == LockInv' /\ (~LeftLocked /\ LeftLocked' =>
                        \/ call # None /\ call.op \in {"disable", "set"} /\ value[call.value] = None
                        \/ taken # None /\ value[taken] = None)
<1> SUFFICES Goal
  OBVIOUS
<1>0. ASSUME UNCHANGED << lockVars, pc, call >> PROVE Goal
  BY <1>0 DEF PollInv, LockInv, LeftLocked, lockVars
<1>1. CASE UNCHANGED vars \/ Send \/ Lost \/ EndDelete
  BY <1>0, <1>1 DEF vars, Send, Lost, EndDelete, threadVars
<1>2. ASSUME NEW v \in Value, Answer(v) \/ Change(v) \/ Created(v) \/ Vanishes(v) \/ Misread(v)
      PROVE  Goal
  BY <1>0, <1>2 DEF Answer, Change, Created, Vanishes, Misread, threadVars
<1>3. ASSUME NEW n \in Node, FallsAsleep(n) \/ WakesUp(n) \/ StartDelete(n) PROVE Goal
  BY <1>0, <1>3 DEF FallsAsleep, WakesUp, StartDelete, threadVars
<1>4. ASSUME NEW c \in Call, Begin(c) PROVE Goal
  <2>1. /\ call' # None /\ pollLock' = "application" /\ UNCHANGED << leaked, pc >>
        /\ pollLock \in {"free", "application"}
    BY <1>4, PollingAssumption DEF Begin, CanLock, threadVars
  <2> QED BY <2>1 DEF PollInv, LockInv, LeftLocked
<1>5. CASE Application
  <2>1. LockInv'
    BY <1>5, CallLock DEF LockInv
  <2>2. ~leaked => (pollLock' = "free" /\ ~leaked') \/ (call.op \in {"disable", "set"} /\ value[call.value] = None)
    BY <1>5, CallLock
  <2> QED BY <1>5, <2>1, <2>2, CallLock DEF LeftLocked
<1>6. CASE Test \/ EndWait
  BY <1>6 DEF Test, EndWait, lockVars, PollInv, LockInv, LeftLocked
<1>7. CASE Pop
  <2>1. pollLock \in {"free", "poll"} /\ call = None /\ pc = "lock" /\ call' = call
    BY <1>7 DEF Pop, CanLock, PollInv, LockInv
  <2>2. \/ pc' = "undefined" /\ pollLock' = "poll" /\ leaked' = leaked
        \/ pc' = "test" /\ UNCHANGED lockVars
        \/ pc' = "popped" /\ pollLock' = "poll" /\ leaked' = leaked
    BY <1>7 DEF Pop
  <2> QED BY <2>1, <2>2 DEF LockInv, LeftLocked, lockVars
<1>8. CASE PushBack
  <2>1. taken # None /\ pc = "popped" /\ pollLock = "poll" /\ call = None /\ call' = call
    BY <1>8 DEF PushBack, PollInv, LockInv, Typed, ThreadTyped
  <2>2. CASE value[taken] = None
    <3>1. pc' = "test"
      BY <1>8, <2>2 DEF PushBack
    <3> QED BY <2>1, <2>2, <3>1 DEF LockInv
  <2>3. CASE value[taken] # None
    <3>1. pc' = "request" /\ UNCHANGED lockVars
      BY <1>8, <2>3 DEF PushBack
    <3> QED BY <2>1, <3>1 DEF LockInv, LeftLocked, lockVars
  <2> QED BY <2>2, <2>3
<1>9. CASE Request
  <2>1. pollLock = "poll" /\ call = None /\ call' = call /\ pc' = "wait" /\ leaked' = leaked
        /\ (~leaked => pollLock' = "free")
    BY <1>9 DEF Request, PollInv, LockInv, Unlock
  <2> QED BY <2>1 DEF LockInv, LeftLocked
<1> QED BY <1>1, <1>2, <1>3, <1>4, <1>5, <1>6, <1>7, <1>8, <1>9, PollingAssumption
        DEF Next, PollThread

-----------------------------------------------------------------------------
\* The values of the list.
Has(v) == \E e \in Range(list) : e.value = v

Held(v) == taken = v \/ Has(v)

Polls(v) == value[v] # None /\ value[v].intensity # 0

Together(v) == Held(v) <=> Polls(v)

\* What may part them.
Excused(v) ==
  \/ /\ call # None /\ call.value = v
     /\ \/ call.op = "enable" /\ call.intensity = 0
        \/ call.op = "set" /\ (call.intensity = 0 <=> Listed(v))
  \/ deleting = None /\ Listed(v) /\ value'[v] = None

Follows(v) == Together(v) => Together(v)' \/ Excused(v)

Once(l) == IsInjective(l) /\ \A d, e \in Range(l) : d.value = e.value => d = e

\* The places of a value in a list that has it at most once.
LEMMA Places ==
  ASSUME NEW l, NEW v, Once(l), NEW at, at = { i \in DOMAIN l : l[i].value = v }
  PROVE  (at # {} <=> \E e \in Range(l) : e.value = v) /\ \A i, j \in at : i = j
<1>1. at # {} <=> \E e \in Range(l) : e.value = v
  BY DEF Range
<1>2. ASSUME NEW i \in at, NEW j \in at PROVE i = j
  <2>1. i \in DOMAIN l /\ j \in DOMAIN l /\ l[i].value = v /\ l[j].value = v
    OBVIOUS
  <2>2. l[i] = l[j]
    BY <2>1 DEF Once, Range
  <2> QED BY <2>1, <2>2 DEF Once, IsInjective
<1> QED BY <1>1, <1>2

\* What is in step, and what may part it, said of the values of the list.
LEMMA StepOf ==
  ASSUME OnceInv, NEW v
  PROVE  /\ InStep(v) <=> Together(v)
         /\ Listed(v) <=> Held(v)
         /\ Entries(v) # {} <=> Has(v)
<1>1. PICK at : at = Entries(v)
  OBVIOUS
<1>2. Once(list)
  BY DEF Once, OnceInv
<1>3. (at # {} <=> Has(v)) /\ \A i, j \in at : i = j
  BY <1>1, <1>2, Places DEF Entries, Has
<1>4. taken = v /\ pc = "popped" => ~Has(v)
  BY DEF OnceInv, Has
<1> QED BY <1>1, <1>3, <1>4 DEF InStep, Listed, Held, Polls, Together

LEMMA StepOfNext ==
  ASSUME OnceInv', NEW v
  PROVE  InStep(v)' <=> Together(v)'
<1>1. PICK at : at = Entries(v)'
  OBVIOUS
<1>2. Once(list')
  BY DEF Once, OnceInv
<1>3. PICK l : l = list'
  OBVIOUS
<1>4. at = { i \in DOMAIN l : l[i].value = v }
  BY <1>1, <1>3 DEF Entries
<1>5. (at # {} <=> \E e \in Range(l) : e.value = v) /\ \A i, j \in at : i = j
  <2>1. Once(l)
    BY <1>2, <1>3
  <2> QED BY <1>4, <2>1, Places
<1>6. (at # {} <=> Has(v)') /\ \A i, j \in at : i = j
  BY <1>3, <1>5 DEF Has
<1>7. taken' = v /\ pc' = "popped" => ~Has(v)'
  BY DEF OnceInv, Has
<1> QED BY <1>1, <1>6, <1>7 DEF InStep, Listed, Held, Polls, Together

\* Entries are erased.
LEMMA ErasedEntries ==
  ASSUME ListTyped, Once(list), NEW R, R \subseteq Range(list), list' = Keep(list, R)
  PROVE  Once(list') /\ Range(list') = R
<1>1. PICK kept : kept = Keep(list, R) /\ Range(kept) = R /\ IsInjective(kept)
  BY KeepEntries DEF Once
<1>2. Range(list') = R /\ IsInjective(list')
  BY <1>1
<1> QED BY <1>2 DEF Once

\* An entry is added for a value that is not in the list q.
LEMMA AddedEntry ==
  ASSUME NEW q \in Seq(EntryType), Once(q), NEW x \in EntryType, list' = Append(q, x),
         \A e \in Range(q) : e.value # x.value
  PROVE  Once(list') /\ Range(list') = Range(q) \cup {x}
<1>1. Range(Append(q, x)) = Range(q) \cup {x} /\ IsInjective(Append(q, x))
  BY AppendItem DEF Once
<1>2. Range(list') = Range(q) \cup {x} /\ IsInjective(list')
  BY <1>1
<1> QED BY <1>2 DEF Once

LEMMA SameList ==
  ASSUME OnceInv, list' = list, pc' = pc, taken' = taken
  PROVE  OnceInv' /\ \A v \in Value : Held(v)' = Held(v)
BY DEF OnceInv, Held, Has

LEMMA SameStep ==
  ASSUME OnceInv, UNCHANGED << list, pc, taken, value >>
  PROVE  OnceInv' /\ \A v \in Value : Follows(v)
BY SameList DEF Follows, Together, Polls

\* What a call does to the value v it is for, and to the others.
LEMMA ApplicationStep ==
  ASSUME Typed, PollInv, Application
  PROVE  OnceInv' /\ \A w \in Value : Follows(w)
<1>1. PICK v \in Value, i \in 0 .. Byte - 1 : v = call.value /\ i = call.intensity /\ call # None
  <2>1. call # None
    BY CallLock
  <2> QED BY <2>1, CallFields DEF Typed
<1>2. pc' = pc /\ taken' = taken /\ taken = None /\ pc \notin {"popped", "request"}
  BY CallLock
<1>3. OnceInv /\ Once(list) /\ list \in Seq(EntryType) /\ ListTyped /\ DataTyped
  BY DEF PollInv, OnceInv, Once, Typed, ListTyped
<1>4. \A w \in Value : w # None /\ (Listed(w) <=> Has(w)) /\ (Held(w) <=> Has(w)) /\ (Held(w)' <=> Has(w)')
  BY <1>2, <1>3, StepOf, PollingAssumption DEF Held
<1>5. CASE EnablePoll
  <2>1. value' = IF value[v] = None THEN value ELSE [value EXCEPT ![v].intensity = i]
    BY <1>1, <1>5 DEF EnablePoll
  <2>2. CASE value[v] = None
    BY <1>1, <1>2, <1>3, <1>5, <2>1, <2>2, SameStep DEF EnablePoll, Enlist
  <2>3. CASE value[v] # None /\ Entries(v) # {}
    <3>1. list' = list
      BY <1>1, <1>5, <2>3 DEF EnablePoll, Enlist
    <3>2. OnceInv' /\ \A w \in Value : Held(w)' = Held(w)
      BY <1>2, <1>3, <3>1, SameList
    <3>3. Has(v)
      BY <1>3, <2>3, StepOf
    <3>4. \A w \in Value : w # v => value'[w] = value[w]
      BY <1>3, <2>1, IntensityType
    <3>5. value'[v] # None /\ value'[v].intensity = i
      BY <1>3, <2>1, <2>3, IntensityType
    <3>6. i # 0 => Together(v)'
      BY <1>4, <3>2, <3>3, <3>5 DEF Together, Polls
    <3>7. call.op = "enable"
      BY <1>5 DEF EnablePoll
    <3> QED BY <1>1, <3>2, <3>4, <3>6, <3>7 DEF Follows, Together, Polls, Excused
  <2>4. CASE value[v] # None /\ Entries(v) = {}
    <3>1. PICK x \in EntryType : x = Entry(v, i) /\ x.value = v
      BY EntryFields
    <3>2. list' = Append(list, x)
      BY <1>1, <1>5, <2>4, <3>1 DEF EnablePoll, Enlist
    <3>3. \A e \in Range(list) : e.value # v
      BY <1>3, <2>4, StepOf DEF Has
    <3>4. Once(list') /\ Range(list') = Range(list) \cup {x}
      BY <1>3, <3>1, <3>2, <3>3, AddedEntry
    <3>5. OnceInv' /\ Has(v)' /\ \A w \in Value : w # v => Has(w)' = Has(w)
      BY <1>2, <3>1, <3>4 DEF OnceInv, Once, Has
    <3>6. \A w \in Value : w # v => value'[w] = value[w]
      BY <1>3, <2>1, IntensityType
    <3>7. value'[v] # None /\ value'[v].intensity = i
      BY <1>3, <2>1, <2>4, IntensityType
    <3>8. i # 0 => Together(v)'
      BY <1>4, <3>5, <3>7 DEF Together, Polls
    <3>9. call.op = "enable"
      BY <1>5 DEF EnablePoll
    <3> QED BY <1>1, <1>4, <3>5, <3>6, <3>8, <3>9 DEF Follows, Together, Polls, Excused
  <2> QED BY <2>2, <2>3, <2>4
<1>6. CASE SetPollIntensity
  <2>1. value' = (IF value[v] = None THEN value ELSE [value EXCEPT ![v].intensity = i]) /\ list' = list
    BY <1>1, <1>6 DEF SetPollIntensity
  <2>2. OnceInv' /\ \A w \in Value : Held(w)' = Held(w)
    BY <1>2, <1>3, <2>1, SameList
  <2>3. \A w \in Value : w # v \/ value[v] = None => value'[w] = value[w]
    BY <1>3, <2>1, IntensityType
  <2>4. value[v] # None => value'[v] # None /\ value'[v].intensity = i
    BY <1>3, <2>1, IntensityType
  <2>5. ASSUME value[v] # None PROVE Together(v)' \/ (i = 0 <=> Listed(v))
    BY <1>4, <2>2, <2>4, <2>5 DEF Together, Polls
  <2>6. call.op = "set"
    BY <1>6 DEF SetPollIntensity
  <2> QED BY <1>1, <2>2, <2>3, <2>5, <2>6 DEF Follows, Together, Polls, Excused
<1>7. CASE DisablePoll
  <2>1. CASE Entries(v) = {}
    BY <1>1, <1>2, <1>3, <1>7, <2>1, SameStep DEF DisablePoll
  <2>2. CASE Entries(v) # {} /\ list' = list /\ value' = value
    BY <1>2, <1>3, <2>2, SameStep
  <2>3. CASE Entries(v) # {} /\ Erase(v)
    <3>1. PICK R : R = { e \in Range(list) : e.value # v }
      OBVIOUS
    <3>2. Once(list') /\ Range(list') = R
      BY <1>3, <2>3, <3>1, ErasedEntries DEF Erase
    <3>3. OnceInv' /\ ~Has(v)' /\ \A w \in Value : w # v => Has(w)' = Has(w)
      BY <1>2, <3>1, <3>2 DEF OnceInv, Once, Has
    <3>4. \/ value[v] = None /\ value' = value
          \/ value' = [value EXCEPT ![v].intensity = 0]
      BY <1>1, <1>7, <2>3 DEF DisablePoll, Disable
    <3>5. PICK z \in 0 .. Byte - 1 : z = 0
      BY PollingAssumption
    <3>6. value' = IF value[v] = None THEN value ELSE [value EXCEPT ![v].intensity = z]
      BY <1>1, <1>7, <2>3, <3>5 DEF DisablePoll, Disable
    <3>7. ~Polls(v)' /\ \A w \in Value : w # v => value'[w] = value[w]
      BY <1>3, <3>5, <3>6, IntensityType DEF Polls
    <3> QED BY <1>4, <3>3, <3>7 DEF Follows, Together, Polls
  <2>4. Entries(v) # {} => (list' = list /\ value' = value) \/ Erase(v)
    BY <1>1, <1>7 DEF DisablePoll, Disable
  <2> QED BY <2>1, <2>2, <2>3, <2>4
<1> QED BY <1>5, <1>6, <1>7 DEF Application

LEMMA PopStep ==
  ASSUME Typed, PollInv, Pop
  PROVE  OnceInv' /\ \A w \in Value : Follows(w)
<1>1. pc = "lock" /\ value' = value /\ taken = None
  BY DEF Pop, Typed, ThreadTyped
<1>2. CASE list = << >>
  <2>1. list' = list /\ taken' = taken /\ pc' = "undefined"
    BY <1>2 DEF Pop
  <2>2. OnceInv' /\ \A w \in Value : Held(w)' = Held(w)
    BY <2>1 DEF PollInv, OnceInv, Held, Has
  <2> QED BY <1>1, <2>2 DEF Follows, Together, Polls
<1>3. CASE list # << >>
  <2>1. PICK h \in EntryType, t \in Seq(EntryType) :
          /\ h = Head(list) /\ t = Tail(list) /\ h.value \in Value
          /\ Range(list) = {h} \cup Range(t) /\ IsInjective(t) /\ h \notin Range(t)
    BY <1>3, HeadEntry DEF Typed, PollInv, OnceInv
  <2>2. Once(t) /\ \A e \in Range(t) : e.value # h.value
    BY <2>1 DEF PollInv, OnceInv, Once
  <2>3. CASE h.counter # 1
    <3>1. PICK x \in EntryType : x = [h EXCEPT !.counter = (@ - 1) % Byte] /\ x.value = h.value
      BY SkipEntry
    <3>2. list' = Append(t, x) /\ pc' = "test" /\ taken' = taken
      BY <1>3, <2>1, <2>3, <3>1 DEF Pop, Skip
    <3>3. Once(list') /\ Range(list') = Range(t) \cup {x}
      BY <2>2, <3>1, <3>2, AddedEntry
    <3>5. OnceInv'
      BY <3>2, <3>3 DEF OnceInv, Once
    <3>6. \A w \in Value : Has(w)' = Has(w)
      BY <2>1, <3>1, <3>3 DEF Has
    <3>7. \A w \in Value : Held(w)' = Held(w)
      BY <3>2, <3>6 DEF Held
    <3> QED BY <1>1, <3>5, <3>7 DEF Follows, Together, Polls
  <2>4. CASE h.counter = 1
    <3>1. list' = t /\ pc' = "popped" /\ taken' = h.value
      BY <1>3, <2>1, <2>4 DEF Pop
    <3>2. OnceInv' /\ \A w \in Value : Held(w)' = Held(w)
      BY <1>1, <2>1, <2>2, <3>1, PollingAssumption DEF OnceInv, Once, Held, Has
    <3> QED BY <1>1, <3>2 DEF Follows, Together, Polls
  <2> QED BY <2>3, <2>4
<1> QED BY <1>2, <1>3

LEMMA PushBackStep ==
  ASSUME Typed, PollInv, PushBack
  PROVE  OnceInv' /\ \A w \in Value : Follows(w)
<1>1. PICK v \in Value : v = taken /\ v # None /\ \A e \in Range(list) : e.value # v
  BY DEF PushBack, Typed, ThreadTyped, PollInv, OnceInv
<1>2. value' = value /\ Once(list) /\ list \in Seq(EntryType)
  BY DEF PushBack, PollInv, OnceInv, Once, Typed, ListTyped
<1>3. CASE value[v] = None
  <2>1. list' = list /\ pc' = "test" /\ taken' = None
    BY <1>1, <1>3 DEF PushBack
  <2>2. OnceInv' /\ ~Held(v)' /\ \A w \in Value : w # v => Held(w)' = Held(w)
    BY <1>1, <2>1, PollingAssumption DEF PollInv, OnceInv, Held, Has
  <2> QED BY <1>2, <1>3, <2>2 DEF Follows, Together, Polls
<1>4. CASE value[v] # None
  <2>1. value[v].intensity \in 0 .. Byte - 1
    BY <1>4, ObjectFields DEF Typed, DataTyped
  <2>2. PICK x \in EntryType : x = Entry(v, value[v].intensity) /\ x.value = v
    BY <2>1, EntryFields
  <2>3. list' = Append(list, x) /\ pc' = "request" /\ taken' = taken
    BY <1>1, <1>4, <2>2 DEF PushBack
  <2>4. Once(list') /\ Range(list') = Range(list) \cup {x}
    BY <1>1, <1>2, <2>2, <2>3, AddedEntry
  <2>5. OnceInv' /\ \A w \in Value : Held(w)' = Held(w)
    BY <1>1, <2>2, <2>3, <2>4 DEF OnceInv, Once, Held, Has
  <2> QED BY <1>2, <2>5 DEF Follows, Together, Polls
<1> QED BY <1>3, <1>4

\* A reading changes no intensity.
LEMMA RefreshStep ==
  ASSUME Typed, PollInv, UNCHANGED << list, pc, taken >>,
         value' = value \/ \E v \in Value, r \in Reading \cup {Noise} : Refresh(v, r)
  PROVE  OnceInv' /\ \A w \in Value : Follows(w)
<1>1. ASSUME NEW w \in Value PROVE Polls(w)' = Polls(w)
  <2>1. CASE value' = value
    BY <2>1 DEF Polls
  <2>2. ASSUME NEW v \in Value, NEW r \in Reading \cup {Noise}, Refresh(v, r)
        PROVE  Polls(w)' = Polls(w)
    <3>1. value'[w] = IF w = v /\ value[v] # None THEN Verify(value[v], v, r) ELSE value[w]
      BY <2>2, RefreshType DEF Typed
    <3>2. CASE value[w] = None
      BY <3>1, <3>2 DEF Polls
    <3>3. CASE value[w] # None
      <4>1. PICK o \in Objects : o = value[w]
        BY <3>3 DEF Typed, DataTyped
      <4>2. Verify(o, w, r) \in Objects /\ Verify(o, w, r).intensity = o.intensity
        BY VerifyType
      <4>3. Verify(o, w, r) # None
        BY <4>2, ObjectFields
      <4> QED BY <3>1, <3>3, <4>1, <4>2, <4>3 DEF Polls
    <3> QED BY <3>2, <3>3
  <2> QED BY <2>1, <2>2
<1>2. OnceInv' /\ \A w \in Value : Held(w)' = Held(w)
  BY SameList DEF PollInv
<1> QED BY <1>1, <1>2 DEF Follows, Together

\* ~Node has m_pollMutex, so nothing is taken; a value of the node that is in step and on
\* the list is polled, and so is taken off it.
LEMMA EndDeleteStep ==
  ASSUME Typed, PollInv, EndDelete
  PROVE  OnceInv' /\ \A w \in Value : Follows(w)
<1>1. pc \notin {"popped", "request"} /\ pc' = pc /\ taken = None /\ taken' = None
  BY DEF EndDelete, CanLock, Typed, ThreadTyped, PollInv, LockInv, threadVars
<1>2. PICK R : R = { e \in Range(list) : ~(NodeOf[e.value] = deleting /\ isPolled(e.value)) }
  OBVIOUS
<1>3. list' = Keep(list, R) /\ value' = [v \in Value |-> IF NodeOf[v] = deleting THEN None ELSE value[v]]
  BY <1>2 DEF EndDelete
<1>4. OnceInv /\ Once(list) /\ ListTyped
  BY DEF PollInv, OnceInv, Once, Typed
<1>5. Once(list') /\ Range(list') = R
  BY <1>2, <1>3, <1>4, ErasedEntries
<1>6. OnceInv'
  BY <1>1, <1>5 DEF OnceInv, Once
<1>7. ASSUME NEW w \in Value PROVE Follows(w)
  <2>0. (Held(w) <=> Has(w)) /\ (Held(w)' <=> Has(w)') /\ (Entries(w) # {} <=> Has(w))
    BY <1>1, <1>4, StepOf, PollingAssumption DEF Held
  <2>1. CASE NodeOf[w] = deleting
    <3>1. ~Polls(w)'
      BY <1>3, <2>1 DEF Polls
    <3>2. Together(w) => ~Has(w)'
      <4>1. SUFFICES ASSUME Together(w), NEW e \in R, e.value = w PROVE FALSE
        BY <1>5 DEF Has
      <4>2. Has(w)
        BY <1>2, <4>1 DEF Has
      <4>3. isPolled(w)
        BY <2>0, <4>1, <4>2 DEF Together, Polls, isPolled
      <4> QED BY <1>2, <2>1, <4>1, <4>3
    <3> QED BY <2>0, <3>1, <3>2 DEF Follows, Together
  <2>2. CASE NodeOf[w] # deleting
    <3>1. Polls(w)' = Polls(w)
      BY <1>3, <2>2 DEF Polls
    <3>2. Has(w)' = Has(w)
      BY <1>2, <1>5, <2>2 DEF Has
    <3> QED BY <2>0, <3>1, <3>2 DEF Follows, Together
  <2> QED BY <2>1, <2>2
<1> QED BY <1>6, <1>7

LEMMA ObjectsComeAndGo ==
  ASSUME Typed, PollInv, NEW v \in Value, Created(v) \/ Vanishes(v)
  PROVE  OnceInv' /\ \A w \in Value : Follows(w)
<1>1. UNCHANGED << list, pc, taken >>
  BY DEF Created, Vanishes, threadVars
<1>2. OnceInv /\ OnceInv' /\ \A w \in Value : Held(w)' = Held(w)
  BY <1>1, SameList DEF PollInv
<1>3. \A w \in Value : w # v => value'[w] = value[w]
  BY DEF Created, Vanishes, Typed, DataTyped
<1>4. CASE Created(v)
  <2>0. 0 \in 0 .. Byte - 1 /\ (CHOOSE x \in Reading : TRUE) \in Reading
    BY PollingAssumption
  <2>1. PICK r \in Reading, k \in 0 .. Byte - 1, b \in BOOLEAN :
          r = (CHOOSE x \in Reading : TRUE) /\ k = 0 /\ b = FALSE
    BY <2>0
  <2>2. PICK o \in Objects : o = Object(k, b, r) /\ o.intensity = k
    BY ObjectType
  <2>3. value[v] = None /\ value' = [value EXCEPT ![v] = o]
    BY <1>4, <2>1, <2>2 DEF Created
  <2>4. ~Polls(v) /\ ~Polls(v)'
    BY <2>1, <2>2, <2>3 DEF Polls, Typed, DataTyped
  <2> QED BY <1>2, <1>3, <2>4 DEF Follows, Together, Polls
<1>5. CASE Vanishes(v)
  <2>1. deleting = None /\ value'[v] = None
    BY <1>5 DEF Vanishes, Typed, DataTyped
  <2>2. Listed(v) <=> Held(v)
    BY <1>2, StepOf
  <2> QED BY <1>2, <1>3, <2>1, <2>2 DEF Follows, Together, Polls, Excused
<1> QED BY <1>4, <1>5

LEMMA NextStep ==
  ASSUME Typed, PollInv, [Next]_vars
  PROVE  OnceInv' /\ \A w \in Value : Follows(w)
<1>0. ASSUME UNCHANGED << value, list, pc, taken >> PROVE OnceInv' /\ \A w \in Value : Follows(w)
  BY <1>0, SameStep DEF PollInv
<1>1. CASE UNCHANGED vars \/ Send \/ Lost \/ \E c \in Call : Begin(c)
  BY <1>0, <1>1 DEF vars, Send, Lost, Begin, threadVars
<1>2. ASSUME NEW n \in Node, FallsAsleep(n) \/ WakesUp(n) \/ StartDelete(n)
      PROVE  OnceInv' /\ \A w \in Value : Follows(w)
  BY <1>0, <1>2 DEF FallsAsleep, WakesUp, StartDelete, threadVars
<1>3. ASSUME NEW v \in Value, Answer(v) \/ Change(v) \/ Misread(v)
      PROVE  OnceInv' /\ \A w \in Value : Follows(w)
  <2>1. /\ UNCHANGED << list, pc, taken >>
        /\ value' = value \/ \E r \in Reading \cup {Noise} : Refresh(v, r)
    BY <1>3 DEF Answer, Change, Misread, threadVars, Typed, DataTyped
  <2> QED BY <2>1, RefreshStep
<1>4. CASE Test \/ EndWait
  <2>1. OnceInv' /\ \A w \in Value : Held(w)' = Held(w)
    BY <1>4 DEF Test, EndWait, PollInv, OnceInv, Held, Has
  <2>2. value' = value
    BY <1>4 DEF Test, EndWait
  <2> QED BY <2>1, <2>2 DEF Follows, Together, Polls
<1>5. CASE Request
  <2>1. pc = "request" /\ pc' = "wait" /\ taken' = None /\ list' = list /\ value' = value
    BY <1>5 DEF Request
  <2>2. OnceInv' /\ \A w \in Value : Held(w)' = Held(w)
    BY <2>1, PollingAssumption DEF PollInv, OnceInv, Held, Has
  <2> QED BY <2>1, <2>2 DEF Follows, Together, Polls
<1> QED BY <1>1, <1>2, <1>3, <1>4, <1>5, ApplicationStep, PopStep, PushBackStep, EndDeleteStep,
           ObjectsComeAndGo, PollingAssumption
        DEF Next, PollThread

-----------------------------------------------------------------------------

(* The initial states. *)

LEMMA InitTyped == Init => Typed
<1> SUFFICES ASSUME Init PROVE Typed
  OBVIOUS
<1>1. PICK r \in Reading : r = CHOOSE x \in Reading : TRUE
  BY PollingAssumption
<1>2. actual = [v \in Value |-> r]
  BY <1>1 DEF Init
<1>3. 0 \in 0 .. Byte - 1 /\ 1 \in 0 .. Byte - 1
  BY PollingAssumption
<1>4. PICK i \in 0 .. Byte - 1 :
        value = [v \in Value |-> Object(IF v \in Start THEN 1 ELSE i, TRUE, actual[v])]
  <2>1. \A i \in Intensity \cup {0} : i \in 0 .. Byte - 1
    BY <1>3, PollingAssumption
  <2> QED BY <2>1 DEF Init
<1>5. DataTyped
  <2>1. ASSUME NEW v \in Value PROVE Object(IF v \in Start THEN 1 ELSE i, TRUE, actual[v]) \in Objects
    <3>1. PICK k \in 0 .. Byte - 1 : k = IF v \in Start THEN 1 ELSE i
      BY <1>3
    <3>2. actual[v] = r
      BY <1>2
    <3>3. Object(k, TRUE, r) \in Objects
      BY ObjectType
    <3> QED BY <3>1, <3>2, <3>3
  <2> QED BY <1>2, <1>4, <2>1 DEF DataTyped
<1>6. ListTyped
  <2>1. IsFiniteSet(Start) /\ Start \subseteq Value
    BY FS_Subset, PollingAssumption
  <2>2. PICK s \in Seq(Start) : s = SetToSeq(Start) /\ Len(s) = Cardinality(Start)
    BY <2>1, SetToSeqList
  <2>3. Len(s) \in Nat
    OBVIOUS
  <2>4. list = [j \in 1 .. Len(s) |-> Entry(s[j], 1)]
    BY <2>2 DEF Init
  <2>5. \A j \in 1 .. Len(s) : Entry(s[j], 1) \in EntryType
    <3>1. \A j \in 1 .. Len(s) : s[j] \in Value
      BY <2>1
    <3> QED BY <1>3, <3>1, EntryFields
  <2> QED BY <2>3, <2>4, <2>5 DEF ListTyped
<1>7. ThreadTyped
  BY PollingAssumption DEF Init, ThreadTyped
<1>8. MessageTyped
  <2>1. << >> \in Seq(Value)
    OBVIOUS
  <2> QED BY <2>1, PollingAssumption DEF Init, MessageTyped
<1>9. UsedTyped
  BY PollingAssumption DEF Init, UsedTyped
<1> QED BY <1>5, <1>6, <1>7, <1>8, <1>9 DEF Typed

LEMMA InitPoll == Init => PollInv
<1> SUFFICES ASSUME Init PROVE PollInv
  OBVIOUS
<1>1. IsFiniteSet(Start) /\ Start \subseteq Value
  BY FS_Subset, PollingAssumption
<1>2. PICK s \in Seq(Start) : s = SetToSeq(Start) /\ Len(s) = Cardinality(Start) /\ IsInjective(s)
  BY <1>1, SetToSeqList
<1>3. Len(s) \in Nat /\ DOMAIN s = 1 .. Len(s)
  OBVIOUS
<1>4. list = [j \in 1 .. Len(s) |-> Entry(s[j], 1)]
  BY <1>2 DEF Init
<1>5. 1 \in 0 .. Byte - 1
  BY PollingAssumption
<1>6. \A j \in 1 .. Len(s) : s[j] \in Start /\ s[j] \in Value /\ list[j].value = s[j]
  <2>1. \A j \in 1 .. Len(s) : s[j] \in Start /\ s[j] \in Value
    BY <1>1
  <2> QED BY <1>4, <1>5, <2>1, EntryFields
<1>7. DOMAIN list = 1 .. Len(s)
  BY <1>4
<1>8. \A j, k \in DOMAIN list : list[j].value = list[k].value => j = k
  BY <1>2, <1>3, <1>6, <1>7 DEF IsInjective
<1>9. IsInjective(list) /\ \A d, e \in Range(list) : d.value = e.value => d = e
  BY <1>8 DEF IsInjective, Range
<1> QED BY <1>9, PollingAssumption DEF Init, PollInv, LockInv, OnceInv

LEMMA TypedInvariant == Spec => []Typed
<1>1. Typed /\ [Next]_vars => Typed'
  BY NextData, NextThread, NextList, NextMessages, NextUsed DEF Typed
<1> QED BY <1>1, InitTyped, PTL DEF Spec

\* EnablePoll, DisablePoll, SetPollIntensity and PollThreadProc never return with m_pollMutex
\* but when the value is gone, for any number of nodes, values and calls, whatever the
\* application names, whatever vanishes, and whatever the threads do between two locks.
THEOREM UnlockedUnlessGoneCorrect == Spec => UnlockedUnlessGone
<1>1. Typed /\ PollInv /\ [Next]_vars => PollInv'
  BY NextLock, NextStep DEF PollInv
<1>2. Typed /\ PollInv /\ [Next]_vars =>
        [~LeftLocked /\ LeftLocked' =>
           \/ call # None /\ call.op \in {"disable", "set"} /\ value[call.value] = None
           \/ taken # None /\ value[taken] = None]_vars
  BY NextLock
<1> QED BY <1>1, <1>2, InitPoll, TypedInvariant, PTL DEF Spec, UnlockedUnlessGone

\* The list and the intensities, by which ~Node decides what to take off the list, are parted
\* only by a call that sets them apart and by the removal of a polled value from a node that
\* stays, under the same conditions.
THEOREM StaysInStepCorrect == Spec => StaysInStep
<1>1. Typed /\ PollInv /\ [Next]_vars => PollInv'
  BY NextLock, NextStep DEF PollInv
<1>2. ASSUME Typed, PollInv, [Next]_vars, NEW v \in Value, InStep(v), ~InStep(v)'
      PROVE  Excused(v)
  <2>1. Follows(v) /\ OnceInv'
    BY <1>2, NextStep
  <2>2. Together(v)
    BY <1>2, StepOf DEF PollInv
  <2>3. ~Together(v)'
    BY <1>2, <2>1, StepOfNext
  <2> QED BY <2>1, <2>2, <2>3 DEF Follows
<1>3. Typed /\ PollInv /\ [Next]_vars =>
        [\A v \in Value : InStep(v) /\ ~InStep(v)' =>
           \/ /\ call # None /\ call.value = v
              /\ \/ call.op = "enable" /\ call.intensity = 0
                 \/ call.op = "set" /\ (call.intensity = 0 <=> Listed(v))
           \/ deleting = None /\ Listed(v) /\ value'[v] = None]_vars
  BY <1>2 DEF Excused
<1> QED BY <1>1, <1>3, InitPoll, TypedInvariant, PTL DEF Spec, StaysInStep

-----------------------------------------------------------------------------
(* Readings. *)

\* Before the first wrong reading none is kept to be compared with the next.
NoiseInv == used["noise"] = 0 => \A v \in Value : value[v] # None => value[v].check # Noise

\* What a reading r does to a value in the step Refresh(v, r).
LEMMA RefreshNoise ==
  ASSUME Typed, NEW v \in Value, NEW r \in Reading \cup {Noise}, Refresh(v, r), NEW w \in Value,
         value[w] # None
  PROVE  /\ value'[w].check \in {value[w].check, None, r}
         /\ value'[w].shown \in {value[w].shown, r}
         /\ w \in Verified /\ value[w].set /\ r # value[w].check => value'[w].shown = value[w].shown
<1>1. value'[w] = IF w = v /\ value[v] # None THEN Verify(value[v], v, r) ELSE value[w]
  BY RefreshType DEF Typed
<1>2. PICK o \in Objects : o = value[w]
  BY DEF Typed, DataTyped
<1>3. /\ Verify(o, w, r).check \in {None, r} /\ Verify(o, w, r).shown \in {o.shown, r}
      /\ w \in Verified /\ o.set /\ r # o.check => Verify(o, w, r).shown = o.shown
  BY VerifyType
<1> QED BY <1>1, <1>2, <1>3

\* The steps that are not a reading show nothing new and keep nothing to be compared.
LEMMA NoReading ==
  ASSUME Typed, [Next]_vars, NEW w \in Value, value'[w] # None
  PROVE  \/ value[w] # None /\ value'[w].check = value[w].check /\ value'[w].shown = value[w].shown
         \/ value[w] = None /\ value'[w].check = None
         \/ \E v \in Value, r \in Reading : Refresh(v, r)
         \/ \E v \in Value : Refresh(v, Noise) /\ Use("noise")
<1>0. ASSUME value' = value
      PROVE  value[w] # None /\ value'[w].check = value[w].check /\ value'[w].shown = value[w].shown
  BY <1>0
<1>1. CASE UNCHANGED vars \/ (\E c \in Call : Begin(c)) \/ Send \/ Lost
  BY <1>0, <1>1 DEF vars, Begin, Send, Lost
<1>2. CASE PollThread
  BY <1>0, <1>2 DEF PollThread, Test, Pop, PushBack, Request, EndWait
<1>3. CASE Application
  <2>1. PICK v \in Value : v = call.value
    BY <1>3, CallValue, CallFields DEF Typed
  <2>2. value' = value \/ \E i \in 0 .. Byte - 1 :
           value' = IF value[v] = None THEN value ELSE [value EXCEPT ![v].intensity = i]
    BY <1>3, <2>1, CallValue DEF Typed
  <2>3. ASSUME NEW i \in 0 .. Byte - 1,
               value' = IF value[v] = None THEN value ELSE [value EXCEPT ![v].intensity = i]
        PROVE  value[w] # None /\ value'[w].check = value[w].check /\ value'[w].shown = value[w].shown
    BY <2>3, IntensityType DEF Typed
  <2> QED BY <1>0, <2>2, <2>3
<1>4. ASSUME NEW v \in Value, Answer(v) \/ Change(v)
      PROVE  value' = value \/ \E r \in Reading : Refresh(v, r)
  BY <1>4 DEF Answer, Change, Typed, DataTyped
<1>5. ASSUME NEW v \in Value, Misread(v) PROVE Refresh(v, Noise) /\ Use("noise")
  BY <1>5 DEF Misread
<1>6. ASSUME NEW v \in Value, Vanishes(v)
      PROVE  value[w] # None /\ value'[w] = value[w]
  BY <1>6 DEF Vanishes, Typed, DataTyped
<1>7. ASSUME NEW v \in Value, Created(v)
      PROVE  \/ value[w] # None /\ value'[w] = value[w]
             \/ value[w] = None /\ value'[w].check = None
  <2>1. PICK r \in Reading : r = CHOOSE x \in Reading : TRUE
    BY PollingAssumption
  <2>2. 0 \in 0 .. Byte - 1
    BY PollingAssumption
  <2>3. PICK o \in Objects : o = Object(0, FALSE, r) /\ o.check = None
    <3>1. PICK k \in 0 .. Byte - 1, b \in BOOLEAN : k = 0 /\ b = FALSE
      BY <2>2
    <3>2. Object(k, b, r) \in Objects /\ Object(k, b, r).check = None
      BY ObjectType
    <3> QED BY <3>1, <3>2
  <2>4. value[v] = None /\ value' = [value EXCEPT ![v] = o]
    BY <1>7, <2>1, <2>3 DEF Created
  <2> QED BY <2>3, <2>4 DEF Typed, DataTyped
<1>8. ASSUME NEW n \in Node, FallsAsleep(n) \/ WakesUp(n) \/ StartDelete(n) PROVE value' = value
  BY <1>8 DEF FallsAsleep, WakesUp, StartDelete
<1>9. CASE EndDelete
  BY <1>9 DEF EndDelete, Typed, DataTyped
<1> QED BY <1>0, <1>1, <1>2, <1>3, <1>4, <1>5, <1>6, <1>7, <1>8, <1>9, PollingAssumption DEF Next

LEMMA NextNoise == ASSUME Typed, NoiseInv, [Next]_vars PROVE NoiseInv'
<1> SUFFICES ASSUME used'["noise"] = 0, NEW w \in Value, value'[w] # None PROVE value'[w].check # Noise
  BY DEF NoiseInv
<1>1. used["noise"] = 0 /\ ~Use("noise")
  <2>1. "noise" \in Bounded /\ used["noise"] \in Nat
    BY DEF Bounded, Typed, UsedTyped
  <2>2. ~Use("noise")
    BY <2>1 DEF Use, Typed, UsedTyped
  <2>3. used["noise"] = 0 \/ used["noise"] > 0
    BY <2>1
  <2>4. used' = used \/ \E b \in Bounded : Use(b)
    BY UsedOnce
  <2>5. used'["noise"] >= used["noise"]
    BY <2>1, <2>4 DEF Use, Typed, UsedTyped
  <2> QED BY <2>1, <2>2, <2>5
<1>2. CASE value[w] # None /\ value'[w].check = value[w].check
  BY <1>1, <1>2 DEF NoiseInv
<1>3. CASE value'[w].check = None
  BY <1>3, PollingAssumption
<1>4. ASSUME NEW v \in Value, NEW r \in Reading, Refresh(v, r) PROVE value'[w].check # Noise
  <2>1. value[w] # None
    BY <1>4 DEF Refresh, Typed, DataTyped
  <2>2. value'[w].check \in {value[w].check, None, r}
    BY <1>4, <2>1, RefreshNoise
  <2> QED BY <1>1, <2>1, <2>2, PollingAssumption DEF NoiseInv
<1> QED BY <1>1, <1>2, <1>3, <1>4, NoReading

\* One wrong reading of a value that is verified is never shown (VerifyRefreshedValue): it would
\* take a second one, and no call, sleep or removal in between brings it forth.
THEOREM NoiseNotShownCorrect ==
  ASSUME Bound["noise"] <= 1
  PROVE  Spec => NoiseNotShown
<1>1. Init => NoiseInv
  <2> SUFFICES ASSUME Init, NEW v \in Value PROVE value[v].check # Noise
    BY DEF NoiseInv
  <2>1. value[v].check = None
    BY DEF Init, Object
  <2> QED BY <2>1, PollingAssumption
<1>2. Typed /\ NoiseInv /\ [Next]_vars => NoiseInv'
  BY NextNoise
<1>3. ASSUME Typed, NoiseInv, [Next]_vars, NEW v \in Verified,
             value[v] # None, value'[v] # None, value[v].set, value'[v].shown = Noise
      PROVE  value[v].shown = Noise
  <2>1. v \in Value
    BY PollingAssumption
  <2>2. ASSUME NEW w \in Value, NEW r \in Reading, Refresh(w, r) PROVE value[v].shown = Noise
    <3>1. value'[v].shown \in {value[v].shown, r}
      BY <1>3, <2>1, <2>2, RefreshNoise
    <3> QED BY <1>3, <3>1, PollingAssumption
  <2>3. ASSUME NEW w \in Value, Refresh(w, Noise), Use("noise") PROVE value[v].shown = Noise
    <3>1. used["noise"] = 0
      <4>1. "noise" \in Bounded /\ used["noise"] \in Nat /\ Bound["noise"] \in Nat
        BY <1>3, PollingAssumption DEF Typed, UsedTyped, Bounded
      <4>2. used["noise"] < Bound["noise"]
        BY <2>3 DEF Use
      <4> QED BY <4>1, <4>2
    <3>2. value[v].check # Noise
      BY <1>3, <2>1, <3>1 DEF NoiseInv
    <3> QED BY <1>3, <2>1, <2>3, <3>2, RefreshNoise
  <2> QED BY <1>3, <2>1, <2>2, <2>3, NoReading
<1>4. Typed /\ NoiseInv /\ [Next]_vars =>
        [\A v \in Verified :
           value[v] # None /\ value'[v] # None /\ value[v].set /\ value'[v].shown = Noise
             => value[v].shown = Noise]_vars
  BY <1>3
<1> QED BY <1>1, <1>2, <1>4, TypedInvariant, PTL DEF Spec, NoiseNotShown
=============================================================================
