------------------------------ MODULE Polling ------------------------------
(***************************************************************************)
(* Polling: the list of polled values, the calls that change it, the       *)
(* thread that works it off, and what a report does to a value whose       *)
(* changes are verified.                                                   *)
(*                                                                         *)
(* m_pollMutex belongs to a thread over several steps; m_nodeMutex does so *)
(* only while the driver thread deletes a node.  Time is left out, and so  *)
(* are the retries of a message (Driver.tla) and the stages of a node      *)
(* (NodeQueries.tla): all of them are taken to be over.                    *)
(***************************************************************************)
EXTENDS Integers, FiniteSets, SequencesExt, SendQueue

CONSTANTS
  Value, Node, NodeOf,  \* the values and their nodes
  Listening,      \* the nodes that are always awake
  Verified,       \* the values whose changes are verified
  Reading, Noise, \* what a device reports, and a reading that is wrong
  Intensity,      \* the intensities the application asks for
  Byte,           \* a poll counter is below this: 256 in the code
  Start,          \* the values that are polled from the start
  Bound,          \* bound: how often each of Bounded happens
  Allowed,        \* which of Hazards happen
  None

\* restored: the values come from the configuration file of an earlier session.
\* missing: the application names a value that does not exist.
\* vanish: a value is removed, as Basic.cpp:333 does, while it is polled or a call names it.
\* overlap: other threads go on while one is between two of its locks.
Hazards == {"restored", "missing", "vanish", "overlap"}
Bounded == {"call", "change", "noise", "removal", "loss"}

Call == [op : {"enable", "disable", "set"}, value : Value, intensity : Intensity]

\* The Value objects; check is m_valueCheck while m_checkChange is set, and None when not.
Objects == [intensity : 0 .. Byte - 1, set : BOOLEAN, shown : Reading \cup {Noise},
            check : Reading \cup {Noise, None}]

ASSUME PollingAssumption ==
  /\ NodeOf \in [Value -> Node] /\ Listening \subseteq Node /\ Verified \subseteq Value
  /\ IsFiniteSet(Value) /\ Start \subseteq Value
  /\ Byte \in Nat \ {0, 1} /\ Intensity \subseteq 0 .. Byte - 1
  /\ Bound \in [Bounded -> Nat] /\ Allowed \subseteq Hazards
  /\ Reading # {} /\ Noise \notin Reading
  /\ None \notin Value \cup Node \cup Reading \cup {Noise} /\ None \notin Call /\ None \notin Objects

VARIABLES
  value,      \* the value stores of the nodes, None for a value that is not there
  list,       \* m_pollList
  pollLock,   \* the thread that has m_pollMutex
  leaked,     \* whether one returned without unlocking it
  pc,         \* where the polling thread is
  taken,      \* the value it polls
  call,       \* the call the application makes
  deleting,   \* the node the driver thread deletes, which has m_nodeMutex then
  requests,   \* the queues of the driver, requests for the state of values
  current,    \* m_currentMsg
  awake,      \* m_awake of the nodes
  parked,     \* the wake-up queues of the nodes
  pollRequired, \* m_pollRequired of the nodes
  actual,     \* the state of the devices
  used        \* how often each of Bounded has happened

lockVars == << pollLock, leaked >>
threadVars == << pc, taken >>
messageVars == << requests, current >>
nodeVars == << awake, parked, pollRequired >>
vars == << value, list, lockVars, threadVars, call, deleting, messageVars, nodeVars, actual, used >>

Queue == << "WakeUp", "Send", "Query", "Poll" >>
TypeOK ==
  /\ value \in [Value -> Objects \cup {None}]
  /\ list \in Seq([value : Value, counter : 0 .. Byte - 1])
  /\ pollLock \in {"free", "poll", "application"} /\ leaked \in BOOLEAN
  /\ pc \in {"test", "lock", "popped", "request", "wait", "undefined"}
  /\ taken \in Value \cup {None} /\ (taken # None <=> pc \in {"popped", "request"})
  /\ call \in Call \cup {None} /\ deleting \in Node \cup {None}
  /\ requests \in [Range(Queue) -> Seq(Value)] /\ current \in Value \cup {None}
  /\ awake \in [Node -> BOOLEAN] /\ \A n \in Listening : awake[n]
  /\ parked \in [Node -> SUBSET Value] /\ pollRequired \in [Node -> BOOLEAN]
  /\ actual \in [Value -> Reading]
  /\ \A b \in Bounded : used[b] \in 0 .. Bound[b]
-----------------------------------------------------------------------------
ValuesOf(n) == { v \in Value : NodeOf[v] = n }

Use(b) == used[b] < Bound[b] /\ used' = [used EXCEPT ![b] = @ + 1]

\* A Value object whose last reading needs no check.
Object(intensity, set, shown) ==
  [intensity |-> intensity, set |-> set, shown |-> shown, check |-> None]

Entry(v, counter) == [value |-> v, counter |-> counter]

\* All nodes have been queried, and the application polls the values of Start.
Init ==
  /\ actual = [v \in Value |-> CHOOSE r \in Reading : TRUE]
  /\ \E restored \in IF "restored" \in Allowed THEN Intensity \cup {0} ELSE {0} :
       value = [v \in Value |-> Object(IF v \in Start THEN 1 ELSE restored, TRUE, actual[v])]
  /\ list = [i \in 1 .. Cardinality(Start) |-> Entry(SetToSeq(Start)[i], 1)]
  /\ pollLock = "free" /\ leaked = FALSE
  /\ pc = "test" /\ taken = None
  /\ call = None /\ deleting = None
  /\ requests = [q \in Range(Queue) |-> << >>] /\ current = None
  /\ awake = [n \in Node |-> TRUE] /\ parked = [n \in Node |-> {}]
  /\ pollRequired = [n \in Node |-> FALSE]
  /\ used = [b \in Bounded |-> 0]

\* SendMsg: in the queue q, or in the wake-up queue of a node that is asleep.
Requested(v, q) ==
  IF awake[NodeOf[v]]
  THEN requests' = [requests EXCEPT ![q] = Append(@, v)] /\ UNCHANGED parked
  ELSE parked' = [parked EXCEPT ![NodeOf[v]] = @ \cup {v}] /\ UNCHANGED requests
-----------------------------------------------------------------------------
(* The locks.  They are recursive: a thread that kept one gets it again. *)

\* Without overlap a thread that needs both locks has them to itself.
Alone(t) ==
  "overlap" \notin Allowed =>
    /\ pc # "lock" \/ t = "poll"
    /\ deleting = None \/ t = "driver"

CanLock(t) == pollLock \in {"free", t} /\ Alone(t)

Unlock == pollLock' = (IF leaked THEN pollLock ELSE "free") /\ UNCHANGED leaked
Leak == leaked' = TRUE /\ UNCHANGED pollLock

Entries(v) == { i \in DOMAIN list : list[i].value = v }
Listed(v) == taken = v \/ Entries(v) # {}
-----------------------------------------------------------------------------
(* The calls of the application. *)

\* The intensity of a call that has none is the least.
Begin(c) ==
  /\ call = None /\ Use("call")
  /\ c.op = "set" => value[c.value] # None \/ "missing" \in Allowed
  /\ c.op = "disable" => \A i \in Intensity : c.intensity <= i
  /\ CanLock("application")
  /\ pollLock' = "application"
  /\ call' = c
  /\ UNCHANGED << value, list, leaked, threadVars, deleting, messageVars, nodeVars, actual >>

Return == call' = None

\* Mutant: a value that is on the list is added again.
EnableAgain(v, i) ==
  list' = IF value[v] = None THEN list ELSE Append(list, Entry(v, i))

\* The list after EnablePoll; a value that is on it keeps its counter.
Enlist(v, i) ==
  list' = IF value[v] = None \/ Entries(v) # {} THEN list ELSE Append(list, Entry(v, i))

EnablePoll ==
  LET v == call.value
  IN  /\ call # None /\ call.op = "enable"
      /\ deleting = None
      /\ value' = IF value[v] = None THEN value ELSE [value EXCEPT ![v].intensity = call.intensity]
      /\ Enlist(v, call.intensity)
      /\ Unlock /\ Return
      /\ UNCHANGED << threadVars, deleting, messageVars, nodeVars, actual, used >>

\* Mutant: the return for a value that is not on the list forgets m_pollMutex.
DisablePollOnlyListed ==
  /\ call # None /\ call.op = "disable"
  /\ deleting = None
  /\ IF Entries(call.value) = {} THEN UNCHANGED << value, list >> /\ Leak
     ELSE /\ list' = Keep(list, { e \in Range(list) : e.value # call.value })
          /\ value' = [value EXCEPT ![call.value].intensity = 0]
          /\ Unlock
  /\ Return
  /\ UNCHANGED << threadVars, deleting, messageVars, nodeVars, actual, used >>

Erase(v) == list' = Keep(list, { e \in Range(list) : e.value # v })

\* What DisablePoll does to a value on the list.  Without the value, the loop goes on at
\* the entry just erased, with m_pollMutex locked: whether it comes to the Unlock behind
\* it is undefined.  When the node is gone as well the list is not looked at.
Disable(v) ==
  IF value[v] # None
  THEN Erase(v) /\ value' = [value EXCEPT ![v].intensity = 0] /\ Unlock
  ELSE /\ UNCHANGED value
       /\ \/ Erase(v) /\ (Leak \/ Unlock)
          \/ UNCHANGED list /\ Unlock

DisablePoll ==
  /\ call # None /\ call.op = "disable"
  /\ deleting = None
  /\ IF Entries(call.value) = {} THEN UNCHANGED << value, list >> /\ Unlock
     ELSE Disable(call.value)
  /\ Return
  /\ UNCHANGED << threadVars, deleting, messageVars, nodeVars, actual, used >>

\* The list is left alone; without the value m_pollMutex stays locked.
SetPollIntensity ==
  LET v == call.value
  IN  /\ call # None /\ call.op = "set"
      /\ IF value[v] = None THEN UNCHANGED value /\ Leak
         ELSE value' = [value EXCEPT ![v].intensity = call.intensity] /\ Unlock
      /\ Return
      /\ UNCHANGED << list, threadVars, deleting, messageVars, nodeVars, actual, used >>
-----------------------------------------------------------------------------
(* The polling thread, PollThreadProc. *)

\* The test for an empty list, made without the lock.
Test ==
  /\ pc = "test" /\ list # << >>
  /\ "overlap" \notin Allowed => CanLock("poll")
  /\ pc' = "lock"
  /\ UNCHANGED << value, list, lockVars, taken, call, deleting, messageVars, nodeVars, actual, used >>

\* A value that is not due: its counter is a uint8.
Skip(e) == list' = Append(Tail(list), [e EXCEPT !.counter = (@ - 1) % Byte])

\* The front of an empty list is undefined.
Pop ==
  /\ pc = "lock" /\ CanLock("poll")
  /\ IF list = << >>
     THEN /\ pc' = "undefined" /\ pollLock' = "poll"
          /\ UNCHANGED << list, leaked, taken >>
     ELSE IF Head(list).counter # 1
     THEN /\ Skip(Head(list))
          /\ pc' = "test"
          /\ UNCHANGED << lockVars, taken >>
     ELSE /\ list' = Tail(list) /\ taken' = Head(list).value
          /\ pc' = "popped" /\ pollLock' = "poll"
          /\ UNCHANGED leaked
  /\ UNCHANGED << value, call, deleting, messageVars, nodeVars, actual, used >>

\* Mutant: the value goes to the front of the list again.
PushFront ==
  /\ pc = "popped" /\ deleting = None
  /\ value[taken] # None
  /\ list' = << Entry(taken, value[taken].intensity) >> \o list
  /\ pc' = "request"
  /\ UNCHANGED << value, taken, lockVars, call, deleting, messageVars, nodeVars, actual, used >>

\* The value goes to the end of the list; without the value m_pollMutex stays locked.
PushBack ==
  /\ pc = "popped" /\ deleting = None
  /\ IF value[taken] = None
     THEN /\ pc' = "test" /\ taken' = None
          /\ Leak
          /\ UNCHANGED list
     ELSE /\ list' = Append(list, Entry(taken, value[taken].intensity))
          /\ pc' = "request"
          /\ UNCHANGED << taken, lockVars >>
  /\ UNCHANGED << value, call, deleting, messageVars, nodeVars, actual, used >>

\* Mutant: a node that is asleep is just passed over.
AskAwakeOnly(v) ==
  /\ IF awake[NodeOf[v]] THEN Requested(v, "Poll") ELSE UNCHANGED << requests, parked >>
  /\ UNCHANGED pollRequired

\* A node that is asleep is polled when it wakes up.
Ask(v) ==
  IF awake[NodeOf[v]] THEN Requested(v, "Poll") /\ UNCHANGED pollRequired
  ELSE /\ pollRequired' = [pollRequired EXCEPT ![NodeOf[v]] = TRUE]
       /\ UNCHANGED << requests, parked >>

Request ==
  /\ pc = "request" /\ deleting = None
  /\ Ask(taken)
  /\ pc' = "wait" /\ taken' = None
  /\ Unlock
  /\ UNCHANGED << value, list, call, deleting, current, awake, actual, used >>

\* The WakeUp queue is not among those that have to be empty.
EndWait ==
  /\ pc = "wait"
  /\ \A q \in {"Poll", "Send", "Query"} : requests[q] = << >>
  /\ current = None
  /\ pc' = "test"
  /\ UNCHANGED << value, list, lockVars, taken, call, deleting, messageVars, nodeVars, actual, used >>
-----------------------------------------------------------------------------
(* The driver thread: messages, reports and nodes that come and go. *)

NonEmpty == { i \in DOMAIN Queue : requests[Queue[i]] # << >> }

Send ==
  /\ deleting = None /\ current = None
  /\ \E i \in NonEmpty :
       /\ \A j \in NonEmpty : i <= j
       /\ current' = Head(requests[Queue[i]])
       /\ requests' = [requests EXCEPT ![Queue[i]] = Tail(@)]
  /\ UNCHANGED << value, list, lockVars, threadVars, call, deleting, nodeVars, actual, used >>

\* Mutant: any second reading that differs from the one shown is a change.
VerifyTwice(o, v, r) ==
  IF ~o.set \/ v \notin Verified \/ (o.check # None /\ r # o.shown)
  THEN [o EXCEPT !.set = TRUE, !.shown = r, !.check = None]
  ELSE [o EXCEPT !.check = IF r = o.shown THEN None ELSE r]

\* VerifyRefreshedValue and OnValueRefreshed: the value after the reading r.
Verify(o, v, r) ==
  IF ~o.set \/ v \notin Verified \/ r = o.check
  THEN [o EXCEPT !.set = TRUE, !.shown = r, !.check = None]
  ELSE [o EXCEPT !.check = IF r = o.shown THEN None ELSE r]

\* Whether the reading is to be checked: then RefreshValue asks again.
Doubted(o, v, r) == Verify(o, v, r).check # None

Refresh(v, r) ==
  IF value[v] # None
  THEN /\ value' = [value EXCEPT ![v] = Verify(@, v, r)]
       /\ IF Doubted(value[v], v, r) THEN Requested(v, "Send") ELSE UNCHANGED << requests, parked >>
  ELSE UNCHANGED << value, requests, parked >>

\* The device answers, or the application hears of a change of its own.
Answer(v) ==
  /\ deleting = None /\ current = v /\ awake[NodeOf[v]]
  /\ Refresh(v, actual[v])
  /\ current' = None
  /\ UNCHANGED << list, lockVars, threadVars, call, deleting, awake, pollRequired, actual, used >>

\* Mutant: the node is not asked whether it can sleep.
LostAsleep ==
  /\ deleting = None /\ current # None
  /\ parked' = [parked EXCEPT ![NodeOf[current]] = @ \cup {current}]
  /\ awake' = [awake EXCEPT ![NodeOf[current]] = FALSE]
  /\ current' = None
  /\ UNCHANGED << value, list, lockVars, threadVars, call, deleting, requests, pollRequired, actual, used >>

\* The answer is lost: to a node that can sleep everything for it is parked.
Lost ==
  /\ deleting = None /\ current # None
  /\ ~awake[NodeOf[current]] => UNCHANGED used
  /\ awake[NodeOf[current]] => Use("loss")
  /\ LET n == NodeOf[current]
     IN  IF n \in Listening THEN UNCHANGED << requests, nodeVars >>
         ELSE /\ requests' = [q \in Range(Queue) |-> Keep(requests[q], { v \in Value : NodeOf[v] # n })]
              /\ parked' = [parked EXCEPT ![n] = @ \cup {current} \cup
                              { v \in ValuesOf(n) : \E q \in Range(Queue) : v \in Range(requests[q]) }]
              /\ awake' = [awake EXCEPT ![n] = FALSE]
              /\ UNCHANGED pollRequired
  /\ current' = None
  /\ UNCHANGED << value, list, lockVars, threadVars, call, deleting, actual >>

\* A device changes; it may tell of it.
Change(v) ==
  /\ deleting = None
  /\ Use("change")
  /\ \E r \in Reading \ {actual[v]} :
       /\ actual' = [actual EXCEPT ![v] = r]
       /\ Refresh(v, r) \/ UNCHANGED << value, requests, parked >>
  /\ UNCHANGED << list, lockVars, threadVars, call, deleting, current, awake, pollRequired >>

\* A report with a wrong reading, asked for or not.
Misread(v) ==
  /\ deleting = None
  /\ Use("noise")
  /\ Refresh(v, Noise)
  /\ current' \in {current} \cup (IF current = v THEN {None} ELSE {})
  /\ UNCHANGED << list, lockVars, threadVars, call, deleting, awake, pollRequired, actual >>

\* The message that sends the node to sleep follows what was parked.
FallsAsleep(n) ==
  /\ deleting = None /\ current = None
  /\ n \notin Listening /\ awake[n]
  /\ \A v \in ValuesOf(n) : v \notin Range(requests["WakeUp"])
  /\ awake' = [awake EXCEPT ![n] = FALSE]
  /\ UNCHANGED << value, list, lockVars, threadVars, call, deleting, messageVars, parked, pollRequired, actual, used >>

\* SetAwake: a node to be polled goes back to the stage in which it is asked for its
\* dynamic values; what was parked is sent.
WakesUp(n) ==
  LET there == { v \in ValuesOf(n) : value[v] # None }
      dynamic == IF pollRequired[n] THEN SetToSeq(there) ELSE << >>
  IN  /\ deleting = None /\ ~awake[n]
      /\ awake' = [awake EXCEPT ![n] = TRUE]
      /\ pollRequired' = [pollRequired EXCEPT ![n] = FALSE]
      /\ requests' = [requests EXCEPT !["Query"] = @ \o dynamic,
                                      !["WakeUp"] = @ \o SetToSeq(parked[n])]
      /\ parked' = [parked EXCEPT ![n] = {}]
      /\ UNCHANGED << value, list, lockVars, threadVars, call, deleting, current, actual, used >>

\* A node is deleted under m_nodeMutex; its messages go first.
StartDelete(n) ==
  /\ deleting = None
  /\ \E v \in ValuesOf(n) : value[v] # None
  /\ Use("removal")
  /\ "overlap" \notin Allowed => pollLock = "free" /\ pc # "lock"
  /\ deleting' = n
  /\ requests' = [q \in Range(Queue) |-> Keep(requests[q], { v \in Value : NodeOf[v] # n })]
  /\ current' = IF current # None /\ NodeOf[current] = n THEN None ELSE current
  /\ UNCHANGED << value, list, lockVars, threadVars, call, nodeVars, actual >>

\* Mutant: the values stay on the list.
PolledNever(v) == FALSE

\* ~Node asks isPolled.
isPolled(v) == value[v] # None /\ value[v].intensity # 0 /\ Entries(v) # {}

\* ~Node: the values that are polled are taken off the list, the others are taken to
\* be off it already.
EndDelete ==
  /\ deleting # None /\ CanLock("driver")
  /\ list' = Keep(list, { e \in Range(list) : ~(NodeOf[e.value] = deleting /\ isPolled(e.value)) })
  /\ value' = [v \in Value |-> IF NodeOf[v] = deleting THEN None ELSE value[v]]
  /\ awake' = [awake EXCEPT ![deleting] = TRUE]
  /\ parked' = [parked EXCEPT ![deleting] = {}]
  /\ pollRequired' = [pollRequired EXCEPT ![deleting] = FALSE]
  /\ deleting' = None
  /\ UNCHANGED << lockVars, threadVars, call, messageVars, actual, used >>

\* The values are created, and asked for, when the node is added or its class asked.
Created(v) ==
  /\ deleting = None /\ value[v] = None
  /\ value' = [value EXCEPT ![v] = Object(0, FALSE, CHOOSE r \in Reading : TRUE)]
  /\ Requested(v, "Query")
  /\ UNCHANGED << list, lockVars, threadVars, call, deleting, current, awake, pollRequired, actual, used >>

\* A value is removed, its node stays, and so does its entry if it has one.
Vanishes(v) ==
  /\ "vanish" \notin Allowed => ~Listed(v) /\ (call # None => call.value # v)
  /\ deleting = None /\ value[v] # None
  /\ Use("removal")
  /\ value' = [value EXCEPT ![v] = None]
  /\ UNCHANGED << list, lockVars, threadVars, call, deleting, messageVars, nodeVars, actual >>
-----------------------------------------------------------------------------
Application == EnablePoll \/ DisablePoll \/ SetPollIntensity
PollThread == Test \/ Pop \/ PushBack \/ Request \/ EndWait

Next ==
  \/ \E c \in Call : Begin(c)
  \/ Application
  \/ PollThread
  \/ Send \/ Lost \/ EndDelete
  \/ \E v \in Value : Answer(v) \/ Change(v) \/ Created(v) \/ Vanishes(v)
  \/ \E v \in Verified : Misread(v)
  \/ \E n \in Node : FallsAsleep(n) \/ WakesUp(n) \/ StartDelete(n)

Spec == Init /\ [][Next]_vars

\* The threads run; an awake device answers unless the message is lost, and a node
\* that sleeps wakes up.
Fairness ==
  /\ WF_vars(Application) /\ WF_vars(PollThread)
  /\ WF_vars(Send) /\ WF_vars(Lost) /\ WF_vars(EndDelete)
  /\ \A v \in Value : WF_vars(Answer(v))
  /\ \A n \in Node : WF_vars(WakesUp(n))

FairSpec == Spec /\ Fairness
-----------------------------------------------------------------------------
\* m_pollMutex belongs to a thread that has returned to its caller or starts over.
LeftLocked ==
  \/ leaked
  \/ pollLock = "application" /\ call = None
  \/ pollLock = "poll" /\ pc \notin {"popped", "request", "undefined"}

\* A thread leaves its work on the list with m_pollMutex locked only when the value is
\* gone that SetPollIntensity or DisablePoll is called for, or that is to be polled.
UnlockedUnlessGone ==
  [][~LeftLocked /\ LeftLocked' =>
       \/ call # None /\ call.op \in {"disable", "set"} /\ value[call.value] = None
       \/ taken # None /\ value[taken] = None]_vars

\* The list and the intensity of a value agree: it is on the list, once, exactly when it
\* is there and its intensity is not 0.
InStep(v) ==
  /\ Listed(v) <=> value[v] # None /\ value[v].intensity # 0
  /\ \A i, j \in Entries(v) : i = j
  /\ taken = v /\ pc = "popped" => Entries(v) = {}

\* Nothing parts the list from the intensity but an intensity of 0 for a value to be
\* polled, SetPollIntensity, which leaves the list alone, and the removal of a polled value
\* from a node that stays; the deletion of the node does not.
StaysInStep ==
  [][\A v \in Value : InStep(v) /\ ~InStep(v)' =>
       \/ /\ call # None /\ call.value = v
          /\ \/ call.op = "enable" /\ call.intensity = 0
             \/ call.op = "set" /\ (call.intensity = 0 <=> Listed(v))
       \/ deleting = None /\ Listed(v) /\ value'[v] = None]_vars

\* The front is not taken from an empty list: the lock is only taken when it is not
\* empty.  False with overlap.
FrontExists == pc # "undefined"

\* No thread that has m_pollMutex waits for m_nodeMutex while ~Node, which has it,
\* waits for m_pollMutex.  False with overlap.
NoDeadlock == ~(deleting # None /\ pollLock # "free")

\* A single wrong reading of a value that is verified is never shown as a change.
NoiseNotShown ==
  [][\A v \in Verified :
       value[v] # None /\ value'[v] # None /\ value[v].set /\ value'[v].shown = Noise
         => value[v].shown = Noise]_vars

\* Every value on the list is polled again and again, whatever its intensity and
\* whatever other values do, unless a thread has left m_pollMutex locked.
PolledInTurn ==
  \A v \in Value : []<>(~Listed(v) \/ (pc = "request" /\ taken = v) \/ LeftLocked)

\* A value that stays on the list shows what its device reads, once the device stops
\* changing, unless a thread has left m_pollMutex locked.
Converges ==
  \A v \in Value :
    <>[]Listed(v) =>
      <>[](LeftLocked \/ (value[v] # None /\ value[v].shown = actual[v]))
=============================================================================
