------------------------ MODULE ControllerCommands ------------------------
(***************************************************************************)
(* The multi-step commands of the controller: adding a device, assigning a *)
(* return route, and so on.  A command is an item of the Controller queue. *)
(* It stays at the front while it is under way, the driver thread looks at *)
(* it whenever the event of the queue is set, and takes it out when it is  *)
(* done.  The reports of the controller change its state; the application  *)
(* cancels it; when it is for a node that sleeps it is parked there.       *)
(*                                                                         *)
(* There is one node that sleeps.  The Command and NoOp queues are one     *)
(* list; retransmission is in Driver.tla: here a message just ends.        *)
(***************************************************************************)
EXTENDS Integers, FiniteSets, SequencesExt, SendQueue

CONSTANTS
  Call,           \* the calls of BeginControllerCommand
  Kinds,          \* the commands each call may begin
  WithCallback,   \* the calls that give a callback function
  Items,          \* bound: the ControllerCommandItems that exist at once are 1 .. Items
  Extras,         \* bound: tests of the node, cancels, nodes added or failed to be added
  NoItem, NoMessage

AddDevice == "AddDevice"
AssignReturnRoute == "AssignReturnRoute"
RequestNodeNeighborUpdate == "RequestNodeNeighborUpdate"
Commands == {AddDevice, AssignReturnRoute, RequestNodeNeighborUpdate}

Final == {"Cancel", "Error", "Sleeping", "Completed", "Failed"}
ControllerState == {"Normal", "Starting", "Waiting", "InProgress"} \cup Final

\* node: whether m_controllerCommandNode is the node that sleeps.
Item == [call : Call, kind : Commands, node : BOOLEAN, state : ControllerState,
         changed : BOOLEAN, done : BOOLEAN]

\* A message of a command, or a test of the node; stop ends the mode of AddDevice.
Message == [of : Commands \cup {"test"}, stop : BOOLEAN, node : BOOLEAN]

ASSUME ControllerCommandsAssumption ==
  /\ IsFiniteSet(Call) /\ Kinds \in [Call -> SUBSET Commands] /\ WithCallback \subseteq Call
  /\ Items \in Nat /\ Extras \in Nat
  /\ NoItem \notin 1 .. Items /\ NoItem \notin Item /\ NoMessage \notin Message

VARIABLES
  item,       \* the ControllerCommandItems, NoItem where there is none
  queue,      \* the Controller queue
  event,      \* its event
  current,    \* m_currentControllerCommand
  commands,   \* the Command and NoOp queues
  message,    \* m_currentMsg
  sent,       \* the commands the controller has been told of
  awake,      \* m_awake of the node
  parked,     \* items in its wake-up queue
  pc,         \* where the driver thread is in WriteNextMsg
  begun,      \* calls made
  extras      \* how many of them there were

queueVars == << queue, event, current >>
messageVars == << commands, message, sent >>
nodeVars == << awake, parked >>
boundVars == << begun, extras >>
vars == << item, queueVars, messageVars, nodeVars, pc, boundVars >>

New(c, k, n) == [call |-> c, kind |-> k, node |-> n, state |-> "Normal",
                 changed |-> FALSE, done |-> FALSE]

TypeOK ==
  /\ item \in [1 .. Items -> Item \cup {NoItem}]
  /\ queue \in Seq(1 .. Items) /\ parked \in Seq(1 .. Items)
  /\ \A i \in Range(queue) \cup Range(parked) : item[i] # NoItem
  /\ event \in BOOLEAN /\ awake \in BOOLEAN
  /\ current \in 1 .. Items \cup {NoItem}
  /\ commands \in Seq(Message) /\ message \in Message \cup {NoMessage}
  /\ sent \subseteq Commands
  /\ pc \in {"idle", "callback", "nothing"}
  /\ begun \subseteq Call /\ extras \in 0 .. Extras
-----------------------------------------------------------------------------
(* UpdateControllerState, and what parks items. *)

Update(it, i, s) ==
  IF i = NoItem \/ it[i].state = s THEN it
  ELSE [it EXCEPT ![i].state = s, ![i].changed = TRUE, ![i].done = @ \/ s \in Final]

\* Mutant: nobody is told.
SetsNever(it, i, s) == FALSE

\* Whether it sets the event of the queue.
Sets(it, i, s) == i # NoItem /\ it[i].state # s /\ s \in Final

Unused == { i \in 1 .. Items : item[i] = NoItem }
Fresh == CHOOSE i \in Unused : TRUE

\* What MsgQueueItem::operator== compares, of items of the same kind.
Compared(it) ==
  [i \in 1 .. Items |-> IF it[i] = NoItem THEN << >>
                        ELSE << it[i].kind, it[i].call \in WithCallback >>]

\* WakeUp::QueueMsg for the items of s in turn; those that are replaced are deleted.
Park(it, s) == QueueAll(parked, s, Compared(it))

\* Mutant: a replaced item is not deleted.
DeleteNothing(it, D) == it

Delete(it, D) == [i \in 1 .. Items |-> IF i \in D THEN NoItem ELSE it[i]]

\* SendMsg for the node while it is asleep: the message is replaced by a copy of the
\* current command.
SendAsleep(it, i) ==
  LET copy == [it EXCEPT ![Fresh] = it[i]]
      p == Park(copy, << Fresh >>)
      kept == Delete(copy, Range(parked) \ Range(p))
  IN  /\ Unused # {}
      /\ item' = Update(kept, i, "Sleeping")
      /\ event' = (event \/ Sets(it, i, "Sleeping"))
      /\ parked' = p
-----------------------------------------------------------------------------
Init ==
  /\ item = [i \in 1 .. Items |-> NoItem]
  /\ queue = << >> /\ event = FALSE /\ current = NoItem
  /\ commands = << >> /\ message = NoMessage /\ sent = {}
  /\ awake \in BOOLEAN /\ parked = << >>
  /\ pc = "idle"
  /\ begun = {} /\ extras = 0

\* BeginControllerCommand; commands other than AddDevice are for the node.
Begin(c) ==
  /\ c \notin begun /\ Unused # {}
  /\ begun' = begun \cup {c}
  /\ \E k \in Kinds[c] : item' = [item EXCEPT ![Fresh] = New(c, k, k # AddDevice)]
  /\ queue' = Append(queue, Fresh)
  /\ event' = TRUE
  /\ UNCHANGED << current, messageVars, nodeVars, pc, extras >>

\* The driver thread has nothing more urgent than the Controller queue.  What it does when
\* that is empty (see SignalsRight) is undefined and not modelled.
Look == pc = "idle" /\ message = NoMessage /\ commands = << >> /\ event /\ queue # << >>

\* Mutant: a command is taken out only when its last change of state has been told.
RetireTold ==
  /\ Look
  /\ item[Head(queue)].done /\ ~item[Head(queue)].changed
  /\ current' = Head(queue)
  /\ queue' = Tail(queue)
  /\ event' = (Tail(queue) # << >>)
  /\ pc' = "callback"
  /\ UNCHANGED << item, messageVars, nodeVars, boundVars >>

\* WriteNextMsg for a command that is done, until its callback is called.
Retire ==
  /\ Look
  /\ item[Head(queue)].done
  /\ current' = Head(queue)
  /\ queue' = Tail(queue)
  /\ event' = (Tail(queue) # << >>)
  /\ pc' = "callback"
  /\ UNCHANGED << item, messageVars, nodeVars, boundVars >>

\* The callback returns and the item is deleted.
EndRetire ==
  /\ pc = "callback"
  /\ item' = Delete(item, {current})
  /\ current' = NoItem
  /\ pc' = "idle"
  /\ UNCHANGED << queue, event, messageVars, nodeVars, boundVars >>

\* Mutant: the command at the back of the queue is begun, whatever is at its front.
StartAny ==
  LET i == Last(queue)
  IN  /\ Look
      /\ item[i].state = "Normal"
      /\ current' = i
      /\ item' = Update(item, i, "Starting")
      /\ commands' = Append(commands, [of |-> item[i].kind, stop |-> FALSE, node |-> item[i].node])
      /\ UNCHANGED << queue, event, parked, message, sent, awake, pc, boundVars >>

\* DoControllerCommand; the controller may have to be a primary one.
Start ==
  LET i == Head(queue)
      k == item[i].kind
      starting == Update(item, i, "Starting")
  IN  /\ Look
      /\ ~item[i].done /\ item[i].state = "Normal"
      /\ current' = i
      /\ \/ /\ k # AssignReturnRoute
            /\ item' = Update(starting, i, "Error")
            /\ UNCHANGED << event, commands, parked >>
         \/ /\ k # AddDevice /\ ~awake
            /\ SendAsleep(starting, i)
            /\ UNCHANGED commands
         \/ /\ k = AddDevice \/ awake
            /\ item' = starting
            /\ commands' = Append(commands, [of |-> k, stop |-> FALSE, node |-> k # AddDevice])
            /\ UNCHANGED << event, parked >>
      /\ UNCHANGED << queue, message, sent, awake, pc, boundVars >>

Changed(i) == ~item[i].done /\ item[i].state # "Normal" /\ item[i].changed

\* The callback is told the new state.  Without one m_controllerStateChanged stays,
\* and the driver thread comes back here until the command is done.
Tell ==
  LET i == Head(queue)
  IN  /\ Look /\ Changed(i)
      /\ current' = i
      /\ item' = [item EXCEPT ![i].changed = item[i].call \notin WithCallback]
      /\ UNCHANGED << queue, event, messageVars, nodeVars, pc, boundVars >>

\* "nothing to do": decided without the lock, then the event is reset under it.
NothingToDo ==
  LET i == Head(queue)
  IN  /\ Look
      /\ ~item[i].done /\ item[i].state # "Normal" /\ ~item[i].changed
      /\ current' = i
      /\ pc' = "nothing"
      /\ UNCHANGED << item, queue, event, messageVars, nodeVars, boundVars >>

ResetEvent ==
  /\ pc = "nothing"
  /\ event' = FALSE
  /\ pc' = "idle"
  /\ UNCHANGED << item, queue, current, messageVars, nodeVars, boundVars >>

\* WriteNextMsg for a message.
SendMessage ==
  /\ pc = "idle" /\ message = NoMessage /\ commands # << >>
  /\ message' = Head(commands)
  /\ commands' = Tail(commands)
  /\ sent' = sent \cup ({Head(commands).of} \cap Commands)
  /\ UNCHANGED << item, queueVars, nodeVars, pc, boundVars >>

\* WriteMsg after the last attempt: whatever message it was, the command has failed.
Dropped ==
  /\ pc = "idle" /\ message # NoMessage
  /\ message' = NoMessage
  /\ item' = Update(item, current, "Error")
  /\ event' = (event \/ Sets(item, current, "Error"))
  /\ UNCHANGED << queue, current, commands, sent, nodeVars, pc, boundVars >>

\* A test, or a message that ends a mode, was acknowledged.
Acknowledged ==
  /\ pc = "idle" /\ message # NoMessage
  /\ message.of = "test" \/ message.stop
  /\ message' = NoMessage
  /\ UNCHANGED << item, queueVars, commands, sent, nodeVars, pc, boundVars >>

\* The Controller queue without the items for the node.
WithoutNode == Keep(queue, { i \in Range(queue) : ~item[i].node })

\* MoveMessagesToWakeUpQueue, called with the message for the node open.  The current
\* command is put back, as a copy, so that it is cleaned up.  The handler that called
\* it ends with the state s, or with none.
MoveMessages(s) ==
  LET move == Keep(queue, { i \in Range(queue) : item[i].node })
      p == Park(item, move)
      kept == Delete(item, (Range(parked) \cup Range(move)) \ Range(p))
      asleep == Update(item, current, "Sleeping")[current]
      copied == [kept EXCEPT ![current] = IF @ = NoItem THEN @ ELSE asleep, ![Fresh] = asleep]
  IN  /\ awake' = FALSE
      /\ parked' = p
      /\ message' = NoMessage
      /\ commands' = Keep(commands, { m \in Message : ~m.node })
      /\ IF current = NoItem
         THEN /\ item' = kept
              /\ queue' = WithoutNode
              /\ event' = (event /\ queue' # << >>)
              /\ UNCHANGED current
         ELSE /\ Unused # {}
              /\ item' = IF s = "none" THEN copied ELSE Update(copied, Fresh, s)
              /\ queue' = Append(WithoutNode, Fresh)
              /\ event' = TRUE
              /\ current' = Fresh

\* The node did not acknowledge a test.
TestFailed ==
  /\ pc = "idle" /\ message # NoMessage /\ message.of = "test"
  /\ MoveMessages("none")
  /\ UNCHANGED << sent, pc, boundVars >>
-----------------------------------------------------------------------------
(* The reports of the controller.  One that comes late changes the state of *)
(* the command that is current by then.                                     *)

\* The current message may be what the report on command k answers.
After(k) == {message} \cup (IF message # NoMessage /\ message.of = k THEN {NoMessage} ELSE {})

\* A report on command k after which the current command is in state s.
Report(k, s) ==
  /\ pc = "idle" /\ k \in sent
  /\ message' \in After(k)
  /\ item' = Update(item, current, s)
  /\ event' = (event \/ Sets(item, current, s))

\* ADD_NODE_STATUS_LEARN_READY and _NODE_FOUND, the start of an update or a route, their
\* ends, and an update's report of any other status, which HandleNodeNeighborUpdateRequest
\* takes for Normal.
Progress(k) ==
  /\ \/ k = AddDevice /\ current # NoItem /\ Report(k, "Waiting")
     \/ Report(k, "InProgress")
     \/ k = RequestNodeNeighborUpdate /\ Report(k, "Normal")
     \/ k # AddDevice /\ (Report(k, "Completed") \/ Report(k, "Failed"))
  /\ UNCHANGED << queue, current, commands, sent, nodeVars, pc, boundVars >>

\* ADD_NODE_STATUS_ADDING_SLAVE: the new node is the one that sleeps.
Adding ==
  /\ pc = "idle" /\ AddDevice \in sent
  /\ current # NoItem /\ ~item[current].node
  /\ item' = [item EXCEPT ![current].node = TRUE]
  /\ UNCHANGED << queueVars, messageVars, nodeVars, pc, boundVars >>

Stop == [of |-> AddDevice, stop |-> TRUE, node |-> FALSE]

\* ADD_NODE_STATUS_PROTOCOL_DONE
ProtocolDone ==
  /\ pc = "idle" /\ AddDevice \in sent
  /\ extras < Extras /\ extras' = extras + 1
  /\ current # NoItem
  /\ commands' = Append(commands, Stop)
  /\ message' \in After(AddDevice)
  /\ UNCHANGED << item, queueVars, sent, nodeVars, pc, begun >>

\* The commands that RemoveQueues deletes.
Removed == { i \in Range(queue) : item[i].node /\ i # current }

\* ADD_NODE_STATUS_DONE: InitNode deletes what was left of a node with that id.
AddDone ==
  LET init == current # NoItem /\ item[current].state # "Failed" /\ item[current].node
      left == IF init THEN Delete(item, Removed \cup Range(parked)) ELSE item
      q == IF init THEN Keep(queue, Range(queue) \ Removed) ELSE queue
  IN  /\ pc = "idle" /\ AddDevice \in sent
      /\ item' = Update(left, current, "Completed")
      /\ queue' = q
      /\ event' = ((event /\ (init => q # << >>)) \/ Sets(item, current, "Completed"))
      /\ parked' = IF init THEN << >> ELSE parked
      /\ awake' = (awake \/ init)
      /\ commands' = IF init THEN Keep(commands, { m \in Message : ~m.node }) ELSE commands
      /\ message' \in IF message # NoMessage /\ init /\ message.node THEN {NoMessage} ELSE After(AddDevice)
      /\ UNCHANGED << current, sent, pc, boundVars >>

\* ADD_NODE_STATUS_FAILED
AddFailed ==
  /\ pc = "idle" /\ AddDevice \in sent
  /\ extras < Extras /\ extras' = extras + 1
  /\ message' = NoMessage
  /\ commands' = IF current # NoItem THEN Append(commands, Stop) ELSE commands
  /\ item' = Update(item, current, "Failed")
  /\ event' = (event \/ Sets(item, current, "Failed"))
  /\ UNCHANGED << queue, current, sent, nodeVars, pc, begun >>

\* HandleAssignReturnRouteRequest when the node did not acknowledge.
AssignFailed ==
  /\ pc = "idle" /\ AssignReturnRoute \in sent
  /\ current # NoItem /\ message # NoMessage /\ message.node
  /\ MoveMessages("Failed")
  /\ UNCHANGED << sent, pc, boundVars >>
-----------------------------------------------------------------------------
(* The application's threads do not wait for the driver thread to be done with *)
(* WriteNextMsg.                                                              *)

\* CancelControllerCommand; of these commands only AddDevice can be cancelled.
Cancel ==
  /\ current # NoItem
  /\ extras < Extras /\ extras' = extras + 1
  /\ item[current].kind = AddDevice
  /\ commands' = Append(commands, Stop)
  /\ item' = Update([item EXCEPT ![current].node = FALSE], current, "Cancel")
  /\ event' = (event \/ Sets(item, current, "Cancel"))
  /\ UNCHANGED << queue, current, message, sent, nodeVars, pc, begun >>

\* The application tests the node; any other message parks the command as well.
TestNode ==
  /\ extras < Extras /\ extras' = extras + 1
  /\ IF awake THEN /\ commands' = Append(commands, [of |-> "test", stop |-> FALSE, node |-> TRUE])
                   /\ UNCHANGED << item, event, parked >>
     ELSE /\ current # NoItem
          /\ SendAsleep(item, current)
          /\ UNCHANGED commands
  /\ UNCHANGED << queue, current, message, sent, awake, pc, begun >>

\* SendPending: the parked commands are begun again.
WakesUp ==
  /\ pc = "idle" /\ ~awake
  /\ awake' = TRUE
  /\ item' = [i \in 1 .. Items |-> IF i \in Range(parked) THEN New(item[i].call, item[i].kind, item[i].node)
                                       ELSE item[i]]
  /\ queue' = queue \o parked
  /\ event' = (event \/ parked # << >>)
  /\ parked' = << >>
  /\ UNCHANGED << current, messageVars, pc, boundVars >>

\* The message that sends the node to sleep is in the WakeUp queue, which waits for
\* the current command.
FallsAsleep ==
  /\ pc = "idle" /\ awake
  /\ current = NoItem /\ message = NoMessage
  /\ awake' = FALSE
  /\ UNCHANGED << item, queueVars, messageVars, parked, pc, boundVars >>

Thread == Retire \/ EndRetire \/ Start \/ Tell \/ NothingToDo \/ ResetEvent \/ SendMessage
Outcome == Dropped \/ Acknowledged \/ TestFailed

Next ==
  \/ Thread
  \/ Outcome
  \/ \E k \in Commands : Progress(k)
  \/ Adding \/ ProtocolDone \/ AddDone \/ AddFailed \/ AssignFailed
  \/ \E c \in Call : Begin(c)
  \/ Cancel \/ TestNode \/ WakesUp \/ FallsAsleep

Spec == Init /\ [][Next]_vars

\* The driver thread runs and callbacks return; every message ends, if only by a timeout.
FairSpec == Spec /\ WF_vars(Thread) /\ WF_vars(Outcome)
-----------------------------------------------------------------------------
\* A command that is done is at the front and nobody will look at it.
Stranded == pc = "idle" /\ ~event /\ queue # << >> /\ item[Head(queue)].done

\* The event is set for nothing: WriteNextMsg takes the front of the queue without a test.
InVain == event /\ queue = << >>

\* The event of the Controller queue goes wrong in two races with the application's
\* threads and in no other way: it is set with nothing in the queue only by a thread that
\* cancels, or sends to the node, while the last callback of the command is running; and
\* a finished command is left without it only by the reset that follows "nothing to do".
SignalsRight ==
  [][/\ ~InVain /\ InVain' => pc = "callback"
     /\ ~Stranded /\ Stranded' => pc = "nothing"]_vars

\* Every item is in one place, where it will be found and deleted: the Controller
\* queue, the node's wake-up queue or, during its last callback, with the driver
\* thread; and the current command is one of those the driver will come back to.
ItemsInOnePlace ==
  LET calling == IF pc = "callback" THEN << current >> ELSE << >>
      all == queue \o parked \o calling
  IN  /\ TypeOK
      /\ \A i, j \in DOMAIN all : all[i] = all[j] => i = j
      /\ \A i \in 1 .. Items : item[i] # NoItem => i \in Range(all)
      /\ current # NoItem => current \in Range(queue \o calling)

\* The controller is told of one command at a time: of the commands in the queue at
\* most one is begun and not done.
OneUnderWay ==
  \A i, j \in Range(queue) :
    item[i].state # "Normal" /\ ~item[i].done /\ item[j].state # "Normal" /\ ~item[j].done => i = j

\* The current command is deleted by the driver thread after its last callback, and
\* by nobody else: m_currentControllerCommand never points to a deleted item.  False: an
\* item that is moved or sent to the wake-up queue replaces the one it compares equal to.
OnlyRetired ==
  [][current # NoItem /\ item'[current] = NoItem => pc = "callback"]_vars

AtFront == IF queue = << >> THEN NoItem ELSE Head(queue)

\* No command stays at the front of the queue for ever, in the way of those behind it, as
\* long as the commands that are begun come to an end and no finished one loses its
\* event for good.
QueueMoves ==
  []<>(current = NoItem \/ item[current].done) /\ []<>~Stranded =>
    []<>(queue = << >>) \/ []<><< AtFront' # AtFront >>_vars

\* The last state the callback is told is one that ends a command.
FinalStateTold == pc = "callback" => item[current].state \in Final
=============================================================================
