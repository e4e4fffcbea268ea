# TLA+ models of Demo-O-Box

Demo-O-Box is a home controller: a copy of the OpenZWave C++ library
(`src/Obox/cpp`), which drives a Z-Wave USB stick, and a small web server on top of
it (`src/O'Box_web_API`). Nearly all the program's own logic is in the library, and
most of what is hard in it is around one class: `Driver`, which sends one message at a
time to a controller that may answer late, twice or never, on behalf of several
threads, to nodes that are asleep most of the time. The models cover that engine and
what runs through it: the interview of the nodes, the commands of the controller,
polling, encrypted messages, and below it the way of a frame from the serial port.

Contents: [inventory](#inventory) · [modules](#modules) ·
[model and code](#model-and-code) · [runs](#runs) · [bounds](#bounds) ·
[fairness](#fairness) · [what the models found](#what-the-models-found) ·
[abstractions](#abstractions) · [proofs](#proofs) · [not modelled](#not-modelled) ·
[plan](#plan)

## Inventory

Paths are relative to `src/Obox/cpp/src` unless they begin with `src/`.

| Component | State | Operations | Interacts with | Hard | Correct when |
|---|---|---|---|---|---|
| Message engine (`Driver.cpp`, `Msg.cpp`) | eight send queues with an event each, the current message, the expected ACK, callback id and reply, attempts per message, the 8-bit id counter | `SendMsg`, `WriteNextMsg`, `WriteMsg`, `ReadMsg`, `ProcessMsg`, `MoveMessagesToWakeUpQueue` | every component sends through it; frames from the controller; `Node`, `WakeUp` | late and duplicated answers, timeouts, retries, several sending threads, id reuse | one owner per message, no message lost without a reason, an answer is matched to its own transmission, every transaction ends |
| Wake-up queue (`command_classes/WakeUp.cpp`) | `m_awake`, `m_pendingQueue`, a mutex, per sleeping node | `QueueMsg`, `SetAwake`, `SendPending`, `HandleMsg` | called by the message engine, calls it back | the node may wake up or fall asleep between a test and its use; lock order; the list changes under an iterator | an awake node has nothing pending, order of commands kept, everything pending is sent |
| Notifications (`Driver.cpp`, `Manager.cpp`) | `m_notifications`, an event, the list of watchers | `QueueNotification`, `NotifyWatchers`, `AddWatcher`, `RemoveWatcher` | all threads queue, the driver thread delivers, watchers call back | a list and an event changed without a common lock, re-entrance | every notification is delivered once |
| Controller commands (`Driver.cpp`) | the current command, its state, its callback, the command queue | `BeginControllerCommand`, `DoControllerCommand`, `UpdateControllerState`, `CancelControllerCommand`, request and response handlers | runs through the message engine, shares its queues | multi-step commands, cancelled while an answer is on its way | one command at a time, each reaches a final state and leaves its queue, nothing points to a deleted one |
| Node queries (`Node.cpp`) | `m_queryStage`, `m_queryPending`, `m_queryRetries` | `AdvanceQueries`, `QueryStageComplete`, `QueryStageRetry`, `SetQueryStage` | queued as items in the send queues and parked in the wake-up queue | retries, a node that sleeps in the middle, completion that arrives for another stage | a stage is left when its questions are sent, an interview never stalls, its end is announced |
| Polling (`Driver.cpp`) | the poll list, poll intensity, a mutex | `EnablePoll`, `DisablePoll`, `PollThreadProc` | its thread sends through `SendMsg`, watchers change the list | the list changes while the thread sleeps; lock kept on one path | a value polled is on the list once, every value is polled in turn, the mutex is released |
| Security (`ZWSecurity.cpp`, `command_classes/Security.cpp`, `Driver.cpp`) | the nonce of a message, the nonces given to a node, `m_nonceReportSent` | `SendNonceRequest`, `SendEncryptedMessage`, `SendNonceKey`, parts of `WriteMsg` and `ProcessMsg` | takes the place of the current message | a nonce, or the request for one, arrives when another message is current or none | a nonce is used once, a message goes out before it is deleted, the transaction ends |
| Start and stop (`Driver.cpp`) | threads, `m_exit`, the controller | `Start`, `DriverThreadProc`, `Init`, the destructor | every thread of the driver | stop during a write; order of the destructors | threads end before what they use is deleted |
| Groups (`Group.cpp`) | associations of a node, the callbacks | `OnGroupChanged`, `AddAssociation` | commands to the node, notifications | reports that overlap | what is shown is what the node said |
| Values (`value_classes/`) | values with their refresh state | `VerifyRefreshedValue`, `RefreshValue` | polls, reports | a changing value is verified by further reads | a wrong reading is not shown, the right one is in the end |
| Events and waits (`platform/`) | signalled state, watchers, the ring buffer of `Stream` | `Set`, `Reset`, `Wait::Multiple`, `Put`, `Get`, `Purge` | below every thread | a watcher added while the event is signalled | no lost wake-up, no byte lost or doubled |
| Manager, Scenes, Options, device database | tables | forwarders, XML files | front of the drivers | locking only | - |
| Web server, cloud client (`src/O'Box_web_API`) | a table of nodes behind a mutex, HTTP connections | `OnNotification`, request handlers | `Manager` | the mutex is held across calls into `Manager` | no dead lock with the driver thread |
| Serial port (`platform/unix/SerialControllerImpl.cpp`), `ReadMsg` | the bytes read so far | `Read`, `ReadMsg` | puts into `Stream`, read by the driver thread | bytes come in pieces, are damaged or late | the reader is back in step after anything, an undamaged frame is heard |
| HID, tinyxml, jsoncpp, `src/References` | - | device and file I/O, third-party code | - | - | not modelled |

`PROJECT.json` lists the same components with their status, and under `hazards` the
lines at which the code is hard to test.

## Modules

| Module | What it is |
|---|---|
| `SendQueue` | The list operations: erasing in place (`Keep`), and queueing a copy that deletes earlier equal messages (`Newest`, `QueueAll`) |
| `Driver` | The message engine with the wake-up queues of the nodes, the threads inside `SendMsg`, and the network as a set of answers that may still come |
| `Delivery` | The abstract specification: the life of a message from `idle` to `gone`, without queues, ids, attempts and timers |
| `DriverDelivery` | The refinement mapping from `Driver` to `Delivery` |
| `SendPending` | The two mutexes around one wake-up queue, lock by lock |
| `Notifications` | The notification list and its event, operation by operation |
| `NodeQueries` | The interviews: stages, questions, markers, retries, dead and sleeping nodes, calls of the application, nodes that come and go |
| `ControllerCommands` | The Controller queue and its event, the items, the reports of the controller, cancelling, parking at a sleeping node |
| `Polling` | The poll list and its mutex, the polling thread, the calls of the application, the deletion of nodes, the verification of changed values |
| `SecureMessages` | Messages to nodes with Security: nonces asked for, given and used in the course of a transaction |
| `ByteQueue` | What a `Stream` promises: a bounded queue of bytes |
| `FrameReader` | `Stream`, `Wait` and `ReadMsg` between the port's thread and the driver thread; its end shows that it implements `ByteQueue` |
| `SendQueue_proofs` | Lemmas about the list operations, which the other proofs share |
| `DriverDelivery_proofs` | Theorems about `Driver` and its refinement of `Delivery` |
| `SendPending_proofs`, `NodeQueries_proofs`, `ControllerCommands_proofs`, `Polling_proofs`, `SecureMessages_proofs`, `FrameReader_proofs` | Theorems, each about the module it is named after |
| `MCSerial`, `MCSleepy`, `MCNodeQueries`, `MCControllerCommands`, `MCPolling`, `MCSecureMessages`, `MCFrameReader` | Instances for TLC |

The definitions marked *Mutant* are wrong variants of the one that follows; none is
part of a specification. Each property is known to fail when its mutant is put in place.

How they fit together: `Driver` is the transaction and the queues, and knows only
messages. The items that are not messages have modules of their own, which take one
transaction as one step that succeeds or fails: markers of query stages in
`NodeQueries`, commands in `ControllerCommands`. `Polling` has a thread beside the
driver thread that feeds the queues. `SecureMessages` refines what one transaction
with an encrypted message looks like inside. `SendPending` and `FrameReader` show what
the locks and the waits allow inside steps the others take as one. Three facts are
kept the same by hand: the order in which queues are served, what `QueueMsg` replaces,
and what `MoveMessagesToWakeUpQueue` keeps.

## Model and code

`PROJECT.json` maps each definition to the lines it stands for. The variables have the
names of the members without `m_` where there is one.

### Driver

The state of `Driver` is the members of the class, one variable each, under their
names. The driver
thread runs each handler to its end, so one action is one turn of
`DriverThreadProc`: the first signalled queue is served (`WriteNextMsg`), the wait
times out (`WaitTimeout`), or a byte or a frame arrives:

| Action | Code |
|---|---|
| `ReceiveAck`, `ReceiveNak`, `ReceiveCan` | the cases of `ReadMsg` |
| `ReceiveCallback(f, answer)` | `HandleSendDataRequest` and the end of `ProcessMsg`; `answer` is the transmit status |
| `ReceiveReport(n, right, answer)` | `HandleApplicationCommandHandlerRequest`; `right` says whether the command class is the expected one, `answer` is a message the class sends in reply |
| `ReceiveWakeUpNotification` | the same handler when the class is WakeUp, with `SetAwake`, `SendPending` and the NoMoreInformation command |
| `ReceiveNodeInfo`, `ReceiveNodeInfoFailed` | `HandleApplicationUpdateRequest` |
| `ReceiveResponse` | the answer to a message for the controller itself |
| `BeginSend`, `TestAwake`, `EndSend` | `SendMsg` on another thread, split where another thread's step can change what it does: the read of the id counter, its write and the test of `IsAwake`, and the addition to a list |
| `WatcherSends` | `SendMsg` on the driver thread, in a watcher |

`WriteMsg` decides in one place between giving the message up, with `RemoveCurrentMsg`,
and transmitting it, which closes the earlier transmission's claim: a later attempt
takes a new callback id. `MoveMessagesToWakeUpQueue` keeps the messages of one node
for its next wake-up, but not those that make no sense then (`Perishable`).

A message is a model value whose kind says what it expects:

| Kind | Expects | Example |
|---|---|---|
| `get` | callback id, then a report | a command-class Get |
| `set` | callback id | a Set |
| `noOp`, `noMoreInfo` | callback id | the probe, the end of a wake-up session |
| `nodeInfo` | a node information frame | `RequestNodeInfo` |
| `local` | the controller's response | `GetVersion` |
| `plain` | the ACK only | `SoftReset` |

Each transmission adds one answer to `air`, with the callback id it
was sent with; it may be delivered at any later time, or never. `latest` is history:
whether the message was sent again since. Reports, wake-up notifications and node
information frames may come at any time without having been asked for. `owed` counts
bytes ACK, NAK or CAN the controller may still send.

### NodeQueries

A node is a record of the members of `Node` (`stage`, `pending`, `retries`, `info`,
`alive`, `errors`) and of its WakeUp class (`awake`, `parked`). The questions of one
stage are one item, the marker behind them is `QueryStageComplete`. Which stages have
questions is open (`MayAsk`): `AdvanceQueries` may pass over a stage or stop at it.

| Action | Code |
|---|---|
| `SendQuestion`, `TakeMarker` | the branches of `WriteNextMsg`, with `QueryStageComplete`, `AdvanceQueries` and all they queue |
| `Answered`, `AnsweredByController` | the last answer to a question |
| `Failed`, `FailedAsleep`, `Lost` | `HandleErrorResponse`, parking, dropping; `QueryStageRetry` and `RetryQueryStageComplete` |
| `Report`, `Unasked`, `NodeInfoReceived`, `NodeInfoFailed`, `WakesUp` | frames that revive a node, give its information, wake it |
| `NodeInfoFailedLate` | the failure of a request that was given up before: it names no node, so it acts on the one whose message is current |
| `Request`, `EndRequest` | `RefreshNodeInfo`, `RequestNodeState` and the like on the application's thread; the marker is queued in a step of its own |
| `IsFailedNode`, `RemoveNode`, `InitNode` | nodes that are found failed, leave and are added |

### ControllerCommands

Items are numbered; `item` is what they hold, so that one that was deleted can be told
from one that is there. `WriteNextMsg` for the Controller queue is split where it calls
back and where it resets the event (`Retire`, `EndRetire`, `Start`, `Tell`,
`NothingToDo`, `ResetEvent`), since `Cancel` runs on the application's thread.
`Progress`, `Adding`, `ProtocolDone`, `AddDone`, `AddFailed` and `AssignFailed` are the
reports of the controller, each for whatever command is current.

### Polling

`pollLock` is held over several steps by the polling thread (`Pop`, `PushBack`,
`Request`) and by a call of the application (`Begin` to `EnablePoll`, `DisablePoll` or
`SetPollIntensity`); the deletion of a node (`StartDelete` to `EndDelete`) holds the
node mutex and asks for the poll mutex. An early return that leaves the mutex locked
is `Leak`; the application goes on, and the others wait. `DisablePoll` erases an entry whose
value is gone and then moves the erased iterator (`Driver.cpp:4039`, `:4044`), which is undefined: it
comes to the unlock or it does not (`Disable`). A value is its intensity, what it shows, and the reading to be confirmed
(`Verify`). The constant `Allowed` names the hazards an instance includes.

### SecureMessages

One send queue, the current message and its expectations, as in `Driver`. `WriteMsg`
is `RepeatNonceReport` while `nonceReportSent` is set and `Transmit` otherwise, which
sends a nonce request, or the message. `ReceiveNonceReport`, `ReceiveNonceGet`,
`ReceiveEncap`, `ReceiveCallback` and `ReceiveReport` are the branches of `ProcessMsg`
up to and including its end (`Complete`). `nonces` is history: how often each nonce was
used. A message the node can read makes it ask for a nonce of its own, with which it
encrypts its report; `age` is how many more nonces the driver has made for the node
since. A report older than the table cannot be decrypted, nor, by chance, can any other, as
the table is searched for one byte of the nonce; `RemoveCurrentMsg` is called then, whichever
message is current.

### FrameReader

The port's thread copies a chunk into the ring (`Copy`) and counts it and tells the
watchers in a second step (`Count`), as `Put` does. The driver thread adds its watcher,
tests the object, waits, and reads (`AddWatcher`, `TestAtOnce`, `EndWait`, `First`,
`ReadLength`, `ReadBody`), or gives up (`TimeOut`); `Purge` is three steps, as it is
made without the mutex.

## Runs

All passing runs explore the whole state space of their instance.

| Run | Instance | Distinct states | Shows |
|---|---|---|---|
| `serial` | a listening node, `set`, `get`, `nodeInfo` and `local` messages, counter at 254 | 101,604 | types (`TypeOK`); the driver expects something exactly while it has a current message (`TransactionOpen`); a late answer with the expected id is the answer to the open transmission (`AnswersCurrent`); every transaction ends and every message is deleted (`TransactionEnds`, `MessagesSettle`) |
| `sleepy` | a battery node with two equal commands, a probe, a node info request, NoMoreInformation and a message without answer; a listening node; all calls from the driver thread | 949,736 | a queue is signalled exactly while it is not empty (`QueueEventsMatch`); each message is in one place (`OnePlace`); nothing is lost without a reason (`NoSilentLoss`) |
| `refinement` | the battery node with two equal commands and NoMoreInformation, a listening node, a second thread in `SendMsg` | 472,492 | `Driver` implements `Delivery`; only the thread that tested a node before it woke up strands a message there (`OnlyRaceStrands`); no command to sleep or probe is carried over when a node falls asleep (`SleepCommandsDropped`) |
| `send_pending` | three threads in `SendMsg`, the driver thread in `SendPending` | 1,040 | the list only loses its front while the iterator walks it; no message is lost or doubled |
| `notifications` | two application threads, three notifications | 1,138 | what is on the list when the driver finds the event set is delivered, and once |
| `interview` | a listening and a battery node from nothing, one revival | 38,672 | no stage is left with a question unsent (`AskedBeforeLeft`); interviews end (`InterviewEnds`) and this is announced (`QueriesAnnounced`) |
| `requests` | a battery node from the configuration file and the controller's node; two calls or node infos; nodes leave and come; failures that come late | 636,566 | a node that is alive and not complete has a marker on its way that lets it go on (`MarkerFollows`) |
| `controller` | `AddDevice` with a callback and `AssignReturnRoute` without, a sleeping node, two cancels or tests at any time | 812,825 | the event goes wrong in two races only (`SignalsRight`); every item is in one place and the current one is reachable (`ItemsInOnePlace`); one command is under way (`OneUnderWay`); the queue keeps moving unless one of the races has stopped it (`QueueMoves`) |
| `polling` | a verified value of a listening node, one of a battery node, intensities 0 and 2, counters below 3; a call, also for a value that is gone, a value that vanishes, a change, a wrong reading, a removal, a lost answer | 756,016 | the mutex is left locked only for a value that is gone (`UnlockedUnlessGone`); list and intensities are parted by nothing else than the known calls and removals (`StaysInStep`); a single wrong reading is not shown (`NoiseNotShown`); while the lock is free now and then, each value gets its turn (`PolledInTurn`) and shows what the device reads in the end (`Converges`) |
| `secure` | an encrypted Get to a lock that sleeps, a plain one to a lamp, two attempts, one report of news, one wake-up | 202,615 | each message is in one place (`OnePlace`); no nonce is used twice (`NonceOnce`); a message that neither went out nor was tried as often as allowed is deleted for one of three reasons only (`NotLostUnsent`); every message ends or waits for its node (`Settles`) |
| `frames` | three frames of 3, 4 and 3 bytes, a buffer of 5, chunks of up to 3, one fault | 139,593 | the ring is consistent (`RingConsistent`) and a queue of bytes (`StreamIsQueue`); no wait is slept through (`WaitNotMissed`); between frames one byte wakes the reader (`WokenByOne`); an undamaged frame is heard (`CleanFrameHeard`) and the reader gets back in step (`BackInStep`) |
| `node_leaves` | a node is removed in the middle of its interview | stops at the violation | `QueriesAnnounced` fails |

## Bounds

- *Messages.* Each message object is handed over once, as in the code, so the number
  of messages bounds the behaviour of `Driver`. Four or five are enough for one message in the
  transaction, one in a send queue, one in a wake-up queue and a copy that replaces
  another, with one of a second node beside them.
- `MaxTries` is 1 in `Driver`'s instances, the value of `MAX_TRIES`. `MaxMaxTries` stands
  for `MAX_MAX_TRIES` (7): the CAN handler allows a further attempt while the limit is
  below it. 3 allows one more attempt than usual, so that there are two transmissions of
  one message; 2 allows none, which the sleepy instances use because parking starts the
  attempts again. In `SecureMessages` `MaxTries` is 2, a limit that CAN has raised once.
- `StartId` is 254 in `serial`: the counter passes 255, 0 and 10 within the run. The
  other instances start at 11.
- `MaxOwed` is 1: an ACK, NAK or CAN is delivered at any time after a
  transmission, also when that transaction has been closed.
- `errors` stops at `DeadAfter`, from where on the code compares only `>=`.
- `sleepy` and `serial` have no second thread, which leaves room for more messages: with one,
  `AnswersCurrent` fails. `refinement` has one, and reaches the race `OnlyRaceStrands` names.
- `NodeQueries`: `Changes` bounds calls, node infos, nodes added or removed; two are
  enough for one to come while the marker of the other is queued. `Revivals` is 1: each
  revival with a retry under way adds a probe and a marker that are never merged. `interview`
  is without changes: no call, poll or node information sends a node back to an earlier stage.
  `requests` has them.
- `ControllerCommands`: `Items` 5 lets two commands, the copies of both and one more
  exist at once; a step that needs another item is not taken.
- `Polling`: `Byte` 3 instead of 256: a counter that is 0, as that of a value whose intensity
  is 0, wraps when it is counted down. One of each of the bounded events, in any order.
- `SecureMessages`: `Slots` 2 instead of 8, so that a table of nonces is written over.
- `FrameReader`: a buffer the longest frame just fits in, so that head and tail wrap in
  every frame and a chunk may be refused; frames short enough for one fault to mix two.
- `CHECK_DEADLOCK FALSE` stands where the instance ends when all calls are made, and in
  `polling`, where a mutex left locked stops everyone. In
  `Driver` it is checked: a node information frame can always come.

## Fairness

`Driver`: weak fairness of `SendNext` and `WaitTimeout`, and of the two steps by
which a thread leaves `SendMsg`. The driver thread is a loop around
`Wait::Multiple`, so a queue that stays signalled while nothing is expected is
served; and each wait has a timeout (`ACK_TIMEOUT`, `RETRY_TIMEOUT`), after which
`WriteMsg` is called. Nothing is assumed of the network: an answer may stay away for
ever. The timeout is real only if no frame arrives just before it each time, since a
frame starts the wait again; the code's remaining time is not reset by unrelated
wake-ups alone, and an endless uninterrupted stream of frames is not considered.

`Notifications`: weak fairness of the driver thread's loop, and of each thread that
is inside `QueueNotification`. `SendPending`: weak fairness of each thread and of
`SendPending`, none of the node's falling asleep or waking up.

`NodeQueries`: weak fairness of the driver thread (`Engine`), of the end of a question in
one of its ways (`Outcome`; the timeout is one of them), and of a call that is under way.
`ControllerCommands`: the same, and `QueueMoves` is claimed only if the commands that
are begun come to an end, since the code waits for the controller without a timeout, and no
finished one has lost its event for good.
`Polling`: weak fairness of each thread, of an answer of an awake device, and of waking up,
which a battery node does at its interval; not of the events of the bounds. `PolledInTurn` and
`Converges` are claimed if the mutex is not left locked for good.
`SecureMessages`: weak fairness of `WriteNextMsg` and of `WaitTimeout`; nothing is assumed
of the network. `FrameReader`: weak fairness of the two threads; the line may be silent.

## What the models found

One run checks a statement of a comment that the code does not meet:

| Run | Property | What happens |
|---|---|---|
| `node_leaves` | `QueriesAnnounced` | a node that leaves the network is deleted without a check of the remaining ones; when it was the last that was not complete, `AllNodesQueried` is never sent, against `Manager.h:106` |

The following are behaviours of the code that passing runs reach, and that their properties
name as the only exceptions:

| Run | Property | What happens |
|---|---|---|
| `refinement` | `OnlyRaceStrands` | `SendMsg` tests `IsAwake`, the node wakes up and its pending messages are sent, then the message is added to the wake-up queue of the awake node (`Driver.cpp:994`) |
| `controller` | `SignalsRight` | a cancel, or a test of the node, during the last callback signals the empty queue, and `WriteNextMsg` takes its front (`Driver.cpp:5492`); a cancel between the test and the reset of the event leaves a finished command at the front (`:1118`) |
| `polling` | `UnlockedUnlessGone` | `SetPollIntensity` for a value that does not exist returns with the poll mutex locked (`Driver.cpp:4163`); so do the polling thread, and by an erased iterator `DisablePoll`, when a polled value has been removed (`:4226`, `:4044`); the mutex is recursive, so only the other threads are stuck |
| `polling` | `StaysInStep` | `EnablePoll` with intensity 0 and `SetPollIntensity` part the list from the intensity; a value that is listed and counts as not polled is left behind by the destructor of its node |
| `secure` | `NotLostUnsent` | a report that cannot be decrypted removes whichever message is current (`Driver.cpp:1891`) |

The following are behaviours that the passing runs exclude by a bound. Each
is seen by changing the named constants of a configuration and checking the property.

| Change | Property | What happens |
|---|---|---|
| `MCSleepy.cfg`: `Msg = {on1, info1}` | `AnswersCurrent` | a late NODE_INFO_REQ_FAILED, which names no node, parks the message of another transaction; parking resets its attempts, so it goes out again with its old callback id, and the answer to the first transmission matches (`Driver.cpp:3756`, `:1186`) |
| `MCSendPending.cfg`: `FairSpec`, two threads | `PendingIsSent` | `SendMsg` and `SendPending` take the node mutex and the wake-up queue's mutex in opposite orders and wait for each other (`WakeUp.cpp:437`) |
| `MCNotifications.cfg`: `Note = {a, b}`, `Thread = {t1}` | `Delivered` | a notification added between the end of the loop and the reset of the event is announced to nobody until the next one (`Driver.cpp:5953`) |
| `Requests.cfg`: `Overlap = TRUE` | `MarkerFollows` | a node is presumed dead while the application is in `AdvanceQueries`: its questions are queued without a marker, and when it revives the interview stalls (`Node.cpp:703`) |
| `Interview.cfg`: `Changes = 1` | `AskedBeforeLeft` | a node whose node information request failed wakes up to be polled: the stage's question is queued twice, with a marker each, and when the first fails as well the stage is left while the other question is parked (`Node.cpp:759`) |
| `Controller.cfg` | `OnlyRetired` | the item of the current command is moved to the wake-up queue, or a copy is queued there, and the one that compares equal is deleted while `m_currentControllerCommand` points to it (`Driver.cpp:1413`, `:1003`) |
| `Polling.cfg`: `"overlap"` in `Allowed` | `FrontExists`, `NoDeadlock` | the list is tested for emptiness before the lock is taken (`Driver.cpp:4200`); `~Node` takes the node and the poll mutex in the order opposite to `EnablePoll` and the polling thread (`Node.cpp:199`) |
| `Frames.cfg`: `Racy = TRUE` | `RingConsistent`, `StreamIsQueue`, `CleanFrameHeard` | `Purge` resets the ring without the mutex while the port's thread is in `Put`; the bytes that are counted then are not those that were put (`Stream.cpp:181`) |
| `Secure.cfg`: `Overlap = TRUE` | `OnePlace`, `Settles` | after a node has been given a nonce for a report of its own, `m_nonceReportSent` is set with no transaction open; the next message of any node is not sent, the nonce report is, nothing is expected, and the ACK deletes the message, or the next message overwrites it (`Driver.cpp:1153`, `:1773`). The comment at `Driver.cpp:1147` takes for granted that the report timed out or was refused |
| `Secure.cfg`: `Late = TRUE` | `Settles` | a nonce report that comes late is taken for whatever message is current, and with none NULL is dereferenced (`Driver.cpp:1816`) |

Met while reading, and not part of any model or not a property of one: the test
`_data[2] > 10` lets the late answer with id 10, the first ordinary id, act on the
current message's node (`Driver.cpp:2977`), and bytes of frames without a callback id
are compared with the expected one (`:2285`); both are in `Driver` as they are.
`Driver.h:125` says that a message is resent until its attempts are greater than 2,
`MAX_TRIES` is 1. `Driver.h:615` calls the security queue the one of highest priority, the
command queue comes first. `ProcessMsg` looks for MessageEncapNonceGet in data it has just
overwritten (`Driver.cpp:1872`, `:1876`), so the nonce it asks for is not sent, and the model
sends none. A call that sends a node back to an earlier stage while the NoMoreInformation command
that ends its wake-up session is queued has it sent to sleep in front of its questions
(`WakeUp.cpp:465`, `Node.cpp:782`): the `requests` run has this, and the marker that continues
the interview waits for the next wake-up (`MarkerFollows`). Values restored from the configuration file with
an intensity are never put on the poll list (`Value.cpp:198`).

## Abstractions

- *`Driver`.* Only messages are in the queues; nodes have been interviewed, no controller
  command and no Security exchange is in progress, no node is removed: those are the
  other modules. Contents are compared as a whole, as `operator==` of `Msg` does up to
  the callback id. The third byte of a report or of a response, which `ProcessMsg`
  compares with the expected id, is taken to be 0; the byte of an APPLICATION_UPDATE
  frame, which is known, is kept. A frequently listening node is a listening node.
  `SetAwake` waits while a thread is between its test and its parking; in the code both
  may then wait for ever, which is what `SendPending` shows.
- *`Notifications`, `FrameReader`.* One operation on a list or on a counter is one step;
  unsynchronised ones have no defined meaning in C++, the models show what goes wrong even
  when they are atomic.
- *`NodeQueries`.* The questions of a stage are one item; the queues served before Query
  are one list; a question ends once, in one of the ways a transaction can end.
- *`ControllerCommands`.* Three commands stand for those with the same handlers or form;
  one node, which sleeps; the Command and NoOp queues are one list.
- *`Polling`.* No time: the interval between polls is any. Messages are requests for the
  state of a value. A node that is deleted may come back.
- *`SecureMessages`.* A nonce is a number, a report can be read when the nonce it was made
  with is still in the table, unless its first byte matches another: which ones do is left open. Each message has a command class of its own, so a report is the
  expected one when it is about the current message. Equal frames on their way count as
  one. A node answers a Get it can read. Dead nodes and CAN are in `Driver` only. Unless
  `Overlap`, the application sends and nodes wake up only when no news is outstanding.
- *`FrameReader`.* Checksums detect all damage. What `ProcessMsg` does with a frame, and the
  messages of one byte, are in `Driver`. Unless `Racy`, nothing is read from the port during
  `Purge`.

## Proofs

The theorems hold for every value of the constants that satisfies the named assumption of
their module. Each is proved from an inductive invariant: it holds initially, every action
keeps it, and it implies the property. A proof module has one lemma per helper and per
action, one `...Next` or `...Keeps` lemma that splits on the disjuncts of `Next`, and ends with
the theorems. Each property below is also checked by a run on a small instance.

| Module | Theorem | Statement | Under |
|---|---|---|---|
| `DriverDelivery_proofs` | `TypeCorrect` | `Spec => []TypeOK` | |
| | `TransactionCorrect` | `Spec => []TransactionOpen` | |
| | `QueueEventsCorrect` | `Spec => []QueueEventsMatch` | |
| | `OnePlaceCorrect` | `Spec => []OnePlace` | |
| | `NoSilentLossCorrect` | `Spec => NoSilentLoss` | |
| | `DeliveryImplemented` | `Spec => ImplementsDelivery` | |
| | `OnlyRaceStrandsCorrect` | `Spec => OnlyRaceStrands` | |
| | `SleepCommandsDroppedCorrect` | `Spec => SleepCommandsDropped` | |
| `SendPending_proofs` | `InOneListCorrect` | `Spec => []InOneList` | |
| | `ListStableCorrect` | `Spec => ListStable` | |
| `NodeQueries_proofs` | `TypeCorrect` | `Spec => []TypeOK` | |
| | `MarkerFollowsCorrect` | `Spec => []MarkerFollows` | `~Overlap` |
| | `AskedBeforeLeftCorrect` | `Spec => AskedBeforeLeft` | `Changes = 0` |
| `ControllerCommands_proofs` | `SignalsRightCorrect` | `Spec => SignalsRight` | |
| | `OneUnderWayCorrect` | `Spec => []OneUnderWay` | |
| | `ItemsInOnePlaceCorrect` | `Spec => []ItemsInOnePlace` | |
| `Polling_proofs` | `UnlockedUnlessGoneCorrect` | `Spec => UnlockedUnlessGone` | |
| | `StaysInStepCorrect` | `Spec => StaysInStep` | |
| | `NoiseNotShownCorrect` | `Spec => NoiseNotShown` | `Bound["noise"] <= 1` |
| `SecureMessages_proofs` | `NonceOnceCorrect` | `Spec => []NonceOnce` | |
| | `OnePlaceSecure` | `Spec => []OnePlace` | `~Overlap`, `~Late` |
| | `NotLostUnsentCorrect` | `Spec => NotLostUnsent` | |
| `FrameReader_proofs` | `WokenByOneCorrect` | `Spec => []WokenByOne` | |
| | `WaitNotMissedCorrect` | `Spec => []WaitNotMissed` | |
| | `RingConsistentCorrect` | `Spec => []RingConsistent` | `~Racy` |
| | `StreamCorrect` | `Spec => StreamIsQueue` | `~Racy` |

*The hypotheses* in the last column are the conditions under which the property is true of the
code; [what the models found](#what-the-models-found) has, for each of them, the behaviour
that breaks the property when it is dropped. Where the exception could be said in the property
itself (`OnlyRaceStrands`, `SignalsRight`, `UnlockedUnlessGone`, `StaysInStep`,
`NotLostUnsent`) it is, and the theorem has no hypothesis. `NodeQueries`: `~Overlap` means that no
failure is handled while the application is in `AdvanceQueries`; without it the questions have
no marker. `Changes = 0` is an interview that runs by itself: every loss, retry, death, revival,
sleep and wake-up is in it, no call of the application, poll or node information.
`SecureMessages`: `~Overlap`, `~Late` mean that what the nodes report of their own accord meets
no open transaction, and that no frame outlives its message. `FrameReader`: `~Racy` means that
the port's thread is quiet during `Purge`. A second wrong reading may confirm the first, so
`NoiseNotShown` is about one. All runs that check these properties satisfy the hypotheses,
which are not empty.

*The assumptions on constants* say what the code's types say, that the model values for
"none" are none of the things they are put beside, and the following. `DriverAssumption`: messages
with equal content have the same target and are both NoOperation or WakeUp commands or
neither, since the bytes hold node, command class and command (`Msg.h:120`-`135`).
`SendPendingAssumption`, `PollingAssumption`, `ControllerCommandsAssumption`,
`NodeQueriesAssumption`: finitely many threads, values, calls and nodes; and the node of the
controller does not sleep.
`FrameReaderAssumption`: a buffer and a chunk of at least one byte.

### The message engine

    Inv == TypeOK /\ TransactionOpen /\ QueueEventsMatch /\ ParksForSleepy

`ParksForSleepy` is the strengthening: a thread that is about to park a message has
one for a sleeping node. Without it `EndSend` would write `pending` outside its
domain, and `TypeOK` would not be preserved. `TransactionOpen` needs a property of
the helpers: what a transmission expects is never nothing, because the ACK is
waited for, and the end of `ProcessMsg` closes the transaction exactly when
the last expectation falls, unless the ACK is still missing, in which case the
transaction stays open with its message. `QueueEventsMatch` needs `QueueEventsMatch` of
every other queue: `MoveMessagesToWakeUpQueue` changes all eight.

To these the module adds where the messages are. `PlaceInv` says that every message is at
exactly one of six kinds of places and no list holds one twice; it is stated with a relation
`At(m, kind, k)` because `OnePlace` counts copies, and counts do not pass through the steps of
a proof. Each action is then a lemma about which messages change place: a step that leaves a
message where it is keeps its place, the others name the new one. `DeliveryInv` adds what is
parked: messages for that node, no two equal, none of them the command to sleep, which no
other thread has in its hands. `OnlyRaceStrands` and `SleepCommandsDropped` are proved action by
action from it: which messages a step may add to a wake-up queue, and for a node in which state. The
refinement takes these invariants and shows that each action is a step of `Delivery`
for the messages that change place together, or none; the mapping of a message is a function of
its place. For `NoSilentLoss`, `TriedInv` adds that the current message has been transmitted
and every limit is positive: `WriteMsg` gives up a message only after an attempt, which its
test alone does not show. That a replaced message leaves an equal one behind is
`NewestCovers` of `SendQueue_proofs`.

### The other components

- `SendPending`: `ListInv` says who holds which mutex at which step, and that the two lists
  together hold exactly the messages of the threads that are done. `ListStable` follows from the
  mutex, `InOneList` from the lists.
- `NodeQueries`: what `AdvanceQueries` makes of a node is a choice among sets of records, so the
  module first says, for each helper, how the record it returns differs from the one it was given
  (`Put`, `Advanced`, `Woken` and the like), and proves each invariant from these relations.
  `MarkerInv`: `MarkerFollows` is not inductive for a node presumed dead, whose marker has to be
  there when it revives; so questions that are pending have a marker of their stage whether the node
  is alive or not. It holds of every node but the one for which a call is about to queue
  it. `AskedInv` describes the order in the lists, in four parts. `Rests`:
  where the items of a node that sleeps, is dead or is complete can be. `Questions`:
  there is one question of a node, and it is of the stage it is at, except for a node info request
  that is to be repeated. `Markers`: none is of a later stage, and in the stages whose questions go
  through the Query queue one for the present stage excludes others beside it. `Clashes`: in no list
  is a question behind the marker of its stage. `MoveMessagesToWakeUpQueue` and
  `SendPending` keep this order, which is what the lemmas on lists without a
  clash (`Never`) are for.
- `ControllerCommands`: `CommandInv`. `OneUnderWay` is not inductive: a command that is begun
  is at the *front* of the queue, and stays there although `MoveMessagesToWakeUpQueue`
  filters the queue and wake-ups append to it. `ItemsInOnePlace` needs that items of the two lists
  and the one called back are disjoint and are all there are, through deletions of those that a
  copy replaces; and that the current command is never in state Normal, or a late report would
  make a parked one begun.
  `SignalsRight` is part of the same lemmas, one per action, as it needs
  `Attended`: while the event is not set, the front of the queue is the current command.
- `Polling`: `PollInv` ties the mutex to where each thread is and says that no value is on the
  list twice, which holds whatever a mutex left locked has stopped. Since list and intensities
  may part, there is no invariant that they agree: `Together`, with the value the polling thread has
  taken counted as listed, is shown to be kept by every step that is not `Excused`. `NoiseInv`: while no wrong reading was made, none waits to be confirmed.
- `SecureMessages`: `NonceInv` says that a nonce on its way is unused, on its way once and kept
  by no message; that every message's nonce is 0 between two frames is what `clearNonce`
  establishes. `AnswerInv` and `AirInv` say what a frame on its way may be about, `PlacesInv` is a
  partition of the messages, `SentInv` that an expectation that has fallen, and a callback or a
  report on its way, show that their message went out. It needs none of the hypotheses: what is
  late or overlaps removes messages, but makes no expectation fall.
- `FrameReader`: `FrameInv` holds also while the port is read during `Purge`. `RingInv` gives
  the end of the ring's content as a remainder, which needs a few lemmas on `%` (`Wrap`,
  `WrapRound`, `WrapPlus`); `StreamCorrect` shows that `Copy`, `Count`, `Get` and the three steps
  of `Purge` are steps of `ByteQueue`, or change nothing there, when the ring is read from its tail.

`SendQueue_proofs` has what the modules need of `Keep`, `Newest`, `QueueAll`, `\o` and `Tail`:
types, ranges, no repetitions, the head. `Keep` is a recursive function; that it is a function
on `0 .. Len(q)` is proved from well-founded induction on the length, with sets in place of
the predicates that the induction theorems of the library take.

### Only model-checked

- *Liveness* (`TransactionEnds`, `MessagesSettle`, `SignalledIsDelivered`, `InterviewEnds`,
  `QueriesAnnounced`, `QueueMoves`, `PolledInTurn`, `Converges`, `Settles`, `CleanFrameHeard`,
  `BackInStep`): out of the prover's reach.
- `AnswersCurrent`: not true of every instance. Ids come round after 246 messages, and a late
  answer of that age has the id that is expected; and a node information failure may park
  another node's message, which keeps its id. The run shows it where neither happens.
- `Notifications.TypeOK`: types only; what matters there is liveness.

## Not modelled

- *Driver start and stop, Groups, the watchers of `Manager`, the web server's locks*: in
  the plan.
- *Command classes*: some fifty encoders and decoders of reports, without a state of their
  own beyond values; those with protocol state (WakeUp, Security, NoOperation) are in the
  models of the engine.
- *Ciphers, key exchange, firmware upgrade, cloud client, options, device database, scenes,
  HID*: pure computation, I/O or parsing, without the concurrency and failure the
  models are about.
- *Third-party code* (`tinyxml`, `hidapi`, `jsoncpp`, all of `src/References`): not the
  program's own. It is also why the mapped lines are a small share of all lines in the
  repository: `src/References` alone holds a second copy of the library, and most of
  the rest are encoders, decoders, forwarders, XML and the vendored libraries. Within
  `Driver.cpp`, `Node.cpp`, `WakeUp.cpp`, `Stream.cpp` and the waits the parts that keep
  state are mapped; the remainder fills in data from responses.

## Plan

Models, in this order: `DriverLife` (start, `Init`, the retries of `DriverThreadProc`, the
destructor and a write that fails, `Driver.cpp:1248`); `RemoveDevice` and `RemoveFailedNode`
in `ControllerCommands`; the watchers of `Manager`, composed with `Notifications`; `Groups`;
`WebWatcher`.

Proofs: what is left among the safety properties is `AnswersCurrent`, for which the number of
transmissions has to be bounded below the round of the ids; and `AskedBeforeLeft` with changes that
meet no retry. New modules are to be proved about as they are written.
