---------------------------- MODULE SendPending ----------------------------
(***************************************************************************)
(* The locks around the wake-up queue of one sleeping node.  Threads call  *)
(* Driver::SendMsg, which holds the node mutex while it tests IsAwake and  *)
(* while QueueMsg takes the mutex of the wake-up queue.  The driver thread *)
(* learns that the node is awake and runs SendPending, which holds the     *)
(* mutex of the wake-up queue while SendMsg takes the node mutex.          *)
(***************************************************************************)
EXTENDS Naturals, Sequences, FiniteSets

CONSTANTS
  Thread,      \* the threads that call SendMsg, one message each
  NoThread     \* holder of a free mutex

Driver == "driver"

ASSUME SendPendingAssumption ==
  /\ IsFiniteSet(Thread)
  /\ Driver \notin Thread /\ NoThread \notin Thread \cup {Driver}

VARIABLES
  awake,        \* m_awake, written by the driver thread only and without a lock
  pending,      \* m_pendingQueue; a message is named after its sender
  queue,        \* the send queues of the driver, taken as one
  nodeMutex,    \* holder of Driver::m_nodeMutex
  wakeUpMutex,  \* holder of WakeUp::m_mutex
  pc,           \* where each thread is in SendMsg
  driver        \* where the driver thread is

vars == << awake, pending, queue, nodeMutex, wakeUpMutex, pc, driver >>

ThreadSteps == {"start", "test", "wantQueue", "park", "push", "done"}
DriverSteps == {"idle", "wantQueue", "loop", "wantNode", "sending"}

Free(mutex) == mutex = NoThread

TypeOK ==
  /\ awake \in BOOLEAN
  /\ pending \in Seq(Thread) /\ queue \in Seq(Thread)
  /\ Len(pending) + Len(queue) <= Cardinality(Thread)
  /\ nodeMutex \in Thread \cup {Driver, NoThread}
  /\ wakeUpMutex \in Thread \cup {Driver, NoThread}
  /\ pc \in [Thread -> ThreadSteps]
  /\ driver \in DriverSteps

Init ==
  /\ awake \in BOOLEAN
  /\ pending = << >> /\ queue = << >>
  /\ nodeMutex = NoThread /\ wakeUpMutex = NoThread
  /\ pc = [t \in Thread |-> "start"]
  /\ driver = "idle"
-----------------------------------------------------------------------------
(***************************************************************************)
(* A thread in SendMsg.                                                    *)
(***************************************************************************)
At(t, from, to) == pc[t] = from /\ pc' = [pc EXCEPT ![t] = to]

LockNode(t) ==
  /\ At(t, "start", "test")
  /\ Free(nodeMutex)
  /\ nodeMutex' = t
  /\ UNCHANGED << awake, pending, queue, wakeUpMutex, driver >>

\* IsAwake; the guard lets the node mutex go before the message is pushed.
TestAwake(t) ==
  /\ \/ awake /\ At(t, "test", "push") /\ nodeMutex' = NoThread
     \/ ~awake /\ At(t, "test", "wantQueue") /\ UNCHANGED nodeMutex
  /\ UNCHANGED << awake, pending, queue, wakeUpMutex, driver >>

\* Mutant: QueueMsg does not take the mutex.
LockQueueFreely(t) ==
  /\ At(t, "wantQueue", "park")
  /\ UNCHANGED << awake, pending, queue, nodeMutex, wakeUpMutex, driver >>

LockQueue(t) ==
  /\ At(t, "wantQueue", "park")
  /\ Free(wakeUpMutex)
  /\ wakeUpMutex' = t
  /\ UNCHANGED << awake, pending, queue, nodeMutex, driver >>

\* The rest of QueueMsg, and the return from SendMsg.
Park(t) ==
  /\ At(t, "park", "done")
  /\ pending' = Append(pending, t)
  /\ wakeUpMutex' = NoThread
  /\ nodeMutex' = NoThread
  /\ UNCHANGED << awake, queue, driver >>

Push(t) ==
  /\ At(t, "push", "done")
  /\ queue' = Append(queue, t)
  /\ UNCHANGED << awake, pending, nodeMutex, wakeUpMutex, driver >>
-----------------------------------------------------------------------------
(***************************************************************************)
(* The driver thread: SetAwake(true), SendPending and, for each pending    *)
(* message, SendMsg.                                                       *)
(***************************************************************************)
DriverAt(from, to) == driver = from /\ driver' = to

SetAwake ==
  /\ DriverAt("idle", "wantQueue")
  /\ awake' = TRUE
  /\ UNCHANGED << pending, queue, nodeMutex, wakeUpMutex, pc >>

LockPending ==
  /\ DriverAt("wantQueue", "loop")
  /\ Free(wakeUpMutex)
  /\ wakeUpMutex' = Driver
  /\ UNCHANGED << awake, pending, queue, nodeMutex, pc >>

\* One more item: SendMsg is called, and waits for the node mutex.
NextPending ==
  /\ DriverAt("loop", "wantNode")
  /\ pending # << >>
  /\ UNCHANGED << awake, pending, queue, nodeMutex, wakeUpMutex, pc >>

DriverLockNode ==
  /\ DriverAt("wantNode", "sending")
  /\ Free(nodeMutex)
  /\ nodeMutex' = Driver
  /\ UNCHANGED << awake, pending, queue, wakeUpMutex, pc >>

\* Mutants: the item is not erased, or erased without being sent.
DriverPushKeeps ==
  /\ DriverAt("sending", "loop")
  /\ nodeMutex' = NoThread
  /\ queue' = Append(queue, Head(pending))
  /\ UNCHANGED << awake, pending, wakeUpMutex, pc >>
DriverPushLoses ==
  /\ DriverAt("sending", "loop")
  /\ nodeMutex' = NoThread
  /\ pending' = Tail(pending)
  /\ UNCHANGED << awake, queue, wakeUpMutex, pc >>

\* The node is awake: the message is pushed, and erased from the wake-up queue.
DriverPush ==
  /\ DriverAt("sending", "loop")
  /\ nodeMutex' = NoThread
  /\ queue' = Append(queue, Head(pending))
  /\ pending' = Tail(pending)
  /\ UNCHANGED << awake, wakeUpMutex, pc >>

EndPending ==
  /\ DriverAt("loop", "idle")
  /\ pending = << >>
  /\ wakeUpMutex' = NoThread
  /\ UNCHANGED << awake, pending, queue, nodeMutex, pc >>

\* The node was sent to sleep: HandleSendDataRequest calls SetAwake(false).
FallAsleep ==
  /\ driver = "idle" /\ awake
  /\ awake' = FALSE
  /\ UNCHANGED << pending, queue, nodeMutex, wakeUpMutex, pc, driver >>
-----------------------------------------------------------------------------
ThreadNext(t) == LockNode(t) \/ TestAwake(t) \/ LockQueue(t) \/ Park(t) \/ Push(t)

SendPendingNext == LockPending \/ NextPending \/ DriverLockNode \/ DriverPush \/ EndPending

Next == (\E t \in Thread : ThreadNext(t)) \/ SetAwake \/ SendPendingNext \/ FallAsleep

Spec == Init /\ [][Next]_vars

\* Threads run; when a node wakes up or falls asleep is not for the driver to say.
FairSpec ==
  /\ Spec
  /\ WF_vars(SendPendingNext)
  /\ \A t \in Thread : WF_vars(ThreadNext(t))
-----------------------------------------------------------------------------
In(s, t) == Cardinality({ i \in DOMAIN s : s[i] = t })

\* A message is in one list once its SendMsg is over, and in none before: QueueMsg and
\* the loop of SendPending never lose or double an item they handle at the same time.
InOneList ==
  /\ TypeOK
  /\ \A t \in Thread : In(pending, t) + In(queue, t) = IF pc[t] = "done" THEN 1 ELSE 0

Walking == driver \in {"loop", "wantNode", "sending"}

\* SendPending walks the list with an iterator: while it does, the list only loses
\* the item the iterator stands on.
ListStable ==
  [][Walking => \/ pending' = pending
                \/ pending # << >> /\ pending' = Tail(pending)]_vars

\* WakeUp.cpp:422: "The device is awake, so send all the pending messages".
PendingIsSent == driver # "idle" ~> pending = << >>
=============================================================================
