------------------------- MODULE SendPending_proofs -------------------------
(***************************************************************************)
(* The two locks around a wake-up queue keep its messages together, for    *)
(* any number of threads: none is lost or doubled, and the list does not   *)
(* change under the iterator of SendPending.                               *)
(***************************************************************************)
EXTENDS SendPending, SendQueue_proofs, FiniteSetTheorems

Types ==
  /\ awake \in BOOLEAN
  /\ pending \in Seq(Thread) /\ queue \in Seq(Thread)
  /\ nodeMutex \in Thread \cup {Driver, NoThread}
  /\ wakeUpMutex \in Thread \cup {Driver, NoThread}
  /\ pc \in [Thread -> ThreadSteps]
  /\ driver \in DriverSteps

\* Who is between Lock and Unlock holds the mutex.
Held ==
  /\ \A t \in Thread : pc[t] \in {"test", "wantQueue", "park"} => nodeMutex = t
  /\ \A t \in Thread : pc[t] = "park" => wakeUpMutex = t
  /\ driver = "sending" => nodeMutex = Driver
  /\ Walking => wakeUpMutex = Driver

\* The message of a thread that is done is in one list, at one position of it.
Listed ==
  /\ IsInjective(pending) /\ IsInjective(queue)
  /\ Range(pending) \cap Range(queue) = {}
  /\ Range(pending) \cup Range(queue) = { t \in Thread : pc[t] = "done" }

\* The inductive invariant.  SendPending stands on an item until it has sent it.
ListInv ==
  /\ Types /\ Held /\ Listed
  /\ driver \in {"wantNode", "sending"} => pending # << >>

-----------------------------------------------------------------------------
\* How often a thread is found in a list without repetitions.
LEMMA InList ==
  ASSUME NEW s \in Seq(Thread), IsInjective(s), NEW t
  PROVE  In(s, t) = IF t \in Range(s) THEN 1 ELSE 0
<1> DEFINE P == { i \in DOMAIN s : s[i] = t }
<1>1. CASE t \in Range(s)
  <2>1. PICK i \in DOMAIN s : s[i] = t
    BY <1>1 DEF Range
  <2>2. P = {i}
    BY <2>1 DEF IsInjective
  <2> QED BY <1>1, <2>2, FS_Singleton DEF In
<1>2. CASE t \notin Range(s)
  <2>1. P = {}
    BY <1>2 DEF Range
  <2> QED BY <1>2, <2>1, FS_EmptySet DEF In
<1> QED BY <1>1, <1>2

\* Such a list is no longer than the number of threads.
LEMMA ListFits ==
  ASSUME NEW s \in Seq(Thread), IsInjective(s)
  PROVE  Len(s) <= Cardinality(Thread)
<1>1. Len(s) \in Nat /\ DOMAIN s = 1 .. Len(s) /\ s \in [1 .. Len(s) -> Thread]
  OBVIOUS
<1>2. s \in Injection(1 .. Len(s), Thread)
  BY <1>1 DEF Injection
<1>3. Cardinality(1 .. Len(s)) <= Cardinality(Thread)
  BY <1>2, FS_Injection, SendPendingAssumption
<1>4. Cardinality(1 .. Len(s)) = Len(s)
  BY <1>1, FS_Interval
<1> QED BY <1>3, <1>4

\* The inductive invariant says that each message is in its list.
LEMMA ListedOnce == ASSUME ListInv PROVE InOneList
<1>1. Types /\ Listed
  BY DEF ListInv
<1>2. Len(pending) + Len(queue) <= Cardinality(Thread)
  <2>1. pending \o queue \in Seq(Thread) /\ IsInjective(pending \o queue)
    BY <1>1, ConcatList DEF Types, Listed
  <2>2. Len(pending \o queue) <= Cardinality(Thread)
    BY <2>1, ListFits
  <2>3. Len(pending \o queue) = Len(pending) + Len(queue)
    BY <1>1 DEF Types
  <2> QED BY <2>2, <2>3
<1>3. ASSUME NEW t \in Thread
      PROVE  In(pending, t) + In(queue, t) = IF pc[t] = "done" THEN 1 ELSE 0
  <2>1. /\ In(pending, t) = IF t \in Range(pending) THEN 1 ELSE 0
        /\ In(queue, t) = IF t \in Range(queue) THEN 1 ELSE 0
    BY <1>1, InList DEF Types, Listed
  <2>2. pc[t] = "done" <=> t \in Range(pending) \cup Range(queue)
    BY <1>1 DEF Listed
  <2>3. ~(t \in Range(pending) /\ t \in Range(queue))
    BY <1>1 DEF Listed
  <2> QED BY <2>1, <2>2, <2>3
<1> QED BY <1>1, <1>2, <1>3 DEF InOneList, TypeOK, Types
-----------------------------------------------------------------------------
\* A step of a thread that adds nothing to the lists.
LEMMA ListedStays ==
  ASSUME Listed, UNCHANGED << pending, queue >>,
         \A t \in Thread : pc'[t] = "done" <=> pc[t] = "done"
  PROVE  Listed'
BY DEF Listed

LEMMA LockNodeList == ASSUME ListInv, NEW t \in Thread, LockNode(t) PROVE ListInv'
<1> USE DEF ListInv
<1>1. Types'
  BY DEF Types, LockNode, At, ThreadSteps
<1>2. Held'
  BY SendPendingAssumption DEF Types, Held, LockNode, At, Free, Walking
<1>3. Listed'
  BY ListedStays DEF Types, LockNode, At
<1> QED BY <1>1, <1>2, <1>3 DEF LockNode

LEMMA TestAwakeList == ASSUME ListInv, NEW t \in Thread, TestAwake(t) PROVE ListInv'
<1> USE DEF ListInv
<1>1. Types'
  BY DEF Types, TestAwake, At, ThreadSteps
<1>2. Held'
  BY SendPendingAssumption DEF Types, Held, TestAwake, At, Walking
<1>3. Listed'
  BY ListedStays DEF Types, TestAwake, At
<1> QED BY <1>1, <1>2, <1>3 DEF TestAwake

LEMMA LockQueueList == ASSUME ListInv, NEW t \in Thread, LockQueue(t) PROVE ListInv'
<1> USE DEF ListInv
<1>1. Types'
  BY DEF Types, LockQueue, At, ThreadSteps
<1>2. Held'
  BY SendPendingAssumption DEF Types, Held, LockQueue, At, Free, Walking
<1>3. Listed'
  BY ListedStays DEF Types, LockQueue, At
<1> QED BY <1>1, <1>2, <1>3 DEF LockQueue

\* QueueMsg: the driver thread is not in SendPending, the thread has the mutex.
LEMMA ParkList == ASSUME ListInv, NEW t \in Thread, Park(t) PROVE ListInv'
<1> USE DEF ListInv
<1>1. /\ Append(pending, t) \in Seq(Thread)
      /\ Range(Append(pending, t)) = Range(pending) \cup {t}
      /\ IsInjective(pending) /\ t \notin Range(pending) => IsInjective(Append(pending, t))
  BY AppendItem DEF Types
<1>2. t \notin Range(pending) \cup Range(queue)
  BY DEF Listed, Park, At
<1>3. wakeUpMutex = t /\ nodeMutex = t /\ ~Walking
  BY SendPendingAssumption DEF Held, Park, At
<1>4. Types'
  BY <1>1 DEF Types, Park, At, ThreadSteps
<1>5. Held'
  BY <1>3, SendPendingAssumption DEF Types, Held, Park, At, Walking
<1>6. Listed'
  <2>1. pending' = Append(pending, t) /\ queue' = queue
    BY DEF Park
  <2>2. { u \in Thread : pc'[u] = "done" } = { u \in Thread : pc[u] = "done" } \cup {t}
    BY DEF Park, At, Types
  <2>3. Range(pending') = Range(pending) \cup {t} /\ IsInjective(pending')
    BY <1>1, <1>2, <2>1 DEF Listed
  <2> QED BY <1>2, <2>1, <2>2, <2>3 DEF Listed
<1>7. driver' \notin {"wantNode", "sending"}
  BY <1>3 DEF Park, Walking
<1> QED BY <1>4, <1>5, <1>6, <1>7

LEMMA PushList == ASSUME ListInv, NEW t \in Thread, Push(t) PROVE ListInv'
<1> USE DEF ListInv
<1>1. /\ Append(queue, t) \in Seq(Thread)
      /\ Range(Append(queue, t)) = Range(queue) \cup {t}
      /\ IsInjective(queue) /\ t \notin Range(queue) => IsInjective(Append(queue, t))
  BY AppendItem DEF Types
<1>2. t \notin Range(pending) \cup Range(queue)
  BY DEF Listed, Push, At
<1>3. Types'
  BY <1>1 DEF Types, Push, At, ThreadSteps
<1>4. Held'
  BY SendPendingAssumption DEF Types, Held, Push, At, Walking
<1>5. Listed'
  <2>1. queue' = Append(queue, t) /\ pending' = pending
    BY DEF Push
  <2>2. { u \in Thread : pc'[u] = "done" } = { u \in Thread : pc[u] = "done" } \cup {t}
    BY DEF Push, At, Types
  <2>3. Range(queue') = Range(queue) \cup {t} /\ IsInjective(queue')
    BY <1>1, <1>2, <2>1 DEF Listed
  <2> QED BY <1>2, <2>1, <2>2, <2>3 DEF Listed
<1> QED BY <1>3, <1>4, <1>5 DEF Push
-----------------------------------------------------------------------------
\* The steps of the driver thread that move no message.
LEMMA DriverList ==
  ASSUME ListInv,
         SetAwake \/ LockPending \/ NextPending \/ DriverLockNode \/ EndPending \/ FallAsleep
  PROVE  ListInv'
<1> USE DEF ListInv
<1>1. Types'
  BY DEF Types, SetAwake, LockPending, NextPending, DriverLockNode, EndPending, FallAsleep,
         DriverAt, DriverSteps
<1>2. Held'
  BY SendPendingAssumption DEF Types, Held, Walking, Free, SetAwake, LockPending, NextPending,
         DriverLockNode, EndPending, FallAsleep, DriverAt
<1>3. Listed'
  BY ListedStays DEF SetAwake, LockPending, NextPending, DriverLockNode, EndPending, FallAsleep
<1>4. driver' \in {"wantNode", "sending"} => pending' # << >>
  BY DEF SetAwake, LockPending, NextPending, DriverLockNode, EndPending, FallAsleep, DriverAt
<1> QED BY <1>1, <1>2, <1>3, <1>4

\* SendPending pushes the front and erases it; no thread can park meanwhile.
LEMMA DriverPushList == ASSUME ListInv, DriverPush PROVE ListInv'
<1> USE DEF ListInv
<1>1. pending # << >> /\ driver = "sending" /\ nodeMutex = Driver /\ driver' = "loop"
  BY DEF DriverPush, DriverAt, Held
<1>2. /\ Head(pending) \in Thread /\ Tail(pending) \in Seq(Thread)
      /\ Range(pending) = {Head(pending)} \cup Range(Tail(pending))
      /\ IsInjective(Tail(pending)) /\ Head(pending) \notin Range(Tail(pending))
  BY <1>1, TailList DEF Types, Listed
<1>3. PICK t \in Thread : t = Head(pending)
  BY <1>2
<1>4. /\ Append(queue, t) \in Seq(Thread)
      /\ Range(Append(queue, t)) = Range(queue) \cup {t}
      /\ IsInjective(queue) /\ t \notin Range(queue) => IsInjective(Append(queue, t))
  BY AppendItem DEF Types
<1>5. PICK rest : rest = Tail(pending)
  OBVIOUS
<1>6. queue' = Append(queue, t) /\ pending' = rest /\ UNCHANGED pc
  BY <1>3, <1>5 DEF DriverPush
<1>7. Range(pending) = {t} \cup Range(rest) /\ IsInjective(rest) /\ t \notin Range(rest)
      /\ rest \in Seq(Thread)
  BY <1>2, <1>3, <1>5
<1>8. Types'
  BY <1>4, <1>6, <1>7 DEF Types, DriverPush, DriverAt, DriverSteps
<1>9. Held'
  BY <1>1, SendPendingAssumption DEF Types, Held, Walking, DriverPush
<1>10. Listed'
  <2>1. Range(queue') = Range(queue) \cup {t} /\ IsInjective(queue')
    BY <1>4, <1>6, <1>7 DEF Listed
  <2>2. Range(pending') = Range(rest) /\ IsInjective(pending')
    BY <1>6, <1>7
  <2> QED BY <1>6, <1>7, <2>1, <2>2 DEF Listed
<1> QED BY <1>1, <1>8, <1>9, <1>10
-----------------------------------------------------------------------------
LEMMA InitList == Init => ListInv
<1> SUFFICES ASSUME Init PROVE ListInv
  OBVIOUS
<1>1. IsInjective(<< >>) /\ Range(<< >>) = {} /\ << >> \in Seq(Thread)
  BY DEF IsInjective, Range
<1>2. Types /\ Held
  BY <1>1, SendPendingAssumption DEF Init, Types, Held, Walking, ThreadSteps, DriverSteps
<1>3. Listed
  BY <1>1 DEF Init, Listed
<1> QED BY <1>2, <1>3 DEF Init, ListInv

LEMMA NextList == ListInv /\ [Next]_vars => ListInv'
<1> SUFFICES ASSUME ListInv, [Next]_vars PROVE ListInv'
  OBVIOUS
<1>1. CASE \E t \in Thread : ThreadNext(t)
  BY <1>1, LockNodeList, TestAwakeList, LockQueueList, ParkList, PushList DEF ThreadNext
<1>2. CASE SetAwake \/ SendPendingNext \/ FallAsleep
  BY <1>2, DriverList, DriverPushList DEF SendPendingNext
<1>3. CASE UNCHANGED vars
  BY <1>3 DEF vars, ListInv, Types, Held, Listed, Walking
<1> QED BY <1>1, <1>2, <1>3 DEF Next

\* Whatever the number of threads and the moment the node wakes up, a message given to
\* SendMsg is in one list when the call is over: none is lost or sent twice.
THEOREM InOneListCorrect == Spec => []InOneList
<1>1. Spec => []ListInv
  BY InitList, NextList, PTL DEF Spec
<1> QED BY <1>1, ListedOnce, PTL

\* No thread changes the list while SendPending iterates over it.
THEOREM ListStableCorrect == Spec => ListStable
<1>1. Spec => []ListInv
  BY InitList, NextList, PTL DEF Spec
<1> DEFINE Stable == Walking => \/ pending' = pending
                                \/ pending # << >> /\ pending' = Tail(pending)
<1>2. ListInv /\ [Next]_vars => [Stable]_vars
  <2> SUFFICES ASSUME ListInv, Next PROVE Stable
    BY DEF Stable
  <2>1. ASSUME NEW t \in Thread, Park(t) PROVE ~Walking
    BY <2>1, SendPendingAssumption DEF ListInv, Held, Park, At
  <2>2. CASE DriverPush
    BY <2>2 DEF ListInv, DriverPush, DriverAt
  <2>3. ASSUME NEW t \in Thread, ThreadNext(t) PROVE pending' = pending \/ ~Walking
    BY <2>1, <2>3 DEF ThreadNext, LockNode, TestAwake, LockQueue, Push
  <2>4. CASE SetAwake \/ LockPending \/ NextPending \/ DriverLockNode \/ EndPending \/ FallAsleep
    BY <2>4 DEF SetAwake, LockPending, NextPending, DriverLockNode, EndPending, FallAsleep
  <2> QED BY <2>2, <2>3, <2>4 DEF Next, SendPendingNext, Stable
<1> QED BY <1>1, <1>2, PTL DEF Spec, ListStable
=============================================================================
