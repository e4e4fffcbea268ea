--------------------------- MODULE Notifications ---------------------------
(***************************************************************************)
(* QueueNotification and NotifyWatchers: the list of notifications and the *)
(* event that wakes the driver thread to hand them to the watchers.  There *)
(* is no mutex: any thread of the application may queue a notification     *)
(* (EnablePoll, CancelControllerCommand...) while the driver thread empties*)
(* the list.  Each operation on the list is taken as one step, although    *)
(* std::list makes no such promise.                                        *)
(***************************************************************************)
EXTENDS Naturals, Sequences, FiniteSets

CONSTANTS
  Note,       \* the notifications
  Thread,     \* application threads
  NoNote

ASSUME NotificationsAssumption == NoNote \notin Note

VARIABLES
  notifications,   \* m_notifications
  event,           \* m_notificationsEvent
  posting,         \* what each thread has put on the list without setting the event yet
  driver,          \* where the driver thread is
  fresh,           \* notifications not made yet
  delivered        \* those the watchers were told of, in that order

vars == << notifications, event, posting, driver, fresh, delivered >>

TypeOK ==
  /\ notifications \in Seq(Note) /\ delivered \in Seq(Note)
  /\ Len(notifications) + Len(delivered) + Cardinality(fresh) = Cardinality(Note)
  /\ event \in BOOLEAN
  /\ posting \in [Thread -> Note \cup {NoNote}]
  /\ driver \in {"idle", "emptying", "reset"}
  /\ fresh \subseteq Note

Init ==
  /\ notifications = << >> /\ delivered = << >>
  /\ event = FALSE
  /\ posting = [t \in Thread |-> NoNote]
  /\ driver = "idle"
  /\ fresh = Note
-----------------------------------------------------------------------------
Append1(n) ==
  /\ n \in fresh
  /\ fresh' = fresh \ {n}
  /\ notifications' = Append(notifications, n)

\* QueueNotification on the driver thread: in a handler, or called by a watcher.
DriverQueues(n) ==
  /\ driver \in {"idle", "emptying"}
  /\ Append1(n)
  /\ event' = TRUE
  /\ UNCHANGED << posting, driver, delivered >>

\* QueueNotification on another thread: push_back, then Set.
PushBack(t, n) ==
  /\ posting[t] = NoNote
  /\ Append1(n)
  /\ posting' = [posting EXCEPT ![t] = n]
  /\ UNCHANGED << event, driver, delivered >>

SetEvent(t) ==
  /\ posting[t] # NoNote
  /\ event' = TRUE
  /\ posting' = [posting EXCEPT ![t] = NoNote]
  /\ UNCHANGED << notifications, driver, fresh, delivered >>

\* Wait::Multiple returns the notifications event: NotifyWatchers is called.
Enter ==
  /\ driver = "idle" /\ event
  /\ driver' = "emptying"
  /\ UNCHANGED << notifications, event, posting, fresh, delivered >>

\* Mutant: what was delivered is not taken off the list.
DeliverAgain ==
  /\ driver = "emptying" /\ notifications # << >>
  /\ delivered' = Append(delivered, Head(notifications))
  /\ UNCHANGED << notifications, event, posting, driver, fresh >>

Deliver ==
  /\ driver = "emptying" /\ notifications # << >>
  /\ notifications' = Tail(notifications)
  /\ delivered' = Append(delivered, Head(notifications))
  /\ UNCHANGED << event, posting, driver, fresh >>

\* Mutant: the loop ends whatever is left.
FoundEnough ==
  /\ driver = "emptying"
  /\ driver' = "reset"
  /\ UNCHANGED << notifications, event, posting, fresh, delivered >>

\* The loop condition saw an empty list...
FoundEmpty ==
  /\ driver = "emptying" /\ notifications = << >>
  /\ driver' = "reset"
  /\ UNCHANGED << notifications, event, posting, fresh, delivered >>

\* ... and the event is reset, whatever was queued since.
ResetEvent ==
  /\ driver = "reset"
  /\ event' = FALSE
  /\ driver' = "idle"
  /\ UNCHANGED << notifications, posting, fresh, delivered >>
-----------------------------------------------------------------------------
NotifyWatchers == Enter \/ Deliver \/ FoundEmpty \/ ResetEvent

Next ==
  \/ \E n \in Note : DriverQueues(n) \/ \E t \in Thread : PushBack(t, n)
  \/ \E t \in Thread : SetEvent(t)
  \/ NotifyWatchers

Spec == Init /\ [][Next]_vars

\* The driver thread keeps running and a thread inside QueueNotification leaves it.
FairSpec ==
  /\ Spec
  /\ WF_vars(NotifyWatchers)
  /\ \A t \in Thread : WF_vars(SetEvent(t))
-----------------------------------------------------------------------------
Told == { delivered[i] : i \in DOMAIN delivered }
Waiting == { notifications[i] : i \in DOMAIN notifications }

\* What is on the list when the driver thread finds the event set is delivered, with
\* whatever other threads add and set meanwhile.
SignalledIsDelivered ==
  \A n \in Note : driver = "idle" /\ event /\ n \in Waiting ~> n \in Told

\* Driver.cpp:5906: QueueNotification adds a notification "to the queue to be sent at
\* a later, safe time": every notification reaches the watchers.
Delivered == \A n \in Note : n \notin fresh ~> n \in Told
=============================================================================
