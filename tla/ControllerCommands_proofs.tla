---------------------- MODULE ControllerCommands_proofs ----------------------
(***************************************************************************)
(* The items of the controller's commands, for any calls, kinds and        *)
(* bounds: each is in one place, at most one is under way, and the event   *)
(* of the queue goes wrong in two races only.                              *)
(***************************************************************************)
EXTENDS ControllerCommands, SendQueue_proofs

\* Of an item: what is final is done.
Sound(r) == r.state \in Final => r.done

ItemsInv(it) ==
  /\ it \in [1 .. Items -> Item \cup {NoItem}]
  /\ \A i \in 1 .. Items : it[i] # NoItem => Sound(it[i])

Existing(it) == { i \in 1 .. Items : it[i] # NoItem }

\* The items that were begun and are not done.
UnderWay(it) == { i \in Existing(it) : it[i].state # "Normal" /\ ~it[i].done }

\* The item the driver thread has in its hands while it calls back.
Called == IF pc = "callback" THEN {current} ELSE {}

\* The parts of TypeOK that are not about items.
MessagesTyped ==
  /\ event \in BOOLEAN /\ awake \in BOOLEAN
  /\ commands \in Seq(Message) /\ message \in Message \cup {NoMessage}
  /\ sent \subseteq Commands
  /\ pc \in {"idle", "callback", "nothing"}
  /\ begun \subseteq Call /\ extras \in 0 .. Extras

ListsInv ==
  /\ queue \in Seq(1 .. Items) /\ IsInjective(queue)
  /\ parked \in Seq(1 .. Items) /\ IsInjective(parked)
  /\ Range(queue) \cap Range(parked) = {}

\* The current command is the one whose last callback runs, or one in the queue: the
\* front, unless it is done.
CurrentInv ==
  /\ current \in 1 .. Items \cup {NoItem}
  /\ pc = "callback" => current # NoItem /\ current \notin Range(queue) \cup Range(parked)
  /\ pc # "callback" /\ current # NoItem =>
       current \in Range(queue) /\ (item[current].done \/ current = Head(queue))

\* When the event is not set the driver thread has seen the front of the queue, and
\* that is the current command: whatever ends it sets the event.
Attended ==
  /\ pc = "nothing" => queue # << >> /\ current = Head(queue)
  /\ ~event /\ queue # << >> => pc # "callback" /\ current = Head(queue)

\* The inductive invariant.  A command that is under way is at the front of the queue:
\* otherwise a second one could be begun before it is done.
CommandInv ==
  /\ MessagesTyped /\ ListsInv /\ CurrentInv
  /\ ItemsInv(item)
  /\ Existing(item) = Range(queue) \cup Range(parked) \cup Called
  /\ UnderWay(item) \cap Range(queue) \subseteq {Head(queue)}
  /\ Attended

\* What SignalsRight says of a step.
SignalsStep ==
  /\ pc # "callback" => (InVain' => InVain)
  /\ pc # "nothing" => (Stranded' => Stranded)
-----------------------------------------------------------------------------
(* The operations. *)

LEMMA TypeParts ==
  CommandInv => /\ TypeOK /\ item \in [1 .. Items -> Item \cup {NoItem}]
                /\ Range(queue) \subseteq Existing(item) /\ Range(parked) \subseteq Existing(item)
                /\ Existing(item) \subseteq 1 .. Items
<1> SUFFICES ASSUME CommandInv
             PROVE  /\ TypeOK /\ item \in [1 .. Items -> Item \cup {NoItem}]
                    /\ Range(queue) \subseteq Existing(item) /\ Range(parked) \subseteq Existing(item)
                    /\ Existing(item) \subseteq 1 .. Items
  OBVIOUS
<1>1. /\ Range(queue) \subseteq Existing(item) /\ Range(parked) \subseteq Existing(item)
      /\ item \in [1 .. Items -> Item \cup {NoItem}]
  BY DEF CommandInv, ItemsInv
<1>2. \A i \in Range(queue) \cup Range(parked) : item[i] # NoItem
  BY <1>1 DEF Existing
<1> QED BY <1>1, <1>2 DEF CommandInv, MessagesTyped, ListsInv, CurrentInv, TypeOK, Existing

LEMMA ItemFields ==
  ASSUME NEW r \in Item
  PROVE  /\ r.call \in Call /\ r.kind \in Commands /\ r.node \in BOOLEAN /\ r.state \in ControllerState
         /\ r.changed \in BOOLEAN /\ r.done \in BOOLEAN /\ r # NoItem
BY ControllerCommandsAssumption DEF Item

LEMMA FreshThere == ASSUME Unused # {} PROVE Fresh \in 1 .. Items /\ item[Fresh] = NoItem
BY DEF Fresh, Unused

\* One item changes, into an item.
Changes(it, i, r, new) == new = [it EXCEPT ![i] = r]

LEMMA OneChanges ==
  ASSUME NEW it, ItemsInv(it), NEW i \in 1 .. Items, NEW r \in Item, Sound(r),
         NEW new, Changes(it, i, r, new)
  PROVE  /\ ItemsInv(new) /\ Existing(new) = Existing(it) \cup {i}
         /\ new[i] = r /\ \A j \in 1 .. Items \ {i} : new[j] = it[j]
         /\ UnderWay(new) \subseteq UnderWay(it) \cup {i}
         /\ i \in UnderWay(new) => r.state # "Normal" /\ ~r.done
<1>1. new \in [1 .. Items -> Item \cup {NoItem}]
  BY DEF ItemsInv, Changes
<1>2. new[i] = r /\ \A j \in 1 .. Items \ {i} : new[j] = it[j]
  BY DEF ItemsInv, Changes
<1>3. r # NoItem
  BY ItemFields
<1>4. ItemsInv(new) /\ Existing(new) = Existing(it) \cup {i}
  BY <1>1, <1>2, <1>3 DEF ItemsInv, Existing
<1>5. UnderWay(new) \subseteq UnderWay(it) \cup {i}
  BY <1>2, <1>4 DEF UnderWay, Existing
<1>6. i \in UnderWay(new) => r.state # "Normal" /\ ~r.done
  BY <1>2 DEF UnderWay
<1> QED BY <1>2, <1>4, <1>5, <1>6

\* UpdateControllerState: the command takes the new state, which ends it if it is final,
\* and then the event is set.
LEMMA UpdateSays ==
  ASSUME NEW it, ItemsInv(it), NEW i \in Existing(it), NEW s \in ControllerState
  PROVE  /\ ItemsInv(Update(it, i, s)) /\ Existing(Update(it, i, s)) = Existing(it)
         /\ Update(it, i, s)[i] \in Item /\ Update(it, i, s)[i].state = s
         /\ \A j \in 1 .. Items \ {i} : Update(it, i, s)[j] = it[j]
         /\ UnderWay(Update(it, i, s)) \subseteq UnderWay(it) \cup {i}
         /\ it[i].done \/ s \in Final => Update(it, i, s)[i].done
         /\ Update(it, i, s)[i].done => it[i].done \/ Sets(it, i, s)
<1>0. i \in 1 .. Items /\ i # NoItem /\ it[i] \in Item /\ Sound(it[i])
  BY ControllerCommandsAssumption DEF Existing, ItemsInv
<1>1. CASE it[i].state = s
  <2>1. Update(it, i, s) = it
    BY <1>0, <1>1 DEF Update
  <2> QED BY <1>0, <1>1, <2>1 DEF Sound
<1>2. CASE it[i].state # s
  <2>1. PICK r \in Item : r = [it[i] EXCEPT !.state = s, !.changed = TRUE, !.done = @ \/ s \in Final]
    BY <1>0 DEF Item
  <2>2. r.state = s /\ r.done = (it[i].done \/ s \in Final)
    BY <1>0, <2>1 DEF Item
  <2>3. Sound(r)
    BY <2>2 DEF Sound
  <2>4. PICK n : Changes(it, i, r, n)
    BY DEF Changes
  <2>5. /\ ItemsInv(n) /\ Existing(n) = Existing(it) \cup {i}
        /\ n[i] = r /\ \A j \in 1 .. Items \ {i} : n[j] = it[j]
        /\ UnderWay(n) \subseteq UnderWay(it) \cup {i}
    <3>1. ItemsInv(it) /\ i \in 1 .. Items /\ r \in Item /\ Sound(r)
      BY <1>0, <2>3
    <3> QED BY <3>1, <2>4, OneChanges
  <2>6. Update(it, i, s) = n
    BY <1>0, <1>2, <2>1, <2>4 DEF Update, ItemsInv, Changes
  <2>7. Existing(n) = Existing(it)
    BY <2>5
  <2>8. s \in Final => Sets(it, i, s)
    BY <1>0, <1>2 DEF Sets
  <2> QED BY <2>2, <2>5, <2>6, <2>7, <2>8
<1> QED BY <1>1, <1>2

LEMMA SubList == ASSUME NEW T, NEW S, NEW q \in Seq(T \cap S) PROVE q \in Seq(T)
OBVIOUS

\* WakeUp::QueueMsg for several items: the list gets no item it has not been given, and
\* none twice; the last one is on it.
LEMMA ParkSays ==
  ASSUME ListsInv, NEW it, NEW s \in Seq(1 .. Items), IsInjective(s), Range(parked) \cap Range(s) = {}
  PROVE  /\ Park(it, s) \in Seq(1 .. Items) /\ IsInjective(Park(it, s))
         /\ Range(Park(it, s)) \subseteq Range(parked) \cup Range(s)
<1> DEFINE all == parked \o s
           new == Newest(all, Compared(it))
<1>1. all \in Seq(1 .. Items) /\ Range(all) = Range(parked) \cup Range(s) /\ IsInjective(all)
  BY ConcatList DEF ListsInv
<1>2. Park(it, s) = Keep(all, new)
  BY DEF Park, QueueAll
<1> HIDE DEF all, new
<1>3. /\ Keep(all, new) \in Seq(1 .. Items \cap new)
      /\ Range(Keep(all, new)) = Range(all) \cap new
      /\ IsInjective(all) => IsInjective(Keep(all, new))
  BY <1>1, KeepList
<1>4. Keep(all, new) \in Seq(1 .. Items)
  BY <1>3, SubList
<1> QED BY <1>1, <1>2, <1>3, <1>4

LEMMA ParkOne ==
  ASSUME ListsInv, NEW it, NEW i \in 1 .. Items, i \notin Range(parked)
  PROVE  /\ Park(it, << i >>) \in Seq(1 .. Items) /\ IsInjective(Park(it, << i >>))
         /\ i \in Range(Park(it, << i >>)) /\ Range(Park(it, << i >>)) \subseteq Range(parked) \cup {i}
<1>1. << i >> \in Seq(1 .. Items) /\ DOMAIN << i >> = {1} /\ << i >>[1] = i /\ Len(<< i >>) = 1
  OBVIOUS
<1>2. IsInjective(<< i >>) /\ Range(<< i >>) = {i}
  BY <1>1 DEF IsInjective, Range
<1> DEFINE s == << i >>
           all == parked \o << i >>
<1>3. parked \in Seq(1 .. Items)
  BY DEF ListsInv
<1>4. /\ all \in Seq(1 .. Items) /\ Len(all) \in Nat /\ Len(all) \in DOMAIN all
      /\ all[Len(all)] = i /\ \A k \in DOMAIN all : ~(k > Len(all))
  BY <1>3
<1>5. Range(all) = Range(parked) \cup {i}
  <2>1. s \in Seq(1 .. Items) /\ Range(s) = {i}
    BY <1>1, <1>2
  <2> HIDE DEF s
  <2>2. Range(parked \o s) = Range(parked) \cup Range(s)
    BY <1>3, <2>1, ConcatList
  <2> QED BY <2>1, <2>2 DEF s
<1> HIDE DEF all
<1>6. i \in Newest(all, Compared(it))
  BY <1>4 DEF Newest
<1>7. i \in Range(Park(it, << i >>))
  <2> DEFINE new == Newest(all, Compared(it))
  <2> HIDE DEF new
  <2>1. Range(Keep(all, new)) = Range(all) \cap new
    BY <1>4, KeepList
  <2>2. Park(it, << i >>) = Keep(all, new)
    BY DEF Park, QueueAll, new, all
  <2> QED BY <1>5, <1>6, <2>1, <2>2 DEF new
<1> HIDE DEF s
<1>8. s \in Seq(1 .. Items) /\ IsInjective(s) /\ Range(s) = {i} /\ s = << i >>
  BY <1>1, <1>2 DEF s
<1>9. /\ Park(it, s) \in Seq(1 .. Items) /\ IsInjective(Park(it, s))
      /\ Range(Park(it, s)) \subseteq Range(parked) \cup Range(s)
  <2>1. Range(parked) \cap Range(s) = {}
    BY <1>8
  <2> QED BY <1>8, <2>1, ParkSays
<1> QED BY <1>7, <1>8, <1>9

\* Items are deleted.
LEMMA DeleteSays ==
  ASSUME NEW it, ItemsInv(it), NEW D
  PROVE  /\ ItemsInv(Delete(it, D)) /\ Existing(Delete(it, D)) = Existing(it) \ D
         /\ \A j \in 1 .. Items \ D : Delete(it, D)[j] = it[j]
         /\ UnderWay(Delete(it, D)) = UnderWay(it) \ D
<1>1. Delete(it, D) \in [1 .. Items -> Item \cup {NoItem}]
  BY DEF Delete, ItemsInv
<1>2. \A j \in 1 .. Items : Delete(it, D)[j] = IF j \in D THEN NoItem ELSE it[j]
  BY DEF Delete
<1> HIDE DEF Delete
<1>3. ItemsInv(Delete(it, D))
  BY <1>1, <1>2 DEF ItemsInv
<1>4. Existing(Delete(it, D)) = Existing(it) \ D
  BY <1>2 DEF Existing
<1>5. UnderWay(Delete(it, D)) = UnderWay(it) \ D
  BY <1>2, <1>4 DEF UnderWay, Existing
<1> QED BY <1>2, <1>3, <1>4, <1>5

\* The queue without some of its items: what was in front stays there unless it is one.
LEMMA QueueKept ==
  ASSUME ListsInv, NEW S
  PROVE  /\ Keep(queue, S) \in Seq(1 .. Items) /\ IsInjective(Keep(queue, S))
         /\ Range(Keep(queue, S)) = Range(queue) \cap S
         /\ queue # << >> /\ Head(queue) \in S =>
              Keep(queue, S) # << >> /\ Head(Keep(queue, S)) = Head(queue)
<1>1. /\ Keep(queue, S) \in Seq(1 .. Items \cap S)
      /\ Range(Keep(queue, S)) = Range(queue) \cap S
      /\ IsInjective(queue) => IsInjective(Keep(queue, S))
  BY KeepList DEF ListsInv
<1>2. queue # << >> /\ Head(queue) \in S =>
        Keep(queue, S) # << >> /\ Head(Keep(queue, S)) = Head(queue)
  BY HeadKept DEF ListsInv
<1>3. Keep(queue, S) \in Seq(1 .. Items)
  BY <1>1, SubList
<1> QED BY <1>1, <1>2, <1>3 DEF ListsInv

LEMMA EmptyRange == ASSUME NEW T, NEW q \in Seq(T) PROVE (q = << >> <=> Range(q) = {})
<1>1. CASE q = << >>
  BY <1>1 DEF Range
<1>2. CASE q # << >>
  <2>1. Head(q) \in Range(q)
    BY <1>2, TailList
  <2> QED BY <1>2, <2>1
<1> QED BY <1>1, <1>2
-----------------------------------------------------------------------------
(* The messages. *)

LEMMA AppendMessage ==
  ASSUME MessagesTyped, NEW m \in Message PROVE Append(commands, m) \in Seq(Message)
BY DEF MessagesTyped

LEMMA KeepMessages == ASSUME MessagesTyped, NEW S PROVE Keep(commands, S) \in Seq(Message)
<1>1. Keep(commands, S) \in Seq(Message \cap S)
  BY KeepList DEF MessagesTyped
<1> QED BY <1>1, SubList

LEMMA AfterType ==
  ASSUME MessagesTyped, NEW k PROVE After(k) \subseteq Message \cup {NoMessage}
BY DEF After, MessagesTyped

LEMMA StopType == Stop \in Message
BY DEF Stop, Message, Commands, AddDevice

\* What the steps of the driver thread do to the messages.
LEMMA ThreadTyped == ASSUME CommandInv, Thread PROVE MessagesTyped'
<1>0. MessagesTyped /\ \A i \in Existing(item) : item[i] \in Item
  BY DEF CommandInv, ItemsInv, Existing
<1>1. CASE Retire \/ EndRetire \/ Tell \/ NothingToDo \/ ResetEvent
  BY <1>0, <1>1 DEF MessagesTyped, Retire, EndRetire, Tell, NothingToDo, ResetEvent, messageVars,
     nodeVars, boundVars
<1>2. CASE Start
  <2>1. Head(queue) \in Existing(item)
    <3>1. queue # << >> /\ queue \in Seq(1 .. Items)
      BY <1>2 DEF Start, Look, CommandInv, ListsInv
    <3> QED BY <3>1, TailList, TypeParts
  <2>2. PICK k \in Commands : k = item[Head(queue)].kind
    BY <1>0, <2>1, ItemFields
  <2>3. \/ UNCHANGED commands
        \/ commands' = Append(commands, [of |-> k, stop |-> FALSE, node |-> k # AddDevice])
    BY <1>2, <2>2 DEF Start
  <2>4. [of |-> k, stop |-> FALSE, node |-> k # AddDevice] \in Message
    BY DEF Message
  <2>5. commands' \in Seq(Message)
    BY <1>0, <2>3, <2>4, AppendMessage DEF MessagesTyped
  <2>6. event' \in BOOLEAN
    BY <1>0, <1>2 DEF Start, SendAsleep, MessagesTyped
  <2> QED BY <1>0, <1>2, <2>5, <2>6 DEF Start, MessagesTyped, boundVars
<1>3. CASE SendMessage
  <2>1. Head(commands) \in Message /\ Tail(commands) \in Seq(Message)
    BY <1>0, <1>3, TailList DEF SendMessage, MessagesTyped
  <2> QED BY <1>0, <1>3, <2>1 DEF SendMessage, MessagesTyped, queueVars, nodeVars, boundVars
<1> QED BY <1>1, <1>2, <1>3 DEF Thread

LEMMA MoveTyped ==
  ASSUME MessagesTyped, NEW s, MoveMessages(s), UNCHANGED << sent, pc, boundVars >>
  PROVE  MessagesTyped'
<1>1. commands' \in Seq(Message) /\ message' = NoMessage /\ awake' = FALSE
  BY KeepMessages DEF MoveMessages
<1>2. event' = (event /\ queue' # << >>) \/ event' = TRUE
  BY DEF MoveMessages
<1> QED BY <1>1, <1>2 DEF MessagesTyped, boundVars

LEMMA ReportsTyped ==
  ASSUME MessagesTyped, \/ Outcome \/ \E k \in Commands : Progress(k)
                        \/ Adding \/ ProtocolDone \/ AddDone \/ AddFailed \/ AssignFailed
  PROVE  MessagesTyped'
<1>1. CASE TestFailed \/ AssignFailed
  BY <1>1, MoveTyped DEF TestFailed, AssignFailed
<1>2. CASE Dropped \/ Acknowledged \/ Adding
  BY <1>2 DEF Dropped, Acknowledged, Adding, MessagesTyped, Sets, queueVars, nodeVars, messageVars,
     boundVars
<1>3. ASSUME NEW k, Progress(k) PROVE MessagesTyped'
  <2>1. message' \in After(k) /\ event' \in BOOLEAN
    BY <1>3 DEF Progress, Report, MessagesTyped, Sets
  <2> QED BY <1>3, <2>1, AfterType DEF Progress, MessagesTyped, nodeVars, boundVars
<1>4. CASE ProtocolDone
  <2>1. commands' \in Seq(Message) /\ message' \in Message \cup {NoMessage}
    BY <1>4, AppendMessage, StopType, AfterType DEF ProtocolDone
  <2>2. extras' \in 0 .. Extras
    BY <1>4, ControllerCommandsAssumption DEF ProtocolDone, MessagesTyped
  <2> QED BY <1>4, <2>1, <2>2 DEF ProtocolDone, MessagesTyped, queueVars, nodeVars
<1>5. CASE AddFailed
  <2>1. commands' \in Seq(Message)
    BY <1>5, AppendMessage, StopType DEF AddFailed, MessagesTyped
  <2>2. extras' \in 0 .. Extras
    BY <1>5, ControllerCommandsAssumption DEF AddFailed, MessagesTyped
  <2> QED BY <1>5, <2>1, <2>2 DEF AddFailed, MessagesTyped, nodeVars, Sets
<1>6. CASE AddDone
  <2>1. commands' \in Seq(Message)
    BY <1>6, KeepMessages DEF AddDone, MessagesTyped
  <2>2. message' \in Message \cup {NoMessage}
    BY <1>6, AfterType DEF AddDone
  <2>3. event' \in BOOLEAN /\ awake' \in BOOLEAN
    BY <1>6 DEF AddDone, Sets, MessagesTyped
  <2> QED BY <1>6, <2>1, <2>2, <2>3 DEF AddDone, MessagesTyped, boundVars
<1> QED BY <1>1, <1>2, <1>3, <1>4, <1>5, <1>6 DEF Outcome

LEMMA CallsTyped ==
  ASSUME MessagesTyped, (\E c \in Call : Begin(c)) \/ Cancel \/ TestNode \/ WakesUp \/ FallsAsleep
  PROVE  MessagesTyped'
<1>1. CASE (\E c \in Call : Begin(c)) \/ WakesUp \/ FallsAsleep
  BY <1>1 DEF Begin, WakesUp, FallsAsleep, MessagesTyped, messageVars, nodeVars, queueVars, boundVars
<1>2. CASE Cancel
  <2>1. commands' \in Seq(Message)
    BY <1>2, AppendMessage, StopType DEF Cancel
  <2>2. extras' \in 0 .. Extras
    BY <1>2, ControllerCommandsAssumption DEF Cancel, MessagesTyped
  <2> QED BY <1>2, <2>1, <2>2 DEF Cancel, MessagesTyped, nodeVars, Sets
<1>3. CASE TestNode
  <2>1. [of |-> "test", stop |-> FALSE, node |-> TRUE] \in Message
    BY DEF Message
  <2>2. commands' \in Seq(Message)
    BY <1>3, <2>1, AppendMessage DEF TestNode, MessagesTyped
  <2>3. extras' \in 0 .. Extras
    BY <1>3, ControllerCommandsAssumption DEF TestNode, MessagesTyped
  <2>4. event' \in BOOLEAN
    BY <1>3 DEF TestNode, SendAsleep, Sets, MessagesTyped
  <2> QED BY <1>3, <2>2, <2>3, <2>4 DEF TestNode, MessagesTyped
<1> QED BY <1>1, <1>2, <1>3
-----------------------------------------------------------------------------
(* The items. *)

\* An item whose state stays what it was.
LEMMA FieldSays ==
  ASSUME NEW it, ItemsInv(it), NEW i \in Existing(it), NEW r \in Item,
         r.state = it[i].state, r.done = it[i].done, NEW new, Changes(it, i, r, new)
  PROVE  /\ ItemsInv(new) /\ Existing(new) = Existing(it) /\ UnderWay(new) = UnderWay(it)
         /\ \A j \in Existing(it) : new[j].state = it[j].state /\ new[j].done = it[j].done
<1>1. i \in 1 .. Items /\ Sound(r)
  BY DEF ItemsInv, Existing, Sound
<1>2. /\ ItemsInv(new) /\ Existing(new) = Existing(it) \cup {i}
      /\ new[i] = r /\ \A j \in 1 .. Items \ {i} : new[j] = it[j]
  BY <1>1, OneChanges
<1>3. Existing(new) = Existing(it)
  BY <1>2
<1>4. \A j \in Existing(it) : new[j].state = it[j].state /\ new[j].done = it[j].done
  BY <1>2 DEF Existing
<1>5. UnderWay(new) = UnderWay(it)
  BY <1>3, <1>4 DEF UnderWay
<1> QED BY <1>2, <1>3, <1>4, <1>5

\* A step after which the event is set, or the queue empty without it.
LEMMA QuietSays ==
  ASSUME CommandInv, event' \/ queue' = << >>, event' => queue' # << >> \/ (event /\ queue = << >>)
  PROVE  SignalsStep
BY DEF SignalsStep, InVain, Stranded

\* A step that leaves the queue alone and sets the event of what it ends.
LEMMA SignalSays ==
  ASSUME CommandInv, UNCHANGED << queue, pc >>, event => event',
         event' => event \/ current # NoItem \/ queue # << >>,
         \A h \in Range(queue) : item'[h].done => item[h].done \/ event'
  PROVE  SignalsStep
<1>1. ASSUME pc # "callback", InVain' PROVE InVain
  <2>1. queue = << >> /\ event'
    BY <1>1 DEF InVain
  <2>2. current = NoItem
    BY <1>1, <2>1, EmptyRange DEF CommandInv, CurrentInv, ListsInv
  <2> QED BY <2>1, <2>2 DEF InVain
<1>2. ASSUME Stranded' PROVE Stranded
  <2>1. pc = "idle" /\ ~event' /\ queue # << >> /\ item'[Head(queue)].done
    BY <1>2 DEF Stranded
  <2>2. Head(queue) \in Range(queue)
    BY <2>1, TailList DEF CommandInv, ListsInv
  <2> QED BY <2>1, <2>2 DEF Stranded
<1> QED BY <1>1, <1>2 DEF SignalsStep

\* A step that leaves the lists alone.
LEMMA ListsUnchanged ==
  ASSUME CommandInv, MessagesTyped', UNCHANGED << queue, parked >>,
         pc' = "callback" <=> pc = "callback", pc = "callback" => UNCHANGED current,
         ItemsInv(item)', Existing(item)' = Existing(item),
         UnderWay(item)' \cap Range(queue) \subseteq {Head(queue)},
         pc # "callback" /\ current' # NoItem =>
           current' \in Range(queue) /\ (item'[current'].done \/ current' = Head(queue)),
         Attended'
  PROVE  CommandInv'
<1>1. ListsInv' /\ Called' = Called
  BY DEF CommandInv, ListsInv, Called
<1>2. CurrentInv'
  BY TypeParts DEF CommandInv, CurrentInv
<1>3. /\ Existing(item)' = Range(queue)' \cup Range(parked)' \cup Called'
      /\ (UnderWay(item) \cap Range(queue))' \subseteq {Head(queue)}'
  BY <1>1 DEF CommandInv
<1> QED BY <1>1, <1>2, <1>3 DEF CommandInv

\* The current command exists, and while no callback runs it is in the queue.
LEMMA CurrentExists ==
  ASSUME CommandInv, current # NoItem
  PROVE  /\ current \in Existing(item) /\ current \in 1 .. Items /\ current \notin Range(parked)
         /\ item[current] \in Item /\ Sound(item[current])
         /\ IF pc = "callback" THEN current \notin Range(queue)
            ELSE /\ current \in Range(queue) /\ queue # << >>
                 /\ item[current].done \/ current = Head(queue)
<1>1. CASE pc = "callback"
  <2>1. current \notin Range(queue) \cup Range(parked) /\ current \in Existing(item)
    BY <1>1 DEF CommandInv, CurrentInv, Called
  <2> QED BY <1>1, <2>1 DEF CommandInv, ItemsInv, Existing
<1>2. CASE pc # "callback"
  <2>1. current \in Range(queue) /\ (item[current].done \/ current = Head(queue))
    BY <1>2 DEF CommandInv, CurrentInv
  <2>2. current \in Existing(item) /\ current \in 1 .. Items
    BY <2>1, TypeParts
  <2>3. queue # << >>
    BY <2>1, EmptyRange DEF CommandInv, ListsInv
  <2> QED BY <1>2, <2>1, <2>2, <2>3 DEF CommandInv, ListsInv, ItemsInv, Existing
<1> QED BY <1>1, <1>2

\* UpdateControllerState for the current command, if there is one.
LEMMA UpdateKeeps ==
  ASSUME CommandInv, MessagesTyped', UNCHANGED << queue, parked, current, pc >>,
         NEW s \in ControllerState, NEW it, ItemsInv(it),
         Existing(it) = Existing(item), UnderWay(it) = UnderWay(item),
         \A i \in Existing(item) : it[i].done = item[i].done,
         item' = Update(it, current, s), event' = (event \/ Sets(it, current, s))
  PROVE  CommandInv' /\ SignalsStep
<1>1. CASE current = NoItem
  <2>1. item' = it /\ event' = event
    BY <1>1 DEF Update, Sets, CommandInv, MessagesTyped
  <2>2. Attended' /\ pc # "callback"
    BY <1>1, <2>1 DEF Attended, CommandInv, CurrentInv
  <2>3. CommandInv'
    BY <1>1, <2>1, <2>2, ListsUnchanged DEF CommandInv
  <2>4. \A h \in Range(queue) : item'[h].done => item[h].done
    BY <2>1, TypeParts
  <2> QED BY <2>1, <2>3, <2>4, SignalSays
<1>2. CASE current # NoItem
  <2>1. /\ current \in Existing(it)
        /\ IF pc = "callback" THEN current \notin Range(queue)
           ELSE /\ current \in Range(queue) /\ queue # << >>
                /\ it[current].done \/ current = Head(queue)
    BY <1>2, CurrentExists
  <2>2. PICK i \in Existing(it) : i = current
    BY <2>1
  <2>3. /\ ItemsInv(Update(it, i, s)) /\ Existing(Update(it, i, s)) = Existing(it)
        /\ \A j \in 1 .. Items \ {i} : Update(it, i, s)[j] = it[j]
        /\ UnderWay(Update(it, i, s)) \subseteq UnderWay(it) \cup {i}
        /\ it[i].done => Update(it, i, s)[i].done
        /\ Update(it, i, s)[i].done => it[i].done \/ Sets(it, i, s)
    BY <2>2, UpdateSays
  <2>4. /\ ItemsInv(item)' /\ Existing(item)' = Existing(item)
        /\ UnderWay(item)' \subseteq UnderWay(item) \cup {current}
        /\ \A j \in 1 .. Items \ {current} : item'[j] = it[j]
        /\ it[current].done => item'[current].done
        /\ item'[current].done => it[current].done \/ event'
    BY <2>2, <2>3
  <2>5. UnderWay(item)' \cap Range(queue) \subseteq {Head(queue)}
    BY <2>1, <2>4 DEF CommandInv, UnderWay
  <2>6. event => event'
    OBVIOUS
  <2>7. Attended'
    BY <2>6 DEF CommandInv, Attended, MessagesTyped
  <2>8. pc # "callback" => /\ current \in Range(queue)
                           /\ item'[current].done \/ current = Head(queue)
    BY <2>1, <2>4
  <2>9. CommandInv'
    BY <2>4, <2>5, <2>7, <2>8, ListsUnchanged
  <2>10. \A h \in Range(queue) : item'[h].done => item[h].done \/ event'
    BY <2>4, TypeParts
  <2> QED BY <1>2, <2>6, <2>9, <2>10, SignalSays
<1> QED BY <1>1, <1>2

\* A step that leaves the lists, the items and the event alone.
LEMMA SameKeeps ==
  ASSUME CommandInv, MessagesTyped', UNCHANGED << item, queue, event, current, parked, pc >>
  PROVE  CommandInv' /\ SignalsStep
<1>1. Attended'
  BY DEF CommandInv, Attended
<1>2. CommandInv'
  BY <1>1, ListsUnchanged DEF CommandInv, CurrentInv
<1> QED BY <1>2, SignalSays

LEMMA FrontThere ==
  ASSUME CommandInv, Look
  PROVE  /\ queue # << >> /\ Head(queue) \in Range(queue) /\ Head(queue) \in Existing(item)
         /\ Head(queue) \in 1 .. Items /\ item[Head(queue)] \in Item /\ Sound(item[Head(queue)])
<1>1. queue # << >> /\ queue \in Seq(1 .. Items)
  BY DEF Look, CommandInv, ListsInv
<1>2. Head(queue) \in Range(queue) /\ Head(queue) \in 1 .. Items
  BY <1>1, TailList
<1>3. Head(queue) \in Existing(item)
  BY <1>2, TypeParts
<1> QED BY <1>1, <1>2, <1>3 DEF CommandInv, ItemsInv, Existing

LEMMA RetireKeeps == ASSUME CommandInv, MessagesTyped', Retire PROVE CommandInv' /\ SignalsStep
<1> DEFINE i == Head(queue)
<1>1. /\ queue # << >> /\ i \in Range(queue) /\ i \in Existing(item) /\ i \in 1 .. Items
      /\ item[i].done
  BY FrontThere DEF Retire
<1>2. /\ current' = i /\ queue' = Tail(queue) /\ pc = "idle" /\ pc' = "callback"
      /\ event' = (Tail(queue) # << >>) /\ UNCHANGED << item, parked >>
  BY DEF Retire, Look, nodeVars
<1>3. /\ Tail(queue) \in Seq(1 .. Items) /\ Range(queue) = {i} \cup Range(Tail(queue))
      /\ IsInjective(Tail(queue)) /\ i \notin Range(Tail(queue))
  BY <1>1, TailList DEF CommandInv, ListsInv
<1> HIDE DEF i
<1>4. ListsInv'
  BY <1>2, <1>3 DEF CommandInv, ListsInv
<1>5. CurrentInv'
  <2>1. i # NoItem /\ i \notin Range(parked)
    BY <1>1, ControllerCommandsAssumption DEF CommandInv, ListsInv
  <2> QED BY <1>1, <1>2, <1>3, <2>1 DEF CurrentInv
<1>6. Existing(item)' = Range(queue)' \cup Range(parked)' \cup Called'
  BY <1>2, <1>3 DEF CommandInv, Called
<1>7. UnderWay(item)' \cap Range(queue)' = {}
  <2>1. i \notin UnderWay(item) /\ UnderWay(item) \cap Range(queue) \subseteq {i}
    BY <1>1 DEF UnderWay, CommandInv, i
  <2> QED BY <1>2, <1>3, <2>1
<1>8. Attended'
  BY <1>2 DEF Attended
<1>9. SignalsStep
  BY <1>2 DEF SignalsStep, InVain, Stranded
<1> QED BY <1>2, <1>4, <1>5, <1>6, <1>7, <1>8, <1>9 DEF CommandInv

LEMMA EndRetireKeeps ==
  ASSUME CommandInv, MessagesTyped', EndRetire PROVE CommandInv' /\ SignalsStep
<1>1. /\ pc = "callback" /\ pc' = "idle" /\ current' = NoItem /\ item' = Delete(item, {current})
      /\ UNCHANGED << queue, parked, event >>
  BY DEF EndRetire, nodeVars
<1>2. current \notin Range(queue) \cup Range(parked)
  BY <1>1 DEF CommandInv, CurrentInv
<1>3. /\ ItemsInv(item)' /\ Existing(item)' = Existing(item) \ {current}
      /\ UnderWay(item)' = UnderWay(item) \ {current}
  BY <1>1, DeleteSays DEF CommandInv
<1>4. ListsInv' /\ CurrentInv' /\ Attended'
  BY <1>1 DEF CommandInv, ListsInv, CurrentInv, Attended
<1>5. Existing(item)' = Range(queue)' \cup Range(parked)' \cup Called'
  BY <1>1, <1>2, <1>3 DEF CommandInv, Called
<1>6. (UnderWay(item) \cap Range(queue))' \subseteq {Head(queue)}'
  BY <1>1, <1>3 DEF CommandInv
<1>7. SignalsStep
  BY <1>1 DEF CommandInv, Attended, SignalsStep, Stranded
<1> QED BY <1>3, <1>4, <1>5, <1>6, <1>7 DEF CommandInv

\* SendMsg for the node while it sleeps: the command is copied to the node's list, where
\* the copy may replace an item, and ends in the queue.
LEMMA AsleepKeeps ==
  ASSUME CommandInv, MessagesTyped', UNCHANGED << queue, pc >>,
         NEW it, ItemsInv(it), Existing(it) = Existing(item),
         UnderWay(it) \cap Range(queue) \subseteq {Head(queue)},
         \A h \in Range(queue) : it[h].done => item[h].done,
         NEW i, current' = i, (pc = "idle" /\ event) \/ current = i,
         IF pc = "callback" THEN i = current ELSE i \in Range(queue), SendAsleep(it, i)
  PROVE  CommandInv' /\ SignalsStep
<1> DEFINE C == [it EXCEPT ![Fresh] = it[i]]
           D == Range(parked) \ Range(Park(C, << Fresh >>))
<1>1. /\ i \in Existing(it) /\ i \in 1 .. Items /\ it[i] \in Item /\ Sound(it[i])
      /\ i \notin Range(parked) /\ (pc # "callback" => queue # << >>)
  <2>1. CASE pc = "callback"
    <3>1. i = current /\ current # NoItem
      BY <2>1 DEF CommandInv, CurrentInv
    <3> QED BY <2>1, <3>1, CurrentExists DEF ItemsInv, Existing
  <2>2. CASE pc # "callback"
    <3>1. i \in Range(queue) /\ i \in Existing(it) /\ i \in 1 .. Items
      BY <2>2, TypeParts
    <3>2. queue # << >>
      BY <3>1, EmptyRange DEF CommandInv, ListsInv
    <3> QED BY <3>1, <3>2 DEF CommandInv, ListsInv, ItemsInv, Existing
  <2> QED BY <2>1, <2>2
<1>2. /\ Unused # {} /\ Fresh \in 1 .. Items /\ Fresh \notin Existing(item)
      /\ Fresh \notin Range(queue) /\ Fresh \notin Range(parked)
  <2>1. Unused # {}
    BY DEF SendAsleep
  <2>2. Fresh \in 1 .. Items /\ Fresh \notin Existing(item)
    BY <2>1, FreshThere DEF Existing
  <2> QED BY <2>1, <2>2, TypeParts
<1>3. PICK f \in 1 .. Items : f = Fresh
  BY <1>2
<1>4. PICK p : p = Park(C, << Fresh >>)
  OBVIOUS
<1>5. /\ p \in Seq(1 .. Items) /\ IsInjective(p) /\ f \in Range(p)
      /\ Range(p) \subseteq Range(parked) \cup {f}
  <2>1. ListsInv
    BY DEF CommandInv
  <2> HIDE DEF C
  <2> QED BY <1>2, <1>3, <1>4, <2>1, ParkOne
<1>6. PICK copy : Changes(it, f, it[i], copy) /\ copy = C
  BY <1>3 DEF Changes
<1>7. /\ item' = Update(Delete(copy, D), i, "Sleeping") /\ D = Range(parked) \ Range(p)
      /\ parked' = p /\ event' = (event \/ Sets(it, i, "Sleeping"))
  BY <1>4, <1>6 DEF SendAsleep
<1> HIDE DEF C, D
<1>8. /\ ItemsInv(copy) /\ Existing(copy) = Existing(it) \cup {f}
      /\ \A j \in 1 .. Items \ {f} : copy[j] = it[j]
      /\ UnderWay(copy) \subseteq UnderWay(it) \cup {f}
  BY <1>1, <1>6, OneChanges
<1>9. PICK kept : kept = Delete(copy, D)
  OBVIOUS
<1>10. /\ ItemsInv(kept) /\ Existing(kept) = Existing(copy) \ D
       /\ UnderWay(kept) \subseteq UnderWay(copy)
       /\ \A j \in 1 .. Items \ D : kept[j] = copy[j]
  BY <1>8, <1>9, DeleteSays
<1>11. i \in Existing(kept)
  BY <1>1, <1>7, <1>8, <1>10
<1>12. /\ ItemsInv(item)' /\ Existing(item)' = Existing(kept) /\ item'[i].done
       /\ UnderWay(item)' \subseteq UnderWay(kept)
       /\ \A j \in 1 .. Items \ {i} : item'[j] = kept[j]
       /\ kept[i].done \/ Sets(kept, i, "Sleeping")
  <2>1. "Sleeping" \in ControllerState /\ "Sleeping" \in Final
    BY DEF ControllerState, Final
  <2>2. item' = Update(kept, i, "Sleeping")
    BY <1>7, <1>9
  <2> HIDE DEF Update
  <2>3. /\ ItemsInv(Update(kept, i, "Sleeping")) /\ Existing(Update(kept, i, "Sleeping")) = Existing(kept)
        /\ Update(kept, i, "Sleeping")[i].done
        /\ UnderWay(Update(kept, i, "Sleeping")) \subseteq UnderWay(kept) \cup {i}
        /\ \A j \in 1 .. Items \ {i} : Update(kept, i, "Sleeping")[j] = kept[j]
        /\ kept[i].done \/ Sets(kept, i, "Sleeping")
    BY <1>10, <1>11, <2>1, UpdateSays
  <2>4. i \notin UnderWay(item)'
    BY <2>2, <2>3 DEF UnderWay
  <2> QED BY <2>2, <2>3, <2>4
<1>13. ListsInv'
  BY <1>2, <1>3, <1>5, <1>7 DEF CommandInv, ListsInv
<1>14. CurrentInv'
  <2>1. i # f /\ i \notin Range(p)
    BY <1>1, <1>2, <1>3, <1>5
  <2>2. pc = "callback" => i \notin Range(queue) /\ i # NoItem
    BY DEF CommandInv, CurrentInv
  <2> QED BY <1>1, <1>7, <1>12, <2>1, <2>2 DEF CurrentInv
<1>15. Existing(item)' = Range(queue)' \cup Range(parked)' \cup Called'
  <2>1. /\ Existing(item) = Range(queue) \cup Range(parked) \cup Called
        /\ Range(queue) \cap Range(parked) = {} /\ Called \cap Range(parked) = {}
    BY DEF CommandInv, ListsInv, CurrentInv, Called
  <2>2. Existing(item)' = (Range(queue) \cup Range(parked) \cup Called \cup {f}) \ (Range(parked) \ Range(p))
    BY <1>7, <1>8, <1>10, <1>12, <2>1
  <2>3. Existing(item)' = Range(queue) \cup Range(p) \cup Called
    BY <1>2, <1>3, <1>5, <2>1, <2>2
  <2>4. Called' = Called
    BY DEF Called
  <2> QED BY <1>7, <2>3, <2>4
<1>16. UnderWay(item)' \cap Range(queue)' \subseteq {Head(queue')}
  BY <1>2, <1>3, <1>8, <1>10, <1>12
<1>17. Attended'
  <2>1. event => event'
    BY <1>7
  <2>2. pc = "nothing" => i = Head(queue)
    BY <1>1, <2>1 DEF CommandInv, Attended
  <2> QED BY <2>1, <2>2 DEF CommandInv, Attended, MessagesTyped
<1>18. kept[i] = it[i] /\ \A h \in Range(queue) : kept[h] = it[h]
  <2>1. \A h \in Range(queue) \cup {i} : h \in 1 .. Items \ {f} /\ h \notin D
    <3>1. \A h \in Range(queue) : h \in 1 .. Items /\ h \notin Range(parked)
      BY TypeParts DEF CommandInv, ListsInv
    <3>2. i # f /\ f \notin Range(queue)
      BY <1>1, <1>2, <1>3
    <3> QED BY <1>1, <1>7, <3>1, <3>2
  <2> QED BY <1>8, <1>10, <2>1
<1>19. \A h \in Range(queue) : item'[h].done => item[h].done \/ event'
  <2> SUFFICES ASSUME NEW h \in Range(queue), item'[h].done PROVE item[h].done \/ event'
    OBVIOUS
  <2>1. CASE h = i
    <3>1. Sets(kept, i, "Sleeping") = Sets(it, i, "Sleeping")
      BY <1>18 DEF Sets
    <3> QED BY <1>7, <1>12, <1>18, <2>1, <3>1
  <2>2. CASE h # i
    <3>1. item'[h] = it[h]
      BY <1>12, <1>18, <2>2, TypeParts
    <3> QED BY <2>2, <3>1
  <2> QED BY <2>1, <2>2
<1>20. SignalsStep
  <2>1. event => event'
    BY <1>7
  <2>2. event' => event \/ current # NoItem
    BY <1>1, ControllerCommandsAssumption
  <2> QED BY <1>19, <2>1, <2>2, SignalSays
<1> QED BY <1>12, <1>13, <1>14, <1>15, <1>16, <1>17, <1>20 DEF CommandInv

LEMMA AppendId ==
  ASSUME NEW q \in Seq(1 .. Items), NEW f \in 1 .. Items, IsInjective(q), f \notin Range(q)
  PROVE  /\ Append(q, f) \in Seq(1 .. Items) /\ Range(Append(q, f)) = Range(q) \cup {f}
         /\ IsInjective(Append(q, f))
<1>1. PICK T : T = 1 .. Items
  OBVIOUS
<1>2. q \in Seq(T) /\ f \in T
  BY <1>1
<1>3. /\ Append(q, f) \in Seq(T) /\ Range(Append(q, f)) = Range(q) \cup {f}
      /\ IsInjective(q) /\ f \notin Range(q) => IsInjective(Append(q, f))
  BY <1>2, AppendItem, Zenon
<1> QED BY <1>1, <1>3

LEMMA NewItem ==
  ASSUME NEW c \in Call, NEW k \in Commands, NEW b \in BOOLEAN
  PROVE  New(c, k, b) \in Item /\ New(c, k, b).state = "Normal" /\ ~New(c, k, b).done /\ Sound(New(c, k, b))
<1>1. "Normal" \in ControllerState /\ "Normal" \notin Final
  BY DEF ControllerState, Final
<1> QED BY <1>1 DEF New, Item, Sound

LEMMA BeginKeeps ==
  ASSUME CommandInv, MessagesTyped', NEW c \in Call, Begin(c) PROVE CommandInv' /\ SignalsStep
<1>0. PICK k \in Commands : item' = [item EXCEPT ![Fresh] = New(c, k, k # AddDevice)]
  BY ControllerCommandsAssumption DEF Begin
<1>1. /\ Unused # {} /\ queue' = Append(queue, Fresh) /\ event' = TRUE
      /\ UNCHANGED << current, parked, pc >>
      /\ item' = [item EXCEPT ![Fresh] = New(c, k, k # AddDevice)]
  BY <1>0 DEF Begin, nodeVars
<1>2. /\ Fresh \in 1 .. Items /\ Fresh \notin Existing(item)
      /\ Fresh \notin Range(queue) /\ Fresh \notin Range(parked)
  <2>1. Fresh \in 1 .. Items /\ Fresh \notin Existing(item)
    BY <1>1, FreshThere DEF Existing
  <2> QED BY <2>1, TypeParts
<1>3. PICK f \in 1 .. Items : f = Fresh
  BY <1>2
<1>4. PICK r \in Item : r = New(c, k, k # AddDevice) /\ r.state = "Normal" /\ Sound(r)
  <2>1. PICK b \in BOOLEAN : b = (k # AddDevice)
    OBVIOUS
  <2>2. New(c, k, b) \in Item /\ New(c, k, b).state = "Normal" /\ Sound(New(c, k, b))
    BY NewItem
  <2> QED BY <2>1, <2>2
<1>5. Changes(item, f, r, item')
  BY <1>1, <1>3, <1>4 DEF Changes
<1>6. /\ ItemsInv(item)' /\ Existing(item)' = Existing(item) \cup {f}
      /\ \A j \in 1 .. Items \ {f} : item'[j] = item[j]
      /\ UnderWay(item)' \subseteq UnderWay(item) \cup {f} /\ f \notin UnderWay(item)'
  <2>1. ItemsInv(item)
    BY DEF CommandInv
  <2> QED BY <1>4, <1>5, <2>1, OneChanges
<1>7. /\ queue' \in Seq(1 .. Items) /\ IsInjective(queue') /\ Range(queue') = Range(queue) \cup {f}
      /\ queue' # << >>
      /\ queue # << >> => Head(queue') = Head(queue)
  <2>1. queue \in Seq(1 .. Items) /\ IsInjective(queue) /\ queue' = Append(queue, f) /\ f \notin Range(queue)
    BY <1>1, <1>2, <1>3 DEF CommandInv, ListsInv
  <2>2. Append(queue, f) # << >> /\ (queue # << >> => Head(Append(queue, f)) = Head(queue))
    BY <2>1
  <2>3. /\ Append(queue, f) \in Seq(1 .. Items) /\ Range(Append(queue, f)) = Range(queue) \cup {f}
        /\ IsInjective(Append(queue, f))
    BY <1>3, <2>1, AppendId
  <2> QED BY <2>1, <2>2, <2>3
<1>8. ListsInv'
  BY <1>1, <1>2, <1>3, <1>7 DEF CommandInv, ListsInv
<1>9. CurrentInv'
  <2>1. current # NoItem => current \in 1 .. Items \ {f}
    BY <1>2, <1>3, CurrentExists
  <2>2. pc # "callback" /\ current # NoItem => queue # << >>
    BY CurrentExists
  <2> QED BY <1>1, <1>2, <1>3, <1>6, <1>7, <2>1, <2>2 DEF CommandInv, CurrentInv
<1>10. Existing(item)' = Range(queue)' \cup Range(parked)' \cup Called'
  BY <1>1, <1>6, <1>7 DEF CommandInv, Called
<1>11. UnderWay(item)' \cap Range(queue)' \subseteq {Head(queue')}
  <2>1. SUFFICES ASSUME NEW h \in UnderWay(item)', h \in Range(queue') PROVE h = Head(queue')
    OBVIOUS
  <2>2. h \in UnderWay(item) /\ h \in Range(queue)
    BY <1>6, <1>7, <2>1
  <2>3. queue # << >>
    BY <2>2, EmptyRange DEF CommandInv, ListsInv
  <2> QED BY <1>7, <2>2, <2>3 DEF CommandInv
<1>12. Attended'
  BY <1>1, <1>7 DEF CommandInv, Attended
<1>13. SignalsStep
  BY <1>1, <1>7, QuietSays
<1> QED BY <1>6, <1>7, <1>8, <1>9, <1>10, <1>11, <1>12, <1>13 DEF CommandInv

LEMMA StartKeeps == ASSUME CommandInv, MessagesTyped', Start PROVE CommandInv' /\ SignalsStep
<1> DEFINE i == Head(queue)
           starting == Update(item, i, "Starting")
<1>1. /\ queue # << >> /\ i \in Range(queue) /\ i \in Existing(item) /\ i \in 1 .. Items
  BY FrontThere DEF Start
<1>2. /\ pc = "idle" /\ event /\ current' = i /\ UNCHANGED << queue, pc >>
      /\ \/ item' = Update(starting, i, "Error") /\ UNCHANGED << event, parked >>
         \/ SendAsleep(starting, i)
         \/ item' = starting /\ UNCHANGED << event, parked >>
      /\ ~item[i].done
  BY DEF Start, Look
<1>3. "Starting" \in ControllerState /\ "Error" \in ControllerState /\ "Starting" \notin Final
  BY DEF ControllerState, Final
<1>4. UnderWay(item) \cap Range(queue) \subseteq {i} /\ ItemsInv(item)
  BY DEF CommandInv
<1> HIDE DEF i, starting
<1>5. PICK it : it = starting
  OBVIOUS
<1>6. /\ ItemsInv(it) /\ Existing(it) = Existing(item)
      /\ UnderWay(it) \subseteq UnderWay(item) \cup {i}
      /\ \A j \in 1 .. Items \ {i} : it[j] = item[j]
      /\ it[i].done => item[i].done
  <2>1. ~Sets(item, i, "Starting")
    BY <1>3 DEF Sets
  <2> QED BY <1>1, <1>3, <1>4, <1>5, <2>1, UpdateSays DEF starting
<1>7. CASE SendAsleep(starting, i)
  <2>1. UnderWay(it) \cap Range(queue) \subseteq {Head(queue)}
    BY <1>4, <1>6 DEF i
  <2>2. SendAsleep(it, i) /\ current' = i /\ pc # "callback" /\ UNCHANGED << queue, pc >>
    BY <1>2, <1>5, <1>7
  <2>3. \A h \in Range(queue) : it[h].done => item[h].done
    BY <1>6, TypeParts
  <2> QED BY <1>1, <1>2, <1>6, <2>1, <2>2, <2>3, AsleepKeeps
<1>8. Attended'
  <2>1. queue' # << >> /\ current' = Head(queue') /\ (pc' # "callback" \/ event')
    BY <1>1, <1>2 DEF i
  <2> QED BY <1>2, <2>1 DEF Attended
<1>9. CASE item' = starting /\ UNCHANGED << event, parked >>
  <2>1. CommandInv'
    BY <1>1, <1>2, <1>4, <1>5, <1>6, <1>8, <1>9, ListsUnchanged DEF i
  <2> QED BY <1>1, <1>2, <1>9, <2>1, QuietSays
<1>10. CASE item' = Update(starting, i, "Error") /\ UNCHANGED << event, parked >>
  <2>1. PICK new : new = Update(it, i, "Error")
    OBVIOUS
  <2>2. /\ ItemsInv(new) /\ Existing(new) = Existing(it)
        /\ UnderWay(new) \subseteq UnderWay(it) \cup {i}
    BY <1>1, <1>3, <1>6, <2>1, UpdateSays
  <2>3. item' = new
    BY <1>5, <1>10, <2>1
  <2>4. CommandInv'
    BY <1>1, <1>2, <1>4, <1>6, <1>8, <1>10, <2>2, <2>3, ListsUnchanged DEF i
  <2> QED BY <1>1, <1>2, <1>10, <2>4, QuietSays
<1> QED BY <1>2, <1>7, <1>9, <1>10

LEMMA TellKeeps == ASSUME CommandInv, MessagesTyped', Tell PROVE CommandInv' /\ SignalsStep
<1> DEFINE i == Head(queue)
<1>1. /\ queue # << >> /\ i \in Range(queue) /\ i \in Existing(item) /\ item[i] \in Item
  BY FrontThere DEF Tell
<1>2. /\ pc = "idle" /\ current' = i /\ event
      /\ UNCHANGED << queue, event, parked, pc >>
      /\ item' = [item EXCEPT ![i].changed = item[i].call \notin WithCallback]
  BY DEF Tell, Look, Changed, nodeVars
<1> HIDE DEF i
<1>3. PICK b \in BOOLEAN : b = (item[i].call \notin WithCallback)
  OBVIOUS
<1>4. PICK r : r = [item[i] EXCEPT !.changed = b]
  OBVIOUS
<1>5. r \in Item /\ r.state = item[i].state /\ r.done = item[i].done
  BY <1>1, <1>4 DEF Item
<1>6. Changes(item, i, r, item')
  BY <1>2, <1>3, <1>4 DEF Changes
<1>7. /\ ItemsInv(item)' /\ Existing(item)' = Existing(item) /\ UnderWay(item)' = UnderWay(item)
  <2>1. ItemsInv(item)
    BY DEF CommandInv
  <2> QED BY <1>1, <1>2, <1>5, <1>6, <2>1, FieldSays
<1>8. current' = Head(queue) /\ Attended'
  BY <1>1, <1>2 DEF i, Attended
<1>9. CommandInv'
  BY <1>1, <1>2, <1>7, <1>8, ListsUnchanged DEF CommandInv
<1> QED BY <1>1, <1>2, <1>9, QuietSays

\* The other steps of the driver thread leave the items alone.
LEMMA ThreadKeeps == ASSUME CommandInv, Thread PROVE CommandInv' /\ SignalsStep
<1>0. MessagesTyped'
  BY ThreadTyped
<1>1. CASE NothingToDo
  <2>1. /\ Head(queue) \in Range(queue) /\ queue # << >> /\ event
        /\ current' = Head(queue) /\ pc = "idle" /\ pc' = "nothing"
        /\ UNCHANGED << item, queue, event, parked >>
    BY <1>1, FrontThere DEF NothingToDo, Look, nodeVars
  <2>2. Attended'
    BY <2>1 DEF Attended
  <2>3. CommandInv'
    BY <1>0, <2>1, <2>2, ListsUnchanged DEF CommandInv
  <2> QED BY <2>1, <2>3, QuietSays
<1>2. CASE ResetEvent
  <2>1. /\ pc = "nothing" /\ pc' = "idle" /\ event' = FALSE
        /\ UNCHANGED << item, queue, current, parked >>
    BY <1>2 DEF ResetEvent, nodeVars
  <2>2. Attended'
    BY <2>1 DEF CommandInv, Attended
  <2>3. CommandInv'
    BY <1>0, <2>1, <2>2, ListsUnchanged DEF CommandInv, CurrentInv
  <2> QED BY <2>1, <2>3 DEF SignalsStep, InVain
<1>3. CASE SendMessage
  BY <1>0, <1>3, SameKeeps DEF SendMessage, queueVars, nodeVars
<1> QED BY <1>0, <1>1, <1>2, <1>3, RetireKeeps, EndRetireKeeps, StartKeeps, TellKeeps DEF Thread
-----------------------------------------------------------------------------
\* UpdateControllerState for the current command as it is.
LEMMA StateKeeps ==
  ASSUME CommandInv, MessagesTyped', UNCHANGED << queue, parked, current, pc >>,
         NEW s \in {"Normal", "Waiting", "InProgress", "Completed", "Failed", "Error"},
         item' = Update(item, current, s), event' = (event \/ Sets(item, current, s))
  PROVE  CommandInv' /\ SignalsStep
<1>1. s \in ControllerState /\ ItemsInv(item)
  BY DEF ControllerState, Final, CommandInv
<1>2. \A i \in Existing(item) : item[i].done = item[i].done
  OBVIOUS
<1> QED BY <1>1, <1>2, UpdateKeeps

\* The node of the current command changes.
LEMMA NodeSays ==
  ASSUME CommandInv, current \in Existing(item), NEW b \in BOOLEAN
  PROVE  LET new == [item EXCEPT ![current].node = b]
         IN  /\ ItemsInv(new) /\ Existing(new) = Existing(item) /\ UnderWay(new) = UnderWay(item)
             /\ \A j \in Existing(item) : new[j].state = item[j].state /\ new[j].done = item[j].done
<1>1. item[current] \in Item /\ ItemsInv(item)
  BY DEF CommandInv, ItemsInv, Existing
<1>2. PICK r : r = [item[current] EXCEPT !.node = b]
  OBVIOUS
<1>3. r \in Item /\ r.state = item[current].state /\ r.done = item[current].done
  BY <1>1, <1>2 DEF Item
<1>4. PICK new : new = [item EXCEPT ![current].node = b]
  OBVIOUS
<1>5. Changes(item, current, r, new)
  BY <1>2, <1>4 DEF Changes
<1>6. /\ ItemsInv(new) /\ Existing(new) = Existing(item) /\ UnderWay(new) = UnderWay(item)
      /\ \A j \in Existing(item) : new[j].state = item[j].state /\ new[j].done = item[j].done
  BY <1>1, <1>3, <1>5, FieldSays
<1> QED BY <1>4, <1>6

\* The outcomes of a message and the reports that move nothing.
LEMMA ReportsKeep ==
  ASSUME CommandInv, MessagesTyped', \/ Dropped \/ Acknowledged \/ \E k \in Commands : Progress(k)
                                     \/ Adding \/ ProtocolDone \/ AddFailed
  PROVE  CommandInv' /\ SignalsStep
<1>1. CASE Dropped
  BY <1>1, StateKeeps DEF Dropped, nodeVars
<1>2. CASE Acknowledged \/ ProtocolDone
  BY <1>2, SameKeeps DEF Acknowledged, ProtocolDone, queueVars, nodeVars
<1>3. ASSUME NEW k \in Commands, Progress(k) PROVE CommandInv' /\ SignalsStep
  <2>1. PICK s \in {"Normal", "Waiting", "InProgress", "Completed", "Failed", "Error"} : Report(k, s)
    BY <1>3 DEF Progress
  <2> QED BY <1>3, <2>1, StateKeeps DEF Progress, Report, nodeVars
<1>4. CASE Adding
  <2>1. /\ pc = "idle" /\ pc' = "idle" /\ current # NoItem /\ item' = [item EXCEPT ![current].node = TRUE]
        /\ UNCHANGED << queue, event, current, parked >>
    BY <1>4 DEF Adding, queueVars, nodeVars
  <2>2. /\ current \in Existing(item) /\ current \in Range(queue) /\ queue # << >>
        /\ item[current].done \/ current = Head(queue)
    BY <2>1, CurrentExists
  <2>3. /\ ItemsInv(item)' /\ Existing(item)' = Existing(item) /\ UnderWay(item)' = UnderWay(item)
        /\ \A j \in Existing(item) : item'[j].done = item[j].done
    BY <2>1, <2>2, NodeSays
  <2>4. Attended'
    BY <2>1 DEF CommandInv, Attended
  <2>5. CommandInv'
    BY <2>1, <2>2, <2>3, <2>4, ListsUnchanged DEF CommandInv
  <2> QED BY <2>1, <2>3, <2>5, SignalSays, TypeParts
<1>5. CASE AddFailed
  BY <1>5, StateKeeps DEF AddFailed, nodeVars
<1> QED BY <1>1, <1>2, <1>3, <1>4, <1>5

LEMMA CancelKeeps == ASSUME CommandInv, MessagesTyped', Cancel PROVE CommandInv' /\ SignalsStep
<1>1. /\ current # NoItem /\ UNCHANGED << queue, parked, current, pc >>
      /\ item' = Update([item EXCEPT ![current].node = FALSE], current, "Cancel")
      /\ event' = (event \/ Sets(item, current, "Cancel"))
  BY DEF Cancel, nodeVars
<1>2. current \in Existing(item)
  BY <1>1, CurrentExists
<1>3. PICK it : it = [item EXCEPT ![current].node = FALSE]
  OBVIOUS
<1>4. /\ ItemsInv(it) /\ Existing(it) = Existing(item) /\ UnderWay(it) = UnderWay(item)
      /\ \A j \in Existing(item) : it[j].state = item[j].state /\ it[j].done = item[j].done
  BY <1>2, <1>3, NodeSays
<1>5. Sets(it, current, "Cancel") = Sets(item, current, "Cancel")
  BY <1>2, <1>4 DEF Sets
<1>6. "Cancel" \in ControllerState
  BY DEF ControllerState, Final
<1>7. item' = Update(it, current, "Cancel") /\ event' = (event \/ Sets(it, current, "Cancel"))
  BY <1>1, <1>3, <1>5
<1> QED BY <1>1, <1>4, <1>6, <1>7, UpdateKeeps

LEMMA TestKeeps == ASSUME CommandInv, MessagesTyped', TestNode PROVE CommandInv' /\ SignalsStep
<1>1. /\ UNCHANGED << queue, current, pc >>
      /\ \/ UNCHANGED << item, event, parked >>
         \/ current # NoItem /\ SendAsleep(item, current)
  BY DEF TestNode
<1>2. CASE UNCHANGED << item, event, parked >>
  BY <1>1, <1>2, SameKeeps
<1>3. CASE current # NoItem /\ SendAsleep(item, current)
  <2>1. pc # "callback" => current \in Range(queue)
    BY <1>1, <1>3, CurrentExists
  <2>2. ItemsInv(item) /\ UnderWay(item) \cap Range(queue) \subseteq {Head(queue)}
    BY DEF CommandInv
  <2> QED BY <1>1, <1>3, <2>1, <2>2, AsleepKeeps
<1> QED BY <1>1, <1>2, <1>3

LEMMA FallsAsleepKeeps ==
  ASSUME CommandInv, MessagesTyped', FallsAsleep PROVE CommandInv' /\ SignalsStep
BY SameKeeps DEF FallsAsleep, queueVars

LEMMA WakesUpKeeps == ASSUME CommandInv, MessagesTyped', WakesUp PROVE CommandInv' /\ SignalsStep
<1>1. /\ pc = "idle" /\ UNCHANGED << current, pc >> /\ queue' = queue \o parked /\ parked' = << >>
      /\ event' = (event \/ parked # << >>)
      /\ item' = [i \in 1 .. Items |-> IF i \in Range(parked) THEN New(item[i].call, item[i].kind, item[i].node)
                                       ELSE item[i]]
  BY DEF WakesUp
<1>2. PICK q : q = queue \o parked
  OBVIOUS
<1>3. q \in Seq(1 .. Items) /\ IsInjective(q) /\ Range(q) = Range(queue) \cup Range(parked)
  BY <1>2, ConcatList DEF CommandInv, ListsInv
<1>4. /\ queue \in Seq(1 .. Items) /\ parked \in Seq(1 .. Items)
      /\ Range(queue) \cap Range(parked) = {}
      /\ Range(queue) \subseteq Existing(item) /\ Range(parked) \subseteq Existing(item)
      /\ Existing(item) = Range(queue) \cup Range(parked) /\ Existing(item) \subseteq 1 .. Items
  BY <1>1, TypeParts DEF CommandInv, ListsInv, Called
<1>5. /\ queue # << >> => q # << >> /\ Head(q) = Head(queue)
      /\ parked # << >> => q # << >>
  BY <1>2, <1>4
<1>6. \A i \in Existing(item) : item[i] \in Item /\ New(item[i].call, item[i].kind, item[i].node) \in Item
                                /\ New(item[i].call, item[i].kind, item[i].node).state = "Normal"
                                /\ Sound(New(item[i].call, item[i].kind, item[i].node))
  <2>1. \A i \in Existing(item) : item[i] \in Item
    BY DEF CommandInv, ItemsInv, Existing
  <2> QED BY <2>1, ItemFields, NewItem
<1>7. \A i \in 1 .. Items : item'[i] = IF i \in Range(parked) THEN New(item[i].call, item[i].kind, item[i].node)
                                       ELSE item[i]
  BY <1>1
<1>8. item' \in [1 .. Items -> Item \cup {NoItem}]
  <2>1. \A i \in 1 .. Items : (IF i \in Range(parked) THEN New(item[i].call, item[i].kind, item[i].node)
                               ELSE item[i]) \in Item \cup {NoItem}
    <3>1. item \in [1 .. Items -> Item \cup {NoItem}]
      BY TypeParts
    <3> QED BY <1>4, <1>6, <3>1
  <2> QED BY <1>1, <2>1
<1>9. Existing(item)' = Existing(item)
  <2>1. \A i \in 1 .. Items : item'[i] # NoItem <=> item[i] # NoItem
    BY <1>4, <1>6, <1>7, ItemFields DEF Existing
  <2> QED BY <2>1 DEF Existing
<1>10. ItemsInv(item)'
  BY <1>4, <1>6, <1>7, <1>8 DEF ItemsInv, CommandInv
<1>11. UnderWay(item)' \subseteq UnderWay(item) /\ UnderWay(item)' \cap Range(parked) = {}
  BY <1>4, <1>6, <1>7, <1>9 DEF UnderWay
<1>12. UnderWay(item)' \cap Range(q) \subseteq {Head(q)}
  <2>1. SUFFICES ASSUME NEW h \in UnderWay(item)', h \in Range(q) PROVE h = Head(q)
    OBVIOUS
  <2>2. h \in UnderWay(item) /\ h \in Range(queue)
    BY <1>3, <1>11, <2>1
  <2>3. queue # << >>
    BY <1>4, <2>2, EmptyRange
  <2> QED BY <1>5, <2>2, <2>3 DEF CommandInv
<1>13. ListsInv'
  BY <1>1, <1>2, <1>3 DEF ListsInv, Range, IsInjective
<1>14. CurrentInv'
  <2>1. current # NoItem => /\ current \in Range(queue) /\ current \notin Range(parked)
                            /\ current \in 1 .. Items /\ queue # << >>
                            /\ item[current].done \/ current = Head(queue)
    BY <1>1, CurrentExists
  <2> QED BY <1>1, <1>2, <1>3, <1>5, <1>7, <2>1 DEF CommandInv, CurrentInv
<1>15. Existing(item)' = Range(queue)' \cup Range(parked)' \cup Called'
  <2>1. Range(<< >>) = {}
    BY DEF Range
  <2> QED BY <1>1, <1>2, <1>3, <1>4, <1>9, <2>1 DEF Called
<1>16. Attended'
  <2>1. ASSUME ~event', queue' # << >> PROVE queue # << >> /\ ~event /\ Head(queue') = Head(queue)
    <3>1. ~event /\ parked = << >>
      BY <1>1, <2>1 DEF CommandInv, MessagesTyped
    <3>2. queue # << >>
      BY <1>1, <1>4, <2>1, <3>1
    <3> QED BY <1>1, <1>2, <1>5, <3>1, <3>2
  <2> QED BY <1>1, <2>1 DEF CommandInv, Attended
<1>17. SignalsStep
  <2>1. ASSUME InVain' PROVE InVain
    <3>1. queue = << >> /\ parked = << >>
      BY <1>1, <1>2, <1>5, <2>1 DEF InVain
    <3> QED BY <1>1, <2>1, <3>1 DEF InVain, CommandInv, MessagesTyped
  <2>2. ASSUME Stranded' PROVE Stranded
    <3>1. ~event /\ parked = << >> /\ queue' # << >> /\ item'[Head(queue')].done
      BY <1>1, <2>2 DEF Stranded, CommandInv, MessagesTyped
    <3>2. queue # << >> /\ Head(queue') = Head(queue)
      BY <1>1, <1>2, <1>4, <1>5, <3>1
    <3>3. Head(queue) \in Range(queue)
      BY <1>4, <3>2, TailList
    <3>4. item'[Head(queue)] = item[Head(queue)]
      BY <1>4, <1>7, <3>3
    <3> QED BY <1>1, <3>1, <3>2, <3>4 DEF Stranded
  <2> QED BY <2>1, <2>2 DEF SignalsStep
<1> QED BY <1>1, <1>2, <1>10, <1>12, <1>13, <1>14, <1>15, <1>16, <1>17 DEF CommandInv

\* ADD_NODE_STATUS_DONE deletes items of the lists, never the current one.
LEMMA AddDoneKeeps == ASSUME CommandInv, MessagesTyped', AddDone PROVE CommandInv' /\ SignalsStep
<1> DEFINE init == current # NoItem /\ item[current].state # "Failed" /\ item[current].node
           left == IF init THEN Delete(item, Removed \cup Range(parked)) ELSE item
           q == IF init THEN Keep(queue, Range(queue) \ Removed) ELSE queue
<1>1. /\ pc = "idle" /\ UNCHANGED << current, pc >> /\ item' = Update(left, current, "Completed")
      /\ queue' = q /\ parked' = IF init THEN << >> ELSE parked
      /\ event' = ((event /\ (init => q # << >>)) \/ Sets(item, current, "Completed"))
  BY DEF AddDone
<1>2. "Completed" \in ControllerState /\ "Completed" \in Final /\ ItemsInv(item) /\ event \in BOOLEAN
  BY DEF ControllerState, Final, CommandInv, MessagesTyped
<1>3. CASE ~init
  <2>1. item' = Update(item, current, "Completed") /\ queue' = queue /\ parked' = parked
    BY <1>1, <1>3
  <2>2. event' = (event \/ Sets(item, current, "Completed"))
    BY <1>1, <1>2, <1>3
  <2> QED BY <1>1, <2>1, <2>2, StateKeeps
<1>4. CASE init
  <2>1. /\ current \in Range(queue) /\ current \in Existing(item) /\ current \in 1 .. Items
        /\ current \notin Range(parked) /\ (item[current].done \/ current = Head(queue))
    BY <1>1, <1>4, CurrentExists
  <2>2. PICK it : it = Delete(item, Removed \cup Range(parked))
    OBVIOUS
  <2>3. PICK p : p = Keep(queue, Range(queue) \ Removed)
    OBVIOUS
  <2>4. /\ ItemsInv(it) /\ Existing(it) = Existing(item) \ (Removed \cup Range(parked))
        /\ \A j \in 1 .. Items \ (Removed \cup Range(parked)) : it[j] = item[j]
        /\ UnderWay(it) \subseteq UnderWay(item)
    BY <1>2, <2>2, DeleteSays
  <2>5. /\ p \in Seq(1 .. Items) /\ IsInjective(p) /\ Range(p) = Range(queue) \ Removed
        /\ queue # << >> /\ Head(queue) \in Range(queue) \ Removed =>
             p # << >> /\ Head(p) = Head(queue)
    <3>1. ListsInv
      BY DEF CommandInv
    <3> QED BY <2>3, <3>1, QueueKept
  <2>6. current \notin Removed /\ Removed \subseteq Range(queue)
    BY DEF Removed
  <2>7. /\ item' = Update(it, current, "Completed") /\ queue' = p /\ parked' = << >>
    BY <1>1, <1>4, <2>2, <2>3
  <2>8. /\ ItemsInv(item)' /\ Existing(item)' = Existing(it) /\ UnderWay(item)' \subseteq UnderWay(it)
        /\ item'[current].done /\ (item[current].done \/ event')
        /\ \A j \in 1 .. Items \ {current} : item'[j] = it[j]
    <3>1. PICK i \in Existing(it) : i = current
      BY <2>1, <2>4, <2>6
    <3>2. /\ ItemsInv(Update(it, i, "Completed")) /\ Existing(Update(it, i, "Completed")) = Existing(it)
          /\ UnderWay(Update(it, i, "Completed")) \subseteq UnderWay(it) \cup {i}
          /\ Update(it, i, "Completed")[i].done
          /\ \A j \in 1 .. Items \ {i} : Update(it, i, "Completed")[j] = it[j]
          /\ it[i].done \/ Sets(it, i, "Completed")
      BY <1>2, <2>4, UpdateSays
    <3>3. i \notin UnderWay(Update(it, i, "Completed"))
      BY <3>2 DEF UnderWay
    <3>4. it[current] = item[current]
      BY <2>1, <2>4, <2>6
    <3>5. Sets(it, current, "Completed") = Sets(item, current, "Completed")
      BY <3>4 DEF Sets
    <3> QED BY <1>1, <2>7, <3>1, <3>2, <3>3, <3>4, <3>5
  <2>9. Range(<< >>) = {}
    BY DEF Range
  <2>10. ListsInv'
    BY <2>5, <2>7, <2>9 DEF ListsInv, IsInjective
  <2>11. CurrentInv'
    BY <1>1, <2>1, <2>5, <2>6, <2>7, <2>8 DEF CurrentInv
  <2>12. Existing(item)' = Range(queue)' \cup Range(parked)' \cup Called'
    <3>1. Existing(item) = Range(queue) \cup Range(parked) /\ Range(queue) \cap Range(parked) = {}
      BY <1>1 DEF CommandInv, ListsInv, Called
    <3> QED BY <1>1, <2>4, <2>5, <2>6, <2>7, <2>8, <2>9, <3>1 DEF Called
  <2>13. UnderWay(item)' \cap Range(p) \subseteq {Head(p)}
    <3>1. SUFFICES ASSUME NEW h \in UnderWay(item)', h \in Range(p) PROVE h = Head(p)
      OBVIOUS
    <3>2. h \in UnderWay(item) /\ h \in Range(queue) \ Removed
      BY <2>4, <2>5, <2>8, <3>1
    <3>3. queue # << >> /\ h = Head(queue)
      BY <3>2, EmptyRange DEF CommandInv, ListsInv
    <3> QED BY <2>5, <3>2, <3>3
  <2>14. queue # << >> /\ p # << >> /\ (event => event')
    BY <1>1, <1>4, <2>1, <2>3, <2>5, <2>6, EmptyRange DEF CommandInv, ListsInv
  <2>15. Attended'
    <3>1. ASSUME ~event' PROVE current = Head(p)
      <4>1. current = Head(queue)
        BY <2>14, <3>1 DEF CommandInv, Attended
      <4> QED BY <2>1, <2>5, <2>6, <2>14, <4>1
    <3> QED BY <1>1, <2>7, <2>14, <3>1 DEF Attended
  <2>16. SignalsStep
    <3>1. ASSUME Stranded' PROVE Stranded
      <4>1. ~event' /\ ~event
        BY <2>14, <3>1 DEF Stranded
      <4>2. current = Head(queue) /\ item[current].done
        BY <2>8, <2>14, <4>1 DEF CommandInv, Attended
      <4> QED BY <1>1, <2>14, <4>1, <4>2 DEF Stranded
    <3> QED BY <2>7, <2>14, <3>1 DEF SignalsStep, InVain
  <2> QED BY <2>7, <2>8, <2>10, <2>11, <2>12, <2>13, <2>15, <2>16 DEF CommandInv
<1> QED BY <1>3, <1>4

\* MoveMessagesToWakeUpQueue with no current command.
LEMMA MoveWithout ==
  ASSUME CommandInv, MessagesTyped', NEW s, MoveMessages(s), pc = "idle", pc' = "idle",
         current = NoItem
  PROVE  CommandInv' /\ SignalsStep
<1> DEFINE S == { i \in Range(queue) : item[i].node }
           T == { i \in Range(queue) : ~item[i].node }
<1>1. PICK move : move = Keep(queue, S)
  OBVIOUS
<1>2. PICK p : p = Park(item, move)
  OBVIOUS
<1>3. PICK q : q = Keep(queue, T)
  OBVIOUS
<1>4. PICK D : D = (Range(parked) \cup Range(move)) \ Range(p)
  OBVIOUS
<1>5. /\ item' = Delete(item, D) /\ queue' = q /\ parked' = p /\ event' = (event /\ q # << >>)
      /\ current' = NoItem
  BY <1>1, <1>2, <1>3, <1>4 DEF MoveMessages, WithoutNode
<1>6. ListsInv /\ ItemsInv(item) /\ S \subseteq Range(queue)
      /\ Range(queue) \cap Range(parked) = {}
      /\ Existing(item) = Range(queue) \cup Range(parked)
      /\ UnderWay(item) \cap Range(queue) \subseteq {Head(queue)} /\ queue \in Seq(1 .. Items)
  BY DEF CommandInv, ListsInv, Called
<1>7. T = Range(queue) \ S
  OBVIOUS
<1> HIDE DEF S, T
<1>8. move \in Seq(1 .. Items) /\ IsInjective(move) /\ Range(move) = S
  BY <1>1, <1>6, QueueKept
<1>9. /\ q \in Seq(1 .. Items) /\ IsInjective(q) /\ Range(q) = T
      /\ queue # << >> /\ Head(queue) \in T => q # << >> /\ Head(q) = Head(queue)
  BY <1>3, <1>6, <1>7, QueueKept
<1>10. p \in Seq(1 .. Items) /\ IsInjective(p) /\ Range(p) \subseteq Range(parked) \cup S
  BY <1>2, <1>6, <1>8, ParkSays
<1>11. /\ ItemsInv(item)' /\ Existing(item)' = Existing(item) \ D
       /\ UnderWay(item)' \subseteq UnderWay(item)
  BY <1>5, <1>6, DeleteSays
<1>12. ListsInv'
  BY <1>5, <1>6, <1>7, <1>9, <1>10 DEF ListsInv
<1>13. CurrentInv'
  BY <1>5 DEF CurrentInv
<1>14. Existing(item)' = Range(queue)' \cup Range(parked)' \cup Called'
  <2>1. Existing(item)' = T \cup Range(p)
    BY <1>4, <1>6, <1>7, <1>8, <1>10, <1>11
  <2> QED BY <1>5, <1>9, <2>1 DEF Called
<1>15. UnderWay(item)' \cap Range(q) \subseteq {Head(q)}
  <2>1. SUFFICES ASSUME NEW h \in UnderWay(item)', h \in Range(q) PROVE h = Head(q)
    OBVIOUS
  <2>2. h \in UnderWay(item) /\ h \in Range(queue) /\ h \in T
    BY <1>7, <1>9, <1>11, <2>1
  <2>3. queue # << >> /\ h = Head(queue)
    BY <1>6, <2>2, EmptyRange
  <2> QED BY <1>9, <2>2, <2>3
<1>16. queue' = << >> \/ event'
  <2>1. CASE event
    BY <1>5, <2>1
  <2>2. CASE ~event
    <3>1. queue = << >>
      BY <2>2, ControllerCommandsAssumption, TailList DEF CommandInv, Attended, ListsInv
    <3>2. Range(q) = {}
      BY <1>9, <3>1, <1>7, <1>6, EmptyRange
    <3> QED BY <1>5, <1>9, <3>2, EmptyRange
  <2> QED BY <2>1, <2>2
<1>17. Attended'
  BY <1>5, <1>16 DEF Attended
<1>18. SignalsStep
  BY <1>5, <1>16, QuietSays
<1> QED BY <1>5, <1>11, <1>12, <1>13, <1>14, <1>15, <1>17, <1>18 DEF CommandInv

\* What UpdateControllerState makes of the current command: an item that has ended.
LEMMA AsleepItem ==
  ASSUME CommandInv, pc # "callback", current # NoItem
  PROVE  LET a == Update(item, current, "Sleeping")[current]
         IN  a \in Item /\ a.state = "Sleeping" /\ a.done /\ Sound(a)
<1>1. ItemsInv(item) /\ "Sleeping" \in ControllerState /\ "Sleeping" \in Final
  BY DEF CommandInv, ControllerState, Final
<1>2. PICK i \in Existing(item) : i = current
  BY CurrentExists
<1>3. /\ Update(item, i, "Sleeping")[i] \in Item /\ Update(item, i, "Sleeping")[i].state = "Sleeping"
      /\ Update(item, i, "Sleeping")[i].done
  BY <1>1, UpdateSays
<1> QED BY <1>1, <1>2, <1>3 DEF Sound

\* The same with a current command, which ends, and whose copy becomes the current one.
LEMMA MoveWith ==
  ASSUME CommandInv, MessagesTyped', NEW s \in {"none", "Failed"}, MoveMessages(s),
         pc = "idle", pc' = "idle", current # NoItem
  PROVE  CommandInv' /\ SignalsStep
<1> DEFINE S == { i \in Range(queue) : item[i].node }
           T == { i \in Range(queue) : ~item[i].node }
<1>1. PICK move : move = Keep(queue, S)
  OBVIOUS
<1>2. PICK p : p = Park(item, move)
  OBVIOUS
<1>3. PICK q : q = Keep(queue, T)
  OBVIOUS
<1>4. PICK D : D = (Range(parked) \cup Range(move)) \ Range(p)
  OBVIOUS
<1>5. PICK kept : kept = Delete(item, D)
  OBVIOUS
<1>6. PICK a \in Item : /\ a = Update(item, current, "Sleeping")[current]
                        /\ a.state = "Sleeping" /\ a.done /\ Sound(a)
  BY AsleepItem
<1>7. PICK copied : copied = [kept EXCEPT ![current] = IF @ = NoItem THEN @ ELSE a, ![Fresh] = a]
  OBVIOUS
<1>8. /\ Unused # {} /\ queue' = Append(q, Fresh) /\ parked' = p /\ event' = TRUE /\ current' = Fresh
      /\ item' = IF s = "none" THEN copied ELSE Update(copied, Fresh, s)
  BY <1>1, <1>2, <1>3, <1>4, <1>5, <1>6, <1>7 DEF MoveMessages, WithoutNode
<1>9. /\ Fresh \in 1 .. Items /\ Fresh \notin Existing(item)
      /\ Fresh \notin Range(queue) /\ Fresh \notin Range(parked)
  <2>1. Fresh \in 1 .. Items /\ Fresh \notin Existing(item)
    BY <1>8, FreshThere DEF Existing
  <2> QED BY <2>1, TypeParts
<1>10. PICK f \in 1 .. Items : f = Fresh
  BY <1>9
<1>11. /\ ListsInv /\ ItemsInv(item) /\ S \subseteq Range(queue)
       /\ Range(queue) \cap Range(parked) = {}
       /\ Existing(item) = Range(queue) \cup Range(parked)
       /\ UnderWay(item) \cap Range(queue) \subseteq {Head(queue)} /\ queue \in Seq(1 .. Items)
  BY DEF CommandInv, ListsInv, Called
<1>12. T = Range(queue) \ S
  OBVIOUS
<1> HIDE DEF S, T
<1>13. move \in Seq(1 .. Items) /\ IsInjective(move) /\ Range(move) = S
  <2>1. ListsInv /\ Range(queue) \cap S = S
    BY <1>11
  <2>2. /\ Keep(queue, S) \in Seq(1 .. Items) /\ IsInjective(Keep(queue, S))
        /\ Range(Keep(queue, S)) = Range(queue) \cap S
    BY <2>1, QueueKept
  <2> QED BY <1>1, <2>1, <2>2
<1>14. /\ q \in Seq(1 .. Items) /\ IsInjective(q) /\ Range(q) = T
       /\ queue # << >> /\ Head(queue) \in T => q # << >> /\ Head(q) = Head(queue)
  BY <1>3, <1>11, <1>12, QueueKept
<1>15. p \in Seq(1 .. Items) /\ IsInjective(p) /\ Range(p) \subseteq Range(parked) \cup S
  BY <1>2, <1>11, <1>13, ParkSays
<1>16. /\ ItemsInv(kept) /\ Existing(kept) = Existing(item) \ D /\ UnderWay(kept) \subseteq UnderWay(item)
  BY <1>5, <1>11, DeleteSays
<1>17. current \in 1 .. Items /\ current # f
  BY <1>9, <1>10, CurrentExists
<1>18. PICK mid : mid = [kept EXCEPT ![current] = IF @ = NoItem THEN @ ELSE a]
  OBVIOUS
<1>19. ItemsInv(mid) /\ Existing(mid) = Existing(kept) /\ UnderWay(mid) \subseteq UnderWay(kept)
  <2>1. CASE kept[current] = NoItem
    <3>1. mid = kept
      BY <1>16, <1>17, <1>18, <2>1 DEF ItemsInv
    <3> QED BY <1>16, <3>1
  <2>2. CASE kept[current] # NoItem
    <3>1. Changes(kept, current, a, mid)
      BY <1>18, <2>2 DEF Changes
    <3>2. current \in Existing(kept)
      BY <1>17, <2>2 DEF Existing
    <3>3. /\ ItemsInv(mid) /\ Existing(mid) = Existing(kept) \cup {current}
          /\ UnderWay(mid) \subseteq UnderWay(kept) \cup {current} /\ current \notin UnderWay(mid)
      BY <1>6, <1>16, <1>17, <3>1, OneChanges
    <3> QED BY <3>2, <3>3
  <2> QED BY <2>1, <2>2
<1>20. Changes(mid, f, a, copied)
  BY <1>7, <1>10, <1>17, <1>18 DEF Changes
<1>21. /\ ItemsInv(copied) /\ Existing(copied) = Existing(kept) \cup {f}
       /\ UnderWay(copied) \subseteq UnderWay(kept) /\ copied[f].done
  <2>1. /\ ItemsInv(copied) /\ Existing(copied) = Existing(mid) \cup {f} /\ copied[f] = a
        /\ UnderWay(copied) \subseteq UnderWay(mid) \cup {f} /\ f \notin UnderWay(copied)
    BY <1>6, <1>19, <1>20, OneChanges
  <2> QED BY <1>6, <1>19, <2>1
<1>22. /\ ItemsInv(item)' /\ Existing(item)' = Existing(kept) \cup {f}
       /\ UnderWay(item)' \subseteq UnderWay(kept) /\ item'[f].done
  <2>1. CASE s = "none"
    BY <1>8, <1>21, <2>1
  <2>2. CASE s = "Failed"
    <3>1. "Failed" \in ControllerState
      BY DEF ControllerState, Final
    <3>2. item' = Update(copied, f, "Failed")
      BY <1>8, <1>10, <2>2
    <3>3. f \in Existing(copied)
      BY <1>21
    <3>4. /\ ItemsInv(Update(copied, f, "Failed"))
          /\ Existing(Update(copied, f, "Failed")) = Existing(copied)
          /\ Update(copied, f, "Failed")[f].done
          /\ UnderWay(Update(copied, f, "Failed")) \subseteq UnderWay(copied) \cup {f}
      BY <1>21, <3>1, <3>3, UpdateSays
    <3>5. f \notin UnderWay(Update(copied, f, "Failed"))
      BY <3>4 DEF UnderWay
    <3> QED BY <1>21, <3>2, <3>4, <3>5
  <2> QED BY <2>1, <2>2
<1>23. f \notin Range(q)
  BY <1>9, <1>10, <1>12, <1>14
<1>24. /\ queue' \in Seq(1 .. Items) /\ IsInjective(queue') /\ Range(queue') = Range(q) \cup {f}
       /\ queue' # << >>
       /\ q # << >> => Head(queue') = Head(q)
  <2>1. queue' = Append(q, f)
    BY <1>8, <1>10
  <2>2. Append(q, f) # << >> /\ (q # << >> => Head(Append(q, f)) = Head(q))
    BY <1>14
  <2>3. /\ Append(q, f) \in Seq(1 .. Items) /\ IsInjective(Append(q, f))
        /\ Range(Append(q, f)) = Range(q) \cup {f}
    BY <1>14, <1>23, AppendId
  <2> QED BY <2>1, <2>2, <2>3
<1>25. ListsInv'
  <2>1. f \notin Range(p)
    BY <1>9, <1>10, <1>11, <1>15
  <2>2. Range(q) \cap Range(p) = {}
    BY <1>11, <1>12, <1>14, <1>15
  <2> QED BY <1>8, <1>15, <1>24, <2>1, <2>2 DEF ListsInv
<1>26. CurrentInv'
  BY <1>8, <1>10, <1>22, <1>24 DEF CurrentInv
<1>27. Existing(item)' = Range(queue)' \cup Range(parked)' \cup Called'
  <2>1. Existing(kept) = T \cup Range(p)
    BY <1>4, <1>11, <1>12, <1>13, <1>15, <1>16
  <2> QED BY <1>8, <1>14, <1>22, <1>24, <2>1 DEF Called
<1>28. UnderWay(item)' \cap Range(queue') \subseteq {Head(queue')}
  <2>1. SUFFICES ASSUME NEW h \in UnderWay(item)', h \in Range(queue') PROVE h = Head(queue')
    OBVIOUS
  <2>2. h \in UnderWay(item) /\ h # f
    BY <1>9, <1>10, <1>16, <1>22, <2>1 DEF UnderWay
  <2>3. h \in T /\ h \in Range(queue)
    BY <1>12, <1>14, <1>24, <2>1, <2>2
  <2>4. queue # << >> /\ h = Head(queue)
    BY <1>11, <2>2, <2>3, EmptyRange
  <2> QED BY <1>14, <1>24, <2>3, <2>4
<1>29. Attended'
  BY <1>8 DEF Attended
<1>30. SignalsStep
  BY <1>8, <1>24, QuietSays
<1> QED BY <1>8, <1>22, <1>24, <1>25, <1>26, <1>27, <1>28, <1>29, <1>30 DEF CommandInv

LEMMA MoveKeeps ==
  ASSUME CommandInv, MessagesTyped', TestFailed \/ AssignFailed PROVE CommandInv' /\ SignalsStep
<1>1. PICK s \in {"none", "Failed"} : MoveMessages(s)
  BY DEF TestFailed, AssignFailed
<1>2. pc = "idle" /\ pc' = "idle"
  BY DEF TestFailed, AssignFailed
<1> HIDE DEF MoveMessages
<1> QED BY <1>1, <1>2, MoveWith, MoveWithout
-----------------------------------------------------------------------------
(* The theorems. *)

LEMMA CommandInit == Init => CommandInv
<1> SUFFICES ASSUME Init PROVE CommandInv
  OBVIOUS
<1>1. Range(<< >>) = {} /\ IsInjective(<< >>)
  BY DEF Range, IsInjective
<1>2. ItemsInv(item) /\ Existing(item) = {} /\ UnderWay(item) = {}
  <2>1. item = [i \in 1 .. Items |-> NoItem]
    BY DEF Init
  <2>2. Existing(item) = {}
    BY <2>1 DEF Existing
  <2>3. item \in [1 .. Items -> Item \cup {NoItem}] /\ \A i \in 1 .. Items : item[i] = NoItem
    BY <2>1
  <2>4. ItemsInv(item)
    BY <2>3 DEF ItemsInv
  <2>5. UnderWay(item) = {}
    BY <2>2 DEF UnderWay
  <2> QED BY <2>2, <2>4, <2>5
<1>3. MessagesTyped
  <2>1. extras \in 0 .. Extras
    BY ControllerCommandsAssumption DEF Init
  <2>2. event \in BOOLEAN /\ awake \in BOOLEAN
    BY DEF Init
  <2>3. commands \in Seq(Message) /\ message \in Message \cup {NoMessage}
    BY DEF Init
  <2>4. sent \subseteq Commands /\ begun \subseteq Call /\ pc \in {"idle", "callback", "nothing"}
    BY DEF Init
  <2> QED BY <2>1, <2>2, <2>3, <2>4 DEF MessagesTyped
<1>4. ListsInv /\ CurrentInv /\ Attended
  BY <1>1 DEF Init, ListsInv, CurrentInv, Attended
<1> QED BY <1>1, <1>2, <1>3, <1>4 DEF Init, CommandInv, Called

LEMMA CommandNext == ASSUME CommandInv, [Next]_vars PROVE CommandInv' /\ (SignalsStep \/ UNCHANGED vars)
<1>0. MessagesTyped
  BY DEF CommandInv
<1>1. CASE Thread
  BY <1>1, ThreadKeeps
<1>2. CASE Outcome \/ \E k \in Commands : Progress(k)
  BY <1>0, <1>2, ReportsTyped, ReportsKeep, MoveKeeps DEF Outcome
<1>3. CASE Adding \/ ProtocolDone \/ AddDone \/ AddFailed \/ AssignFailed
  BY <1>0, <1>3, ReportsTyped, ReportsKeep, AddDoneKeeps, MoveKeeps
<1>4. ASSUME NEW c \in Call, Begin(c) PROVE CommandInv' /\ SignalsStep
  BY <1>0, <1>4, CallsTyped, BeginKeeps
<1>5. CASE Cancel \/ TestNode \/ WakesUp \/ FallsAsleep
  BY <1>0, <1>5, CallsTyped, CancelKeeps, TestKeeps, WakesUpKeeps, FallsAsleepKeeps
<1>6. CASE UNCHANGED vars
  <2>1. UNCHANGED << item, queue, event, current, commands, message, sent, awake, parked, pc,
                     begun, extras >>
    BY <1>6 DEF vars, queueVars, messageVars, nodeVars, boundVars
  <2>2. MessagesTyped' /\ ListsInv' /\ CurrentInv' /\ Attended'
    BY <2>1 DEF CommandInv, MessagesTyped, ListsInv, CurrentInv, Attended
  <2> QED BY <1>6, <2>1, <2>2 DEF CommandInv, Called
<1> QED BY <1>1, <1>2, <1>3, <1>4, <1>5, <1>6 DEF Next

LEMMA CommandInvariant == Spec => []CommandInv
<1>1. CommandInv /\ [Next]_vars => CommandInv'
  BY CommandNext
<1> QED BY <1>1, CommandInit, PTL DEF Spec

\* The event of the Controller queue is set for nothing only by a thread that cancels or
\* sends while the last callback runs, and a finished command is left without it only by
\* the reset after "nothing to do".
THEOREM SignalsRightCorrect == Spec => SignalsRight
<1>1. CommandInv /\ [Next]_vars => [SignalsStep]_vars
  BY CommandNext
<1>2. [SignalsStep]_vars =>
        [/\ ~InVain /\ InVain' => pc = "callback"
         /\ ~Stranded /\ Stranded' => pc = "nothing"]_vars
  BY DEF SignalsStep
<1> QED BY <1>1, <1>2, CommandInvariant, PTL DEF Spec, SignalsRight

\* Of the commands in the queue at most one is begun and not done, whatever reports come
\* late and whatever is moved to the node and back.
THEOREM OneUnderWayCorrect == Spec => []OneUnderWay
<1>1. CommandInv => OneUnderWay
  <2> SUFFICES ASSUME CommandInv PROVE OneUnderWay
    OBVIOUS
  <2>1. Range(queue) \subseteq Existing(item)
    BY TypeParts
  <2>2. UnderWay(item) \cap Range(queue) \subseteq {Head(queue)}
    BY DEF CommandInv
  <2> QED BY <2>1, <2>2 DEF OneUnderWay, UnderWay
<1> QED BY <1>1, CommandInvariant, PTL

\* Every item is in one place, where the driver or the node's next wake-up finds it, and
\* the current command is one the driver comes back to.
THEOREM ItemsInOnePlaceCorrect == Spec => []ItemsInOnePlace
<1>1. CommandInv => ItemsInOnePlace
  <2> SUFFICES ASSUME CommandInv PROVE ItemsInOnePlace
    OBVIOUS
  <2> DEFINE calling == IF pc = "callback" THEN << current >> ELSE << >>
             lists == queue \o parked
  <2>1. lists \in Seq(1 .. Items) /\ IsInjective(lists) /\ Range(lists) = Range(queue) \cup Range(parked)
    BY ConcatList DEF CommandInv, ListsInv
  <2>2. /\ calling \in Seq(1 .. Items) /\ IsInjective(calling) /\ Range(calling) = Called
        /\ Range(lists) \cap Called = {}
    <3>1. CASE pc = "callback"
      <4>1. current \in 1 .. Items /\ current \notin Range(queue) \cup Range(parked)
        BY <3>1 DEF CommandInv, CurrentInv
      <4>2. IsInjective(<< current >>) /\ Range(<< current >>) = {current}
        BY DEF IsInjective, Range
      <4> QED BY <2>1, <3>1, <4>1, <4>2 DEF Called
    <3>2. CASE pc # "callback"
      <4>1. IsInjective(<< >>) /\ Range(<< >>) = {}
        BY DEF IsInjective, Range
      <4> QED BY <3>2, <4>1 DEF Called
    <3> QED BY <3>1, <3>2
  <2>3. PICK c : c = calling
    OBVIOUS
  <2>4. PICK l : l = lists
    OBVIOUS
  <2>5. PICK all : all = l \o c
    OBVIOUS
  <2>6. /\ l \in Seq(1 .. Items) /\ IsInjective(l) /\ Range(l) = Range(queue) \cup Range(parked)
        /\ c \in Seq(1 .. Items) /\ IsInjective(c) /\ Range(c) = Called /\ Range(l) \cap Range(c) = {}
    BY <2>1, <2>2, <2>3, <2>4
  <2>7. IsInjective(all) /\ Range(all) = Range(queue) \cup Range(parked) \cup Called
    BY <2>5, <2>6, ConcatList
  <2>8. \A i, j \in DOMAIN all : all[i] = all[j] => i = j
    BY <2>7 DEF IsInjective
  <2>9. \A i \in 1 .. Items : item[i] # NoItem => i \in Range(all)
    BY <2>7 DEF CommandInv, Existing
  <2>10. current # NoItem => current \in Range(queue \o c)
    <3>1. Range(queue \o c) = Range(queue) \cup Called
      BY <2>6, ConcatList DEF CommandInv, ListsInv
    <3> QED BY <3>1 DEF CommandInv, CurrentInv, Called
  <2>11. TypeOK
    BY TypeParts
  <2>12. all = queue \o parked \o calling /\ c = calling
    BY <2>3, <2>4, <2>5
  <2> QED BY <2>8, <2>9, <2>10, <2>11, <2>12 DEF ItemsInOnePlace
<1> QED BY <1>1, CommandInvariant, PTL
=============================================================================
