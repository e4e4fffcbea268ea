------------------------------ MODULE Delivery ------------------------------
(***************************************************************************)
(* What the message engine promises the callers of SendMsg, without its    *)
(* queues, ids, attempts and timers: the life of every message.            *)
(*                                                                         *)
(*   idle     not handed over yet       sending  the one being sent        *)
(*   handed   a thread is in SendMsg    parked   kept for a sleeping node  *)
(*   queued   waiting its turn          gone     answered for or given up  *)
(*                                                                         *)
(* At most one message is being sent; a node that falls asleep has nothing *)
(* left queued or being sent; a parked message is only ever replaced by an *)
(* equal one, until its node wakes up and all that is parked is queued.    *)
(***************************************************************************)
CONSTANTS Msg, Node, Target, Content, Transient

VARIABLE status

Statuses == {"idle", "handed", "queued", "sending", "parked", "gone"}

Having(S) == { m \in Msg : status[m] \in S }

\* The messages of S take status s.
Become(S, s) == [m \in Msg |-> IF m \in S THEN s ELSE status[m]]

Init == status = [m \in Msg |-> "idle"]

Hand(m) == status[m] = "idle" /\ status' = Become({m}, "handed")

\* A message takes its place.  The report it answers may end the open transaction.
Queue(m, done) ==
  /\ status[m] \in {"idle", "handed"}
  /\ status' = [Become(done, "gone") EXCEPT ![m] = "queued"]

ParkOne(m, done) ==
  LET copies == { k \in Having({"parked"}) : Content[k] = Content[m] }
  IN  /\ status[m] \in {"idle", "handed"}
      /\ status' = [Become(done \cup copies, "gone") EXCEPT ![m] = "parked"]

\* The driver takes a queued message while it is sending none; it is given up at
\* once when its node is dead.
Start(m) ==
  /\ Having({"sending"}) = {}
  /\ status[m] = "queued"
  /\ \E s \in {"sending", "gone"} : status' = Become({m}, s)

Finish(m) == status[m] = "sending" /\ status' = Become({m}, "gone")

\* The node does not answer: what is queued or being sent for it is parked, except
\* transient messages and those an equal parked one stands for.
Sleep(n) ==
  LET here == { m \in Having({"queued", "sending"}) : Target[m] = n }
      keep == { m \in here \cup Having({"parked"}) : Target[m] = n } \ Transient
  IN  \E stay \in SUBSET keep :
        /\ \A m \in keep : \E k \in stay : Content[k] = Content[m]
        /\ \A m, k \in stay : Content[k] = Content[m] => k = m
        /\ status' = [m \in Msg |-> IF m \in stay THEN "parked"
                                    ELSE IF m \in here \cup keep THEN "gone"
                                    ELSE status[m]]

\* The node is awake: all that is parked for it is queued, and perhaps the command
\* that lets it sleep again.
Wake(n, new, done) ==
  LET kept == { m \in Having({"parked"}) : Target[m] = n }
  IN  /\ new \subseteq { m \in Having({"idle"}) \cap Transient : Target[m] = n }
      /\ status' = [m \in Msg |-> IF m \in kept \cup new THEN "queued"
                                  ELSE IF m \in done THEN "gone" ELSE status[m]]

Next ==
  \/ \E m \in Msg : Hand(m) \/ Start(m) \/ Finish(m)
  \/ \E done \in SUBSET Having({"sending"}) :
       \/ \E m \in Msg : Queue(m, done) \/ ParkOne(m, done)
       \/ \E n \in Node : Wake(n, {}, done) \/ \E m \in Msg : Wake(n, {m}, done)
  \/ \E n \in Node : Sleep(n)

Spec == Init /\ [][Next]_status
=============================================================================
