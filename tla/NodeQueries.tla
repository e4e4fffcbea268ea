---------------------------- MODULE NodeQueries ----------------------------
(***************************************************************************)
(* The interview of the nodes.  A node goes through the query stages: at   *)
(* each it sends the questions of the stage and puts a marker, the item    *)
(* QueryStageComplete, in the Query queue behind them; when the driver     *)
(* thread takes the marker out the node goes on to the next stage.  Nodes  *)
(* die and revive, fall asleep and wake up, are added and removed, and the *)
(* application sends a node back to an earlier stage.                      *)
(*                                                                         *)
(* The questions of a stage are one item.  The queues served before Query  *)
(* are one list.  Retransmission is in Driver.tla: a question ends once.   *)
(***************************************************************************)
EXTENDS Integers, FiniteSets, SequencesExt, SendQueue

CONSTANTS
  Node,         \* the nodes of the network
  Sleepy,       \* those that do not listen and have the WakeUp class
  Controller,   \* the node of the controller itself
  Cached,       \* nodes read from the configuration file
  MayAsk,       \* the stages in which a node may have questions beyond those it must ask
  Changes,      \* bound: calls of the application, node infos, late failures of a
                \* request for one, nodes added or removed
  Revivals,     \* bound: reports that a node presumed dead sends unasked
  Removals,     \* whether nodes leave the network
  Overlap,      \* whether a failure is handled while the application is in AdvanceQueries
  NoItem, NoNode

None == 0
ProtocolInfo == 1
Probe == 2
WakeUp == 3
NodeInfo == 5
SecurityReport == 7
ManufacturerSpecific2 == 8
Static == 11
CacheLoad == 12
Associations == 13
Neighbors == 14
Dynamic == 16
Configuration == 17
Complete == 18
Stages == None .. Complete

DeadAfter == 3
ProbeAttempts == 3
NodeInfoAttempts == 2

Question(n, s) == [kind |-> "question", node |-> n, stage |-> s, retry |-> FALSE]
Marker(n, s) == [kind |-> "marker", node |-> n, stage |-> s, retry |-> FALSE]
GoToSleep(n) == [kind |-> "sleep", node |-> n, stage |-> None, retry |-> FALSE]

Items == [kind : {"question", "marker", "sleep"}, node : Node, stage : Stages, retry : BOOLEAN]

ASSUME NodeQueriesAssumption ==
  /\ IsFiniteSet(Node)
  /\ Sleepy \subseteq Node /\ Cached \subseteq Node /\ Controller \notin Sleepy
  /\ MayAsk \in [Node -> SUBSET (Stages \ {None, Complete})]
  /\ Changes \in Nat /\ Revivals \in Nat
  /\ Removals \in BOOLEAN /\ Overlap \in BOOLEAN
  /\ NoNode \notin Node /\ NoItem \notin Items

VARIABLES
  node,          \* the fields of each Node, and of its WakeUp class
  present,       \* the nodes that are in m_nodes
  first,         \* items of the queues served before Query
  query,         \* items of the Query queue
  current,       \* m_currentMsg
  allQueried,    \* m_allNodesQueried
  awakeQueried,  \* m_awakeNodesQueried
  marking,       \* the node whose marker an application thread is about to queue
  changes,       \* changes made so far
  revivals       \* unasked reports of dead nodes so far

queueVars == << first, query, current >>
driverVars == << allQueried, awakeQueried >>
boundVars == << changes, revivals >>
vars == << node, present, queueVars, driverVars, marking, boundVars >>

\* early, late and check are used only inside a handler: what it puts into first
\* and into query, and whether it calls CheckCompletedNodeQueries.
Blank == [stage |-> None, pending |-> FALSE, retries |-> 0, info |-> FALSE,
          alive |-> TRUE, errors |-> 0, awake |-> TRUE, parked |-> << >>,
          early |-> << >>, late |-> << >>, check |-> FALSE]

TypeOK ==
  /\ node \in [Node -> [stage : Stages, pending : BOOLEAN, retries : 0 .. ProbeAttempts - 1,
                        info : BOOLEAN, alive : BOOLEAN, errors : 0 .. DeadAfter,
                        awake : BOOLEAN, parked : Seq(Items),
                        early : {<< >>}, late : {<< >>}, check : {FALSE}]]
  /\ present \subseteq Node
  /\ first \in Seq(Items) /\ query \in Seq(Items)
  /\ current \in Items \cup {NoItem}
  /\ allQueried \in BOOLEAN /\ awakeQueried \in BOOLEAN
  /\ marking \in Node \cup {NoNode}
  /\ changes \in 0 .. Changes /\ revivals \in 0 .. Revivals
-----------------------------------------------------------------------------
(* What a handler does to one node r = node[n]. *)

Sleeps(n, r) == n \in Sleepy /\ r.info
Asleep(n, r) == Sleeps(n, r) /\ ~r.awake

SameItem(i, j) == i.kind = j.kind /\ i.node = j.node /\ i.stage = j.stage

\* WakeUp::QueueMsg: the item replaces one that is equal.
Park(p, i) == Append(Keep(p, { j \in Items : ~SameItem(i, j) }), i)

\* The items of s are parked one by one.
ParkAll(p, s) ==
  LET parked[k \in 0 .. Len(s)] == IF k = 0 THEN p ELSE Park(parked[k - 1], s[k])
  IN  parked[Len(s)]

\* Questions that are not sent with the Query queue.
Early(i) ==
  i.kind = "question" /\ i.stage \in {Probe, WakeUp, SecurityReport, CacheLoad, Neighbors}

\* SendMsg and SendQueryStageComplete
Send(n, r, i) ==
  IF Asleep(n, r) THEN [r EXCEPT !.parked = Park(@, i)]
  ELSE IF Early(i) THEN [r EXCEPT !.early = Append(@, i)]
  ELSE [r EXCEPT !.late = Append(@, i)]

MustAsk(n, r, s) ==
  \/ s = ProtocolInfo /\ ~r.info
  \/ s \in {Probe, CacheLoad} /\ n # Controller
  \/ s = WakeUp /\ Sleeps(n, r)
  \/ s = Neighbors

\* CacheLoad is where a node from the configuration file begins, no other visits it.
Visits(r, s) == (r.stage .. s) \ (IF r.stage = CacheLoad THEN {} ELSE {CacheLoad})

Reaches(n, r, s) == s \in Visits(r, s) /\ \A t \in Visits(r, s) \ {s} : ~MustAsk(n, r, t)

Asks(n, r) == { s \in Stages : Reaches(n, r, s) /\ (MustAsk(n, r, s) \/ s \in MayAsk[n]) }

GoTo(r, s) == IF s = r.stage THEN r ELSE [r EXCEPT !.stage = s, !.retries = 0]

AddMarker(n, r) == IF r.alive THEN Send(n, r, Marker(n, r.stage)) ELSE r

\* AdvanceQueries without the marker.
Ask(n, r) ==
  IF r.pending \/ ~r.alive THEN {r}
  ELSE { Send(n, [GoTo(r, s) EXCEPT !.pending = TRUE], Question(n, s)) : s \in Asks(n, r) } \cup
       { [GoTo(r, s) EXCEPT !.check = TRUE] : s \in { t \in {Complete} : Reaches(n, r, t) } }

AdvanceQueries(n, r) ==
  { IF q.pending /\ ~r.pending THEN AddMarker(n, q) ELSE q : q \in Ask(n, r) }

NextStage(s) == IF s + 1 = CacheLoad THEN s + 2 ELSE s + 1

QueryStageComplete(r, s) ==
  IF s # r.stage \/ s = Complete THEN r
  ELSE [r EXCEPT !.pending = FALSE, !.stage = NextStage(s), !.retries = 0]

\* Mutant: one attempt more than asked for.
RetryOnceMore(r, s, attempts) ==
  IF s # r.stage THEN r
  ELSE IF r.retries + 1 <= attempts THEN [r EXCEPT !.pending = FALSE, !.retries = @ + 1]
  ELSE [r EXCEPT !.pending = FALSE, !.retries = 0,
                 !.stage = IF @ \in {Probe, CacheLoad} THEN @ ELSE @ + 1]

\* Mutant: a stage is repeated until it is answered.
RetryForever(r, s, attempts) == IF s # r.stage THEN r ELSE [r EXCEPT !.pending = FALSE]

\* The node's part of QueryStageRetry.
QueryStageRetry(r, s, attempts) ==
  IF s # r.stage THEN r
  ELSE IF r.retries + 1 < attempts THEN [r EXCEPT !.pending = FALSE, !.retries = @ + 1]
  ELSE [r EXCEPT !.pending = FALSE, !.retries = 0,
                 !.stage = IF @ \in {Probe, CacheLoad} THEN @ ELSE @ + 1]

\* Mutant: the questions of the later stage still count as pending.
BackStillPending(r, s) == IF s < r.stage THEN [r EXCEPT !.stage = s] ELSE r

Back(r, s) == IF s < r.stage THEN [r EXCEPT !.stage = s, !.pending = FALSE] ELSE r

SetQueryStage(n, r, s) == AdvanceQueries(n, Back(r, s))

Revive(n, r) ==
  LET q == [r EXCEPT !.alive = TRUE, !.errors = 0]
  IN  IF r.stage = Complete THEN {q} ELSE AdvanceQueries(n, [q EXCEPT !.retries = 0])

\* A message of the node revives it if it was presumed dead.
Heard(n, r) == IF r.alive THEN {r} ELSE Revive(n, r)

Die(r) == [r EXCEPT !.alive = FALSE, !.check = @ \/ r.stage # Complete]

Parked(r, kind) == Keep(r.parked, { i \in Items : i.kind = kind })

\* Mutant: parked messages go back to the Query queue, behind the markers.
SendPendingLate(n, r, notified) ==
  [r EXCEPT !.awake = TRUE, !.parked = << >>,
     !.late = @ \o Parked(r, "marker") \o Parked(r, "question")]

\* SetAwake(true) and SendPending; notified is m_notification.  Parked messages go
\* to the WakeUp queue and markers, no longer to be retried, to the Query queue.
SendPending(n, r, notified) ==
  [r EXCEPT !.awake = TRUE, !.parked = << >>,
     !.early = @ \o Parked(r, "question")
                 \o (IF notified /\ r.stage = Complete THEN << GoToSleep(n) >> ELSE << >>),
     !.late = @ \o [k \in DOMAIN Parked(r, "marker") |->
                      [Parked(r, "marker")[k] EXCEPT !.retry = FALSE]]]
-----------------------------------------------------------------------------
(* The queues and the driver. *)

Of(n, s) == Keep(s, { i \in Items : i.node = n })
NotOf(n, s) == Keep(s, { i \in Items : i.node # n })

\* Mutant: dead nodes are waited for.
UnfinishedOrDead(nodes, N) == { n \in N : nodes[n].stage # Complete }

Unfinished(nodes, N) == { n \in N : nodes[n].stage # Complete /\ nodes[n].alive }

CheckCompletedNodeQueries(nodes) ==
  LET left == Unfinished(nodes, present)
  IN  IF allQueried THEN UNCHANGED driverVars
      ELSE /\ allQueried' = (left = {})
           /\ awakeQueried' = (awakeQueried \/ \A n \in left : Sleeps(n, nodes[n]))

\* A handler ends with node n in state r; f and q are the queues without what it sent.
Handle(n, r, f, q) ==
  /\ node' = [node EXCEPT ![n] = [r EXCEPT !.early = << >>, !.late = << >>, !.check = FALSE]]
  /\ first' = f \o r.early
  /\ query' = q \o r.late
  /\ IF r.check THEN CheckCompletedNodeQueries([node EXCEPT ![n] = r])
     ELSE UNCHANGED driverVars

\* RetryQueryStageComplete: the first marker for the stage in the Query queue.
MarkRetry(q, n, s) ==
  LET at == { k \in DOMAIN q : SameItem(q[k], Marker(n, s)) }
  IN  IF at = {} THEN q ELSE [q EXCEPT ![Min(at)].retry = TRUE]
-----------------------------------------------------------------------------
\* The lists of ss, one behind another.
Concat(ss) ==
  LET joined[k \in 0 .. Len(ss)] == IF k = 0 THEN << >> ELSE joined[k - 1] \o ss[k]
  IN  joined[Len(ss)]

\* The driver creates the nodes in the order of their ids, within one handler.
Started(n) ==
  IF n \in Cached THEN AdvanceQueries(n, [Blank EXCEPT !.stage = CacheLoad, !.info = TRUE])
  ELSE AdvanceQueries(n, Blank)

Init ==
  /\ \E f \in [Node -> UNION { Started(n) : n \in Node }] :
       /\ \A n \in Node : f[n] \in Started(n)
       /\ node = [n \in Node |-> [f[n] EXCEPT !.early = << >>, !.late = << >>]]
       /\ LET ids == SetToSeq(Node)
          IN  /\ first = Concat([k \in DOMAIN ids |-> f[ids[k]].early])
              /\ query = Concat([k \in DOMAIN ids |-> f[ids[k]].late])
  /\ present = Node
  /\ current = NoItem
  /\ allQueried = FALSE /\ awakeQueried = FALSE
  /\ marking = NoNode
  /\ changes = 0 /\ revivals = 0

\* WriteNextMsg for a message; WriteMsg drops it when the node is presumed dead,
\* unless it is a probe.
SendQuestion ==
  LET q == first \o query
      i == Head(q)
      probe == i.kind = "question" /\ i.stage \in {Probe, CacheLoad}
  IN  /\ marking = NoNode /\ current = NoItem /\ q # << >>
      /\ i.kind # "marker"
      /\ current' = IF node[i.node].alive \/ probe THEN i ELSE NoItem
      /\ IF first # << >> THEN first' = Tail(first) /\ UNCHANGED query
         ELSE query' = Tail(query) /\ UNCHANGED first
      /\ UNCHANGED << node, present, driverVars, marking, boundVars >>

\* WriteNextMsg for a QueryStageComplete item.
TakeMarker ==
  LET i == Head(query)
      n == i.node
      r == IF i.retry THEN node[n] ELSE QueryStageComplete(node[n], i.stage)
  IN  /\ marking = NoNode /\ current = NoItem /\ first = << >> /\ query # << >>
      /\ i.kind = "marker"
      /\ \E a \in AdvanceQueries(n, r) : Handle(n, a, first, Tail(query))
      /\ UNCHANGED << present, current, marking, boundVars >>

AnsweredByController(i) == i.kind = "question" /\ i.stage \in {ProtocolInfo, Neighbors}

\* The answer to the current message came; exists is what the protocol info says.
Answered(exists) ==
  LET n == current.node
      r == node[n]
      known == IF current.kind = "question" /\ current.stage = ProtocolInfo
               THEN IF exists \/ r.info THEN [r EXCEPT !.info = TRUE] ELSE Die(r)
               ELSE IF current.kind = "sleep" THEN [r EXCEPT !.awake = FALSE] ELSE r
  IN  /\ marking = NoNode /\ current # NoItem
      /\ \E a \in IF AnsweredByController(current) THEN {known} ELSE Heard(n, known) :
           Handle(n, a, first, query)
      /\ current' = NoItem
      /\ UNCHANGED << present, marking, boundVars >>

\* No answer came in any of the attempts.
Lost ==
  /\ marking = NoNode /\ current # NoItem
  /\ current' = NoItem
  /\ UNCHANGED << node, present, first, query, driverVars, marking, boundVars >>

Transmitted(i) == i.kind = "sleep" \/ i.stage \notin {ProtocolInfo, NodeInfo, Neighbors}

Kept(i) ==
  \/ i.kind = "marker"
  \/ i.kind = "question" /\ i.stage \notin {Probe, CacheLoad}

\* MoveMessagesToWakeUpQueue: the current message and the queues, in this order.
MoveMessages(n, r, q) ==
  LET moved == Keep(<< current >> \o Of(n, first) \o Of(n, q), { i \in Items : Kept(i) })
  IN  Handle(n, [r EXCEPT !.awake = FALSE, !.parked = ParkAll(@, moved)],
             NotOf(n, first), NotOf(n, q))

\* The node did not acknowledge: if it is one that sleeps it is taken to be asleep.
FailedAsleep ==
  LET n == current.node
  IN  /\ marking = NoNode /\ current # NoItem /\ Transmitted(current)
      /\ Sleeps(n, node[n])
      /\ MoveMessages(n, node[n], query)
      /\ current' = NoItem
      /\ UNCHANGED << present, marking, boundVars >>

\* HandleErrorResponse counts the error; a failed probe is repeated.
Failed ==
  LET n == current.node
      r == node[n]
      counted == [r EXCEPT !.errors = IF @ < DeadAfter THEN @ + 1 ELSE @]
      judged == IF counted.errors = DeadAfter THEN Die(counted) ELSE counted
      probing == current.stage \in {Probe, CacheLoad} /\ r.stage \in {Probe, CacheLoad}
      retried == QueryStageRetry(judged, r.stage, ProbeAttempts)
  IN  /\ marking = NoNode \/ Overlap
      /\ current # NoItem /\ Transmitted(current)
      /\ IF probing THEN Handle(n, retried, first, MarkRetry(query, n, retried.stage))
         ELSE Handle(n, judged, first, query)
      /\ current' = NoItem
      /\ UNCHANGED << present, marking, boundVars >>

\* UPDATE_STATE_NODE_INFO_REQ_FAILED names no node: it is taken to be about the target
\* of the current message.
InfoFailed ==
  LET n == current.node
      r == QueryStageRetry(node[n], NodeInfo, NodeInfoAttempts)
      q == IF node[n].stage = NodeInfo THEN MarkRetry(query, n, r.stage) ELSE query
  IN  /\ marking = NoNode /\ current # NoItem
      /\ IF Sleeps(n, r) THEN MoveMessages(n, r, q) ELSE Handle(n, r, first, q)
      /\ UNCHANGED << present, marking, revivals >>

InfoAsked == current.kind = "question" /\ current.stage = NodeInfo

NodeInfoFailed ==
  /\ InfoFailed /\ InfoAsked
  /\ current' = NoItem
  /\ UNCHANGED changes

\* Bound: one command that sends the node to sleep is on its way at a time.
Wakeable(n) ==
  /\ marking = NoNode
  /\ n \in present /\ Sleeps(n, node[n])
  /\ GoToSleep(n) \notin Range(<< current >> \o first)

Unasked(n) ==
  IF node[n].alive THEN UNCHANGED revivals
  ELSE revivals < Revivals /\ revivals' = revivals + 1

\* A report of a node presumed dead.
Report(n) ==
  /\ marking = NoNode
  /\ n \in present /\ ~node[n].alive /\ Unasked(n)
  /\ \E a \in Revive(n, node[n]) : Handle(n, a, first, query)
  /\ UNCHANGED << present, current, marking, changes >>

\* A wake-up notification while no poll of the node is due.
WakesUp(n) ==
  /\ Wakeable(n)
  /\ Asleep(n, node[n]) /\ Unasked(n)
  /\ \E a \in Heard(n, node[n]) : Handle(n, SendPending(n, a, TRUE), first, query)
  /\ UNCHANGED << present, current, marking, changes >>

Change == marking = NoNode /\ changes < Changes /\ changes' = changes + 1

\* The request was given up before it failed: another message is current, and it stays
\* so unless its node sleeps.
NodeInfoFailedLate ==
  /\ Change /\ InfoFailed /\ ~InfoAsked
  /\ current' = IF Sleeps(current.node, node[current.node]) THEN NoItem ELSE current

\* The poll thread found the node asleep: it is asked for its dynamic values now.
WakesUpToBePolled(n) ==
  /\ Change /\ Wakeable(n) /\ Unasked(n)
  /\ \E a \in Heard(n, node[n]) :
       \E b \in SetQueryStage(n, [a EXCEPT !.awake = TRUE], Dynamic) :
         Handle(n, SendPending(n, b, TRUE), first, query)
  /\ UNCHANGED << present, current, marking >>

\* UPDATE_STATE_NODE_INFO_RECEIVED: the first time the node may go back for its
\* static data, later, if its device file says so, for its dynamic values.
NodeInfoReceived(n, notified) ==
  /\ Change /\ n \in present /\ Unasked(n)
  /\ GoToSleep(n) \notin Range(<< current >> \o first)
  /\ \E a \in Heard(n, node[n]) :
       \E b \in {a} \cup SetQueryStage(n, a, ManufacturerSpecific2) \cup SetQueryStage(n, a, Dynamic) :
         Handle(n, IF Sleeps(n, b) THEN SendPending(n, b, notified) ELSE b, first, query)
  /\ UNCHANGED << present, current, marking >>

\* RefreshNodeInfo, RequestNodeState, RequestNodeDynamic, RequestAllConfigParams.
Requested == {ProtocolInfo, Associations, Dynamic, Configuration}

\* A call of the application, up to the marker.
Request(n, s) ==
  LET r == Back(node[n], s)
  IN  /\ Change /\ n \in present /\ s \in Requested
      /\ \E a \in Ask(n, r) : /\ Handle(n, a, first, query)
                              /\ marking' = IF a.pending /\ ~r.pending THEN n ELSE NoNode
      /\ UNCHANGED << present, current, revivals >>

EndRequest ==
  /\ marking # NoNode
  /\ Handle(marking, AddMarker(marking, node[marking]), first, query)
  /\ marking' = NoNode
  /\ UNCHANGED << present, current, boundVars >>

\* HandleIsFailedNodeResponse for a node the application asked about.  A failed node
\* that has reset itself stays as it is until a controller command has removed it.
IsFailedNode(n, failed) ==
  /\ Change /\ n \in present
  /\ \E a \in IF failed THEN {Die(node[n]), node[n]} ELSE Revive(n, node[n]) :
       Handle(n, a, first, query)
  /\ UNCHANGED << present, current, marking, revivals >>

\* RemoveQueues for the current message.
Purged(n) == IF current # NoItem /\ current.node = n THEN NoItem ELSE current

\* UPDATE_STATE_DELETE_DONE
RemoveNode(n) ==
  /\ Removals /\ Change
  /\ n \in present \ {Controller}
  /\ present' = present \ {n}
  /\ current' = Purged(n)
  /\ Handle(n, Blank, NotOf(n, first), NotOf(n, query))
  /\ UNCHANGED << marking, revivals >>

\* InitNode for a new node, which replaces one of the same id.
InitNode(n) ==
  /\ Removals /\ Change
  /\ n # Controller
  /\ present' = present \cup {n}
  /\ current' = Purged(n)
  /\ \E a \in AdvanceQueries(n, Blank) : Handle(n, a, NotOf(n, first), NotOf(n, query))
  /\ UNCHANGED << marking, revivals >>

Engine == SendQuestion \/ TakeMarker
Outcome == (\E e \in BOOLEAN : Answered(e)) \/ Lost \/ FailedAsleep \/ Failed \/ NodeInfoFailed

Next ==
  \/ Engine
  \/ Outcome
  \/ EndRequest
  \/ NodeInfoFailedLate
  \/ \E n \in Node : \/ Report(n)
                     \/ WakesUp(n)
                     \/ WakesUpToBePolled(n)
                     \/ \E b \in BOOLEAN : NodeInfoReceived(n, b) \/ IsFailedNode(n, b)
                     \/ \E s \in Requested : Request(n, s)
                     \/ RemoveNode(n)
                     \/ InitNode(n)

Spec == Init /\ [][Next]_vars

\* The driver thread runs, a call returns, and every message ends, if only by a
\* timeout.  Nothing is assumed of the nodes.
FairSpec == Spec /\ WF_vars(Engine) /\ WF_vars(Outcome) /\ WF_vars(EndRequest)
-----------------------------------------------------------------------------
\* An interview never stalls: as long as a node that is alive is not complete, a
\* marker for it is in the Query queue or parked, so that AdvanceQueries is called
\* again; while questions are pending it is a marker of that stage, which ends it.
MarkerFollows ==
  /\ TypeOK
  /\ \A n \in present \ {marking} :
       LET r == node[n]
           markers == { i \in Range(query) \cup Range(r.parked) : i.kind = "marker" /\ i.node = n }
       IN  r.alive /\ r.stage # Complete =>
             /\ markers # {}
             /\ r.pending => \E i \in markers : i.stage = r.stage /\ (i.retry => i \in Range(r.parked))

\* A node goes on from a stage only when all questions of the stage have been sent,
\* whatever queues they and the marker went through.
AskedBeforeLeft ==
  [][\A n \in Node :
       node[n].pending /\ node'[n].stage > node[n].stage =>
         Question(n, node[n].stage) \notin Range(first) \cup Range(query) \cup Range(node[n].parked)]_vars

Settled(n) == node[n].stage = Complete \/ ~node[n].alive

\* The interview of a node ends: it completes, unless the node dies, is asleep or
\* leaves.  A node that woke up all the time would keep the driver from the Query queue.
InterviewEnds ==
  <>[][~ \E n \in Node : WakesUp(n)]_vars =>
  \A n \in Node : n \in present ~> Settled(n) \/ Asleep(n, node[n]) \/ n \notin present

\* When from some time on every node is complete or dead, the watchers are told that
\* the nodes have been queried.
QueriesAnnounced ==
  <>[](\A n \in present : Settled(n)) => <>allQueried
=============================================================================
