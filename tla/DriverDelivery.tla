--------------------------- MODULE DriverDelivery ---------------------------
(***************************************************************************)
(* The message engine implements Delivery: the place a message is found in *)
(* is its status.                                                          *)
(***************************************************************************)
EXTENDS Driver

StatusOf(m) ==
  IF m \in fresh THEN "idle"
  ELSE IF m \in deleted THEN "gone"
  ELSE IF m = currentMsg THEN "sending"
  ELSE IF \E t \in Thread : call[t].msg = m THEN "handed"
  ELSE IF \E n \in Sleepy : m \in Range(pending[n]) THEN "parked"
  ELSE "queued"

Promise == INSTANCE Delivery WITH
  Transient <- { m \in Msg : Perishable(m) },
  status <- [m \in Msg |-> StatusOf(m)]

\* Every step of the engine is a step in the life of the messages, or changes none:
\* the queues, ids, attempts, timers and late answers never show in it.
ImplementsDelivery == Promise!Spec
=============================================================================
