------------------------------ MODULE MCSerial ------------------------------
(***************************************************************************)
(* One listening node and the controller itself: retransmission, timeouts  *)
(* and late answers, with callback ids about to wrap.                      *)
(***************************************************************************)
EXTENDS DriverDelivery, TLC

CONSTANTS lamp, set1, get1, info1, local1

MCNode == {lamp}
MCKind == [m \in Msg |->
  CASE m = set1 -> "set"
    [] m = get1 -> "get"
    [] m = info1 -> "nodeInfo"
    [] m = local1 -> "local"]
MCTarget == [m \in Msg |-> IF m = local1 THEN Controller ELSE lamp]
MCContent == [m \in Msg |-> m]
MCQueueOf == [m \in Msg |-> CASE m = local1 -> 0
                              [] m = info1 -> 6
                              [] OTHER -> 5]
=============================================================================
