------------------------------ MODULE MCSleepy ------------------------------
(***************************************************************************)
(* A battery node that sleeps and a listening node that is probed: messages*)
(* are parked, replayed and parked again.  on1 and on2 are the same        *)
(* command, one queued after the other; ping1 probes the battery node.     *)
(***************************************************************************)
EXTENDS DriverDelivery, TLC

CONSTANTS bat, lamp, t1, on1, on2, off1, info1, sleep1, probe1, ping1, plain1

MCNode == IF probe1 \in Msg THEN {bat, lamp} ELSE {bat}
MCKind == [m \in Msg |->
  CASE m \in {on1, on2, off1} -> "set"
    [] m \in {probe1, ping1} -> "noOp"
    [] m = info1 -> "nodeInfo"
    [] m = plain1 -> "plain"
    [] m = sleep1 -> "noMoreInfo"]
MCTarget == [m \in Msg |-> CASE m = probe1 -> lamp [] m = plain1 -> Controller [] OTHER -> bat]
MCContent == [m \in Msg |-> CASE m \in {on1, on2} -> on1
                              [] OTHER -> m]
MCQueueOf == [m \in Msg |-> CASE m \in {probe1, ping1} -> 2
                              [] m = sleep1 -> 4
                              [] m = plain1 -> 0
                              [] m = info1 -> 6
                              [] OTHER -> 5]
=============================================================================
