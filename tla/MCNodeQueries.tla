--------------------------- MODULE MCNodeQueries ---------------------------
(***************************************************************************)
(* A listening node, a battery node and the node of the controller, with a *)
(* few of the stages in which they may have something to ask.              *)
(***************************************************************************)
EXTENDS NodeQueries

CONSTANTS lamp, bat, stick

MCMayAsk == [n \in Node |->
  CASE n = lamp -> {NodeInfo, Dynamic}
    [] n = bat -> {NodeInfo, Configuration}
    [] n = stick -> {Dynamic}]
=============================================================================
