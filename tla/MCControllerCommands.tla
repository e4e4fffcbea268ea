----------------------- MODULE MCControllerCommands -----------------------
(***************************************************************************)
(* A call of AddDevice and one of a command for the node.                  *)
(***************************************************************************)
EXTENDS ControllerCommands

CONSTANTS add, other

MCKinds == [c \in Call |-> IF c = add THEN {AddDevice} ELSE {AssignReturnRoute, RequestNodeNeighborUpdate}]
=============================================================================
