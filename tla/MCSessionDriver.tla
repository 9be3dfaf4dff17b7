--------------------------- MODULE MCSessionDriver ---------------------------
(* A small instance of SessionDriver for TLC.                              *)
EXTENDS SessionDriver

CONSTANT a

(* A task that is not urgent, then a message or a stop that is.            *)
TaskThenUrgent == [s \in Inputs |-> IF s = 1 THEN {"task"} ELSE {"message", "stop"}]
=============================================================================
