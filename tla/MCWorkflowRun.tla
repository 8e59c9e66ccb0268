--------------------------- MODULE MCWorkflowRun ---------------------------
(* The WorkflowRun controller with two additional resources. *)
EXTENDS WorkflowRun, TLC

CONSTANTS e1, e2

TwoExtras == {e1, e2}
=============================================================================
