------------------------------ MODULE Exchange ------------------------------
(***************************************************************************)
(* What a tunnelled request promises its caller, whatever happens to agent *)
(* connections meanwhile.  An agent runs it at most once.  The caller gets *)
(* one result: the agent's response, a refusal ("refused": the request     *)
(* cannot have run and never will), or a failure that leaves open whether  *)
(* it ran, or is still going to.                                           *)
(***************************************************************************)
EXTENDS Naturals

CONSTANT Reqs    \* tunnelled requests

VARIABLES
  runs,     \* runs[r]: how often an agent has run r
  result    \* result[r]: what the caller of r was told, "none" so far

Init ==
  /\ runs = [r \in Reqs |-> 0]
  /\ result = [r \in Reqs |-> "none"]

\* Also after a failure: the agent may be late.
Run(r) ==
  /\ runs[r] = 0
  /\ result[r] \in {"none", "failed"}
  /\ runs' = [runs EXCEPT ![r] = 1]
  /\ UNCHANGED result

Tell(r, what) ==
  /\ result[r] = "none"
  /\ result' = [result EXCEPT ![r] = what]
  /\ UNCHANGED runs

Respond(r) == runs[r] = 1 /\ Tell(r, "response")
Refuse(r) == runs[r] = 0 /\ Tell(r, "refused")
Fail(r) == Tell(r, "failed")

Next == \E r \in Reqs : Run(r) \/ Respond(r) \/ Refuse(r) \/ Fail(r)

Spec == Init /\ [][Next]_<<runs, result>>
=============================================================================
