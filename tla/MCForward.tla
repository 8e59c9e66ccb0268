----------------------------- MODULE MCForward ------------------------------
(* A small instance of Forward: an owner whose link and sockets change under *)
(* a request. *)
EXTENDS Forward

CONSTANTS o1, r1

\* No agent, one, and more than the two attempts forwardViaMesh makes.
OneOwner == {<< >>, <<o1>>, <<o1, o1, o1>>}
=============================================================================
