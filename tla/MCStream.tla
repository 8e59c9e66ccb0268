------------------------------ MODULE MCStream ------------------------------
(* A session of either kind, with channels that fill up. *)
EXTENDS Stream
=============================================================================
