------------------------------ MODULE MCTunnel ------------------------------
(* Small instances of Tunnel: one agent that reconnects. *)
EXTENDS Tunnel
CONSTANTS a1, c1, c2

Reconnecting == [c \in Conns |-> a1]
=============================================================================
