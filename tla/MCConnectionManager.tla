------------------------ MODULE MCConnectionManager -------------------------
(* Small instances of ConnectionManager. *)
EXTENDS ConnectionManager, TLC

CONSTANTS c1, c2, k0, k1

\* One CA that verifies nobody's certificate, one that verifies everybody's.
AllOrNone == (k0 :> {}) @@ (k1 :> Conns)

\* Neither connections nor tasks are told apart.
Symmetric == Permutations(Conns) \cup Permutations(Tasks)
=============================================================================
