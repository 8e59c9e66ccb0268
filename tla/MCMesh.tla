------------------------------- MODULE MCMesh -------------------------------
(* Small instances of Mesh: p1 owns the agent connections, p2 observes. *)
EXTENDS Mesh, TLC
CONSTANTS p1, p2, c1, c2

OneHome == [c \in Conns |-> p1]

\* The connections of p1 are not told apart.
Symmetric == Permutations(Conns)

\* p1 dials p2, which cannot reach p1.
OneDials == {<<p1, p2, 1>>}
=============================================================================
