------------------------- MODULE MCRenderedRelease --------------------------
(* Small instances of RenderedRelease. *)
EXTENDS RenderedRelease, TLC

CONSTANTS o1, o2

\* A workload of a well-known kind and an object of a kind of its own.
OneOfEach == o1 :> "Deployment" @@ o2 :> "ExternalSecret"
=============================================================================
