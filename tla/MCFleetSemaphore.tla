------------------------ MODULE MCFleetSemaphore ------------------------
(* Small instances of FleetSemaphore for TLC.                            *)
EXTENDS FleetSemaphore, TLC

CONSTANTS a, b, c1, c2, c3

\* Two callers on one replica and one on another.
MCHomeOf == (c1 :> a) @@ (c2 :> a) @@ (c3 :> b)

\* The callers of replica a may be exchanged.
MCSymmetry == Permutations({c1, c2})

=========================================================================
