-------------------------- MODULE MCExtractionDir --------------------------
(***************************************************************************)
(* Instances of ExtractionDir and of its refinement for TLC.               *)
(***************************************************************************)
EXTENDS ExtractionRefinement, TLC

CONSTANTS p1, p2, w1, w2, w3

\* Two threads of one process share NEXT_TEMP; another process has its own.
TwoAndOne == (w1 :> p1) @@ (w2 :> p1) @@ (w3 :> p2)
Threads == Permutations({w1, w2})
=============================================================================
