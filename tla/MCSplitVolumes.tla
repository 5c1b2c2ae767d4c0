--------------------------- MODULE MCSplitVolumes ---------------------------
(***************************************************************************)
(* SplitVolumes for TLC: two interchangeable commands splitting to one     *)
(* name, a reader, sets of up to MaxVolumes volumes.                       *)
(***************************************************************************)
EXTENDS SplitVolumes, TLC

CONSTANTS s1, s2

Commands == Permutations({s1, s2})
=============================================================================
