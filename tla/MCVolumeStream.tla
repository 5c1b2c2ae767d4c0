--------------------------- MODULE MCVolumeStream ---------------------------
(***************************************************************************)
(* VolumeStream for TLC: no limit, limits that divide the stream and       *)
(* limits that do not; sets of two and of three volumes of up to two       *)
(* bytes, so that empty volumes come first, last and in a row.             *)
(***************************************************************************)
EXTENDS VolumeStream

SomeLimits == 0..4

Parts     == 0..2
SmallSets == [1..2 -> Parts] \cup [1..3 -> Parts]
=============================================================================
