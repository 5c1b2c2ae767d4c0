---------------------------- MODULE VolumeStream ----------------------------
(***************************************************************************)
(* A split archive from end to end: a stream cut into volumes by           *)
(* MultiVolumeWriter and, once the set is finished, read as one stream by  *)
(* MultiVolumeReader (crates/core/src/volume.rs).  Sets that other         *)
(* programs have made, with empty volumes among them, are read as well.    *)
(***************************************************************************)
EXTENDS VolumeWriter

CONSTANTS
  ForeignSets, \* the sizes of the volumes in sets of other programs
  MaxCuts      \* bound: volumes cut short while they are read

ASSUME StreamAssumption == ForeignSets \subseteq Seq(Nat)

VARIABLES sizes, left, at, handle, pos, res

Reader == INSTANCE VolumeReader WITH Sets <- ForeignSets

readerVars == <<sizes, left, at, handle, pos, res>>

PartSizes == [v \in 1..Len(volumes) |-> Len(volumes[v])]

StreamInit == WriterInit /\ Reader!Init

WriterStep == WriterNext /\ sizes = <<>> /\ UNCHANGED <<sizes, left, at, handle, pos, res>>

ReadBack    == state = "finished" /\ Reader!Open(PartSizes) /\ UNCHANGED writerVars
ReadForeign == taken = 0 /\ (\E s \in ForeignSets : Reader!Open(s)) /\ UNCHANGED writerVars

ReaderStep == Reader!Use /\ UNCHANGED writerVars

StreamNext == WriterStep \/ ReadBack \/ ReadForeign \/ ReaderStep

StreamSpec == StreamInit /\ [][StreamNext]_<<writerVars, readerVars>>

-----------------------------------------------------------------------------
(* Properties.                                                             *)

\* To its caller the reader is one stream of bytes (volume.rs:216-260).
ImplementsByteStream == Reader!ImplementsByteStream

=============================================================================
