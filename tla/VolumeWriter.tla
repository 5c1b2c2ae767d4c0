---------------------------- MODULE VolumeWriter ----------------------------
(***************************************************************************)
(* MultiVolumeWriter: a stream of bytes cut into volumes of at most limit  *)
(* bytes (crates/core/src/volume.rs).                                      *)
(*                                                                         *)
(* Every call of the operating system may do less than asked, or fail; the *)
(* caller may try again (io::copy does after an interruption).  A byte is  *)
(* its place in the stream.                                                *)
(***************************************************************************)
EXTENDS Naturals, Sequences, SequencesExt

CONSTANTS
  Limits,    \* values of max_part_size; 0 means no limit
  MaxIndex,  \* the greatest volume number: u32::MAX in the code
  MaxBytes   \* bound: bytes in the stream

ASSUME WriterAssumption ==
  Limits \subseteq Nat /\ MaxIndex \in Nat \ {0} /\ MaxBytes \in Nat

VARIABLES
  limit,   \* max_part_size
  index,   \* current_index
  filled,  \* current_bytes
  paths,   \* created_paths, as numbers
  volumes, \* what these files hold
  taken,   \* how many bytes the calls of write have accepted
  state    \* "fine" or "failed" after a call of write, "finished"

writerVars == <<limit, index, filled, paths, volumes, taken, state>>

WriterInit ==
  /\ limit \in Limits
  /\ index = 1 /\ filled = 0
  /\ paths = <<1>> /\ volumes = << <<>> >>
  /\ taken = 0 /\ state = "fine"

\* The volume is full: the next call of write begins with a new one.
Full == limit # 0 /\ filled = limit

\* How much of len bytes the call tries to put into the current volume.
Chunk(len) ==
  LET room == IF Full THEN limit ELSE limit - filled
  IN IF limit = 0 \/ len < room THEN len ELSE room

Bytes(n) == [k \in 1..n |-> taken + k]
Added(n) == [volumes EXCEPT ![Len(volumes)] = @ \o Bytes(n)]

\* Faulty variant: the number is taken before the file is there.
NewVolumeFailsLate ==
  /\ state # "finished" /\ Full /\ taken < MaxBytes /\ index < MaxIndex
  /\ index' = index + 1 /\ state' = "failed"
  /\ UNCHANGED <<limit, filled, paths, volumes, taken>>

\* The next volume cannot be created, or there is no number for it.
NewVolumeFails ==
  /\ state # "finished" /\ Full /\ taken < MaxBytes
  /\ state' = "failed"
  /\ UNCHANGED <<limit, index, filled, paths, volumes, taken>>

\* One call of write with len bytes.  The file takes n of them, none if it fails;
\* the new volume stays in any case.
Write(len) ==
  /\ state # "finished" /\ taken + len <= MaxBytes
  /\ \E n \in 0..Chunk(len) :
       /\ \/ /\ Full /\ index < MaxIndex
             /\ index' = index + 1
             /\ paths' = Append(paths, index + 1)
             /\ volumes' = Append(volumes, Bytes(n))
             /\ filled' = n
          \/ /\ ~Full
             /\ volumes' = Added(n)
             /\ filled' = filled + n
             /\ UNCHANGED <<index, paths>>
       /\ taken' = taken + n
       /\ state' = IF n = 0 THEN "failed" ELSE "fine"
  /\ UNCHANGED limit

\* finish, by a caller whose last call of write went well.
Finish ==
  /\ state = "fine"
  /\ state' = "finished"
  /\ UNCHANGED <<limit, index, filled, paths, volumes, taken>>

WriterNext == (\E len \in 1..MaxBytes : Write(len)) \/ NewVolumeFails \/ Finish

WriterSpec == WriterInit /\ [][WriterNext]_writerVars

-----------------------------------------------------------------------------
(* Properties.                                                             *)

\* The types of the variables.
WriterTypeOK ==
  /\ limit \in Limits
  /\ index \in 1..MaxIndex
  /\ filled \in 0..MaxBytes /\ taken \in 0..MaxBytes
  /\ paths \in Seq(1..MaxIndex)
  /\ volumes \in Seq(Seq(1..MaxBytes)) /\ volumes # <<>>
  /\ state \in {"fine", "failed", "finished"}

\* The volumes have consecutive numbers, a failed creation leaves no gap; all but
\* the last are full; the counter knows how far the last is filled.
VolumesInOrder ==
  /\ paths = [k \in 1..Len(volumes) |-> k]
  /\ \A v \in 1..(Len(volumes) - 1) : Len(volumes[v]) = limit
  /\ Len(volumes[Len(volumes)]) = filled
  /\ limit # 0 => filled <= limit

\* A finished set has the number of volumes that split_output_into_volumes has
\* announced (file_size.div_ceil(max_size)): none is empty, a stream that ends
\* with a full volume is not followed by one.
AsAnnounced ==
  state = "finished" /\ limit # 0 /\ taken # 0 =>
    Len(volumes) = (taken + limit - 1) \div limit
=============================================================================
