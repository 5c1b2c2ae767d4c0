---------------------------- MODULE VolumeReader ----------------------------
(***************************************************************************)
(* MultiVolumeReader: the volumes of a split archive read as one stream    *)
(* (crates/core/src/volume.rs).                                            *)
(*                                                                         *)
(* The lengths of the volumes are those found by open; a volume may be     *)
(* empty.  Files may fail to open or to read at any time, and another      *)
(* program may cut them short: the caller may try again.  A byte is its    *)
(* place in the whole.                                                     *)
(***************************************************************************)
EXTENDS Integers, Sequences, FiniteSets

CONSTANTS
  Sets,    \* the sets that may be opened: the sizes of their volumes
  MaxCuts  \* bound: volumes cut short

VARIABLES
  sizes,  \* the lengths in volumes, as they were found; empty before open
  left,   \* the lengths the files have now
  at,     \* current_index, counted from 1
  handle, \* current_reader: the volume that is open and how far it is read
  pos,    \* global_position
  res     \* what the last call returned

vars == <<sizes, left, at, handle, pos, res>>

Data(s) == [kind |-> "data", bytes |-> s]
Moved   == [kind |-> "moved", bytes |-> <<>>]
End     == [kind |-> "end", bytes |-> <<>>]
Failed  == [kind |-> "failed", bytes |-> <<>>]

Closed        == [vol |-> 0, off |-> 0]
Opened(v, o)  == [vol |-> v, off |-> o]

\* volume_offsets: where each volume begins, and, after the last, total_size.
Offset(v) ==
  LET volume_offsets[w \in 1..(Len(sizes) + 1)] ==
        IF w = 1 THEN 0 ELSE volume_offsets[w - 1] + sizes[w - 1]
  IN  volume_offsets[v]
Total     == Offset(Len(sizes) + 1)
Volumes   == 1..Len(sizes)

\* The volume which has the byte after the first p; empty ones have none.
Holding(p) == CHOOSE v \in Volumes : Offset(v) <= p /\ p < Offset(v + 1)

\* n bytes of a file, from where it is open.
Stored(h, n) == [k \in 1..n |-> Offset(h.vol) + h.off + k]

Init ==
  /\ sizes = <<>> /\ left = <<>>
  /\ at = 1 /\ handle = Closed
  /\ pos = 0 /\ res = Failed

\* open: one volume alone is no set.
Open(s) ==
  /\ sizes = <<>> /\ Len(s) >= 2
  /\ sizes' = s /\ left' = s
  /\ at' = 1 /\ handle' = Opened(1, 0)
  /\ pos' = 0 /\ res' = Moved

-----------------------------------------------------------------------------
\* A call of read has to go on to the next volume, once or, past empty ones, more
\* often, and one of them does not open; the position stays.
ReadOpenFails ==
  /\ pos < Total /\ at < Holding(pos)
  /\ \E v \in at..(Holding(pos) - 1) :
       /\ at' = v
       /\ handle' = IF v = at THEN handle ELSE Opened(v, 0)
  /\ res' = Failed
  /\ UNCHANGED <<sizes, left, pos>>

\* The file a call of read takes its bytes from.
Source == IF at = Holding(pos) THEN handle ELSE Opened(Holding(pos), 0)

\* Faulty variant: the end of a file is reported as the end of the whole.
ReadFailsQuietly ==
  /\ pos < Total
  /\ at' = Holding(pos) /\ handle' = Source
  /\ res' = IF Source.off >= left[Source.vol] THEN End ELSE Failed
  /\ UNCHANGED <<sizes, left, pos>>

\* "volume truncated after discovery", or an error of the file.
ReadFails ==
  /\ pos < Total
  /\ at' = Holding(pos) /\ handle' = Source
  /\ res' = Failed
  /\ UNCHANGED <<sizes, left, pos>>

\* A read yields bytes of one volume.  It may still yield what was cut off since:
\* BufReader has it.
ReadSome ==
  /\ pos < Total
  /\ at' = Holding(pos)
  /\ \E n \in 1..(Offset(at' + 1) - pos) :
       /\ handle' = [Source EXCEPT !.off = @ + n]
       /\ pos' = pos + n
       /\ res' = Data(Stored(Source, n))
  /\ UNCHANGED <<sizes, left>>

ReadEnd ==
  /\ pos >= Total
  /\ res' = End
  /\ UNCHANGED <<sizes, left, at, handle, pos>>

Read == ReadOpenFails \/ ReadFails \/ ReadSome \/ ReadEnd

-----------------------------------------------------------------------------
\* seek_global: the file is opened and moved before anything changes.
SeekFails ==
  /\ res' = Failed
  /\ UNCHANGED <<sizes, left, at, handle, pos>>

SeekTo(p) ==
  /\ p < Total
  /\ at' = Holding(p) /\ handle' = Opened(at', p - Offset(at'))
  /\ pos' = p /\ res' = Moved
  /\ UNCHANGED <<sizes, left>>

SeekEnd ==
  /\ at' = Len(sizes) /\ handle' = Closed
  /\ pos' = Total /\ res' = Moved
  /\ UNCHANGED <<sizes, left>>

Seek == (\E p \in 0..Total : SeekTo(p)) \/ SeekEnd \/ SeekFails

-----------------------------------------------------------------------------
\* Another program cuts a file.
CutShort(v) ==
  /\ Cardinality({w \in Volumes : left[w] < sizes[w]}) < MaxCuts
  /\ \E n \in 0..(left[v] - 1) : left' = [left EXCEPT ![v] = n]
  /\ UNCHANGED <<sizes, at, handle, pos, res>>

Use  == sizes # <<>> /\ (Read \/ Seek \/ \E v \in Volumes : CutShort(v))

Next == (\E s \in Sets : Open(s)) \/ Use

Spec == Init /\ [][Next]_vars

-----------------------------------------------------------------------------
(* Properties.                                                             *)

\* The types of the variables.
TypeOK ==
  /\ sizes \in Seq(Nat)
  /\ DOMAIN left = Volumes /\ \A v \in Volumes : left[v] \in 0..sizes[v]
  /\ at \in Volumes \cup {1}
  /\ handle = Closed \/ (handle.vol \in Volumes /\ handle.off \in 0..sizes[handle.vol])
  /\ pos \in 0..Total
  /\ res.kind \in {"data", "moved", "end", "failed"} /\ res.bytes \in Seq(1..Total)

\* To its caller the set is one file, whatever its volumes and their failures.
Whole == INSTANCE ByteStream WITH
  open <- sizes # <<>>, bytes <- [k \in 1..Total |-> k]
ImplementsByteStream == Whole!Spec
=============================================================================
