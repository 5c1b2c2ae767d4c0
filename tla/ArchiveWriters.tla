--------------------------- MODULE ArchiveWriters ---------------------------
(***************************************************************************)
(* What the writers of geezipx-core (core/src/archive) differ in, as far   *)
(* as the creation of an archive (ArchiveCreation) can tell them apart.    *)
(* A writer is                                                             *)
(*                                                                         *)
(*   lay       how an entry reaches the output: "measured", staged until   *)
(*             its length is known; "streamed", with its length filled in  *)
(*             afterwards; "pooled", all entries in one temporary file     *)
(*             until the end;                                              *)
(*   sized     a length announced by the caller is written first, and held *)
(*             to (ExactSizeReader);                                       *)
(*   threaded  a thread of its own encodes what is written to a pipe;      *)
(*   batched   staged entries are written several at a time;               *)
(*   twins     two entries of one name: "kept" both, "refused", refused    *)
(*             like every conflict of the "tree" they make, or "merged"    *)
(*             into the later one;                                         *)
(*   ranges    pooled payloads are found by offset and length, or else one *)
(*             after the other;                                            *)
(*   undo      what a failed entry left in the pool: "cut" off,            *)
(*             "overwritten" by the next entry, or "left";                 *)
(*   dirs      folders are written;                                        *)
(*   single    one file, without a name.                                   *)
(***************************************************************************)

Streaming ==
  [lay |-> "streamed", sized |-> FALSE, threaded |-> FALSE,
   batched |-> FALSE, twins |-> "kept", ranges |-> TRUE, undo |-> "left",
   dirs |-> TRUE, single |-> FALSE]

\* The zip crate refuses the second entry of a name.
ZipWriter == [Streaming EXCEPT !.twins = "refused"]

\* The header comes first: without an announced length the data is buffered.
TarWriter    == [Streaming EXCEPT !.lay = "measured", !.sized = TRUE]
TarBz2Writer == TarWriter
TarXzWriter  == TarWriter
TarZstWriter == TarWriter
TarLz4Writer == TarWriter
TarBrWriter  == [TarWriter EXCEPT !.threaded = TRUE]
TarGzWriter  == TarWriter
\* With more than one job.
TarGzParallel == [TarWriter EXCEPT !.threaded = TRUE]

Measuring == [Streaming EXCEPT !.lay = "measured"]
CpioWriter == Measuring
LzhWriter  == Measuring
SevenZipWriter == Streaming
SevenZipSolid  == [Measuring EXCEPT !.batched = TRUE]

Pooling == [Streaming EXCEPT !.lay = "pooled"]
DebWriter == Pooling
CabWriter == [Pooling EXCEPT !.ranges = FALSE, !.dirs = FALSE]
WimWriter == [Pooling EXCEPT !.undo = "overwritten", !.twins = "merged"]
IsoWriter  == [Pooling EXCEPT !.undo = "cut", !.twins = "tree"]
UdfWriter  == IsoWriter
AsarWriter == IsoWriter
ZpaqWriter == IsoWriter

\* The encoders of single files, and the images of one.
SingleStream == [Streaming EXCEPT !.single = TRUE]

Writers ==
  {ZipWriter, TarWriter, TarBz2Writer, TarXzWriter, TarZstWriter,
   TarLz4Writer, TarBrWriter, TarGzWriter, TarGzParallel, CpioWriter,
   LzhWriter, SevenZipWriter, SevenZipSolid, DebWriter, CabWriter, WimWriter,
   IsoWriter, UdfWriter, AsarWriter, ZpaqWriter, SingleStream}

\* Whose tests add entries after one that failed.
Recovering == {w \in Writers : w.undo # "left"} \cup {LzhWriter}
=============================================================================
