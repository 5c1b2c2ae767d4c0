--------------------------- MODULE ArchiveReaders ---------------------------
(***************************************************************************)
(* What the readers of geezipx-core (core/src/archive) differ in, as far   *)
(* as the loops of ArchiveReading can tell them apart.  A reader is        *)
(*                                                                         *)
(*   walk    how payloads are reached: "drain" and "leap" are visitors     *)
(*           that decode what lies before the next payload, or jump over   *)
(*           it; "whole" decodes each payload before the visitor sees it;  *)
(*           "scan" is a pass over a selection; "lookup" finds one entry   *)
(*           by its name;                                                  *)
(*   opens   when the file is opened: with the "reader", at its "first"    *)
(*           use, or again at every "call";                                *)
(*   same    which of two entries of one name a lookup finds, or           *)
(*           "refused": the archive is not opened;                         *)
(*   meta    records that carry no file: "none" in this format, "hidden"   *)
(*           by listing and walk, or shown by the walk ("walked");         *)
(*   tail    a walk reads what follows the last payload;                   *)
(*   keeps   the listing is kept by a reader that opens at every call;     *)
(*   cached  the decoded data may be kept with the index;                  *)
(*   outer   a container around the archive, verified on its own;          *)
(*   checks  opening the reader decodes every payload;                     *)
(*   own     its own extract_all_with_cancel: "none", "rar" or "7z".       *)
(***************************************************************************)

Lookup ==
  [walk |-> "lookup", opens |-> "reader", same |-> "first", meta |-> "none",
   tail |-> FALSE, keeps |-> FALSE, cached |-> FALSE, outer |-> FALSE,
   checks |-> FALSE, own |-> "none"]

\* visit_tar_archive over a decoder: what a visitor leaves is decoded, and so
\* is what follows the last entry.
TarStream == [Lookup EXCEPT !.walk = "drain", !.meta = "hidden", !.tail = TRUE]

TarGzReader  == TarStream
TarBz2Reader == TarStream
TarXzReader  == TarStream
TarZstReader == TarStream
TarBrReader  == TarStream
TarLz4Reader == TarStream
TarLzReader  == TarStream

\* A data member is a TAR like the others, plain or behind one of five codecs.
DebPayload == TarStream
\* The first data member that can be decoded, or the last refusal.
DebReader == DebPayload

\* A plain TAR is walked by seeking; only its listing leaves metadata out.
TarReader == [Lookup EXCEPT !.walk = "leap", !.meta = "walked"]

ZipReader == [Lookup EXCEPT !.walk = "leap", !.same = "refused"]
LzhReader == [Lookup EXCEPT !.walk = "leap"]

\* for_each_entries decodes the solid blocks in order.
SevenZipReader ==
  [Lookup EXCEPT !.walk = "drain", !.opens = "call", !.own = "7z"]

RarReader ==
  [Lookup EXCEPT !.walk = "whole", !.opens = "call", !.own = "rar"]

CpioReader == [Lookup EXCEPT !.walk = "scan", !.opens = "call"]

\* Lists, and for every entry scans from the start again.
ByName == [Lookup EXCEPT !.opens = "call"]
CabReader == ByName
ArjReader == ByName
AceReader == ByName
ArcReader == ByName
UdfReader  == [ByName EXCEPT !.keeps = TRUE]
ZpaqReader == [ByName EXCEPT !.keeps = TRUE]

AsarReader == [Lookup EXCEPT !.opens = "first"]
AlzReader  == [Lookup EXCEPT !.same = "refused"]
EggReader  == [Lookup EXCEPT !.same = "refused"]
IsoReader  == Lookup
WimReader  == Lookup
DiskImageReader == Lookup
CompoundReader  == Lookup
IszImage   == [Lookup EXCEPT !.outer = TRUE]
PeaReader  == [Lookup EXCEPT !.same = "refused", !.checks = TRUE]
NsisReader == [Lookup EXCEPT !.same = "last", !.checks = TRUE]

\* A single compressed file as an archive of one entry, in the window.
StreamReader == [Lookup EXCEPT !.opens = "call", !.cached = TRUE]
\* Its plaintext is never kept: the password may change.
AesStream == [StreamReader EXCEPT !.cached = FALSE]

Streams == {StreamReader, AesStream}

Formats ==
  {TarGzReader, TarBz2Reader, TarXzReader, TarZstReader, TarBrReader,
   TarLz4Reader, TarLzReader, DebReader, TarReader, ZipReader, LzhReader,
   SevenZipReader, RarReader, CpioReader, CabReader, ArjReader, AceReader,
   ArcReader, UdfReader, ZpaqReader, AsarReader, AlzReader, EggReader,
   IsoReader, WimReader, DiskImageReader, CompoundReader, IszImage,
   PeaReader, NsisReader, StreamReader, AesStream}
=============================================================================
