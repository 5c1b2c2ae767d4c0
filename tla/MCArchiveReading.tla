-------------------------- MODULE MCArchiveReading --------------------------
(***************************************************************************)
(* Two names; archives with one entry, two, twins, and a metadata record   *)
(* before the entries.                                                     *)
(***************************************************************************)
EXTENDS ArchiveReading

CONSTANTS a, b

MCShapes == {<<a>>, <<b, a>>, <<a, b, a>>, <<Meta, b, a>>}
=============================================================================
