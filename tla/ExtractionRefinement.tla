------------------------ MODULE ExtractionRefinement ------------------------
(***************************************************************************)
(* write_file implements AtomicOutput wherever it can link or rename.  A   *)
(* call is committed once its file has taken the name; an error is         *)
(* reported when the guard has been dropped.  The copy under the final     *)
(* name, which the code falls back to where hard links are missing, is no  *)
(* atomic step, and is left out.                                           *)
(***************************************************************************)
EXTENDS ExtractionDir

Entry(f) == IF f = NoFile THEN NoFile ELSE [by |-> f.by, call |-> f.call]

Status(w) ==
  CASE pc[w] = "idle" -> "idle"
    [] pc[w] = "drop" /\ result[w] = "ok" -> "committed"
    [] OTHER -> "running"

Atomic == INSTANCE AtomicOutput WITH
  store   <- [l \in Leaves |-> Entry(leaf[l])],
  status  <- [w \in Writers |-> Status(w)],
  outcome <- [w \in Writers |-> IF pc[w] = "idle" THEN result[w] ELSE "none"]

FallbackFree == \A w \in Writers : pc[w] \notin {"fallback", "copy", "unpublish"}

\* The destination behaves as if each entry were put in place in one step
\* ("transactional output", extraction.rs:1), as long as no call is in the
\* fallback: a call that links or renames is atomic even on a filesystem where
\* others have copied.
ImplementsAtomicOutput ==
  /\ Atomic!Init
  /\ [][FallbackFree /\ FallbackFree' => [Atomic!Next]_(Atomic!vars)]_vars
=============================================================================
