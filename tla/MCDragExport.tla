----------------------------- MODULE MCDragExport -----------------------------
(***************************************************************************)
(* DragExport for TLC: two drags on each system, two roots to promise and  *)
(* a target that may be silent, refuse, answer late or ask twice.          *)
(***************************************************************************)
EXTENDS DragExport, TLC

CONSTANTS t1, r1, r2
=============================================================================
