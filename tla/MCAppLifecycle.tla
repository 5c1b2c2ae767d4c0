--------------------------- MODULE MCAppLifecycle ---------------------------
(***************************************************************************)
(* AppLifecycle for TLC: both kinds of systems at once.                    *)
(***************************************************************************)
EXTENDS AppLifecycle

AllSystems == {"windows", "other"}
=============================================================================
