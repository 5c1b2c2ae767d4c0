--------------------------- MODULE MCRegistration ---------------------------
(* A format another program opens by itself, and a compound one that only    *)
(* this program declares.                                                   *)
EXTENDS Registration

OuterOf == [t \in Types |-> IF t = "tgz" THEN {"gz"} ELSE {}]
RivalOf == [t \in Types |-> IF t = "gz" THEN "system" ELSE "none"]
=============================================================================
