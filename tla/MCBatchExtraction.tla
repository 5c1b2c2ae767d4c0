------------------------- MODULE MCBatchExtraction -------------------------
(***************************************************************************)
(* An instance of BatchExtraction for TLC: two extractions of one archive  *)
(* into one folder, in one process or under one process identifier, the    *)
(* second after the first has died.                                        *)
(***************************************************************************)
EXTENDS BatchExtraction, TLC

CONSTANTS p1, w1, w2, a, b

Together == (w1 :> p1) @@ (w2 :> p1)

Ask(loop, entries, overwrites) ==
  [loop : {loop}, entries : {entries}, overwrite : overwrites]

TwoBatches ==
     (w1 :> Ask("window", <<a, Folder>>, {FALSE}))
  @@ (w2 :> Ask("streaming", <<a, a>>, {TRUE}) \cup Ask("indexed", <<Folder, a>>, {FALSE}))
=============================================================================
