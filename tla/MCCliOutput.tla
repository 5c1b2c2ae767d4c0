----------------------------- MODULE MCCliOutput -----------------------------
(***************************************************************************)
(* CliOutput for TLC: a command that decodes or compresses to a name and a *)
(* second one that stages the same name, or extracts an archive in place.  *)
(***************************************************************************)
EXTENDS CliOutput, TLC

CONSTANTS c1, c2, x, y

Ask(ways, input, outputs, overwrites, sfx) ==
  [way : ways, input : {input}, outputs : {outputs}, overwrite : overwrites, sfx : sfx]

TwoCommands ==
     (c1 :> Ask({"decode"}, y, <<x>>, BOOLEAN, {FALSE})
              \cup Ask({"compress"}, y, <<x>>, {TRUE}, BOOLEAN))
  @@ (c2 :> Ask({"decode"}, x, <<y>>, BOOLEAN, {FALSE})
              \cup Ask({"compress"}, y, <<x>>, {TRUE}, {FALSE})
              \cup Ask(InPlace, y, <<x, x>>, BOOLEAN, {FALSE}))

=============================================================================
