------------------------- MODULE MCArchiveCreation -------------------------
(***************************************************************************)
(* A folder d with a file and something else, and another file of the same *)
(* name outside; the output beside them or in the folder.  Or a folder d   *)
(* with two files and a file of the name d in another folder.              *)
(***************************************************************************)
EXTENDS ArchiveCreation

MCPaths == {<<"d">>, <<"d", "a">>, <<"d", "b">>, <<"d", "o">>, <<"a">>, <<"o">>,
            <<"e">>, <<"e", "d">>}

\* One name for a folder and a file.
Clash == [p \in MCPaths |->
  CASE p \in {<<"d">>, <<"e">>} -> "dir" [] p \in {<<"d", "a">>, <<"d", "b">>, <<"e", "d">>} -> "file"
    [] OTHER -> "none"]

MCTrees ==
  {Clash} \cup
  {[p \in MCPaths |->
      CASE p = <<"d">> -> "dir" [] p = <<"d", "a">> -> "file"
        [] p = <<"d", "b">> -> b [] p = <<"a">> -> a
        [] p = <<"o">> -> o [] OTHER -> "none"] :
     b \in {"file", "dir", "link", "special"}, a \in {"file", "dir"}, o \in {"none", "file"}}

MCLink == <<"a">>

Ask(c, s, o, r) ==
  [client |-> c, sources |-> s, output |-> o, replace |-> r, sfx |-> FALSE,
   recursive |-> TRUE]

MCRequests ==
  {Ask("window", <<<<"d">>>>, <<"o">>, r) : r \in BOOLEAN} \cup
  {Ask("window", <<<<"d", "a">>, <<"d">>>>, <<"o">>, TRUE),
   Ask("window", <<<<"d", "b">>, <<"a">>>>, <<"o">>, FALSE),
   Ask("window", <<<<"d", "a">>, <<"a">>>>, <<"o">>, FALSE),
   Ask("window", <<<<"d", "b">>>>, <<"o">>, FALSE),
   [Ask("window", <<<<"d", "a">>>>, <<"o">>, FALSE) EXCEPT !.sfx = TRUE],
   Ask("window", <<<<"d">>>>, <<"d", "o">>, FALSE),
   Ask("cli", <<<<"d">>>>, <<"d", "o">>, TRUE),
   Ask("cli", <<<<"d">>, <<"a">>>>, <<"o">>, TRUE),
   Ask("cli", <<<<"d", "a">>, <<"a">>>>, <<"o">>, TRUE),
   Ask("cli", <<<<"d", "b">>>>, <<"o">>, TRUE),
   [Ask("cli", <<<<"d">>>>, <<"o">>, TRUE) EXCEPT !.recursive = FALSE],
   Ask("cli", <<<<"d">>, <<"e", "d">>>>, <<"o">>, TRUE),
   Ask("library", <<<<"d", "a">>, <<"d", "b">>, <<"a">>>>, <<"o">>, TRUE)}
=============================================================================
