--------------------------- MODULE MCCommandLine ---------------------------
(***************************************************************************)
(* CommandLine on the names and inputs that tell its tables apart.         *)
(***************************************************************************)
EXTENDS CommandLine

Data(what, begins, layers, many) ==
  [what |-> what, begins |-> begins, layers |-> layers, many |-> many, locked |-> None]

\* A folder, a text whose name begins like a bzip2 stream, an optical
\* image, an archive and a TAR.
MCInputs ==
  {Data("folder", None, <<>>, TRUE), Data("BZhistory", "bzip2", <<>>, FALSE),
   Data("disk", None, <<"iso">>, FALSE), Data("kept", None, <<"zip">>, FALSE),
   Data("backup", None, <<"tar">>, FALSE)}

Lower(exts) == [exts |-> exts, upper |-> FALSE]
Upper(exts) == [exts |-> exts, upper |-> TRUE]

\* Every extension the program knows, in small letters and some in capitals,
\* and names that say nothing.
MCNames ==
  {Lower(<<e>>) : e \in DOMAIN ExtensionTable \union {"dat"}}
    \union {Lower(e) : e \in DOMAIN LongTable \union {<<>>}}
    \union {Upper(<<e>>) : e \in {"gz", "bz2", "tgz"}}

MCFlags == {None, "zip", "tzst", "br", "bin", "enc", "pma"}
MCHints == {None, "tzst", "bin"}
MCPasswords == {None, "secret"}

MCNewNames == {Lower(<<"dat">>), Lower(<<"tar", "gz">>)}

\* One file of each format, as other programs write them, and locked ones.
Elsewhere(f, layers, password) ==
  [name |-> Lower(IF f \in Plain THEN <<CHOOSE e \in ExtensionsOf(f) : TRUE>>
                  ELSE CHOOSE e \in LongEndings(f) : TRUE),
   content |-> [Data("notes", None, layers, FALSE) EXCEPT !.locked = password],
   source |-> Data("notes", None, <<>>, FALSE), told |-> None, asked |-> None]

MCForeign ==
  {Elsewhere(f, l, None) : <<f, l>> \in {<<g, w>> \in Formats \X
     UNION {Opens(h) \union Decodes(h) : h \in Formats} : w \in Opens(g)}}
    \union {Elsewhere("aes", <<"aescrypt">>, "secret")}
    \union {Elsewhere(f, <<f>>, "secret") : f \in {"rar", "alz", "ace", "arj", "arc"}}
=============================================================================
