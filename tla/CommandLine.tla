---------------------------- MODULE CommandLine ----------------------------
(***************************************************************************)
(* What the commands make of a file: compress decides a format from -f and *)
(* the output's name and writes it; list, test and decompress, and the     *)
(* window, each decide a format from the first bytes and the name, and     *)
(* send the file to a reader or a decoder by tables of their own.  A       *)
(* self-extracting archive is also read by the stub it begins with.  The   *)
(* model follows one file from the command that wrote it (or from          *)
(* elsewhere) through any sequence of these, with one result at a time.    *)
(*                                                                         *)
(* Contents are layers of coding over the user's data, outermost last; a   *)
(* reader fails on layers that are not its own.  Names are the extensions  *)
(* alone.  Levels, the options of 7z, progress and printing are left out.  *)
(***************************************************************************)
EXTENDS Naturals, SequencesExt

CONSTANTS
  Inputs,     \* contents that compress is given
  Names,      \* names it is told to write to
  Flags,      \* what compress is given with -f (None: nothing)
  Hints,      \* what decompress is given with -f
  Passwords,  \* what is given with --password (None: nothing)
  Foreign,    \* files written by other programs
  NewNames    \* names a user renames a file to

VARIABLES
  file,    \* the file under test, or NoFile
  tested,  \* the passwords with which test has accepted it
  taken,   \* the format the command line and the window have settled on
  last     \* the last command and its result

commandVars == <<file, tested, taken, last>>

None == "none"
NoFile == [is |-> "no file"]
Nothing == [is |-> "nothing"]
Broken == [is |-> "broken"]
NotTaken == [cli |-> None, window |-> None]

-----------------------------------------------------------------------------
(* Formats by name.                                                        *)

Plain ==
  {"zip", "zipx", "tar", "gzip", "bzip2", "brotli", "lz4", "zstd", "xz", "lzma", "lz",
   "7z", "rar", "cab", "asar", "deb", "lzh", "iso", "udf", "cpio", "wim", "zpaq", "uu",
   "xxe", "img", "aes", "bin", "isz", "arj", "ace", "arc", "alz", "z", "egg", "pea",
   "nsis", "compound"}

Wrapped == {"tar.gz", "tar.bz2", "tar.br", "tar.lz4", "tar.zst", "tar.xz", "tar.lz"}

CodecOf ==
  [f \in Wrapped |->
     CASE f = "tar.gz"  -> "gzip"   [] f = "tar.bz2" -> "bzip2" [] f = "tar.br" -> "brotli"
       [] f = "tar.lz4" -> "lz4"    [] f = "tar.zst" -> "zstd"  [] f = "tar.xz" -> "xz"
       [] f = "tar.lz"  -> "lz"]

Formats == Plain \union Wrapped

\* The names -f takes for a format.
FlagsOf(f) ==
  CASE f = "zip"      -> {"zip", "jar", "war", "apk", "ipa", "xpi"}
    [] f = "tar.gz"   -> {"tar.gz", "tgz"}
    [] f = "tar.bz2"  -> {"tar.bz2", "tbz", "tbz2"}
    [] f = "tar.zst"  -> {"tar.zst", "tzst"}
    [] f = "tar.xz"   -> {"tar.xz", "txz"}
    [] f = "tar.lz"   -> {"tar.lzma", "tar.lz", "tlz"}
    [] f = "gzip"     -> {"gz", "gzip"}
    [] f = "bzip2"    -> {"bz", "bz2", "bzip2"}
    [] f = "brotli"   -> {"br", "brotli"}
    [] f = "zstd"     -> {"zst", "zstd"}
    [] f = "img"      -> {"img", "ima"}
    [] f = "aes"      -> {"aes", "enc"}
    [] f = "compound" -> {"msi", "compound", "cfb", "ole"}
    [] f = "lzh"      -> {"lzh", "lha", "pma"}
    [] f = "wim"      -> {"wim", "swm"}
    [] f = "zpaq"     -> {"zpaq", "zpq"}
    [] f = "uu"       -> {"uu", "uue"}
    [] OTHER          -> {f}

FlagTable ==
  [n \in UNION {FlagsOf(f) : f \in Formats} |-> CHOOSE f \in Formats : n \in FlagsOf(f)]

ParseFormat(flag) == IF flag \in DOMAIN FlagTable THEN FlagTable[flag] ELSE None

\* The endings looked for first, and the single extensions.
LongEndings(f) ==
  CASE f = "tar.gz"  -> {<<"tar", "gz">>, <<"tgz">>}
    [] f = "tar.bz2" -> {<<"tar", "bz2">>, <<"tbz">>, <<"tbz2">>}
    [] f = "tar.br"  -> {<<"tar", "br">>}
    [] f = "tar.lz4" -> {<<"tar", "lz4">>}
    [] f = "tar.lz"  -> {<<"tar", "lzma">>, <<"tar", "lz">>, <<"tlz">>}
    [] f = "tar.xz"  -> {<<"tar", "xz">>, <<"txz">>}
    [] f = "tar.zst" -> {<<"tar", "zst">>, <<"tzst">>}

ExtensionsOf(f) ==
  CASE f = "bzip2"    -> {"bz", "bz2"}
    [] f = "brotli"   -> {"br"}
    [] f = "compound" -> {"msi", "msp", "mst", "cfb", "ole"}
    [] OTHER          -> FlagsOf(f)

LongTable ==
  [e \in UNION {LongEndings(f) : f \in Wrapped} |->
     CHOOSE f \in Wrapped : e \in LongEndings(f)]

ExtensionTable ==
  [e \in UNION {ExtensionsOf(f) : f \in Plain} |-> CHOOSE f \in Plain : e \in ExtensionsOf(f)]

DetectFromExtension(name) ==
  LET endings == {SubSeq(name.exts, i, Len(name.exts)) : i \in DOMAIN name.exts}
      long == endings \intersect DOMAIN LongTable
  IN  IF long # {} THEN LongTable[CHOOSE e \in long : TRUE]
      ELSE IF endings # {} /\ Last(name.exts) \in DOMAIN ExtensionTable
        THEN ExtensionTable[Last(name.exts)]
      ELSE None

-----------------------------------------------------------------------------
(* Contents.                                                               *)

\* The layers a writer puts on what it is given; img and bin copy.
LayersOf(f) ==
  CASE f \in {"zip", "zipx"}   -> <<"zip">>
    [] f \in Wrapped    -> <<"tar", CodecOf[f]>>
    [] f \in {"img", "bin"}    -> <<>>
    [] f = "aes"               -> <<"enc">>
    [] OTHER                   -> <<f>>

\* The outermost layers an archive reader opens.
Opens(f) ==
  CASE f \in {"zip", "zipx"} -> {<<"zip">>, <<"zip", "stub">>}
    [] f = "tar.lz"          -> {<<"tar", "lz">>, <<"tar", "lzma">>}
    [] f \in {"img", "bin"}  -> {<<"iso">>}
    [] f = "isz"             -> {<<"iso", "isz">>}
    [] OTHER                 -> {LayersOf(f)}

\* Two kinds of encrypted container, and two compressions behind one name.
Containers == {<<"enc">>, <<"aescrypt">>}
LzCodecs == {<<"lz">>, <<"lzma">>}

\* The outermost layer a stream decoder takes off; a wrapped TAR stays a TAR.
Decodes(f) ==
  CASE f = "tar.lz"         -> LzCodecs
    [] f \in Wrapped \ {"tar.lz"} -> {<<CodecOf[f]>>}
    [] f = "aes"            -> Containers
    [] OTHER                -> {LayersOf(f)}

\* A copy opens nothing: what was locked in it stays locked.
Peel(ways, c, pw) ==
  LET fits == {w \in ways : IsSuffix(w, c.layers)}
  IN  IF fits = {} THEN Broken
      ELSE LET w == CHOOSE x \in fits : TRUE
           IN  IF w = <<>> THEN c
               ELSE IF c.locked \notin {None, pw} THEN Broken
               ELSE [c EXCEPT !.layers = SubSeq(@, 1, Len(@) - Len(w)), !.locked = None]

\* What the first bytes say.  A TAR begins with the name of its first entry;
\* an executable counts as a ZIP when a ZIP's directory ends it.
OwnMagic == {"zip", "z", "gzip", "bzip2", "lz4", "zstd", "7z", "rar", "cab", "xz", "isz",
             "pea", "egg", "compound", "alz", "nsis"}

FileNames == [exts : Seq(STRING), upper : BOOLEAN]
Contents  == [what : STRING, begins : OwnMagic \union {None}, layers : Seq(STRING),
              many : BOOLEAN, locked : Passwords \union {None}]

ASSUME CommandAssumption ==
  /\ Names \subseteq FileNames /\ NewNames \subseteq FileNames
  /\ Inputs \subseteq Contents /\ \A c \in Inputs : c.locked = None
  /\ Foreign \subseteq [name : FileNames, content : Contents, source : Contents,
                       told : {None}, asked : {None}]

DetectFormat(c) ==
  LET outer == IF c.layers = <<>> THEN None ELSE Last(c.layers)
  IN  CASE outer \in OwnMagic    -> outer
        [] outer = "aescrypt"    -> "aes"
        [] outer = "stub"        -> "zip"
        [] outer = "tar"         -> c.begins
        [] OTHER                 -> None

-----------------------------------------------------------------------------
(* The command line's and the window's decision about a file.              *)

Wrapping ==
  [c \in {CodecOf[f] : f \in Wrapped} \union {"lzma"} |->
     IF c = "lzma" THEN "tar.lz" ELSE CHOOSE f \in Wrapped : CodecOf[f] = c]

\* Faulty: the first bytes alone decide.
SingleAlways(single, wrapped, name) == single

ResolveTarWrapped(single, wrapped, name) ==
  IF DetectFromExtension(name) = wrapped THEN wrapped ELSE single

DetectArchiveFormat(name, c) ==
  LET magic == DetectFormat(c)
  IN  IF magic = None THEN DetectFromExtension(name)
      ELSE IF magic \in DOMAIN Wrapping THEN ResolveTarWrapped(magic, Wrapping[magic], name)
      ELSE magic

WindowPairs ==
  {<<"zip", "zipx">>, <<"gzip", "tar.gz">>, <<"bzip2", "tar.bz2">>, <<"xz", "tar.xz">>,
   <<"zstd", "tar.zst">>, <<"lz4", "tar.lz4">>, <<"lz", "tar.lz">>, <<"lzma", "tar.lz">>}

\* Faulty: the name counts only when the first bytes say nothing.
MagicFirst(name, c) ==
  IF DetectFormat(c) = None THEN DetectFromExtension(name) ELSE DetectFormat(c)

WindowDetect(name, c) ==
  LET magic == DetectFormat(c)
      extension == DetectFromExtension(name)
  IN  IF <<magic, extension>> \in WindowPairs \/ magic = None THEN extension ELSE magic

\* Formats that take a password: to read, in either program, and to write.
ReadsPasswords == {"zip", "zipx", "7z", "rar", "aes", "alz", "ace", "arj", "arc"}
WindowPasswords == {"zip", "zipx", "7z", "rar", "alz", "aes", "arj", "ace", "arc"}
WritesPasswords == {"zip", "zipx", "7z", "aes"}

-----------------------------------------------------------------------------
(* compress.                                                               *)

SingleStream == {"gzip", "bzip2", "brotli", "lz4", "zstd", "xz", "lzma", "lz", "img", "aes",
                 "bin", "isz", "uu", "xxe"}
TarWrapped == {"tar.gz", "tar.bz2", "tar.br", "tar.lz4", "tar.zst", "tar.xz"}
ArchiveWriters ==
  {"zip", "zipx", "tar", "7z", "lzh", "iso", "udf", "asar", "cab", "deb", "wim", "cpio",
   "zpaq"} \union TarWrapped

ResolveFormat(flag, name) ==
  LET extension == IF name.exts = <<>> THEN None ELSE Last(name.exts)
      inferred == DetectFromExtension(name)
  IN  IF extension = "aes" \/ "pma" \in {flag, IF flag = None THEN extension ELSE None}
        THEN None
      ELSE IF flag # None THEN ParseFormat(flag)
      ELSE IF inferred # None THEN inferred ELSE "zip"

\* Faulty: the password is left to the writers to check.
PasswordUnchecked(input, f, pw) ==
  /\ f \notin {"rar", "nsis"}
  /\ f \in SingleStream => ~input.many

ValidateCompressInputs(input, f, pw) ==
  /\ f \notin {"rar", "nsis"}
  /\ f \in SingleStream => ~input.many
  /\ pw # None => f \in WritesPasswords

CompressSingleStream(f, pw) == f \in SingleStream /\ (f = "aes" => pw # None)

CreateWriter(f, pw) == f \in ArchiveWriters /\ (pw # None => f \in WritesPasswords)

Volume(name) == [name EXCEPT !.exts = Append(@, "001")]
IsVolume(name) == name.exts # <<>> /\ Last(name.exts) = "001"
BaseName(name) == [name EXCEPT !.exts = Front(@)]

Fails(cmd, pw) ==
  last' = [cmd |-> cmd, pw |-> pw, ok |-> FALSE, usual |-> FALSE, gives |-> Nothing]

WholeName(name) == IF IsVolume(name) THEN BaseName(name) ELSE name

\* A file can be told by its name, and a ZIP without it.
Told(f, name) == IF f \in {DetectFromExtension(WholeName(name)), "zip"} THEN f ELSE None

\* asked: the password compress was given.
Written(cmd, name, c, f, input, pw) ==
  /\ file' = [name |-> name, content |-> c, source |-> input, asked |-> pw,
              told |-> Told(f, name)]
  /\ tested' = {}
  /\ taken' = NotTaken
  /\ last' = [cmd |-> cmd, pw |-> pw, ok |-> TRUE, usual |-> FALSE, gives |-> Nothing]

\* A writer that has no encryption leaves the password aside.
Layered(input, f, layers, pw) ==
  [input EXCEPT !.layers = @ \o layers, !.many = FALSE,
                !.locked = IF f \in WritesPasswords THEN pw ELSE None]

Compress(input, name, flag, pw, split, sfx) ==
  LET f == ResolveFormat(flag, name)
      accepted ==
        /\ f # None
        /\ split => f \notin SingleStream /\ ~sfx
        /\ ValidateCompressInputs(input, f, pw)
        /\ sfx => f = "zip"
        /\ IF f \in SingleStream THEN CompressSingleStream(f, pw) ELSE CreateWriter(f, pw)
      stub == IF sfx THEN <<"stub">> ELSE <<>>
  IN  IF accepted
        THEN Written("compress", IF split THEN Volume(name) ELSE name,
                     Layered(input, f, LayersOf(f) \o stub, pw), f, input, pw)
        ELSE Fails("compress", pw) /\ UNCHANGED <<file, tested, taken>>

\* With --stdin a wrapped format compresses the TAR stream it is given.
CompressStdin(input, name, flag, pw) ==
  LET f == ParseFormat(flag)
      accepted ==
        /\ f \in SingleStream \union TarWrapped
        /\ ValidateCompressInputs(input, f, pw)
        /\ f \in SingleStream => CompressSingleStream(f, pw)
      layers == IF f \in TarWrapped THEN <<CodecOf[f]>> ELSE LayersOf(f)
  IN  /\ ~input.many
      /\ IF accepted
           THEN Written("compress", name, Layered(input, f, layers, pw),
                        IF f \in TarWrapped THEN None ELSE f, input, pw)
           ELSE Fails("compress", pw) /\ UNCHANGED <<file, tested, taken>>

-----------------------------------------------------------------------------
(* list, test, decompress and the window.  usual: as one would type it, on *)
(* the file itself, with the output in another directory.                  *)

Settle(side, f) == taken' = [taken EXCEPT ![side] = f]

Result(cmd, pw, usual, gives) ==
  last' = [cmd |-> cmd, pw |-> pw, ok |-> gives # Broken, usual |-> usual,
           gives |-> IF gives = Broken THEN Nothing ELSE gives]

Refuses(f, pw) == f = None \/ (pw # None /\ f \notin ReadsPasswords)

DecoderStreams == {"gzip", "z", "bzip2", "brotli", "lz4", "zstd", "xz", "lzma", "lz", "aes",
                   "uu", "xxe"}
DecoderWrapped == TarWrapped \union {"tar.lz"}

\* Most streams are listed by their name alone.  Of the archives only a 7z
\* hides its names behind the password.
ListArchive(f, c, pw) ==
  IF f \in {"uu", "xxe"} THEN Peel(Decodes(f), c, pw)
  ELSE IF f \in DecoderStreams THEN Nothing
  ELSE Peel(Opens(f), c, IF f = "7z" THEN pw ELSE c.locked)

List(pw) ==
  LET f == DetectArchiveFormat(file.name, file.content)
  IN  /\ IF Refuses(f, pw) THEN Fails("list", pw)
         ELSE Result("list", pw, TRUE,
                     IF ListArchive(f, file.content, pw) = Broken THEN Broken ELSE Nothing)
      /\ Settle("cli", f)
      /\ UNCHANGED <<file, tested>>

\* Faulty: the raw copies are verified by copying them.
CopiesVerified == DecoderStreams \union {"isz", "img", "bin"}

VerifiedAsStream == DecoderStreams \union {"isz"}

RunVerify(f, c, pw) ==
  IF f \in VerifiedAsStream THEN Peel(Decodes(f), c, pw) ELSE Peel(Opens(f), c, pw)

Test(pw) ==
  LET f == DetectArchiveFormat(file.name, file.content)
      ok == ~Refuses(f, pw) /\ RunVerify(f, file.content, pw) # Broken
  IN  /\ Result("test", pw, TRUE, IF ok THEN Nothing ELSE Broken)
      /\ tested' = IF ok THEN tested \union {pw} ELSE tested
      /\ Settle("cli", f)
      /\ UNCHANGED file

\* Where a decoded stream goes: its own name without the extension.  Only
\* bzip2 and the encrypted containers look past the case of the letters.
Stripped(name, f) == IF f = "z" THEN {Last(name.exts)} ELSE ExtensionsOf(f)

OutputFilename(name, f) ==
  IF /\ name.exts # <<>>
     /\ Last(name.exts) \in Stripped(name, f)
     /\ name.upper => f \in {"bzip2", "aes", "z"}
    THEN BaseName(name) ELSE name

Decoded(f, c, pw) == Peel(Decodes(f), c, pw)

\* One file, or parts put together: an ISZ in parts becomes the image, and
\* only streams go from parts to the standard output.
DecompressVolume(f, c, pw, stdout) ==
  IF f \in DecoderStreams \/ (stdout /\ f \in DecoderWrapped) THEN Decoded(f, c, pw)
  ELSE IF stdout THEN Broken
  ELSE IF f = "isz" THEN Decoded(f, c, pw)
  ELSE Peel(Opens(f), c, pw)

DecompressFile(f, c, pw, stdout, here) ==
  IF stdout
    THEN IF f \in DecoderStreams \union DecoderWrapped \union {"img", "bin", "isz"}
           THEN Decoded(f, c, pw) ELSE Broken
  ELSE IF f \in DecoderStreams
    THEN IF here /\ OutputFilename(file.name, f) = file.name THEN Broken ELSE Decoded(f, c, pw)
  ELSE Peel(Opens(f), c, pw)

Decompress(pw, hint, stdout, here) ==
  LET f == IF hint # None THEN ParseFormat(hint)
           ELSE DetectArchiveFormat(WholeName(file.name), file.content)
      usual == hint = None /\ ~stdout /\ ~here
  IN  /\ Result("decompress", pw, usual,
                IF Refuses(f, pw) THEN Broken
                ELSE IF IsVolume(file.name)
                  THEN DecompressVolume(f, file.content, pw, stdout)
                  ELSE DecompressFile(f, file.content, pw, stdout, here))
      /\ IF hint = None /\ ~IsVolume(file.name) THEN Settle("cli", f) ELSE UNCHANGED taken
      /\ UNCHANGED <<file, tested>>

DecompressStdin(pw, hint) ==
  LET f == ParseFormat(hint)
      accepted == f \in DecoderStreams \union DecoderWrapped \union {"img", "bin"}
                    /\ ~Refuses(f, pw)
  IN  /\ IF accepted THEN Result("stdin", pw, FALSE, Decoded(f, file.content, pw))
         ELSE Fails("stdin", pw)
      /\ UNCHANGED <<file, tested, taken>>

WindowStreams == {"gzip", "bzip2", "brotli", "lz4", "xz", "lzma", "lz", "zstd", "z", "uu",
                  "xxe", "aes"}

BuildReader(f, c, pw) ==
  IF f \in WindowStreams THEN Peel(Decodes(f), c, pw) ELSE Peel(Opens(f), c, pw)

ExtractInWindow(pw) ==
  LET f == WindowDetect(file.name, file.content)
      refused == f = None \/ (pw # None /\ f \notin WindowPasswords)
  IN  /\ Result("window", pw, TRUE,
                IF refused THEN Broken ELSE BuildReader(f, file.content, pw))
      /\ Settle("window", f)
      /\ UNCHANGED <<file, tested>>

\* The stub finds the ZIP behind itself by the ZIP's end record, and has no
\* way to ask for a password.
ZipBehind(c) == IsSuffix(<<"zip", "stub">>, c.layers)

StubExtracts(c) == Peel({<<"zip", "stub">>}, c, None)

RunStub ==
  /\ ZipBehind(file.content)
  /\ Result("run", None, TRUE, StubExtracts(file.content))
  /\ UNCHANGED <<file, tested, taken>>

Rename(name) ==
  /\ file' = [file EXCEPT !.name = name, !.told = Told(@, name)]
  /\ tested' = {}
  /\ taken' = NotTaken
  /\ last' = [cmd |-> "rename", pw |-> None, ok |-> TRUE, usual |-> FALSE, gives |-> Nothing]

Init ==
  /\ file \in Foreign \union {NoFile}
  /\ tested = {}
  /\ taken = NotTaken
  /\ last = [cmd |-> None, pw |-> None, ok |-> TRUE, usual |-> FALSE, gives |-> Nothing]

Create ==
  \E input \in Inputs, name \in Names, flag \in Flags, pw \in Passwords :
    \/ \E split, sfx \in BOOLEAN : Compress(input, name, flag, pw, split, sfx)
    \/ flag # None /\ CompressStdin(input, name, flag, pw)

Read ==
  \E pw \in Passwords :
    \/ List(pw)
    \/ Test(pw)
    \/ \E hint \in Hints, stdout, here \in BOOLEAN : Decompress(pw, hint, stdout, here)
    \/ \E hint \in Hints \ {None} : DecompressStdin(pw, hint)
    \/ ExtractInWindow(pw)

Next ==
  \/ file = NoFile /\ Create
  \/ file # NoFile /\ (Read \/ RunStub \/ \E name \in NewNames : Rename(name))

Spec == Init /\ [][Next]_commandVars

-----------------------------------------------------------------------------
(* Correctness.                                                            *)

\* Not told by name and first bytes, and documented so: the optical images,
\* which are opened and not restored, and a TAR whose first entry has a name
\* that begins like another format.
Misleading == file.told \in {"img", "bin", "isz"}
                \/ (file.told = "tar" /\ file.content.begins # None)

SameData(c, d) == c.what = d.what /\ c.layers = d.layers /\ c.locked = d.locked

\* What compress wrote under a name that says its format comes back as it was
\* given, with the password it was given: through decompress, whole or in
\* parts, through the window, and through a self-extracting archive's own
\* stub.  The formats of a file are decided three times over, from different
\* evidence, in main.rs, common.rs, detect.rs and the window's formats.rs.
RoundTrip ==
  (/\ file # NoFile
   /\ last.cmd \in {"decompress", "window", "run"} /\ last.usual
   /\ last.cmd = "window" => ~IsVolume(file.name)
   /\ file.told # None /\ ~Misleading
   /\ last.pw = file.asked)
    => last.ok /\ SameData(last.gives, file.source)

\* What test accepts can be read: a file that has passed test with a password
\* is not refused by decompress or by the window with the same one.  test has
\* routes of its own for thirteen formats.  An ISZ of something that is not an
\* optical image is the one known exception: test decodes it, the others open it.
TestedIsReadable ==
  (/\ file # NoFile
   /\ last.cmd \in {"decompress", "window"} /\ last.usual
   /\ last.pw \in tested
   /\ ~IsVolume(file.name))
    => last.ok \/ IsSuffix(<<"isz">>, file.content.layers)

\* The command line and the window take every file for the same format, by
\* two separate tables; a ZIPX only the window calls by its own name.
SameVerdict ==
  (taken.cli # None /\ taken.window # None)
    => taken.cli = taken.window \/ {taken.cli, taken.window} = {"zip", "zipx"}

\* A compress that was given a password and succeeded has locked the data:
\* afterwards no command, with any hint, pipe or stub, delivers it without
\* that password.  Three separate checks reject the formats that cannot.
Protected ==
  (/\ file # NoFile /\ file.asked # None
   /\ last.gives # Nothing /\ last.gives.locked = None)
    => last.pw = file.asked
=============================================================================
