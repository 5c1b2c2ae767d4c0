---------------------------- MODULE CreateDraft ----------------------------
(***************************************************************************)
(* The form for a new archive (crates/gui-egui/src/app/create.rs,          *)
(* App::add_sources and App::create_archive in app/mod.rs): its sources,   *)
(* where the archive goes, and how the name it proposes follows the        *)
(* format the user picks.                                                  *)
(*                                                                         *)
(* A file name is the sequence of its parts between the dots; the folder   *)
(* is left out (a proposal goes beside the first source).                  *)
(***************************************************************************)
EXTENDS Naturals, Sequences, FiniteSets, SequencesExt

CONSTANTS
  Sources,      \* the names of the files and folders a user adds
  Formats,      \* the formats offered: [ext, stream, single, secret]
  Default,      \* WRITE_FORMATS[0], ZIP
  Stubs         \* the self-extractor targets this build has, with their suffix

NoStub == [sfx |-> "none", ext |-> <<>>]
Own    == <<"own name">>     \* a name the user types

Parts == STRING \union {"own name", "-archive"}

ASSUME DraftAssumption ==
  /\ Sources \subseteq Seq(Parts) \ {<<>>}
  /\ Default \in Formats /\ Default.secret
  /\ \A f \in Formats : f.ext \in Seq(Parts) /\ f.ext # <<>> /\ (f.stream => f.single)
  /\ NoStub \notin Stubs /\ \A stub \in Stubs : stub.ext \in Seq(Parts)

\* Draft::default; "named" remembers that the user has named the output since
\* the proposal last followed a format.
NewDraft == [sources |-> <<>>, output |-> <<>>, format |-> Default, stub |-> NoStub,
             password |-> FALSE, confirm |-> FALSE, protect |-> FALSE,
             named |-> FALSE]

Suffix(d) == IF d.stub # NoStub THEN d.stub.ext ELSE d.format.ext

Stem(name) == IF Len(name) > 1 THEN Front(name) ELSE name

\* suggested_output: the first source's name with the suffix, never that source.
Suggested(sources, format, suffix) ==
  LET base == IF format.stream THEN Head(sources) ELSE Stem(Head(sources))
  IN  IF base \o suffix = Head(sources)
      THEN base \o <<"-archive">> \o suffix
      ELSE base \o suffix

\* The names a proposal can start from: of a source, whole or without its last
\* part, with the ending that tells it from the source; or the user's own.
Stems == Sources \cup {Stem(name) : name \in Sources}
Bases == {Own} \cup Stems \cup {stem \o <<"-archive">> : stem \in Stems}

\* Paths are added one after the other; a source is listed once.
WithSource(d, path) ==
  LET added == IF path \in Range(d.sources) THEN d
               ELSE [d EXCEPT !.sources = Append(@, path)]
  IN  IF added.output = <<>> /\ added.sources # <<>>
      THEN [added EXCEPT !.output = Suggested(added.sources, added.format, Suffix(added)),
                         !.named  = FALSE]
      ELSE added

\* replace_output_suffix: the old suffix, if the name has it, gives way to the new.
Renamed(d, old) ==
  IF d.output = <<>> THEN d
  ELSE LET bare == IF IsSuffix(old, d.output) /\ Len(d.output) > Len(old)
                   THEN SubSeq(d.output, 1, Len(d.output) - Len(old))
                   ELSE d.output
       IN  [d EXCEPT !.output = bare \o Suffix(d), !.named = FALSE]

\* change_format, with the protection the format allows or demands.
WithFormat(d, format) ==
  LET old       == Suffix(d)
      automatic == d.sources # <<>> /\ Suggested(d.sources, d.format, old) = d.output
      changed   == [d EXCEPT !.format = format, !.stub = NoStub]
      moved     == IF automatic
                   THEN [changed EXCEPT
                           !.output = Suggested(d.sources, format, Suffix(changed)),
                           !.named  = FALSE]
                   ELSE Renamed(changed, old)
  IN  IF format = d.format THEN d
      ELSE IF ~format.secret
           THEN [moved EXCEPT !.password = FALSE, !.confirm = FALSE, !.protect = FALSE]
           ELSE [moved EXCEPT !.protect = @ \/ (format.single /\ format.secret)]

\* Faulty variant: the name is left as it is.
StubOnly(d, stub) == [d EXCEPT !.stub = stub]

\* The self-extractor box and its list of targets, offered for ZIP only.
WithStub(d, stub) ==
  IF stub = d.stub THEN d ELSE Renamed([d EXCEPT !.stub = stub], Suffix(d))

\* The form's own check before any work starts.
Refused(d) ==
  \/ d.protect /\ ~d.password
  \/ d.password # d.confirm
  \/ d.sources = <<>> \/ d.output = <<>>
  \/ d.format.single /\ d.format.secret /\ ~d.password     \* AES
  \/ d.format.single /\ Len(d.sources) # 1
=============================================================================
