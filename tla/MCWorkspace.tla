---------------------------- MODULE MCWorkspace ----------------------------
(***************************************************************************)
(* TLC instance of Workspace: two archives, one of which is replaced on    *)
(* disk between two listings; a folder without an entry of its own beside  *)
(* files; two searches; two sources, four formats and two self-extractors. *)
(***************************************************************************)
EXTENDS Workspace

File(path, size) == [path |-> path, dir |-> FALSE, size |-> size]

MCNames == <<"a", "d", "x">>
MCFinds == {{"a"}, {"d", "x"}}
MCFiles == {"f", "g"}
MCListings ==
  [f |-> {{File(<<"d", "x">>, 1), File(<<"a">>, 2), File(<<"x">>, 1)}, {File(<<"a">>, 1)}},
   g |-> {{[path |-> <<"d">>, dir |-> TRUE, size |-> 0], File(<<"d", "a">>, 1)}}]

MCSources == {<<"s", "txt">>, <<"s", "zip">>, <<"t">>}
ZIP == [ext |-> <<"zip">>, stream |-> FALSE, single |-> FALSE, secret |-> TRUE]
Tgz == [ext |-> <<"tar", "gz">>, stream |-> FALSE, single |-> FALSE, secret |-> FALSE]
Gz  == [ext |-> <<"gz">>, stream |-> TRUE, single |-> TRUE, secret |-> FALSE]
Aes == [ext |-> <<"enc">>, stream |-> TRUE, single |-> TRUE, secret |-> TRUE]
MCFormats == {ZIP, Tgz, Gz, Aes}
MCStubs == {[sfx |-> "Windows", ext |-> <<"exe">>], [sfx |-> "Linux", ext |-> <<>>]}

(***************************************************************************)
(* Bounds (CONSTRAINT Bound): a new archive is made while none is listed,  *)
(* from two sources; sorted lists, closed folders, focus and anchor are    *)
(* explored in a window with nothing else going on, selections in all; a   *)
(* rectangle is explored beside a listing, not beside the other work.      *)
(***************************************************************************)
Apart == /\ Listed => (draft = NewDraft /\ ~creating)
         /\ Len(draft.sources) <= 2
Undisturbed == job = Idle /\ ~Modal /\ <<pending, typed, retry>> = <<NoForm, None, None>>
Plain == /\ br.column = "name" /\ ~br.descending
         /\ br.focus = NoRow /\ br.anchor = NoRow
Beside == job.kind \in {None, "list"} /\ ~Modal /\ <<pending, typed, retry>> = <<NoForm, None, None>>
Bound == /\ Apart
         /\ Undisturbed \/ Plain
         /\ marquee # NoDrag => Beside /\ Plain

\* Browser's sums, counted unit by unit, are sums.
ASSUME TotalIsSum == \A f \in [1 .. 3 -> 0 .. 3] : Total(f) = FoldFunction(+, 0, f)
=============================================================================
