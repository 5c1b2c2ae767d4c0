----------------------------- MODULE Workspace -----------------------------
(***************************************************************************)
(* What the user of the window works on (crates/gui-egui/src/app): the     *)
(* archive listed, its Browser, the rectangle being dragged over the rows, *)
(* the extraction form, the form for a new archive, and the passwords on   *)
(* their way to an operation.                                              *)
(*                                                                         *)
(* All of it belongs to the UI thread.  The hard part is the one engine    *)
(* job beside it: the user goes on browsing, searching and typing while a  *)
(* listing, an extraction or a chooser runs, and the result is applied to  *)
(* whatever the window shows by then.  When the job ends, and how, is the  *)
(* module AppLifecycle's question; here a job ends at any time, one way    *)
(* or the other.                                                           *)
(***************************************************************************)
EXTENDS Browser, CreateDraft

CONSTANTS
  Files,         \* archives a user may open
  Listings,      \* Listings[f]: what listing the file f may find, at different times
  Launches,      \* how the window may be started: "manager", or from the file
                 \* manager's menu: "extract", "here", "folder"
  MaxTrips       \* bound: the folders a user goes back or forward through

ASSUME WorkspaceAssumption ==
  /\ "none" \notin Files
  /\ \A f \in Files : \A entries \in Listings[f] : IsListing(entries)
  /\ Launches \subseteq {"manager", "extract", "here", "folder"}

None == "none"
Nothing == [file |-> None, entries |-> {}]      \* App::archive is None
Idle == [kind |-> None]                         \* App::active is None
NoForm == [sel |-> {{}}]
NoDrag == [file |-> None]

VARIABLES
  archive,     \* App::archive: the file listed and its entries
  br,          \* its Browser
  marquee,     \* App::marquee
  job,         \* App::active, with the request its worker took along
  form,        \* App::extraction
  pending,     \* App::pending_extraction
  typed,       \* App::read_password: the file it was typed for, or None
  retry,       \* App::retry_path
  unlock,      \* App::unlock: its path, and whether a password is typed
  shell,       \* App::shell_extraction with shell_task: what to do once listed
  draft,       \* App::draft
  creating     \* App::create_open

list  == <<archive, br, marquee>>
forms == <<form, pending, typed, retry, unlock, shell>>
new   == <<draft, creating>>
vars  == <<archive, br, marquee, job, form, pending, typed, retry, unlock, shell,
           draft, creating>>

NoUnlock == [file |-> None, password |-> FALSE]
Busy  == job # Idle
Modal == form # NoForm \/ unlock # NoUnlock \/ creating
Shell == shell # "manager"
L     == archive.entries
Listed == archive # Nothing

\* open_archive: only the listing of the shell's own archive keeps the password
\* for the extraction that follows.
Listing(f, password, forShell) ==
  [kind |-> "list", file |-> f, password |-> password,
   carry |-> IF forShell THEN password ELSE None]

\* accept_launch with one archive, or a manager without one.
Init ==
  /\ archive = Nothing /\ br = NewBrowser({}) /\ marquee = NoDrag
  /\ form = NoForm /\ pending = NoForm /\ typed = None /\ retry = None
  /\ unlock = NoUnlock /\ draft = NewDraft /\ creating = FALSE
  /\ shell \in Launches
  /\ IF shell = "manager" THEN job = Idle
     ELSE \E f \in Files : job = Listing(f, None, TRUE)

-----------------------------------------------------------------------------
(***************************************************************************)
(* Browsing: possible whenever no window lies above the list, also while   *)
(* a job runs.                                                             *)
(***************************************************************************)
Browsing == Listed /\ ~Modal /\ ~Shell
Browse(next) == br' = next /\ UNCHANGED <<archive, marquee, job, forms, new>>

\* archive_contents clears the rectangle when a row or ".." opens a folder.
Leave(next) == br' = next /\ marquee' = NoDrag /\ UNCHANGED <<archive, job, forms, new>>

ClickRow == Browsing /\ \E i \in DOMAIN br.visible, extend, toggle \in BOOLEAN :
              Browse(Select(L, br, i, extend, toggle))
ClickEmpty == Browsing /\ Browse(ClearSelection(L, br))
ClickHeader == Browsing /\ \E column \in {"name", "size"} : Browse(SortBy(L, br, column))
SecondaryClick == Browsing /\ \E i \in DOMAIN br.visible :
  Browse(IF br.visible[i] \in br.sel THEN br ELSE Select(L, br, i, FALSE, FALSE))
TypeSearch == Browsing /\ \E find \in Finds \cup {NoFind} : Browse(Search(L, br, find))
ChooseAll == Browsing /\ Browse(SelectAll(L, br))

MayTravel == Len(br.back) + Len(br.forward) < MaxTrips

OpenFolder == Browsing /\ MayTravel /\ \E i \in DOMAIN br.visible :
  IsFolder(L, br.visible[i]) /\ Leave(Navigate(L, br, br.visible[i]))
OpenParent == Browsing /\ MayTravel /\ br.dir # <<>> /\ Leave(Parent(L, br))
TreeClick == Browsing /\ MayTravel /\ \E d \in br.tree : Leave(Navigate(L, br, d))
Crumb == Browsing /\ MayTravel /\ \E n \in 0 .. Len(br.dir) :
  Browse(Navigate(L, br, SubSeq(br.dir, 1, n)))
TreeToggle == Browsing /\ \E d \in br.tree :
  (\E p \in Children(L, d) : IsFolder(L, p)) /\ Browse(ToggleFolder(L, br, d))
GoBack    == Browsing /\ Browse(Back(L, br))
GoForward == Browsing /\ Browse(Forward(L, br))

\* The keyboard (App::shortcuts).
KeyParent == Browsing /\ MayTravel /\ Browse(Parent(L, br))
KeyMove == Browsing /\ \E offset \in {-1, 1}, extend, focusOnly \in BOOLEAN :
  Browse(MoveFocus(L, br, offset, extend, focusOnly))
KeyEnd == Browsing /\ br.visible # <<>> /\ \E offset \in {-Len(br.visible), Len(br.visible)},
                                              extend \in BOOLEAN :
  Browse(MoveFocus(L, [br EXCEPT !.focus = IF @ = NoRow THEN Head(br.visible) ELSE @],
                   offset, extend, FALSE))
KeySpace == Browsing /\ br.focus # NoRow /\ Browse(Toggle(L, br, br.focus))
KeyEnter == Browsing /\ MayTravel /\ br.focus \in Range(br.visible)
  /\ IsFolder(L, br.focus) /\ Browse(Navigate(L, br, br.focus))
KeyType == Browsing /\ \E starts \in Finds : Browse(JumpTo(L, br, starts))
KeyEscape ==
  /\ Browsing /\ marquee' = NoDrag
  /\ br' = IF br.find # NoFind THEN Search(L, br, NoFind) ELSE ClearSelection(L, br)
  /\ UNCHANGED <<archive, job, forms, new>>

(***************************************************************************)
(* The rectangle: begun over the list with what was selected then, drawn   *)
(* anew each frame over the rows it covers, dropped when the button is     *)
(* released or the list under it is another one.                           *)
(***************************************************************************)
StartMarquee ==
  /\ Browsing /\ marquee = NoDrag
  /\ \E keep, toggle \in BOOLEAN :
       /\ toggle => keep
       /\ marquee' = [file |-> archive.file, dir |-> br.dir, toggle |-> toggle,
                      original |-> IF keep THEN br.sel ELSE {}]
  /\ UNCHANGED <<archive, br, job, forms, new>>

Covered(rows) ==
  LET original == marquee.original
  IN  IF marquee.toggle THEN (original \cup rows) \ (original \cap rows)
      ELSE original \cup rows

\* Faulty variant: the list under the rectangle is not looked at.
DrawMarqueeAnywhere ==
  /\ Browsing /\ marquee # NoDrag
  /\ \E i, k \in 1 .. Len(br.visible) + 1 :
       br' = SetSelection(L, br, Covered({br.visible[n] : n \in i .. k - 1}))
  /\ UNCHANGED <<archive, marquee, job, forms, new>>

DrawMarquee ==
  /\ Browsing /\ marquee # NoDrag
  /\ IF marquee.file # archive.file \/ marquee.dir # br.dir
     THEN marquee' = NoDrag /\ br' = br
     ELSE /\ \E i, k \in 1 .. Len(br.visible) + 1 :
               br' = SetSelection(L, br, Covered({br.visible[n] : n \in i .. k - 1}))
          /\ marquee' = marquee
  /\ UNCHANGED <<archive, job, forms, new>>

ReleaseMarquee ==
  /\ Browsing /\ marquee # NoDrag /\ marquee' = NoDrag
  /\ UNCHANGED <<archive, br, job, forms, new>>

-----------------------------------------------------------------------------
(***************************************************************************)
(* Work on the archive listed.  App::start refuses a second job; a request *)
(* takes the typed password along, so that it serves one operation.        *)
(***************************************************************************)
Request(kind, options) ==
  [kind |-> kind, file |-> archive.file, password |-> typed, sel |-> options.sel,
   there |-> options.there, overwrite |-> options.overwrite, dropped |-> FALSE]
All == [sel |-> {}, there |-> "named", overwrite |-> FALSE, protect |-> FALSE]

Working == Listed /\ ~Busy /\ ~Modal /\ ~Shell
Start(request) == job' = request /\ typed' = None /\ UNCHANGED <<list, new>>

Verify == Working /\ Start(Request("verify", All)) /\ UNCHANGED <<form, pending, retry, unlock, shell>>
Preview == Working /\ \E p \in Range(br.visible) :
  /\ HasEntry(L, p) /\ Start(Request("preview", [All EXCEPT !.sel = {p}]))
  /\ UNCHANGED <<form, pending, retry, unlock, shell>>

Quickly(there) == [All EXCEPT !.there = there]

\* Faulty variant of QuickExtract: no form is kept for a failure.
QuickExtractOnly == Working /\ \E there \in {"named", "beside"} :
  Start(Request("extract", Quickly(there))) /\ UNCHANGED <<form, pending, retry, unlock, shell>>

\* quick_extract: to a folder of the archive's name or beside it.
QuickExtract == Working /\ \E there \in {"named", "beside"} :
  /\ Start(Request("extract", Quickly(there)))
  /\ pending' = [Quickly(there) EXCEPT !.protect = (typed # None)]
  /\ UNCHANGED <<form, retry, unlock, shell>>

\* show_extract: the form keeps the selection as it is now.
ShowExtract == Working /\ \E sel \in {br.sel, {}} :
  /\ form' = [All EXCEPT !.sel = sel, !.protect = (typed # None)]
  /\ UNCHANGED <<list, job, pending, typed, retry, unlock, shell, new>>

\* request_export and start_native_drag: the selected rows are dragged out.
DragOut == Working /\ br.sel # {} /\ Takes(L, br.sel) # {}
  /\ Start(Request("drag", [All EXCEPT !.sel = br.sel]))
  /\ UNCHANGED <<form, pending, retry, unlock, shell>>

\* The password for the next operation, in the menu or under the failed opening
\* of the small window.
TypePassword ==
  /\ \/ ~Shell /\ ~Modal /\ Listed /\ typed' \in {archive.file, None}
     \/ Shell /\ ~Busy /\ retry # None /\ typed' \in {retry, None}
  /\ UNCHANGED <<list, job, form, pending, retry, unlock, shell, new>>

(***************************************************************************)
(* The extraction form.                                                    *)
(***************************************************************************)
Filling == form # NoForm /\ ~Busy
EditForm ==
  /\ Filling
  /\ \/ \E overwrite \in BOOLEAN :
          form' = [form EXCEPT !.overwrite = overwrite] /\ typed' = typed
     \/ form' = [form EXCEPT !.protect = ~@] /\ typed' = IF form.protect THEN None ELSE typed
     \/ form.protect /\ typed' \in {archive.file, None} /\ form' = form
  /\ UNCHANGED <<list, job, pending, retry, unlock, shell, new>>

BeginExtraction ==
  /\ Filling /\ ~(form.protect /\ typed = None)
  /\ Start(Request("extract", form))
  /\ pending' = form /\ form' = NoForm
  /\ UNCHANGED <<retry, unlock, shell>>

\* The small window closes with its form.
CancelForm ==
  /\ Filling /\ form' = NoForm /\ typed' = None
  /\ shell' = IF Shell THEN "closed" ELSE shell
  /\ UNCHANGED <<list, job, pending, retry, unlock, new>>

(***************************************************************************)
(* Opening an archive, again with a password when it could not be listed.  *)
(***************************************************************************)
Open(f, password, forShell) ==
  /\ ~Busy /\ job' = Listing(f, password, forShell)
  /\ UNCHANGED <<list, form, pending, retry, shell, new>>

OpenRecent == ~Modal /\ ~Shell /\ UNCHANGED <<typed, unlock>>
  /\ \E f \in Files : Open(f, None, FALSE)
Reload == ~Modal /\ ~Shell /\ Listed /\ UNCHANGED <<typed, unlock>>
  /\ Open(archive.file, None, FALSE)

AskPassword ==
  /\ ~Busy /\ ~Modal /\ ~Shell /\ retry # None
  /\ unlock' = [NoUnlock EXCEPT !.file = retry]
  /\ UNCHANGED <<list, job, form, pending, typed, retry, shell, new>>
AnswerPassword ==
  /\ unlock # NoUnlock
  /\ \/ unlock' = [unlock EXCEPT !.password = ~@] /\ UNCHANGED job
     \/ unlock' = NoUnlock /\ UNCHANGED job
  /\ UNCHANGED <<list, form, pending, typed, retry, shell, new>>
Reopen ==
  /\ unlock # NoUnlock /\ unlock' = NoUnlock /\ UNCHANGED typed
  /\ Open(unlock.file, IF unlock.password THEN unlock.file ELSE None, FALSE)

\* The small window retries with what is typed under the error.
ShellRetry ==
  /\ Shell /\ shell # "closed" /\ retry # None
  /\ Open(retry, typed, shell # "started") /\ typed' = None /\ UNCHANGED unlock

(***************************************************************************)
(* The form for a new archive.                                             *)
(***************************************************************************)
NewArchive ==
  /\ ~Busy /\ ~Modal /\ ~Shell /\ draft' = NewDraft /\ creating' = TRUE
  /\ UNCHANGED <<list, job, forms>>

AddSources(path) ==
  /\ draft' = WithSource(IF creating THEN draft ELSE NewDraft, path)
  /\ creating' = TRUE

Drafting == creating /\ ~Busy
EditDraft ==
  /\ Drafting
  /\ \/ \E i \in DOMAIN draft.sources : draft' = [draft EXCEPT !.sources = RemoveAt(@, i)]
     \/ draft' = [draft EXCEPT !.sources = <<>>]
     \/ \E format \in Formats : draft' = WithFormat(draft, format)
     \/ \E stub \in Stubs \cup {NoStub} : draft.format = Default /\ draft' = WithStub(draft, stub)
     \/ draft' = [draft EXCEPT !.output = Own, !.named = TRUE]
     \/ draft.format.secret /\ ~draft.format.single
        /\ draft' = IF draft.protect
                    THEN [draft EXCEPT !.protect = FALSE, !.password = FALSE, !.confirm = FALSE]
                    ELSE [draft EXCEPT !.protect = TRUE]
     \/ draft.protect /\ \E password, confirm \in BOOLEAN :
          draft' = [draft EXCEPT !.password = password, !.confirm = confirm]
  /\ UNCHANGED <<list, job, forms, creating>>

CancelDraft ==
  /\ Drafting /\ creating' = FALSE
  /\ draft' = [draft EXCEPT !.password = FALSE, !.confirm = FALSE, !.protect = FALSE]
  /\ UNCHANGED <<list, job, forms>>

\* create_archive: the passwords leave the form with the request.
CreateArchive ==
  /\ Drafting /\ ~Refused(draft)
  /\ job' = [kind |-> "compress"]
  /\ draft' = [draft EXCEPT !.password = FALSE, !.confirm = FALSE]
  /\ creating' = FALSE
  /\ UNCHANGED <<list, forms>>

\* Files dropped on the window (accept_paths): one is looked at first, unless
\* the form for a new archive is open.
Drop ==
  /\ ~Busy /\ ~Shell /\ form = NoForm /\ unlock = NoUnlock
  /\ IF creating
     THEN (\E s \in Sources : AddSources(s)) /\ UNCHANGED job
     ELSE job' = [kind |-> "choose", what |-> "dropped"] /\ UNCHANGED new
  /\ UNCHANGED <<list, forms>>

\* A system chooser, opened from the window or from a form, is a job too.
Choose ==
  /\ ~Busy
  /\ \/ ~Modal /\ ~Shell /\ job' = [kind |-> "choose", what |-> "archive"]
     \/ creating /\ \E what \in {"sources", "output"} : job' = [kind |-> "choose", what |-> what]
     \/ form # NoForm /\ job' = [kind |-> "choose", what |-> "destination"]
  /\ UNCHANGED <<list, forms, new>>

-----------------------------------------------------------------------------
(***************************************************************************)
(* Results (App::poll).                                                    *)
(***************************************************************************)
\* Faulty variant: what was typed meanwhile stays.
PasswordKept(quick) == typed
\* The field afterwards: what the listing carried, unless the extraction took it.
PasswordAfter(quick) == IF quick THEN None ELSE job.carry

ListDone(entries) ==
  /\ job.kind = "list"
  /\ archive' = [file |-> job.file, entries |-> entries]
  /\ br' = NewBrowser(entries) /\ marquee' = NoDrag /\ retry' = None
  /\ LET quick == shell \in {"here", "folder"}
         there == IF shell = "here" THEN "beside" ELSE "named"
         options == [Quickly(there) EXCEPT !.protect = (job.carry # None)]
     IN  /\ job' = IF quick
                   THEN [kind |-> "extract", file |-> job.file, password |-> job.carry,
                         sel |-> {}, there |-> there, overwrite |-> FALSE, dropped |-> FALSE]
                   ELSE Idle
         /\ typed' = PasswordAfter(quick)
         /\ pending' = IF quick THEN options ELSE pending
         /\ form' = IF shell = "extract" THEN [All EXCEPT !.protect = options.protect]
                    ELSE form
  /\ shell' = IF Shell THEN "started" ELSE shell
  /\ UNCHANGED <<unlock, new>>

Choice ==
  /\ job.kind = "choose"
  /\ \/ job.what # "dropped" /\ job' = Idle /\ UNCHANGED <<form, new>>
     \/ /\ job.what \in {"archive", "dropped"}
        /\ \E f \in Files : job' = Listing(f, None, FALSE)
        /\ UNCHANGED <<form, new>>
     \/ /\ job.what \in {"sources", "dropped"}
        /\ \E s \in Sources : AddSources(s)
        /\ job' = Idle /\ UNCHANGED form
     \/ /\ job.what = "output" /\ job' = Idle
        /\ draft' = [draft EXCEPT !.output = Own, !.named = TRUE]
        /\ UNCHANGED <<form, creating>>
     \/ /\ job.what = "destination" /\ job' = Idle
        /\ form' = IF form = NoForm THEN form ELSE [form EXCEPT !.there = "chosen"]
        /\ UNCHANGED new
  /\ UNCHANGED <<list, pending, typed, retry, unlock, shell>>

\* An operation on entries succeeds; the small window's last one closes it.
Done ==
  /\ job.kind \in {"verify", "preview", "extract", "compress"} /\ job' = Idle
  /\ pending' = IF job.kind = "extract" THEN NoForm ELSE pending
  /\ draft' = IF job.kind = "compress" THEN [draft EXCEPT !.protect = FALSE] ELSE draft
  /\ shell' = IF Shell /\ job.kind = "extract" THEN "closed" ELSE shell
  /\ UNCHANGED <<list, form, typed, retry, unlock, creating>>

\* It fails: the form it came from is there again, without its password.
Fails ==
  /\ job.kind \notin {None, "choose", "drag"} /\ job' = Idle
  /\ form' = IF job.kind = "extract" THEN pending ELSE form
  /\ pending' = IF job.kind = "extract" THEN NoForm ELSE pending
  /\ creating' = (creating \/ job.kind = "compress")
  /\ retry' = IF job.kind = "list" THEN job.file ELSE retry
  /\ UNCHANGED <<list, typed, unlock, shell, draft>>

\* It is cancelled: nothing comes back; the small window closes.
Cancelled ==
  /\ job.kind \notin {None, "choose", "drag"} /\ job' = Idle
  /\ pending' = IF job.kind = "extract" THEN NoForm ELSE pending
  /\ retry' = IF job.kind = "list" THEN job.file ELSE retry
  /\ shell' = IF Shell THEN "closed" ELSE shell
  /\ UNCHANGED <<list, form, typed, unlock, new>>

\* A drag ends in nothing, or, on Windows, in an extraction by this window.
DragEnds ==
  /\ job.kind = "drag"
  /\ job' \in {Idle, [job EXCEPT !.kind = "extract", !.there = "dropped", !.dropped = TRUE]}
  /\ UNCHANGED <<list, forms, new>>

BrowseStep ==
  \/ ClickRow \/ ClickEmpty \/ ClickHeader \/ SecondaryClick \/ TypeSearch \/ ChooseAll
  \/ OpenFolder \/ OpenParent \/ TreeClick \/ Crumb \/ TreeToggle \/ GoBack \/ GoForward
  \/ KeyParent \/ KeyMove \/ KeyEnd \/ KeySpace \/ KeyEnter \/ KeyType \/ KeyEscape
  \/ StartMarquee \/ DrawMarquee \/ ReleaseMarquee
WorkStep ==
  \/ Verify \/ Preview \/ QuickExtract \/ ShowExtract \/ DragOut \/ TypePassword
  \/ EditForm \/ BeginExtraction \/ CancelForm
  \/ OpenRecent \/ Reload \/ AskPassword \/ AnswerPassword \/ Reopen \/ ShellRetry
  \/ NewArchive \/ EditDraft \/ CancelDraft \/ CreateArchive \/ Drop \/ Choose
Result ==
  \/ job.kind = "list" /\ \E entries \in Listings[job.file] : ListDone(entries)
  \/ Choice \/ Done \/ Fails \/ Cancelled \/ DragEnds

Next == shell # "closed" /\ (BrowseStep \/ WorkStep \/ Result)
Spec == Init /\ [][Next]_vars

-----------------------------------------------------------------------------
(***************************************************************************)
(* Properties.                                                             *)
(***************************************************************************)
\* What is selected is in the folder shown, of the archive shown, whatever was
\* clicked, typed, dragged or listed again meanwhile; and the rows a form, a
\* failed extraction or a running one is about are rows of the archive listed:
\* no job, drop or chooser puts another archive under a selection
\* (Browser::enter, the rectangle's checks in archive_contents, accept_paths).
SelectionIsHere ==
  /\ br.sel \subseteq Children(L, br.dir)
  /\ \A options \in {form, pending} \ {NoForm} : options.sel \subseteq RowsOf(L)
  /\ job.kind \in {"extract", "preview", "drag"} =>
       job.file = archive.file /\ job.sel \subseteq RowsOf(L)

\* The status line and the keyboard speak of the rows on screen: the selected
\* rows a search hides are counted as hidden, the bytes are those the selection
\* would extract, the tree shows the open folders' children, and the focus, which
\* Space and Enter act on, is never a row out of sight.
StatusIsTrue ==
  /\ br.visible = Shown(L, br)
  /\ br.hidden = Cardinality(br.sel \ Range(br.visible))
  /\ br.sel # {} =>
       br.bytes = Total([e \in Takes(L, br.sel) |-> IF e.dir THEN 0 ELSE e.size])
  /\ br.tree = TreeOf(L, br.expanded)
  /\ br.focus \in Range(br.visible) \cup {NoRow}

\* A password reaches the archive it was typed for and no other, although the
\* field for the next operation stays open while jobs run and archives change.
PasswordForItsArchive ==
  /\ "password" \in DOMAIN job => job.password \in {None, job.file}
  /\ Listed /\ ~Busy => typed \in {None, archive.file}

\* A failed extraction asks again with the destination, the selection and the
\* choice about existing files it was started with (docs/EGUI_GUI.md:46), be it
\* from the form, from the toolbar or from the file manager's menu.
FailureRestoresForm ==
  [][job.kind = "extract" /\ ~job.dropped /\ Fails =>
       /\ form' # NoForm
       /\ form'.sel = job.sel /\ form'.there = job.there
       /\ form'.overwrite = job.overwrite]_vars

\* In whatever order sources, formats and self-extractors are chosen, added and
\* taken away, and whatever the user named in between, the name the form proposes
\* is a name it started from with the suffix of the present choice: of the name
\* nothing is lost, no suffix stays behind and none is put on twice.  (That it is
\* none of the sources is not promised: create.rs:447-464 looks at none.)
ProposalFits ==
  draft.output # <<>> /\ ~draft.named =>
    \E base \in Bases : draft.output = base \o Suffix(draft)
=============================================================================
