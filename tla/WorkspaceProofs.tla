-------------------------- MODULE WorkspaceProofs --------------------------
(***************************************************************************)
(* Proofs about Workspace, for any archives, names, formats and ways of    *)
(* starting the window: a password reaches only the archive it was typed   *)
(* for, a failed extraction brings its form back, the name the form for a  *)
(* new archive proposes fits its format, the Browser's copies are true     *)
(* after every operation, and what is selected or worked on is in the      *)
(* archive on screen.                                                      *)
(***************************************************************************)
EXTENDS Workspace, FiniteSetTheorems, FunctionTheorems, SequenceTheorems,
        WellFoundedInduction, TLAPS

\* The jobs that read the archive listed, and what a form holds.
Operations == {"verify", "preview", "extract", "drag"}
OptionFields == {"sel", "there", "overwrite", "protect"}

\* What the engine's job carries.
JobInv ==
  /\ job.kind \in {None, "list", "choose", "compress"} \cup Operations
  /\ job.kind = None => job = Idle
  /\ "password" \in DOMAIN job => job.password \in {None, job.file}
  /\ job.kind = "list" => job.file \in Files /\ job.carry \in {None, job.file}
  /\ job.kind \in Operations =>
       /\ {"kind", "file", "password", "sel", "there", "overwrite", "dropped"} = DOMAIN job
       /\ Listed
  /\ job.kind = "drag" => ~job.dropped

\* A form is about an archive that is listed; the one kept for a failure is the
\* one the running extraction was started with.
FormInv ==
  /\ \A options \in {form, pending} :
       options = NoForm \/ (DOMAIN options = OptionFields /\ Listed)
  /\ job.kind = "extract" /\ ~job.dropped =>
       /\ pending # NoForm /\ pending.sel = job.sel
       /\ pending.there = job.there /\ pending.overwrite = job.overwrite

\* The password in the field, and the archives that may be opened again.
FieldInv ==
  /\ Listed => archive.file \in Files /\ typed \in {None, archive.file}
  /\ retry \in Files \cup {None}
  /\ unlock = NoUnlock \/ unlock \in [file : Files, password : BOOLEAN]

\* The small window has one archive only, listed once.
ShellInv ==
  Shell =>
    /\ ~creating /\ unlock = NoUnlock /\ job.kind # "compress"
    /\ job.kind = "choose" => job.what = "destination"
    /\ job.kind = "list" => ~Listed /\ typed = None
    /\ retry # None => ~Listed /\ typed \in {None, retry}

\* Inductive: the job, the forms, the fields, the small window.
WorkInv == JobInv /\ FormInv /\ FieldInv /\ ShellInv

\* The form for a new archive.
DraftTypes ==
  [sources : Seq(Sources), output : Seq(Parts), format : Formats, stub : Stubs \cup {NoStub},
   password : BOOLEAN, confirm : BOOLEAN, protect : BOOLEAN, named : BOOLEAN]

\* The user's name, or a name the form started from with the present suffix.
Fits(d) ==
  d.output # <<>> =>
    /\ d.named => d.output = Own
    /\ ~d.named => \E base \in Bases : d.output = base \o Suffix(d)

Good(d) == d \in DraftTypes /\ Fits(d)

-----------------------------------------------------------------------------
(* Browsing touches nothing else.                                          *)

LEMMA BrowsingOnly == BrowseStep => UNCHANGED <<archive, job, forms, new>>
<1> SUFFICES ASSUME BrowseStep PROVE UNCHANGED <<archive, job, forms, new>>
  OBVIOUS
<1> USE DEF Browse, Leave
<1>1. CASE ClickRow \/ ClickEmpty \/ ClickHeader \/ SecondaryClick \/ TypeSearch \/ ChooseAll
  BY <1>1 DEF ClickRow, ClickEmpty, ClickHeader, SecondaryClick, TypeSearch, ChooseAll
<1>2. CASE OpenFolder \/ OpenParent \/ TreeClick \/ Crumb \/ TreeToggle \/ GoBack \/ GoForward
  BY <1>2 DEF OpenFolder, OpenParent, TreeClick, Crumb, TreeToggle, GoBack, GoForward
<1>3. CASE KeyParent \/ KeyMove \/ KeyEnd \/ KeySpace \/ KeyEnter \/ KeyType \/ KeyEscape
  BY <1>3 DEF KeyParent, KeyMove, KeyEnd, KeySpace, KeyEnter, KeyType, KeyEscape
<1>4. CASE StartMarquee \/ DrawMarquee \/ ReleaseMarquee
  BY <1>4 DEF StartMarquee, DrawMarquee, ReleaseMarquee
<1> QED
  BY <1>1, <1>2, <1>3, <1>4 DEF BrowseStep

-----------------------------------------------------------------------------
(* The invariant of jobs, forms and passwords.                             *)

\* The variables it speaks of.
LEMMA WorkFrame ==
  ASSUME WorkInv, UNCHANGED <<archive, job, forms, creating>> PROVE WorkInv'
BY DEF WorkInv, JobInv, FormInv, FieldInv, ShellInv, Listed, Shell, forms

LEMMA InitWork == Init => WorkInv
<1> SUFFICES ASSUME Init PROVE WorkInv
  OBVIOUS
<1>1. CASE shell = "manager"
  BY <1>1 DEF Init, WorkInv, JobInv, FormInv, FieldInv, ShellInv, Listed, Shell, Idle,
     Operations, Nothing, None
<1>2. CASE shell # "manager"
  <2>1. PICK f \in Files : job = Listing(f, None, TRUE)
    BY <1>2 DEF Init
  <2> QED
    BY <1>2, <2>1 DEF Init, WorkInv, JobInv, FormInv, FieldInv, ShellInv, Listed, Shell,
       Listing, Operations, Nothing, None
<1> QED
  BY <1>1, <1>2

\* A job on the archive listed begins with the password in the field.
LEMMA Begins ==
  ASSUME WorkInv, Listed, ~Busy, NEW kind \in Operations, NEW options,
         kind = "extract" => /\ pending' # NoForm /\ pending'.sel = options.sel
                             /\ pending'.there = options.there
                             /\ pending'.overwrite = options.overwrite,
         Start(Request(kind, options)),
         \A o \in {form', pending'} : o = NoForm \/ DOMAIN o = OptionFields,
         UNCHANGED <<retry, unlock, shell>>
  PROVE  WorkInv'
<1>1. /\ job' = [kind |-> kind, file |-> archive.file, password |-> typed, sel |-> options.sel,
                 there |-> options.there, overwrite |-> options.overwrite, dropped |-> FALSE]
      /\ typed' = None /\ archive' = archive /\ creating' = creating
  BY DEF Start, Request, list, new
<1>2. JobInv'
  BY <1>1 DEF WorkInv, JobInv, FieldInv, Listed, Operations, None
<1>3. FormInv'
  BY <1>1 DEF FormInv, Listed
<1>4. FieldInv' /\ ShellInv'
  BY <1>1 DEF WorkInv, FieldInv, ShellInv, Listed, Shell, Operations
<1> QED
  BY <1>2, <1>3, <1>4 DEF WorkInv

LEMMA WorkingKeeps ==
  ASSUME WorkInv, Verify \/ Preview \/ QuickExtract \/ DragOut PROVE WorkInv'
<1>1. Listed /\ ~Busy /\ UNCHANGED <<form, retry, unlock, shell>>
  BY DEF Verify, Preview, QuickExtract, DragOut, Working
<1>2. \A o \in {form, pending} : o = NoForm \/ DOMAIN o = OptionFields
  BY DEF WorkInv, FormInv
<1>3. CASE Verify
  BY <1>1, <1>2, <1>3, Begins DEF Verify, Operations
<1>4. CASE Preview
  BY <1>1, <1>2, <1>4, Begins DEF Preview, Operations
<1>5. CASE DragOut
  BY <1>1, <1>2, <1>5, Begins DEF DragOut, Operations
<1>6. CASE QuickExtract
  <2>1. PICK there \in {"named", "beside"} :
          /\ Start(Request("extract", Quickly(there)))
          /\ pending' = [Quickly(there) EXCEPT !.protect = (typed # None)]
    BY <1>6 DEF QuickExtract
  <2>2. /\ DOMAIN pending' = OptionFields /\ pending'.sel = Quickly(there).sel
        /\ pending'.there = Quickly(there).there
        /\ pending'.overwrite = Quickly(there).overwrite
    BY <2>1 DEF Quickly, All, OptionFields
  <2>3. pending' # NoForm
    BY <2>2 DEF NoForm, OptionFields
  <2> QED
    BY <1>1, <1>2, <2>1, <2>2, <2>3, Begins DEF Operations
<1> QED
  BY <1>3, <1>4, <1>5, <1>6

LEMMA FillingKeeps ==
  ASSUME WorkInv, ShowExtract \/ TypePassword \/ EditForm \/ BeginExtraction \/ CancelForm
  PROVE  WorkInv'
<1> USE DEF WorkInv
<1>1. CASE ShowExtract
  <2>1. PICK sel \in {br.sel, {}} :
          form' = [All EXCEPT !.sel = sel, !.protect = (typed # None)]
    BY <1>1 DEF ShowExtract
  <2>2. DOMAIN form' = OptionFields
    BY <2>1 DEF All, OptionFields
  <2> QED
    BY <1>1, <2>2 DEF ShowExtract, Working, JobInv, FormInv, FieldInv, ShellInv, Listed, Shell, list, new
<1>2. CASE TypePassword
  <2>1. UNCHANGED <<archive, job, form, pending, retry, unlock, shell, creating>>
    BY <1>2 DEF TypePassword, list, new
  <2>2. JobInv' /\ FormInv'
    BY <2>1 DEF JobInv, FormInv, Listed
  <2>3. CASE ~Shell
    BY <1>2, <2>1, <2>2, <2>3 DEF TypePassword, FieldInv, ShellInv, Listed, Shell
  <2>4. CASE Shell
    <3>1. job.kind # "list" /\ retry # None /\ typed' \in {retry, None}
      BY <1>2, <2>4 DEF TypePassword, Busy, Idle, None
    <3> QED
      BY <2>1, <2>2, <2>4, <3>1 DEF FieldInv, ShellInv, Listed, Shell
  <2> QED
    BY <2>3, <2>4
<1>3. CASE EditForm
  <2>1. /\ Listed /\ DOMAIN form = OptionFields
    BY <1>3 DEF EditForm, Filling, FormInv
  <2>2. DOMAIN form' = OptionFields /\ typed' \in {typed, archive.file, None}
    BY <1>3, <2>1 DEF EditForm, OptionFields
  <2>3. job = Idle
    BY <1>3 DEF EditForm, Filling, Busy
  <2> QED
    BY <1>3, <2>1, <2>2, <2>3 DEF EditForm, JobInv, FormInv, FieldInv, ShellInv, Listed, Shell, Idle,
       list, new
<1>4. CASE BeginExtraction
  <2>1. Listed /\ ~Busy /\ form # NoForm /\ DOMAIN form = OptionFields
    BY <1>4 DEF BeginExtraction, Filling, FormInv
  <2>2. /\ Start(Request("extract", form)) /\ pending' = form /\ form' = NoForm
        /\ UNCHANGED <<retry, unlock, shell>>
    BY <1>4 DEF BeginExtraction
  <2> QED
    BY <2>1, <2>2, Begins DEF Operations
<1>5. CASE CancelForm
  BY <1>5 DEF CancelForm, Filling, Busy, JobInv, FormInv, FieldInv, ShellInv, Listed, Shell, list, new
<1> QED
  BY <1>1, <1>2, <1>3, <1>4, <1>5

\* An archive is listed, with the password typed for it or none.
LEMMA Opens ==
  ASSUME WorkInv, NEW f \in Files, NEW password \in {None, f}, NEW forShell \in BOOLEAN,
         Open(f, password, forShell), typed' \in {typed, None},
         unlock' \in {unlock, NoUnlock},
         Shell => ~Listed /\ typed' = None
  PROVE  WorkInv'
<1>1. /\ job' = [kind |-> "list", file |-> f, password |-> password,
                 carry |-> IF forShell THEN password ELSE None]
      /\ UNCHANGED <<archive, form, pending, retry, shell, creating>>
  BY DEF Open, Listing, list, new
<1>2. JobInv'
  BY <1>1 DEF JobInv, Operations, None
<1>3. FormInv'
  BY <1>1 DEF WorkInv, FormInv, Listed
<1>4. FieldInv' /\ ShellInv'
  BY <1>1 DEF WorkInv, FieldInv, ShellInv, Listed, Shell
<1> QED
  BY <1>2, <1>3, <1>4 DEF WorkInv

LEMMA OpeningKeeps ==
  ASSUME WorkInv, OpenRecent \/ Reload \/ AskPassword \/ AnswerPassword \/ Reopen \/ ShellRetry
  PROVE  WorkInv'
<1>1. CASE OpenRecent
  BY <1>1, Opens DEF OpenRecent, None
<1>2. CASE Reload
  BY <1>2, Opens DEF Reload, WorkInv, FieldInv
<1>3. CASE AskPassword
  BY <1>3 DEF AskPassword, WorkInv, JobInv, FormInv, FieldInv, ShellInv, Listed, Shell, NoUnlock,
     list, new
<1>4. CASE AnswerPassword
  BY <1>4 DEF AnswerPassword, WorkInv, JobInv, FormInv, FieldInv, ShellInv, Listed, Shell, list, new
<1>5. CASE Reopen
  <2>1. unlock.file \in Files /\ ~Shell
    BY <1>5 DEF Reopen, WorkInv, FieldInv, ShellInv
  <2> QED
    BY <1>5, <2>1, Opens DEF Reopen
<1>6. CASE ShellRetry
  <2>1. retry \in Files /\ typed \in {None, retry} /\ ~Listed
    BY <1>6 DEF ShellRetry, WorkInv, FieldInv, ShellInv
  <2> QED
    BY <1>6, <2>1, Opens DEF ShellRetry
<1> QED
  BY <1>1, <1>2, <1>3, <1>4, <1>5, <1>6

\* The form for a new archive, dropped files and choosers.
LEMMA DraftingKeeps ==
  ASSUME WorkInv,
         NewArchive \/ EditDraft \/ CancelDraft \/ CreateArchive \/ Drop \/ Choose
  PROVE  WorkInv'
<1> USE DEF WorkInv, JobInv, FormInv, FieldInv, ShellInv, Listed, Shell, list, forms, new
<1>1. CASE NewArchive
  BY <1>1 DEF NewArchive
<1>2. CASE EditDraft \/ CancelDraft
  <2>1. UNCHANGED <<archive, job, forms>> /\ (creating' = creating \/ creating' = FALSE)
    BY <1>2 DEF EditDraft, CancelDraft
  <2> QED
    BY <2>1
<1>3. CASE CreateArchive
  <2>1. job' = [kind |-> "compress"] /\ creating
    BY <1>3 DEF CreateArchive, Drafting
  <2> QED
    BY <1>3, <2>1 DEF CreateArchive, Operations, None
<1>4. ASSUME NEW what \in {"dropped", "archive", "sources", "output", "destination"},
             job' = [kind |-> "choose", what |-> what], Shell => what = "destination",
             UNCHANGED <<archive, forms, creating>>
      PROVE  WorkInv'
  BY <1>4 DEF Operations, None
<1>5. CASE Drop
  <2>1. CASE creating
    BY <1>5, <2>1 DEF Drop, AddSources
  <2>2. CASE ~creating
    BY <1>4, <1>5, <2>2 DEF Drop
  <2> QED
    BY <2>1, <2>2
<1>6. CASE Choose
  BY <1>4, <1>6 DEF Choose
<1> QED
  BY <1>1, <1>2, <1>3, <1>5, <1>6

-----------------------------------------------------------------------------
(* Results.                                                                *)

LEMMA ListDoneKeeps ==
  ASSUME WorkInv, NEW entries, ListDone(entries) PROVE WorkInv'
<1>1. /\ job.kind = "list" /\ job.file \in Files /\ job.carry \in {None, job.file}
      /\ archive' = [file |-> job.file, entries |-> entries] /\ retry' = None
      /\ shell' = (IF Shell THEN "started" ELSE shell) /\ UNCHANGED <<unlock, creating>>
  BY DEF ListDone, WorkInv, JobInv, new
<1>2. Listed'
  BY <1>1, WorkspaceAssumption DEF Listed, Nothing, None
<1>3. CASE shell \in {"here", "folder"}
  <2>1. PICK there \in {"named", "beside"} :
          /\ job' = [kind |-> "extract", file |-> job.file, password |-> job.carry, sel |-> {},
                     there |-> there, overwrite |-> FALSE, dropped |-> FALSE]
          /\ pending' = [Quickly(there) EXCEPT !.protect = (job.carry # None)]
          /\ form' = form /\ typed' = None
    BY <1>3 DEF ListDone, PasswordAfter
  <2>2. /\ DOMAIN pending' = OptionFields /\ pending'.sel = {}
        /\ pending'.there = there /\ pending'.overwrite = FALSE
    BY <2>1 DEF Quickly, All, OptionFields
  <2>3. pending' # NoForm
    BY <2>2 DEF NoForm, OptionFields
  <2>4. JobInv'
    BY <1>1, <1>2, <2>1 DEF JobInv, Operations, None
  <2>5. FormInv'
    BY <1>2, <2>1, <2>2, <2>3 DEF WorkInv, FormInv
  <2>6. FieldInv' /\ ShellInv'
    BY <1>1, <1>2, <1>3, <2>1 DEF WorkInv, FieldInv, ShellInv, Shell
  <2> QED
    BY <2>4, <2>5, <2>6 DEF WorkInv
<1>4. CASE shell \notin {"here", "folder"}
  <2>1. job' = Idle /\ typed' = job.carry /\ pending' = pending
    BY <1>4 DEF ListDone, PasswordAfter
  <2>2. form' = form \/ DOMAIN form' = OptionFields
    <3>1. \A b : DOMAIN [All EXCEPT !.protect = b] = OptionFields
      BY DEF All, OptionFields
    <3> QED
      BY <3>1 DEF ListDone
  <2>3. JobInv'
    BY <2>1 DEF JobInv, Idle, Operations, None
  <2>4. FormInv'
    BY <1>2, <2>1, <2>2 DEF WorkInv, FormInv, Idle, None
  <2>5. FieldInv' /\ ShellInv'
    BY <1>1, <1>2, <2>1 DEF WorkInv, FieldInv, ShellInv, Shell, Idle, None
  <2> QED
    BY <2>3, <2>4, <2>5 DEF WorkInv
<1> QED
  BY <1>3, <1>4

LEMMA ChoiceKeeps == ASSUME WorkInv, Choice PROVE WorkInv'
<1>1. /\ job.kind = "choose" /\ UNCHANGED <<archive, pending, typed, retry, unlock, shell>>
      /\ Shell => job.what = "destination"
  BY DEF Choice, list, WorkInv, ShellInv
<1>2. CASE job.what = "destination"
  <2>1. job' = Idle /\ creating' = creating
    BY <1>1, <1>2 DEF Choice, new
  <2>2. form' = form \/ (form # NoForm /\ form' = [form EXCEPT !.there = "chosen"])
    BY <1>2 DEF Choice
  <2>3. \A o \in {form'} : o = NoForm \/ (DOMAIN o = OptionFields /\ Listed)
    BY <2>2 DEF WorkInv, FormInv
  <2> QED
    BY <1>1, <2>1, <2>3 DEF WorkInv, JobInv, FormInv, FieldInv, ShellInv, Listed, Shell, Idle,
       Operations, None
<1>3. CASE job.what # "destination"
  <2>1. ~Shell /\ form' = form
    BY <1>1, <1>3 DEF Choice
  <2>2. job' = Idle \/ \E f \in Files : job' = Listing(f, None, FALSE)
    BY <1>3 DEF Choice
  <2>3. JobInv'
    BY <2>2 DEF JobInv, Listing, Idle, Operations, None
  <2>4. job'.kind \in {None, "list"}
    BY <2>2 DEF Idle, Listing
  <2> QED
    BY <1>1, <2>1, <2>3, <2>4 DEF WorkInv, FormInv, FieldInv, ShellInv, Listed, Shell, None
<1> QED
  BY <1>2, <1>3

LEMMA EndsKeep ==
  ASSUME WorkInv, Done \/ Fails \/ Cancelled \/ DragEnds PROVE WorkInv'
<1> USE DEF WorkInv, JobInv, FormInv, FieldInv, ShellInv, Listed, Shell, list, forms, new
<1>1. CASE Done
  BY <1>1 DEF Done, Idle, Operations, None
<1>2. CASE Fails
  BY <1>2 DEF Fails, Idle, Operations, None
<1>3. CASE Cancelled
  BY <1>3 DEF Cancelled, Idle, Operations, None
<1>4. CASE DragEnds
  <2>1. CASE job' = Idle
    BY <1>4, <2>1 DEF DragEnds, Idle, Operations, None
  <2>2. CASE job' = [job EXCEPT !.kind = "extract", !.there = "dropped", !.dropped = TRUE]
    <3>1. /\ DOMAIN job' = DOMAIN job /\ job'.kind = "extract" /\ job'.dropped
          /\ job'.password = job.password /\ job'.file = job.file
      BY <1>4, <2>2 DEF DragEnds, Operations
    <3> QED
      BY <1>4, <3>1 DEF DragEnds, Operations, None
  <2> QED
    BY <1>4, <2>1, <2>2 DEF DragEnds
<1> QED
  BY <1>1, <1>2, <1>3, <1>4

LEMMA NextWork == WorkInv /\ [Next]_vars => WorkInv'
<1> SUFFICES ASSUME WorkInv, [Next]_vars PROVE WorkInv'
  OBVIOUS
<1>1. CASE BrowseStep
  BY <1>1, BrowsingOnly, WorkFrame DEF new
<1>2. CASE WorkStep
  BY <1>2, WorkingKeeps, FillingKeeps, OpeningKeeps, DraftingKeeps DEF WorkStep
<1>3. CASE Result
  BY <1>3, ListDoneKeeps, ChoiceKeeps, EndsKeep DEF Result
<1>4. CASE UNCHANGED vars
  BY <1>4, WorkFrame DEF vars, forms
<1> QED
  BY <1>1, <1>2, <1>3, <1>4 DEF Next

LEMMA WorkInvariant == Spec => []WorkInv
BY InitWork, NextWork, PTL DEF Spec

\* PasswordForItsArchive: whatever is typed, opened, cancelled or listed again
\* meanwhile, a password goes with the archive it was typed for.
THEOREM PasswordsStayWithTheirs == Spec => []PasswordForItsArchive
<1>1. WorkInv => PasswordForItsArchive
  BY DEF WorkInv, JobInv, FieldInv, PasswordForItsArchive
<1> QED
  BY <1>1, WorkInvariant, PTL

\* FailureRestoresForm: the form that comes back is the one the failed
\* extraction was started with, however the extraction was begun.
THEOREM FormComesBack == Spec => FailureRestoresForm
<1>1. WorkInv /\ [Next]_vars =>
        [job.kind = "extract" /\ ~job.dropped /\ Fails =>
           /\ form' # NoForm
           /\ form'.sel = job.sel /\ form'.there = job.there
           /\ form'.overwrite = job.overwrite]_vars
  BY DEF WorkInv, FormInv, Fails
<1> QED
  BY <1>1, WorkInvariant, PTL DEF Spec, FailureRestoresForm

-----------------------------------------------------------------------------
(* The name proposed for a new archive.                                    *)

\* What was put behind a sequence is a suffix, and can be taken off again.
LEMMA SuffixOf ==
  ASSUME NEW S, NEW s \in Seq(S), NEW w \in Seq(S)
  PROVE  IsSuffix(w, s \o w)
<1> DEFINE t  == s \o w
           rw == Reverse(w)
           rt == Reverse(t)
<1>1. t \in Seq(S) /\ Len(t) = Len(s) + Len(w)
  OBVIOUS
<1>2. rw \in Seq(S) /\ Len(rw) = Len(w) /\ \A i \in 1..Len(w) : rw[i] = w[Len(w) - i + 1]
  BY DEF Reverse
<1>3. rt \in Seq(S) /\ Len(rt) = Len(t) /\ \A i \in 1..Len(t) : rt[i] = t[Len(t) - i + 1]
  BY <1>1 DEF Reverse
<1>4. Len(w) <= Len(t) /\ \A i \in 1..Len(w) : w[Len(w) - i + 1] = t[Len(t) - i + 1]
  BY <1>1
<1> HIDE DEF t, rw, rt
<1>5. Len(rw) <= Len(rt) /\ \A i \in 1..Len(rw) : rw[i] = rt[i]
  <2>1. Len(w) \in Nat /\ Len(t) \in Nat
    BY <1>1
  <2>2. ASSUME NEW i \in 1..Len(rw) PROVE rw[i] = rt[i]
    <3>1. i \in 1..Len(w) /\ i \in 1..Len(t)
      BY <1>2, <1>4, <2>1
    <3> QED
      BY <1>2, <1>3, <1>4, <3>1
  <2>3. Len(rw) <= Len(rt)
    BY <1>2, <1>3, <1>4
  <2> QED
    BY <2>2, <2>3
<1>6. SubSeq(rw, 1, Len(rw)) = SubSeq(rt, 1, Len(rw))
  <2> DEFINE n == Len(rw)
             a == SubSeq(rw, 1, n)
             b == SubSeq(rt, 1, n)
  <2>1. n \in Nat /\ 1 \in Int /\ n \in Int
    BY <1>2
  <2>2. (\A i \in 1..n : rw[i] \in S) /\ (\A i \in 1..n : rt[i] \in S)
    BY <1>2, <1>3, <1>5
  <2> HIDE DEF n
  <2>3. a \in Seq(S) /\ Len(a) = n /\ \A i \in 1..n : a[i] = rw[i]
    BY <2>1, <2>2, SubSeqProperties
  <2>4. b \in Seq(S) /\ Len(b) = n /\ \A i \in 1..n : b[i] = rt[i]
    BY <2>1, <2>2, SubSeqProperties
  <2>5. \A i \in 1..n : a[i] = b[i]
    BY <1>5, <2>3, <2>4 DEF n
  <2> HIDE DEF a, b
  <2>6. a = b
    BY <2>3, <2>4, <2>5, SeqEqual
  <2> QED
    BY <2>6 DEF a, b, n
<1>7. IsPrefix(rw, rt)
  BY <1>5, <1>6 DEF IsPrefix
<1> QED
  BY <1>7 DEF IsSuffix, rw, rt, t

\* The suffixes a draft may have are parts of names.
LEMMA SuffixParts ==
  ASSUME NEW d \in DraftTypes PROVE Suffix(d) \in Seq(Parts)
BY DraftAssumption DEF Suffix, DraftTypes

LEMMA Named == <<"own name">> \in Seq(Parts) /\ <<"-archive">> \in Seq(Parts)
BY DEF Parts

\* A name to start from has at least one part.
LEMMA BaseNames == /\ Bases \subseteq Seq(Parts) \ {<<>>}
                   /\ \A name \in Sources : {name, Stem(name)} \subseteq Stems
                   /\ \A stem \in Stems : {stem, stem \o <<"-archive">>} \subseteq Bases
<1> DEFINE tail == <<"-archive">>
<1>1. tail \in Seq(Parts) /\ Own \in Seq(Parts) \ {<<>>}
  BY Named DEF Own
<1>2. ASSUME NEW name \in Sources
      PROVE  name \in Seq(Parts) \ {<<>>} /\ Stem(name) \in Seq(Parts) \ {<<>>}
  <2>1. name \in Seq(Parts) /\ name # <<>>
    BY DraftAssumption
  <2>2. CASE Len(name) > 1
    <3>1. Len(name) - 1 \in 1 .. Len(name)
      BY <2>1, <2>2
    <3>2. /\ SubSeq(name, 1, Len(name) - 1) \in Seq(Parts)
          /\ Len(SubSeq(name, 1, Len(name) - 1)) = Len(name) - 1
      BY <2>1, <3>1
    <3> DEFINE front == SubSeq(name, 1, Len(name) - 1)
    <3>3. front # <<>>
      <4>1. Len(front) > 0
        BY <2>1, <2>2, <3>2
      <4> HIDE DEF front
      <4> QED
        BY <4>1
    <3> QED
      BY <2>1, <2>2, <3>2, <3>3 DEF Stem, Front
  <2>3. CASE ~(Len(name) > 1)
    BY <2>1, <2>3 DEF Stem
  <2> QED
    BY <2>1, <2>2, <2>3
<1>3. ASSUME NEW stem \in Stems PROVE stem \in Seq(Parts) \ {<<>>}
  BY <1>2 DEF Stems
<1> HIDE DEF tail
<1>4. ASSUME NEW stem \in Stems PROVE stem \o tail \in Seq(Parts) \ {<<>>}
  <2>1. stem \in Seq(Parts) /\ Len(stem) > 0
    BY <1>3
  <2>2. stem \o tail \in Seq(Parts) /\ Len(stem \o tail) = Len(stem) + Len(tail)
    BY <1>1, <2>1
  <2>3. Len(tail) \in Nat
    BY <1>1
  <2> QED
    BY <2>1, <2>2, <2>3
<1>5. Bases = {Own} \cup Stems \cup {stem \o tail : stem \in Stems}
  BY DEF Bases, tail
<1>6. Bases \subseteq Seq(Parts) \ {<<>>}
  BY <1>1, <1>3, <1>4, <1>5
<1>7. \A stem \in Stems : {stem, stem \o tail} \subseteq Bases
  BY <1>5
<1> QED
  BY <1>6, <1>7 DEF Stems, tail

\* The name of the first source, without its last part unless a stream is packed.
LEMMA SuggestedFits ==
  ASSUME NEW sources \in Seq(Sources), sources # <<>>, NEW format \in Formats,
         NEW suffix \in Seq(Parts)
  PROVE  /\ Suggested(sources, format, suffix) \in Seq(Parts)
         /\ \E b \in Bases : Suggested(sources, format, suffix) = b \o suffix
<1> DEFINE first == Head(sources)
           base == IF format.stream THEN first ELSE Stem(first)
           longer == base \o <<"-archive">>
<1>1. first \in Sources
  OBVIOUS
<1>2. base \in Bases /\ longer \in Bases
  BY <1>1, BaseNames
<1>3. Suggested(sources, format, suffix) =
        IF base \o suffix = first THEN longer \o suffix ELSE base \o suffix
  BY DEF Suggested
<1> HIDE DEF base, longer
<1>4. \A b \in Bases : b \o suffix \in Seq(Parts)
  BY BaseNames
<1> QED
  BY <1>2, <1>3, <1>4

LEMMA NewFits == Good(NewDraft)
<1>1. <<>> \in Seq(Sources) /\ <<>> \in Seq(Parts) /\ Default \in Formats
  BY DraftAssumption
<1>2. NewDraft \in DraftTypes
  BY <1>1 DEF NewDraft, DraftTypes
<1> QED
  BY <1>2 DEF Good, Fits, NewDraft

\* A change of fields that are not about the name.
LEMMA SameName ==
  ASSUME NEW d, NEW e, Good(d), e \in DraftTypes,
         e.output = d.output, e.named = d.named, e.format = d.format, e.stub = d.stub
  PROVE  Good(e)
BY DEF Good, Fits, Suffix

LEMMA WithSourceFits ==
  ASSUME NEW d, Good(d), NEW path \in Sources PROVE Good(WithSource(d, path))
<1> DEFINE added == IF path \in Range(d.sources) THEN d
                    ELSE [d EXCEPT !.sources = Append(@, path)]
<1>1. Good(added)
  <2>1. [d EXCEPT !.sources = Append(@, path)] \in DraftTypes
    <3>1. d \in DraftTypes
      BY DEF Good
    <3>2. Append(d.sources, path) \in Seq(Sources)
      BY <3>1 DEF DraftTypes
    <3> QED
      BY <3>1, <3>2 DEF DraftTypes
  <2> DEFINE e == [d EXCEPT !.sources = Append(@, path)]
  <2>2. e.output = d.output /\ e.named = d.named /\ e.format = d.format /\ e.stub = d.stub
    BY DEF Good, DraftTypes
  <2> QED
    BY <2>1, <2>2, SameName
<1> DEFINE name == Suggested(added.sources, added.format, Suffix(added))
           e == [added EXCEPT !.output = name, !.named = FALSE]
<1>2. WithSource(d, path) = IF added.output = <<>> /\ added.sources # <<>> THEN e ELSE added
  BY DEF WithSource
<1> HIDE DEF added
<1>3. ASSUME added.sources # <<>> PROVE Good(e)
  <2>1. /\ added \in DraftTypes /\ added.sources \in Seq(Sources) /\ added.format \in Formats
        /\ Suffix(added) \in Seq(Parts)
    BY <1>1, SuffixParts DEF Good, DraftTypes
  <2>2. name \in Seq(Parts) /\ \E b \in Bases : name = b \o Suffix(added)
    BY <1>3, <2>1, SuggestedFits
  <2> HIDE DEF name
  <2>3. /\ e \in DraftTypes /\ e.output = name /\ ~e.named
        /\ e.format = added.format /\ e.stub = added.stub
    BY <2>1, <2>2 DEF DraftTypes
  <2> QED
    BY <2>2, <2>3 DEF Good, Fits, Suffix
<1> QED
  BY <1>1, <1>2, <1>3

\* The old suffix is taken off and the new one put on.
LEMMA RenamedFits ==
  ASSUME NEW d, Good(d), NEW e \in DraftTypes, e.output = d.output, e.named = d.named
  PROVE  Good(Renamed(e, Suffix(d)))
<1> DEFINE old == Suffix(d)
           name == e.output
<1>1. name \in Seq(Parts) /\ old \in Seq(Parts) /\ Suffix(e) \in Seq(Parts)
  BY SuffixParts DEF Good, DraftTypes
<1>2. CASE name = <<>>
  BY <1>2 DEF Good, Renamed, Fits
<1>3. CASE name # <<>>
  <2> DEFINE bare == IF IsSuffix(old, name) /\ Len(name) > Len(old)
                     THEN SubSeq(name, 1, Len(name) - Len(old)) ELSE name
             new_name == bare \o Suffix(e)
             f == [e EXCEPT !.output = new_name, !.named = FALSE]
  <2>1. Renamed(e, old) = f
    BY <1>3 DEF Renamed
  <2>2. bare \in Bases
    <3>1. CASE d.named
      <4>1. name = Own /\ Own \in Bases
        BY <1>3, <3>1 DEF Good, Fits, Bases
      <4>2. Len(name) > Len(old) => SubSeq(name, 1, Len(name) - Len(old)) = name
        <5>1. Len(name) = 1
          <6>1. \A word : Len(<<word>>) = 1
            OBVIOUS
          <6>2. Len(Own) = 1
            BY <6>1 DEF Own
          <6> QED
            BY <4>1, <6>2
        <5>2. Len(old) \in Nat
          BY <1>1
        <5> HIDE DEF old, name
        <5>3. SubSeq(name, 1, Len(name)) = name
          BY <1>1
        <5>4. ASSUME Len(name) > Len(old) PROVE Len(name) - Len(old) = Len(name)
          BY <5>1, <5>2, <5>4
        <5> QED
          BY <5>3, <5>4
      <4> QED
        BY <4>1, <4>2
    <3>2. CASE ~d.named
      <4>1. PICK b \in Bases : name = b \o old
        BY <1>3, <3>2 DEF Good, Fits
      <4>2. b \in Seq(Parts) /\ b # <<>>
        BY BaseNames
      <4>3. IsSuffix(old, name) /\ Len(name) = Len(b) + Len(old)
        BY <1>1, <4>1, <4>2, SuffixOf
      <4>4. Len(name) > Len(old) /\ Len(name) - Len(old) = Len(b)
        BY <1>1, <4>2, <4>3
      <4>5. SubSeq(name, 1, Len(b)) = b
        <5> HIDE DEF old, name
        <5> QED
          BY <1>1, <4>1, <4>2
      <4> QED
        BY <4>3, <4>4, <4>5
    <3> QED
      BY <3>1, <3>2
  <2> HIDE DEF bare
  <2>3. new_name \in Seq(Parts)
    BY <1>1, <2>2, BaseNames
  <2> HIDE DEF new_name
  <2>4. /\ f \in DraftTypes /\ f.output = new_name /\ ~f.named
        /\ f.format = e.format /\ f.stub = e.stub
    BY <2>3 DEF DraftTypes
  <2>5. Suffix(f) = Suffix(e)
    BY <2>4 DEF Suffix
  <2> QED
    BY <2>1, <2>2, <2>4, <2>5 DEF Good, Fits, new_name
<1> QED
  BY <1>2, <1>3

LEMMA WithFormatFits ==
  ASSUME NEW d, Good(d), NEW format \in Formats PROVE Good(WithFormat(d, format))
<1> DEFINE old == Suffix(d)
           automatic == d.sources # <<>> /\ Suggested(d.sources, d.format, old) = d.output
           changed == [d EXCEPT !.format = format, !.stub = NoStub]
           name == Suggested(d.sources, format, Suffix(changed))
           moved == IF automatic THEN [changed EXCEPT !.output = name, !.named = FALSE]
                    ELSE Renamed(changed, old)
           open == [moved EXCEPT !.password = FALSE, !.confirm = FALSE, !.protect = FALSE]
           closed == [moved EXCEPT !.protect = @ \/ (format.single /\ format.secret)]
<1>1. d \in DraftTypes /\ old \in Seq(Parts)
  BY SuffixParts DEF Good
<1>2. /\ changed \in DraftTypes /\ changed.sources = d.sources
      /\ changed.output = d.output /\ changed.named = d.named
      /\ changed.format = format /\ changed.stub = NoStub
  BY <1>1 DEF DraftTypes
<1>3. Suffix(changed) \in Seq(Parts)
  BY <1>2, SuffixParts
<1> HIDE DEF old, changed
<1>4. Good(moved)
  <2>1. CASE automatic
    <3>1. d.sources \in Seq(Sources) /\ d.sources # <<>>
      BY <1>1, <2>1 DEF DraftTypes
    <3>2. name \in Seq(Parts) /\ \E b \in Bases : name = b \o Suffix(changed)
      BY <1>3, <3>1, SuggestedFits
    <3> HIDE DEF name
    <3> DEFINE e == [changed EXCEPT !.output = name, !.named = FALSE]
    <3>3. /\ e \in DraftTypes /\ e.output = name /\ ~e.named
          /\ e.format = changed.format /\ e.stub = changed.stub
      BY <1>2, <3>2 DEF DraftTypes
    <3> QED
      BY <2>1, <3>2, <3>3 DEF Good, Fits, Suffix
  <2>2. CASE ~automatic
    BY <1>2, <2>2, RenamedFits DEF old
  <2> QED
    BY <2>1, <2>2
<1>5. WithFormat(d, format) = IF format = d.format THEN d ELSE IF ~format.secret THEN open ELSE closed
  BY DEF WithFormat, changed, old
<1> HIDE DEF moved
<1>6. Good(open)
  <2>1. /\ open \in DraftTypes /\ open.output = moved.output /\ open.named = moved.named
        /\ open.format = moved.format /\ open.stub = moved.stub
    BY <1>4 DEF Good, DraftTypes
  <2> QED
    BY <1>4, <2>1, SameName
<1>7. Good(closed)
  <2>1. (moved.protect \/ (format.single /\ format.secret)) \in BOOLEAN
    OBVIOUS
  <2>2. /\ closed \in DraftTypes /\ closed.output = moved.output /\ closed.named = moved.named
        /\ closed.format = moved.format /\ closed.stub = moved.stub
    BY <1>4, <2>1 DEF Good, DraftTypes
  <2> QED
    BY <1>4, <2>2, SameName
<1> QED
  BY <1>5, <1>6, <1>7

LEMMA WithStubFits ==
  ASSUME NEW d, Good(d), NEW stub \in Stubs \cup {NoStub} PROVE Good(WithStub(d, stub))
<1>1. d \in DraftTypes /\ Suffix(d) \in Seq(Parts)
  BY SuffixParts DEF Good
<1> DEFINE e == [d EXCEPT !.stub = stub]
<1>2. e \in DraftTypes /\ e.output = d.output /\ e.named = d.named
  BY <1>1 DEF DraftTypes
<1>3. Good(Renamed(e, Suffix(d)))
  BY <1>2, RenamedFits
<1> QED
  BY <1>3 DEF WithStub

\* Every way of changing the form.
LEMMA EditFits == ASSUME Good(draft), EditDraft PROVE Good(draft')
<1>1. draft \in DraftTypes
  BY DEF Good
<1> DEFINE Alike == /\ draft'.output = draft.output /\ draft'.named = draft.named
                    /\ draft'.format = draft.format /\ draft'.stub = draft.stub
<1>2. CASE \E i \in DOMAIN draft.sources : draft' = [draft EXCEPT !.sources = RemoveAt(@, i)]
  <2>1. PICK i \in DOMAIN draft.sources : draft' = [draft EXCEPT !.sources = RemoveAt(@, i)]
    BY <1>2
  <2>2. RemoveAt(draft.sources, i) \in Seq(Sources)
    BY <1>1 DEF RemoveAt, DraftTypes
  <2>3. draft' \in DraftTypes /\ Alike
    BY <1>1, <2>1, <2>2 DEF DraftTypes
  <2> QED
    BY <2>3, SameName
<1>3. CASE draft' = [draft EXCEPT !.sources = <<>>]
  <2>1. <<>> \in Seq(Sources)
    OBVIOUS
  <2>2. draft' \in DraftTypes /\ Alike
    BY <1>1, <1>3, <2>1 DEF DraftTypes
  <2> QED
    BY <2>2, SameName
<1>4. CASE \E format \in Formats : draft' = WithFormat(draft, format)
  BY <1>4, WithFormatFits
<1>5. CASE \E stub \in Stubs \cup {NoStub} : draft' = WithStub(draft, stub)
  BY <1>5, WithStubFits
<1>6. CASE draft' = [draft EXCEPT !.output = Own, !.named = TRUE]
  <2>1. Own \in Seq(Parts)
    BY Named DEF Own
  <2>2. draft' \in DraftTypes /\ draft'.named /\ draft'.output = Own
    BY <1>1, <1>6, <2>1 DEF DraftTypes
  <2> QED
    BY <2>2 DEF Good, Fits
<1>7. CASE draft' = [draft EXCEPT !.protect = FALSE, !.password = FALSE, !.confirm = FALSE]
           \/ draft' = [draft EXCEPT !.protect = TRUE]
  <2>1. draft' \in DraftTypes /\ Alike
    BY <1>1, <1>7 DEF DraftTypes
  <2> QED
    BY <2>1, SameName
<1>8. CASE \E password, confirm \in BOOLEAN :
             draft' = [draft EXCEPT !.password = password, !.confirm = confirm]
  <2>1. draft' \in DraftTypes /\ Alike
    BY <1>1, <1>8 DEF DraftTypes
  <2> QED
    BY <2>1, SameName
<1> QED
  BY <1>2, <1>3, <1>4, <1>5, <1>6, <1>7, <1>8 DEF EditDraft

\* The form's passwords and its protection are no part of the name.
LEMMA LeavesFit ==
  ASSUME Good(draft), CancelDraft \/ CreateArchive \/ Done PROVE Good(draft')
<1>1. /\ draft' \in DraftTypes
      /\ draft'.output = draft.output /\ draft'.named = draft.named
      /\ draft'.format = draft.format /\ draft'.stub = draft.stub
  BY DEF CancelDraft, CreateArchive, Done, Good, DraftTypes
<1> QED
  BY <1>1, SameName

LEMMA AddingFits ==
  ASSUME Good(draft), NEW path \in Sources, AddSources(path) PROVE Good(draft')
BY NewFits, WithSourceFits DEF AddSources

LEMMA NextFits == Good(draft) /\ [Next]_vars => Good(draft)'
<1> SUFFICES ASSUME Good(draft), [Next]_vars PROVE Good(draft')
  OBVIOUS
<1>1. CASE draft' = draft
  BY <1>1
<1>2. CASE BrowseStep
  BY <1>1, <1>2, BrowsingOnly DEF new
<1>3. CASE WorkStep
  <2>1. CASE EditDraft \/ CancelDraft \/ CreateArchive
    BY <2>1, EditFits, LeavesFit
  <2>2. CASE NewArchive
    BY <2>2, NewFits DEF NewArchive
  <2>3. CASE Drop
    BY <1>1, <2>3, AddingFits DEF Drop, new
  <2>4. CASE ~(EditDraft \/ CancelDraft \/ CreateArchive \/ NewArchive \/ Drop)
    <3>1. draft' = draft
      BY <1>3, <2>4 DEF WorkStep, Verify, Preview, QuickExtract, ShowExtract, DragOut,
         TypePassword, EditForm, BeginExtraction, CancelForm, OpenRecent, Reload, AskPassword,
         AnswerPassword, Reopen, ShellRetry, Choose, Open, Start, new
    <3> QED
      BY <1>1, <3>1
  <2> QED
    BY <2>1, <2>2, <2>3, <2>4
<1>4. CASE Result
  <2>1. CASE Choice
    <3>1. CASE draft' = [draft EXCEPT !.output = Own, !.named = TRUE]
      <4>1. Own \in Seq(Parts)
        BY Named DEF Own
      <4>2. draft' \in DraftTypes /\ draft'.named /\ draft'.output = Own
        BY <3>1, <4>1 DEF Good, DraftTypes
      <4> QED
        BY <4>2 DEF Good, Fits
    <3>2. CASE \E path \in Sources : AddSources(path)
      BY <3>2, AddingFits
    <3> QED
      BY <1>1, <2>1, <3>1, <3>2 DEF Choice, new
  <2>2. CASE Done
    BY <2>2, LeavesFit
  <2>3. CASE ~Choice /\ ~Done
    BY <1>1, <1>4, <2>3 DEF Result, ListDone, Fails, Cancelled, DragEnds, new
  <2> QED
    BY <2>1, <2>2, <2>3
<1> QED
  BY <1>1, <1>2, <1>3, <1>4 DEF Next, vars

\* ProposalFits: in whatever order formats, self-extractors and sources are
\* chosen, a proposed name is one the form started from with the suffix of the
\* present choice.
THEOREM ProposalsFit == Spec => []ProposalFits
<1>1. Init => Good(draft)
  BY NewFits DEF Init
<1>2. Good(draft) => ProposalFits
  BY DEF Good, Fits, ProposalFits
<1> QED
  BY <1>1, <1>2, NextFits, PTL DEF Spec
-----------------------------------------------------------------------------
(* Sums.                                                                   *)

\* The values of a function on a finite set.
LEMMA FiniteImage ==
  ASSUME NEW S, IsFiniteSet(S), NEW f, DOMAIN f = S
  PROVE  IsFiniteSet({f[x] : x \in S})
<1> DEFINE T == {f[x] : x \in S}
           g == [x \in S |-> f[x]]
<1>1. g \in Surjection(S, T)
  BY DEF Surjection
<1> QED
  BY <1>1, FS_Surjection

LEMMA FiniteUnits ==
  ASSUME NEW f, IsFiniteSet(DOMAIN f), \A x \in DOMAIN f : f[x] \in Nat
  PROVE  IsFiniteSet(Units(f)) /\ Total(f) \in Nat
<1> DEFINE g == [x \in DOMAIN f |-> {x} \X (1 .. f[x])]
           T == {g[x] : x \in DOMAIN f}
<1>1. IsFiniteSet(T)
  <2>1. DOMAIN g = DOMAIN f
    OBVIOUS
  <2> HIDE DEF g
  <2> QED
    BY <2>1, FiniteImage
<1>2. ASSUME NEW x \in DOMAIN f PROVE IsFiniteSet(g[x])
  <2>1. IsFiniteSet({x}) /\ IsFiniteSet(1 .. f[x])
    BY FS_Singleton, FS_Interval, 1 \in Int, f[x] \in Int
  <2>2. IsFiniteSet({x} \X (1 .. f[x]))
    BY <2>1, FS_Product
  <2> QED
    BY <2>2
<1>3. \A t \in T : IsFiniteSet(t)
  BY <1>2
<1>4. IsFiniteSet(UNION T)
  BY <1>1, <1>3, FS_UNION
<1>5. Units(f) = UNION T
  BY DEF Units
<1> QED
  BY <1>4, <1>5, FS_CardinalityType DEF Total

\* A sum of sizes of sets that have nothing in common is the size of all.
LEMMA SumOfSizes ==
  ASSUME NEW S, IsFiniteSet(S), NEW g, DOMAIN g = S,
         \A p \in S : IsFiniteSet(g[p]),
         \A p, q \in S : p # q => g[p] \cap g[q] = {}
  PROVE  Total([p \in S |-> Cardinality(g[p])]) = Cardinality(UNION {g[p] : p \in S})
<1> DEFINE f == [p \in S |-> Cardinality(g[p])]
           U == UNION {g[p] : p \in S}
           h == [p \in S |-> CHOOSE c : c \in Bijection(1 .. Cardinality(g[p]), g[p])]
           b == [u \in Units(f) |-> h[u[1]][u[2]]]
<1>1. ASSUME NEW p \in S
      PROVE  f[p] \in Nat /\ h[p] \in Bijection(1 .. f[p], g[p])
  BY FS_CardinalityType DEF ExistsBijection
<1>2. Units(f) = UNION {{p} \X (1 .. f[p]) : p \in S}
  BY DEF Units
<1> HIDE DEF h, f
<1>3. \A u \in Units(f) : u[1] \in S /\ u[2] \in 1 .. f[u[1]] /\ u = <<u[1], u[2]>>
  BY <1>2
<1>4. \A p \in S : \A k \in 1 .. f[p] : <<p, k>> \in Units(f)
  BY <1>2
<1>5. ASSUME NEW p \in S
      PROVE  /\ \A k \in 1 .. f[p] : h[p][k] \in g[p]
             /\ \A k, l \in 1 .. f[p] : h[p][k] = h[p][l] => k = l
             /\ \A y \in g[p] : \E k \in 1 .. f[p] : h[p][k] = y
  BY <1>1 DEF Bijection, Injection, Surjection, IsInjective
<1>6. b \in Bijection(Units(f), U)
  <2>1. b \in [Units(f) -> U]
    BY <1>3, <1>5
  <2>2. ASSUME NEW u \in Units(f), NEW v \in Units(f), b[u] = b[v] PROVE u = v
    <3>1. /\ u[1] \in S /\ v[1] \in S /\ h[u[1]][u[2]] = h[v[1]][v[2]]
          /\ u[2] \in 1 .. f[u[1]] /\ v[2] \in 1 .. f[v[1]]
      BY <1>3, <2>2
    <3>2. h[u[1]][u[2]] \in g[u[1]] /\ h[v[1]][v[2]] \in g[v[1]]
      BY <1>5, <3>1
    <3>3. u[1] = v[1]
      BY <3>1, <3>2
    <3>4. u[2] = v[2]
      BY <1>5, <3>1, <3>3
    <3> QED
      BY <1>3, <3>3, <3>4
  <2>3. ASSUME NEW y \in U PROVE \E u \in Units(f) : b[u] = y
    <3>1. PICK p \in S : y \in g[p]
      OBVIOUS
    <3>2. PICK k \in 1 .. f[p] : h[p][k] = y
      BY <1>5, <3>1
    <3>3. <<p, k>> \in Units(f) /\ b[<<p, k>>] = y
      BY <1>4, <3>2
    <3> QED
      BY <3>3
  <2> QED
    BY <2>1, <2>2, <2>3 DEF Bijection, Injection, Surjection, IsInjective
<1>7. DOMAIN f = S /\ \A p \in S : f[p] \in Nat
  BY <1>1 DEF f
<1>8. IsFiniteSet(Units(f))
  BY <1>7, FiniteUnits
<1>9. Cardinality(U) = Cardinality(Units(f))
  BY <1>6, <1>8, FS_Bijection DEF ExistsBijection
<1> QED
  BY <1>9 DEF Total, f

-----------------------------------------------------------------------------
(* Rows.                                                                   *)

AllNames == Range(Names)

LEMMA RowShape ==
  ASSUME NEW E, IsListing(E), NEW p \in RowsOf(E)
  PROVE  /\ p \in Seq(AllNames) /\ Len(p) > 0 /\ p # <<>>
         /\ Last(p) \in AllNames
         /\ Front(p) \in Seq(AllNames) /\ Len(Front(p)) = Len(p) - 1
         /\ \A i \in 1 .. Len(p) - 1 : Front(p)[i] = p[i]
<1>1. PICK e \in E : \E n \in 1 .. Len(e.path) : p = SubSeq(e.path, 1, n)
  BY DEF RowsOf
<1>p. PICK n \in 1 .. Len(e.path) : p = SubSeq(e.path, 1, n)
  BY <1>1
<1>2. e.path \in Seq(AllNames) /\ n \in Nat /\ n >= 1 /\ n <= Len(e.path)
  BY <1>p DEF IsListing, AllNames
<1> DEFINE path == e.path
<1>3. \A i \in 1 .. n : path[i] \in AllNames
  BY <1>2
<1>4. p \in Seq(AllNames) /\ Len(p) = n
  <2> HIDE DEF path
  <2>1. SubSeq(path, 1, n) \in Seq(AllNames) /\ Len(SubSeq(path, 1, n)) = n
    BY <1>2, <1>3, SubSeqProperties
  <2> QED
    BY <1>p, <2>1 DEF path
<1>5. Last(p) \in AllNames
  BY <1>2, <1>4 DEF Last
<1>6. /\ Front(p) \in Seq(AllNames) /\ Len(Front(p)) = Len(p) - 1
      /\ \A i \in 1 .. Len(p) - 1 : Front(p)[i] = p[i]
  <2> DEFINE m == Len(p) - 1
  <2>1. m \in Int /\ m >= 0 /\ 1 \in Int /\ \A i \in 1 .. m : p[i] \in AllNames
    BY <1>2, <1>4
  <2> HIDE DEF m
  <2>2. /\ SubSeq(p, 1, m) \in Seq(AllNames) /\ Len(SubSeq(p, 1, m)) = m
        /\ \A i \in 1 .. m : SubSeq(p, 1, m)[i] = p[i]
    BY <2>1, SubSeqProperties
  <2> QED
    BY <2>2 DEF Front, m
<1> QED
  BY <1>2, <1>4, <1>5, <1>6

\* Two rows of a folder have different names.
LEMMA NamesApart ==
  ASSUME NEW E, IsListing(E), NEW d, NEW p \in Children(E, d), NEW q \in Children(E, d),
         Last(p) = Last(q)
  PROVE  p = q
<1>1. p \in RowsOf(E) /\ q \in RowsOf(E) /\ Front(p) = Front(q)
  BY DEF Children
<1>2. /\ p \in Seq(AllNames) /\ Len(p) > 0 /\ Len(Front(p)) = Len(p) - 1
      /\ \A i \in 1 .. Len(p) - 1 : Front(p)[i] = p[i]
  BY <1>1, RowShape
<1>3. /\ q \in Seq(AllNames) /\ Len(q) > 0 /\ Len(Front(q)) = Len(q) - 1
      /\ \A i \in 1 .. Len(q) - 1 : Front(q)[i] = q[i]
  BY <1>1, RowShape
<1>4. Len(p) = Len(q) /\ Len(p) \in Nat
  BY <1>1, <1>2, <1>3
<1>5. ASSUME NEW i \in 1 .. Len(p) PROVE p[i] = q[i]
  <2>1. CASE i = Len(p)
    BY <1>4, <2>1 DEF Last
  <2>2. CASE i # Len(p)
    <3>1. i \in 1 .. Len(p) - 1
      BY <1>4, <2>2
    <3> QED
      BY <1>1, <1>2, <1>3, <1>4, <3>1
  <2> QED
    BY <2>1, <2>2
<1> QED
  BY <1>2, <1>3, <1>4, <1>5, SeqEqual

LEMMA FiniteRows ==
  ASSUME NEW E, IsListing(E) PROVE IsFiniteSet(RowsOf(E))
<1> DEFINE g == [e \in E |-> {SubSeq(e.path, 1, n) : n \in 1 .. Len(e.path)}]
           T == {g[e] : e \in E}
<1>1. IsFiniteSet(E) /\ DOMAIN g = E
  BY DEF IsListing
<1>2. ASSUME NEW e \in E PROVE IsFiniteSet(g[e])
  <2> DEFINE m == Len(e.path)
             h == [n \in 1 .. m |-> SubSeq(e.path, 1, n)]
  <2>1. m \in Int /\ 1 \in Int
    BY DEF IsListing
  <2>2. DOMAIN h = 1 .. m /\ g[e] = {h[n] : n \in 1 .. m}
    OBVIOUS
  <2> HIDE DEF m, h, g
  <2>3. IsFiniteSet(1 .. m)
    BY <2>1, FS_Interval
  <2>4. IsFiniteSet({h[n] : n \in 1 .. m})
    BY <2>2, <2>3, FiniteImage
  <2> QED
    BY <2>2, <2>4
<1>3. RowsOf(E) = UNION T
  BY DEF RowsOf
<1> HIDE DEF g
<1>4. IsFiniteSet(T)
  BY <1>1, FiniteImage
<1> QED
  BY <1>2, <1>3, <1>4, FS_UNION

LEMMA FiniteBytes ==
  ASSUME NEW E, IsListing(E), NEW p
  PROVE  /\ BytesOf(E, p) \in Nat
         /\ IsFiniteSet(Units([e \in FilesUnder(E, p) |-> e.size]))
<1> DEFINE f == [e \in FilesUnder(E, p) |-> e.size]
<1>1. DOMAIN f \subseteq E /\ \A e \in DOMAIN f : f[e] \in Nat
  BY DEF FilesUnder, IsListing
<1>2. IsFiniteSet(DOMAIN f)
  BY <1>1, FS_Subset DEF IsListing
<1> HIDE DEF f
<1>3. IsFiniteSet(Units(f)) /\ Total(f) \in Nat
  BY <1>1, <1>2, FiniteUnits
<1> QED
  BY <1>3 DEF BytesOf, f

-----------------------------------------------------------------------------
(* The order of the rows.                                                  *)

LEMMA RankOf ==
  ASSUME NEW p, Last(p) \in AllNames
  PROVE  Rank(p) \in Nat /\ Names[Rank(p)] = Last(p)
<1>1. \E n \in DOMAIN Names : Names[n] = Last(p)
  BY DEF AllNames, Range
<1>2. Rank(p) \in DOMAIN Names /\ Names[Rank(p)] = Last(p)
  BY <1>1 DEF Rank
<1>3. DOMAIN Names \subseteq Nat
  BY SearchAssumption
<1> QED
  BY <1>2, <1>3

\* Before is a strict order in which any two rows of a folder have a place.
LEMMA Ordered ==
  ASSUME NEW E, IsListing(E), NEW column, NEW d
  PROVE  LET C == Children(E, d)
         IN  /\ \A p \in C : ~Before(E, column, p, p)
             /\ \A p, q \in C : p # q => Before(E, column, p, q) \/ Before(E, column, q, p)
             /\ \A p, q, r \in C :
                  Before(E, column, p, q) /\ Before(E, column, q, r) => Before(E, column, p, r)
<1> DEFINE C == Children(E, d)
<1>1. ASSUME NEW p \in C
      PROVE  Rank(p) \in Nat /\ Names[Rank(p)] = Last(p) /\ BytesOf(E, p) \in Nat
             /\ IsFolder(E, p) \in BOOLEAN
  <2>1. Last(p) \in AllNames
    BY RowShape DEF Children
  <2> QED
    BY <2>1, RankOf, FiniteBytes DEF IsFolder
<1>2. ASSUME NEW p \in C, NEW q \in C, p # q PROVE Rank(p) # Rank(q)
  BY <1>1, <1>2, NamesApart
<1>3. ASSUME NEW p \in C PROVE ~Before(E, column, p, p)
  BY <1>1 DEF Before
<1>4. ASSUME NEW p \in C, NEW q \in C, p # q
      PROVE  Before(E, column, p, q) \/ Before(E, column, q, p)
  BY <1>1, <1>2, <1>4 DEF Before
<1>5. ASSUME NEW p \in C, NEW q \in C, NEW r \in C,
             Before(E, column, p, q), Before(E, column, q, r)
      PROVE  Before(E, column, p, r)
  BY <1>1, <1>5 DEF Before
<1> QED
  BY <1>3, <1>4, <1>5

\* Each row has a place of its own, from the first to the last.
LEMMA PlacesAreTaken ==
  ASSUME NEW E, IsListing(E), NEW b
  PROVE  /\ IsFiniteSet(Found(E, b)) /\ Cardinality(Found(E, b)) \in Nat
         /\ \A k \in 1 .. Cardinality(Found(E, b)) : \E p \in Found(E, b) : Place(E, b, p) = k
         /\ \A p \in Found(E, b) : Place(E, b, p) \in 1 .. Cardinality(Found(E, b))
         /\ \A p, q \in Found(E, b) : Place(E, b, p) = Place(E, b, q) => p = q
<1> DEFINE F == Found(E, b)
           n == Cardinality(F)
           R(p, q) == Before(E, b.column, p, q)
           below(p) == {q \in F : R(q, p)}
           place == [p \in F |-> 1 + Cardinality(below(p))]
<1>1. F \subseteq Children(E, b.dir) /\ F \subseteq RowsOf(E)
  BY DEF Found, Children
<1>2. IsFiniteSet(F) /\ n \in Nat
  BY <1>1, FiniteRows, FS_Subset, FS_CardinalityType
<1>3. /\ \A p \in F : ~R(p, p)
      /\ \A p, q \in F : p # q => R(p, q) \/ R(q, p)
      /\ \A p, q, r \in F : R(p, q) /\ R(q, r) => R(p, r)
  BY <1>1, Ordered
<1>4. \A p \in F : Place(E, b, p) = place[p]
  BY DEF Place
<1> HIDE DEF F, R, n
<1>5. ASSUME NEW p \in F
      PROVE  Cardinality(below(p)) \in Nat /\ Cardinality(below(p)) < n /\ IsFiniteSet(below(p))
  <2>1. below(p) \subseteq F /\ below(p) # F
    BY <1>3
  <2>2. /\ IsFiniteSet(below(p)) /\ Cardinality(below(p)) <= n
        /\ n = Cardinality(below(p)) => F = below(p)
    BY <1>2, <2>1, FS_Subset DEF n
  <2>3. Cardinality(below(p)) \in Nat
    BY <2>2, FS_CardinalityType
  <2> QED
    BY <1>2, <2>1, <2>2, <2>3
<1>6. ASSUME NEW p \in F, NEW q \in F, R(p, q)
      PROVE  Cardinality(below(p)) < Cardinality(below(q))
  <2>1. below(p) \subseteq below(q) /\ below(p) # below(q)
    BY <1>3, <1>6
  <2>2. /\ Cardinality(below(p)) <= Cardinality(below(q))
        /\ Cardinality(below(q)) = Cardinality(below(p)) => below(q) = below(p)
    BY <1>5, <2>1, FS_Subset
  <2> QED
    BY <1>5, <2>1, <2>2
<1> HIDE DEF below
<1>7. place \in [F -> 1 .. n]
  BY <1>2, <1>5
<1>8. ASSUME NEW p \in F, NEW q \in F, place[p] = place[q] PROVE p = q
  BY <1>3, <1>5, <1>6, <1>8
<1>9. IsFiniteSet(1 .. n) /\ Cardinality(1 .. n) = n
  BY <1>2, FS_Interval
<1>10. place \in Surjection(F, 1 .. n)
  <2>1. place \in Injection(F, 1 .. n)
    BY <1>7, <1>8 DEF Injection, IsInjective
  <2> HIDE DEF place
  <2> QED
    BY <1>9, <2>1, FS_Injection DEF n
<1>11. \A k \in 1 .. n : \E p \in F : place[p] = k
  BY <1>10 DEF Surjection
<1> QED
  BY <1>2, <1>4, <1>7, <1>8, <1>11 DEF F, n

\* The sorted list has every row found and no other.
LEMMA SortedRows ==
  ASSUME NEW E, IsListing(E), NEW b
  PROVE  /\ Sorted(E, b) \in Seq(Found(E, b))
         /\ Len(Sorted(E, b)) = Cardinality(Found(E, b))
         /\ Range(Sorted(E, b)) = Found(E, b)
<1> DEFINE F == Found(E, b)
           n == Cardinality(F)
           rows == Sorted(E, b)
<1>1. /\ n \in Nat
      /\ \A k \in 1 .. n : \E p \in F : Place(E, b, p) = k
      /\ \A p \in F : Place(E, b, p) \in 1 .. n
  BY PlacesAreTaken
<1>2. rows = [k \in 1 .. n |-> CHOOSE p \in F : Place(E, b, p) = k]
  BY DEF Sorted
<1> HIDE DEF F, n, rows
<1>3. \A k \in 1 .. n : rows[k] \in F /\ Place(E, b, rows[k]) = k
  BY <1>1, <1>2
<1>4. rows \in Seq(F) /\ Len(rows) = n /\ DOMAIN rows = 1 .. n
  BY <1>1, <1>2, <1>3
<1>5. \A p \in F : \A q \in F : Place(E, b, p) = Place(E, b, q) => p = q
  BY PlacesAreTaken DEF F
<1>6. \A p \in F : rows[Place(E, b, p)] = p
  BY <1>1, <1>3, <1>5
<1>7. Range(rows) = F
  BY <1>1, <1>3, <1>4, <1>6 DEF Range
<1> QED
  BY <1>4, <1>7 DEF F, n, rows

LEMMA ReverseRange ==
  ASSUME NEW S, NEW s \in Seq(S)
  PROVE  Reverse(s) \in Seq(S) /\ Len(Reverse(s)) = Len(s) /\ Range(Reverse(s)) = Range(s)
<1> DEFINE t == Reverse(s)
<1>1. t \in Seq(S) /\ Len(t) = Len(s) /\ \A i \in 1 .. Len(s) : t[i] = s[Len(s) - i + 1]
  BY DEF Reverse
<1> HIDE DEF t
<1>2. Len(s) \in Nat /\ DOMAIN s = 1 .. Len(s) /\ DOMAIN t = 1 .. Len(s)
  BY <1>1
<1>3. ASSUME NEW i \in 1 .. Len(s)
      PROVE  /\ Len(s) - i + 1 \in 1 .. Len(s) /\ t[i] = s[Len(s) - i + 1]
             /\ s[i] = t[Len(s) - i + 1]
  <2>1. Len(s) - i + 1 \in 1 .. Len(s) /\ Len(s) - (Len(s) - i + 1) + 1 = i
    BY <1>2
  <2> QED
    BY <1>1, <2>1
<1>4. Range(t) \subseteq Range(s) /\ Range(s) \subseteq Range(t)
  BY <1>2, <1>3 DEF Range
<1> QED
  BY <1>1, <1>4 DEF t

LEMMA ConcatRange ==
  ASSUME NEW S, NEW s \in Seq(S), NEW t \in Seq(S)
  PROVE  s \o t \in Seq(S) /\ Range(s \o t) = Range(s) \cup Range(t)
<1> DEFINE u == s \o t
<1>1. /\ u \in Seq(S) /\ Len(u) = Len(s) + Len(t)
      /\ \A i \in 1 .. Len(s) + Len(t) : u[i] = IF i <= Len(s) THEN s[i] ELSE t[i - Len(s)]
  BY ConcatProperties
<1>2. /\ DOMAIN u = 1 .. Len(s) + Len(t) /\ DOMAIN s = 1 .. Len(s) /\ DOMAIN t = 1 .. Len(t)
      /\ Len(s) \in Nat /\ Len(t) \in Nat
  BY <1>1
<1> HIDE DEF u
<1>3. ASSUME NEW i \in DOMAIN u PROVE u[i] \in Range(s) \cup Range(t)
  <2>1. CASE i <= Len(s)
    <3>1. i \in DOMAIN s /\ u[i] = s[i]
      BY <1>1, <1>2, <2>1
    <3> QED
      BY <3>1 DEF Range
  <2>2. CASE i > Len(s)
    <3>1. i - Len(s) \in DOMAIN t /\ u[i] = t[i - Len(s)]
      BY <1>1, <1>2, <2>2
    <3> QED
      BY <3>1 DEF Range
  <2> QED
    BY <1>2, <2>1, <2>2
<1>4. ASSUME NEW i \in DOMAIN s PROVE s[i] \in Range(u)
  <2>1. i \in DOMAIN u /\ u[i] = s[i]
    BY <1>1, <1>2
  <2> QED
    BY <2>1 DEF Range
<1>5. ASSUME NEW i \in DOMAIN t PROVE t[i] \in Range(u)
  <2>1. Len(s) + i \in DOMAIN u /\ u[Len(s) + i] = t[i]
    BY <1>1, <1>2
  <2> QED
    BY <2>1 DEF Range
<1> QED
  BY <1>1, <1>3, <1>4, <1>5 DEF Range, u

\* The list shows every row found and no other, whatever its order.
LEMMA ShownRows ==
  ASSUME NEW E, IsListing(E), NEW b
  PROVE  Shown(E, b) \in Seq(Found(E, b)) /\ Range(Shown(E, b)) = Found(E, b)
<1> DEFINE F == Found(E, b)
           rows == Sorted(E, b)
           n == Cardinality(F)
           folders == {p \in F : IsFolder(E, p)}
           split == Cardinality(folders)
           A == SubSeq(rows, 1, split)
           B == SubSeq(rows, split + 1, Len(rows))
<1>1. rows \in Seq(F) /\ Len(rows) = n /\ Range(rows) = F
  BY SortedRows
<1>2. n \in Nat /\ split \in Nat /\ split <= n
  <2>1. IsFiniteSet(F) /\ n \in Nat
    BY PlacesAreTaken
  <2>2. folders \subseteq F
    OBVIOUS
  <2> HIDE DEF F, folders
  <2>3. IsFiniteSet(folders) /\ split <= n
    BY <2>1, <2>2, FS_Subset
  <2> QED
    BY <2>1, <2>3, FS_CardinalityType
<1>3. Shown(E, b) = IF b.descending THEN Reverse(A) \o Reverse(B) ELSE rows
  BY DEF Shown
<1> HIDE DEF F, rows, n, split
<1>4. \A i \in 1 .. n : rows[i] \in F
  BY <1>1
<1>5. A \in Seq(F) /\ Len(A) = split /\ \A i \in 1 .. split : A[i] = rows[i]
  BY <1>2, <1>4, SubSeqProperties
<1>6. B \in Seq(F) /\ Len(B) = n - split /\ \A i \in 1 .. n - split : B[i] = rows[split + i]
  BY <1>1, <1>2, <1>4, SubSeqProperties
<1> HIDE DEF A, B
<1>7. F \subseteq Range(A) \cup Range(B)
  <2> SUFFICES ASSUME NEW i \in 1 .. n PROVE rows[i] \in Range(A) \cup Range(B)
    BY <1>1 DEF Range
  <2>1. CASE i <= split
    BY <1>2, <1>5, <2>1 DEF Range
  <2>2. CASE i > split
    <3>1. i - split \in 1 .. n - split /\ split + (i - split) = i
      BY <1>2, <2>2
    <3>2. B[i - split] = rows[i] /\ i - split \in DOMAIN B
      BY <1>6, <3>1
    <3> QED
      BY <3>2 DEF Range
  <2> QED
    BY <1>2, <2>1, <2>2
<1>8. Range(A) \subseteq F /\ Range(B) \subseteq F
  BY <1>5, <1>6 DEF Range
<1>9. /\ Reverse(A) \in Seq(F) /\ Reverse(B) \in Seq(F)
      /\ Range(Reverse(A)) = Range(A) /\ Range(Reverse(B)) = Range(B)
  BY <1>5, <1>6, ReverseRange
<1>10. Reverse(A) \o Reverse(B) \in Seq(F) /\ Range(Reverse(A) \o Reverse(B)) = F
  <2>1. /\ Reverse(A) \o Reverse(B) \in Seq(F)
        /\ Range(Reverse(A) \o Reverse(B)) = Range(Reverse(A)) \cup Range(Reverse(B))
    BY <1>9, ConcatRange
  <2> QED
    BY <1>7, <1>8, <1>9, <2>1
<1> QED
  BY <1>1, <1>3, <1>10 DEF F

-----------------------------------------------------------------------------
(* The Browser's copies stay true.                                         *)

BrowserFields ==
  {"dir", "find", "visible", "column", "descending", "sel", "bytes", "hidden", "focus",
   "anchor", "back", "forward", "expanded", "tree"}

\* What a refresh does not establish.
Sound(E, b) ==
  /\ DOMAIN b = BrowserFields
  /\ b.sel \subseteq Children(E, b.dir)
  /\ b.tree = TreeOf(E, b.expanded)

\* What the change of a selection does not.
Current(E, b) ==
  /\ Sound(E, b)
  /\ b.visible = Shown(E, b)
  /\ b.focus \in Range(b.visible) \cup {NoRow}

Kept(E, b) ==
  Current(E, b) /\ b.bytes = BytesSelected(E, b) /\ b.hidden = HiddenSelected(E, b)

LEMMA SameRows ==
  ASSUME NEW E, NEW b, NEW c, c.dir = b.dir, c.find = b.find, c.column = b.column,
         c.descending = b.descending
  PROVE  Shown(E, c) = Shown(E, b)
BY DEF Shown, Sorted, Place, Found

LEMMA SameCounts ==
  ASSUME NEW E, NEW b, NEW c, c.sel = b.sel, c.find = b.find
  PROVE  BytesSelected(E, c) = BytesSelected(E, b) /\ HiddenSelected(E, c) = HiddenSelected(E, b)
BY DEF BytesSelected, HiddenSelected

\* Rows shown are rows of the folder, and have a name.
LEMMA VisibleRows ==
  ASSUME NEW E, IsListing(E), NEW b, Current(E, b)
  PROVE  /\ b.visible \in Seq(Children(E, b.dir))
         /\ Range(b.visible) = Found(E, b)
         /\ Range(b.visible) \subseteq Children(E, b.dir)
         /\ NoRow \notin Range(b.visible)
<1>1. b.visible \in Seq(Found(E, b)) /\ Range(b.visible) = Found(E, b)
  BY ShownRows DEF Current
<1>2. Found(E, b) \subseteq Children(E, b.dir)
  BY DEF Found
<1>3. b.visible \in Seq(Children(E, b.dir))
  BY <1>1, <1>2
<1>4. NoRow \notin Children(E, b.dir)
  BY RowShape DEF NoRow, Children
<1> QED
  BY <1>1, <1>2, <1>3, <1>4

LEMMA SelectionChangedKeeps ==
  ASSUME NEW E, NEW b, Current(E, b)
  PROVE  LET c == SelectionChanged(E, b)
         IN  Kept(E, c) /\ c.dir = b.dir /\ c.sel = b.sel /\ c.expanded = b.expanded
<1> DEFINE c == SelectionChanged(E, b)
<1>1. /\ DOMAIN c = BrowserFields /\ c.dir = b.dir /\ c.find = b.find /\ c.column = b.column
      /\ c.descending = b.descending /\ c.sel = b.sel /\ c.expanded = b.expanded
      /\ c.tree = b.tree /\ c.visible = b.visible /\ c.focus = b.focus
      /\ c.bytes = BytesSelected(E, b) /\ c.hidden = HiddenSelected(E, b)
  BY DEF SelectionChanged, Current, Sound, BrowserFields
<1> HIDE DEF c
<1>2. /\ Shown(E, c) = Shown(E, b) /\ BytesSelected(E, c) = BytesSelected(E, b)
      /\ HiddenSelected(E, c) = HiddenSelected(E, b)
  BY <1>1, SameRows, SameCounts
<1>3. Kept(E, c)
  BY <1>1, <1>2 DEF Kept, Current, Sound
<1> QED
  BY <1>1, <1>3 DEF c

LEMMA RefreshKeeps ==
  ASSUME NEW E, NEW b, Sound(E, b)
  PROVE  LET c == Refresh(E, b)
         IN  Kept(E, c) /\ c.dir = b.dir /\ c.sel = b.sel /\ c.expanded = b.expanded
<1> DEFINE rows == Shown(E, b)
           d == [b EXCEPT !.visible = rows, !.focus = IF @ \in Range(rows) THEN @ ELSE NoRow]
<1>1. Refresh(E, b) = SelectionChanged(E, d)
  BY DEF Refresh
<1>2. /\ DOMAIN d = BrowserFields /\ d.dir = b.dir /\ d.find = b.find /\ d.column = b.column
      /\ d.descending = b.descending /\ d.sel = b.sel /\ d.expanded = b.expanded
      /\ d.tree = b.tree /\ d.visible = rows /\ d.focus \in Range(rows) \cup {NoRow}
  <2> HIDE DEF rows
  <2> QED
    BY DEF Sound, BrowserFields
<1> HIDE DEF d
<1>3. Shown(E, d) = rows
  BY <1>2, SameRows
<1>4. Current(E, d)
  BY <1>2, <1>3 DEF Current, Sound
<1> QED
  BY <1>1, <1>2, <1>4, SelectionChangedKeeps

LEMMA NewBrowserKeeps == ASSUME NEW E PROVE Kept(E, NewBrowser(E))
<1> DEFINE b == [dir |-> <<>>, find |-> NoFind, visible |-> <<>>, column |-> "name",
                 descending |-> FALSE, sel |-> {}, bytes |-> 0, hidden |-> 0,
                 focus |-> NoRow, anchor |-> NoRow, back |-> <<>>, forward |-> <<>>,
                 expanded |-> {<<>>}, tree |-> TreeOf(E, {<<>>})]
<1>1. Sound(E, b)
  BY DEF Sound, BrowserFields
<1>2. NewBrowser(E) = Refresh(E, b)
  BY DEF NewBrowser
<1> HIDE DEF b
<1> QED
  BY <1>1, <1>2, RefreshKeeps

LEMMA SortByKeeps ==
  ASSUME NEW E, NEW b, Kept(E, b), NEW column PROVE Kept(E, SortBy(E, b, column))
<1> DEFINE c == [b EXCEPT !.descending = IF b.column = column THEN ~@ ELSE column = "size",
                          !.column = column]
<1>1. Sound(E, c)
  BY DEF Kept, Current, Sound, BrowserFields
<1>2. SortBy(E, b, column) = Refresh(E, c)
  BY DEF SortBy
<1> HIDE DEF c
<1> QED
  BY <1>1, <1>2, RefreshKeeps

LEMMA SearchKeeps ==
  ASSUME NEW E, NEW b, Kept(E, b), NEW find PROVE Kept(E, Search(E, b, find))
<1> DEFINE c == [b EXCEPT !.find = find]
<1>1. Sound(E, c)
  BY DEF Kept, Current, Sound, BrowserFields
<1>2. Search(E, b, find) = Refresh(E, c)
  BY DEF Search
<1> HIDE DEF c
<1> QED
  BY <1>1, <1>2, RefreshKeeps

\* Another selection of rows of the folder, anchor and focus among the rows shown.
LEMMA SelectionKeeps ==
  ASSUME NEW E, NEW b, Kept(E, b), NEW c, DOMAIN c = BrowserFields,
         c.dir = b.dir, c.find = b.find, c.column = b.column, c.descending = b.descending,
         c.visible = b.visible, c.expanded = b.expanded, c.tree = b.tree,
         c.sel \subseteq Children(E, b.dir), c.focus \in Range(b.visible) \cup {NoRow}
  PROVE  Kept(E, SelectionChanged(E, c))
<1>1. Shown(E, c) = Shown(E, b)
  BY SameRows
<1>2. Current(E, c)
  BY <1>1 DEF Kept, Current, Sound
<1> QED
  BY <1>2, SelectionChangedKeeps

LEMMA ClearSelectionKeeps ==
  ASSUME NEW E, NEW b, Kept(E, b) PROVE Kept(E, ClearSelection(E, b))
<1> DEFINE c == [b EXCEPT !.sel = {}, !.anchor = NoRow]
<1>1. /\ DOMAIN c = BrowserFields /\ c.dir = b.dir /\ c.find = b.find /\ c.column = b.column
      /\ c.descending = b.descending /\ c.visible = b.visible /\ c.expanded = b.expanded
      /\ c.tree = b.tree /\ c.sel = {} /\ c.focus \in Range(b.visible) \cup {NoRow}
  BY DEF Kept, Current, Sound, BrowserFields
<1>2. ClearSelection(E, b) = SelectionChanged(E, c)
  BY DEF ClearSelection
<1> HIDE DEF c
<1> QED
  BY <1>1, <1>2, SelectionKeeps

LEMMA SetSelectionKeeps ==
  ASSUME NEW E, NEW b, Kept(E, b), NEW sel \in SUBSET Children(E, b.dir)
  PROVE  Kept(E, SetSelection(E, b, sel))
<1> DEFINE c == [b EXCEPT !.sel = sel, !.anchor = NoRow]
<1>1. /\ DOMAIN c = BrowserFields /\ c.dir = b.dir /\ c.find = b.find /\ c.column = b.column
      /\ c.descending = b.descending /\ c.visible = b.visible /\ c.expanded = b.expanded
      /\ c.tree = b.tree /\ c.sel = sel /\ c.focus \in Range(b.visible) \cup {NoRow}
  BY DEF Kept, Current, Sound, BrowserFields
<1>2. SetSelection(E, b, sel) = IF b.sel = sel THEN b ELSE SelectionChanged(E, c)
  BY DEF SetSelection
<1> HIDE DEF c
<1>3. Kept(E, SelectionChanged(E, c))
  BY <1>1, SelectionKeeps
<1> QED
  BY <1>2, <1>3

LEMMA ToggleFolderKeeps ==
  ASSUME NEW E, NEW b, Kept(E, b), NEW d PROVE Kept(E, ToggleFolder(E, b, d))
<1> DEFINE expanded == IF d \in b.expanded THEN b.expanded \ {d} ELSE b.expanded \cup {d}
           c == [b EXCEPT !.expanded = expanded, !.tree = TreeOf(E, expanded)]
<1>1. /\ DOMAIN c = BrowserFields /\ c.dir = b.dir /\ c.find = b.find /\ c.column = b.column
      /\ c.descending = b.descending /\ c.visible = b.visible /\ c.expanded = expanded
      /\ c.tree = TreeOf(E, expanded) /\ c.sel = b.sel /\ c.focus = b.focus
      /\ c.bytes = b.bytes /\ c.hidden = b.hidden
  <2> HIDE DEF expanded
  <2> QED
    BY DEF Kept, Current, Sound, BrowserFields
<1>2. ToggleFolder(E, b, d) = c
  BY DEF ToggleFolder
<1> HIDE DEF c, expanded
<1>3. /\ Shown(E, c) = Shown(E, b) /\ BytesSelected(E, c) = BytesSelected(E, b)
      /\ HiddenSelected(E, c) = HiddenSelected(E, b)
  BY <1>1, SameRows, SameCounts
<1> QED
  BY <1>1, <1>2, <1>3 DEF Kept, Current, Sound

LEMMA RevealKeeps ==
  ASSUME NEW E, NEW b, Kept(E, b)
  PROVE  Kept(E, RevealDirectory(E, b)) /\ RevealDirectory(E, b).dir = b.dir
<1> DEFINE expanded == b.expanded \cup {SubSeq(b.dir, 1, n) : n \in 0 .. Len(b.dir)}
           c == [b EXCEPT !.expanded = expanded, !.tree = TreeOf(E, expanded)]
<1>1. /\ DOMAIN c = BrowserFields /\ c.dir = b.dir /\ c.find = b.find /\ c.column = b.column
      /\ c.descending = b.descending /\ c.visible = b.visible /\ c.expanded = expanded
      /\ c.tree = TreeOf(E, expanded) /\ c.sel = b.sel /\ c.focus = b.focus
      /\ c.bytes = b.bytes /\ c.hidden = b.hidden
  <2> HIDE DEF expanded
  <2> QED
    BY DEF Kept, Current, Sound, BrowserFields
<1>2. RevealDirectory(E, b) = c
  BY DEF RevealDirectory
<1> HIDE DEF c, expanded
<1>3. /\ Shown(E, c) = Shown(E, b) /\ BytesSelected(E, c) = BytesSelected(E, b)
      /\ HiddenSelected(E, c) = HiddenSelected(E, b)
  BY <1>1, SameRows, SameCounts
<1> QED
  BY <1>1, <1>2, <1>3 DEF Kept, Current, Sound

\* Another folder: nothing is selected there.
LEMMA EnterKeeps ==
  ASSUME NEW E, NEW b, DOMAIN b = BrowserFields, b.tree = TreeOf(E, b.expanded), NEW d
  PROVE  Kept(E, Enter(E, b, d))
<1> DEFINE there == [[b EXCEPT !.dir = d, !.find = NoFind] EXCEPT !.sel = {}, !.anchor = NoRow]
           cleared == SelectionChanged(E, there)
           c == [cleared EXCEPT !.focus = NoRow]
<1>1. /\ DOMAIN there = BrowserFields /\ there.sel = {}
      /\ there.tree = TreeOf(E, there.expanded)
  BY DEF BrowserFields
<1> HIDE DEF there
<1>2. /\ DOMAIN c = BrowserFields /\ c.sel = {} /\ c.tree = TreeOf(E, c.expanded)
  BY <1>1 DEF SelectionChanged, BrowserFields
<1>3. Enter(E, b, d) = RevealDirectory(E, Refresh(E, c))
  BY DEF Enter, ClearSelection, there
<1> HIDE DEF c, cleared
<1>4. Sound(E, c)
  BY <1>2 DEF Sound
<1>5. Kept(E, Refresh(E, c))
  BY <1>4, RefreshKeeps
<1> QED
  BY <1>3, <1>5, RevealKeeps

LEMMA NavigateKeeps ==
  ASSUME NEW E, NEW b, Kept(E, b), NEW d PROVE Kept(E, Navigate(E, b, d))
<1> DEFINE c == [b EXCEPT !.back = Append(@, b.dir), !.forward = <<>>]
<1>1. DOMAIN c = BrowserFields /\ c.tree = TreeOf(E, c.expanded)
  BY DEF Kept, Current, Sound, BrowserFields
<1>2. Navigate(E, b, d) = IF d # b.dir /\ d \in FoldersOf(E) THEN Enter(E, c, d) ELSE b
  BY DEF Navigate
<1> HIDE DEF c
<1> QED
  BY <1>1, <1>2, EnterKeeps

LEMMA BackKeeps == ASSUME NEW E, NEW b, Kept(E, b) PROVE Kept(E, Back(E, b))
<1> DEFINE c == [b EXCEPT !.back = Front(@), !.forward = Append(@, b.dir)]
<1>1. DOMAIN c = BrowserFields /\ c.tree = TreeOf(E, c.expanded)
  BY DEF Kept, Current, Sound, BrowserFields
<1>2. Back(E, b) = IF b.back = <<>> THEN b ELSE Enter(E, c, Last(b.back))
  BY DEF Back
<1> HIDE DEF c
<1> QED
  BY <1>1, <1>2, EnterKeeps

LEMMA ForwardKeeps == ASSUME NEW E, NEW b, Kept(E, b) PROVE Kept(E, Forward(E, b))
<1> DEFINE c == [b EXCEPT !.forward = Front(@), !.back = Append(@, b.dir)]
<1>1. DOMAIN c = BrowserFields /\ c.tree = TreeOf(E, c.expanded)
  BY DEF Kept, Current, Sound, BrowserFields
<1>2. Forward(E, b) = IF b.forward = <<>> THEN b ELSE Enter(E, c, Last(b.forward))
  BY DEF Forward
<1> HIDE DEF c
<1> QED
  BY <1>1, <1>2, EnterKeeps

\* Nothing but the focus moves, and to a row shown.
LEMMA FocusKeeps ==
  ASSUME NEW E, NEW b, Kept(E, b), NEW p \in Range(b.visible)
  PROVE  Kept(E, [b EXCEPT !.focus = p])
<1> DEFINE c == [b EXCEPT !.focus = p]
<1>1. /\ DOMAIN c = BrowserFields /\ c.dir = b.dir /\ c.find = b.find /\ c.column = b.column
      /\ c.descending = b.descending /\ c.visible = b.visible /\ c.expanded = b.expanded
      /\ c.tree = b.tree /\ c.sel = b.sel /\ c.focus = p
      /\ c.bytes = b.bytes /\ c.hidden = b.hidden
  BY DEF Kept, Current, Sound, BrowserFields
<1> HIDE DEF c
<1>3. /\ Shown(E, c) = Shown(E, b) /\ BytesSelected(E, c) = BytesSelected(E, b)
      /\ HiddenSelected(E, c) = HiddenSelected(E, b)
  BY <1>1, SameRows, SameCounts
<1>4. Kept(E, c)
  BY <1>1, <1>3 DEF Kept, Current, Sound
<1> QED
  BY <1>4 DEF c

LEMMA ParentKeeps == ASSUME NEW E, NEW b, Kept(E, b) PROVE Kept(E, Parent(E, b))
<1> DEFINE d == IF b.dir = <<>> THEN <<>> ELSE Front(b.dir)
           up == Navigate(E, b, d)
<1>1. Kept(E, up)
  BY NavigateKeeps
<1>2. Parent(E, b) = IF b.dir \in Range(up.visible) THEN [up EXCEPT !.focus = b.dir] ELSE up
  BY DEF Parent
<1> HIDE DEF up
<1> QED
  BY <1>1, <1>2, FocusKeeps

LEMMA ToggleKeeps ==
  ASSUME NEW E, NEW b, Kept(E, b), NEW p \in Children(E, b.dir)
  PROVE  Kept(E, Toggle(E, b, p))
<1> DEFINE c == [b EXCEPT !.sel = Flip(@, p)]
<1>1. Flip(b.sel, p) \subseteq Children(E, b.dir)
  BY DEF Kept, Current, Sound, Flip
<1>2. /\ DOMAIN c = BrowserFields /\ c.dir = b.dir /\ c.find = b.find /\ c.column = b.column
      /\ c.descending = b.descending /\ c.visible = b.visible /\ c.expanded = b.expanded
      /\ c.tree = b.tree /\ c.sel = Flip(b.sel, p) /\ c.focus \in Range(b.visible) \cup {NoRow}
  BY DEF Kept, Current, Sound, BrowserFields
<1>3. Toggle(E, b, p) = SelectionChanged(E, c)
  BY DEF Toggle
<1> HIDE DEF c
<1> QED
  BY <1>1, <1>2, <1>3, SelectionKeeps

LEMMA SelectAllKeeps ==
  ASSUME NEW E, IsListing(E), NEW b, Kept(E, b) PROVE Kept(E, SelectAll(E, b))
<1> DEFINE c == [b EXCEPT !.sel = @ \cup Range(b.visible)]
<1>1. b.sel \cup Range(b.visible) \subseteq Children(E, b.dir)
  BY VisibleRows DEF Kept, Current, Sound
<1>2. /\ DOMAIN c = BrowserFields /\ c.dir = b.dir /\ c.find = b.find /\ c.column = b.column
      /\ c.descending = b.descending /\ c.visible = b.visible /\ c.expanded = b.expanded
      /\ c.tree = b.tree /\ c.sel = b.sel \cup Range(b.visible)
      /\ c.focus \in Range(b.visible) \cup {NoRow}
  BY DEF Kept, Current, Sound, BrowserFields
<1>3. SelectAll(E, b) = SelectionChanged(E, c)
  BY DEF SelectAll
<1> HIDE DEF c
<1> QED
  BY <1>1, <1>2, <1>3, SelectionKeeps

LEMMA IndexOfRow ==
  ASSUME NEW rows, NEW p, NEW default
  PROVE  IndexOf(rows, p, default) \in DOMAIN rows \cup {default}
<1>1. CASE p \in Range(rows)
  <2>1. \E i \in DOMAIN rows : rows[i] = p
    BY <1>1 DEF Range
  <2> QED
    BY <1>1, <2>1 DEF IndexOf
<1>2. CASE p \notin Range(rows)
  BY <1>2 DEF IndexOf
<1> QED
  BY <1>1, <1>2

LEMMA SelectKeeps ==
  ASSUME NEW E, IsListing(E), NEW b, Kept(E, b), NEW i \in DOMAIN b.visible,
         NEW extend \in BOOLEAN, NEW toggle \in BOOLEAN
  PROVE  Kept(E, Select(E, b, i, extend, toggle))
<1> DEFINE p      == b.visible[i]
           anchor == IndexOf(b.visible, b.anchor, i)
           range  == {b.visible[k] : k \in (i .. anchor) \cup (anchor .. i)}
           sel    == CASE extend -> range \cup (IF toggle THEN b.sel ELSE {})
                       [] ~extend /\ toggle -> Flip(b.sel, p)
                       [] OTHER -> {p}
           c == [b EXCEPT !.sel = sel, !.anchor = IF extend /\ @ # NoRow THEN @ ELSE p,
                          !.focus = p]
<1>1. b.visible \in Seq(Children(E, b.dir)) /\ b.sel \subseteq Children(E, b.dir)
  BY VisibleRows DEF Kept, Current, Sound
<1>2. anchor \in DOMAIN b.visible
  BY IndexOfRow
<1>3. p \in Children(E, b.dir) /\ p \in Range(b.visible)
  BY <1>1 DEF Range
<1>4. range \subseteq Children(E, b.dir)
  <2> HIDE DEF anchor
  <2>1. \A k \in (i .. anchor) \cup (anchor .. i) : k \in DOMAIN b.visible
    BY <1>1, <1>2
  <2> QED
    BY <1>1, <2>1
<1> HIDE DEF p, range
<1>5. sel \subseteq Children(E, b.dir)
  BY <1>1, <1>3, <1>4 DEF Flip
<1> HIDE DEF sel
<1>6. /\ DOMAIN c = BrowserFields /\ c.dir = b.dir /\ c.find = b.find /\ c.column = b.column
      /\ c.descending = b.descending /\ c.visible = b.visible /\ c.expanded = b.expanded
      /\ c.tree = b.tree /\ c.sel = sel /\ c.focus = p
  BY DEF Kept, Current, Sound, BrowserFields
<1>7. Select(E, b, i, extend, toggle) = SelectionChanged(E, c)
  BY DEF Select, sel, range, p
<1> HIDE DEF c
<1> QED
  BY <1>3, <1>5, <1>6, <1>7, SelectionKeeps

LEMMA MoveFocusKeeps ==
  ASSUME NEW E, IsListing(E), NEW b, Kept(E, b), NEW offset \in Int,
         NEW extend \in BOOLEAN, NEW focusOnly \in BOOLEAN
  PROVE  Kept(E, MoveFocus(E, b, offset, extend, focusOnly))
<1> DEFINE last == Len(b.visible)
           from == IndexOf(b.visible, b.focus, 0)
           i    == CASE from = 0 -> IF offset < 0 THEN last ELSE 1
                     [] OTHER -> IF from + offset < 1 THEN 1
                                 ELSE IF from + offset > last THEN last ELSE from + offset
<1>1. last \in Nat /\ DOMAIN b.visible = 1 .. last
  BY VisibleRows DEF Kept
<1>2. from \in 0 .. last
  BY <1>1, IndexOfRow
<1>3. MoveFocus(E, b, offset, extend, focusOnly) =
        IF last = 0 THEN b
        ELSE IF focusOnly THEN [b EXCEPT !.focus = b.visible[i]]
        ELSE Select(E, b, i, extend, FALSE)
  BY DEF MoveFocus
<1> HIDE DEF last, from
<1>4. last # 0 => i \in DOMAIN b.visible
  BY <1>1, <1>2
<1> HIDE DEF i
<1>5. last # 0 => b.visible[i] \in Range(b.visible)
  BY <1>4 DEF Range
<1>6. CASE last = 0
  BY <1>3, <1>6
<1>7. CASE last # 0 /\ focusOnly
  <2>1. Kept(E, [b EXCEPT !.focus = b.visible[i]])
    BY <1>5, <1>7, FocusKeeps
  <2> QED
    BY <1>3, <1>7, <2>1
<1>8. CASE last # 0 /\ ~focusOnly
  <2>1. Kept(E, Select(E, b, i, extend, FALSE))
    BY <1>4, <1>8, SelectKeeps
  <2> QED
    BY <1>3, <1>8, <2>1
<1> QED
  BY <1>6, <1>7, <1>8

\* The least of some numbers.
LEMMA LeastOf ==
  ASSUME NEW T \in SUBSET Nat, T # {} PROVE Min(T) \in T
<1> DEFINE less == {p \in Nat \X Nat : p[1] < p[2]}
<1>1. IsWellFoundedOn(less, Nat)
  BY NatLessThanWellFounded DEF OpToRel
<1>2. PICK x \in T : \A y \in T : ~ (<<y, x>> \in less)
  BY <1>1, WFMin
<1>3. ASSUME NEW y \in T PROVE x =< y
  <2>1. x \in Nat /\ y \in Nat /\ ~ (<<y, x>> \in less)
    BY <1>2
  <2>2. y < x => <<y, x>> \in less
    BY <2>1
  <2> QED
    BY <2>1, <2>2
<1> QED
  BY <1>3 DEF Min

LEMMA JumpToKeeps ==
  ASSUME NEW E, IsListing(E), NEW b, Kept(E, b), NEW starts PROVE Kept(E, JumpTo(E, b, starts))
<1> DEFINE last == Len(b.visible)
           from == IndexOf(b.visible, b.focus, 0)
           hits == {k \in 1 .. last : Last(b.visible[((from + k - 1) % last) + 1]) \in starts}
           i == ((from + Min(hits) - 1) % last) + 1
<1>1. last \in Nat /\ DOMAIN b.visible = 1 .. last
  BY VisibleRows DEF Kept
<1>2. from \in 0 .. last
  BY <1>1, IndexOfRow
<1>3. JumpTo(E, b, starts) = IF hits = {} THEN b ELSE Select(E, b, i, FALSE, FALSE)
  BY DEF JumpTo
<1>4. ASSUME hits # {} PROVE i \in DOMAIN b.visible
  <2>1. hits \subseteq 1 .. last /\ last > 0
    BY <1>1, <1>4
  <2> HIDE DEF hits, last, from
  <2>2. Min(hits) \in hits
    <3>1. hits \in SUBSET Nat
      BY <1>1, <2>1
    <3> QED
      BY <1>4, <3>1, LeastOf
  <2>3. from + Min(hits) - 1 \in Nat
    <3>1. Min(hits) \in 1 .. last
      BY <2>1, <2>2
    <3> QED
      BY <1>1, <1>2, <3>1
  <2> QED
    BY <1>1, <2>1, <2>3
<1> HIDE DEF hits, i
<1> QED
  BY <1>3, <1>4, SelectKeeps

-----------------------------------------------------------------------------
(* What the status line says of a Browser whose copies are true.           *)

\* The rows of a folder have nothing in common.
LEMMA RowsApart ==
  ASSUME NEW E, IsListing(E), NEW d, NEW p \in Children(E, d), NEW q \in Children(E, d),
         NEW path, IsPrefix(p, path), IsPrefix(q, path)
  PROVE  p = q
<1>1. p \in RowsOf(E) /\ q \in RowsOf(E) /\ Front(p) = Front(q)
  BY DEF Children
<1>2. /\ p \in Seq(AllNames) /\ Len(p) > 0 /\ Len(Front(p)) = Len(p) - 1
      /\ q \in Seq(AllNames) /\ Len(q) > 0 /\ Len(Front(q)) = Len(q) - 1
  BY <1>1, RowShape
<1>3. Len(p) = Len(q)
  BY <1>1, <1>2
<1>4. SubSeq(p, 1, Len(p)) = SubSeq(q, 1, Len(q))
  BY <1>3 DEF IsPrefix
<1>5. SubSeq(p, 1, Len(p)) = p /\ SubSeq(q, 1, Len(q)) = q
  BY <1>2
<1> QED
  BY <1>4, <1>5

\* The bytes of the selected rows are those of the files a selection takes.
LEMMA BytesOfSelection ==
  ASSUME NEW E, IsListing(E), NEW d, NEW sel \in SUBSET Children(E, d), sel # {}
  PROVE  Total([p \in sel \cap RowsOf(E) |-> BytesOf(E, p)]) =
         Total([e \in Takes(E, sel) |-> IF e.dir THEN 0 ELSE e.size])
<1> DEFINE g == [p \in sel |-> Units([e \in FilesUnder(E, p) |-> e.size])]
           t == [e \in Takes(E, sel) |-> IF e.dir THEN 0 ELSE e.size]
<1>1. sel \cap RowsOf(E) = sel /\ IsFiniteSet(sel)
  <2>1. sel \subseteq RowsOf(E)
    BY DEF Children
  <2>2. IsFiniteSet(RowsOf(E))
    BY FiniteRows
  <2>3. IsFiniteSet(sel)
    BY <2>1, <2>2, FS_Subset
  <2> QED
    BY <2>1, <2>3
<1>2. ASSUME NEW p \in sel
      PROVE  IsFiniteSet(g[p]) /\ Cardinality(g[p]) = BytesOf(E, p)
  BY FiniteBytes DEF BytesOf, Total
<1>3. ASSUME NEW p \in sel
      PROVE  g[p] = UNION {{e} \X (1 .. e.size) : e \in FilesUnder(E, p)}
  BY DEF Units
<1>4. Units(t) = UNION {{e} \X (1 .. (IF e.dir THEN 0 ELSE e.size)) : e \in Takes(E, sel)}
  BY DEF Units
<1>5. DOMAIN g = sel
  OBVIOUS
<1> HIDE DEF g, t
<1>6. ASSUME NEW p \in sel, NEW q \in sel, NEW u \in g[p], u \in g[q] PROVE p = q
  <2>1. u[1] \in FilesUnder(E, p) /\ u[1] \in FilesUnder(E, q)
    BY <1>3, <1>6
  <2> QED
    BY <2>1, RowsApart DEF FilesUnder
<1>7. UNION {g[p] : p \in sel} = Units(t)
  <2>1. ASSUME NEW p \in sel, NEW u \in g[p] PROVE u \in Units(t)
    <3>1. PICK e \in FilesUnder(E, p) : u \in {e} \X (1 .. e.size)
      BY <1>3
    <3>2. e \in Takes(E, sel) /\ ~e.dir
      BY DEF FilesUnder, Takes
    <3> QED
      BY <1>4, <3>1, <3>2
  <2>2. ASSUME NEW u \in Units(t) PROVE \E p \in sel : u \in g[p]
    <3>1. PICK e \in Takes(E, sel) : u \in {e} \X (1 .. (IF e.dir THEN 0 ELSE e.size))
      BY <1>4
    <3>2. ~e.dir
      BY <3>1
    <3>3. PICK p \in sel : IsPrefix(p, e.path)
      BY DEF Takes
    <3>4. e \in FilesUnder(E, p)
      BY <3>2, <3>3 DEF Takes, FilesUnder
    <3> QED
      BY <1>3, <3>1, <3>2, <3>4
  <2> QED
    BY <2>1, <2>2
<1>8. Total([p \in sel |-> Cardinality(g[p])]) = Cardinality(UNION {g[p] : p \in sel})
  <2>1. \A p \in sel : IsFiniteSet(g[p])
    BY <1>2
  <2>2. \A p, q \in sel : p # q => g[p] \cap g[q] = {}
    BY <1>6
  <2> QED
    BY <1>1, <1>5, <2>1, <2>2, SumOfSizes
<1>9. [p \in sel |-> Cardinality(g[p])] = [p \in sel |-> BytesOf(E, p)]
  BY <1>2
<1> QED
  BY <1>1, <1>7, <1>8, <1>9 DEF Total, t

\* Selected rows that a search hides are the ones not shown.
LEMMA HiddenRows ==
  ASSUME NEW E, IsListing(E), NEW b, Kept(E, b)
  PROVE  b.hidden = Cardinality(b.sel \ Range(b.visible))
<1>1. b.sel \subseteq Children(E, b.dir) /\ b.sel \subseteq RowsOf(E)
  BY DEF Kept, Current, Sound, Children
<1>2. Range(b.visible) = {p \in Children(E, b.dir) : Last(p) \in b.find}
  BY VisibleRows DEF Kept, Found
<1>3. b.sel \ Range(b.visible) = {p \in b.sel \cap RowsOf(E) : Last(p) \notin b.find}
  BY <1>1, <1>2
<1>4. CASE b.find = NoFind
  <2>1. \A p \in b.sel : Last(p) \in b.find
    BY <1>1, <1>4, RowShape DEF NoFind, AllNames
  <2>2. b.sel \ Range(b.visible) = {}
    BY <1>3, <2>1
  <2> QED
    BY <1>4, <2>2, FS_EmptySet DEF Kept, HiddenSelected
<1>5. CASE b.find # NoFind
  BY <1>3, <1>5 DEF Kept, HiddenSelected
<1> QED
  BY <1>4, <1>5

-----------------------------------------------------------------------------
(* The list in the window.                                                 *)

\* The archive listed, its Browser, the rectangle over the rows.
RectangleHere(m) ==
  m # NoDrag /\ m.file = archive.file => m.original \subseteq Children(L, m.dir)

ListInv == IsListing(L) /\ Kept(L, br) /\ RectangleHere(marquee)

LEMMA ClicksKeep ==
  ASSUME IsListing(L), Kept(L, br),
         ClickRow \/ ClickEmpty \/ ClickHeader \/ SecondaryClick \/ TypeSearch \/ ChooseAll
  PROVE  Kept(L, br') /\ marquee' = marquee
<1>1. CASE ClickRow
  BY <1>1, SelectKeeps DEF ClickRow, Browse
<1>2. CASE ClickEmpty
  BY <1>2, ClearSelectionKeeps DEF ClickEmpty, Browse
<1>3. CASE ClickHeader
  BY <1>3, SortByKeeps DEF ClickHeader, Browse
<1>4. CASE SecondaryClick
  BY <1>4, SelectKeeps DEF SecondaryClick, Browse
<1>5. CASE TypeSearch
  BY <1>5, SearchKeeps DEF TypeSearch, Browse
<1>6. CASE ChooseAll
  BY <1>6, SelectAllKeeps DEF ChooseAll, Browse
<1> QED
  BY <1>1, <1>2, <1>3, <1>4, <1>5, <1>6

LEMMA TravelKeeps ==
  ASSUME IsListing(L), Kept(L, br),
         OpenFolder \/ OpenParent \/ TreeClick \/ Crumb \/ TreeToggle \/ GoBack \/ GoForward
  PROVE  Kept(L, br') /\ marquee' \in {marquee, NoDrag}
<1>1. CASE OpenFolder
  BY <1>1, NavigateKeeps DEF OpenFolder, Leave
<1>2. CASE OpenParent
  BY <1>2, ParentKeeps DEF OpenParent, Leave
<1>3. CASE TreeClick
  BY <1>3, NavigateKeeps DEF TreeClick, Leave
<1>4. CASE Crumb
  BY <1>4, NavigateKeeps DEF Crumb, Browse
<1>5. CASE TreeToggle
  BY <1>5, ToggleFolderKeeps DEF TreeToggle, Browse
<1>6. CASE GoBack
  BY <1>6, BackKeeps DEF GoBack, Browse
<1>7. CASE GoForward
  BY <1>7, ForwardKeeps DEF GoForward, Browse
<1> QED
  BY <1>1, <1>2, <1>3, <1>4, <1>5, <1>6, <1>7

LEMMA KeysKeep ==
  ASSUME IsListing(L), Kept(L, br),
         KeyParent \/ KeyMove \/ KeyEnd \/ KeySpace \/ KeyEnter \/ KeyType \/ KeyEscape
  PROVE  Kept(L, br') /\ marquee' \in {marquee, NoDrag}
<1>1. CASE KeyParent
  BY <1>1, ParentKeeps DEF KeyParent, Browse
<1>2. CASE KeyMove
  BY <1>2, MoveFocusKeeps DEF KeyMove, Browse
<1>3. CASE KeyEnd
  <2> DEFINE c == [br EXCEPT !.focus = IF @ = NoRow THEN Head(br.visible) ELSE @]
  <2>1. PICK offset \in {-Len(br.visible), Len(br.visible)}, extend \in BOOLEAN :
          br' = MoveFocus(L, c, offset, extend, FALSE)
    BY <1>3 DEF KeyEnd, Browse
  <2>2. br.visible \in Seq(Children(L, br.dir)) /\ br.visible # <<>>
    BY <1>3, VisibleRows DEF KeyEnd, Kept
  <2>3. offset \in Int
    BY <2>1, <2>2
  <2>4. Head(br.visible) \in Range(br.visible)
    <3>1. 1 \in DOMAIN br.visible /\ Head(br.visible) = br.visible[1]
      BY <2>2
    <3> QED
      BY <3>1 DEF Range
  <2>5. c = [br EXCEPT !.focus = IF br.focus = NoRow THEN Head(br.visible) ELSE br.focus]
    OBVIOUS
  <2>6. (IF br.focus = NoRow THEN Head(br.visible) ELSE br.focus) \in Range(br.visible)
    BY <2>4 DEF Kept, Current
  <2>7. Kept(L, c)
    BY <2>5, <2>6, FocusKeeps
  <2> HIDE DEF c
  <2>8. Kept(L, br')
    BY <2>1, <2>3, <2>7, MoveFocusKeeps
  <2> QED
    BY <1>3, <2>8 DEF KeyEnd, Browse
<1>4. CASE KeySpace
  <2>1. br.focus \in Children(L, br.dir)
    BY <1>4, VisibleRows DEF KeySpace, Kept, Current
  <2> QED
    BY <1>4, <2>1, ToggleKeeps DEF KeySpace, Browse
<1>5. CASE KeyEnter
  BY <1>5, NavigateKeeps DEF KeyEnter, Browse
<1>6. CASE KeyType
  BY <1>6, JumpToKeeps DEF KeyType, Browse
<1>7. CASE KeyEscape
  BY <1>7, SearchKeeps, ClearSelectionKeeps DEF KeyEscape
<1> QED
  BY <1>1, <1>2, <1>3, <1>4, <1>5, <1>6, <1>7

\* The rectangle selects rows of the folder it was begun in, or none.
LEMMA RectangleKeeps ==
  ASSUME ListInv, StartMarquee \/ DrawMarquee \/ ReleaseMarquee
  PROVE  Kept(L, br') /\ RectangleHere(marquee')
<1> USE DEF RectangleHere
<1>1. IsListing(L) /\ Kept(L, br) /\ RectangleHere(marquee)
  BY DEF ListInv
<1>2. CASE StartMarquee
  <2>1. br.sel \subseteq Children(L, br.dir)
    BY <1>1 DEF Kept, Current, Sound
  <2>2. /\ marquee'.original \subseteq br.sel /\ marquee'.dir = br.dir /\ br' = br
    BY <1>2 DEF StartMarquee
  <2> QED
    BY <1>1, <2>1, <2>2
<1>3. CASE DrawMarquee
  <2>1. CASE marquee.file # archive.file \/ marquee.dir # br.dir
    BY <1>1, <1>3, <2>1 DEF DrawMarquee
  <2>2. CASE ~(marquee.file # archive.file \/ marquee.dir # br.dir)
    <3>1. PICK i \in 1 .. Len(br.visible) + 1, k \in 1 .. Len(br.visible) + 1 :
            br' = SetSelection(L, br, Covered({br.visible[n] : n \in i .. k - 1}))
      BY <1>3, <2>2 DEF DrawMarquee
    <3>2. br.visible \in Seq(Children(L, br.dir))
      BY <1>1, VisibleRows DEF Kept
    <3> DEFINE rows == {br.visible[n] : n \in i .. k - 1}
    <3>3. rows \subseteq Children(L, br.dir)
      <4>1. \A n \in i .. k - 1 : n \in 1 .. Len(br.visible)
        BY <3>1, <3>2
      <4> QED
        BY <3>2, <4>1
    <3>4. marquee.original \subseteq Children(L, br.dir) /\ marquee' = marquee
      BY <1>1, <1>3, <2>2 DEF DrawMarquee
    <3> HIDE DEF rows
    <3>5. Covered(rows) \in SUBSET Children(L, br.dir)
      BY <3>3, <3>4 DEF Covered
    <3>6. Kept(L, SetSelection(L, br, Covered(rows)))
      BY <1>1, <3>5, SetSelectionKeeps
    <3> QED
      BY <1>1, <3>1, <3>4, <3>6 DEF rows
  <2> QED
    BY <2>1, <2>2
<1>4. CASE ReleaseMarquee
  BY <1>1, <1>4 DEF ReleaseMarquee
<1> QED
  BY <1>2, <1>3, <1>4

LEMMA BrowsingKeepsList == ASSUME ListInv, BrowseStep PROVE ListInv'
<1>1. IsListing(L) /\ Kept(L, br) /\ RectangleHere(marquee)
  BY DEF ListInv
<1>2. archive' = archive /\ L' = L
  BY BrowsingOnly DEF L
<1>3. Kept(L, br') /\ RectangleHere(marquee')
  <2>1. CASE StartMarquee \/ DrawMarquee \/ ReleaseMarquee
    BY <2>1, RectangleKeeps
  <2>2. CASE ~(StartMarquee \/ DrawMarquee \/ ReleaseMarquee)
    <3>1. Kept(L, br') /\ marquee' \in {marquee, NoDrag}
      BY <1>1, <2>2, ClicksKeep, TravelKeeps, KeysKeep DEF BrowseStep
    <3> QED
      BY <1>1, <3>1 DEF RectangleHere
  <2> QED
    BY <2>1, <2>2
<1> QED
  BY <1>1, <1>2, <1>3 DEF ListInv, RectangleHere

\* Nothing but browsing and a listing touches the list.
LEMMA ListStays ==
  ASSUME WorkStep \/ Choice \/ Done \/ Fails \/ Cancelled \/ DragEnds \/ UNCHANGED vars
  PROVE  UNCHANGED list
<1>1. CASE Verify \/ Preview \/ QuickExtract \/ DragOut
  BY <1>1 DEF Verify, Preview, QuickExtract, DragOut, Start
<1>2. CASE ShowExtract \/ TypePassword \/ EditForm \/ BeginExtraction \/ CancelForm
  BY <1>2 DEF ShowExtract, TypePassword, EditForm, BeginExtraction, CancelForm, Start
<1>3. CASE OpenRecent \/ Reload \/ AskPassword \/ AnswerPassword \/ Reopen \/ ShellRetry
  BY <1>3 DEF OpenRecent, Reload, AskPassword, AnswerPassword, Reopen, ShellRetry, Open
<1>4. CASE NewArchive \/ EditDraft \/ CancelDraft \/ CreateArchive \/ Drop \/ Choose
  BY <1>4 DEF NewArchive, EditDraft, CancelDraft, CreateArchive, Drop, Choose
<1>5. CASE Choice \/ Done \/ Fails \/ Cancelled \/ DragEnds
  BY <1>5 DEF Choice, Done, Fails, Cancelled, DragEnds
<1>6. CASE UNCHANGED vars
  BY <1>6 DEF vars, list
<1> QED
  BY <1>1, <1>2, <1>3, <1>4, <1>5, <1>6 DEF WorkStep

LEMMA ListStep == ASSUME WorkInv, ListInv, [Next]_vars PROVE ListInv'
<1>1. CASE BrowseStep
  BY <1>1, BrowsingKeepsList
<1>2. CASE UNCHANGED list
  BY <1>2 DEF list, ListInv, RectangleHere, L
<1>3. ASSUME NEW entries \in Listings[job.file], job.kind = "list", ListDone(entries)
      PROVE  ListInv'
  <2>1. job.file \in Files
    BY <1>3 DEF WorkInv, JobInv
  <2>2. IsListing(entries)
    BY <1>3, <2>1, WorkspaceAssumption
  <2>3. L' = entries /\ br' = NewBrowser(entries) /\ marquee' = NoDrag
    BY <1>3 DEF ListDone, L
  <2>4. Kept(entries, NewBrowser(entries))
    BY NewBrowserKeeps
  <2> QED
    BY <2>2, <2>3, <2>4 DEF ListInv, RectangleHere
<1>4. CASE WorkStep \/ Choice \/ Done \/ Fails \/ Cancelled \/ DragEnds \/ UNCHANGED vars
  BY <1>2, <1>4, ListStays
<1> QED
  BY <1>1, <1>3, <1>4 DEF Next, Result

LEMMA ListInit == Init => ListInv
<1> SUFFICES ASSUME Init PROVE ListInv
  OBVIOUS
<1>1. L = {} /\ br = NewBrowser({}) /\ marquee = NoDrag
  BY DEF Init, L, Nothing
<1>2. IsListing({})
  BY FS_EmptySet DEF IsListing
<1> QED
  BY <1>1, <1>2, NewBrowserKeeps DEF ListInv, RectangleHere

LEMMA ListInvariant == Spec => []ListInv
<1>1. WorkInv /\ ListInv /\ [Next]_vars => ListInv'
  BY ListStep
<1> QED
  BY <1>1, ListInit, WorkInvariant, PTL DEF Spec

\* StatusIsTrue: the rows shown, the counts of hidden rows and selected bytes, the
\* tree and the focus are what the archive, the folder, the search and the
\* selection make them, after any clicks, keys, rectangles and listings.
THEOREM StatusStaysTrue == Spec => []StatusIsTrue
<1>1. ListInv => StatusIsTrue
  <2> SUFFICES ASSUME ListInv PROVE StatusIsTrue
    OBVIOUS
  <2>1. IsListing(L) /\ Kept(L, br)
    BY DEF ListInv
  <2>2. br.hidden = Cardinality(br.sel \ Range(br.visible))
    BY <2>1, HiddenRows
  <2>3. br.sel \in SUBSET Children(L, br.dir)
    BY <2>1 DEF Kept, Current, Sound
  <2>4. br.sel # {} =>
          br.bytes = Total([e \in Takes(L, br.sel) |-> IF e.dir THEN 0 ELSE e.size])
    BY <2>1, <2>3, BytesOfSelection DEF Kept, BytesSelected
  <2> QED
    BY <2>1, <2>2, <2>4 DEF StatusIsTrue, Kept, Current, Sound
<1> QED
  BY <1>1, ListInvariant, PTL

-----------------------------------------------------------------------------
(* The rows that forms and jobs are about.                                 *)

\* At most one window lies above the list, and no listing begins or ends under
\* one, nor while a form is kept for a failure.
OneWindow ==
  /\ form # NoForm =>
       /\ ~creating /\ unlock = NoUnlock
       /\ job = Idle \/ (job.kind = "choose" /\ job.what = "destination")
  /\ unlock # NoUnlock => ~creating /\ job = Idle
  /\ creating => job = Idle \/ (job.kind = "choose" /\ job.what \in {"sources", "output"})
  /\ pending # NoForm => job.kind = "extract"

SelInv ==
  /\ \A options \in {form, pending} : options = NoForm \/ options.sel \subseteq RowsOf(L)
  /\ job.kind \in Operations => job.file = archive.file /\ job.sel \subseteq RowsOf(L)

HereInv == OneWindow /\ SelInv

LEMMA HereInit == Init => HereInv
BY DEF Init, HereInv, OneWindow, SelInv, Operations, Idle, Listing, None

\* The selection and the rows shown are rows of the archive.
LEMMA RowsHere ==
  ASSUME ListInv PROVE br.sel \subseteq RowsOf(L) /\ Range(br.visible) \subseteq RowsOf(L)
<1>1. IsListing(L) /\ Kept(L, br)
  BY DEF ListInv
<1>2. br.sel \subseteq Children(L, br.dir) /\ Range(br.visible) \subseteq Children(L, br.dir)
  BY <1>1, VisibleRows DEF Kept, Current, Sound
<1> QED
  BY <1>2 DEF Children

LEMMA BrowsingKeepsHere == ASSUME HereInv, BrowseStep \/ UNCHANGED vars PROVE HereInv'
<1>1. UNCHANGED <<archive, job, forms, new>>
  BY BrowsingOnly DEF vars, forms, new
<1> QED
  BY <1>1 DEF HereInv, OneWindow, SelInv, L, forms, new

LEMMA WorkingKeepsHere ==
  ASSUME WorkInv, ListInv, HereInv, Verify \/ Preview \/ QuickExtract \/ DragOut PROVE HereInv'
<1> USE DEF HereInv, OneWindow, SelInv, Operations, NoForm
<1>1. /\ Working /\ archive' = archive /\ L' = L /\ creating' = creating
      /\ UNCHANGED <<form, unlock>>
  BY DEF Verify, Preview, QuickExtract, DragOut, Start, list, new, L
<1>2. form = NoForm /\ ~creating /\ unlock = NoUnlock /\ job = Idle
  BY <1>1 DEF Working, Modal, Busy
<1>3. ASSUME NEW kind \in Operations, NEW options, options.sel \subseteq RowsOf(L),
             job' = Request(kind, options)
      PROVE  job'.kind = kind /\ job'.file = archive.file /\ job'.sel \subseteq RowsOf(L)
  BY <1>3 DEF Request
<1>4. CASE Verify
  <2>1. job' = Request("verify", All) /\ All.sel = {} /\ pending' = pending
    BY <1>4 DEF Verify, Start, All
  <2> QED
    BY <1>1, <1>2, <1>3, <2>1 DEF Idle, None
<1>5. CASE Preview
  <2>1. PICK p \in Range(br.visible) : job' = Request("preview", [All EXCEPT !.sel = {p}])
    BY <1>5 DEF Preview, Start
  <2>2. [All EXCEPT !.sel = {p}].sel = {p} /\ p \in RowsOf(L) /\ pending' = pending
    BY <1>5, RowsHere DEF All, Preview
  <2> QED
    BY <1>1, <1>2, <1>3, <2>1, <2>2 DEF Idle, None
<1>6. CASE DragOut
  <2>1. job' = Request("drag", [All EXCEPT !.sel = br.sel]) /\ pending' = pending
    BY <1>6 DEF DragOut, Start
  <2>2. [All EXCEPT !.sel = br.sel].sel = br.sel /\ br.sel \subseteq RowsOf(L)
    BY RowsHere DEF All
  <2> QED
    BY <1>1, <1>2, <1>3, <2>1, <2>2 DEF Idle, None
<1>7. CASE QuickExtract
  <2>1. PICK there \in {"named", "beside"} :
          /\ job' = Request("extract", Quickly(there))
          /\ pending' = [Quickly(there) EXCEPT !.protect = (typed # None)]
    BY <1>7 DEF QuickExtract, Start
  <2>2. Quickly(there).sel = {} /\ pending'.sel = {}
    BY <2>1 DEF Quickly, All
  <2> QED
    BY <1>1, <1>2, <1>3, <2>1, <2>2
<1> QED
  BY <1>4, <1>5, <1>6, <1>7

LEMMA FillingKeepsHere ==
  ASSUME WorkInv, ListInv, HereInv,
         ShowExtract \/ TypePassword \/ EditForm \/ BeginExtraction \/ CancelForm
  PROVE  HereInv'
<1> USE DEF HereInv, OneWindow, SelInv, Operations
<1>1. archive' = archive /\ L' = L /\ creating' = creating /\ unlock' = unlock
  BY DEF ShowExtract, TypePassword, EditForm, BeginExtraction, CancelForm, Start, list, new, L
<1>2. CASE ShowExtract
  <2>1. PICK sel \in {br.sel, {}} :
          form' = [All EXCEPT !.sel = sel, !.protect = (typed # None)]
    BY <1>2 DEF ShowExtract
  <2>2. form'.sel \subseteq RowsOf(L)
    BY <2>1, RowsHere DEF All
  <2> QED
    BY <1>1, <1>2, <2>2 DEF ShowExtract, Working, Modal, Busy
<1>3. CASE TypePassword
  BY <1>1, <1>3 DEF TypePassword
<1>4. CASE EditForm
  <2>1. form # NoForm /\ job = Idle /\ DOMAIN form = OptionFields
    BY <1>4 DEF EditForm, Filling, Busy, WorkInv, FormInv
  <2>2. form'.sel = form.sel /\ UNCHANGED <<job, pending>>
    BY <1>4, <2>1 DEF EditForm, OptionFields
  <2> QED
    BY <1>1, <2>1, <2>2
<1>5. CASE BeginExtraction
  <2>1. /\ form # NoForm /\ job' = Request("extract", form) /\ pending' = form /\ form' = NoForm
    BY <1>5 DEF BeginExtraction, Filling, Start
  <2>2. job'.kind = "extract" /\ job'.file = archive.file /\ job'.sel = form.sel
    BY <2>1 DEF Request
  <2> QED
    BY <1>1, <2>1, <2>2
<1>6. CASE CancelForm
  BY <1>1, <1>6 DEF CancelForm
<1> QED
  BY <1>2, <1>3, <1>4, <1>5, <1>6

\* A listing begins only where no form is open or kept.
LEMMA OpensHere ==
  ASSUME HereInv, form = NoForm, ~creating, job = Idle, unlock' = NoUnlock,
         NEW f, NEW password, NEW forShell, Open(f, password, forShell)
  PROVE  HereInv'
BY DEF HereInv, OneWindow, SelInv, Operations, Open, Listing, Idle, None, list, new, L

LEMMA OpeningKeepsHere ==
  ASSUME WorkInv, HereInv,
         OpenRecent \/ Reload \/ AskPassword \/ AnswerPassword \/ Reopen \/ ShellRetry
  PROVE  HereInv'
<1>1. CASE OpenRecent
  BY <1>1, OpensHere DEF OpenRecent, Modal, Open, Busy
<1>2. CASE Reload
  BY <1>2, OpensHere DEF Reload, Modal, Open, Busy
<1>3. CASE AskPassword
  BY <1>3 DEF AskPassword, Modal, Busy, HereInv, OneWindow, SelInv, Operations, list, new, L
<1>4. CASE AnswerPassword
  BY <1>4 DEF AnswerPassword, HereInv, OneWindow, SelInv, Operations, list, new, L
<1>5. CASE Reopen
  <2>1. form = NoForm /\ ~creating
    BY <1>5 DEF Reopen, HereInv, OneWindow
  <2> QED
    BY <1>5, <2>1, OpensHere DEF Reopen, Open, Busy
<1>6. CASE ShellRetry
  <2>1. ~Listed /\ ~creating /\ unlock = NoUnlock
    BY <1>6 DEF ShellRetry, WorkInv, ShellInv
  <2>2. form = NoForm
    BY <2>1 DEF WorkInv, FormInv
  <2> QED
    BY <1>6, <2>1, <2>2, OpensHere DEF ShellRetry, Open, Busy
<1> QED
  BY <1>1, <1>2, <1>3, <1>4, <1>5, <1>6

LEMMA DraftingKeepsHere ==
  ASSUME HereInv, NewArchive \/ EditDraft \/ CancelDraft \/ CreateArchive \/ Drop \/ Choose
  PROVE  HereInv'
<1> USE DEF HereInv, OneWindow, SelInv, Operations, forms
<1>1. archive' = archive /\ L' = L /\ UNCHANGED forms
  BY DEF NewArchive, EditDraft, CancelDraft, CreateArchive, Drop, Choose, list, new, L
<1>2. CASE NewArchive
  BY <1>1, <1>2 DEF NewArchive, Modal, Busy
<1>3. CASE EditDraft \/ CancelDraft
  <2>1. job' = job /\ (creating' = creating \/ creating' = FALSE)
    BY <1>3 DEF EditDraft, CancelDraft, list
  <2> QED
    BY <1>1, <2>1
<1>4. CASE CreateArchive
  <2>1. creating /\ job = Idle /\ job' = [kind |-> "compress"] /\ ~creating'
    BY <1>4 DEF CreateArchive, Drafting, Busy
  <2> QED
    BY <1>1, <2>1 DEF Idle, None
<1>5. CASE Drop
  <2>1. CASE creating
    BY <1>1, <1>5, <2>1 DEF Drop, AddSources, Busy
  <2>2. CASE ~creating
    BY <1>1, <1>5, <2>2 DEF Drop, Busy, Idle, None, new
  <2> QED
    BY <2>1, <2>2
<1>6. CASE Choose
  <2>1. job = Idle /\ creating' = creating
    BY <1>6 DEF Choose, Busy, new
  <2>2. CASE ~Modal /\ job' = [kind |-> "choose", what |-> "archive"]
    BY <1>1, <2>1, <2>2 DEF Modal, Idle, None
  <2>3. CASE creating /\ \E what \in {"sources", "output"} : job' = [kind |-> "choose", what |-> what]
    BY <1>1, <2>1, <2>3 DEF Idle, None
  <2>4. CASE form # NoForm /\ job' = [kind |-> "choose", what |-> "destination"]
    BY <1>1, <2>1, <2>4 DEF Idle, None
  <2> QED
    BY <1>6, <2>2, <2>3, <2>4 DEF Choose
<1> QED
  BY <1>2, <1>3, <1>4, <1>5, <1>6

LEMMA ListDoneKeepsHere ==
  ASSUME HereInv, NEW entries, ListDone(entries) PROVE HereInv'
<1> USE DEF HereInv, OneWindow, SelInv, Operations
<1>1. /\ job.kind = "list" /\ archive' = [file |-> job.file, entries |-> entries]
      /\ UNCHANGED <<unlock, creating>>
  BY DEF ListDone, new
<1>2. /\ form = NoForm /\ pending = NoForm /\ ~creating /\ unlock = NoUnlock
  BY <1>1 DEF Idle, None
<1>3. CASE shell \in {"here", "folder"}
  <2>1. PICK there \in {"named", "beside"} :
          /\ job' = [kind |-> "extract", file |-> job.file, password |-> job.carry, sel |-> {},
                     there |-> there, overwrite |-> FALSE, dropped |-> FALSE]
          /\ pending' = [Quickly(there) EXCEPT !.protect = (job.carry # None)]
          /\ form' = form
    BY <1>3 DEF ListDone
  <2>2. pending'.sel = {}
    BY <2>1 DEF Quickly, All
  <2> QED
    BY <1>1, <1>2, <2>1, <2>2
<1>4. CASE shell \notin {"here", "folder"}
  <2>1. job' = Idle /\ pending' = pending
    BY <1>4 DEF ListDone
  <2>2. form' = NoForm \/ form'.sel = {}
    <3>1. \A b : [All EXCEPT !.protect = b].sel = {}
      BY DEF All
    <3> QED
      BY <1>2, <3>1 DEF ListDone
  <2> QED
    BY <1>1, <1>2, <2>1, <2>2 DEF Idle, None
<1> QED
  BY <1>3, <1>4

LEMMA ChoiceKeepsHere == ASSUME WorkInv, HereInv, Choice PROVE HereInv'
<1> USE DEF HereInv, OneWindow, SelInv, Operations
<1>1. /\ job.kind = "choose" /\ archive' = archive /\ L' = L
      /\ UNCHANGED <<pending, unlock>>
  BY DEF Choice, list, L
<1>2. /\ pending = NoForm /\ unlock = NoUnlock
      /\ form # NoForm => job.what = "destination"
  BY <1>1 DEF Idle, None
<1>3. CASE job.what = "destination"
  <2>1. job' = Idle /\ creating' = creating
    BY <1>1, <1>3 DEF Choice, new
  <2>2. form' = form \/ (form # NoForm /\ form' = [form EXCEPT !.there = "chosen"])
    BY <1>3 DEF Choice
  <2>3. form = NoForm => form' = NoForm
    BY <2>2
  <2>4. form # NoForm => form'.sel = form.sel
    BY <2>2 DEF WorkInv, FormInv, OptionFields
  <2>5. form # NoForm => ~creating
    BY <1>1
  <2> QED
    BY <1>1, <1>2, <2>1, <2>3, <2>4, <2>5 DEF Idle, None
<1>4. CASE job.what # "destination"
  <2>1. form = NoForm /\ form' = form
    BY <1>2, <1>4 DEF Choice
  <2>2. \/ job' = Idle
        \/ (\E f \in Files : job' = Listing(f, None, FALSE)) /\ creating' = creating
           /\ job.what \in {"archive", "dropped"}
    BY <1>1, <1>4 DEF Choice, new
  <2>3. job.what \in {"archive", "dropped"} => ~creating
    BY <1>1 DEF Idle, None
  <2> QED
    BY <1>1, <1>2, <2>1, <2>2, <2>3 DEF Idle, Listing, None
<1> QED
  BY <1>3, <1>4

LEMMA EndsKeepHere ==
  ASSUME WorkInv, HereInv, Done \/ Fails \/ Cancelled \/ DragEnds PROVE HereInv'
<1> USE DEF HereInv, OneWindow, SelInv, Operations
<1>1. archive' = archive /\ L' = L /\ unlock' = unlock
  BY DEF Done, Fails, Cancelled, DragEnds, list, forms, L
<1>2. CASE Done
  BY <1>1, <1>2 DEF Done, Idle, None
<1>3. CASE Fails
  <2>1. job # Idle /\ job.kind # "choose" /\ job' = Idle /\ pending' = NoForm
    BY <1>3 DEF Fails, Idle, None
  <2>2. unlock = NoUnlock /\ form = NoForm /\ ~creating
    BY <2>1
  <2>3. form' = NoForm \/ (form' = pending /\ job.kind = "extract" /\ ~creating')
    BY <1>3, <2>2 DEF Fails
  <2> QED
    BY <1>1, <2>1, <2>2, <2>3 DEF Idle, None
<1>4. CASE Cancelled
  BY <1>1, <1>4 DEF Cancelled, Idle, None, new
<1>5. CASE DragEnds
  <2>1. job.kind = "drag" /\ UNCHANGED <<form, pending, creating>> /\ pending = NoForm
    BY <1>5 DEF DragEnds, forms, new
  <2>2. CASE job' = Idle
    BY <1>1, <2>1, <2>2 DEF Idle, None
  <2>3. CASE job' = [job EXCEPT !.kind = "extract", !.there = "dropped", !.dropped = TRUE]
    <3>1. job'.kind = "extract" /\ job'.file = job.file /\ job'.sel = job.sel
      BY <2>1, <2>3 DEF WorkInv, JobInv
    <3> QED
      BY <1>1, <2>1, <3>1 DEF Idle, None
  <2> QED
    BY <1>5, <2>2, <2>3 DEF DragEnds
<1> QED
  BY <1>2, <1>3, <1>4, <1>5

LEMMA HereStep == ASSUME WorkInv, ListInv, HereInv, [Next]_vars PROVE HereInv'
<1>1. CASE BrowseStep \/ UNCHANGED vars
  BY <1>1, BrowsingKeepsHere
<1>2. CASE WorkStep
  BY <1>2, WorkingKeepsHere, FillingKeepsHere, OpeningKeepsHere, DraftingKeepsHere DEF WorkStep
<1>3. CASE Result
  BY <1>3, ListDoneKeepsHere, ChoiceKeepsHere, EndsKeepHere DEF Result
<1> QED
  BY <1>1, <1>2, <1>3 DEF Next

\* SelectionIsHere: what is selected, what a form or a failed extraction is about
\* and what a job works on are rows of the archive and the folder on screen.
THEOREM SelectionStaysHere == Spec => []SelectionIsHere
<1>1. ListInv /\ HereInv => SelectionIsHere
  BY DEF ListInv, HereInv, SelInv, SelectionIsHere, Kept, Current, Sound, Operations
<1>2. WorkInv /\ ListInv /\ HereInv /\ [Next]_vars => HereInv'
  BY HereStep
<1>3. Spec => []HereInv
  BY <1>2, HereInit, WorkInvariant, ListInvariant, PTL DEF Spec
<1> QED
  BY <1>1, <1>3, ListInvariant, PTL

=============================================================================
