---------------------------- MODULE AppLifecycle ----------------------------
(***************************************************************************)
(* The window of geezipx-egui between launch and exit: the background      *)
(* operations it owns, the questions it asks before closing, and the       *)
(* one-window mode the file manager's context menu starts                  *)
(* (crates/gui-egui/src/app/mod.rs, interaction.rs, settings.rs,           *)
(* extract.rs, shell_progress.rs, and job.rs).                             *)
(*                                                                         *)
(* The UI thread runs frame after frame.  A frame (App::update) polls the  *)
(* integration job, the native drag and the engine job, in this order,     *)
(* then looks at a pending request to close, then draws: the list and the  *)
(* forms, the settings, what lies above them, with at most one input below *)
(* and one above.  The three workers run concurrently with all of this and *)
(* leave their result in a channel.                                        *)
(***************************************************************************)
EXTENDS Naturals

CONSTANT
  Systems            \* the systems whose drops may end a drag: on "windows" an
                     \* extraction by this window, on "other" the target's own read

ASSUME PlatformAssumption == Systems \subseteq {"windows", "other"}

VARIABLES
  phase,       \* where the UI thread is in the frame
  active,      \* App::active: the kind of the engine job, or "none"
  reply,       \* its worker and channel: "none", "running", "ok", "error"
  cancelled,   \* Control::cancelled of that job
  drag,        \* ExportState::receiver and its thread
  integ,       \* Settings::integration_job
  prompt,      \* App::close_prompt
  closing,     \* App::close_when_finished
  closeReq,    \* this frame has viewport().close_requested()
  closeCmd,    \* ViewportCommand::Close was sent in this frame
  veto,        \* ViewportCommand::CancelClose was sent in this frame
  exited,      \* the event loop has ended
  late,        \* the workers started since this frame looked at a request to close
  modals,      \* windows open above the list
  reload,      \* Settings::reload: the settings read the system when next drawn
  pendingForm, \* App::pending_extraction is some
  retry,       \* App::retry_path is some
  archive,     \* App::archive is some
  shell,       \* App::shell_task is some: launched to extract one archive
  shellAction  \* App::shell_extraction: what to do once it is listed

workers == <<active, reply, cancelled, drag, integ, late>>
close   == <<prompt, closing, closeReq, closeCmd, veto, exited>>
task    == <<pendingForm, retry, archive, shell, shellAction, reload>>
forms   == <<modals, task>>
vars == <<phase, active, reply, cancelled, drag, integ, late, prompt, closing, closeReq,
          closeCmd, veto, exited, modals, pendingForm, retry, archive, shell,
          shellAction, reload>>

Kinds == {"list", "dialog", "extract", "compress", "verify", "preview"}
Drops == {"cancelled", "error"}
           \cup (IF "windows" \in Systems THEN {"dropped"} ELSE {})
           \cup (IF "other" \in Systems THEN {"delivered"} ELSE {})
Phases == {"integration", "drag", "poll", "close", "render", "settings", "above", "end"}
Forms  == {"create", "extract"}

Busy == active # "none" \/ drag # "none" \/ integ # "none"
OnlyLate == /\ active = "none" \/ "job" \in late
            /\ drag = "none" \/ "drag" \in late
            /\ integ = "none" \/ "integration" \in late

-----------------------------------------------------------------------------
\* accept_launch: a manager that is empty, is looking at the path it was given
\* or compresses at once; or a shell extraction already listing its archive.
Init ==
  /\ phase = "render"
  /\ shell \in BOOLEAN
  /\ active \in IF shell THEN {"list"} ELSE {"none", "dialog", "compress"}
  /\ reply = IF active = "none" THEN "none" ELSE "running"
  /\ shellAction \in IF shell THEN {"form", "quick"} ELSE {"none"}
  /\ cancelled = FALSE
  /\ drag = "none" /\ integ = "none"
  /\ prompt = FALSE /\ closing = FALSE
  /\ closeReq = FALSE /\ closeCmd = FALSE /\ veto = FALSE /\ exited = FALSE
  /\ modals = {} /\ pendingForm = FALSE /\ retry = FALSE /\ archive = FALSE
  /\ late = {} /\ reload = FALSE

At(p)   == phase = p /\ ~exited
Then(p) == phase' = p

\* Job::spawn_in: a worker with a fresh Control and an empty channel.
Spawn(kind) ==
  /\ active' = kind
  /\ reply' = "running"
  /\ cancelled' = FALSE
  /\ late' = late \cup {"job"}

NoSpawn == UNCHANGED <<active, reply, cancelled, late>>

\* App::start: nothing happens while any worker is owned.
Start(kind) == IF Busy THEN NoSpawn ELSE Spawn(kind)

-----------------------------------------------------------------------------
(* The workers.                                                            *)

JobFinishes ==
  /\ ~exited /\ reply = "running"
  /\ reply' \in {"ok", "error"}
  /\ UNCHANGED <<phase, active, cancelled, drag, integ, late, close, forms>>

DragFinishes ==
  /\ ~exited /\ drag = "running"
  /\ drag' \in Drops
  /\ UNCHANGED <<phase, active, reply, cancelled, integ, late, close, forms>>

IntegrationFinishes ==
  /\ ~exited /\ integ = "running"
  /\ integ' = "sent"
  /\ UNCHANGED <<phase, active, reply, cancelled, drag, late, close, forms>>

-----------------------------------------------------------------------------
(* The first half of a frame.                                              *)

\* Faulty variant: the end of the job does not look at a close in waiting.
PollIntegrationSilently ==
  /\ At("integration") /\ Then("drag")
  /\ integ' = IF integ = "sent" THEN "none" ELSE integ
  /\ UNCHANGED <<active, reply, cancelled, drag, late, close, forms>>

PollIntegration ==
  /\ At("integration") /\ Then("drag")
  /\ \/ integ # "sent" /\ UNCHANGED <<integ, closeCmd>>
     \/ /\ integ = "sent"
        /\ integ' = "none"
        /\ closeCmd' = (closeCmd \/ (closing /\ active = "none" /\ drag = "none"))
  /\ UNCHANGED <<active, reply, cancelled, drag, late, prompt, closing, closeReq, veto,
                 exited, forms>>

\* Faulty variant: a folder dropped on starts an extraction even while closing.
PollDragRegardless ==
  /\ At("drag") /\ Then("poll")
  /\ \/ drag \in {"none", "running"} /\ NoSpawn /\ UNCHANGED <<drag, closeCmd>>
     \/ /\ drag \in Drops
        /\ drag' = "none"
        /\ closeCmd' = (closeCmd \/ closing)
        /\ IF drag = "dropped" /\ active = "none" /\ integ = "none"
             THEN Spawn("extract")
             ELSE NoSpawn
  /\ UNCHANGED <<integ, prompt, closing, closeReq, veto, exited, forms>>

\* Only a drop that Windows resolved to a folder goes on: it becomes an
\* extraction, unless the window is on its way out.
PollDrag ==
  /\ At("drag") /\ Then("poll")
  /\ \/ drag \in {"none", "running"} /\ NoSpawn /\ UNCHANGED <<drag, closeCmd>>
     \/ /\ drag \in Drops
        /\ drag' = "none"
        /\ closeCmd' = (closeCmd \/ closing)
        /\ IF drag = "dropped" /\ ~closing /\ active = "none" /\ integ = "none"
             THEN Spawn("extract")
             ELSE NoSpawn
  /\ UNCHANGED <<integ, prompt, closing, closeReq, veto, exited, forms>>

\* What follows a result: the engine is idle again, or the result itself has
\* started the next job; an idle window that is closing closes.
Settle(next, closingNow) ==
  /\ closing' = closingNow
  /\ IF next # "none" /\ drag = "none" /\ integ = "none"
       THEN Spawn(next) /\ UNCHANGED <<prompt, closeCmd>>
       ELSE /\ active' = "none" /\ reply' = "none" /\ cancelled' = FALSE
            /\ UNCHANGED late
            /\ prompt' = FALSE
            /\ closeCmd' = (closeCmd \/ closingNow)

\* A listing replaces the archive; the shell's extraction follows by itself.
ListDone ==
  LET act == IF closing THEN "none" ELSE shellAction
      free == drag = "none" /\ integ = "none"
  IN /\ active = "list" /\ reply = "ok"
     /\ archive' = TRUE /\ retry' = FALSE /\ shellAction' = "none"
     /\ modals' = IF act = "form" /\ free THEN modals \cup {"extract"} ELSE modals
     /\ pendingForm' = (pendingForm \/ (act = "quick" /\ free))
     /\ Settle(IF act = "quick" THEN "extract" ELSE "none", closing)

\* Faulty variant: the shell window stays open after its extraction.
ExtractDoneStays ==
  /\ active = "extract" /\ reply = "ok"
  /\ pendingForm' = FALSE
  /\ Settle("none", closing)
  /\ UNCHANGED <<modals, retry, archive, shellAction>>

ExtractDone ==
  /\ active = "extract" /\ reply = "ok"
  /\ pendingForm' = FALSE
  /\ Settle("none", closing \/ shell)
  /\ UNCHANGED <<modals, retry, archive, shellAction>>

\* A chooser's answer: nothing, an archive to list, sources, or a path.
DialogDone ==
  /\ active = "dialog" /\ reply = "ok"
  /\ \/ Settle("none", closing) /\ UNCHANGED modals
     \/ /\ ~closing /\ "extract" \notin modals
        /\ \/ Settle("list", closing) /\ UNCHANGED modals
           \/ Settle("none", closing) /\ modals' = modals \cup {"create"}
  /\ UNCHANGED <<pendingForm, retry, archive, shellAction>>

OtherDone ==
  /\ active \in {"compress", "verify", "preview"} /\ reply = "ok"
  /\ modals' = IF active = "preview" THEN modals \cup {"other"} ELSE modals
  /\ Settle("none", closing)
  /\ UNCHANGED <<pendingForm, retry, archive, shellAction>>

\* A failure reopens the form it came from; a cancellation ends a shell task.
JobFailed ==
  LET restore == ~cancelled /\ ~closing
  IN /\ reply = "error"
     /\ modals' = IF restore /\ active = "compress"
                    THEN (modals \ {"other"}) \cup {"create"}
                  ELSE IF restore /\ active = "extract"
                    THEN (modals \ {"other", "extract"}) \cup
                         (IF pendingForm THEN {"extract"} ELSE {})
                  ELSE modals
     /\ retry' = (retry \/ active = "list")
     /\ pendingForm' = (pendingForm /\ active # "extract")
     /\ Settle("none", closing \/ (cancelled /\ shell))
     /\ UNCHANGED <<archive, shellAction>>

Poll ==
  /\ At("poll") /\ Then("close")
  /\ \/ /\ reply \in {"none", "running"}
        /\ NoSpawn
        /\ UNCHANGED <<prompt, closing, closeCmd, modals, pendingForm, retry, archive,
                       shellAction>>
     \/ ListDone \/ ExtractDone \/ DialogDone \/ OtherDone \/ JobFailed
  /\ UNCHANGED <<drag, integ, closeReq, veto, exited, shell, reload>>

\* Closing is refused while anything runs.  The manager asks; the shell window
\* takes it as a cancellation (close_shell_task).
CloseShellTask ==
  IF active # "none"
    THEN cancelled' = TRUE /\ closing' = TRUE /\ UNCHANGED closeCmd
    ELSE closeCmd' = TRUE /\ UNCHANGED <<cancelled, closing>>

\* Faulty variant: only the engine job keeps the window open.
CloseCheckEngineOnly ==
  LET held == closeReq /\ active # "none"
  IN /\ At("close") /\ Then("render")
     /\ veto' = held
     /\ IF held /\ shell THEN CloseShellTask /\ UNCHANGED prompt
        ELSE /\ prompt' = (prompt \/ held)
             /\ UNCHANGED <<cancelled, closing, closeCmd>>
     /\ late' = {}
     /\ UNCHANGED <<active, reply, drag, integ, closeReq, exited, forms>>

CloseCheck ==
  /\ At("close") /\ Then("render")
  /\ veto' = (closeReq /\ Busy)
  /\ IF closeReq /\ Busy
       THEN IF shell THEN CloseShellTask /\ UNCHANGED prompt
                     ELSE prompt' = TRUE /\ UNCHANGED <<cancelled, closing, closeCmd>>
       ELSE UNCHANGED <<prompt, cancelled, closing, closeCmd>>
  /\ late' = {}
  /\ UNCHANGED <<active, reply, drag, integ, closeReq, exited, forms>>

-----------------------------------------------------------------------------
(* The second half of a frame: drawing, with an input below the settings   *)
(* and one above, in whatever frame, also one that already closes.  The    *)
(* modal question hides every window but the title bar.                    *)

Drawing == At("render") /\ Then("settings")
Above   == At("above") /\ Then("end")
Manager == ~shell /\ ~prompt

UserIdle == (Drawing \/ Above) /\ UNCHANGED <<workers, close, forms>>

\* settings_window before it draws: its second page reads the system, whatever
\* else runs; which page the user has open is left open.
DrawSettings ==
  /\ At("settings") /\ Then("above")
  /\ \/ UNCHANGED <<integ, late, reload>>
     \/ /\ "settings" \in modals /\ reload /\ integ = "none"
        /\ reload' = FALSE /\ integ' = "running" /\ late' = late \cup {"integration"}
  /\ UNCHANGED <<active, reply, cancelled, drag, close, modals, pendingForm, retry,
                 archive, shell, shellAction>>

\* The toolbar and the list: a chooser, a recent archive, a verification, a preview.
StartTask ==
  /\ Drawing /\ Manager /\ ~Busy /\ modals = {}
  /\ \/ \E kind \in {"dialog", "list"} : Spawn(kind)
     \/ archive /\ \E kind \in {"verify", "preview"} : Spawn(kind)
  /\ UNCHANGED <<drag, integ, close, forms>>

\* The retry form: it is gone even when the archive cannot be opened yet.
Unlock ==
  /\ Above /\ Manager /\ "other" \in modals /\ retry
  /\ modals' = modals \ {"other"}
  /\ Start("list")
  /\ UNCHANGED <<drag, integ, close, task>>

\* quick_extract: no form, but its options are kept for a failure.
QuickExtract ==
  /\ Drawing /\ Manager /\ ~Busy /\ modals = {} /\ archive
  /\ pendingForm' = TRUE
  /\ Spawn("extract")
  /\ UNCHANGED <<drag, integ, close, modals, retry, archive, shell, shellAction, reload>>

\* new_archive and show_extract.
OpenForm ==
  /\ Drawing /\ Manager /\ ~Busy /\ modals = {}
  /\ \E f \in Forms : (f = "extract" => archive) /\ modals' = {f}
  /\ UNCHANGED <<workers, close, task>>

FormDialog ==
  /\ Drawing /\ ~prompt /\ ~Busy /\ modals \cap Forms # {}
  /\ Spawn("dialog")
  /\ UNCHANGED <<drag, integ, close, forms>>

\* Leaving a form without starting; the shell window has nothing else to show.
CloseForm ==
  /\ Drawing /\ ~prompt /\ ~Busy
  /\ \E f \in modals \cap Forms : modals' = modals \ {f}
  /\ IF shell THEN CloseShellTask ELSE UNCHANGED <<cancelled, closing, closeCmd>>
  /\ UNCHANGED <<active, reply, drag, integ, late, prompt, closeReq, veto, exited, task>>

BeginExtraction ==
  /\ Drawing /\ ~prompt /\ ~Busy /\ "extract" \in modals /\ archive
  /\ modals' = modals \ {"extract"}
  /\ pendingForm' = TRUE
  /\ Spawn("extract")
  /\ UNCHANGED <<drag, integ, close, retry, archive, shell, shellAction, reload>>

CreateArchive ==
  /\ Drawing /\ Manager /\ ~Busy /\ "create" \in modals
  /\ modals' = modals \ {"create"}
  /\ Spawn("compress")
  /\ UNCHANGED <<drag, integ, close, task>>

\* accept_paths: dropped files; while anything runs they are only remarked on.
DropPaths ==
  /\ Drawing /\ Manager /\ ~Busy /\ modals \subseteq {"create"}
  /\ \/ modals = {} /\ Spawn("dialog") /\ UNCHANGED modals
     \/ modals' = {"create"} /\ NoSpawn
  /\ UNCHANGED <<drag, integ, close, task>>

\* The task list, the about box, the retry form and the settings open at any time.
OpenWindow ==
  /\ Drawing /\ Manager /\ modals = {}
  /\ \E w \in {"other", "settings"} :
       modals' = {w} /\ reload' = (reload \/ w = "settings")
  /\ UNCHANGED <<workers, close, pendingForm, retry, archive, shell, shellAction>>

\* Settings::request_close waits for its own job.
CloseWindow ==
  /\ Above /\ Manager
  /\ \E w \in modals \cap {"other", "settings"} :
       (w = "settings" => integ = "none") /\ modals' = modals \ {w}
  /\ UNCHANGED <<workers, close, task>>

\* The settings' own buttons: "refresh" is for the next frame.
Refresh ==
  /\ Above /\ Manager /\ "settings" \in modals /\ integ = "none"
  /\ reload' = TRUE
  /\ UNCHANGED <<workers, close, modals, pendingForm, retry, archive, shell, shellAction>>

\* start_integration, to apply or remove, asks nothing of the other workers.
StartIntegration ==
  /\ Above /\ Manager /\ "settings" \in modals /\ integ = "none" /\ ~reload
  /\ integ' = "running" /\ late' = late \cup {"integration"}
  /\ UNCHANGED <<active, reply, cancelled, drag, close, forms>>

\* start_native_drag, the last thing a frame does.
StartDrag ==
  /\ Above /\ Manager /\ ~Busy /\ modals = {} /\ archive
  /\ drag' = "running" /\ late' = late \cup {"drag"}
  /\ UNCHANGED <<active, reply, cancelled, integ, close, forms>>

\* The button of the status bar or the task list.
CancelTask ==
  /\ Drawing /\ Manager /\ active \notin {"none", "dialog"} /\ ~cancelled
  /\ modals \subseteq {"other"}
  /\ cancelled' = TRUE
  /\ UNCHANGED <<active, reply, drag, integ, late, close, forms>>

-----------------------------------------------------------------------------
(* Closing.                                                                *)

\* The window's own close button.
TitleClose ==
  /\ Above
  /\ IF shell THEN CloseShellTask /\ UNCHANGED prompt
     ELSE /\ UNCHANGED <<cancelled, closing>>
          /\ IF Busy THEN prompt' = TRUE /\ UNCHANGED closeCmd
                     ELSE closeCmd' = TRUE /\ UNCHANGED prompt
  /\ UNCHANGED <<active, reply, drag, integ, late, closeReq, veto, exited, forms>>

\* The button of the close question.
Continue ==
  /\ Above /\ prompt
  /\ prompt' = FALSE
  /\ UNCHANGED <<workers, closing, closeReq, closeCmd, veto, exited, forms>>

CancelAndExit ==
  /\ Above /\ prompt
  /\ cancelled' = (active # "none")
  /\ closing' = TRUE /\ prompt' = FALSE
  /\ UNCHANGED <<active, reply, drag, integ, late, closeReq, closeCmd, veto, exited, forms>>

\* The shell window's button: "Cancel" while its job runs, "Close" afterwards.
ShellClose ==
  /\ Drawing /\ shell /\ (active # "none" => ~cancelled)
  /\ CloseShellTask
  /\ UNCHANGED <<active, reply, drag, integ, late, prompt, closeReq, veto, exited, forms>>

ShellRetry ==
  /\ Drawing /\ shell /\ retry /\ active = "none"
  /\ Start("list")
  /\ UNCHANGED <<drag, integ, close, forms>>

\* eframe: a request that was not vetoed ends the loop after the frame.  A Close
\* sent in this frame, or the window manager, makes the next one a request.
EndFrame ==
  /\ At("end") /\ Then("integration")
  /\ exited' = (closeReq /\ ~veto)
  /\ closeReq' \in {closeCmd, TRUE}
  /\ closeCmd' = FALSE /\ veto' = FALSE
  /\ UNCHANGED <<workers, prompt, closing, forms>>

-----------------------------------------------------------------------------
Render ==
  \/ UserIdle \/ StartTask \/ Unlock \/ QuickExtract \/ OpenForm \/ FormDialog
  \/ CloseForm \/ BeginExtraction \/ CreateArchive \/ DropPaths \/ OpenWindow
  \/ CloseWindow \/ Refresh \/ StartIntegration \/ StartDrag \/ CancelTask \/ TitleClose
  \/ Continue \/ CancelAndExit \/ ShellClose \/ ShellRetry

UpdateStep ==
  PollIntegration \/ PollDrag \/ Poll \/ CloseCheck \/ Render \/ DrawSettings \/ EndFrame

Next == UpdateStep \/ JobFinishes \/ DragFinishes \/ IntegrationFinishes

Spec == Init /\ [][Next]_vars

\* The event loop draws while anything runs (request_repaint_after) and when a
\* worker wakes it; every worker ends, a chooser or a drag once it is answered.
FairSpec ==
  /\ Spec
  /\ WF_vars(UpdateStep)
  /\ WF_vars(JobFinishes) /\ WF_vars(DragFinishes) /\ WF_vars(IntegrationFinishes)

-----------------------------------------------------------------------------
(* Properties.                                                             *)

\* The types of the variables, and that a job and its channel come and go
\* together (App::active owns both).
TypeOK ==
  /\ phase \in Phases
  /\ active \in Kinds \cup {"none"}
  /\ reply \in {"none", "running", "ok", "error"}
  /\ (active = "none") <=> (reply = "none")
  /\ cancelled \in BOOLEAN
  /\ drag \in Drops \cup {"none", "running"}
  /\ integ \in {"none", "running", "sent"}
  /\ \A b \in {prompt, closing, closeReq, closeCmd, veto, exited, pendingForm, retry,
               archive, shell, reload} : b \in BOOLEAN
  /\ late \subseteq {"job", "drag", "integration"}
  /\ modals \subseteq Forms \cup {"other", "settings"}
  /\ shellAction \in {"none", "form", "quick"}

\* The event loop never ends under a worker it knew of when it last looked: not
\* the engine job, not a drag another program may still be reading from, not a
\* registration half written (update, mod.rs 996-999).  What it can end under is
\* work begun after the look in that last frame, by a click, a key or the settings
\* reading the system by themselves.
ExitOnlyWhenIdle == exited => OnlyLate

\* The engine works for one caller at a time: never for a job while it feeds a
\* native drag.  Only the settings' job is independent of both.
OneEngineTask == active = "none" \/ drag = "none"

\* The options of an extraction are kept exactly until it has ended, so a later
\* failure can never reopen the form of an earlier one.
PendingWhileExtracting == pendingForm => active = "extract"

\* The context menu's window never has nothing to offer: when its job has ended
\* it shows the form, offers to reopen, or is on its way out.  An extraction asked
\* for survives any number of failed listings.
ShellOffersSomething ==
  shell /\ active = "none" /\ ~exited =>
    "extract" \in modals \/ retry \/ closing \/ closeCmd \/ closeReq

\* Once the window is on its way out no result starts further work: a chooser's
\* answer, a listing for the shell and a drop are discarded.
ClosingStartsNothing ==
  [][closing /\ phase \notin {"render", "above"} => active' \in {active, "none"}]_vars

\* Every worker ends, so only a user who begins new work for ever, in the very
\* frames that close, keeps one running again and again.
UserGoesOn == []<>("running" \in {reply, drag, integ})

\* A confirmed exit happens once the work it cancelled has ended, whichever of
\* the three workers that was.
CancelledExitHappens == (closing /\ Busy ~> exited) \/ UserGoesOn

\* The shell window closes by itself after its extraction and after a cancel.
ShellWindowCloses ==
  (shell /\ (closing \/ (active = "extract" /\ reply = "ok")) ~> exited) \/ UserGoesOn

=============================================================================
