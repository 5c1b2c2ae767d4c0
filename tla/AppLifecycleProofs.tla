------------------------- MODULE AppLifecycleProofs -------------------------
(***************************************************************************)
(* What AppLifecycle promises on every platform and for every user: types, *)
(* one engine task at a time, no exit under a worker that was known of.    *)
(***************************************************************************)
EXTENDS AppLifecycle, TLAPS

\* What a frame has settled once it has looked at a request to close: a request
\* it let pass found no worker, and those there are have come since.
ExitDecided ==
  phase \in {"render", "settings", "above", "end"} /\ closeReq /\ ~veto => OnlyLate

\* The inductive invariant.
WindowInv ==
  /\ TypeOK /\ OneEngineTask /\ PendingWhileExtracting
  /\ ExitOnlyWhenIdle /\ ExitDecided

-----------------------------------------------------------------------------
LEMMA TypeInit == Init => TypeOK
  BY DEF Init, TypeOK, Phases, Kinds, Drops, Forms

\* The poll of the engine job keeps the types.
LEMMA TypePoll == TypeOK /\ Poll => TypeOK'
<1> SUFFICES ASSUME TypeOK, Poll PROVE TypeOK'
  OBVIOUS
<1> USE DEF Poll, At, Then, TypeOK, Settle, Spawn, NoSpawn, Phases, Kinds, Drops, Forms
<1>1. CASE reply \in {"none", "running"} /\ NoSpawn /\
           UNCHANGED <<prompt, closing, closeCmd, modals, pendingForm, retry, archive,
                       shellAction>>
  BY <1>1
<1>2. CASE ListDone
  BY <1>2 DEF ListDone
<1>3. CASE ExtractDone
  BY <1>3 DEF ExtractDone
<1>4. CASE DialogDone
  BY <1>4 DEF DialogDone
<1>5. CASE OtherDone
  BY <1>5 DEF OtherDone
<1>6. CASE JobFailed
  BY <1>6 DEF JobFailed
<1> QED
  BY <1>1, <1>2, <1>3, <1>4, <1>5, <1>6

\* So does everything the user does while a frame is drawn.
LEMMA TypeRender == TypeOK /\ Render => TypeOK'
<1> SUFFICES ASSUME TypeOK, Render PROVE TypeOK'
  OBVIOUS
<1> USE DEF TypeOK, Drawing, Above, Manager, At, Then, Spawn, NoSpawn, Start, task,
            CloseShellTask, Phases, Kinds, Drops, Forms, workers, close, forms
<1>1. CASE UserIdle
  BY <1>1 DEF UserIdle
<1>2. CASE StartTask
  BY <1>2 DEF StartTask
<1>3. CASE Unlock
  BY <1>3 DEF Unlock
<1>4. CASE QuickExtract
  BY <1>4 DEF QuickExtract
<1>5. CASE OpenForm
  BY <1>5 DEF OpenForm
<1>6. CASE FormDialog
  BY <1>6 DEF FormDialog
<1>7. CASE CloseForm
  BY <1>7 DEF CloseForm
<1>8. CASE BeginExtraction
  BY <1>8 DEF BeginExtraction
<1>9. CASE CreateArchive
  BY <1>9 DEF CreateArchive
<1>10. CASE DropPaths
  BY <1>10 DEF DropPaths
<1>11. CASE OpenWindow
  BY <1>11 DEF OpenWindow
<1>12. CASE CloseWindow
  BY <1>12 DEF CloseWindow
<1>13. CASE StartIntegration
  BY <1>13 DEF StartIntegration
<1>14. CASE StartDrag
  BY <1>14 DEF StartDrag
<1>15. CASE CancelTask
  BY <1>15 DEF CancelTask
<1>16. CASE TitleClose
  BY <1>16 DEF TitleClose
<1>17. CASE Continue
  BY <1>17 DEF Continue
<1>18. CASE CancelAndExit
  BY <1>18 DEF CancelAndExit
<1>19. CASE ShellClose
  BY <1>19 DEF ShellClose
<1>20. CASE ShellRetry
  BY <1>20 DEF ShellRetry
<1>21. CASE Refresh
  BY <1>21 DEF Refresh
<1> QED
  BY <1>1, <1>2, <1>3, <1>4, <1>5, <1>6, <1>7, <1>8, <1>9, <1>10, <1>11, <1>12, <1>13, <1>14, <1>15, <1>16, <1>17, <1>18, <1>19, <1>20, <1>21 DEF Render

LEMMA TypeStep == TypeOK /\ [Next]_vars => TypeOK'
<1> SUFFICES ASSUME TypeOK, [Next]_vars PROVE TypeOK'
  OBVIOUS
<1> USE DEF At, Then, Spawn, NoSpawn, Phases, Kinds, Drops, Forms, close, forms, task
<1>1. CASE PollIntegration
  BY <1>1 DEF PollIntegration, TypeOK
<1>2. CASE PollDrag
  BY <1>2 DEF PollDrag, TypeOK
<1>3. CASE CloseCheck
  BY <1>3 DEF CloseCheck, TypeOK, CloseShellTask
<1>4. CASE EndFrame
  BY <1>4 DEF EndFrame, TypeOK, workers
<1>5. CASE JobFinishes
  BY <1>5 DEF JobFinishes, TypeOK
<1>6. CASE DragFinishes
  BY <1>6 DEF DragFinishes, TypeOK
<1>7. CASE IntegrationFinishes
  BY <1>7 DEF IntegrationFinishes, TypeOK
<1>8. CASE Poll
  BY <1>8, TypePoll
<1>9. CASE Render
  BY <1>9, TypeRender
<1>10. CASE DrawSettings
  BY <1>10 DEF DrawSettings, TypeOK
<1>11. CASE UNCHANGED vars
  BY <1>11 DEF vars, TypeOK
<1> QED
  BY <1>1, <1>2, <1>3, <1>4, <1>5, <1>6, <1>7, <1>8, <1>9, <1>10, <1>11 DEF Next, UpdateStep

\* The types of the window's state (TypeOK), whatever the user, the workers and
\* the window manager do.
THEOREM WindowTyping == Spec => []TypeOK
  BY TypeInit, TypeStep, PTL DEF Spec

-----------------------------------------------------------------------------
\* One lemma per kind of step: the safe states are closed under each.
LEMMA SafePoll == WindowInv /\ Poll => WindowInv'
<1> SUFFICES ASSUME WindowInv, Poll PROVE WindowInv'
  OBVIOUS
<1>1. TypeOK'
  BY TypePoll DEF WindowInv
<1> USE DEF WindowInv, Poll, At, Then, Settle, Spawn, NoSpawn, OneEngineTask, PendingWhileExtracting, ExitOnlyWhenIdle, ExitDecided, OnlyLate, Busy
<1>2. CASE reply \in {"none", "running"} /\ NoSpawn /\
           UNCHANGED <<prompt, closing, closeCmd, modals, pendingForm, retry, archive,
                       shellAction>>
  BY <1>1, <1>2
<1>3. CASE ListDone
  BY <1>1, <1>3 DEF ListDone
<1>4. CASE ExtractDone
  BY <1>1, <1>4 DEF ExtractDone
<1>5. CASE DialogDone
  BY <1>1, <1>5 DEF DialogDone
<1>6. CASE OtherDone
  BY <1>1, <1>6 DEF OtherDone
<1>7. CASE JobFailed
  BY <1>1, <1>7 DEF JobFailed
<1> QED
  BY <1>2, <1>3, <1>4, <1>5, <1>6, <1>7

\* Work starts only in a frame that is not about to end the program.
LEMMA SafeRender == WindowInv /\ Render => WindowInv'
<1> SUFFICES ASSUME WindowInv, Render PROVE WindowInv'
  OBVIOUS
<1>0. TypeOK'
  BY TypeRender DEF WindowInv
<1> USE DEF WindowInv, Drawing, Above, Manager, At, Then, Spawn, NoSpawn, Start, task,
            CloseShellTask, workers, close, forms, OneEngineTask, PendingWhileExtracting,
            ExitOnlyWhenIdle, ExitDecided, OnlyLate, Busy
<1>1. CASE UserIdle
  BY <1>0, <1>1 DEF UserIdle
<1>2. CASE StartTask
  BY <1>0, <1>2 DEF StartTask
<1>3. CASE Unlock
  BY <1>0, <1>3 DEF Unlock
<1>4. CASE QuickExtract
  BY <1>0, <1>4 DEF QuickExtract
<1>5. CASE OpenForm
  BY <1>0, <1>5 DEF OpenForm
<1>6. CASE FormDialog
  BY <1>0, <1>6 DEF FormDialog
<1>7. CASE CloseForm
  BY <1>0, <1>7 DEF CloseForm
<1>8. CASE BeginExtraction
  BY <1>0, <1>8 DEF BeginExtraction
<1>9. CASE CreateArchive
  BY <1>0, <1>9 DEF CreateArchive
<1>10. CASE DropPaths
  BY <1>0, <1>10 DEF DropPaths
<1>11. CASE OpenWindow
  BY <1>0, <1>11 DEF OpenWindow
<1>12. CASE CloseWindow
  BY <1>0, <1>12 DEF CloseWindow
<1>13. CASE StartIntegration
  BY <1>0, <1>13 DEF StartIntegration
<1>14. CASE StartDrag
  BY <1>0, <1>14 DEF StartDrag
<1>15. CASE CancelTask
  BY <1>0, <1>15 DEF CancelTask
<1>16. CASE TitleClose
  BY <1>0, <1>16 DEF TitleClose
<1>17. CASE Continue
  BY <1>0, <1>17 DEF Continue
<1>18. CASE CancelAndExit
  BY <1>0, <1>18 DEF CancelAndExit
<1>19. CASE ShellClose
  BY <1>0, <1>19 DEF ShellClose
<1>20. CASE ShellRetry
  BY <1>0, <1>20 DEF ShellRetry
<1>21. CASE Refresh
  BY <1>0, <1>21 DEF Refresh
<1> QED
  BY <1>1, <1>2, <1>3, <1>4, <1>5, <1>6, <1>7, <1>8, <1>9, <1>10, <1>11, <1>12, <1>13, <1>14, <1>15, <1>16, <1>17, <1>18, <1>19, <1>20, <1>21 DEF Render

LEMMA SafeStep == WindowInv /\ [Next]_vars => WindowInv'
<1> SUFFICES ASSUME WindowInv, [Next]_vars PROVE WindowInv'
  OBVIOUS
<1>0. TypeOK'
  BY TypeStep DEF WindowInv
<1> USE DEF WindowInv, At, Then, Spawn, NoSpawn, close, forms, task, OneEngineTask, PendingWhileExtracting, ExitOnlyWhenIdle, ExitDecided, OnlyLate, Busy
<1>1. CASE PollIntegration
  BY <1>0, <1>1 DEF PollIntegration
<1>2. CASE PollDrag
  BY <1>0, <1>2 DEF PollDrag, Drops
<1>3. CASE CloseCheck
  BY <1>0, <1>3 DEF CloseCheck, CloseShellTask, TypeOK
<1>4. CASE EndFrame
  BY <1>0, <1>4 DEF EndFrame, workers, TypeOK
<1>5. CASE JobFinishes
  BY <1>0, <1>5 DEF JobFinishes
<1>6. CASE DragFinishes
  BY <1>0, <1>6 DEF DragFinishes, Drops
<1>7. CASE IntegrationFinishes
  BY <1>0, <1>7 DEF IntegrationFinishes
<1>8. CASE Poll
  BY <1>8, SafePoll
<1>9. CASE Render
  BY <1>9, SafeRender
<1>10. CASE DrawSettings
  BY <1>0, <1>10 DEF DrawSettings
<1>11. CASE UNCHANGED vars
  BY <1>0, <1>11 DEF vars
<1> QED
  BY <1>1, <1>2, <1>3, <1>4, <1>5, <1>6, <1>7, <1>8, <1>9, <1>10, <1>11 DEF Next, UpdateStep

LEMMA SafeInit == Init => WindowInv
  BY TypeInit DEF Init, WindowInv, OneEngineTask, PendingWhileExtracting, ExitOnlyWhenIdle, ExitDecided, OnlyLate, Busy

LEMMA SafeAlways == Spec => []WindowInv
  BY SafeStep, SafeInit, PTL DEF Spec

\* The window never ends under a worker that was there when it last looked, for
\* every way work can start and end, in the closing frames too.
THEOREM ExitsIdle == Spec => []ExitOnlyWhenIdle
<1>1. WindowInv => ExitOnlyWhenIdle
  BY DEF WindowInv
<1> QED
  BY <1>1, SafeAlways, PTL

\* A native drag and an engine job never run together.
THEOREM OneTask == Spec => []OneEngineTask
<1>1. WindowInv => OneEngineTask
  BY DEF WindowInv
<1> QED
  BY <1>1, SafeAlways, PTL

\* The options kept for a failing extraction are those of the running one.
THEOREM PendingIsCurrent == Spec => []PendingWhileExtracting
<1>1. WindowInv => PendingWhileExtracting
  BY DEF WindowInv
<1> QED
  BY <1>1, SafeAlways, PTL

-----------------------------------------------------------------------------
\* Once it is closing, the first half of a frame starts nothing.
THEOREM ClosingIsFinal == Spec => ClosingStartsNothing
<1>1. ASSUME [Next]_vars
      PROVE  [closing /\ phase \notin {"render", "above"} => active' \in {active, "none"}]_vars
  <2> SUFFICES ASSUME Next, closing, phase \notin {"render", "above"}
               PROVE  active' \in {active, "none"}
    BY <1>1
  <2>1. CASE PollIntegration \/ CloseCheck \/ EndFrame \/ DrawSettings \/ JobFinishes
             \/ DragFinishes \/ IntegrationFinishes
    BY <2>1 DEF PollIntegration, CloseCheck, EndFrame, DrawSettings, JobFinishes, DragFinishes,
                IntegrationFinishes, workers
  <2>2. CASE PollDrag
    BY <2>2 DEF PollDrag, NoSpawn
  <2>3. CASE Poll
    BY <2>3 DEF Poll, NoSpawn, ListDone, ExtractDone, DialogDone, OtherDone, JobFailed,
                Settle
  <2>4. CASE Render
    BY <2>4 DEF Render, UserIdle, StartTask, Unlock, QuickExtract, OpenForm, FormDialog, CloseForm, BeginExtraction, CreateArchive, DropPaths, OpenWindow, CloseWindow, StartIntegration, StartDrag, CancelTask, TitleClose, Continue, CancelAndExit, ShellClose, ShellRetry, Refresh, Manager, Drawing, Above, At
  <2> QED
    BY <2>1, <2>2, <2>3, <2>4 DEF Next, UpdateStep
<1> QED
  BY <1>1, PTL DEF Spec, ClosingStartsNothing

-----------------------------------------------------------------------------
(* The shell window.                                                       *)

\* It has no manager behind it: one form, no question, no other worker; what it
\* was launched for is remembered until the archive is listed; a listing can only
\* be retried, a chooser only be answered into the form, and a request it
\* refused has become a cancellation.
ShellAlone ==
  shell =>
    /\ drag = "none" /\ integ = "none" /\ ~prompt
    /\ modals \subseteq {"extract"}
    /\ active \in {"none", "list", "dialog", "extract"}
    /\ active = "list" \/ retry => shellAction \in {"form", "quick"}
    /\ active = "dialog" => "extract" \in modals
    /\ active = "extract" => pendingForm
    /\ veto => closing

ShellInv == TypeOK /\ ShellAlone /\ ShellOffersSomething

LEMMA ShellInit == Init => ShellInv
  BY TypeInit DEF Init, ShellInv, ShellAlone, ShellOffersSomething

LEMMA ShellPoll == ShellInv /\ Poll => ShellInv'
<1> SUFFICES ASSUME ShellInv, Poll PROVE ShellInv'
  OBVIOUS
<1>0. TypeOK'
  BY TypePoll DEF ShellInv
<1> USE DEF ShellInv, ShellAlone, ShellOffersSomething, TypeOK, Poll, At, Then, Settle,
            Spawn, NoSpawn, Busy
<1>1. CASE reply \in {"none", "running"} /\ NoSpawn /\
           UNCHANGED <<prompt, closing, closeCmd, modals, pendingForm, retry, archive,
                       shellAction>>
  BY <1>0, <1>1
<1>2. CASE ListDone
  BY <1>0, <1>2 DEF ListDone
<1>3. CASE ExtractDone
  BY <1>0, <1>3 DEF ExtractDone
<1>4. CASE DialogDone
  BY <1>0, <1>4 DEF DialogDone
<1>5. CASE OtherDone
  BY <1>0, <1>5 DEF OtherDone
<1>6. CASE JobFailed
  BY <1>0, <1>6 DEF JobFailed
<1> QED
  BY <1>1, <1>2, <1>3, <1>4, <1>5, <1>6

LEMMA ShellRender == ShellInv /\ Render => ShellInv'
<1> SUFFICES ASSUME ShellInv, Render PROVE ShellInv'
  OBVIOUS
<1>0. TypeOK'
  BY TypeRender DEF ShellInv
<1> USE DEF ShellInv, ShellAlone, ShellOffersSomething, Drawing, Above, Manager, task, At,
            Then, Spawn, NoSpawn, Start, CloseShellTask, Busy, Forms, workers, close, forms
<1>1. CASE UserIdle
  BY <1>0, <1>1 DEF UserIdle
<1>2. CASE StartTask
  BY <1>0, <1>2 DEF StartTask
<1>3. CASE Unlock
  BY <1>0, <1>3 DEF Unlock
<1>4. CASE QuickExtract
  BY <1>0, <1>4 DEF QuickExtract
<1>5. CASE OpenForm
  BY <1>0, <1>5 DEF OpenForm
<1>6. CASE FormDialog
  BY <1>0, <1>6 DEF FormDialog
<1>7. CASE CloseForm
  BY <1>0, <1>7 DEF CloseForm
<1>8. CASE BeginExtraction
  BY <1>0, <1>8 DEF BeginExtraction
<1>9. CASE CreateArchive
  BY <1>0, <1>9 DEF CreateArchive
<1>10. CASE DropPaths
  BY <1>0, <1>10 DEF DropPaths
<1>11. CASE OpenWindow
  BY <1>0, <1>11 DEF OpenWindow
<1>12. CASE CloseWindow
  BY <1>0, <1>12 DEF CloseWindow
<1>13. CASE StartIntegration
  BY <1>0, <1>13 DEF StartIntegration
<1>14. CASE StartDrag
  BY <1>0, <1>14 DEF StartDrag
<1>15. CASE CancelTask
  BY <1>0, <1>15 DEF CancelTask
<1>16. CASE TitleClose
  BY <1>0, <1>16 DEF TitleClose
<1>17. CASE Continue
  BY <1>0, <1>17 DEF Continue
<1>18. CASE CancelAndExit
  BY <1>0, <1>18 DEF CancelAndExit
<1>19. CASE ShellClose
  BY <1>0, <1>19 DEF ShellClose
<1>20. CASE ShellRetry
  BY <1>0, <1>20 DEF ShellRetry
<1>21. CASE Refresh
  BY <1>0, <1>21 DEF Refresh
<1> QED
  BY <1>1, <1>2, <1>3, <1>4, <1>5, <1>6, <1>7, <1>8, <1>9, <1>10, <1>11, <1>12, <1>13, <1>14, <1>15, <1>16, <1>17, <1>18, <1>19, <1>20, <1>21 DEF Render

LEMMA ShellStep == ShellInv /\ [Next]_vars => ShellInv'
<1> SUFFICES ASSUME ShellInv, [Next]_vars PROVE ShellInv'
  OBVIOUS
<1>0. TypeOK'
  BY TypeStep DEF ShellInv
<1> USE DEF ShellInv, ShellAlone, ShellOffersSomething, At, Then, Spawn, NoSpawn, close,
            forms, task, Busy
<1>1. CASE PollIntegration
  BY <1>0, <1>1 DEF PollIntegration
<1>2. CASE PollDrag
  BY <1>0, <1>2 DEF PollDrag, Drops
<1>3. CASE CloseCheck
  BY <1>0, <1>3 DEF CloseCheck, CloseShellTask, TypeOK
<1>4. CASE EndFrame
  <2>1. ShellAlone'
    BY <1>4 DEF EndFrame, workers
  <2>2. ShellOffersSomething'
    <3>1. closeCmd => closeReq'
      BY <1>4 DEF EndFrame, TypeOK
    <3>2. exited' = (closeReq /\ ~veto)
      BY <1>4 DEF EndFrame
    <3>3. UNCHANGED <<shell, active, modals, retry, closing>>
      BY <1>4 DEF EndFrame, workers
    <3> QED
      BY <1>4, <3>1, <3>2, <3>3 DEF EndFrame, TypeOK
  <2> QED
    BY <1>0, <2>1, <2>2
<1>5. CASE JobFinishes
  BY <1>0, <1>5 DEF JobFinishes
<1>6. CASE DragFinishes
  BY <1>0, <1>6 DEF DragFinishes, Drops
<1>7. CASE IntegrationFinishes
  BY <1>0, <1>7 DEF IntegrationFinishes
<1>8. CASE Poll
  BY <1>8, ShellPoll
<1>9. CASE Render
  BY <1>9, ShellRender
<1>10. CASE DrawSettings
  BY <1>0, <1>10 DEF DrawSettings
<1>11. CASE UNCHANGED vars
  BY <1>0, <1>11 DEF vars
<1> QED
  BY <1>1, <1>2, <1>3, <1>4, <1>5, <1>6, <1>7, <1>8, <1>9, <1>10, <1>11 DEF Next, UpdateStep

\* The context menu's window always has something to offer or is closing.
THEOREM ShellNeverBlank == Spec => []ShellOffersSomething
<1>1. ShellInv => ShellOffersSomething
  BY DEF ShellInv
<1> QED
  BY <1>1, ShellInit, ShellStep, PTL DEF Spec

=============================================================================
