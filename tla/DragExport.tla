------------------------------ MODULE DragExport ------------------------------
(***************************************************************************)
(* Dragging entries out of the window.  Nothing is read before the drop;   *)
(* what happens then depends on the system:                                *)
(*                                                                         *)
(*   "linux"    a thread speaks XDND with the target, prepares the files   *)
(*       in a temporary directory when they are asked for and offers their *)
(*       paths; the target reads them when it likes (native_drag/linux.rs);*)
(*   "macos"    a queue is asked to write each promised root where the     *)
(*       target wants it, from the same preparation (native_drag/macos.rs);*)
(*   "windows"  a thread finds out where the drop went, and the window     *)
(*       extracts there as a job (native_drag/windows.rs).                 *)
(*                                                                         *)
(* The window (app/interaction.rs) has room for one drag; it keeps what it *)
(* delivered, since targets read late.  DeferredExport is in export.rs;    *)
(* its files go with the last reference to it, which is the window's, or   *)
(* on macOS the promises' that AppKit holds.                               *)
(***************************************************************************)
EXTENDS Naturals, Sequences

CONSTANTS
  Systems,     \* what the program may run on
  Targets,     \* windows that understand drops
  Nowhere,     \* no such window
  Roots,       \* the selected entries
  NoRoot,
  MaxDrags,    \* bound: drags in a run
  MaxMessages, \* bound: what other clients send during a drag
  Faults       \* what goes wrong on X11: "clear", another client takes the
               \* selection, "broken", a request to the server fails

ASSUME DragAssumption ==
  /\ Systems \subseteq {"linux", "macos", "windows"}
  /\ Nowhere \notin Targets /\ NoRoot \notin Roots /\ Roots # {}
  /\ MaxDrags \in Nat \ {0} /\ MaxMessages \in Nat
  /\ Faults \subseteq {"clear", "broken"}

VARIABLES
  system,
  slot,     \* ExportState: whether a drag is pending or has a receiver
  retained, \* ExportState::retained, of drags by number
  cancel,   \* ExportState::cancel, shared with the backend
  closing,  \* close_when_finished
  gone,     \* the program has ended
  job,      \* the drag whose extraction runs as a job, or 0
  made,     \* drags so far; the last is the current one
  export,   \* each drag's DeferredExport
  dir,      \* each drag's temporary directory
  reads,    \* how often the archive was extracted for it
  outcome,  \* how its backend ended
  reader,   \* how far a target is with its paths
  pc,       \* where the backend is
  dropping, \* the button was released over something
  late,     \* the time allowed has passed
  target, accepted, inbox, sent,  \* of XDND
  left, root, \* promises not yet kept, and the one in work
  promised    \* whether AppKit holds a drag's promises, and they its export

windowVars  == <<slot, retained, cancel, closing, gone, job>>
dragVars    == <<export, dir, reads, outcome, reader>>
xdndVars    == <<target, accepted, inbox, sent>>
promiseVars == <<left, root, promised>>
vars == <<system, windowVars, made, dragVars, pc, dropping, late, xdndVars, promiseVars>>

Drags == 1..MaxDrags
Messages ==
  [kind : {"status", "finished"}, from : Targets, ok : BOOLEAN]
    \cup [kind : {"request"} \cup (Faults \ {"broken"})]
Current == made
\* A target refused, was silent for thirty seconds, or the selection or the
\* connection was lost; "failed" has no files or was cancelled.
Outcomes == {"none", "delivered", "cancelled", "failed", "refused", "timeout", "taken",
             "broken", "extract"}
Fresh == [dropped |-> FALSE, prepared |-> "no", cancelled |-> FALSE]

Init ==
  /\ system \in Systems
  /\ slot = "free" /\ retained = <<>> /\ cancel = FALSE
  /\ closing = FALSE /\ gone = FALSE /\ job = 0 /\ made = 0
  /\ export = [d \in Drags |-> Fresh]
  /\ dir = [d \in Drags |-> "none"]
  /\ reads = [d \in Drags |-> 0]
  /\ outcome = [d \in Drags |-> "none"]
  /\ reader = [d \in Drags |-> "none"]
  /\ pc = "off" /\ dropping = FALSE /\ late = FALSE
  /\ target = Nowhere /\ accepted = FALSE /\ inbox = <<>> /\ sent = 0
  /\ left = {} /\ root = NoRoot /\ promised = [d \in Drags |-> FALSE]

-----------------------------------------------------------------------------
(* DeferredExport and the end of a backend.                                *)

Promising == system = "macos"
Dropped   == export' = [export EXCEPT ![Current].dropped = TRUE]
Goto(l)   == pc' = l /\ UNCHANGED outcome
\* The callback, with the last thing the backend does.
Tell(how) == pc' = "off" /\ outcome' = [outcome EXCEPT ![Current] = how]

\* with_prepared: the caller goes on at "ready" with the paths, at once or when
\* the archive is extracted, or hears of an error.
Ask(e, ready) ==
  IF ~e.dropped \/ e.cancelled \/ e.prepared = "failed"
    THEN Tell("failed")
    ELSE Goto(IF e.prepared = "no" THEN "prepare" ELSE ready)

\* Faulty: nothing remembers that the archive was extracted.
PrepareForgets ==
  /\ pc = "prepare"
  /\ reads' = [reads EXCEPT ![Current] = @ + 1]
  /\ \/ /\ dir' = [dir EXCEPT ![Current] = "kept"]
        /\ pc' = IF system = "linux" THEN "answer" ELSE "write"
        /\ UNCHANGED <<export, outcome>>
     \/ /\ dir' = [dir EXCEPT ![Current] = "removed"]
        /\ export' = [export EXCEPT ![Current].cancelled = @ \/ Promising]
        /\ Tell("failed")
  /\ UNCHANGED <<system, windowVars, made, reader, dropping, late, xdndVars, promiseVars>>

\* prepare, with the state's mutex held: an extraction of its own, which the
\* export's Control may cancel; a failure removes the directory and remains.
\* The promise of macOS then cancels the export.
Prepare ==
  /\ pc = "prepare"
  /\ reads' = [reads EXCEPT ![Current] = @ + 1]
  /\ \/ /\ ~export[Current].cancelled
        /\ dir' = [dir EXCEPT ![Current] = "kept"]
        /\ export' = [export EXCEPT ![Current].prepared = "ok"]
        /\ Goto(IF system = "linux" THEN "answer" ELSE "write")
     \/ /\ dir' = [dir EXCEPT ![Current] = "removed"]
        /\ LET e == [export[Current] EXCEPT !.prepared = "failed",
                                           !.cancelled = @ \/ Promising]
           IN export' = [export EXCEPT ![Current] = e]
        /\ Tell("failed")
  /\ UNCHANGED <<system, windowVars, made, reader, dropping, late, xdndVars, promiseVars>>

-----------------------------------------------------------------------------
(* XDND: one thread, events first, then one look at time and pointer.      *)

Xdnd == system = "linux"

\* A target's or another client's message reaches the connection.
Hear ==
  /\ Xdnd /\ pc # "off" /\ sent < MaxMessages
  /\ sent' = sent + 1
  /\ \E m \in Messages : inbox' = Append(inbox, m)
  /\ UNCHANGED <<system, windowVars, made, dragVars, pc, dropping, late, target,
                 accepted, promiseVars>>

Heard(kind) ==
  /\ Xdnd /\ pc = "events" /\ inbox # <<>>
  /\ Head(inbox).kind = kind
  /\ inbox' = Tail(inbox)
  /\ UNCHANGED <<system, windowVars, made, dir, reads, reader, export, dropping, late,
                 target, sent, promiseVars>>

\* The paths are asked for.  Before the drop the answer is a refusal.
SelectionRequest ==
  /\ Heard("request")
  /\ IF export[Current].dropped THEN Ask(export[Current], "answer") ELSE Goto("events")
  /\ UNCHANGED accepted

SelectionClear == Heard("clear") /\ Tell("taken") /\ UNCHANGED accepted

Status ==
  /\ Heard("status")
  /\ accepted' = IF Head(inbox).from = target THEN Head(inbox).ok ELSE accepted
  /\ Goto("events")

Finished ==
  /\ Heard("finished")
  /\ IF dropping /\ Head(inbox).from = target
     THEN Tell(IF Head(inbox).ok THEN "delivered" ELSE "refused")
     ELSE Goto("events")
  /\ UNCHANGED accepted

\* The property is set and the target notified: it has the paths.
Answer ==
  /\ pc = "answer"
  /\ reader' = [reader EXCEPT ![Current] = "paths"]
  /\ Goto("events")
  /\ UNCHANGED <<system, windowVars, made, export, dir, reads, dropping, late,
                 xdndVars, promiseVars>>

NoEvents ==
  /\ Xdnd /\ pc = "events" /\ inbox = <<>>
  /\ Goto("look")
  /\ UNCHANGED <<system, windowVars, made, export, dir, reads, reader, dropping, late,
                 xdndVars, promiseVars>>

\* Faulty: a target has all the time it wants.
WaitForever ==
  /\ Xdnd /\ pc = "look" /\ dropping
  /\ Goto("events")
  /\ UNCHANGED <<system, windowVars, made, export, dir, reads, reader, dropping, late,
                 xdndVars, promiseVars>>

\* After the drop only thirty seconds without an end matter.
Wait ==
  /\ Xdnd /\ pc = "look" /\ dropping
  /\ IF late THEN Tell("timeout") ELSE Goto("events")
  /\ UNCHANGED <<system, windowVars, made, export, dir, reads, reader, dropping, late,
                 xdndVars, promiseVars>>

\* Before it: Escape, the window's cancellation or five minutes end the drag;
\* else the pointer is followed, and a release drops where that was accepted.
Track ==
  /\ Xdnd /\ pc = "look" /\ ~dropping
  /\ \/ /\ Tell("cancelled")
        /\ UNCHANGED <<export, dropping, late, target, accepted>>
     \/ /\ ~cancel /\ ~late
        /\ target' \in Targets \cup {Nowhere}
        /\ accepted' = (accepted /\ target' = target)
        /\ \/ Goto("events") /\ UNCHANGED <<export, dropping, late>>
           \/ /\ target' # Nowhere /\ accepted'
              /\ Dropped /\ dropping' = TRUE /\ late' = FALSE
              /\ Goto("events")
           \/ /\ target' = Nowhere \/ ~accepted'
              /\ Tell("cancelled")
              /\ UNCHANGED <<export, dropping, late>>
  /\ UNCHANGED <<system, windowVars, made, dir, reads, reader, inbox, sent, promiseVars>>

\* A request to the X server fails.
Broken ==
  /\ Xdnd /\ "broken" \in Faults /\ pc \in {"events", "look", "answer"}
  /\ Tell("broken")
  /\ UNCHANGED <<system, windowVars, made, export, dir, reads, reader, dropping, late,
                 xdndVars, promiseVars>>

Linux == SelectionRequest \/ SelectionClear \/ Status \/ Finished \/ Answer
         \/ NoEvents \/ Wait \/ Track \/ Broken

-----------------------------------------------------------------------------
(* File promises: AppKit ends the session, or asks for each root once.     *)

\* draggingSession:endedAtPoint: is told that nobody took it, or that somebody
\* will ask for the promises.
SessionEnds ==
  /\ Promising /\ pc = "events" /\ ~dropping
  /\ \/ Tell("cancelled") /\ UNCHANGED dropping
     \/ dropping' = TRUE /\ Goto("events")
  /\ UNCHANGED <<system, windowVars, made, export, dir, reads, reader, late, xdndVars,
                 promiseVars>>

\* writePromiseToURL: the queue works on one at a time.
WritePromise ==
  /\ Promising /\ pc = "events" /\ dropping
  /\ root' \in left
  /\ LET e == [export[Current] EXCEPT !.dropped = TRUE, !.cancelled = @ \/ cancel]
     IN export' = [export EXCEPT ![Current] = e] /\ Ask(e, "write")
  /\ UNCHANGED <<system, windowVars, made, dir, reads, reader, dropping, late, xdndVars,
                 left, promised>>

\* write_promised_root copies the root's files through ExtractionDir.
CopyRoot ==
  /\ pc = "write"
  /\ \/ /\ ~export[Current].cancelled
        /\ left' = left \ {root}
        /\ IF left' = {} THEN Tell("delivered") ELSE Goto("events")
        /\ UNCHANGED export
     \/ /\ export' = [export EXCEPT ![Current].cancelled = TRUE]
        /\ Tell("failed")
        /\ UNCHANGED left
  /\ root' = NoRoot
  /\ UNCHANGED <<system, windowVars, made, dir, reads, reader, dropping, late, xdndVars,
                 promised>>

MacOS == SessionEnds \/ WritePromise \/ CopyRoot

-----------------------------------------------------------------------------
(* Windows: the button, then the place, which the user may have to choose. *)

Placing == system = "windows"
Given   == cancel \/ export[Current].cancelled

WaitForRelease ==
  /\ Placing /\ pc = "events"
  /\ \/ Tell("cancelled")
     \/ ~Given /\ Goto("place")
     \/ Tell("failed")
  /\ UNCHANGED <<system, windowVars, made, export, dir, reads, reader, dropping, late,
                 xdndVars, promiseVars>>

Place ==
  /\ Placing /\ pc = "place"
  /\ \/ ~Given /\ Dropped /\ dropping' = TRUE /\ Tell("extract")
     \/ Tell("cancelled") /\ UNCHANGED <<export, dropping>>
  /\ UNCHANGED <<system, windowVars, made, dir, reads, reader, late, xdndVars, promiseVars>>

Windows == WaitForRelease \/ Place
Backend == Prepare \/ Linux \/ MacOS \/ Windows

-----------------------------------------------------------------------------
(* The window.                                                             *)

\* request_export: nothing else may be going on.
Request ==
  /\ ~gone /\ slot = "free" /\ job = 0 /\ made < MaxDrags
  /\ slot' = "pending"
  /\ UNCHANGED <<system, retained, cancel, closing, gone, job, made, dragVars, pc,
                 dropping, late, xdndVars, promiseVars>>

\* start_native_drag, later in the frame: the button is up already, a dialog has
\* come or the backend does not start; or it does.
Start ==
  /\ slot = "pending"
  /\ \/ /\ slot' = "free"
        /\ UNCHANGED <<retained, cancel, made, pc, dropping, late, xdndVars, promiseVars>>
     \/ /\ slot' = "waiting"
        /\ made' = made + 1
        /\ retained' = Append(retained, made')
        /\ cancel' = FALSE
        /\ pc' = "events" /\ dropping' = FALSE /\ late' = FALSE
        /\ target' = Nowhere /\ accepted' = FALSE /\ inbox' = <<>> /\ sent' = 0
        /\ left' = (IF Promising THEN Roots ELSE {}) /\ root' = NoRoot
        /\ promised' = [promised EXCEPT ![made'] = Promising]
  /\ UNCHANGED <<system, closing, gone, job, dragVars>>

\* "Cancel task and exit", which is asked for while something goes on.
CancelAndExit ==
  /\ ~closing /\ (slot = "waiting" \/ job # 0)
  /\ closing' = TRUE
  /\ cancel' = (slot = "waiting")
  /\ export' = IF retained = <<>> THEN export
               ELSE [export EXCEPT ![retained[Len(retained)]].cancelled = TRUE]
  /\ UNCHANGED <<system, slot, retained, gone, job, made, dir, reads, outcome, reader,
                 pc, dropping, late, xdndVars, promiseVars>>

Owned == {retained[k] : k \in 1..Len(retained)}
\* The window lets go of its references; a directory goes with the last one.
Release(ds) ==
  dir' = [d \in Drags |-> IF d \in ds /\ ~promised[d] /\ dir[d] = "kept"
                          THEN "removed" ELSE dir[d]]

\* Faulty: what was delivered is dropped with the rest.
PollKeepsNothing ==
  /\ slot = "waiting" /\ pc = "off"
  /\ slot' = "free" /\ cancel' = FALSE
  /\ retained' = SubSeq(retained, 1, Len(retained) - 1)
  /\ Release({Current})
  /\ job' = IF outcome[Current] = "extract" /\ ~closing THEN Current ELSE 0
  /\ UNCHANGED <<system, closing, gone, made, export, reads, outcome, reader, pc,
                 dropping, late, xdndVars, promiseVars>>

\* poll_native_drag: only a delivered drag is kept; on Windows the extraction
\* starts, unless the window is closing.
Poll ==
  /\ slot = "waiting" /\ pc = "off"
  /\ slot' = "free" /\ cancel' = FALSE
  /\ IF outcome[Current] = "delivered"
     THEN UNCHANGED <<retained, dir>>
     ELSE /\ retained' = SubSeq(retained, 1, Len(retained) - 1)
          /\ Release({Current})
  /\ job' = IF outcome[Current] = "extract" /\ ~closing THEN Current ELSE 0
  /\ UNCHANGED <<system, closing, gone, made, export, reads, outcome, reader, pc,
                 dropping, late, xdndVars, promiseVars>>

\* extract_to as a job: its own Control may be cancelled before it reads.
Extract ==
  /\ job # 0
  /\ job' = 0
  /\ \/ export[job].dropped /\ reads' = [reads EXCEPT ![job] = @ + 1]
     \/ UNCHANGED reads
  /\ UNCHANGED <<system, slot, retained, cancel, closing, gone, made, export, dir,
                 outcome, reader, pc, dropping, late, xdndVars, promiseVars>>

\* The window closes once nothing goes on, and lets go of what it kept.
Exit ==
  /\ ~gone /\ slot # "waiting" /\ job = 0
  /\ gone' = TRUE /\ slot' = "free" /\ retained' = <<>>
  /\ Release(Owned)
  /\ UNCHANGED <<system, cancel, closing, job, made, export, reads, outcome, reader, pc,
                 dropping, late, xdndVars, promiseVars>>

Window == Request \/ Start \/ CancelAndExit \/ Poll \/ Extract \/ Exit

\* AppKit frees the session and the promises of a drag, when it likes after the
\* drag is over, and with them their references; if they had not reported, the
\* window finds the channel closed.
AppKitLetsGo ==
  /\ ~gone
  /\ \E d \in Drags :
       /\ promised[d]
       /\ d = Current => pc = "off" \/ (pc = "events" /\ dropping)
       /\ promised' = [promised EXCEPT ![d] = FALSE]
       /\ dir' = [dir EXCEPT ![d] = IF d \notin Owned /\ @ = "kept" THEN "removed" ELSE @]
       /\ IF d = Current /\ pc # "off" THEN Tell("failed") ELSE UNCHANGED <<pc, outcome>>
  /\ UNCHANGED <<system, windowVars, made, export, reads, reader, dropping, late,
                 xdndVars, left, root>>

-----------------------------------------------------------------------------
\* A target has read all the files whose paths it was given.
TargetReads ==
  /\ \E d \in Drags : reader[d] = "paths" /\ reader' = [reader EXCEPT ![d] = "done"]
  /\ UNCHANGED <<system, windowVars, made, export, dir, reads, outcome, pc, dropping,
                 late, xdndVars, promiseVars>>

\* Five minutes of dragging, or thirty seconds since the drop.
Time ==
  /\ Xdnd /\ pc # "off" /\ ~late
  /\ late' = TRUE
  /\ UNCHANGED <<system, windowVars, made, dragVars, pc, dropping, xdndVars, promiseVars>>

Next == Backend \/ Hear \/ Window \/ AppKitLetsGo \/ TargetReads \/ Time

Spec == Init /\ [][Next]_vars
\* The backend is a thread or a queue of its own, whose extractions end; time
\* passes; a repaint follows the report.  On Windows the user lets go of the
\* button and answers the chooser.
FairSpec == Spec /\ WF_vars(Backend) /\ WF_vars(Time) /\ WF_vars(Poll)

-----------------------------------------------------------------------------
\* The values the variables range over.
TypeOK ==
  /\ system \in Systems
  /\ slot \in {"free", "pending", "waiting"}
  /\ retained \in Seq(Drags)
  /\ cancel \in BOOLEAN /\ closing \in BOOLEAN /\ gone \in BOOLEAN
  /\ job \in 0..MaxDrags /\ made \in 0..MaxDrags
  /\ export \in [Drags -> [dropped : BOOLEAN, prepared : {"no", "ok", "failed"},
                           cancelled : BOOLEAN]]
  /\ dir \in [Drags -> {"none", "kept", "removed"}]
  /\ reads \in [Drags -> Nat]
  /\ outcome \in [Drags -> Outcomes]
  /\ reader \in [Drags -> {"none", "paths", "done"}]
  /\ pc \in {"off", "events", "look", "prepare", "answer", "write", "place"}
  /\ dropping \in BOOLEAN /\ late \in BOOLEAN
  /\ target \in Targets \cup {Nowhere} /\ accepted \in BOOLEAN
  /\ inbox \in Seq(Messages) /\ sent \in 0..MaxMessages
  /\ left \in SUBSET Roots /\ root \in Roots \cup {NoRoot}
  /\ promised \in [Drags -> BOOLEAN]

\* "No archive reads or temporary files before drop" (export.rs:27), and however
\* often the paths or the promises are asked for, one extraction.
ReadOnceAfterDrop ==
  \A d \in Drags : reads[d] <= 1 /\ (reads[d] = 1 \/ dir[d] # "none" => export[d].dropped)

\* "Some receivers read after the native callback; retain successful sources"
\* (interaction.rs:52).  The files of a drag are there from their preparation for as
\* long as the window waits for it, has it delivered or AppKit holds its promises, and
\* no longer: what AppKit still holds when the program ends is left behind.  "Keep
\* files alive while the receiver reads" (export.rs:287) is true only so far: under a
\* target that has their paths they vanish, before it has read them, when the program
\* ends or the drag was refused, timed out, lost its selection or its connection, or
\* was cancelled by the exit; never after a delivery or while the drag goes on.
StagingFollowsDelivery ==
  \A d \in Drags :
    /\ dir[d] = "kept" <=>
         /\ export[d].prepared = "ok"
         /\ \/ promised[d]
            \/ ~gone /\ (outcome[d] = "delivered" \/ (d = Current /\ slot = "waiting"))
    /\ reader[d] = "paths" /\ dir[d] = "removed" =>
         gone \/ outcome[d] \in {"refused", "timeout", "taken", "broken", "failed"}

\* A drag ends: the window is not left waiting for a target that never answers
\* (linux.rs:268-286).  AppKit gives no such promise.
DragEnds == slot = "waiting" /\ system # "macos" ~> slot = "free"

=============================================================================
