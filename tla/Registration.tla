---------------------------- MODULE Registration ----------------------------
(***************************************************************************)
(* The registration of the program with the user's desktop: the page of the *)
(* settings dialog (src/crates/gui-egui/src/app/settings.rs) and the worker *)
(* that changes the system (src/crates/gui-egui/src/integration/).          *)
(*                                                                          *)
(* The worker goes through a fixed order of steps, which differs by system   *)
(* and has a part for each type; any step may fail, which ends the work, and *)
(* the process may die between two steps.  Meanwhile the user may choose     *)
(* other programs in the system's own settings.                              *)
(***************************************************************************)
CONSTANTS
  Systems,  \* the operating systems considered
  Types,    \* the formats, one file type each
  Outer,    \* [Types -> SUBSET Types]: the formats of a compound name's last suffix
  Others,   \* other programs that open archives
  Picks,    \* those of them that the user chooses by hand
  Builtin,  \* the one that comes with macOS
  Rival     \* [Types -> Others \cup {"none"}]: what Linux takes unasked

ASSUME RegistrationAssumption ==
  /\ Systems \subseteq {"linux", "macos", "windows"}
  /\ Others \cap {"ours", "none", "absent"} = {}
  /\ Outer \in [Types -> SUBSET Types]
  /\ Picks \subseteq Others /\ Builtin \in Others
  /\ Rival \in [Types -> Others \cup {"none"}]

VARIABLES
  os,
  chosen,    \* [Types -> program]: the default program somebody has set
  launcher,  \* the desktop entry, the launcher bundle, the Capabilities key
  menu,      \* the entries of the context menu: "off", "part" or "on"
  backups,   \* the file previous-defaults; "absent": no line, "none": an empty one
  keys,      \* Windows: [Types -> SUBSET Entries]
  enabled,   \* Windows: the value Enabled that the modern command asks for
  identity,  \* Windows: the package that brings the modern command
  want,      \* history: the last choice made by somebody else than this program that
             \* it answers for; "none": there is no such, see Risks and UserChooses
  dialog,    \* "closed", "open", "close?" or "remove?"
  reload,    \* Settings::reload
  snapshot,  \* Settings::integration
  draft,     \* Settings::selected and Settings::menu
  job        \* the worker, with Settings::replace_draft

system == <<chosen, launcher, menu, backups, keys, enabled, identity>>
window == <<dialog, reload, snapshot, draft>>
vars == <<os, system, want, window, job>>

Entries == {"progid", "open with", "capability"}
Drafts == [types: SUBSET Types, menu: BOOLEAN]
NoBackups == [t \in Types |-> "absent"]
NoSnapshot == [types |-> {}, menu |-> FALSE, some |-> FALSE, loaded |-> FALSE]
NoJob == [op |-> "none", by |-> "window", pc |-> "done", left |-> {}, selected |-> {},
          menu |-> FALSE, held |-> NoBackups, replace |-> FALSE, error |-> FALSE,
          seen |-> NoSnapshot]

Init ==
  /\ os \in Systems
  /\ chosen \in [Types -> {"none"} \cup IF os = "windows" THEN {} ELSE Picks]
  /\ want = chosen
  /\ launcher = FALSE /\ menu = "off" /\ backups = NoBackups
  /\ keys = [t \in Types |-> {}] /\ enabled = FALSE
  /\ identity \in IF os = "windows" THEN {"none", "old"} ELSE {"none"}
  /\ dialog = "closed" /\ reload = FALSE
  /\ snapshot = NoSnapshot /\ draft = [types |-> {}, menu |-> FALSE]
  /\ job = NoJob

-----------------------------------------------------------------------------
(* What the system answers.                                                *)

\* Without a choice the system takes a program that declares the type: the rival,
\* or on Linux this program, whose entry declares every type, selected or not.
Effective(t, choice) ==
  CASE choice # "none" -> choice
    [] choice = "none" /\ os = "macos" -> Builtin
    [] OTHER -> IF Rival[t] = "none" /\ os = "linux" /\ launcher THEN "ours" ELSE Rival[t]

Handler(t) == Effective(t, chosen[t])

Selected ==
  {t \in Types : IF os = "windows" THEN "open with" \in keys[t] ELSE Handler(t) = "ours"}

Registered == IF os = "windows" THEN Selected # {} ELSE launcher

\* inspect(), with what the window makes of it.
Snapshot ==
  [types |-> Selected, menu |-> menu = "on",
   some |-> menu = "on" \/ Registered \/ Selected # {}, loaded |-> TRUE]

Chosen(seen) == [types |-> seen.types, menu |-> seen.menu]

Dirty == snapshot.loaded /\ draft # Chosen(snapshot)

-----------------------------------------------------------------------------
(* The order of the worker's steps.                                        *)

TakeSteps == {"ask others", "truncate", "keep", "take"}
GiveBackSteps == {"ask ours", "clear", "give back"}
EntrySteps == {"+progid", "+open with", "+capability", "-open with", "-capability", "-progid"}
MenuSteps == {"enable", "register", "unregister", "disable", "menu off", "menu on"}

\* Faulty: the previous default is recorded after it was replaced.
AfterTakeFirst(step) ==
  CASE step = "ask others"          -> "take"
    [] step = "take"                -> "keep"
    [] step \in {"truncate", "keep"} -> "next type"

AfterTake(step) ==
  CASE step = "ask others" -> IF os = "macos" THEN "truncate" ELSE "keep"
    [] step = "truncate"   -> "keep"
    [] step = "keep"       -> "take"
    [] step = "take"       -> "next type"

AfterGiveBack(step) ==
  CASE step = "ask ours"  -> IF os = "linux" THEN "clear" ELSE "give back"
    [] step = "clear"     -> "give back"
    [] step = "give back" -> "next type"

\* Faulty: the program identifier goes before the last entry that names it.
AfterEntryRootEarly(step) ==
  CASE step = "+progid"     -> "+open with"
    [] step = "+open with"  -> "+capability"
    [] step = "-open with"  -> "-progid"
    [] step = "-progid"     -> "-capability"
    [] step \in {"+capability", "-capability"} -> "next type"

AfterEntry(step) ==
  CASE step = "+progid"     -> "+open with"
    [] step = "+open with"  -> "+capability"
    [] step = "-open with"  -> "-capability"
    [] step = "-capability" -> "-progid"
    [] step \in {"+capability", "-progid"} -> "next type"

\* Windows 11 wants the identity first; the classic entries come last everywhere.
AfterTypes(j) ==
  IF os # "windows" THEN "menu off" ELSE IF j.menu THEN "enable" ELSE "unregister"

AfterMenu(j, step) ==
  CASE step = "enable"     -> "register"
    [] step = "register"   -> "menu off"
    [] step = "unregister" -> IF j.op = "upgrade" THEN "inspect" ELSE "disable"
    [] step = "disable"    -> "menu off"
    [] step = "menu off"   -> IF j.menu THEN "menu on"
                              ELSE IF j.op = "remove" THEN "-launcher" ELSE "inspect"
    [] step = "menu on"    -> "inspect"

\* Faulty: the launcher goes, the recorded defaults stay for the next registration.
AfterLauncherForgets(j) == IF j.op = "apply" THEN "+launcher" ELSE "inspect"

\* The launcher of macOS is built anew in place of the old one.
AfterLauncher(j) ==
  IF j.op = "apply" THEN "+launcher" ELSE IF os = "windows" THEN "inspect" ELSE "-backups"

\* The types go by in one order always.
First(types) == CHOOSE t \in types : TRUE

AtTypes(j) ==
  LET on == First(j.left) \in j.selected
  IN  IF j.left = {} THEN AfterTypes(j)
      ELSE IF os = "windows" THEN IF on THEN "+progid" ELSE "-open with"
      ELSE IF on THEN "ask others" ELSE "ask ours"

After(j) ==
  CASE j.pc \in TakeSteps     -> AfterTake(j.pc)
    [] j.pc \in GiveBackSteps -> AfterGiveBack(j.pc)
    [] j.pc \in EntrySteps    -> AfterEntry(j.pc)
    [] j.pc \in MenuSteps     -> AfterMenu(j, j.pc)
    [] j.pc = "-launcher"     -> AfterLauncher(j)
    [] j.pc = "+launcher"     -> IF os = "windows" THEN AtTypes(j) ELSE "load"
    [] j.pc = "load"          -> AtTypes(j)
    [] j.pc = "-backups"      -> "inspect"

FirstStep(j) ==
  CASE j.op = "apply"   -> IF os = "macos" THEN "-launcher" ELSE "+launcher"
    [] j.op = "remove"  -> IF os = "windows" THEN AtTypes(j) ELSE "load"
    [] j.op = "upgrade" -> "unregister"
    [] j.op = "inspect" -> "inspect"

\* Explorer and Finder know the last suffix only.
WithOuter(types) ==
  IF os = "linux" THEN types ELSE types \cup UNION {Outer[t] : t \in types}

\* execute: what was done, the system is then looked at.
Begin(op, by, replaces, selected, on) ==
  LET j == [NoJob EXCEPT !.op = op, !.by = by, !.replace = replaces, !.menu = on,
                         !.left = IF op \in {"apply", "remove"} THEN Types ELSE {},
                         !.selected = selected]
  IN  job' = [j EXCEPT !.pc = FirstStep(j)]

-----------------------------------------------------------------------------
(* The worker.                                                             *)

Running == job.op # "none" /\ job.pc # "done"
Doing(step) == Running /\ job.pc = step
Subject == First(job.left)

\* The steps about the type in hand are over, or not needed.
NextType ==
  LET j == [job EXCEPT !.left = @ \ {Subject}] IN [j EXCEPT !.pc = AtTypes(j)]
Onward == IF After(job) = "next type" THEN NextType ELSE [job EXCEPT !.pc = After(job)]
Goes == job' = Onward
Skip == job' = NextType

Load ==
  /\ Doing("load")
  /\ job' = [Onward EXCEPT !.held = backups]
  /\ UNCHANGED system

AskOthers ==
  /\ Doing("ask others")
  /\ IF Handler(Subject) = "ours" THEN Skip
     ELSE job' = [Onward EXCEPT !.held = [@ EXCEPT ![Subject] = Handler(Subject)]]
  /\ UNCHANGED system

AskOurs ==
  /\ Doing("ask ours")
  /\ IF Handler(Subject) = "ours" THEN Goes ELSE Skip
  /\ UNCHANGED system

\* fs::write on macOS; a temporary file renamed over the old one on Linux.
Truncate ==
  /\ Doing("truncate") /\ Goes
  /\ backups' = NoBackups
  /\ UNCHANGED <<chosen, launcher, menu, keys, enabled, identity>>

Keep ==
  /\ Doing("keep") /\ Goes
  /\ backups' = job.held
  /\ UNCHANGED <<chosen, launcher, menu, keys, enabled, identity>>

Clear == Doing("clear") /\ chosen' = [chosen EXCEPT ![Subject] = IF @ = "ours" THEN "none" ELSE @]

\* No usable line: Linux leaves the type alone, macOS names its own program.
Restore ==
  LET previous == job.held[Subject]
      usable   == previous \in Others
  IN /\ Doing("give back")
     /\ chosen' = [chosen EXCEPT ![Subject] =
          IF usable THEN previous ELSE IF os = "macos" THEN Builtin ELSE @]

Associate ==
  /\ \/ Doing("take") /\ chosen' = [chosen EXCEPT ![Subject] = "ours"]
     \/ Clear
     \/ Restore
  /\ Goes
  /\ UNCHANGED <<launcher, menu, backups, keys, enabled, identity>>

Entry ==
  /\ \/ Doing("+progid")     /\ keys' = [keys EXCEPT ![Subject] = @ \cup {"progid"}]
     \/ Doing("+open with")  /\ keys' = [keys EXCEPT ![Subject] = @ \cup {"open with"}]
     \/ Doing("+capability") /\ keys' = [keys EXCEPT ![Subject] = @ \cup {"capability"}]
     \/ Doing("-open with")  /\ keys' = [keys EXCEPT ![Subject] = @ \ {"open with"}]
     \/ Doing("-capability") /\ keys' = [keys EXCEPT ![Subject] = @ \ {"capability"}]
     \/ Doing("-progid")     /\ keys' = [keys EXCEPT ![Subject] = @ \ {"progid"}]
  /\ Goes
  /\ UNCHANGED <<chosen, launcher, menu, backups, enabled, identity>>

Launcher ==
  /\ \/ Doing("+launcher") /\ launcher' = TRUE
     \/ Doing("-launcher") /\ launcher' = FALSE
  /\ Goes
  /\ UNCHANGED <<chosen, menu, backups, keys, enabled, identity>>

DropBackups ==
  /\ Doing("-backups") /\ Goes
  /\ backups' = NoBackups
  /\ UNCHANGED <<chosen, launcher, menu, keys, enabled, identity>>

MenuFiles ==
  /\ \/ Doing("menu off") /\ menu' = "off"
     \/ Doing("menu on") /\ menu' = "on"
  /\ Goes
  /\ UNCHANGED <<chosen, launcher, backups, keys, enabled, identity>>

Modern ==
  /\ \/ Doing("enable") /\ enabled' = TRUE /\ UNCHANGED identity
     \/ Doing("disable") /\ enabled' = FALSE /\ UNCHANGED identity
     \/ Doing("register") /\ identity' = "current" /\ UNCHANGED enabled
     \/ Doing("unregister") /\ identity' = "none" /\ UNCHANGED enabled
  /\ Goes
  /\ UNCHANGED <<chosen, launcher, menu, backups, keys>>

\* Of a failed Apply or Remove too the window is told what the system is like now.
Inspect ==
  /\ Doing("inspect")
  /\ \E seen \in {Snapshot, NoSnapshot}, failed \in BOOLEAN :
       /\ seen = NoSnapshot => failed
       /\ job' = [job EXCEPT !.pc = "done", !.left = {}, !.selected = {}, !.menu = FALSE,
                             !.held = NoBackups,
                             !.seen = IF job.by = "window" THEN seen ELSE @, !.error = @ \/ failed]
  /\ UNCHANGED system

\* The types whose previous choice is gone if the step does not come to its end, since
\* the step before destroyed it: on Linux this program was taken off the lists that
\* the previous one is to enter, on macOS the file with all lines was truncated.
Risks ==
  IF job.pc = "give back" /\ os = "linux" THEN {Subject}
  ELSE IF job.pc = "keep" /\ os = "macos" THEN {t \in Types : chosen[t] = "ours"}
  ELSE {}

\* What a step that does not come to its end may have done already.  An old
\* identity is removed before the new one is added.
Half ==
  /\ want' = [t \in Types |-> IF t \in Risks THEN "none" ELSE want[t]]
  /\ menu' \in IF job.pc \in {"menu off", "menu on"} THEN {menu, "part"} ELSE {menu}
  /\ launcher' \in IF job.pc = "+launcher" /\ os # "macos" THEN {launcher, TRUE} ELSE {launcher}
  /\ identity' \in IF job.pc = "register" /\ identity = "old" THEN {"old", "none"} ELSE {identity}
  /\ UNCHANGED <<chosen, backups, keys>>

\* The `?` of every call.  Without its identity the modern command is taken back.
Fail ==
  /\ Running /\ job.pc # "inspect" /\ Half
  /\ enabled' = (enabled /\ (job.pc = "register" => identity' = "current"))
  /\ job' = [job EXCEPT !.pc = "inspect", !.left = {}, !.selected = {}, !.menu = FALSE,
                         !.held = NoBackups, !.error = TRUE]

Work ==
  /\ \/ /\ \/ Load \/ AskOthers \/ AskOurs \/ Truncate \/ Keep \/ Associate \/ Entry
           \/ Launcher \/ DropBackups \/ MenuFiles \/ Modern \/ Inspect
        /\ UNCHANGED want
     \/ Fail
  /\ UNCHANGED <<os, window>>

\* The process ends or is killed; nothing is undone.
Dies ==
  /\ Running /\ Half
  /\ job' = NoJob
  /\ IF job.by = "window"
       THEN /\ dialog' = "closed" /\ reload' = FALSE
            /\ snapshot' = NoSnapshot /\ draft' = [types |-> {}, menu |-> FALSE]
       ELSE UNCHANGED window
  /\ UNCHANGED <<os, enabled>>

-----------------------------------------------------------------------------
(* The dialog.                                                             *)

Idle == job.op = "none"

ShowSettings ==
  /\ dialog = "closed"
  /\ dialog' = "open" /\ reload' = TRUE
  /\ UNCHANGED <<os, system, want, snapshot, draft, job>>

Refresh ==
  /\ dialog = "open" /\ Idle
  /\ reload' = TRUE
  /\ UNCHANGED <<os, system, want, dialog, snapshot, draft, job>>

\* start_integration: an edited draft outlives what is not asked for by Apply.
StartIntegration(op, selected, on) ==
  /\ Idle
  /\ dialog' = "open"
  /\ Begin(op, "window", op \in {"apply", "remove"} \/ ~Dirty, selected, on)
  /\ UNCHANGED <<os, system, want, snapshot, draft>>

Reload ==
  /\ dialog # "closed" /\ reload
  /\ reload' = FALSE
  /\ StartIntegration("inspect", {}, FALSE)

Edit ==
  /\ dialog = "open" /\ Idle /\ ~reload /\ snapshot.loaded
  /\ draft' \in Drafts
  /\ UNCHANGED <<os, system, want, dialog, reload, snapshot, job>>

PressApply ==
  /\ dialog = "open" /\ Dirty
  /\ StartIntegration("apply", WithOuter(draft.types), draft.menu)
  /\ UNCHANGED reload

\* "Remove" and "Close" ask first, the latter only when something would be lost.
AskDialog ==
  /\ dialog = "open" /\ Idle
  /\ dialog' \in {IF Dirty THEN "close?" ELSE "closed"}
                   \cup (IF snapshot.some THEN {"remove?"} ELSE {})
  /\ UNCHANGED <<os, system, want, reload, snapshot, draft, job>>

CancelDialog ==
  /\ dialog \in {"close?", "remove?"}
  /\ dialog' = "open"
  /\ UNCHANGED <<os, system, want, reload, snapshot, draft, job>>

Discard ==
  /\ dialog = "close?"
  /\ draft' = Chosen(snapshot) /\ dialog' = "closed"
  /\ UNCHANGED <<os, system, want, reload, snapshot, job>>

ConfirmRemove ==
  /\ dialog = "remove?"
  /\ StartIntegration("remove", {}, FALSE)
  /\ UNCHANGED reload

\* poll_integration and accept_snapshot.
PollIntegration ==
  /\ job.op # "none" /\ job.pc = "done" /\ job.by = "window"
  /\ IF ~job.seen.loaded THEN UNCHANGED <<snapshot, draft>>
     ELSE /\ snapshot' = job.seen
          /\ draft' = IF ~snapshot.loaded \/ (~job.error /\ job.replace) THEN Chosen(job.seen) ELSE draft
  /\ job' = NoJob
  /\ UNCHANGED <<os, system, want, dialog, reload>>

-----------------------------------------------------------------------------
(* Everybody else.                                                         *)

\* The maintenance commands: --repair-shell-integration keeps what it finds and may
\* set the menu, the others register or remove all; an upgrade of Windows takes the
\* identity away first.
Installer ==
  /\ Idle /\ dialog = "closed"
  /\ \/ \E m \in BOOLEAN :
          /\ Snapshot.menu \/ Registered \/ m
          /\ Begin("apply", "installer", FALSE, WithOuter(Selected), m)
     \/ Begin("apply", "installer", FALSE, Types, TRUE)
     \/ Begin("remove", "installer", FALSE, {}, FALSE)
     \/ os = "windows" /\ Begin("upgrade", "installer", FALSE, {}, FALSE)
  /\ UNCHANGED <<os, system, want, window>>

InstallerEnds ==
  /\ job.op # "none" /\ job.pc = "done" /\ job.by = "installer"
  /\ job' = NoJob
  /\ UNCHANGED <<os, system, want, window>>

\* The steps that act on what an "ask" has answered.
Held == (TakeSteps \cup GiveBackSteps) \ {"ask others", "ask ours"}

\* In the system's settings, at any moment.  A choice for the very type whose answer
\* the worker is acting on is not answered for: the worker goes on with the answer.
\* On Windows that choice is never touched.
UserChooses ==
  /\ os # "windows"
  /\ \E t \in Types, p \in Picks :
       /\ p # chosen[t]
       /\ chosen' = [chosen EXCEPT ![t] = p]
       /\ want' = [want EXCEPT ![t] = IF job.pc \in Held /\ t = Subject THEN "none" ELSE p]
  /\ UNCHANGED <<os, launcher, menu, backups, keys, enabled, identity, window, job>>

Next ==
  \/ Work \/ Dies \/ ShowSettings \/ Refresh \/ Reload \/ Edit \/ PressApply \/ AskDialog
  \/ CancelDialog \/ Discard \/ ConfirmRemove \/ PollIntegration \/ Installer
  \/ InstallerEnds \/ UserChooses

Spec == Init /\ [][Next]_vars

-----------------------------------------------------------------------------
(* Properties.                                                             *)

Programs == Others \cup {"none"}

Steps == TakeSteps \cup GiveBackSteps \cup EntrySteps \cup MenuSteps
           \cup {"-launcher", "+launcher", "load", "-backups", "inspect", "done"}
Snapshots == [types : SUBSET Types, menu : BOOLEAN, some : BOOLEAN, loaded : BOOLEAN]
Backups == [Types -> Programs \cup {"absent"}]
Jobs ==
  [op : {"none", "inspect", "apply", "remove", "upgrade"}, by : {"window", "installer"},
   pc : Steps, left : SUBSET Types, selected : SUBSET Types, menu : BOOLEAN, held : Backups,
   replace : BOOLEAN, error : BOOLEAN, seen : Snapshots]

TypeOK ==
  /\ os \in Systems
  /\ chosen \in [Types -> Programs \cup {"ours"}] /\ want \in [Types -> Programs]
  /\ backups \in Backups /\ job \in Jobs
  /\ keys \in [Types -> SUBSET Entries]
  /\ menu \in {"off", "part", "on"} /\ identity \in {"none", "old", "current"}
  /\ dialog \in {"closed", "open", "close?", "remove?"}
  /\ draft \in Drafts
  /\ snapshot \in Snapshots
  /\ {launcher, enabled, reload} \subseteq BOOLEAN

\* What somebody had chosen is in force, or in the file of previous defaults, or the
\* very next step puts it there, through failures and deaths (linux.rs 262-272,
\* macos.rs 272-290).  The code does lose a choice in two cases, where `want` gives it
\* up: when it was made while the worker had its answer about that very type and had
\* not yet acted on it (UserChooses), and when one of the two steps was cut short that
\* follow their own destruction, naming the previous default on Linux and writing the
\* file on macOS, the latter for the types taken (Risks).  The next choice counts again.
PreviousKept ==
  os # "windows" =>
    \A t \in Types : want[t] # "none" =>
      \/ want[t] \in {Handler(t), backups[t]}
      \/ job.pc \in {"keep", "give back"} /\ job.held[t] = want[t]

\* Nothing points to what is not there: on Windows an "open with" entry always has
\* its ProgID, on Linux a default always has its desktop entry, whichever step
\* failed or was the last before a death.
NothingDangles ==
  /\ \A t \in Types : keys[t] # {} => "progid" \in keys[t]
  /\ os = "linux" => \A t \in Types : chosen[t] = "ours" => launcher

Removed == job.op = "remove" /\ job.pc = "done" /\ ~job.error

\* A removal reported as done has left nothing, however many failed applications
\* and removals came before it.
RemovedIsGone ==
  Removed =>
    /\ ~launcher /\ menu = "off" /\ backups = NoBackups
    /\ \A t \in Types : keys[t] = {} /\ (os # "windows" => Handler(t) # "ours")
    /\ ~enabled /\ identity = "none"

=============================================================================
