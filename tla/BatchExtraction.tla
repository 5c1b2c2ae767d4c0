-------------------------- MODULE BatchExtraction --------------------------
(***************************************************************************)
(* Extraction of a whole archive into a shared destination: the loops      *)
(* around ExtractionDir::write_file.                                       *)
(*                                                                         *)
(*   "window"     read_entries of the window (gui-egui/src/engine/mod.rs): *)
(*                the first error ends the batch;                          *)
(*   "streaming"  extract_all_streaming (core/src/archive/mod.rs): errors  *)
(*                are collected, a broken payload ends the walk;           *)
(*   "indexed"    extract_all_safely over random-access readers: errors    *)
(*                are collected and every entry is tried.                  *)
(*                                                                         *)
(* A batch is a writer of ExtractionDir; its calls are the steps there.    *)
(* The archive is a file like any other and may lie under the very name an *)
(* entry of it wants.  Cancellation may be asked for at any moment.        *)
(***************************************************************************)
EXTENDS ExtractionDir, Sequences

CONSTANTS
  Folder,  \* an entry that is a directory
  JobsOf   \* the batches each writer may be asked for

Loops == {"window", "streaming", "indexed"}
Jobs  == [loop : Loops, entries : Seq(Leaves \cup {Folder}), overwrite : BOOLEAN]

ASSUME BatchAssumption ==
  /\ Folder \notin Leaves
  /\ JobsOf \in [Writers -> SUBSET Jobs]
  /\ \A w \in Writers : \A j \in JobsOf[w] : Len(j.entries) <= MaxCalls

VARIABLES
  job,      \* what each writer was asked for
  phase,    \* "idle", "entry" (between entries), "call", "rest" or "ended"
  at,       \* entries begun
  asked,    \* calls whose entry was decoded when cancellation was asked for
  cause,    \* why the current call's decoder failed
  verdict,  \* what became of each entry
  outcome   \* what the batch reported

batchVars == <<job, phase, at, asked, cause, verdict, outcome>>
allVars == <<vars, batchVars>>

NotAsked == -1
Undecoded == {"parent", "link", "free", "serial", "create", "write"}
Archive == Existing
Entries(w) == job[w].entries
Cancelled(w) == asked[w] # NotAsked

\* Readers with has_direct_visitor decode as they walk and may fail between
\* entries; the window opens readers of both kinds.
Walks(w) == job[w].loop \in {"window", "streaming"}

BatchInit ==
  /\ Init
  /\ target = [w \in Writers |-> CHOOSE l \in Leaves : TRUE]  \* not yet read
  /\ job \in [Writers -> UNION {JobsOf[w] : w \in Writers}]
  /\ \A w \in Writers : job[w] \in JobsOf[w]
  /\ phase = [w \in Writers |-> "idle"]
  /\ at = [w \in Writers |-> 0]
  /\ asked = [w \in Writers |-> NotAsked]
  /\ cause = [w \in Writers |-> "none"]
  /\ verdict = [w \in Writers |-> <<>>]
  /\ outcome = [w \in Writers |-> "none"]

End(w, r) ==
  /\ phase' = [phase EXCEPT ![w] = "ended"]
  /\ outcome' = [outcome EXCEPT ![w] = r]

\* An error return; the window looks at the flag before it reports one.
Abort(w) ==
  End(w, IF Cancelled(w) /\ job[w].loop = "window" THEN "cancelled" ELSE "error")

GoOn(w, label) ==
  /\ phase' = [phase EXCEPT ![w] = label]
  /\ UNCHANGED outcome

Judge(w, v) == verdict' = [verdict EXCEPT ![w] = Append(@, v)]

\* Before anything is written every entry's target is compared with the
\* archive; the listing may fail, a path may be dangerous.
Preflight(w) ==
  /\ phase[w] = "idle"
  /\ \/ Cancelled(w) /\ job[w].loop # "streaming" /\ End(w, "cancelled")
     \/ Abort(w)
     \/ /\ ~Cancelled(w) \/ job[w].loop = "streaming"
        /\ \A k \in 1..Len(Entries(w)) :
             Entries(w)[k] \in Leaves => leaf[Entries(w)[k]] # Archive
        /\ GoOn(w, "entry")
  /\ UNCHANGED <<vars, job, at, asked, cause, verdict>>

\* The flag is looked at before every entry, and by a walk also at its end,
\* where it drains what follows the last one.
StopForFlag(w) ==
  /\ phase[w] = "entry" /\ Cancelled(w)
  /\ at[w] < Len(Entries(w)) \/ Walks(w)
  /\ End(w, "cancelled")
  /\ UNCHANGED <<vars, job, at, asked, cause, verdict>>

\* The next header cannot be read, or what follows the last entry is broken.
WalkFails(w) ==
  /\ phase[w] = "entry" /\ Walks(w)
  /\ Abort(w)
  /\ UNCHANGED <<vars, job, at, asked, cause, verdict>>

\* create_dir: refused, failed or done; the window ends at the first failure.
MakeFolder(w) ==
  /\ phase[w] = "entry" /\ at[w] < Len(Entries(w)) /\ ~Cancelled(w)
  /\ Entries(w)[at[w] + 1] = Folder
  /\ at' = [at EXCEPT ![w] = @ + 1]
  /\ \/ Judge(w, "ok") /\ GoOn(w, "entry")
     \/ /\ Judge(w, "failed")
        /\ IF job[w].loop = "window" THEN Abort(w) ELSE GoOn(w, "entry")
  /\ UNCHANGED <<vars, job, asked, cause>>

\* The window compares the target with the archive once more, then the entry
\* is handed to write_file.
BeginEntry(w) ==
  /\ phase[w] = "entry" /\ at[w] < Len(Entries(w)) /\ ~Cancelled(w)
  /\ Entries(w)[at[w] + 1] \in Leaves
  /\ at' = [at EXCEPT ![w] = @ + 1]
  /\ cause' = [cause EXCEPT ![w] = "none"]
  /\ LET l == Entries(w)[at[w] + 1]
     IN IF job[w].loop = "window" /\ leaf[l] = Archive
        THEN Abort(w) /\ Judge(w, "failed") /\ UNCHANGED vars
        ELSE Begin(w, l, job[w].overwrite) /\ GoOn(w, "call") /\ UNCHANGED verdict
  /\ UNCHANGED <<job, asked>>

\* Faulty: the flag is not looked at when the decoder is done.
DecodeEndsBlind(w) ==
  IF pc'[w] = "publish"
  THEN UNCHANGED cause
  ELSE \E c \in {"payload", "other"} : cause' = [cause EXCEPT ![w] = c]

\* Why a decoder stopped: the flag, noticed by CancellableWriter; a read error
\* or a size that is not the entry's; anything else (a full disk, no temporary
\* file).  The window and the indexed loop look at the flag when the decoder
\* is done, the streaming loop only while it writes.
DecodeEnds(w) ==
  IF pc'[w] = "publish"
  THEN /\ ~Cancelled(w) \/ job[w].loop = "streaming"
       /\ UNCHANGED cause
  ELSE \E c \in {"flag", "payload", "other"} :
         /\ c = "flag" => Cancelled(w)
         /\ c = "payload" => ~Cancelled(w) \/ job[w].loop = "streaming"
         /\ cause' = [cause EXCEPT ![w] = c]

CallStep(w) ==
  /\ phase[w] = "call"
  /\ Step(w)
  /\ IF pc[w] = "write" THEN DecodeEnds(w) ELSE UNCHANGED cause
  /\ UNCHANGED <<job, phase, at, asked, verdict, outcome>>

\* write_file has returned: what the core's loops make of it ...
Verdict(w) == CASE result[w] = "ok" -> "ok"
                [] result[w] = "clobber" -> "skipped"
                [] OTHER -> "failed"

SettleCore(w) ==
  /\ job[w].loop # "window"
  /\ Judge(w, Verdict(w))
  /\ IF result[w] = "error" /\ cause[w] = "flag" THEN End(w, "cancelled")
     ELSE GoOn(w, IF job[w].loop = "streaming" /\ cause[w] = "payload"
                  THEN "rest" ELSE "entry")

\* ... and what the window does: the flag is looked at before the result,
\* which is then never counted.
SettleWindow(w) ==
  /\ job[w].loop = "window"
  /\ IF Cancelled(w)
     THEN Judge(w, "uncounted") /\ End(w, "cancelled")
     ELSE /\ Judge(w, Verdict(w))
          /\ IF Verdict(w) = "failed" THEN Abort(w) ELSE GoOn(w, "entry")

Settle(w) ==
  /\ phase[w] = "call" /\ pc[w] = "idle"
  /\ SettleCore(w) \/ SettleWindow(w)
  /\ UNCHANGED <<vars, job, at, asked, cause>>

Failures(w) == \E k \in 1..Len(verdict[w]) : verdict[w][k] = "failed"

\* Faulty: nobody counts the failures at the end.
FinishForgets(w) ==
  /\ \/ phase[w] = "entry" /\ at[w] = Len(Entries(w))
     \/ phase[w] = "rest"
  /\ End(w, IF Cancelled(w) THEN "cancelled" ELSE "ok")
  /\ UNCHANGED <<vars, job, at, asked, cause, verdict>>

\* decompress_archive: an entry that failed comes before the flag; the window
\* has no failures left to count.
Finish(w) ==
  /\ \/ phase[w] = "entry" /\ at[w] = Len(Entries(w))
     \/ phase[w] = "rest"
  /\ End(w, IF Failures(w) THEN "error"
            ELSE IF Cancelled(w) THEN "cancelled" ELSE "ok")
  /\ UNCHANGED <<vars, job, at, asked, cause, verdict>>

BatchStep(w) ==
  \/ Preflight(w) \/ StopForFlag(w) \/ WalkFails(w) \/ MakeFolder(w)
  \/ BeginEntry(w) \/ CallStep(w) \/ Settle(w) \/ Finish(w)

\* Ctrl+C, or the window's cancel button.
Cancel(w) ==
  /\ phase[w] # "ended" /\ ~Cancelled(w)
  /\ asked' = [asked EXCEPT ![w] = IF pc[w] \in Undecoded THEN call[w] - 1 ELSE call[w]]
  /\ UNCHANGED <<vars, job, phase, at, cause, verdict, outcome>>

\* The process dies in the middle of a call; between calls its death leaves
\* what an error leaves.  A batch begun later finds the same identifier in use.
Death(p) ==
  /\ Crash(p)
  /\ LET dead == {w \in Writers : ProcOf[w] = p /\ phase[w] \notin {"idle", "ended"}}
     IN /\ phase' = [w \in Writers |-> IF w \in dead THEN "ended" ELSE phase[w]]
        /\ outcome' = [w \in Writers |-> IF w \in dead THEN "crashed" ELSE outcome[w]]
  /\ UNCHANGED <<job, at, asked, cause, verdict>>

Others(l) == OutsideStep(l) /\ UNCHANGED batchVars

BatchNext ==
  \/ \E w \in Writers : BatchStep(w) \/ Cancel(w)
  \/ \E p \in Procs : Death(p)
  \/ \E l \in Leaves : Others(l)

BatchSpec == BatchInit /\ [][BatchNext]_allVars

\* A batch is a loop in a thread of its own; every call in it returns.
FairBatchSpec == BatchSpec /\ \A w \in Writers : WF_allVars(BatchStep(w))

-----------------------------------------------------------------------------
\* The values the batch's variables range over.
BatchTypeOK ==
  /\ TypeOK
  /\ job \in [Writers -> Jobs]
  /\ phase \in [Writers -> {"idle", "entry", "call", "rest", "ended"}]
  /\ at \in [Writers -> 0..MaxCalls]
  /\ asked \in [Writers -> {NotAsked} \cup 0..MaxCalls]
  /\ cause \in [Writers -> {"none", "flag", "payload", "other"}]
  /\ verdict \in [Writers -> Seq({"ok", "skipped", "failed", "uncounted"})]
  /\ outcome \in [Writers -> {"none", "ok", "error", "cancelled", "crashed"}]

\* A partial extraction is never reported as complete: success means that
\* every entry was extracted or, without overwrite, found in place, and that
\* nobody had asked to stop (decompress.rs:355-384, engine/mod.rs:574-598).
SuccessIsComplete ==
  \A w \in Writers : outcome[w] = "ok" =>
    /\ Len(verdict[w]) = Len(Entries(w)) /\ ~Cancelled(w)
    /\ \A k \in 1..Len(verdict[w]) :
         \/ verdict[w][k] = "ok"
         \/ verdict[w][k] = "skipped" /\ ~job[w].overwrite

\* Nor is less reported than was done: what a finished batch left under a name
\* is an entry it counted as extracted, or the last one of a cancelled batch.
ReportIsTrue ==
  \A w \in Writers, l \in Leaves :
    phase[w] = "ended" /\ outcome[w] # "crashed" /\ leaf[l] # NoFile /\ leaf[l].by = w
      => \E k \in 1..Len(verdict[w]) :
           /\ Entries(w)[k] = l
           /\ \/ verdict[w][k] = "ok"
              \/ outcome[w] = "cancelled" /\ k = at[w]

\* "Cancelled" is kept on the disk: an entry that was not decoded when the user
\* asked to stop never shows under any name, in whatever step of its call, of
\* another batch or of another process the request came.  Only the streaming
\* loop, which does not look at the flag after its last write, may still
\* publish the entry in hand (CancellableWriter, extraction.rs:121).
CancelPublishesNoMore ==
  \A w \in Writers, l \in Leaves :
    Cancelled(w) /\ leaf[l] # NoFile /\ leaf[l].by = w =>
      leaf[l].call <= asked[w] + (IF job[w].loop = "streaming" THEN 1 ELSE 0)

\* Every batch comes to an end, whatever fails, dies or is cancelled.
BatchEnds == \A w \in Writers : phase[w] # "idle" ~> phase[w] = "ended"
=============================================================================
