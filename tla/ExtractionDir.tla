--------------------------- MODULE ExtractionDir ---------------------------
(***************************************************************************)
(* How extracted entries reach the disk: ExtractionDir::write_file         *)
(* (crates/core/src/archive/extraction.rs).                                *)
(*                                                                         *)
(* Several extractions may share one destination: the command line and the *)
(* window, two windows, the threads of one process.  A writer is one of    *)
(* them; it makes calls of write_file one after the other.  Every system   *)
(* call on the destination is a step of its own, and between two steps     *)
(* anything may happen there: another writer's step, the user creating,    *)
(* replacing or deleting a file, the death of a whole process.             *)
(*                                                                         *)
(* A file is its identity (who made it, in which call), so that two names  *)
(* hard-linked to one file are the same value; written holds the files     *)
(* whose content is complete.                                              *)
(***************************************************************************)
EXTENDS Integers, FiniteSets

CONSTANTS
  Procs,        \* processes, one per live process identifier
  Writers,      \* extractions that call write_file
  ProcOf,       \* the process each writer runs in
  Leaves,       \* names of entries in the destination directory
  Outside,      \* the user and every other program
  NoFile,       \* an unused name
  HardLinks,    \* FALSE on FAT and some network filesystems
  CleanupFails, \* TRUE if a best-effort remove_file may fail
  MaxCalls,     \* bound: calls of write_file per writer
  MaxSerial,    \* bound: NEXT_TEMP, a 64-bit counter in the code
  MaxOutside,   \* bound: changes made by Outside
  MaxCrashes    \* bound: deaths of a process

Calls   == 1..MaxCalls
Serials == 0..MaxSerial
TempNames == Procs \X Serials

\* A writer's file is the temporary one or, where hard links are missing, the
\* copy made under the final name; the user's may be symbolic links.
Files == [by : Writers, call : Calls, kind : {"temp", "copy"}]
           \cup [by : {Outside}, call : 0..MaxOutside, kind : {"file", "link"}]

\* A file that was in the destination before any writer came.
Existing == [by |-> Outside, call |-> 0, kind |-> "file"]

ASSUME ConstantsAssumption ==
  /\ ProcOf \in [Writers -> Procs]
  /\ Outside \notin Writers
  /\ NoFile \notin Files
  /\ HardLinks \in BOOLEAN /\ CleanupFails \in BOOLEAN
  /\ MaxCalls \in Nat /\ MaxSerial \in Nat
  /\ MaxOutside \in Nat /\ MaxCrashes \in Nat

VARIABLES
  leaf,      \* the destination: what each entry name holds
  temp,      \* what each name .geezipx-{pid}-{serial}.tmp holds
  written,   \* files whose content is complete
  next,      \* NEXT_TEMP of each process
  pc,        \* where each writer is in write_file
  call,      \* calls each writer has begun
  target,    \* the entry name of the current call
  overwrite, \* its overwrite flag
  serial,    \* the serial it took last
  result,    \* what the last call returned
  outs,      \* changes made by Outside
  crashes    \* processes that died

fsVars   == <<leaf, temp, written>>
argVars  == <<call, target, overwrite>>
envVars  == <<outs, crashes>>
vars == <<leaf, temp, written, next, pc, call, target, overwrite, serial,
          result, outs, crashes>>

\* The calls that own a temporary name (PendingFile exists).
Guarded == {"write", "publish", "fallback", "copy", "unpublish", "drop"}
PCs == {"idle", "parent", "link", "free", "serial", "create"} \cup Guarded
Results == {"none", "ok", "clobber", "traversal", "error", "crashed"}

TempName(w) == <<ProcOf[w], serial[w]>>
TempFile(w) == [by |-> w, call |-> call[w], kind |-> "temp"]
CopyFile(w) == [by |-> w, call |-> call[w], kind |-> "copy"]

IsLink(f) == f # NoFile /\ f.kind = "link"
Whole(f)  == f \in written \/ f.by = Outside

-----------------------------------------------------------------------------
Init ==
  /\ leaf \in [Leaves -> {NoFile, Existing}]
  /\ temp = [n \in TempNames |-> NoFile]
  /\ written = {}
  /\ next = [p \in Procs |-> 0]
  /\ pc = [w \in Writers |-> "idle"]
  /\ call = [w \in Writers |-> 0]
  /\ target \in [Writers -> Leaves]
  /\ overwrite = [w \in Writers |-> FALSE]
  /\ serial = [w \in Writers |-> 0]
  /\ result = [w \in Writers |-> "none"]
  /\ outs = 0
  /\ crashes = 0

Goto(w, label) ==
  /\ pc' = [pc EXCEPT ![w] = label]
  /\ UNCHANGED result

\* An early return before the temporary file exists: nothing to clean up.
Return(w, r) ==
  /\ pc' = [pc EXCEPT ![w] = "idle"]
  /\ result' = [result EXCEPT ![w] = r]

\* A return that first drops the PendingFile guard.
ReturnGuarded(w, r) ==
  /\ pc' = [pc EXCEPT ![w] = "drop"]
  /\ result' = [result EXCEPT ![w] = r]

\* The caller extracts an entry.
Begin(w, l, o) ==
  /\ pc[w] = "idle" /\ call[w] < MaxCalls
  /\ call' = [call EXCEPT ![w] = @ + 1]
  /\ target' = [target EXCEPT ![w] = l]
  /\ overwrite' = [overwrite EXCEPT ![w] = o]
  /\ Goto(w, "parent")
  /\ UNCHANGED <<fsVars, next, serial, envVars>>

\* relative_path, file_name and create_dir: the name may be refused, a parent
\* may be a link, the directory may not be creatable.
CreateParent(w) ==
  /\ pc[w] = "parent"
  /\ \/ Goto(w, "link")
     \/ Return(w, "traversal")
     \/ Return(w, "error")
  /\ UNCHANGED <<fsVars, next, argVars, serial, envVars>>

RejectLink(w) ==
  /\ pc[w] = "link"
  /\ \/ ~IsLink(leaf[target[w]]) /\ Goto(w, "free")
     \/ IsLink(leaf[target[w]]) /\ Return(w, "traversal")
     \/ Return(w, "error")
  /\ UNCHANGED <<fsVars, next, argVars, serial, envVars>>

\* The destination is looked at long before it is written.
CheckFree(w) ==
  /\ pc[w] = "free"
  /\ LET taken == ~overwrite[w] /\ leaf[target[w]] # NoFile
     IN \/ ~taken /\ Goto(w, "serial")
        \/ taken /\ Return(w, "clobber")
        \/ Return(w, "error")
  /\ UNCHANGED <<fsVars, next, argVars, serial, envVars>>

\* Faulty: the counter is read but not advanced.
TakeSerialStuck(w) ==
  /\ pc[w] = "serial"
  /\ serial' = [serial EXCEPT ![w] = next[ProcOf[w]]]
  /\ Goto(w, "create")
  /\ UNCHANGED <<fsVars, next, argVars, envVars>>

\* NEXT_TEMP.fetch_add, shared by the threads of the process.
TakeSerial(w) ==
  /\ pc[w] = "serial"
  /\ next[ProcOf[w]] \in Serials
  /\ serial' = [serial EXCEPT ![w] = next[ProcOf[w]]]
  /\ next' = [next EXCEPT ![ProcOf[w]] = @ + 1]
  /\ Goto(w, "create")
  /\ UNCHANGED <<fsVars, argVars, envVars>>

\* Faulty: a name in use is tried again.
CreateTempAgain(w) ==
  /\ pc[w] = "create"
  /\ temp[TempName(w)] = NoFile
  /\ temp' = [temp EXCEPT ![TempName(w)] = TempFile(w)]
  /\ Goto(w, "write")
  /\ UNCHANGED <<leaf, written, next, argVars, serial, envVars>>

\* create_new: a name left behind by a dead process is skipped.
CreateTemp(w) ==
  /\ pc[w] = "create"
  /\ \/ /\ temp[TempName(w)] # NoFile
        /\ Goto(w, "serial")
        /\ UNCHANGED temp
     \/ /\ temp[TempName(w)] = NoFile
        /\ temp' = [temp EXCEPT ![TempName(w)] = TempFile(w)]
        /\ Goto(w, "write")
     \/ Return(w, "error") /\ UNCHANGED temp
  /\ UNCHANGED <<leaf, written, next, argVars, serial, envVars>>

\* The entry is decoded into the temporary file and flushed; a bad archive, a
\* full disk or a cancellation leaves it incomplete.
WriteTemp(w) ==
  /\ pc[w] = "write"
  /\ \/ written' = written \cup {TempFile(w)} /\ Goto(w, "publish")
     \/ ReturnGuarded(w, "error") /\ UNCHANGED written
  /\ UNCHANGED <<leaf, temp, next, argVars, serial, envVars>>

\* Faulty: the old file is deleted before the rename that may fail.
RenameDeletesFirst(w) ==
  /\ pc[w] = "publish" /\ overwrite[w]
  /\ \/ /\ temp[TempName(w)] # NoFile
        /\ leaf' = [leaf EXCEPT ![target[w]] = temp[TempName(w)]]
        /\ temp' = [temp EXCEPT ![TempName(w)] = NoFile]
        /\ ReturnGuarded(w, "ok")
     \/ /\ leaf' = [leaf EXCEPT ![target[w]] = NoFile]
        /\ ReturnGuarded(w, "error")
        /\ UNCHANGED temp
  /\ UNCHANGED <<written, next, argVars, serial, envVars>>

\* With overwrite the temporary file takes the name, whatever holds it.
Rename(w) ==
  /\ pc[w] = "publish" /\ overwrite[w]
  /\ \/ /\ temp[TempName(w)] # NoFile
        /\ leaf' = [leaf EXCEPT ![target[w]] = temp[TempName(w)]]
        /\ temp' = [temp EXCEPT ![TempName(w)] = NoFile]
        /\ ReturnGuarded(w, "ok")
     \/ ReturnGuarded(w, "error") /\ UNCHANGED <<leaf, temp>>
  /\ UNCHANGED <<written, next, argVars, serial, envVars>>

\* Without it a hard link takes the name only if the name is unused.
HardLink(w) ==
  /\ pc[w] = "publish" /\ ~overwrite[w]
  /\ \/ /\ leaf[target[w]] # NoFile
        /\ ReturnGuarded(w, "clobber")
        /\ UNCHANGED leaf
     \/ /\ leaf[target[w]] = NoFile /\ temp[TempName(w)] # NoFile
        /\ leaf' = [leaf EXCEPT ![target[w]] = temp[TempName(w)]]
        /\ ReturnGuarded(w, "ok")
     \/ /\ ~HardLinks \/ temp[TempName(w)] = NoFile
        /\ Goto(w, "fallback")
        /\ UNCHANGED leaf
  /\ UNCHANGED <<temp, written, next, argVars, serial, envVars>>

\* No hard links: the final name is created empty, exclusively ...
CreateOutput(w) ==
  /\ pc[w] = "fallback"
  /\ \/ /\ leaf[target[w]] # NoFile
        /\ ReturnGuarded(w, "clobber")
        /\ UNCHANGED leaf
     \/ /\ leaf[target[w]] = NoFile
        /\ leaf' = [leaf EXCEPT ![target[w]] = CopyFile(w)]
        /\ Goto(w, "copy")
     \/ ReturnGuarded(w, "error") /\ UNCHANGED leaf
  /\ UNCHANGED <<temp, written, next, argVars, serial, envVars>>

\* Faulty: the error of the copy is returned at once.
CopyOutputKeeps(w) ==
  /\ pc[w] = "copy"
  /\ \/ /\ temp[TempName(w)] # NoFile
        /\ written' = written \cup {CopyFile(w)}
        /\ ReturnGuarded(w, "ok")
     \/ ReturnGuarded(w, "error") /\ UNCHANGED written
  /\ UNCHANGED <<leaf, temp, next, argVars, serial, envVars>>

\* ... filled from the temporary file ...
CopyOutput(w) ==
  /\ pc[w] = "copy"
  /\ \/ /\ temp[TempName(w)] # NoFile
        /\ written' = written \cup {CopyFile(w)}
        /\ ReturnGuarded(w, "ok")
     \/ Goto(w, "unpublish") /\ UNCHANGED written
  /\ UNCHANGED <<leaf, temp, next, argVars, serial, envVars>>

\* Faulty: the temporary file is removed instead.
RemoveOutputMisnamed(w) ==
  /\ pc[w] = "unpublish"
  /\ temp' = [temp EXCEPT ![TempName(w)] = NoFile]
  /\ ReturnGuarded(w, "error")
  /\ UNCHANGED <<leaf, written, next, argVars, serial, envVars>>

\* ... and removed, by name, if that fails.
RemoveOutput(w) ==
  /\ pc[w] = "unpublish"
  /\ \/ leaf' = [leaf EXCEPT ![target[w]] = NoFile]
     \/ CleanupFails /\ UNCHANGED leaf
  /\ ReturnGuarded(w, "error")
  /\ UNCHANGED <<temp, written, next, argVars, serial, envVars>>

\* PendingFile::drop, then write_file returns.
DropGuard(w) ==
  /\ pc[w] = "drop"
  /\ \/ temp' = [temp EXCEPT ![TempName(w)] = NoFile]
     \/ CleanupFails /\ UNCHANGED temp
  /\ Goto(w, "idle")
  /\ UNCHANGED <<leaf, written, next, argVars, serial, envVars>>

\* The process dies: no guard runs, and a new process may get its identifier.
Crash(p) ==
  /\ crashes < MaxCrashes
  /\ \E w \in Writers : ProcOf[w] = p /\ pc[w] # "idle"
  /\ crashes' = crashes + 1
  /\ next' = [next EXCEPT ![p] = 0]
  /\ pc' = [w \in Writers |-> IF ProcOf[w] = p THEN "idle" ELSE pc[w]]
  /\ result' = [w \in Writers |->
       IF ProcOf[w] = p /\ pc[w] # "idle" THEN "crashed" ELSE result[w]]
  /\ UNCHANGED <<fsVars, argVars, serial, outs>>

\* The user puts a file or a link in place, or deletes what is there.
OutsideCreate(l, kind) ==
  /\ outs < MaxOutside
  /\ outs' = outs + 1
  /\ leaf' = [leaf EXCEPT ![l] =
                [by |-> Outside, call |-> outs + 1, kind |-> kind]]
  /\ UNCHANGED <<temp, written, next, pc, argVars, serial, result, crashes>>

OutsideRemove(l) ==
  /\ outs < MaxOutside /\ leaf[l] # NoFile
  /\ outs' = outs + 1
  /\ leaf' = [leaf EXCEPT ![l] = NoFile]
  /\ UNCHANGED <<temp, written, next, pc, argVars, serial, result, crashes>>

\* The steps of one call once it has begun.
Step(w) ==
  \/ CreateParent(w) \/ RejectLink(w) \/ CheckFree(w)
  \/ TakeSerial(w) \/ CreateTemp(w) \/ WriteTemp(w)
  \/ Rename(w) \/ HardLink(w) \/ CreateOutput(w) \/ CopyOutput(w)
  \/ RemoveOutput(w) \/ DropGuard(w)

OutsideStep(l) ==
  \/ \E kind \in {"file", "link"} : OutsideCreate(l, kind)
  \/ OutsideRemove(l)

Next ==
  \/ \E w \in Writers, l \in Leaves, o \in BOOLEAN : Begin(w, l, o)
  \/ \E w \in Writers : Step(w)
  \/ \E p \in Procs : Crash(p)
  \/ \E l \in Leaves : OutsideStep(l)

Spec == Init /\ [][Next]_vars

-----------------------------------------------------------------------------
\* The values every variable ranges over.
TypeOK ==
  /\ leaf \in [Leaves -> Files \cup {NoFile}]
  /\ temp \in [TempNames -> Files \cup {NoFile}]
  /\ written \in SUBSET Files
  /\ next \in [Procs -> Nat]
  /\ pc \in [Writers -> PCs]
  /\ call \in [Writers -> 0..MaxCalls]
  /\ target \in [Writers -> Leaves]
  /\ overwrite \in [Writers -> BOOLEAN]
  /\ serial \in [Writers -> Serials]
  /\ result \in [Writers -> Results]
  /\ outs \in 0..MaxOutside
  /\ crashes \in 0..MaxCrashes

\* While write_file runs, the temporary name it created holds its own file
\* (or nothing, once renamed): neither a thread of the same process, nor
\* another process, nor the leavings of a dead one are ever mixed with it.
OwnTemp ==
  \A w \in Writers : pc[w] \in Guarded =>
    temp[TempName(w)] \in {TempFile(w)} \cup
                          (IF pc[w] = "drop" THEN {NoFile} ELSE {})

\* "publishing it only after success" (extraction.rs:82): what an entry name
\* shows is a complete file, even if the process dies at any point.
PublishedWhole == \A l \in Leaves : leaf[l] # NoFile => Whole(leaf[l])

\* A call that reported a failure left nothing of its own under any entry
\* name: a skipped, failed or cancelled entry is not on the disk.
FailureLeavesNothing ==
  \A w \in Writers, l \in Leaves :
    call[w] > 0 /\ pc[w] = "idle" /\ result[w] \notin {"ok", "crashed"} =>
      leaf[l] \notin {TempFile(w), CopyFile(w)}

\* "A failed or cancelled writer never replaces an existing destination file"
\* (extraction.rs:4), nor does one without overwrite: a file disappears from
\* its name only by the user's hand or under a successful overwriting rename.
KeepsExisting ==
  [][\A l \in Leaves : leaf[l] # NoFile /\ leaf'[l] # leaf[l] =>
       \/ outs' # outs
       \/ \E w \in Writers :
            /\ pc[w] = "publish" /\ overwrite[w] /\ target[w] = l
            /\ leaf'[l] = TempFile(w) /\ result'[w] = "ok"]_vars

=============================================================================
