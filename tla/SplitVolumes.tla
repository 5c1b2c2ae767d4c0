---------------------------- MODULE SplitVolumes ----------------------------
(***************************************************************************)
(* A split archive on the disk: split_output_into_volumes, which publishes *)
(* base.001, base.002, ... one by one (crates/cli/src/commands/            *)
(* compress.rs), and MultiVolumeReader::open, which finds out how many     *)
(* there are (crates/core/src/volume.rs).                                  *)
(*                                                                         *)
(* Several commands may split to one name at the same time, be cancelled,  *)
(* fail or die; readers may look at any moment.  A volume is the command   *)
(* that made it: what it holds is settled by that and by its number.       *)
(***************************************************************************)
EXTENDS Integers, FiniteSets

CONSTANTS
  Splitters,    \* commands that split to the same output
  Readers,      \* commands that open the set at base.001
  Outside,      \* the user and every other program
  NoFile,       \* an unused name
  CleanupFails, \* TRUE if a best-effort remove_file may fail
  MaxVolumes,   \* bound: volumes of a set
  MaxOutside,   \* bound: changes made by Outside
  MaxCrashes    \* bound: commands that die

Volumes == 1..MaxVolumes

ASSUME SplitAssumption ==
  /\ Outside \notin Splitters
  /\ NoFile \notin Splitters \cup {Outside}
  /\ CleanupFails \in BOOLEAN
  /\ MaxVolumes \in Nat /\ MaxOutside \in Nat /\ MaxCrashes \in Nat

VARIABLES
  vol,     \* who made the volume of each number
  pc,      \* where each splitter is
  size,    \* how many volumes its archive takes
  sent,    \* how many it has published
  undone,  \* how many of these it has taken back
  rpc,     \* where each reader is
  found,   \* the volumes it has seen so far
  outs,    \* changes made by Outside
  crashes  \* commands that died

splitVars  == <<pc, size, sent, undone>>
readVars   == <<rpc, found>>
vars == <<vol, pc, size, sent, undone, rpc, found, outs, crashes>>

\* "whole": the archive fits in one file and is not split.
Settled == {"idle", "whole", "done", "failed", "crashed"}

Init ==
  /\ vol = [v \in Volumes |-> NoFile]
  /\ pc = [s \in Splitters |-> "idle"]
  /\ size = [s \in Splitters |-> 0]
  /\ sent = [s \in Splitters |-> 0]
  /\ undone = [s \in Splitters |-> 0]
  /\ rpc = [r \in Readers |-> "idle"]
  /\ found = [r \in Readers |-> 0]
  /\ outs = 0 /\ crashes = 0

Goto(s, label) == pc' = [pc EXCEPT ![s] = label]
Present == {v \in Volumes : vol[v] # NoFile}

-----------------------------------------------------------------------------
\* The archive is complete in its temporary file, of a size that is known.
Begin(s, n) ==
  /\ pc[s] = "idle"
  /\ size' = [size EXCEPT ![s] = n]
  /\ Goto(s, IF n = 1 THEN "whole" ELSE "scan")
  /\ UNCHANGED <<vol, sent, undone, readVars, outs, crashes>>

\* "Refuse old sets, including stale trailing volumes from a previous split."
Scan(s) ==
  /\ pc[s] = "scan"
  /\ \/ Present = {} /\ Goto(s, "stage")
     \/ Goto(s, "failed")
  /\ UNCHANGED <<vol, size, sent, undone, readVars, outs, crashes>>

\* MultiVolumeWriter fills a private directory; nothing shows yet.
Stage(s) ==
  /\ pc[s] = "stage"
  /\ \/ Goto(s, "publish")
     \/ Goto(s, "failed")
  /\ UNCHANGED <<vol, size, sent, undone, readVars, outs, crashes>>

\* After a failure or a cancellation; with nothing published there is nothing to
\* take back.
Abandon(s) == Goto(s, IF sent[s] = 0 THEN "failed" ELSE "undo")

\* Faulty variant: a volume that is already there counts as published.
PublishSkips(s) ==
  LET v == sent[s] + 1
  IN /\ pc[s] = "publish"
     /\ vol' = IF vol[v] = NoFile THEN [vol EXCEPT ![v] = s] ELSE vol
     /\ sent' = [sent EXCEPT ![s] = v]
     /\ Goto(s, IF v = size[s] THEN "done" ELSE "publish")
     /\ UNCHANGED <<size, undone, readVars, outs, crashes>>

\* One turn of the loop: a cancellation is noticed before the exclusive rename,
\* the rename succeeds, or it fails.
Publish(s) ==
  LET v == sent[s] + 1
  IN /\ pc[s] = "publish"
     /\ \/ /\ vol[v] = NoFile
           /\ vol' = [vol EXCEPT ![v] = s]
           /\ sent' = [sent EXCEPT ![s] = v]
           /\ Goto(s, IF v = size[s] THEN "done" ELSE "publish")
        \/ Abandon(s) /\ UNCHANGED <<vol, sent>>
     /\ UNCHANGED <<size, undone, readVars, outs, crashes>>

\* Faulty variant: the roll back stops one short.
UndoShort(s) ==
  LET v == undone[s] + 1
  IN /\ pc[s] = "undo"
     /\ vol' = IF v < sent[s] THEN [vol EXCEPT ![v] = NoFile] ELSE vol
     /\ undone' = [undone EXCEPT ![s] = v]
     /\ Goto(s, IF v = sent[s] THEN "failed" ELSE "undo")
     /\ UNCHANGED <<size, sent, readVars, outs, crashes>>

\* The roll back removes by name, in the order of publication.
Undo(s) ==
  LET v == undone[s] + 1
  IN /\ pc[s] = "undo"
     /\ \/ vol' = [vol EXCEPT ![v] = NoFile]
        \/ CleanupFails /\ UNCHANGED vol
     /\ undone' = [undone EXCEPT ![s] = v]
     /\ Goto(s, IF v = sent[s] THEN "failed" ELSE "undo")
     /\ UNCHANGED <<size, sent, readVars, outs, crashes>>

Crash(s) ==
  /\ crashes < MaxCrashes /\ pc[s] \notin Settled
  /\ crashes' = crashes + 1
  /\ Goto(s, "crashed")
  /\ UNCHANGED <<vol, size, sent, undone, readVars, outs>>

-----------------------------------------------------------------------------
\* discover_volumes asks for one name after the other, then scans for a gap.
StartRead(r) ==
  /\ rpc[r] = "idle"
  /\ rpc' = [rpc EXCEPT ![r] = "look"]
  /\ found' = [found EXCEPT ![r] = 0]
  /\ UNCHANGED <<vol, splitVars, outs, crashes>>

Look(r) ==
  LET v == found[r] + 1
  IN /\ rpc[r] = "look"
     /\ \/ v \in Present /\ found' = [found EXCEPT ![r] = v] /\ UNCHANGED rpc
        \/ v \notin Present /\ rpc' = [rpc EXCEPT ![r] = "scan"] /\ UNCHANGED found
  /\ UNCHANGED <<vol, splitVars, outs, crashes>>

\* A number beyond the missing one is a gap; one volume alone is not a set.
ScanLater(r) ==
  /\ rpc[r] = "scan"
  /\ LET gap == \E v \in Present : v > found[r] + 1
     IN rpc' = [rpc EXCEPT ![r] = IF gap \/ found[r] < 2 THEN "error" ELSE "open"]
  /\ UNCHANGED <<vol, splitVars, found, outs, crashes>>

EndRead(r) ==
  /\ rpc[r] \in {"open", "error"}
  /\ rpc' = [rpc EXCEPT ![r] = "idle"]
  /\ UNCHANGED <<vol, splitVars, found, outs, crashes>>

-----------------------------------------------------------------------------
\* Every other program.
OutsideChange(v) ==
  /\ outs < MaxOutside
  /\ outs' = outs + 1
  /\ \/ vol[v] = NoFile /\ vol' = [vol EXCEPT ![v] = Outside]
     \/ vol[v] # NoFile /\ vol' = [vol EXCEPT ![v] = NoFile]
  /\ UNCHANGED <<splitVars, readVars, crashes>>

SplitStep(s) ==
  (\E n \in Volumes : Begin(s, n)) \/ Scan(s) \/ Stage(s) \/ Publish(s) \/ Undo(s)
ReadStep(r)  == StartRead(r) \/ Look(r) \/ ScanLater(r) \/ EndRead(r)

Next ==
  \/ \E s \in Splitters : SplitStep(s) \/ Crash(s)
  \/ \E r \in Readers : ReadStep(r)
  \/ \E v \in Volumes : OutsideChange(v)

Spec == Init /\ [][Next]_vars

-----------------------------------------------------------------------------
(* Properties.                                                             *)

\* The types of the variables.
TypeOK ==
  /\ vol \in [Volumes -> Splitters \cup {Outside, NoFile}]
  /\ pc \in [Splitters -> Settled \cup {"scan", "stage", "publish", "undo"}]
  /\ size \in [Splitters -> 0..MaxVolumes]
  /\ sent \in [Splitters -> 0..MaxVolumes]
  /\ undone \in [Splitters -> 0..MaxVolumes]
  /\ rpc \in [Readers -> {"idle", "look", "scan", "open", "error"}]
  /\ found \in [Readers -> 0..MaxVolumes]
  /\ outs \in 0..MaxOutside /\ crashes \in 0..MaxCrashes

\* When every command has come to its end, and none died and nobody interfered,
\* the volumes on the disk are one complete set, that of the command which
\* reported success, or there are none: two splits to one name never leave a mix,
\* whatever their order, their failures and their cancellations.
SettledIsOneSet ==
  crashes = 0 /\ outs = 0 /\ (\A s \in Splitters : pc[s] \in Settled) =>
    \/ Present = {} /\ \A s \in Splitters : pc[s] # "done"
    \/ \E s \in Splitters :
         /\ pc[s] = "done" /\ \A t \in Splitters \ {s} : pc[t] # "done"
         /\ vol = [v \in Volumes |-> IF v <= size[s] THEN s ELSE NoFile]

\* A reported success means that the whole set is in place and stays there: neither
\* a later split to the name nor the roll back of a competing one takes a volume.
SuccessIsWhole ==
  \A s \in Splitters : pc[s] = "done" /\ outs = 0 =>
    \A v \in 1..size[s] : vol[v] = s

\* "Publish exclusively": a volume that exists is never overwritten; and it is
\* only taken away by the roll back of the command that made it, as long as no
\* other program puts its files under these names.
VolumesKept ==
  [][\A v \in Volumes : vol[v] # NoFile /\ vol'[v] # vol[v] =>
       \/ outs' # outs
       \/ /\ vol'[v] = NoFile
          /\ outs = 0 => pc[vol[v]] = "undo"]_vars

=============================================================================
