--------------------------- MODULE ArchiveReading ---------------------------
(***************************************************************************)
(* Listing, extracting, verifying and previewing an archive that other     *)
(* programs may replace or rewrite meanwhile: the operations of the window *)
(* (gui-egui/src/engine/mod.rs), which keep an index of the last listing,  *)
(* and of the command line (decompress.rs, test.rs), over the loops of     *)
(* core/src/archive/mod.rs and the readers of ArchiveReaders.              *)
(*                                                                         *)
(* A version of the archive is a sequence of records in a file, stamped    *)
(* with length and time.  Folders are left out, and a payload stands for   *)
(* itself: what is delivered is the record it was decoded from.            *)
(* Publishing the output is BatchExtraction's subject.                     *)
(***************************************************************************)
EXTENDS ArchiveReaders, Integers, Sequences

CONSTANTS
  Names,       \* the entries' names
  Meta,        \* the name of a record that is no entry
  Shapes,      \* the archives that may be found: sequences of names
  MaxVersions, \* bound: how often the archive changes
  MaxTasks     \* bound: operations begun

ASSUME ReadingAssumption ==
  /\ Meta \notin Names
  /\ Shapes \subseteq Seq(Names \cup {Meta})
  /\ MaxVersions \in Nat /\ MaxTasks \in Nat

VARIABLES
  fmt,     \* the archive's format
  vers,    \* the archive's versions; the last is found under its name
  index,   \* the window's index of its last listing, or NoIndex
  task,    \* the operation under way or last ended
  tasks    \* operations begun

vars == <<fmt, vers, index, task, tasks>>

None == 0
NoIndex == [entries |-> <<>>, stamp |-> None, file |-> None, kept |-> None]
Trailer == 0     \* what follows the last payload, among the parts decoded
Outer == -1      \* the outer container

WindowOps == {"list", "extract", "verify", "preview"}
CliOps    == {"unpack", "test"}

Now     == Len(vers)
Recs(v) == vers[v].names
HasTwins(s) == \E i, j \in 1..Len(s) : i < j /\ s[i] = s[j]
IsEntry(n)  == n # Meta

\* The elements of s that are in keep, in their order.
Only(s, keep) ==
  LET picked[i \in 0..Len(s)] ==
        IF i = 0 THEN <<>>
        ELSE IF s[i] \in keep THEN Append(picked[i - 1], s[i]) ELSE picked[i - 1]
  IN  picked[Len(s)]

EntriesOf(s) == Only(s, Names)
Listed(v)   == EntriesOf(Recs(v))
Has(s, n)   == \E i \in 1..Len(s) : s[i] = n

\* The archives of a format; a stream's entry is named after the file.
Possible(s) ==
  /\ fmt.meta = "none" => \A i \in 1..Len(s) : IsEntry(s[i])
  /\ fmt \in Streams => s = <<CHOOSE n \in Names : TRUE>>

Fresh ==
  [op |-> "list", pc |-> "idle", sel |-> {}, indexed |-> FALSE,
   begun |-> None, cap |-> NoIndex,       \* the index of a listing, or in use
   held |-> None, kept |-> None,          \* version open; stream decoded
   pass |-> None, entries |-> <<>>,       \* version walked; entries listed
   k |-> 1, head |-> 1,                   \* entry; where decoding stands
   read |-> {}, seen |-> <<>>, got |-> {},\* decoded, handled, delivered
   failed |-> FALSE, result |-> "none"]

Init ==
  /\ fmt \in Formats
  /\ \E s \in Shapes :
       Possible(s) /\ vers = <<[names |-> s, stamp |-> 1, file |-> 1]>>
  /\ index = NoIndex
  /\ task = Fresh
  /\ tasks = 0

At(pc) == task.pc = pc
To(t)  == task' = t /\ UNCHANGED <<fmt, vers, index, tasks>>
Go(pc) == [task EXCEPT !.pc = pc]
Ended(t, r) == [t EXCEPT !.pc = "idle", !.result = r]

-----------------------------------------------------------------------------
\* Opening.

\* Faulty: verification makes do with what was decoded for the listing.
SharedAlways(o, ix) == IF ix /\ fmt.cached THEN index.kept ELSE None

\* The decoded stream of the index; verification decodes anew.
Shared(o, ix) ==
  IF ix /\ fmt.cached /\ o # "verify" THEN index.kept ELSE None

\* Only a listing may be wanted of a reader; a selection is the window's.
Begin(o, sel, ix) ==
  /\ At("idle") /\ tasks < MaxTasks
  /\ ix => index # NoIndex /\ o \notin {"list"} \cup CliOps
  /\ o = "preview" => ix /\ \E n \in Names : sel = {n} /\ Has(index.entries, n)
  /\ o \notin {"extract", "preview"} => sel = {}
  /\ o = "unpack" => fmt \notin Streams
  /\ tasks' = tasks + 1
  /\ task' = [Fresh EXCEPT
       !.op = o, !.sel = sel, !.indexed = ix, !.begun = Now,
       !.cap = IF ix THEN index ELSE NoIndex,
       !.entries = IF ix THEN index.entries ELSE <<>>,
       !.kept = Shared(o, ix),
       !.pc = IF o = "list" THEN "capture"
              ELSE IF \/ o \in {"verify", "test"} /\ fmt.outer
                      \/ o = "test" /\ fmt \in Streams THEN "outer"
              ELSE IF ix THEN "stamp"
              ELSE "open"]
  /\ UNCHANGED <<fmt, vers, index>>

\* The whole container, before the archive in it; the command line's test of
\* it, and of a single stream, ends there.
VerifyOuter ==
  /\ At("outer")
  /\ LET done == [task EXCEPT !.read = IF fmt.outer THEN {Outer} ELSE {1}]
     IN To(IF task.op = "test" THEN Ended(done, "ok")
           ELSE [done EXCEPT !.pc = IF task.indexed THEN "stamp" ELSE "open"])

\* ArchiveIndex::capture: length and time, then the file's identity.
CaptureStamp ==
  /\ At("capture")
  /\ To([task EXCEPT !.cap.stamp = vers[Now].stamp, !.pc = "capture2"])

CaptureFile ==
  /\ At("capture2")
  /\ To([task EXCEPT !.cap.file = vers[Now].file, !.pc = "open"])

\* ArchiveIndex::matches, likewise in two looks; the first leads to the second.
MatchesStamp ==
  /\ At("stamp")
  /\ To(IF task.cap.stamp = vers[Now].stamp THEN Go("file")
        ELSE Ended(task, "changed"))

\* Faulty: only length and time are compared.
StampIsEnough(ix) == TRUE
SameFile(ix) == ix.file = vers[Now].file

MatchesFile ==
  /\ At("file")
  /\ IF ~SameFile(task.cap) THEN To(Ended(task, "changed"))
     ELSE IF task.op # "list" THEN To(Go("open"))
     ELSE /\ index' = [task.cap EXCEPT
                         !.entries = task.entries,
                         !.kept = IF fmt.cached THEN task.kept ELSE None]
          /\ task' = Ended(task, "ok")
          /\ UNCHANGED <<fmt, vers, tasks>>

Open ==
  /\ At("open")
  /\ LET opened == [task EXCEPT
           !.held = IF fmt.opens = "reader" THEN Now ELSE None,
           !.read = @ \cup (IF fmt.checks THEN 1..Len(Recs(Now)) ELSE {})]
     IN To(IF fmt.same = "refused" /\ HasTwins(Recs(Now)) THEN Ended(task, "error")
           ELSE IF task.op = "test" /\ fmt.checks THEN Ended(opened, "ok")
           ELSE IF task.indexed \/ (task.op = "test" /\ fmt.walk # "lookup")
             THEN [opened EXCEPT !.pc = "plan"]
           ELSE [opened EXCEPT !.pc = "entries"])

-----------------------------------------------------------------------------
\* Reading.

\* The version a call on the reader reads, and the reader after it.
From ==
  IF fmt \in Streams /\ task.kept # None THEN task.kept
  ELSE IF task.held # None THEN task.held
  ELSE Now

Used ==
  [task EXCEPT
     !.held = IF fmt.opens = "first" THEN From ELSE @,
     !.kept = IF fmt \in Streams THEN From ELSE @,
     !.read = @ \cup (IF fmt \in Streams /\ task.kept = None THEN {1} ELSE {})]

ListEntries ==
  /\ At("entries")
  /\ To([Used EXCEPT !.entries = Listed(From),
                     !.pc = CASE task.op = "list" -> "stamp"
                              [] task.op = "unpack" -> "again"
                              [] OTHER -> "plan"])

\* extract_all_with_cancel lists once more, unless it streams.
ListAgain ==
  /\ At("again")
  /\ LET lists == \/ fmt.own = "7z"
                  \/ fmt.walk \in {"scan", "lookup"} /\ ~fmt.keeps
     IN To([task EXCEPT !.entries = IF lists THEN Listed(From) ELSE @,
                        !.pc = "plan"])

Selected(s, sel) == IF sel = {} THEN s ELSE Only(s, sel)
Sole(sel) == CHOOSE n \in sel : TRUE

\* The entries wanted, and the pass over the archive.
Plan ==
  /\ At("plan")
  /\ LET wanted == IF task.op = "preview" THEN <<Sole(task.sel)>>
                   ELSE Selected(task.entries, task.sel)
     IN To(IF task.sel # {} /\ wanted = <<>> THEN Ended(task, "error")
           ELSE [task EXCEPT
                   !.entries = wanted, !.pc = "walk",
                   !.pass = IF fmt.walk = "lookup" THEN None
                            ELSE IF task.held # None THEN task.held ELSE Now])

ByPosition == fmt.own = "7z" /\ task.op = "unpack"
Decodes    == fmt.walk \in {"drain", "scan"}

\* Faulty: what the visitor left is not decoded.
LeftBehind(t) == [t EXCEPT !.k = @ + 1]

\* On to the next record.  A solid stream is decoded up to it, but not by the
\* in-place extraction of 7z.
Drained(t) ==
  IF Decodes /\ ~ByPosition
  THEN [t EXCEPT !.k = @ + 1, !.head = t.k + 1, !.read = @ \cup {t.k}]
  ELSE [t EXCEPT !.k = @ + 1,
                 !.read = @ \cup (IF fmt.walk = "whole" THEN {t.k} ELSE {})]

\* Faulty: the first record nobody asked for ends the pass.
NoFurther(t) == [t EXCEPT !.k = Len(Recs(t.pass)) + 1]
Passed(t) == Drained(t)

\* The callback is asked: the window's for the entries wanted, the command
\* line's for all, a scan's extraction by the listing.
Asked(n) ==
  /\ n = Meta => fmt.meta = "walked"
  /\ \/ task.op = "test"
     \/ task.op = "unpack" /\ fmt.walk # "scan"
     \/ Has(task.entries, n)

Passing == At("walk") /\ fmt.walk # "lookup" /\ task.k <= Len(Recs(task.pass))

PassBy ==
  /\ Passing /\ ~Asked(Recs(task.pass)[task.k])
  /\ To(Passed(task))

\* In-place extraction pairs the first listing's entries with the second's data.
Paired == ByPosition => task.k <= Len(task.entries)
NameAt ==
  IF ByPosition THEN task.entries[task.k] ELSE Recs(task.pass)[task.k]

\* A preview wants no more after its first entry.
Take ==
  /\ Passing /\ Paired /\ Asked(Recs(task.pass)[task.k])
  /\ LET rec  == IF Decodes THEN task.head ELSE task.k
         took == [task EXCEPT
           !.got  = @ \cup {[name |-> NameAt, ver |-> task.pass, rec |-> rec]},
           !.seen = Append(@, NameAt),
           !.read = @ \cup {rec},
           !.head = rec + 1]
     IN To(IF task.op = "preview" THEN Ended(took, "ok") ELSE Drained(took))

\* What is there already is not replaced; the command line also counts the
\* entries it cannot write, and goes on.
Refuse ==
  /\ task.op \in {"extract", "unpack"}
  /\ Passing /\ Paired /\ Asked(Recs(task.pass)[task.k])
  /\ \E f \in {FALSE, task.op = "unpack"} :
       To(Drained([task EXCEPT !.seen = Append(@, NameAt), !.failed = @ \/ f]))

Unpaired ==
  Passing /\ ~Paired /\ To([task EXCEPT !.k = @ + 1])

\* A lookup by name, in the reader's order.
Found(v, n) ==
  LET hits == {i \in 1..Len(Recs(v)) : Recs(v)[i] = n}
  IN CHOOSE i \in hits :
       \A j \in hits : IF fmt.same = "last" THEN j <= i ELSE i <= j

Looking == At("walk") /\ fmt.walk = "lookup" /\ task.k <= Len(task.entries)

LookUp ==
  /\ Looking /\ Has(Recs(From), task.entries[task.k])
  /\ LET n    == task.entries[task.k]
         took == [Used EXCEPT
           !.got  = @ \cup {[name |-> n, ver |-> From, rec |-> Found(From, n)]},
           !.read = @ \cup (IF fmt \in Streams THEN {} ELSE {Found(From, n)}),
           !.seen = Append(@, n),
           !.k    = @ + 1]
     IN To(IF task.op = "preview" THEN Ended(took, "ok") ELSE took)

RefuseFound ==
  /\ task.op \in {"extract", "unpack"} /\ Looking
  /\ \E f \in {FALSE, task.op = "unpack"} :
       To([task EXCEPT !.seen = Append(@, task.entries[task.k]),
                       !.failed = @ \/ f, !.k = @ + 1])

\* The entry is gone or broken: counted by the command line, else the end.
NotFound ==
  /\ Looking
  /\ To(IF task.op = "unpack" THEN [Used EXCEPT !.failed = TRUE, !.k = @ + 1]
        ELSE Ended(Used, "error"))

Trailing(t) ==
  IF fmt.tail /\ fmt.walk = "drain" THEN [t EXCEPT !.read = @ \cup {Trailer}] ELSE t

Finish ==
  /\ At("walk")
  /\ IF fmt.walk = "lookup" THEN task.k > Len(task.entries)
     ELSE task.k > Len(Recs(task.pass))
  /\ To(Ended(Trailing(task),
              IF task.failed THEN "error"
              ELSE IF task.op = "preview" THEN "changed" ELSE "ok"))

\* A request is seen at one of the checks; the command line's test has none.
Cancelled ==
  task.pc # "idle" /\ task.op # "test" /\ To(Ended(task, "cancelled"))

\* Broken data, or a file that cannot be read.  In-place extraction goes on.
ReadFails ==
  /\ task.pc # "idle"
  /\ To(IF At("walk") /\ ByPosition /\ Passing
        THEN [task EXCEPT !.failed = TRUE, !.k = @ + 1]
        ELSE Ended(task, "error"))

-----------------------------------------------------------------------------
\* Other programs.

\* Another file takes the name; it may have the same length and time.
Replace(s) ==
  /\ Now < MaxVersions /\ Possible(s)
  /\ \E st \in {vers[Now].stamp, Now + 1} :
       vers' = Append(vers, [names |-> s, stamp |-> st, file |-> Now + 1])
  /\ UNCHANGED <<fmt, index, task, tasks>>

\* What is read of a file rewritten under the reader is not modelled; a
\* listing finds out.
InUse ==
  /\ task.op # "list" /\ task.pc \in {"entries", "again", "plan", "walk"}
  /\ task.held # None \/ task.pass # None

\* The file is written anew, which changes its time.
Rewrite(s) ==
  /\ Now < MaxVersions /\ Possible(s) /\ ~InUse
  /\ vers' = Append(vers, [names |-> s, stamp |-> Now + 1, file |-> vers[Now].file])
  /\ UNCHANGED <<fmt, index, task, tasks>>

Next ==
  \/ \E o \in WindowOps \cup CliOps, sel \in SUBSET Names, ix \in BOOLEAN :
       Begin(o, sel, ix)
  \/ VerifyOuter \/ CaptureStamp \/ CaptureFile \/ MatchesStamp \/ MatchesFile
  \/ Open \/ ListEntries \/ ListAgain \/ Plan
  \/ PassBy \/ Take \/ Refuse \/ Unpaired
  \/ LookUp \/ RefuseFound \/ NotFound \/ Finish
  \/ Cancelled \/ ReadFails
  \/ \E s \in Shapes : Replace(s) \/ Rewrite(s)

Spec == Init /\ [][Next]_vars

-----------------------------------------------------------------------------
\* Properties.

\* The index that the window keeps, and the decoded stream shared with it, are
\* those of the very version whose length, time and identity it records,
\* whatever took the archive's place while it was listed (engine::list).
IndexIsOneVersion ==
  index # NoIndex =>
    \E v \in 1..Now :
      /\ vers[v].stamp = index.stamp /\ vers[v].file = index.file
      /\ index.entries = Listed(v)
      /\ index.kept \in {None, v}

\* What is delivered under a name is a payload of that name, in the version it
\* was read from: skipped and refused payloads of a solid stream are decoded
\* before the next one (visit_tar_archive, SevenZipReader::visit_entries).
\* In-place extraction of 7z is excepted: after a refused entry it decodes on from
\* where it stands (seven_zip.rs:717).
DeliveredIsOwn ==
  \A d \in task.got :
    ByPosition \/ Recs(d.ver)[d.rec] = d.name

\* An operation that succeeds on an archive that did not change has handled
\* every entry it was asked for, in the archive's order and each just once.
SuccessIsWhole ==
  task.result = "ok" /\ task.begun = Now =>
    CASE task.op \in {"extract", "unpack"} ->
           EntriesOf(task.seen) = Selected(Listed(Now), task.sel)
      [] task.op = "preview" -> {task.seen} = {<<n>> : n \in task.sel}
      [] OTHER -> TRUE

\* The parts of the current version that a verification can reach: for lookups
\* by name, of two entries of one name only one.
Reachable ==
  {i \in 1..Len(Recs(Now)) :
     /\ IsEntry(Recs(Now)[i])
     /\ fmt.walk = "lookup" => i = Found(Now, Recs(Now)[i])}

\* A verification that succeeds on an archive that did not change has decoded
\* from disk every payload, the trailer of the codec and the outer container:
\* nothing kept from the listing stands in for them (engine::verify, run_verify).
VerifiedIsWhole ==
  task.op \in {"verify", "test"} /\ task.result = "ok" /\ task.begun = Now =>
    /\ fmt.outer => Outer \in task.read
    /\ fmt.outer /\ task.op = "test" => task.read = {Outer}
    /\ ~(fmt.outer /\ task.op = "test") => Reachable \subseteq task.read
    /\ fmt.tail => Trailer \in task.read

=============================================================================
