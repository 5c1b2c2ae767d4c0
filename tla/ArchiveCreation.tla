-------------------------- MODULE ArchiveCreation --------------------------
(***************************************************************************)
(* Creating an archive from files that change meanwhile: the window's      *)
(* compress (gui-egui/src/engine/mod.rs) and the command line's archive    *)
(* mode (cli compress.rs, common.rs), over the writers of ArchiveWriters;  *)
(* and a "library" client that, like the writers' tests, goes on after an  *)
(* entry failed.                                                           *)
(*                                                                         *)
(* A file is its blocks, of which only the number changes; an archive is   *)
(* the sequence of heads, blocks and the closing part that has reached the *)
(* temporary file.  Volumes, the command line's cancellation and crashes   *)
(* between its publications are CliOutput's and SplitVolumes' subjects.    *)
(***************************************************************************)
EXTENDS ArchiveWriters, Integers, SequencesExt

CONSTANTS
  Paths,      \* the paths that may exist: nonempty sequences of names
  Trees,      \* what may be found there: functions from Paths to kinds
  Lengths,    \* the files' lengths, in blocks
  LinkTo,     \* where every symbolic link leads
  Requests,   \* [client, sources, output, replace, sfx, recursive]
  PipeCap,    \* bound: what the pipe to an encoder holds
  BatchCap,   \* bound: staged entries of a batch
  MaxChanges  \* bound: changes other programs make

Kinds == {"file", "dir", "link", "special", "none"}

\* What paths and the names of entries are made of.
Steps == UNION {Range(p) : p \in Paths}

ASSUME CreationAssumption ==
  /\ IsFiniteSet(Paths) /\ Paths \subseteq Seq(Steps) \ {<<>>}
  /\ Requests \subseteq [client : {"window", "cli", "library"}, sources : Seq(Paths),
                         output : Paths, replace : BOOLEAN, sfx : BOOLEAN,
                         recursive : BOOLEAN]
  /\ Trees \subseteq [Paths -> Kinds]
  /\ LinkTo \in Paths /\ Lengths \subseteq Nat
  /\ PipeCap \in Nat \ {0} /\ BatchCap \in Nat \ {0} /\ MaxChanges \in Nat

\* What exists does so in a folder.
IsTree(t) ==
  \A p \in Paths : t[p] # "none" =>
    \A n \in 1..Len(p) - 1 : SubSeq(p, 1, n) \in Paths /\ t[SubSeq(p, 1, n)] = "dir"

ASSUME TreeAssumption == \A t \in Trees : IsTree(t)

VARIABLES
  req,       \* the request
  wr,        \* the writer's format
  kind,      \* what is at a path
  len,       \* the blocks of the file at a path, or once opened there
  changes,   \* changes other programs made
  cancelled, \* the user asked the window to stop
  job,       \* the operation
  staged,    \* what the writer holds back: pool, entries, write position
  pipe,      \* what the encoder has not read yet
  enc,       \* the encoder's thread
  tape,      \* what has reached the temporary file
  made       \* the archive under the output's name, or Nothing

files  == <<kind, len, changes>>
writer == <<staged, pipe, enc, tape>>
creationVars == <<req, wr, files, cancelled, job, writer, made>>

Nothing == <<>>
Closing == [tag |-> "end"]
Stub    == [tag |-> "stub"]
Block(p, i) == [tag |-> "block", path |-> p, at |-> i]
Header(n, s) == [tag |-> "head", name |-> n, size |-> s]
Folder(n)   == [tag |-> "dir", name |-> n]
Blocks(p, n) == [i \in 1..n |-> Block(p, i)]

Children(p) == {c \in Paths : c # <<>> /\ kind[c] # "none" /\ Front(c) = p}
Window == req.client = "window"
Inputs == job.inputs
Input  == Inputs[job.k]

CreationInit ==
  /\ req \in Requests /\ wr \in Writers
  /\ req.sfx => wr = ZipWriter
  /\ req.client = "library" => wr \in Recovering
  /\ wr.single => req.client = "window"
  /\ kind \in Trees
  /\ \E n \in Lengths : len = [p \in Paths |-> n]
  /\ changes = 0 /\ cancelled = FALSE
  /\ job = [pc |-> IF Window THEN "validate" ELSE "collect", stack |-> <<>>,
            left |-> req.sources, late |-> <<>>, inputs |-> <<>>,
            k |-> 1, pos |-> 0, lost |-> {}, result |-> "none"]
  /\ staged = [pool |-> <<>>, entries |-> <<>>, batch |-> <<>>,
               used |-> 0, broken |-> FALSE]
  /\ pipe = <<>> /\ enc = "running"
  /\ tape = <<>> /\ made = Nothing

At(pc) == job.pc = pc
Go(pc) == job' = [job EXCEPT !.pc = pc]
\* An early return: the temporary files go, and the pipe is closed.
Fail   == job' = [job EXCEPT !.pc = "over", !.result = "failed"]

-----------------------------------------------------------------------------
\* The window's check of the request, and its walk.

Covered(s) == \E d \in ToSet(req.sources) : kind[d] = "dir" /\ IsStrictPrefix(d, s)

OutputInside ==
  \E s \in ToSet(req.sources) :
    s = req.output \/ (kind[s] = "dir" /\ IsPrefix(s, Front(req.output)))

Validate ==
  /\ At("validate")
  /\ IF \/ kind[req.output] \notin {"none", "file"}
        \/ kind[req.output] = "file" /\ ~req.replace
        \/ OutputInside
        \/ wr.single /\ (Len(req.sources) # 1 \/ kind[req.sources[1]] # "file")
     THEN Fail ELSE Go("roots")
  /\ UNCHANGED <<req, wr, files, cancelled, writer, made>>

\* Links and special files are left out, and what another source contains.
Roots ==
  /\ At("roots")
  /\ LET tops == {s \in ToSet(req.sources) :
                    kind[s] \in {"file", "dir"} /\ ~Covered(s)}
     IN IF \E s \in ToSet(req.sources) : kind[s] = "none" THEN Fail
        ELSE job' = [job EXCEPT
               !.pc = "walk",
               !.stack = SetToSeq({[path |-> s, name |-> <<Last(s)>>] : s \in tops})]
  /\ UNCHANGED <<req, wr, files, cancelled, writer, made>>

AsInput(e) ==
  [path |-> e.path, name |-> e.name, dir |-> kind[e.path] = "dir",
   size |-> IF kind[e.path] = "file" THEN len[e.path] ELSE 0]

Walk ==
  /\ At("walk") /\ job.stack # <<>>
  /\ LET e    == Last(job.stack)
         rest == Front(job.stack)
         below == SetToSeq({[path |-> c, name |-> Append(e.name, Last(c))] :
                              c \in Children(e.path)})
     IN IF kind[e.path] \in {"link", "special"}
          THEN job' = [job EXCEPT !.stack = rest]
        ELSE IF \/ kind[e.path] = "none"
                \/ \E i \in 1..Len(Inputs) : Inputs[i].name = e.name
          THEN Fail
        ELSE job' = [job EXCEPT
               !.stack = IF kind[e.path] = "dir" THEN rest \o below ELSE rest,
               !.inputs = Append(@, AsInput(e))]
  /\ UNCHANGED <<req, wr, files, cancelled, writer, made>>

Walked ==
  /\ At("walk") /\ job.stack = <<>>
  /\ IF Inputs = <<>> THEN Fail ELSE Go("entry")
  /\ UNCHANGED <<req, wr, files, cancelled, writer, made>>

-----------------------------------------------------------------------------
\* The command line's collection, a source at a time; folders only when empty,
\* after everything else.

Below(r)   == {p \in Paths : IsPrefix(r, p) /\ kind[p] # "none"}
IsEmpty(d) == \A c \in Children(d) : kind[c] \notin {"file", "dir"}

Collect ==
  /\ At("collect") /\ job.left # <<>>
  /\ LET s == job.left[1]
         r == IF kind[s] = "link" THEN LinkTo ELSE s
         Of(ps) == SetToSeq({AsInput([path |-> p,
                      name |-> SubSeq(p, Len(r), Len(p))]) : p \in ps})
     IN IF \/ kind[r] \notin {"file", "dir"}
           \/ kind[r] = "dir" /\ ~req.recursive
           \/ kind[r] = "dir" /\ \E p \in Below(r) : kind[p] = "link"
        THEN Fail
        ELSE job' = [job EXCEPT
               !.left = Tail(@),
               !.inputs = @ \o Of({p \in Below(r) : kind[p] = "file"}),
               !.late = @ \o Of({p \in Below(r) : kind[p] = "dir" /\ IsEmpty(p)})]
  /\ UNCHANGED <<req, wr, files, cancelled, writer, made>>

\* ensure_distinct_output, then PendingOutput::new.
Collected ==
  /\ At("collect") /\ job.left = <<>>
  /\ LET all == Inputs \o job.late
     IN IF \/ \E i \in 1..Len(all) : all[i].path = req.output
           \/ kind[req.output] \notin {"none", "file"}
        THEN Fail
        ELSE job' = [job EXCEPT !.pc = "entry", !.inputs = all]
  /\ UNCHANGED <<req, wr, files, cancelled, writer, made>>

-----------------------------------------------------------------------------
\* The writers.

\* Whether a writer accepts an entry after those it has.
Earlier == {Inputs[i] : i \in (1..job.k - 1) \ job.lost}
Refused(e) ==
  CASE wr.twins = "refused" ->
         \E o \in Earlier : o.name = e.name /\ o.dir = e.dir
    [] wr.twins = "tree" ->
         \E o \in Earlier :
           \/ o.name = e.name /\ ~(o.dir /\ e.dir)
           \/ IsStrictPrefix(o.name, e.name) /\ ~o.dir
           \/ IsStrictPrefix(e.name, o.name) /\ ~e.dir
    [] OTHER -> FALSE

Announces == wr.sized /\ Window

\* Writing to the temporary file, or to the pipe, where there is room or the
\* encoder is gone.
CanWrite == wr.threaded => Len(pipe) < PipeCap \/ enc = "failed"
Broken   == wr.threaded /\ enc = "failed"
Emit(items) ==
  IF wr.threaded THEN pipe' = pipe \o items /\ UNCHANGED tape
  ELSE tape' = tape \o items /\ UNCHANGED pipe

NextEntry == job' = [job EXCEPT !.k = @ + 1, !.pos = 0, !.pc = "entry"]

\* set_len back to the entry's offset, which may fail too.
RollBack ==
  IF wr.undo = "cut"
  THEN staged' \in {[staged EXCEPT !.pool = SubSeq(@, 1, staged.used)],
                    [staged EXCEPT !.broken = TRUE]}
  ELSE UNCHANGED staged

\* The window and the command line give up; the library's client goes on.
GiveUp ==
  IF req.client = "library"
  THEN job' = [job EXCEPT !.k = @ + 1, !.pos = 0, !.pc = "entry",
                          !.lost = @ \cup {job.k}]
  ELSE Fail

EntryRefused == GiveUp /\ UNCHANGED <<staged, pipe, tape>>
EntryFails   == GiveUp /\ RollBack /\ UNCHANGED <<pipe, tape>>

AddDirectory ==
  /\ At("entry") /\ job.k <= Len(Inputs) /\ Input.dir /\ CanWrite
  /\ IF Refused(Input) \/ staged.broken \/ Broken
     THEN EntryRefused
     ELSE /\ NextEntry
          /\ IF wr.lay = "pooled"
             THEN /\ staged' = [staged EXCEPT !.entries =
                       Append(@, [name |-> Input.name, dir |-> TRUE, off |-> 0, n |-> 0])]
                  /\ UNCHANGED <<pipe, tape>>
             ELSE Emit(<<Folder(Input.name)>>) /\ UNCHANGED staged
  /\ UNCHANGED <<req, wr, files, cancelled, enc, made>>

\* The file is opened; a length announced is written at once, a stream's later.
Open ==
  /\ At("entry") /\ job.k <= Len(Inputs) /\ ~Input.dir /\ CanWrite
  /\ IF kind[Input.path] # "file" \/ Refused(Input) \/ staged.broken \/ Broken
     THEN EntryRefused
     ELSE /\ job' = [job EXCEPT !.pc = "read"]
          /\ UNCHANGED staged
          /\ IF Announces THEN Emit(<<Header(Input.name, Input.size)>>)
             ELSE IF wr.lay = "streamed" THEN Emit(<<Header(Input.name, 0)>>)
             ELSE UNCHANGED <<pipe, tape>>
  /\ UNCHANGED <<req, wr, files, cancelled, enc, made>>

\* There is more to read.
MoreOf(p) == job.pos < len[p]

\* Faulty: only an end too early is noticed.
Unlimited == FALSE
\* ExactSizeReader: more than announced, or less.
Grew  == Announces /\ job.pos >= Input.size
Short == Announces /\ job.pos < Input.size

\* Into the pool, over what a failed entry left.
Pooled(b) ==
  IF staged.used + job.pos < Len(staged.pool)
  THEN [staged EXCEPT !.pool[staged.used + job.pos + 1] = b]
  ELSE [staged EXCEPT !.pool = Append(@, b)]

Read ==
  /\ At("read") /\ CanWrite /\ MoreOf(Input.path)
  /\ LET b == Block(Input.path, job.pos + 1)
     IN IF Grew \/ Broken THEN EntryFails
        ELSE /\ job' = [job EXCEPT !.pos = @ + 1]
             /\ IF wr.lay = "pooled"
                THEN staged' = Pooled(b) /\ UNCHANGED <<pipe, tape>>
                ELSE IF wr.lay = "streamed" \/ Announces
                THEN Emit(<<b>>) /\ UNCHANGED staged
                ELSE UNCHANGED <<staged, pipe, tape>>
  /\ UNCHANGED <<req, wr, files, cancelled, enc, made>>

ReadFails ==
  /\ At("read")
  /\ EntryFails
  /\ UNCHANGED <<req, wr, files, cancelled, enc, made>>

\* The whole entry, once its length is known.
Entry == <<Header(Input.name, job.pos)>> \o Blocks(Input.path, job.pos)

\* A streamed entry's length is put into its head.
Completed == [tape EXCEPT ![Len(tape) - job.pos].size = job.pos]

FlatBatch(b) == FlattenSeq(b)

\* flush_solid, at the batch's limit.
Batched ==
  LET b == Append(staged.batch, Entry)
  IN IF Len(b) < BatchCap THEN staged' = [staged EXCEPT !.batch = b] /\ UNCHANGED tape
     ELSE staged' = [staged EXCEPT !.batch = <<>>] /\ tape' = tape \o FlatBatch(b)

EntryEnds ==
  /\ At("read") /\ ~MoreOf(Input.path) /\ CanWrite
  /\ IF Short \/ Broken THEN EntryFails
     ELSE /\ NextEntry
          /\ CASE wr.lay = "pooled" ->
                    /\ staged' = [staged EXCEPT
                         !.used = @ + job.pos,
                         !.entries = Append(@, [name |-> Input.name, dir |-> FALSE,
                                                off |-> staged.used, n |-> job.pos])]
                    /\ UNCHANGED <<pipe, tape>>
               [] wr.lay = "streamed" ->
                    tape' = Completed /\ UNCHANGED <<staged, pipe>>
               [] wr.batched -> Batched /\ UNCHANGED pipe
               [] Announces -> UNCHANGED <<staged, pipe, tape>>
               [] OTHER -> Emit(Entry) /\ UNCHANGED staged
  /\ UNCHANGED <<req, wr, files, cancelled, enc, made>>

-----------------------------------------------------------------------------
\* Finishing.

\* Where the i-th pooled payload starts.
Offset(i) ==
  LET behind[j \in 1..Len(staged.entries)] ==
        IF j = 1 THEN 0 ELSE behind[j - 1] + staged.entries[j - 1].n
  IN  IF wr.ranges THEN staged.entries[i].off ELSE behind[i]

PooledItem(i) ==
  LET e == staged.entries[i]
  IN IF e.dir THEN (IF wr.dirs THEN <<Folder(e.name)>> ELSE <<>>)
     ELSE <<Header(e.name, e.n)>> \o SubSeq(staged.pool, Offset(i) + 1, Offset(i) + e.n)

\* Merged entries: of several with one name the last file, which also takes the
\* place of a folder; what is below a folder so taken is no longer reached.
Hidden(i) ==
  /\ wr.twins = "merged"
  /\ \E j \in 1..Len(staged.entries) :
       /\ ~staged.entries[j].dir
       /\ \/ IsStrictPrefix(staged.entries[j].name, staged.entries[i].name)
          \/ /\ staged.entries[j].name = staged.entries[i].name
             /\ staged.entries[i].dir \/ j > i

PoolItems ==
  FlattenSeq([i \in 1..Len(staged.entries) |->
                IF Hidden(i) THEN <<>> ELSE PooledItem(i)])

NoFolders == ~wr.dirs /\ staged.entries # <<>>
               /\ \A i \in 1..Len(staged.entries) : staged.entries[i].dir

\* Faulty: the last batch is forgotten.
Forgotten == IF wr.lay = "pooled" THEN PoolItems ELSE <<>>
\* What is still held back.
Remainder == IF wr.lay = "pooled" THEN PoolItems ELSE FlatBatch(staged.batch)

FinishArchive ==
  /\ At("entry") /\ job.k > Len(Inputs) /\ CanWrite
  /\ IF staged.broken \/ NoFolders \/ Broken
     THEN Fail /\ UNCHANGED <<pipe, tape>>
     ELSE Go("join") /\ Emit(Remainder \o <<Closing>>)
  /\ UNCHANGED <<req, wr, files, cancelled, staged, enc, made>>

\* Faulty: the pipe's end is kept until the thread is joined.
LeftOpen == At("over")
\* The writer's end of the pipe has been dropped.
Closed == At("join") \/ At("over")

Encode ==
  /\ wr.threaded /\ enc = "running" /\ pipe # <<>>
  /\ pipe' = Tail(pipe) /\ tape' = Append(tape, pipe[1])
  /\ UNCHANGED <<req, wr, files, cancelled, job, staged, enc, made>>

Encoded ==
  /\ wr.threaded /\ enc = "running" /\ pipe = <<>> /\ Closed
  /\ enc' = "done"
  /\ UNCHANGED <<req, wr, files, cancelled, job, staged, pipe, tape, made>>

\* Its output cannot be written, or was cancelled: its end of the pipe goes.
EncoderFails ==
  /\ wr.threaded /\ enc = "running"
  /\ enc' = "failed" /\ pipe' = <<>>
  /\ UNCHANGED <<req, wr, files, cancelled, job, staged, tape, made>>

Join ==
  /\ At("join") /\ (wr.threaded => enc # "running")
  /\ IF Broken THEN Fail ELSE Go(IF req.sfx THEN "wrap" ELSE "check")
  /\ UNCHANGED <<req, wr, files, cancelled, writer, made>>

\* write_zip_sfx: a second temporary file, the stub and the archive.
Wrap ==
  /\ At("wrap")
  /\ tape' = <<Stub>> \o tape
  /\ Go("check")
  /\ UNCHANGED <<req, wr, files, cancelled, staged, pipe, enc, made>>

Check ==
  /\ At("check")
  /\ IF cancelled THEN Fail ELSE Go("publish")
  /\ UNCHANGED <<req, wr, files, cancelled, writer, made>>

\* persist, or persist_noclobber when the window was not asked to replace.
MayPublish ==
  /\ kind[req.output] \in {"none", "file"}
  /\ Window /\ ~req.replace => kind[req.output] = "none"

PublishArchive ==
  /\ At("publish")
  /\ IF req.client = "library" \/ MayPublish
     THEN /\ job' = [job EXCEPT !.pc = "over", !.result = "ok"]
          /\ made' = tape
          /\ kind' = IF req.client = "library" THEN kind
                     ELSE [kind EXCEPT ![req.output] = "file"]
     ELSE Fail /\ UNCHANGED <<made, kind>>
  /\ UNCHANGED <<req, wr, len, changes, cancelled, writer>>

-----------------------------------------------------------------------------
\* Others.

Cancel ==
  /\ Window /\ ~cancelled /\ ~At("over")
  /\ cancelled' = TRUE
  /\ UNCHANGED <<req, wr, files, job, writer, made>>

\* control.check between entries, the progress of a read, TaskFile's writes.
Heed ==
  /\ cancelled /\ job.pc \notin {"publish", "over"}
  /\ Fail
  /\ UNCHANGED <<req, wr, files, cancelled, writer, made>>

Working == ~At("over") /\ changes < MaxChanges

Resize(p) ==
  /\ Working /\ kind[p] = "file" /\ p # req.output
  /\ \E n \in {len[p] - 1, len[p] + 1} \cap Nat : len' = [len EXCEPT ![p] = n]
  /\ changes' = changes + 1
  /\ UNCHANGED <<req, wr, kind, cancelled, job, writer, made>>

Delete(p) ==
  /\ Working /\ kind[p] = "file"
  /\ kind' = [kind EXCEPT ![p] = "none"]
  /\ changes' = changes + 1
  /\ UNCHANGED <<req, wr, len, cancelled, job, writer, made>>

\* Another program makes a file under the output's name.
Appear ==
  /\ Working /\ kind[req.output] = "none"
  /\ kind' = [kind EXCEPT ![req.output] = "file"]
  /\ changes' = changes + 1
  /\ UNCHANGED <<req, wr, len, cancelled, job, writer, made>>

Over == At("over") /\ (wr.threaded => enc # "running") /\ UNCHANGED creationVars

JobStep ==
  \/ Validate \/ Roots \/ Walk \/ Walked \/ Collect \/ Collected
  \/ AddDirectory \/ Open \/ Read \/ EntryEnds \/ FinishArchive
  \/ Join \/ Wrap \/ Check \/ PublishArchive

EncoderStep == Encode \/ Encoded

CreationNext ==
  \/ JobStep \/ EncoderStep \/ ReadFails \/ EncoderFails \/ Cancel \/ Heed
  \/ Appear \/ Over
  \/ \E p \in Paths : Resize(p) \/ Delete(p)

CreationSpec == CreationInit /\ [][CreationNext]_creationVars

\* The threads run; nobody must fail, cancel or change a file.
FairSpec == CreationSpec /\ WF_creationVars(JobStep) /\ WF_creationVars(EncoderStep)

-----------------------------------------------------------------------------
Archive == made # Nothing

Heads(t) == {i \in 1..Len(t) : t[i].tag = "head"}

\* The payload of the head at i is that of a source of its name.
IsPayload(t, i) ==
  \E k \in 1..Len(Inputs) :
    /\ ~Inputs[k].dir /\ Inputs[k].name = t[i].name
    /\ SubSeq(t, i + 1, i + t[i].size) = Blocks(Inputs[k].path, t[i].size)

\* An archive that is published, or that a writer returns, ends with its closing
\* part, every length in it is the length of the payload that follows, and
\* every payload is the beginning of the one file it is named after: also when
\* the file grew or shrank between being listed, opened and read, when entries
\* before it failed, and with an encoder of its own (ExactSizeReader,
\* archive/mod.rs:641; the roll-back of asar, iso, udf and zpaq writers).
PayloadsAreOwn ==
  Archive =>
    /\ Last(made) = Closing
    /\ \A i \in Heads(made) :
         /\ i + made[i].size < Len(made)
         /\ made[i + made[i].size + 1].tag # "block"
         /\ IsPayload(made, i)
    /\ \A i \in 2..Len(made) : made[i].tag = "block" => made[i - 1].tag \in {"head", "block"}
    /\ made[1].tag # "block"

Wanted ==
  {p \in Paths : /\ kind[p] = "file" /\ p # req.output
                 /\ \E s \in ToSet(req.sources) : IsPrefix(s, p)}

Named(n) == {k \in (1..Len(Inputs)) \ job.lost : ~Inputs[k].dir /\ Inputs[k].name = n}
HeadsOf(n) == {i \in Heads(made) : made[i].name = n}
Twins(n) == Cardinality(Named(n)) > 1
\* Another file's name is that of a folder above.
BelowAFile(n) ==
  \E k \in (1..Len(Inputs)) \ job.lost :
    ~Inputs[k].dir /\ IsStrictPrefix(Inputs[k].name, n)

\* When the operation succeeds, every file at or below a source is in the
\* archive, as often as there are files of its name, however the sources
\* contain each other, wherever a writer kept it meanwhile.  Not so in a WIM,
\* whose writer merges what has one name: it keeps one of several files, and
\* when a file of one source has the name of another source's folder it keeps
\* that file and silently loses all files below the folder (wim/writer.rs:391,
\* 473-480).
EveryFileIsIn ==
  job.result = "ok" =>
    \A p \in Wanted :
      \/ \E k \in job.lost : Inputs[k].path = p
      \/ \E k \in (1..Len(Inputs)) \ job.lost :
           LET n == Inputs[k].name
           IN /\ Inputs[k].path = p /\ ~Inputs[k].dir
              /\ \/ Cardinality(HeadsOf(n)) = Cardinality(Named(n))
                 \/ /\ wr.twins = "merged"
                    /\ BelowAFile(n) \/ (Twins(n) /\ HeadsOf(n) # {})

\* Every creation ends, whatever the encoder's thread and the files do: a
\* writer is not left waiting at a full pipe, nor the encoder at an empty one.
CreationEnds == <>(At("over") /\ (wr.threaded => enc # "running"))
=============================================================================
