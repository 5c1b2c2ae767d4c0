------------------------------ MODULE CliOutput ------------------------------
(***************************************************************************)
(* How the command line's commands put files on the disk, and what Ctrl+C  *)
(* does to that.                                                           *)
(*                                                                         *)
(*   "compress", "decode"  stage the one output in a temporary file and    *)
(*       publish it at the end: PendingOutput (cli/src/commands/common.rs);*)
(*   "sevenzip", "rar"     do not use ExtractionDir: extract_all_with_     *)
(*       cancel of these two readers opens every output under its final    *)
(*       name and fills it there (core/src/archive/seven_zip.rs, rar.rs).  *)
(*                                                                         *)
(* Every command is a process with a flag of its own, which its handler    *)
(* sets and its loops look at (cli/src/signal.rs).  Two names may be hard  *)
(* links of one file, so names hold files, and files hold content.         *)
(***************************************************************************)
EXTENDS Integers, Sequences

CONSTANTS
  Commands,   \* processes
  Paths,      \* names of files
  Outside,    \* the user and every other program
  Vacant,     \* an unused name
  RequestsOf, \* what each command may be asked for
  MaxOutputs, \* bound: entries of an archive extracted in place
  MaxOutside  \* bound: changes made by Outside

Staged  == {"compress", "decode"}
InPlace == {"sevenzip", "rar"}
Requests == [way : Staged \cup InPlace, input : Paths, outputs : Seq(Paths),
             overwrite : BOOLEAN, sfx : BOOLEAN]

Files == (Commands \X (1..MaxOutputs)) \cup ({Outside} \X (0..MaxOutside))
Existing == <<Outside, 0>>

ASSUME CliAssumption ==
  /\ Outside \notin Commands
  /\ Vacant \notin Files
  /\ MaxOutputs \in Nat \ {0} /\ MaxOutside \in Nat
  /\ RequestsOf \in [Commands -> SUBSET Requests]
  /\ \A c \in Commands : \A r \in RequestsOf[c] :
       /\ Len(r.outputs) <= MaxOutputs
       /\ r.way \in Staged => Len(r.outputs) = 1
       /\ r.way = "compress" => r.overwrite   \* PendingOutput::new(path, true)
       /\ r.sfx => r.way = "compress"

VARIABLES
  link,   \* the file under each name
  body,   \* the content of each file: whose it is and whether it is whole
  temps,  \* temporary files each command has on the disk
  req,    \* what each command was asked for
  pc,     \* where it is
  flag,   \* its CANCELLED_FLAG
  at,     \* entries it is through with, in place
  open,   \* the output it has open, in place
  failed, \* whether an entry of it failed, in place
  put,    \* the outputs it completed; for an archive, by position
  kept,   \* the outputs it left to the file that was there
  asked,  \* Ctrl+C was pressed after the reset and before the last look
  exit,   \* its exit status
  outs    \* changes made by Outside

diskVars == <<link, body, temps>>
workVars == <<at, open, failed, put, kept>>
outputVars == <<link, body, temps, req, pc, flag, at, open, failed, put, kept,
          asked, exit, outs>>

\* Ctrl+C at these points is still seen before anything is published.
Looking == {"prepare", "look", "pend", "work", "finish", "wrap", "commit"}
PCs == Looking \cup {"install", "reset", "persist", "list", "entry", "open",
                     "look2", "copy", "report", "unwind", "ended"}
Exits == {"running", "0", "1", "130", "killed"}

Way(c)    == req[c].way
Target(c) == req[c].outputs[1]
Mine(c)   == <<c, 1>>

OutputInit ==
  /\ link \in [Paths -> {Vacant, Existing}]
  /\ body = [f \in Files |-> [by |-> Outside, whole |-> TRUE]]
  /\ temps = [c \in Commands |-> {}]
  /\ req \in [Commands -> UNION {RequestsOf[c] : c \in Commands}]
  /\ \A c \in Commands : req[c] \in RequestsOf[c]
  /\ pc = [c \in Commands |-> "install"]
  /\ flag = [c \in Commands |-> FALSE]
  /\ at = [c \in Commands |-> 0]
  /\ open = [c \in Commands |-> Vacant]
  /\ failed = [c \in Commands |-> FALSE]
  /\ put = [c \in Commands |-> {}]
  /\ kept = [c \in Commands |-> {}]
  /\ asked = [c \in Commands |-> FALSE]
  /\ exit = [c \in Commands |-> "running"]
  /\ outs = 0

At(c, label)   == pc[c] = label
Goto(c, label) == pc' = [pc EXCEPT ![c] = label] /\ UNCHANGED exit

\* An error travels up to main; the destructors on its way come first.
Fail(c) == Goto(c, "unwind")
Succeed(c) == /\ pc' = [pc EXCEPT ![c] = "ended"]
              /\ exit' = [exit EXCEPT ![c] = "0"]
              /\ temps' = [temps EXCEPT ![c] = {}]

-----------------------------------------------------------------------------
\* CancellationToken::reset: installs the handler ...
Install(c) ==
  /\ At(c, "install")
  /\ Goto(c, "reset")
  /\ UNCHANGED <<diskVars, req, flag, workVars, asked, outs>>

\* ... and clears the flag, whatever the handler has done in between.
Reset(c) ==
  /\ At(c, "reset")
  /\ flag' = [flag EXCEPT ![c] = FALSE]
  /\ Goto(c, IF Way(c) \in InPlace THEN "list" ELSE "prepare")
  /\ UNCHANGED <<diskVars, req, workVars, asked, outs>>

\* Formats, options and the input are looked at; anything may be refused.
Prepare(c) ==
  /\ At(c, "prepare")
  /\ (link[req[c].input] # Vacant /\ Goto(c, "look")) \/ Fail(c)
  /\ UNCHANGED <<diskVars, req, flag, workVars, asked, outs>>

\* An output that is one of the inputs, under whatever name, is refused.
Distinct(c, n) == link[n] = Vacant \/ link[req[c].input] \notin {Vacant, link[n]}

\* ensure_distinct_output, then skip_existing.
Look(c) ==
  /\ At(c, "look")
  /\ IF ~Distinct(c, Target(c))
     THEN Fail(c) /\ UNCHANGED <<temps, kept>>
     ELSE IF link[Target(c)] # Vacant /\ ~req[c].overwrite
          THEN Succeed(c) /\ kept' = [kept EXCEPT ![c] = {1}]
          ELSE Goto(c, "pend") /\ UNCHANGED <<temps, kept>>
  /\ UNCHANGED <<link, body, req, flag, at, open, failed, put, asked, outs>>

\* PendingOutput::new: the target must be a regular file or nothing, the
\* temporary file goes beside it.
Pend(c) ==
  /\ At(c, "pend")
  /\ \/ /\ temps' = [temps EXCEPT ![c] = {"output"}]
        /\ body' = [body EXCEPT ![Mine(c)] = [by |-> c, whole |-> FALSE]]
        /\ Goto(c, "work")
     \/ Fail(c) /\ UNCHANGED <<body, temps>>
  /\ UNCHANGED <<link, req, flag, workVars, asked, outs>>

\* Codecs read and write through wrappers that look at the flag first.
Work(c) ==
  /\ At(c, "work")
  /\ \/ ~flag[c] /\ Goto(c, "finish")
     \/ Fail(c)
  /\ UNCHANGED <<diskVars, req, flag, workVars, asked, outs>>

\* decode() looks once more at its end; a compressor's last blocks go to the
\* temporary file directly.
Finish(c) ==
  /\ At(c, "finish")
  /\ IF Way(c) = "decode" /\ flag[c]
     THEN Fail(c) /\ UNCHANGED body
     ELSE \/ /\ body' = [body EXCEPT ![Mine(c)] = [by |-> c, whole |-> TRUE]]
             /\ Goto(c, IF req[c].sfx THEN "wrap" ELSE "commit")
          \/ Fail(c) /\ UNCHANGED body
  /\ UNCHANGED <<link, temps, req, flag, workVars, asked, outs>>

\* --sfx: the archive is copied behind a stub into a second PendingOutput.
Wrap(c) ==
  /\ At(c, "wrap")
  /\ temps' = [temps EXCEPT ![c] = @ \cup {"sfx"}]
  /\ (~flag[c] /\ Goto(c, "commit")) \/ Fail(c)
  /\ UNCHANGED <<link, body, req, flag, workVars, asked, outs>>

\* Faulty: the flag was looked at often enough.
CommitBlind(c) ==
  /\ At(c, "commit")
  /\ Goto(c, "persist") \/ Fail(c)
  /\ UNCHANGED <<diskVars, req, flag, workVars, asked, outs>>

\* PendingOutput::commit: the last look, then the flush ...
Commit(c) ==
  /\ At(c, "commit")
  /\ (~flag[c] /\ Goto(c, "persist")) \/ Fail(c)
  /\ UNCHANGED <<diskVars, req, flag, workVars, asked, outs>>

\* ... and persist, or persist_noclobber, for which a file that has come in
\* between is no error.
Persist(c) ==
  /\ At(c, "persist")
  /\ \/ /\ req[c].overwrite \/ link[Target(c)] = Vacant
        /\ link' = [link EXCEPT ![Target(c)] = Mine(c)]
        /\ put' = [put EXCEPT ![c] = {1}]
        /\ Succeed(c)
        /\ UNCHANGED kept
     \/ /\ ~req[c].overwrite /\ link[Target(c)] # Vacant
        /\ kept' = [kept EXCEPT ![c] = {1}]
        /\ Succeed(c)
        /\ UNCHANGED <<link, put>>
     \/ Fail(c) /\ UNCHANGED <<link, temps, put, kept>>
  /\ UNCHANGED <<body, req, flag, at, open, failed, asked, outs>>

\* Faulty: the temporary file is not one that removes itself.
UnwindKeeps(c) ==
  /\ At(c, "unwind")
  /\ pc' = [pc EXCEPT ![c] = "ended"]
  /\ exit' = [exit EXCEPT ![c] = IF flag[c] THEN "130" ELSE "1"]
  /\ UNCHANGED <<link, body, temps, req, flag, workVars, asked, outs>>

\* The temporary files are dropped; main looks at the flag for the status.
Unwind(c) ==
  /\ At(c, "unwind")
  /\ pc' = [pc EXCEPT ![c] = "ended"]
  /\ exit' = [exit EXCEPT ![c] = IF flag[c] THEN "130" ELSE "1"]
  /\ temps' = [temps EXCEPT ![c] = {}]
  /\ UNCHANGED <<link, body, req, flag, workVars, asked, outs>>

StagedStep(c) ==
  \/ Install(c) \/ Reset(c) \/ Prepare(c) \/ Look(c) \/ Pend(c) \/ Work(c)
  \/ Finish(c) \/ Wrap(c) \/ Commit(c) \/ Persist(c) \/ Unwind(c)

-----------------------------------------------------------------------------
\* The archive is listed and every target compared with it.
ListEntries(c) ==
  /\ At(c, "list")
  /\ \/ Fail(c)
     \/ /\ \A k \in 1..Len(req[c].outputs) : Distinct(c, req[c].outputs[k])
        /\ Goto(c, "entry")
  /\ UNCHANGED <<diskVars, req, flag, workVars, asked, outs>>

\* Before every entry: the flag, then the next header, which may be broken.
NextEntry(c) ==
  /\ At(c, "entry")
  /\ IF at[c] = Len(req[c].outputs)
     THEN Goto(c, "report") \/ Fail(c)
     ELSE (~flag[c] /\ Goto(c, "open")) \/ Fail(c)
  /\ UNCHANGED <<diskVars, req, flag, workVars, asked, outs>>

Output(c) == req[c].outputs[at[c] + 1]
Pass(c) == at' = [at EXCEPT ![c] = @ + 1]

\* File::create empties the file that has the name, and create_new refuses it;
\* an entry that cannot be created is reported, and the next one is tried.
OpenOutput(c) ==
  /\ At(c, "open")
  /\ \/ /\ link[Output(c)] = Vacant \/ req[c].overwrite
        /\ LET f == IF link[Output(c)] = Vacant THEN <<c, at[c] + 1>> ELSE link[Output(c)]
           IN /\ link' = [link EXCEPT ![Output(c)] = f]
              /\ body' = [body EXCEPT ![f] = [by |-> c, whole |-> FALSE]]
              /\ open' = [open EXCEPT ![c] = f]
        /\ Goto(c, IF Way(c) = "rar" THEN "look2" ELSE "copy")
        /\ UNCHANGED <<at, failed, kept>>
     \/ /\ link[Output(c)] # Vacant /\ ~req[c].overwrite
        /\ kept' = [kept EXCEPT ![c] = @ \cup {at[c] + 1}]
        /\ Pass(c) /\ Goto(c, "entry")
        /\ UNCHANGED <<link, body, open, failed>>
     \/ /\ failed' = [failed EXCEPT ![c] = TRUE]
        /\ Pass(c) /\ Goto(c, "entry")
        /\ UNCHANGED <<link, body, open, kept>>
  /\ UNCHANGED <<temps, req, flag, put, asked, outs>>

\* The RAR reader looks again when the output is open and still empty.
LookAgain(c) ==
  /\ At(c, "look2")
  /\ (~flag[c] /\ Goto(c, "copy")) \/ (flag[c] /\ Fail(c))
  /\ UNCHANGED <<diskVars, req, flag, workVars, asked, outs>>

\* Faulty: an entry that fails is passed over without a word.
CopyEntryForgets(c) ==
  /\ At(c, "copy")
  /\ Pass(c) /\ Goto(c, "entry")
  /\ UNCHANGED <<diskVars, req, flag, open, failed, put, kept, asked, outs>>

\* What was written goes to the open file, under whatever name it is by now;
\* with what another process wrote there since it makes no whole.
Filled(c, w) ==
  body' = [body EXCEPT ![open[c]] = [by |-> c, whole |-> w /\ @.by = c]]

\* The payload is copied.  The 7z reader takes every failure, a cancellation
\* too, for one of the entry; the RAR reader decodes an entry before it writes
\* any of it, and a decoding error ends the walk.
CopyEntry(c) ==
  /\ At(c, "copy")
  /\ \/ /\ Way(c) = "rar" \/ ~flag[c]
        /\ Filled(c, TRUE)
        /\ put' = [put EXCEPT ![c] = @ \cup {at[c] + 1}]
        /\ Pass(c) /\ Goto(c, "entry")
        /\ UNCHANGED failed
     \/ /\ Filled(c, FALSE)
        /\ failed' = [failed EXCEPT ![c] = TRUE]
        /\ Pass(c) /\ Goto(c, "entry")
        /\ UNCHANGED put
     \/ Way(c) = "rar" /\ Fail(c) /\ UNCHANGED <<body, at, failed, put>>
  /\ UNCHANGED <<link, temps, req, flag, open, kept, asked, outs>>

\* decompress_archive: failures come before the flag.
Report(c) ==
  /\ At(c, "report")
  /\ IF failed[c] \/ flag[c] THEN Fail(c) /\ UNCHANGED temps ELSE Succeed(c)
  /\ UNCHANGED <<link, body, req, flag, workVars, asked, outs>>

InPlaceStep(c) ==
  \/ ListEntries(c) \/ NextEntry(c) \/ OpenOutput(c) \/ LookAgain(c) \/ CopyEntry(c)
  \/ Report(c)

-----------------------------------------------------------------------------
\* Ctrl+C: before the handler is there it kills; afterwards, at the first and
\* at any later time, it sets the flag.
Press(c) ==
  /\ ~At(c, "ended")
  /\ IF At(c, "install")
     THEN /\ pc' = [pc EXCEPT ![c] = "ended"]
          /\ exit' = [exit EXCEPT ![c] = "killed"]
          /\ UNCHANGED <<flag, asked>>
     ELSE /\ ~flag[c]
          /\ flag' = [flag EXCEPT ![c] = TRUE]
          /\ asked' = [asked EXCEPT ![c] = pc[c] \in Looking]
          /\ UNCHANGED <<pc, exit>>
  /\ UNCHANGED <<diskVars, req, workVars, outs>>

\* A crash, or a signal that cannot be caught: nothing is cleaned up.
Kill(c) ==
  /\ ~At(c, "ended")
  /\ pc' = [pc EXCEPT ![c] = "ended"]
  /\ exit' = [exit EXCEPT ![c] = "killed"]
  /\ UNCHANGED <<diskVars, req, flag, workVars, asked, outs>>

\* Another program puts a file of its own under a name, or removes it.
Change(n) ==
  /\ outs < MaxOutside
  /\ outs' = outs + 1
  /\ link' = [link EXCEPT ![n] = IF @ = Vacant THEN <<Outside, outs + 1>> ELSE Vacant]
  /\ UNCHANGED <<body, temps, req, pc, flag, workVars, asked, exit>>

OutputNext ==
  \/ \E c \in Commands : StagedStep(c) \/ InPlaceStep(c) \/ Press(c) \/ Kill(c)
  \/ \E n \in Paths : Change(n)

OutputSpec == OutputInit /\ [][OutputNext]_outputVars

-----------------------------------------------------------------------------
\* The values the variables range over.
OutputTypeOK ==
  /\ link \in [Paths -> Files \cup {Vacant}]
  /\ body \in [Files -> [by : Commands \cup {Outside}, whole : BOOLEAN]]
  /\ temps \in [Commands -> SUBSET {"output", "sfx"}]
  /\ req \in [Commands -> Requests]
  /\ pc \in [Commands -> PCs]
  /\ flag \in [Commands -> BOOLEAN]
  /\ at \in [Commands -> 0..MaxOutputs]
  /\ open \in [Commands -> Files \cup {Vacant}]
  /\ failed \in [Commands -> BOOLEAN]
  /\ put \in [Commands -> SUBSET (1..MaxOutputs)]
  /\ kept \in [Commands -> SUBSET (1..MaxOutputs)]
  /\ asked \in [Commands -> BOOLEAN]
  /\ exit \in [Commands -> Exits]
  /\ outs \in 0..MaxOutside

\* A staged command that fails, is cancelled or dies has published nothing;
\* unless it died, its temporary files are gone too (common.rs:252-253).
FailureLeavesNothing ==
  \A c \in Commands : Way(c) \in Staged /\ exit[c] \in {"1", "130", "killed"} =>
    /\ \A n \in Paths : link[n] # Mine(c)
    /\ exit[c] # "killed" => temps[c] = {}

\* A Ctrl+C between the reset and the last look is heeded: the output is not
\* published, however far the work had got (signal.rs:24-26, common.rs:288).
CancelHeeded == \A c \in Commands : asked[c] /\ Way(c) \in Staged => put[c] = {}

\* Status 0 means that each output was produced or, without overwrite, left
\* to the file that was there; in an archive every entry counts.
SuccessIsTrue ==
  \A c \in Commands : exit[c] = "0" =>
    /\ put[c] \cup kept[c] = 1..Len(req[c].outputs)
    /\ kept[c] # {} => ~req[c].overwrite

=============================================================================
