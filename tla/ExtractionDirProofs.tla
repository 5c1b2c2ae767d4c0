------------------------ MODULE ExtractionDirProofs ------------------------
(***************************************************************************)
(* Proofs about ExtractionDir, for any number of processes, threads, names *)
(* and crashes: types, the ownership of temporary files, and, where the    *)
(* destination has hard links, that only complete files are published and  *)
(* that nothing existing is lost.  Then, for any number of batches and     *)
(* entries: a batch (BatchExtraction) is a caller of ExtractionDir, what   *)
(* it reports as complete is complete, it reports all that it left behind, *)
(* and what was not decoded when it was cancelled is not published.        *)
(***************************************************************************)
EXTENDS ExtractionRefinement, BatchExtraction, SequenceTheorems, TLAPS

USE ConstantsAssumption DEF Calls, Serials

\* Names, files and labels have their types in the states TypeOK describes.
LEMMA NameTypes ==
  ASSUME TypeOK, NEW w \in Writers
  PROVE  /\ TempName(w) \in TempNames
         /\ call[w] \in Calls => TempFile(w) \in Files /\ CopyFile(w) \in Files
BY DEF TypeOK, TempName, TempNames, TempFile, CopyFile, Files

\* A call that runs has been counted, so its files have an identity.
CallCounted == \A w \in Writers : pc[w] # "idle" => call[w] \in Calls

TypeInv == TypeOK /\ CallCounted

\* What was there before is a file, and nobody's of ours.
LEMMA ExistingIsForeign ==
  Existing \in Files /\ Existing # NoFile /\ Existing.by \notin Writers
BY DEF Existing, Files

LEMMA InitTypes == Init => TypeInv
BY ExistingIsForeign DEF Init, TypeInv, TypeOK, CallCounted, TempNames, PCs, Results

LEMMA StepTypes ==
  ASSUME TypeInv, NEW w \in Writers, Step(w)
  PROVE  TypeInv'
<1> USE DEF TypeInv, TypeOK, CallCounted, fsVars, argVars, envVars, Goto, Return,
        ReturnGuarded, PCs, Guarded, Results
<1>0. /\ TempName(w) \in TempNames
      /\ pc[w] # "idle" => TempFile(w) \in Files /\ CopyFile(w) \in Files
  BY NameTypes
<1>1. CASE CreateParent(w)  BY <1>1 DEF CreateParent
<1>2. CASE RejectLink(w)    BY <1>2 DEF RejectLink
<1>3. CASE CheckFree(w)     BY <1>3 DEF CheckFree
<1>4. CASE TakeSerial(w)    BY <1>4 DEF TakeSerial
<1>5. CASE CreateTemp(w)    BY <1>0, <1>5 DEF CreateTemp
<1>6. CASE WriteTemp(w)     BY <1>0, <1>6 DEF WriteTemp
<1>7. CASE Rename(w)        BY <1>0, <1>7 DEF Rename
<1>8. CASE HardLink(w)      BY <1>0, <1>8 DEF HardLink
<1>9. CASE CreateOutput(w)  BY <1>0, <1>9 DEF CreateOutput
<1>10. CASE CopyOutput(w)   BY <1>0, <1>10 DEF CopyOutput
<1>11. CASE RemoveOutput(w) BY <1>0, <1>11 DEF RemoveOutput
<1>12. CASE DropGuard(w)    BY <1>0, <1>12 DEF DropGuard
<1> QED
  BY <1>1, <1>2, <1>3, <1>4, <1>5, <1>6, <1>7, <1>8, <1>9, <1>10, <1>11, <1>12
     DEF Step

LEMMA NextTypes == TypeInv /\ [Next]_vars => TypeInv'
<1> SUFFICES ASSUME TypeInv, [Next]_vars
             PROVE  TypeInv'
  OBVIOUS
<1> USE DEF TypeInv, TypeOK, CallCounted, fsVars, argVars, envVars, Goto, PCs, Results
<1>1. ASSUME NEW w \in Writers, NEW l \in Leaves, NEW o \in BOOLEAN, Begin(w, l, o)
      PROVE  TypeInv'
  BY <1>1 DEF Begin
<1>2. ASSUME NEW w \in Writers, Step(w)
      PROVE  TypeInv'
  BY <1>2, StepTypes
<1>3. ASSUME NEW p \in Procs, Crash(p)
      PROVE  TypeInv'
  BY <1>3 DEF Crash
<1>4. ASSUME NEW l \in Leaves, OutsideStep(l)
      PROVE  TypeInv'
  <2>1. ASSUME NEW kind \in {"file", "link"}, OutsideCreate(l, kind)
        PROVE  TypeInv'
    <3>1. [by |-> Outside, call |-> outs + 1, kind |-> kind] \in Files
      BY <2>1 DEF OutsideCreate, Files
    <3> QED
      BY <2>1, <3>1 DEF OutsideCreate
  <2>2. CASE OutsideRemove(l)
    BY <2>2 DEF OutsideRemove
  <2> QED
    BY <1>4, <2>1, <2>2 DEF OutsideStep
<1>5. CASE UNCHANGED vars
  BY <1>5 DEF vars
<1> QED
  BY <1>1, <1>2, <1>3, <1>4, <1>5 DEF Next

\* Every variable keeps its type (all of write_file).
THEOREM Typing == Spec => []TypeInv
<1>1. QED
  BY InitTypes, NextTypes, PTL DEF Spec
-----------------------------------------------------------------------------
\* Between fetch_add and the end of the call, a writer's serial is one that
\* its process has handed out, and to nobody else.
HoldsSerial == {"create"} \cup Guarded

SerialsApart ==
  /\ \A w \in Writers : pc[w] \in HoldsSerial => serial[w] < next[ProcOf[w]]
  /\ \A v, w \in Writers :
       v # w /\ pc[v] \in HoldsSerial /\ pc[w] \in HoldsSerial
         => TempName(v) # TempName(w)

OwnInv == SerialsApart /\ OwnTemp

LEMMA InitOwn == Init => OwnInv
BY DEF Init, OwnInv, SerialsApart, OwnTemp, HoldsSerial, Guarded

\* One step of a call keeps serials apart: only fetch_add hands one out.
LEMMA StepSerials ==
  ASSUME TypeInv, SerialsApart, NEW v \in Writers, Step(v)
  PROVE  SerialsApart'
<1> USE DEF TypeInv, TypeOK, HoldsSerial, Guarded, fsVars, argVars, envVars,
        Goto, Return, ReturnGuarded
<1>1. CASE TakeSerial(v)
  BY <1>1 DEF TakeSerial, SerialsApart, TempName
<1>2. CASE ~TakeSerial(v)
  <2>1. next' = next /\ serial' = serial
    BY <1>2 DEF Step, CreateParent, RejectLink, CheckFree, CreateTemp, WriteTemp,
       Rename, HardLink, CreateOutput, CopyOutput, RemoveOutput, DropGuard
  <2>2. \A w \in Writers : pc'[w] \in HoldsSerial => pc[w] \in HoldsSerial
    BY <1>2 DEF Step, CreateParent, RejectLink, CheckFree, CreateTemp, WriteTemp,
       Rename, HardLink, CreateOutput, CopyOutput, RemoveOutput, DropGuard
  <2> QED
    BY <2>1, <2>2 DEF SerialsApart, TempName
<1> QED
  BY <1>1, <1>2

\* A step of a call touches no other call's temporary file.
LEMMA StepOwn ==
  ASSUME TypeInv, OwnInv, NEW v \in Writers, Step(v)
  PROVE  OwnTemp'
<1> USE DEF TypeInv, TypeOK, Guarded, fsVars, argVars, envVars, Goto, Return,
        ReturnGuarded
<1>1. /\ call' = call
      /\ \A w \in Writers : w # v => pc'[w] = pc[w] /\ serial'[w] = serial[w]
  BY DEF Step, CreateParent, RejectLink, CheckFree, TakeSerial, CreateTemp,
     WriteTemp, Rename, HardLink, CreateOutput, CopyOutput, RemoveOutput, DropGuard
<1>2. \A n \in TempNames : temp'[n] # temp[n] =>
         n = TempName(v) /\ pc[v] \in HoldsSerial
  BY NameTypes DEF HoldsSerial, Step, CreateParent, RejectLink, CheckFree,
     TakeSerial, CreateTemp, WriteTemp, Rename, HardLink, CreateOutput, CopyOutput,
     RemoveOutput, DropGuard
<1>3. ASSUME NEW w \in Writers, w # v, pc'[w] \in Guarded
      PROVE  temp'[TempName(w)'] = temp[TempName(w)]
  <2>1. TempName(w)' = TempName(w) /\ TempName(w) \in TempNames
    BY <1>1, <1>3, NameTypes DEF TempName
  <2>2. pc[v] \in HoldsSerial => TempName(w) # TempName(v)
    BY <1>1, <1>3 DEF OwnInv, SerialsApart, HoldsSerial
  <2> QED
    BY <1>2, <2>1, <2>2
<1>4. ASSUME pc'[v] \in Guarded
      PROVE  temp'[TempName(v)'] \in {TempFile(v)'} \cup
               (IF pc'[v] = "drop" THEN {NoFile} ELSE {})
  <2>1. TempName(v) \in TempNames
    BY NameTypes
  <2>2. CASE CreateTemp(v)
    BY <1>4, <2>1, <2>2 DEF CreateTemp, TempName, TempFile
  <2>3. CASE ~CreateTemp(v)
    <3>1. pc[v] \in Guarded /\ serial' = serial
      BY <1>4, <2>3 DEF Step, CreateParent, RejectLink, CheckFree, TakeSerial,
         WriteTemp, Rename, HardLink, CreateOutput, CopyOutput, RemoveOutput,
         DropGuard
    <3>2. temp[TempName(v)] \in {TempFile(v)} \cup
            (IF pc[v] = "drop" THEN {NoFile} ELSE {})
      BY <3>1 DEF OwnInv, OwnTemp
    <3>3. TempName(v)' = TempName(v) /\ TempFile(v)' = TempFile(v)
      BY <1>1, <3>1 DEF TempName, TempFile
    <3>4. \/ temp' = temp
          \/ Rename(v) /\ pc'[v] = "drop" /\ temp'[TempName(v)] = NoFile
      BY <1>4, <2>1, <2>3 DEF Step, CreateParent, RejectLink, CheckFree, TakeSerial,
         WriteTemp, Rename, HardLink, CreateOutput, CopyOutput, RemoveOutput,
         DropGuard
    <3>5. pc'[v] # "drop" => pc[v] # "drop"
      BY <1>4, <2>3 DEF Step, CreateParent, RejectLink, CheckFree, TakeSerial,
         WriteTemp, Rename, HardLink, CreateOutput, CopyOutput, RemoveOutput,
         DropGuard
    <3> QED
      BY <3>2, <3>3, <3>4, <3>5
  <2> QED
    BY <2>2, <2>3
<1>5. ASSUME NEW w \in Writers, w # v, pc'[w] \in Guarded
      PROVE  temp'[TempName(w)'] \in {TempFile(w)'} \cup
               (IF pc'[w] = "drop" THEN {NoFile} ELSE {})
  BY <1>1, <1>3, <1>5 DEF OwnInv, OwnTemp, TempFile
<1> QED
  BY <1>4, <1>5 DEF OwnTemp

LEMMA NextOwn == TypeInv /\ OwnInv /\ [Next]_vars => OwnInv'
<1> SUFFICES ASSUME TypeInv, OwnInv, [Next]_vars
             PROVE  OwnInv'
  OBVIOUS
<1> USE DEF TypeInv, TypeOK, OwnInv, SerialsApart, OwnTemp, HoldsSerial, Guarded,
        TempName, TempFile, fsVars, argVars, envVars
<1>1. ASSUME NEW w \in Writers, NEW l \in Leaves, NEW o \in BOOLEAN, Begin(w, l, o)
      PROVE  OwnInv'
  BY <1>1 DEF Begin, Goto
<1>2. ASSUME NEW w \in Writers, Step(w)
      PROVE  OwnInv'
  BY <1>2, StepSerials, StepOwn
<1>3. ASSUME NEW p \in Procs, Crash(p)
      PROVE  OwnInv'
  BY <1>3 DEF Crash
<1>4. ASSUME NEW l \in Leaves, OutsideStep(l)
      PROVE  OwnInv'
  BY <1>4 DEF OutsideStep, OutsideCreate, OutsideRemove
<1>5. CASE UNCHANGED vars
  BY <1>5 DEF vars
<1> QED
  BY <1>1, <1>2, <1>3, <1>4, <1>5 DEF Next

\* A temporary file is never shared, whichever threads, processes and leavings
\* of dead processes meet in the destination.
THEOREM TempOwnership == Spec => []OwnTemp
<1>1. Spec => [](TypeInv /\ OwnInv)
  BY InitTypes, NextTypes, InitOwn, NextOwn, PTL DEF Spec
<1>2. TypeInv /\ OwnInv => OwnTemp
  BY DEF OwnInv
<1> QED
  BY <1>1, <1>2, PTL
-----------------------------------------------------------------------------
(* Where there are hard links a call publishes in one step or not at all.  *)

LinkedInv ==
  /\ \A w \in Writers : pc[w] \notin {"fallback", "copy", "unpublish"}
  /\ \A w \in Writers : pc[w] = "publish" => TempFile(w) \in written
  /\ PublishedWhole

LEMMA InitLinked == Init => LinkedInv
BY DEF Init, LinkedInv, PublishedWhole, Whole, Existing

LEMMA StepLinked ==
  ASSUME HardLinks, TypeInv, OwnInv, LinkedInv, NEW v \in Writers, Step(v)
  PROVE  LinkedInv'
<1> USE DEF TypeInv, TypeOK, LinkedInv, PublishedWhole, Whole, TempFile, fsVars,
        argVars, envVars, Goto, Return, ReturnGuarded
<1>1. pc[v] = "publish" => temp[TempName(v)] = TempFile(v) /\ TempFile(v) # NoFile
  BY NameTypes DEF OwnInv, OwnTemp, Guarded, CallCounted
<1>2. CASE pc[v] \in {"parent", "link", "free", "serial", "create", "drop"}
  BY <1>2 DEF Step, CreateParent, RejectLink, CheckFree, TakeSerial, CreateTemp,
     WriteTemp, Rename, HardLink, CreateOutput, CopyOutput, RemoveOutput, DropGuard
<1>3. CASE WriteTemp(v)
  BY <1>3 DEF WriteTemp
<1>4. CASE Rename(v)
  BY <1>1, <1>4 DEF Rename
<1>5. CASE HardLink(v)
  BY <1>1, <1>5 DEF HardLink
<1> QED
  BY <1>2, <1>3, <1>4, <1>5 DEF Step, CreateParent, RejectLink, CheckFree,
     TakeSerial, CreateTemp, CreateOutput, CopyOutput, RemoveOutput, DropGuard

LEMMA NextLinked ==
  HardLinks /\ TypeInv /\ OwnInv /\ LinkedInv /\ [Next]_vars => LinkedInv'
<1> SUFFICES ASSUME HardLinks, TypeInv, OwnInv, LinkedInv, [Next]_vars
             PROVE  LinkedInv'
  OBVIOUS
<1> USE DEF TypeInv, TypeOK, LinkedInv, PublishedWhole, Whole, TempFile, fsVars,
        argVars, envVars
<1>1. ASSUME NEW w \in Writers, NEW l \in Leaves, NEW o \in BOOLEAN, Begin(w, l, o)
      PROVE  LinkedInv'
  BY <1>1 DEF Begin, Goto
<1>2. ASSUME NEW w \in Writers, Step(w)
      PROVE  LinkedInv'
  BY <1>2, StepLinked
<1>3. ASSUME NEW p \in Procs, Crash(p)
      PROVE  LinkedInv'
  BY <1>3 DEF Crash
<1>4. ASSUME NEW l \in Leaves, OutsideStep(l)
      PROVE  LinkedInv'
  BY <1>4 DEF OutsideStep, OutsideCreate, OutsideRemove
<1>5. CASE UNCHANGED vars
  BY <1>5 DEF vars
<1> QED
  BY <1>1, <1>2, <1>3, <1>4, <1>5 DEF Next

LEMMA LinkedInvariant ==
  ASSUME HardLinks
  PROVE  Spec => [](TypeInv /\ OwnInv /\ LinkedInv)
BY InitTypes, NextTypes, InitOwn, NextOwn, InitLinked, NextLinked, PTL DEF Spec

\* "publishing it only after success": no interleaving and no crash shows an
\* incomplete file under an entry's name.
THEOREM PublishedIsWhole ==
  ASSUME HardLinks
  PROVE  Spec => []PublishedWhole
<1>1. LinkedInv => PublishedWhole
  BY DEF LinkedInv
<1> QED
  BY <1>1, LinkedInvariant, PTL

\* "A failed or cancelled writer never replaces an existing destination
\* file": only the user and a successful overwriting call do.
THEOREM ExistingIsKept ==
  ASSUME HardLinks
  PROVE  Spec => KeepsExisting
<1> DEFINE Keeps == \A l \in Leaves : leaf[l] # NoFile /\ leaf'[l] # leaf[l] =>
              \/ outs' # outs
              \/ \E w \in Writers :
                   /\ pc[w] = "publish" /\ overwrite[w] /\ target[w] = l
                   /\ leaf'[l] = TempFile(w) /\ result'[w] = "ok"
<1>1. TypeInv /\ OwnInv /\ LinkedInv /\ [Next]_vars => [Keeps]_vars
  <2> SUFFICES ASSUME TypeInv, OwnInv, LinkedInv, Next
               PROVE  Keeps
    OBVIOUS
  <2> USE DEF TypeInv, TypeOK, fsVars, argVars, envVars
  <2>1. ASSUME NEW w \in Writers, Step(w)
        PROVE  Keeps
    <3>1. CASE Rename(w)
      <4>1. temp[TempName(w)] = TempFile(w)
        BY <3>1 DEF Rename, OwnInv, OwnTemp, Guarded
      <4> QED
        BY <3>1, <4>1 DEF Rename, ReturnGuarded
    <3>2. CASE HardLink(w)
      BY <3>2 DEF HardLink
    <3>3. CASE ~Rename(w) /\ ~HardLink(w)
      BY <2>1, <3>3 DEF LinkedInv, Step, CreateParent, RejectLink, CheckFree,
         TakeSerial, CreateTemp, WriteTemp, CreateOutput, CopyOutput, RemoveOutput,
         DropGuard
    <3> QED
      BY <3>1, <3>2, <3>3
  <2>2. ASSUME NEW w \in Writers, NEW l \in Leaves, NEW o \in BOOLEAN, Begin(w, l, o)
        PROVE  Keeps
    BY <2>2 DEF Begin
  <2>3. ASSUME NEW p \in Procs, Crash(p)
        PROVE  Keeps
    BY <2>3 DEF Crash
  <2>4. ASSUME NEW l \in Leaves, OutsideStep(l)
        PROVE  Keeps
    BY <2>4 DEF OutsideStep, OutsideCreate, OutsideRemove
  <2> QED
    BY <2>1, <2>2, <2>3, <2>4 DEF Next
<1> QED
  BY <1>1, LinkedInvariant, PTL DEF Spec, KeepsExisting
-----------------------------------------------------------------------------
(* What a call has put in place, with or without hard links.               *)

\* A name shows a file of writer w's current call only once that call has
\* published, or as the copy it is filling under its own target.
Shows(w, l) ==
  \/ pc[w] = "idle" /\ result[w] \in {"ok", "crashed"}
  \/ pc[w] = "drop" /\ result[w] = "ok"
  \/ pc[w] \in {"copy", "unpublish"} /\ l = target[w] /\ leaf[l] = CopyFile(w)

\* No name shows a file of a call that has not begun.
NotYet == \A l \in Leaves, w \in Writers : \A n \in Calls :
  \A k \in {"temp", "copy"} :
    leaf[l] = [by |-> w, call |-> n, kind |-> k] => n <= call[w]

ShownInv ==
  /\ NotYet
  /\ \A w \in Writers, l \in Leaves :
       call[w] > 0 /\ leaf[l] \in {TempFile(w), CopyFile(w)} => Shows(w, l)

LEMMA InitShown == Init => ShownInv
<1> SUFFICES ASSUME Init PROVE ShownInv
  OBVIOUS
<1>1. ASSUME NEW l \in Leaves, NEW w \in Writers, NEW n \in Calls,
             NEW k \in {"temp", "copy"}
      PROVE  leaf[l] # [by |-> w, call |-> n, kind |-> k]
  <2>1. [by |-> w, call |-> n, kind |-> k] \in Files
    BY DEF Files
  <2>2. leaf[l] \in {NoFile, Existing}
    BY DEF Init
  <2> QED
    BY <2>1, <2>2, ExistingIsForeign
<1> QED
  BY <1>1 DEF Init, ShownInv, NotYet

LEMMA StepShown ==
  ASSUME ~CleanupFails, TypeInv, OwnInv, ShownInv, NEW v \in Writers, Step(v)
  PROVE  ShownInv'
<1> USE DEF TypeInv, TypeOK, fsVars, argVars, envVars, Goto, Return, ReturnGuarded
<1>1. /\ call' = call /\ target' = target
      /\ \A w \in Writers : w # v => pc'[w] = pc[w] /\ result'[w] = result[w]
  BY DEF Step, CreateParent, RejectLink, CheckFree, TakeSerial, CreateTemp,
     WriteTemp, Rename, HardLink, CreateOutput, CopyOutput, RemoveOutput, DropGuard
<1>2. pc[v] = "publish" => temp[TempName(v)] = TempFile(v)
  BY DEF OwnInv, OwnTemp, Guarded
<1>3. \/ leaf' = leaf
      \/ /\ leaf' = [leaf EXCEPT ![target[v]] = TempFile(v)]
         /\ pc'[v] = "drop" /\ result'[v] = "ok"
      \/ /\ leaf' = [leaf EXCEPT ![target[v]] = CopyFile(v)] /\ pc[v] = "fallback"
         /\ pc'[v] = "copy"
      \/ leaf' = [leaf EXCEPT ![target[v]] = NoFile] /\ pc[v] = "unpublish"
  BY <1>2 DEF Step, CreateParent, RejectLink, CheckFree, TakeSerial, CreateTemp,
     WriteTemp, Rename, HardLink, CreateOutput, CopyOutput, RemoveOutput, DropGuard
<1>4. call[v] \in Calls /\ NoFile # TempFile(v) /\ NoFile # CopyFile(v)
  <2>1. pc[v] # "idle"
    BY DEF Step, CreateParent, RejectLink, CheckFree, TakeSerial, CreateTemp,
       WriteTemp, Rename, HardLink, CreateOutput, CopyOutput, RemoveOutput, DropGuard
  <2> QED
    BY <2>1, NameTypes DEF CallCounted
<1>5. NotYet'
  <2> SUFFICES ASSUME NEW l \in Leaves, NEW w \in Writers, NEW n \in Calls,
                      NEW k \in {"temp", "copy"},
                      leaf'[l] = [by |-> w, call |-> n, kind |-> k]
               PROVE  n <= call[w]
    BY <1>1 DEF NotYet
  <2>1. CASE leaf'[l] = leaf[l]
    BY <2>1 DEF ShownInv, NotYet
  <2>2. CASE leaf'[l] \in {TempFile(v), CopyFile(v)}
    BY <1>4, <2>2 DEF TempFile, CopyFile
  <2>3. CASE leaf'[l] = NoFile
    BY <2>3 DEF Files
  <2> QED
    BY <1>3, <2>1, <2>2, <2>3
<1>6. ASSUME NEW w \in Writers, NEW l \in Leaves, call[w] > 0,
             leaf'[l] \in {TempFile(w), CopyFile(w)}
      PROVE  Shows(w, l)'
  <2>1. NoFile # TempFile(w) /\ NoFile # CopyFile(w)
    BY <1>6, NameTypes
  <2>2. CASE w # v
    <3>1. leaf'[l] = leaf[l]
      BY <1>3, <1>6, <2>1, <2>2 DEF TempFile, CopyFile
    <3>2. Shows(w, l)
      BY <1>6, <3>1 DEF ShownInv
    <3> QED
      BY <1>1, <2>2, <3>1, <3>2 DEF Shows, CopyFile
  <2>3. CASE w = v /\ leaf'[l] = leaf[l]
    <3>1. Shows(v, l)
      BY <1>6, <2>3 DEF ShownInv
    <3>2. pc[v] # "idle"
      BY DEF Step, CreateParent, RejectLink, CheckFree, TakeSerial, CreateTemp,
         WriteTemp, Rename, HardLink, CreateOutput, CopyOutput, RemoveOutput, DropGuard
    <3>3. CASE DropGuard(v)
      BY <2>3, <3>1, <3>3 DEF Shows, DropGuard
    <3>4. CASE CopyOutput(v)
      BY <1>1, <2>3, <3>1, <3>4 DEF Shows, CopyOutput, CopyFile
    <3>5. CASE RemoveOutput(v)
      BY <2>1, <2>3, <3>1, <3>5, <1>6 DEF Shows, RemoveOutput
    <3> QED
      BY <3>1, <3>2, <3>3, <3>4, <3>5 DEF Shows, Step, CreateParent, RejectLink,
         CheckFree, TakeSerial, CreateTemp, WriteTemp, Rename, HardLink, CreateOutput
  <2>4. CASE w = v /\ leaf'[l] # leaf[l]
    BY <1>1, <1>3, <1>6, <2>1, <2>4 DEF Shows, CopyFile
  <2> QED
    BY <2>2, <2>3, <2>4
<1> QED
  BY <1>1, <1>5, <1>6 DEF ShownInv, TempFile, CopyFile

LEMMA NextShown ==
  ~CleanupFails /\ TypeInv /\ OwnInv /\ ShownInv /\ [Next]_vars => ShownInv'
<1> SUFFICES ASSUME ~CleanupFails, TypeInv, OwnInv, ShownInv, [Next]_vars
             PROVE  ShownInv'
  OBVIOUS
<1> USE DEF TypeInv, TypeOK, ShownInv, NotYet, Shows, TempFile, CopyFile, fsVars,
        argVars, envVars
<1>1. ASSUME NEW w \in Writers, NEW l \in Leaves, NEW o \in BOOLEAN, Begin(w, l, o)
      PROVE  ShownInv'
  <2>1. /\ leaf' = leaf /\ result' = result /\ pc' = [pc EXCEPT ![w] = "parent"]
        /\ call' = [call EXCEPT ![w] = @ + 1] /\ call'[w] \in Calls
        /\ \A v \in Writers : v # w => target'[v] = target[v]
    BY <1>1 DEF Begin, Goto
  <2>2. \A k \in Leaves : leaf'[k] \notin {TempFile(w)', CopyFile(w)'}
    BY <2>1
  <2> QED
    BY <2>1, <2>2
<1>2. ASSUME NEW w \in Writers, Step(w)
      PROVE  ShownInv'
  BY <1>2, StepShown
<1>3. ASSUME NEW p \in Procs, Crash(p)
      PROVE  ShownInv'
  BY <1>3 DEF Crash
<1>4. ASSUME NEW l \in Leaves, OutsideStep(l)
      PROVE  ShownInv'
  <2>1. /\ UNCHANGED <<pc, call, target, result>>
        /\ \A k \in Leaves : leaf'[k] = leaf[k] \/ leaf'[k] = NoFile
             \/ leaf'[k].by = Outside
    BY <1>4 DEF OutsideStep, OutsideCreate, OutsideRemove
  <2>2. ASSUME NEW k \in Leaves, leaf'[k] \in Files, leaf'[k].by # Outside
        PROVE  leaf'[k] = leaf[k]
    BY <2>1, <2>2
  <2>3. NotYet'
    <3> SUFFICES ASSUME NEW k \in Leaves, NEW w \in Writers, NEW n \in Calls,
                        NEW q \in {"temp", "copy"},
                        leaf'[k] = [by |-> w, call |-> n, kind |-> q]
                 PROVE  n <= call'[w]
      OBVIOUS
    <3>1. leaf'[k] \in Files /\ leaf'[k].by # Outside
      BY DEF Files
    <3>2. leaf[k] = [by |-> w, call |-> n, kind |-> q]
      BY <2>2, <3>1
    <3>3. n <= call[w]
      BY <3>2
    <3> QED
      BY <2>1, <3>3
  <2>4. ASSUME NEW k \in Leaves, NEW w \in Writers, call'[w] > 0,
               leaf'[k] \in {TempFile(w)', CopyFile(w)'}
        PROVE  Shows(w, k)'
    <3>1. leaf'[k] \in Files /\ leaf'[k].by # Outside
      BY <2>1, <2>4 DEF Files
    <3>2. leaf'[k] = leaf[k]
      BY <2>2, <3>1
    <3> QED
      BY <2>1, <2>4, <3>2
  <2> QED
    BY <2>3, <2>4
<1>5. CASE UNCHANGED vars
  BY <1>5 DEF vars
<1> QED
  BY <1>1, <1>2, <1>3, <1>4, <1>5 DEF Next

\* A call that was refused, failed or was cancelled shows nothing of its own,
\* on any filesystem, provided the removal of a failed copy succeeds.
THEOREM FailuresLeaveNothing ==
  ASSUME ~CleanupFails
  PROVE  Spec => []FailureLeavesNothing
<1>1. Spec => [](TypeInv /\ OwnInv /\ ShownInv)
  BY InitTypes, NextTypes, InitOwn, NextOwn, InitShown, NextShown, PTL DEF Spec
<1>2. ShownInv => FailureLeavesNothing
  BY DEF ShownInv, FailureLeavesNothing, Shows
<1> QED
  BY <1>1, <1>2, PTL
-----------------------------------------------------------------------------
(* The refinement of AtomicOutput.                                         *)

\* What a call is about to report when it drops its guard; the fallback is for
\* calls without overwrite.
DropInv == \A w \in Writers :
  /\ pc[w] = "drop" => /\ result[w] \in {"ok", "clobber", "error"}
                       /\ result[w] = "clobber" => ~overwrite[w]
  /\ pc[w] \in {"fallback", "copy", "unpublish"} => ~overwrite[w]

LEMMA InitDrop == Init => DropInv
BY DEF Init, DropInv

LEMMA NextDrop == TypeInv /\ DropInv /\ [Next]_vars => DropInv'
<1> SUFFICES ASSUME TypeInv, DropInv, [Next]_vars
             PROVE  DropInv'
  OBVIOUS
<1> USE DEF TypeInv, TypeOK, DropInv, fsVars, argVars, envVars, Goto, Return,
        ReturnGuarded
<1>1. ASSUME NEW w \in Writers, Step(w)
      PROVE  DropInv'
  BY <1>1 DEF Step, CreateParent, RejectLink, CheckFree, TakeSerial, CreateTemp,
     WriteTemp, Rename, HardLink, CreateOutput, CopyOutput, RemoveOutput, DropGuard
<1>2. CASE ~\E w \in Writers : Step(w)
  BY <1>2 DEF Next, vars, Begin, Crash, OutsideStep, OutsideCreate, OutsideRemove
<1> QED
  BY <1>1, <1>2

LEMMA InitRefines == Init => Atomic!Init
<1> SUFFICES ASSUME Init PROVE Atomic!Init
  OBVIOUS
<1>1. ASSUME NEW l \in Leaves
      PROVE  Entry(leaf[l]) \in {NoFile, [by |-> Outside, call |-> 0]}
  BY ExistingIsForeign DEF Init, Entry, Existing
<1> QED
  BY <1>1 DEF Init, Atomic!Init, Status

StepInv == TypeInv /\ OwnInv /\ DropInv

\* A step of a call is a commit, a return, or invisible.
LEMMA StepRefines ==
  ASSUME StepInv, FallbackFree, FallbackFree', NEW w \in Writers, Step(w)
  PROVE  [Atomic!Next]_(Atomic!vars)
<1> USE DEF TypeInv, TypeOK, FallbackFree, fsVars, argVars, envVars, Goto, Return,
        ReturnGuarded
<1>1. CASE pc[w] = "publish" /\ pc'[w] = "drop" /\ result'[w] = "ok"
  <2>1. /\ leaf' = [leaf EXCEPT ![target[w]] = TempFile(w)]
        /\ overwrite[w] \/ leaf[target[w]] = NoFile
        /\ pc' = [pc EXCEPT ![w] = "drop"] /\ result' = [result EXCEPT ![w] = "ok"]
        /\ UNCHANGED <<call, target, overwrite, outs>>
    <3>1. temp[TempName(w)] = TempFile(w)
      BY <1>1 DEF StepInv, OwnInv, OwnTemp, Guarded
    <3> QED
      BY <1>1, <3>1 DEF StepInv, Step, CreateParent, RejectLink, CheckFree,
         TakeSerial, CreateTemp, WriteTemp, Rename, HardLink, CreateOutput,
         CopyOutput, RemoveOutput, DropGuard
  <2>2. Entry(TempFile(w)) = [by |-> w, call |-> call[w]]
    <3>1. TempFile(w) # NoFile
      BY <1>1, NameTypes DEF StepInv, CallCounted
    <3> QED
      BY <3>1 DEF Entry, TempFile
  <2>3. Status(w) = "running" /\ Status(w)' = "committed"
    BY <1>1 DEF Status
  <2>4. [l \in Leaves |-> Entry(leaf[l])]' =
          [[l \in Leaves |-> Entry(leaf[l])]
             EXCEPT ![target[w]] = [by |-> w, call |-> call[w]]]
    BY <2>1, <2>2 DEF StepInv
  <2>5. [v \in Writers |-> Status(v)]' =
          [[v \in Writers |-> Status(v)] EXCEPT ![w] = "committed"]
    BY <2>1, <2>3 DEF StepInv, Status
  <2>6. [v \in Writers |-> IF pc[v] = "idle" THEN result[v] ELSE "none"]' =
          [v \in Writers |-> IF pc[v] = "idle" THEN result[v] ELSE "none"]
    BY <1>1, <2>1 DEF StepInv
  <2>7. target[w] \in Leaves
    BY DEF StepInv
  <2>8. Atomic!Commit(w)
    BY <2>1, <2>3, <2>4, <2>5, <2>6, <2>7 DEF Atomic!Commit, Entry
  <2> QED
    BY <2>8 DEF Atomic!Next
<1>2. CASE pc'[w] = "idle"
  <2>1. /\ pc[w] # "idle" /\ leaf' = leaf
        /\ pc' = [pc EXCEPT ![w] = "idle"]
        /\ \A v \in Writers : v # w => result'[v] = result[v]
        /\ UNCHANGED <<call, target, overwrite, outs>>
    BY <1>2 DEF StepInv, Step, CreateParent, RejectLink, CheckFree, TakeSerial,
       CreateTemp, WriteTemp, Rename, HardLink, CreateOutput, CopyOutput,
       RemoveOutput, DropGuard
  <2>2. /\ result'[w] \in IF Status(w) = "committed" THEN {"ok"}
                            ELSE {"clobber", "traversal", "error"}
        /\ result'[w] = "clobber" => ~overwrite[w]
    BY <1>2 DEF StepInv, Status, DropInv, Step, CreateParent, RejectLink, CheckFree,
       TakeSerial, CreateTemp, WriteTemp, Rename, HardLink, CreateOutput, CopyOutput,
       RemoveOutput, DropGuard
  <2>3. [v \in Writers |-> Status(v)]' =
          [[v \in Writers |-> Status(v)] EXCEPT ![w] = "idle"]
    BY <2>1 DEF StepInv, Status
  <2>4. [v \in Writers |-> IF pc[v] = "idle" THEN result[v] ELSE "none"]' =
          [[v \in Writers |-> IF pc[v] = "idle" THEN result[v] ELSE "none"]
             EXCEPT ![w] = result'[w]]
    BY <2>1 DEF StepInv
  <2>5. Status(w) # "idle"
    BY <2>1 DEF Status
  <2>6. [l \in Leaves |-> Entry(leaf[l])]' = [l \in Leaves |-> Entry(leaf[l])]
    BY <2>1
  <2>7. Atomic!Finish(w)
    BY <2>1, <2>2, <2>3, <2>4, <2>5, <2>6 DEF Atomic!Finish
  <2> QED
    BY <2>7 DEF Atomic!Next
<1>3. CASE /\ pc'[w] # "idle"
           /\ ~(pc[w] = "publish" /\ pc'[w] = "drop" /\ result'[w] = "ok")
  <2>1. /\ pc[w] # "idle" /\ leaf' = leaf
        /\ \A v \in Writers : v # w => pc'[v] = pc[v] /\ result'[v] = result[v]
        /\ pc[w] # "drop" /\ (pc'[w] = "drop" => result'[w] # "ok")
        /\ UNCHANGED <<call, target, overwrite, outs>>
    BY <1>3 DEF StepInv, Step, CreateParent, RejectLink, CheckFree,
       TakeSerial, CreateTemp, WriteTemp, Rename, HardLink, CreateOutput, CopyOutput,
       RemoveOutput, DropGuard
  <2>2. [v \in Writers |-> Status(v)]' = [v \in Writers |-> Status(v)]
    BY <1>3, <2>1 DEF Status
  <2>3. [v \in Writers |-> IF pc[v] = "idle" THEN result[v] ELSE "none"]' =
          [v \in Writers |-> IF pc[v] = "idle" THEN result[v] ELSE "none"]
    BY <1>3, <2>1
  <2>4. [l \in Leaves |-> Entry(leaf[l])]' = [l \in Leaves |-> Entry(leaf[l])]
    BY <2>1
  <2> QED
    BY <2>1, <2>2, <2>3, <2>4 DEF Atomic!vars
<1> QED
  BY <1>1, <1>2, <1>3

\* So is every other step of the destination's life.
LEMMA NextRefines ==
  StepInv /\ FallbackFree /\ FallbackFree' /\ [Next]_vars => [Atomic!Next]_(Atomic!vars)
<1> SUFFICES ASSUME StepInv, FallbackFree, FallbackFree', [Next]_vars
             PROVE  [Atomic!Next]_(Atomic!vars)
  OBVIOUS
<1> USE DEF TypeInv, TypeOK, fsVars, argVars, envVars, Goto
<1>1. ASSUME NEW w \in Writers, NEW l \in Leaves, NEW o \in BOOLEAN, Begin(w, l, o)
      PROVE  Atomic!Start(w, l, o)
  <2>1. Status(w) = "idle"
    BY <1>1 DEF Begin, Status
  <2>2. [v \in Writers |-> Status(v)]' =
          [[v \in Writers |-> Status(v)] EXCEPT ![w] = "running"]
    BY <1>1 DEF Begin, StepInv, Status
  <2>3. [v \in Writers |-> IF pc[v] = "idle" THEN result[v] ELSE "none"]' =
          [[v \in Writers |-> IF pc[v] = "idle" THEN result[v] ELSE "none"]
             EXCEPT ![w] = "none"]
    BY <1>1 DEF Begin, StepInv
  <2> QED
    BY <1>1, <2>1, <2>2, <2>3 DEF Begin, Atomic!Start
<1>2. ASSUME NEW w \in Writers, Step(w)
      PROVE  [Atomic!Next]_(Atomic!vars)
  BY <1>2, StepRefines
<1>3. ASSUME NEW p \in Procs, Crash(p)
      PROVE  \E W \in SUBSET Writers : Atomic!Die(W)
  <2>1. PICK D \in SUBSET Writers :
          D = {w \in Writers : ProcOf[w] = p /\ pc[w] # "idle"}
    OBVIOUS
  <2>2. D # {} /\ \A w \in D : Status(w) # "idle"
    BY <1>3, <2>1 DEF Crash, Status
  <2>3. [v \in Writers |-> Status(v)]' =
          [v \in Writers |-> IF v \in D THEN "idle" ELSE Status(v)]
    BY <1>3, <2>1 DEF Crash, Status
  <2>4. [v \in Writers |-> IF pc[v] = "idle" THEN result[v] ELSE "none"]' =
          [v \in Writers |-> IF v \in D THEN "crashed"
                             ELSE IF pc[v] = "idle" THEN result[v] ELSE "none"]
    BY <1>3, <2>1 DEF Crash
  <2>5. Atomic!Die(D)
    BY <1>3, <2>2, <2>3, <2>4 DEF Crash, Atomic!Die
  <2> QED
    BY <2>5
<1>4. ASSUME NEW l \in Leaves, OutsideStep(l)
      PROVE  Atomic!OutsideChange(l)
  <2>1. \E f \in Files \cup {NoFile} :
          /\ f = NoFile \/ Entry(f) = [by |-> Outside, call |-> outs + 1]
          /\ leaf' = [leaf EXCEPT ![l] = f]
    <3>1. ASSUME NEW kind \in {"file", "link"}, OutsideCreate(l, kind)
          PROVE  LET f == [by |-> Outside, call |-> outs + 1, kind |-> kind]
                 IN  f \in Files /\ f # NoFile
      BY <3>1 DEF OutsideCreate, StepInv, Files
    <3> QED
      BY <1>4, <3>1 DEF OutsideStep, OutsideCreate, OutsideRemove, Entry
  <2>2. PICK f \in Files \cup {NoFile} :
          /\ f = NoFile \/ Entry(f) = [by |-> Outside, call |-> outs + 1]
          /\ leaf' = [leaf EXCEPT ![l] = f]
    BY <2>1
  <2>3. [k \in Leaves |-> Entry(leaf[k])]' =
          [[k \in Leaves |-> Entry(leaf[k])] EXCEPT ![l] = Entry(f)]
    BY <2>2 DEF StepInv
  <2>4. Entry(NoFile) = NoFile
    BY DEF Entry
  <2>5. [v \in Writers |-> Status(v)]' = [v \in Writers |-> Status(v)]
    BY <1>4 DEF OutsideStep, OutsideCreate, OutsideRemove, Status
  <2>6. /\ outs < MaxOutside /\ outs' = outs + 1
        /\ UNCHANGED <<pc, result, call, target, overwrite>>
    BY <1>4 DEF OutsideStep, OutsideCreate, OutsideRemove
  <2> QED
    BY <2>2, <2>3, <2>4, <2>5, <2>6 DEF Atomic!OutsideChange
<1>5. CASE UNCHANGED vars
  BY <1>5 DEF vars, Atomic!vars, Status
<1> QED
  BY <1>1, <1>2, <1>3, <1>4, <1>5 DEF Next, Atomic!Next

LEMMA StepInvariant == Spec => []StepInv
BY InitTypes, NextTypes, InitOwn, NextOwn, InitDrop, NextDrop, PTL DEF Spec, StepInv

\* Whatever the filesystem and whoever else writes, every step outside the
\* fallback is a step of the abstract destination.
THEOREM StepsAreAtomic == Spec => ImplementsAtomicOutput
<1> DEFINE Step1 == FallbackFree /\ FallbackFree' => [Atomic!Next]_(Atomic!vars)
<1>1. StepInv /\ [Next]_vars => [Step1]_vars
  BY NextRefines
<1> QED
  BY <1>1, InitRefines, StepInvariant, PTL DEF Spec, ImplementsAtomicOutput

\* Where there are hard links the whole protocol, temporary files, links, guards
\* and crashes included, behaves as if entries were put in place atomically.
THEOREM Refinement ==
  ASSUME HardLinks
  PROVE  Spec => Atomic!Spec
<1>1. LinkedInv => FallbackFree
  BY DEF LinkedInv, FallbackFree
<1>2. Spec => []FallbackFree
  BY <1>1, LinkedInvariant, PTL
<1> QED
  BY <1>2, StepInvariant, InitRefines, NextRefines, PTL DEF Spec, Atomic!Spec

-----------------------------------------------------------------------------
(* Batches: the loops around the calls.                                    *)

\* The entries begun and the verdicts given, by phase.
Placed(w) ==
  /\ job[w] \in JobsOf[w]
  /\ at[w] <= Len(Entries(w))
  /\ phase[w] # "call" => pc[w] = "idle"
  /\ phase[w] \in {"idle", "entry", "rest"} => Len(verdict[w]) = at[w]
  /\ phase[w] = "idle" => at[w] = 0
  /\ phase[w] = "call" =>
       /\ Len(verdict[w]) = at[w] - 1 /\ call[w] > 0
       /\ target[w] = Entries(w)[at[w]] /\ overwrite[w] = job[w].overwrite
  /\ phase[w] = "ended" => Len(verdict[w]) <= at[w]
  /\ phase[w] = "rest" => Failures(w)

\* What a verdict means.
Judged(w) ==
  /\ phase[w] # "ended" => \A k \in 1..Len(verdict[w]) : verdict[w][k] # "uncounted"
  /\ \A k \in 1..Len(verdict[w]) : verdict[w][k] = "skipped" => ~job[w].overwrite
  /\ outcome[w] = "ok" =>
       /\ phase[w] = "ended" /\ ~Cancelled(w) /\ Len(verdict[w]) = Len(Entries(w))
       /\ \A k \in 1..Len(verdict[w]) : verdict[w][k] \in {"ok", "skipped"}

\* The call in hand, and what it is about to return.
Calling(w) ==
  phase[w] = "call" =>
    /\ pc[w] = "idle" => result[w] \in {"ok", "clobber", "traversal", "error"}
    /\ pc[w] = "idle" /\ result[w] = "clobber" => ~overwrite[w]
    /\ cause[w] # "none" => pc[w] \in {"drop", "idle"} /\ result[w] = "error"

\* The steps that may put a file of the call under its name.
Publishing == {"publish", "fallback"}

\* The call that had not decoded its entry when the flag was set.
Spared(w) ==
  Cancelled(w) =>
    /\ call[w] <= asked[w] + 1
    /\ pc[w] \in Publishing /\ job[w].loop # "streaming" => call[w] <= asked[w]

LoopInv(w) == Placed(w) /\ Judged(w) /\ Calling(w) /\ Spared(w)

\* Inductive: all loops, with their types.
LoopsInv == BatchTypeOK /\ \A w \in Writers : LoopInv(w)

\* What shows under a name has been counted, or is about to be.
Counted(w, l) == \E k \in 1..Len(verdict[w]) : Entries(w)[k] = l /\ verdict[w][k] = "ok"

\* The call under way has published it.
InHand(w, l) == phase[w] = "call" /\ leaf[l].call = call[w] /\ target[w] = l

Given(w, l) ==
  \/ Counted(w, l)
  \/ phase[w] = "ended" /\ outcome[w] = "crashed"
  \/ /\ phase[w] = "ended" /\ outcome[w] = "cancelled"
     /\ at[w] \in 1..Len(verdict[w]) /\ Entries(w)[at[w]] = l

Accounted ==
  \A w \in Writers, l \in Leaves : leaf[l] # NoFile /\ leaf[l].by = w =>
    Given(w, l) \/ InHand(w, l)

-----------------------------------------------------------------------------
\* A batch only makes the calls of ExtractionDir.

LEMMA BatchMoves ==
  ASSUME BatchTypeOK, NEW w \in Writers, BatchStep(w)
  PROVE  \/ UNCHANGED vars
         \/ Step(w)
         \/ \E l \in Leaves, o \in BOOLEAN : Begin(w, l, o)
<1>1. CASE BeginEntry(w)
  <2>1. job[w].overwrite \in BOOLEAN
    BY DEF BatchTypeOK, Jobs
  <2> DEFINE l == Entries(w)[at[w] + 1]
  <2>2. l \in Leaves /\ (UNCHANGED vars \/ Begin(w, l, job[w].overwrite))
    BY <1>1 DEF BeginEntry
  <2> HIDE DEF l
  <2> QED
    BY <2>1, <2>2
<1>2. CASE ~BeginEntry(w)
  BY <1>2 DEF BatchStep, Preflight, StopForFlag, WalkFails, MakeFolder, CallStep, Settle, Finish
<1> QED
  BY <1>1, <1>2

LEMMA BatchIsNext == BatchTypeOK /\ [BatchNext]_allVars => [Next]_vars
<1> SUFFICES ASSUME BatchTypeOK, [BatchNext]_allVars PROVE [Next]_vars
  OBVIOUS
<1>1. ASSUME NEW w \in Writers, BatchStep(w) PROVE [Next]_vars
  BY <1>1, BatchMoves DEF Next
<1>2. ASSUME NEW w \in Writers, Cancel(w) PROVE [Next]_vars
  BY <1>2 DEF Cancel
<1>3. ASSUME NEW p \in Procs, Death(p) PROVE [Next]_vars
  BY <1>3 DEF Death, Next
<1>4. ASSUME NEW l \in Leaves, Others(l) PROVE [Next]_vars
  BY <1>4 DEF Others, Next
<1>5. CASE UNCHANGED allVars
  BY <1>5 DEF allVars
<1> QED
  BY <1>1, <1>2, <1>3, <1>4, <1>5 DEF BatchNext

Verdicts == {"ok", "skipped", "failed", "uncounted"}

\* One verdict more, for one writer.
LEMMA JudgeGrows ==
  ASSUME verdict \in [Writers -> Seq(Verdicts)], NEW w \in Writers, NEW v \in Verdicts,
         Judge(w, v)
  PROVE  /\ verdict' \in [Writers -> Seq(Verdicts)]
         /\ Len(verdict'[w]) = Len(verdict[w]) + 1
         /\ \A k \in 1..Len(verdict[w]) : verdict'[w][k] = verdict[w][k]
         /\ verdict'[w][Len(verdict[w]) + 1] = v
         /\ \A u \in Writers : u # w => verdict'[u] = verdict[u]
<1>1. verdict[w] \in Seq(Verdicts)
  OBVIOUS
<1>2. verdict'[w] = Append(verdict[w], v) /\ verdict' = [verdict EXCEPT ![w] = Append(verdict[w], v)]
  BY DEF Judge
<1> QED
  BY <1>1, <1>2, AppendProperties

\* A writer whose state a step leaves alone.
Untouched(v) ==
  /\ job' = job /\ phase'[v] = phase[v] /\ at'[v] = at[v] /\ asked'[v] = asked[v]
  /\ cause'[v] = cause[v] /\ verdict'[v] = verdict[v] /\ outcome'[v] = outcome[v]
  /\ pc'[v] = pc[v] /\ result'[v] = result[v] /\ call'[v] = call[v]
  /\ target'[v] = target[v] /\ overwrite'[v] = overwrite[v]

LEMMA Frame == ASSUME NEW v \in Writers, LoopInv(v), Untouched(v) PROVE LoopInv(v)'
  BY DEF Untouched, LoopInv, Placed, Judged, Calling, Spared, Entries, Failures, Cancelled

\* What a step of a call does to its own writer, and that it leaves the others.
LEMMA StepShape ==
  ASSUME TypeInv, DropInv, NEW v \in Writers, Step(v)
  PROVE  /\ pc[v] # "idle" /\ UNCHANGED <<call, target, overwrite>>
         /\ \A u \in Writers : u # v => pc'[u] = pc[u] /\ result'[u] = result[u]
         /\ pc'[v] = "idle" =>
              /\ result'[v] \in {"ok", "clobber", "traversal", "error"}
              /\ result'[v] = "clobber" => ~overwrite[v]
         /\ pc[v] \in Undecoded =>
              \/ pc'[v] \in Undecoded
              \/ pc[v] = "write" /\ pc'[v] = "publish"
              \/ pc'[v] \in {"drop", "idle"} /\ result'[v] # "ok"
         /\ pc[v] = "write" /\ pc'[v] # "publish" => pc'[v] = "drop" /\ result'[v] = "error"
         /\ pc[v] = "drop" => pc'[v] = "idle" /\ result'[v] = result[v]
         /\ pc'[v] \in {"publish", "fallback"} /\ pc[v] # "write" =>
              pc[v] \in {"publish", "fallback"}
         /\ pc'[v] \in Undecoded => pc[v] \in Undecoded
<1> USE DEF TypeInv, TypeOK, fsVars, argVars, envVars, Goto, Return, ReturnGuarded
<1>1. /\ pc[v] # "idle" /\ UNCHANGED <<call, target, overwrite>>
      /\ \A u \in Writers : u # v => pc'[u] = pc[u] /\ result'[u] = result[u]
  BY DEF Step, CreateParent, RejectLink, CheckFree, TakeSerial, CreateTemp, WriteTemp,
     Rename, HardLink, CreateOutput, CopyOutput, RemoveOutput, DropGuard
<1>2. pc'[v] = "idle" =>
        /\ result'[v] \in {"ok", "clobber", "traversal", "error"}
        /\ result'[v] = "clobber" => ~overwrite[v]
  BY DEF DropInv, Step, CreateParent, RejectLink, CheckFree, TakeSerial, CreateTemp, WriteTemp,
     Rename, HardLink, CreateOutput, CopyOutput, RemoveOutput, DropGuard
<1>3. pc[v] \in Undecoded =>
        \/ pc'[v] \in Undecoded
        \/ pc[v] = "write" /\ pc'[v] = "publish"
        \/ pc'[v] \in {"drop", "idle"} /\ result'[v] # "ok"
  BY DEF Undecoded, Step, CreateParent, RejectLink, CheckFree, TakeSerial, CreateTemp, WriteTemp,
     Rename, HardLink, CreateOutput, CopyOutput, RemoveOutput, DropGuard
<1>4. /\ pc[v] = "write" /\ pc'[v] # "publish" => pc'[v] = "drop" /\ result'[v] = "error"
      /\ pc[v] = "drop" => pc'[v] = "idle" /\ result'[v] = result[v]
  BY DEF Step, CreateParent, RejectLink, CheckFree, TakeSerial, CreateTemp, WriteTemp,
     Rename, HardLink, CreateOutput, CopyOutput, RemoveOutput, DropGuard
<1>5. /\ pc'[v] \in {"publish", "fallback"} /\ pc[v] # "write" =>
           pc[v] \in {"publish", "fallback"}
      /\ pc'[v] \in Undecoded => pc[v] \in Undecoded
  BY DEF Undecoded, Step, CreateParent, RejectLink, CheckFree, TakeSerial, CreateTemp, WriteTemp,
     Rename, HardLink, CreateOutput, CopyOutput, RemoveOutput, DropGuard
<1> QED
  BY <1>1, <1>2, <1>3, <1>4, <1>5

LEMMA Elsewhere ==
  ASSUME BatchTypeOK, TypeInv, DropInv, NEW w \in Writers, BatchStep(w) \/ Cancel(w),
         NEW v \in Writers, v # w
  PROVE  Untouched(v)
<1> USE DEF BatchTypeOK, Untouched
<1>1. CASE CallStep(w)
  <2>1. UNCHANGED <<call, target, overwrite>> /\ pc'[v] = pc[v] /\ result'[v] = result[v]
    BY <1>1, StepShape DEF CallStep
  <2>2. cause'[v] = cause[v]
    BY <1>1 DEF CallStep, DecodeEnds
  <2> QED
    BY <1>1, <2>1, <2>2 DEF CallStep
<1>2. CASE BeginEntry(w)
  BY <1>2 DEF BeginEntry, Begin, Goto, GoOn, Abort, End, Judge, TypeOK, vars
<1>3. CASE ~CallStep(w) /\ ~BeginEntry(w)
  BY <1>3 DEF BatchStep, Preflight, StopForFlag, WalkFails, MakeFolder, Settle, SettleCore,
     SettleWindow, Finish, GoOn, Abort, End, Judge, Cancel, vars
<1> QED
  BY <1>1, <1>2, <1>3

-----------------------------------------------------------------------------
\* What each step makes of its own batch.

\* A batch that ends without a verdict.
LEMMA Ends ==
  ASSUME BatchTypeOK, NEW w \in Writers, LoopInv(w), phase[w] # "call",
         NEW r \in {"error", "cancelled"}, End(w, r),
         UNCHANGED <<vars, job, at, asked, cause, verdict>>
  PROVE  LoopInv(w)'
<1>1. /\ phase'[w] = "ended" /\ outcome'[w] # "ok" /\ pc' = pc
      /\ UNCHANGED <<job, at, asked, verdict>>
  BY DEF End, BatchTypeOK, vars
<1>2. /\ at[w] \in Nat /\ verdict[w] \in Seq(Verdicts)
      /\ phase[w] \in {"idle", "entry", "rest", "ended"}
  BY DEF BatchTypeOK, Verdicts
<1>3. Placed(w)' /\ Judged(w)'
  BY <1>1, <1>2 DEF LoopInv, Placed, Judged, Entries
<1>4. Calling(w)' /\ Spared(w)'
  BY <1>1 DEF LoopInv, Calling, Spared, Cancelled, vars
<1> QED
  BY <1>3, <1>4 DEF LoopInv

LEMMA PreflightKeeps ==
  ASSUME BatchTypeOK, NEW w \in Writers, LoopInv(w), Preflight(w)
  PROVE  LoopInv(w)'
<1>1. ASSUME NEW r \in {"error", "cancelled"}, End(w, r)
      PROVE  LoopInv(w)'
  BY <1>1, Ends DEF Preflight
<1>2. CASE GoOn(w, "entry")
  BY <1>2 DEF Preflight, GoOn, BatchTypeOK, LoopInv, Placed, Judged, Calling, Spared,
     Entries, Failures, Cancelled, vars
<1> QED
  BY <1>1, <1>2 DEF Preflight, Abort

LEMMA StopsKeep ==
  ASSUME BatchTypeOK, NEW w \in Writers, LoopInv(w), StopForFlag(w) \/ WalkFails(w)
  PROVE  LoopInv(w)'
<1>1. ASSUME NEW r \in {"error", "cancelled"}, End(w, r)
      PROVE  LoopInv(w)'
  BY <1>1, Ends DEF StopForFlag, WalkFails
<1> QED
  BY <1>1 DEF StopForFlag, WalkFails, Abort

LEMMA FinishKeeps ==
  ASSUME BatchTypeOK, NEW w \in Writers, LoopInv(w), Finish(w)
  PROVE  LoopInv(w)'
<1>1. ASSUME NEW r \in {"error", "cancelled"}, End(w, r)
      PROVE  LoopInv(w)'
  BY <1>1, Ends DEF Finish
<1>2. CASE ~Failures(w) /\ ~Cancelled(w)
  <2>1. Len(verdict[w]) = Len(Entries(w))
    BY <1>2 DEF Finish, LoopInv, Placed
  <2>2. \A k \in 1..Len(verdict[w]) : verdict[w][k] \in {"ok", "skipped"}
    <3>1. verdict[w] \in Seq(Verdicts)
      BY DEF BatchTypeOK, Verdicts
    <3>2. \A k \in 1..Len(verdict[w]) : verdict[w][k] \in Verdicts
      BY <3>1, ElementOfSeq
    <3> QED
      BY <1>2, <3>2 DEF Finish, Failures, LoopInv, Judged, Verdicts
  <2> QED
    BY <1>2, <2>1, <2>2 DEF Finish, End, BatchTypeOK, LoopInv, Placed, Judged, Calling,
       Spared, Entries, Failures, Cancelled, vars
<1> QED
  BY <1>1, <1>2 DEF Finish

LEMMA MakeFolderKeeps ==
  ASSUME BatchTypeOK, NEW w \in Writers, LoopInv(w), MakeFolder(w)
  PROVE  LoopInv(w)'
<1>1. PICK v \in {"ok", "failed"} : Judge(w, v)
  BY DEF MakeFolder
<1>2. /\ Len(verdict'[w]) = Len(verdict[w]) + 1
      /\ \A k \in 1..Len(verdict[w]) : verdict'[w][k] = verdict[w][k]
      /\ verdict'[w][Len(verdict[w]) + 1] = v
  BY <1>1, JudgeGrows DEF BatchTypeOK, Verdicts
<1>3. Len(verdict[w]) = at[w] /\ at[w] \in Nat /\ Len(Entries(w)) \in Nat
  BY DEF LoopInv, Placed, MakeFolder, BatchTypeOK, Jobs, Entries
<1>4. /\ at'[w] = at[w] + 1 /\ UNCHANGED <<vars, job, asked, cause>>
      /\ pc[w] = "idle" /\ ~Cancelled(w)
      /\ \/ phase'[w] = "entry" /\ outcome'[w] = outcome[w]
         \/ phase'[w] = "ended" /\ outcome'[w] = "error"
  BY DEF MakeFolder, BatchTypeOK, GoOn, Abort, End, LoopInv, Placed
<1> HIDE DEF MakeFolder
<1>5. Placed(w)'
  BY <1>2, <1>3, <1>4 DEF LoopInv, Placed, Entries, vars, MakeFolder
<1>6. Judged(w)'
  <2>1. \A k \in 1..Len(verdict'[w]) : k \in 1..Len(verdict[w]) \/ verdict'[w][k] = v
    BY <1>2, <1>3
  <2>2. phase[w] = "entry" /\ outcome'[w] # "ok"
    BY <1>4 DEF MakeFolder, LoopInv, Judged
  <2> QED
    BY <1>2, <1>4, <2>1, <2>2 DEF LoopInv, Judged, Cancelled
<1>7. Calling(w)' /\ Spared(w)'
  BY <1>4 DEF Calling, Spared, Cancelled, vars
<1> QED
  BY <1>5, <1>6, <1>7 DEF LoopInv

\* The call begins: the guard of the archive first, in the window.
LEMMA BeginEntryKeeps ==
  ASSUME BatchTypeOK, TypeInv, NEW w \in Writers, LoopInv(w), BeginEntry(w)
  PROVE  LoopInv(w)'
<1> DEFINE l == Entries(w)[at[w] + 1]
<1>1. /\ phase[w] = "entry" /\ at[w] < Len(Entries(w)) /\ ~Cancelled(w) /\ pc[w] = "idle"
      /\ Len(verdict[w]) = at[w] /\ at[w] \in Nat /\ Len(Entries(w)) \in Nat
      /\ at'[w] = at[w] + 1 /\ cause'[w] = "none" /\ job' = job /\ asked' = asked
  BY DEF BeginEntry, BatchTypeOK, Jobs, Entries, LoopInv, Placed
<1>2. CASE Abort(w) /\ Judge(w, "failed") /\ UNCHANGED vars
  <2>1. /\ Len(verdict'[w]) = Len(verdict[w]) + 1
        /\ \A k \in 1..Len(verdict[w]) : verdict'[w][k] = verdict[w][k]
        /\ verdict'[w][Len(verdict[w]) + 1] = "failed"
    BY <1>2, JudgeGrows DEF BatchTypeOK, Verdicts
  <2>2. phase'[w] = "ended" /\ outcome'[w] = "error"
    BY <1>1, <1>2 DEF Abort, End, BatchTypeOK
  <2>3. \A k \in 1..Len(verdict'[w]) : k \in 1..Len(verdict[w]) \/ verdict'[w][k] = "failed"
    BY <1>1, <2>1
  <2>4. Placed(w)'
    BY <1>1, <1>2, <2>1, <2>2 DEF LoopInv, Placed, Entries, vars
  <2>6. Judged(w)'
    BY <1>1, <2>1, <2>2, <2>3 DEF LoopInv, Judged
  <2>5. Calling(w)' /\ Spared(w)'
    BY <1>1, <2>2 DEF Calling, Spared, Cancelled
  <2> QED
    BY <2>4, <2>5, <2>6 DEF LoopInv
<1>3. CASE Begin(w, l, job[w].overwrite) /\ GoOn(w, "call") /\ UNCHANGED verdict
  <2>1. phase'[w] = "call" /\ outcome' = outcome /\ outcome[w] # "ok"
    BY <1>1, <1>3 DEF GoOn, BatchTypeOK, LoopInv, Judged
  <2>2. /\ pc'[w] = "parent" /\ call'[w] = call[w] + 1 /\ call[w] \in Nat
        /\ target'[w] = l /\ overwrite'[w] = job[w].overwrite
    BY <1>3 DEF Begin, Goto, TypeInv, TypeOK
  <2>3. Placed(w)' /\ Judged(w)'
    BY <1>1, <1>3, <2>1, <2>2 DEF LoopInv, Placed, Judged, Entries
  <2>4. Calling(w)' /\ Spared(w)'
    BY <1>1, <2>1, <2>2 DEF Calling, Spared, Cancelled
  <2> QED
    BY <2>3, <2>4 DEF LoopInv
<1> QED
  BY <1>2, <1>3 DEF BeginEntry

\* A step inside a call: once cancelled, only the streaming loop publishes.
LEMMA CallStepKeeps ==
  ASSUME BatchTypeOK, TypeInv, DropInv, NEW w \in Writers, LoopInv(w), CallStep(w)
  PROVE  LoopInv(w)'
<1>1. /\ phase[w] = "call" /\ Step(w)
      /\ UNCHANGED <<job, phase, at, asked, verdict, outcome, call, target, overwrite>>
  BY StepShape DEF CallStep
<1>2. pc[w] # "write" => cause' = cause
  BY DEF CallStep
<1>3. CASE pc[w] = "write"
  <2>1. CASE pc'[w] = "publish"
    <3>1. cause' = cause /\ (~Cancelled(w) \/ job[w].loop = "streaming")
      BY <1>3, <2>1 DEF CallStep, DecodeEnds
    <3>2. Placed(w)' /\ Judged(w)' /\ Calling(w)'
      BY <1>1, <1>3, <2>1, <3>1 DEF LoopInv, Placed, Judged, Calling, Entries, Failures,
         Cancelled
    <3>3. Spared(w)'
      BY <1>1, <2>1, <3>1 DEF LoopInv, Spared, Cancelled
    <3> QED
      BY <3>2, <3>3 DEF LoopInv
  <2>2. CASE pc'[w] # "publish"
    <3>1. pc'[w] = "drop" /\ result'[w] = "error"
      BY <1>1, <1>3, <2>2, StepShape
    <3>2. Placed(w)' /\ Judged(w)' /\ Calling(w)'
      BY <1>1, <1>3, <3>1 DEF LoopInv, Placed, Judged, Calling, Entries, Failures, Cancelled
    <3>3. Spared(w)'
      BY <1>1, <3>1 DEF LoopInv, Spared, Cancelled, Publishing
    <3> QED
      BY <3>2, <3>3 DEF LoopInv
  <2> QED
    BY <2>1, <2>2
<1>4. CASE pc[w] # "write"
  <2>1. pc'[w] = "idle" =>
          /\ result'[w] \in {"ok", "clobber", "traversal", "error"}
          /\ result'[w] = "clobber" => ~overwrite[w]
    BY <1>1, StepShape
  <2>2. pc[w] \in Undecoded =>
          pc'[w] \in Undecoded \/ (pc'[w] \in {"drop", "idle"} /\ result'[w] # "ok")
    BY <1>1, <1>4, StepShape
  <2>3. pc[w] = "drop" => pc'[w] = "idle" /\ result'[w] = result[w]
    BY <1>1, StepShape
  <2>4. pc[w] # "idle"
    BY <1>1, StepShape
  <2>5. Placed(w)' /\ Judged(w)'
    BY <1>1 DEF LoopInv, Placed, Judged, Entries, Failures, Cancelled
  <2>6. Calling(w)'
    BY <1>1, <1>2, <1>4, <2>1, <2>3, <2>4 DEF LoopInv, Calling
  <2>7. Spared(w)'
    <3>1. pc'[w] \in Publishing => pc[w] \in Publishing
      BY <1>1, <1>4, StepShape DEF Publishing
    <3> QED
      BY <1>1, <3>1 DEF LoopInv, Spared, Cancelled
  <2> QED
    BY <2>5, <2>6, <2>7 DEF LoopInv
<1> QED
  BY <1>3, <1>4

\* What a call that has returned is counted as.
LEMMA VerdictMeans ==
  ASSUME NEW w \in Writers, LoopInv(w), phase[w] = "call", pc[w] = "idle"
  PROVE  /\ Verdict(w) \in {"ok", "skipped", "failed"}
         /\ Verdict(w) = "ok" => result[w] = "ok"
         /\ Verdict(w) = "skipped" => ~job[w].overwrite
         /\ result[w] = "error" => Verdict(w) = "failed"
         /\ cause[w] # "none" => Verdict(w) = "failed"
BY DEF Verdict, LoopInv, Calling, Placed

LEMMA SettleKeeps ==
  ASSUME BatchTypeOK, NEW w \in Writers, LoopInv(w), Settle(w)
  PROVE  LoopInv(w)'
<1>1. /\ phase[w] = "call" /\ pc[w] = "idle" /\ Len(verdict[w]) = at[w] - 1
      /\ at[w] \in Nat /\ at[w] <= Len(Entries(w)) /\ outcome[w] # "ok"
      /\ UNCHANGED <<vars, job, at, asked, cause>>
  BY DEF Settle, BatchTypeOK, LoopInv, Placed, Judged
<1>2. PICK v \in Verdicts :
        /\ Judge(w, v)
        /\ \/ v = Verdict(w) /\ (Cancelled(w) => job[w].loop # "window")
           \/ v = "uncounted" /\ phase'[w] = "ended"
  <2>1. CASE SettleCore(w)
    BY <1>1, <2>1, VerdictMeans DEF SettleCore, Verdicts
  <2>2. CASE SettleWindow(w) /\ Cancelled(w)
    BY <2>2 DEF SettleWindow, End, BatchTypeOK, Verdicts
  <2>3. CASE SettleWindow(w) /\ ~Cancelled(w)
    BY <1>1, <2>3, VerdictMeans DEF SettleWindow, Verdicts
  <2> QED
    BY <2>1, <2>2, <2>3 DEF Settle
<1>3. /\ Len(verdict'[w]) = at[w]
      /\ \A k \in 1..Len(verdict[w]) : verdict'[w][k] = verdict[w][k]
      /\ verdict'[w][at[w]] = v
  BY <1>1, <1>2, JudgeGrows DEF BatchTypeOK, Verdicts
<1>4. \A k \in 1..Len(verdict'[w]) : k \in 1..Len(verdict[w]) \/ k = at[w]
  BY <1>1, <1>3
<1>5. \/ phase'[w] = "ended" /\ outcome'[w] \in {"error", "cancelled"}
      \/ phase'[w] = "entry" /\ outcome'[w] = outcome[w]
      \/ phase'[w] = "rest" /\ outcome'[w] = outcome[w] /\ v = "failed"
  <2>1. CASE SettleCore(w)
    BY <1>1, <1>2, <2>1, VerdictMeans
       DEF SettleCore, Judge, End, GoOn, BatchTypeOK, Verdicts
  <2>2. CASE SettleWindow(w)
    BY <2>2 DEF SettleWindow, End, Abort, GoOn, BatchTypeOK
  <2> QED
    BY <2>1, <2>2 DEF Settle
<1>6. Placed(w)'
  <2>1. phase'[w] = "rest" => Failures(w)'
    BY <1>1, <1>3, <1>5 DEF Failures, LoopInv, Placed
  <2> QED
    BY <1>1, <1>3, <1>5, <2>1 DEF LoopInv, Placed, Entries, vars
<1>7. Judged(w)'
  <2>1. v = "skipped" => ~job[w].overwrite
    BY <1>1, <1>2, VerdictMeans
  <2>2. v = "uncounted" => phase'[w] = "ended"
    BY <1>1, <1>2, VerdictMeans
  <2> QED
    BY <1>1, <1>3, <1>4, <1>5, <2>1, <2>2 DEF LoopInv, Judged
<1>8. Calling(w)'
  BY <1>5 DEF Calling
<1>9. Spared(w)'
  BY <1>1 DEF LoopInv, Spared, Cancelled, vars
<1> QED
  BY <1>6, <1>7, <1>8, <1>9 DEF LoopInv

LEMMA CancelKeeps ==
  ASSUME BatchTypeOK, TypeInv, NEW w \in Writers, LoopInv(w), Cancel(w)
  PROVE  LoopInv(w)'
<1>1. /\ UNCHANGED <<vars, job, phase, at, cause, verdict, outcome>> /\ phase[w] # "ended"
      /\ asked'[w] = IF pc[w] \in Undecoded THEN call[w] - 1 ELSE call[w]
      /\ call[w] \in Nat
  BY DEF Cancel, BatchTypeOK, TypeInv, TypeOK
<1>2. outcome[w] # "ok"
  BY <1>1 DEF LoopInv, Judged
<1>3. Placed(w)' /\ Judged(w)' /\ Calling(w)'
  BY <1>1, <1>2 DEF LoopInv, Placed, Judged, Calling, Entries, Failures, vars
<1>4. Spared(w)'
  BY <1>1 DEF Spared, Publishing, Undecoded, vars
<1> QED
  BY <1>3, <1>4 DEF LoopInv

LEMMA DeathKeeps ==
  ASSUME BatchTypeOK, NEW p \in Procs, Death(p), NEW w \in Writers, LoopInv(w)
  PROVE  LoopInv(w)'
<1>1. UNCHANGED <<job, at, asked, cause, verdict, call, target, overwrite>>
  BY DEF Death, Crash, argVars
<1>2. CASE ProcOf[w] = p /\ phase[w] \notin {"idle", "ended"}
  <2>1. phase'[w] = "ended" /\ outcome'[w] = "crashed" /\ pc'[w] = "idle"
    BY <1>2 DEF Death, Crash
  <2>2. Spared(w)'
    BY <1>1, <2>1 DEF LoopInv, Spared, Cancelled, Publishing
  <2> QED
    BY <1>1, <2>1, <2>2 DEF LoopInv, Placed, Judged, Calling, Entries, Failures,
       Cancelled, BatchTypeOK
<1>3. CASE ProcOf[w] # p \/ phase[w] \in {"idle", "ended"}
  <2>1. /\ phase'[w] = phase[w] /\ outcome'[w] = outcome[w]
        /\ pc'[w] = pc[w] /\ result'[w] = result[w]
    BY <1>3 DEF Death, Crash, LoopInv, Placed
  <2> QED
    BY <1>1, <2>1, Frame DEF Untouched
<1> QED
  BY <1>2, <1>3

\* The batch's variables keep their types.
LEMMA BatchTypesKept ==
  ASSUME BatchTypeOK, TypeInv, TypeInv', \A w \in Writers : LoopInv(w), BatchNext
  PROVE  BatchTypeOK'
<1> USE DEF BatchTypeOK
<1>1. ASSUME NEW w \in Writers, BatchStep(w)
      PROVE  BatchTypeOK'
  <2>1. at[w] < Len(Entries(w)) => at[w] + 1 \in 0..MaxCalls
    <3>1. Len(Entries(w)) \in Nat /\ job[w] \in JobsOf[w]
      BY DEF Jobs, Entries, LoopInv, Placed
    <3>2. Len(Entries(w)) <= MaxCalls
      BY <3>1, BatchAssumption DEF Entries
    <3> QED
      BY <3>1, <3>2, ConstantsAssumption
  <2>2. ASSUME NEW v \in Verdicts, Judge(w, v)
        PROVE  verdict' \in [Writers -> Seq(Verdicts)]
    BY <2>2, JudgeGrows DEF Verdicts
  <2>3. CASE MakeFolder(w) \/ BeginEntry(w)
    <3>1. at' \in [Writers -> 0..MaxCalls]
      BY <2>1, <2>3 DEF MakeFolder, BeginEntry
    <3>2. verdict' \in [Writers -> Seq(Verdicts)]
      BY <2>2, <2>3 DEF MakeFolder, BeginEntry, Verdicts
    <3> QED
      BY <2>3, <3>1, <3>2 DEF MakeFolder, BeginEntry, GoOn, Abort, End, Verdicts, TypeInv
  <2>4. CASE Settle(w)
    <3>1. Verdict(w) \in Verdicts
      BY DEF Verdict, Verdicts
    <3>2. verdict' \in [Writers -> Seq(Verdicts)]
      <4>1. CASE Judge(w, Verdict(w))
        BY <2>2, <3>1, <4>1
      <4>2. CASE Judge(w, "uncounted")
        BY <2>2, <4>2 DEF Verdicts
      <4> QED
        BY <2>4, <4>1, <4>2 DEF Settle, SettleCore, SettleWindow
    <3> QED
      BY <2>4, <3>2 DEF Settle, SettleCore, SettleWindow, GoOn, Abort, End, Verdicts, TypeInv
  <2>5. CASE CallStep(w)
    BY <2>5 DEF CallStep, DecodeEnds, TypeInv
  <2>6. CASE Preflight(w) \/ StopForFlag(w) \/ WalkFails(w) \/ Finish(w)
    BY <2>6 DEF Preflight, StopForFlag, WalkFails, Finish, GoOn, Abort, End, TypeInv
  <2> QED
    BY <1>1, <2>3, <2>4, <2>5, <2>6 DEF BatchStep
<1>2. ASSUME NEW w \in Writers, Cancel(w)
      PROVE  BatchTypeOK'
  <2>1. /\ call[w] \in {NotAsked} \cup 0..MaxCalls
        /\ pc[w] \in Undecoded => call[w] - 1 \in {NotAsked} \cup 0..MaxCalls
    <3>1. call[w] \in 0..MaxCalls /\ (pc[w] \in Undecoded => call[w] \in 1..MaxCalls)
      BY DEF TypeInv, TypeOK, CallCounted, Undecoded
    <3>2. MaxCalls \in Nat
      BY ConstantsAssumption
    <3> HIDE DEF BatchTypeOK
    <3> QED
      BY <3>1, <3>2
  <2> QED
    BY <1>2, <2>1 DEF Cancel, TypeInv
<1>3. ASSUME NEW p \in Procs, Death(p)
      PROVE  BatchTypeOK'
  BY <1>3 DEF Death, TypeInv
<1>4. ASSUME NEW l \in Leaves, Others(l)
      PROVE  BatchTypeOK'
  BY <1>4 DEF Others, batchVars, TypeInv
<1> QED
  BY <1>1, <1>2, <1>3, <1>4 DEF BatchNext

LEMMA InitLoops == BatchInit => LoopsInv
<1> SUFFICES ASSUME BatchInit
             PROVE  LoopsInv
  OBVIOUS
<1>1. BatchTypeOK
  <2>1. TypeOK
    BY InitTypes DEF BatchInit, TypeInv
  <2>2. job \in [Writers -> Jobs]
    BY BatchAssumption DEF BatchInit
  <2>3. /\ phase \in [Writers -> {"idle", "entry", "call", "rest", "ended"}]
        /\ at \in [Writers -> 0..MaxCalls]
        /\ asked \in [Writers -> {NotAsked} \cup 0..MaxCalls]
        /\ cause \in [Writers -> {"none", "flag", "payload", "other"}]
    BY ConstantsAssumption DEF BatchInit
  <2>4. /\ verdict \in [Writers -> Seq({"ok", "skipped", "failed", "uncounted"})]
        /\ outcome \in [Writers -> {"none", "ok", "error", "cancelled", "crashed"}]
    BY DEF BatchInit
  <2> QED
    BY <2>1, <2>2, <2>3, <2>4 DEF BatchTypeOK
<1>2. ASSUME NEW w \in Writers
      PROVE  LoopInv(w)
  <2>1. Len(Entries(w)) \in Nat
    BY <1>1 DEF BatchTypeOK, Jobs, Entries
  <2> QED
    BY <2>1 DEF BatchInit, Init, LoopInv, Placed, Judged, Calling, Spared, Cancelled, Failures
<1> QED
  BY <1>1, <1>2 DEF LoopsInv

LEMMA NextLoops ==
  TypeInv /\ TypeInv' /\ DropInv /\ LoopsInv /\ [BatchNext]_allVars => LoopsInv'
<1> SUFFICES ASSUME TypeInv, TypeInv', DropInv, LoopsInv, [BatchNext]_allVars
             PROVE  LoopsInv'
  OBVIOUS
<1> USE DEF LoopsInv
<1>1. ASSUME NEW w \in Writers, BatchStep(w) \/ Cancel(w)
      PROVE  \A v \in Writers : LoopInv(v)'
  <2>1. LoopInv(w)'
    BY <1>1, PreflightKeeps, StopsKeep, FinishKeeps, MakeFolderKeeps, BeginEntryKeeps,
       CallStepKeeps, SettleKeeps, CancelKeeps DEF BatchStep
  <2>2. \A v \in Writers : v # w => LoopInv(v)'
    BY <1>1, Elsewhere, Frame
  <2> QED
    BY <2>1, <2>2
<1>2. ASSUME NEW p \in Procs, Death(p)
      PROVE  \A v \in Writers : LoopInv(v)'
  BY <1>2, DeathKeeps
<1>3. ASSUME NEW l \in Leaves, Others(l)
      PROVE  \A v \in Writers : LoopInv(v)'
  BY <1>3, Frame DEF Untouched, Others, batchVars, OutsideStep, OutsideCreate,
     OutsideRemove, argVars
<1>4. CASE BatchNext
  BY <1>1, <1>2, <1>3, <1>4, BatchTypesKept DEF BatchNext
<1>5. CASE UNCHANGED allVars
  <2>1. \A v \in Writers : LoopInv(v)'
    BY <1>5, Frame DEF Untouched, allVars, batchVars, vars
  <2> QED
    BY <1>5, <2>1 DEF BatchTypeOK, TypeInv, allVars, batchVars
<1> QED
  BY <1>4, <1>5

\* The invariants of ExtractionDir hold of a batch, which is a caller of it.
LEMMA BatchInvariant ==
  BatchSpec => [](TypeInv /\ OwnInv /\ DropInv /\ LoopsInv)
<1>1. BatchInit => TypeInv /\ OwnInv /\ DropInv /\ LoopsInv
  BY InitTypes, InitOwn, InitDrop, InitLoops DEF BatchInit
<1>2. TypeInv /\ OwnInv /\ DropInv /\ LoopsInv /\ [BatchNext]_allVars
        => TypeInv' /\ OwnInv' /\ DropInv' /\ LoopsInv'
  <2> SUFFICES ASSUME TypeInv, OwnInv, DropInv, LoopsInv, [BatchNext]_allVars
               PROVE  TypeInv' /\ OwnInv' /\ DropInv' /\ LoopsInv'
    OBVIOUS
  <2>1. [Next]_vars
    BY BatchIsNext DEF LoopsInv
  <2>2. TypeInv' /\ OwnInv' /\ DropInv'
    BY <2>1, NextTypes, NextOwn, NextDrop
  <2> QED
    BY <2>2, NextLoops
<1> QED
  BY <1>1, <1>2, PTL DEF BatchSpec

\* A batch is a caller of ExtractionDir like any other: whatever is proved of
\* the calls holds of the batches made of them.
THEOREM BatchesAreCallers == BatchSpec => Spec
<1>1. BatchInit => Init
  BY DEF BatchInit
<1>2. LoopsInv /\ [BatchNext]_allVars => [Next]_vars
  BY BatchIsNext DEF LoopsInv
<1> QED
  BY <1>1, <1>2, BatchInvariant, PTL DEF BatchSpec, Spec

\* FailureLeavesNothing of the calls a batch makes.
THEOREM BatchFailuresLeaveNothing ==
  ASSUME ~CleanupFails
  PROVE  BatchSpec => []FailureLeavesNothing
BY BatchesAreCallers, FailuresLeaveNothing, PTL

\* SuccessIsComplete: a batch that reports success has a verdict on every
\* entry, none of them a failure, and was not cancelled, however many batches,
\* failures, cancellations and deaths there are.
THEOREM SuccessIsWhole == BatchSpec => []SuccessIsComplete
<1>1. LoopsInv => SuccessIsComplete
  BY DEF LoopsInv, LoopInv, Judged, SuccessIsComplete
<1> QED
  BY <1>1, BatchInvariant, PTL

-----------------------------------------------------------------------------
(* The converse: what a batch left behind is in its report.                *)

\* How a batch's step changes the destination.
LEMMA StepLeaves ==
  ASSUME TypeInv, OwnInv, NEW u \in Writers, Step(u), NEW l \in Leaves
  PROVE  \/ leaf'[l] = leaf[l]
         \/ leaf'[l] = NoFile
         \/ l = target[u] /\ leaf'[l] \in {TempFile(u), CopyFile(u)}
<1> USE DEF TypeInv, TypeOK, fsVars
<1>1. CASE Rename(u) \/ HardLink(u)
  <2>1. temp[TempName(u)] = TempFile(u)
    BY <1>1 DEF Rename, HardLink, OwnInv, OwnTemp, Guarded
  <2> QED
    BY <1>1, <2>1 DEF Rename, HardLink
<1>2. CASE ~Rename(u) /\ ~HardLink(u)
  BY <1>2 DEF Step, CreateParent, RejectLink, CheckFree, TakeSerial, CreateTemp, WriteTemp,
     CreateOutput, CopyOutput, RemoveOutput, DropGuard
<1> QED
  BY <1>1, <1>2

\* Nobody else's step puts a file of this writer anywhere.
LEMMA OthersLeave ==
  ASSUME TypeInv, OwnInv, LoopsInv, NEW w \in Writers, NEW u \in Writers, u # w, BatchStep(u),
         NEW l \in Leaves, leaf'[l] # NoFile, leaf'[l].by = w
  PROVE  leaf'[l] = leaf[l]
<1>1. CASE Step(u)
  BY <1>1, StepLeaves DEF TempFile, CopyFile
<1>2. CASE ~Step(u)
  BY <1>2, BatchMoves DEF LoopsInv, Begin, vars, fsVars
<1> QED
  BY <1>1, <1>2

\* A file is of a call that has begun, and not of one still decoding; once the
\* batch is cancelled, of a call that had decoded by then.
Bounded(w, l) ==
  leaf[l] # NoFile /\ leaf[l].by = w =>
    /\ leaf[l].call <= call[w]
    /\ pc[w] \in Undecoded => leaf[l].call < call[w]
    /\ Cancelled(w) =>
         leaf[l].call <= asked[w] + (IF job[w].loop = "streaming" THEN 1 ELSE 0)

BoundInv == \A w \in Writers, l \in Leaves : Bounded(w, l)

\* A file that is ours carries the number of its call.
LEMMA CallIsNumber ==
  ASSUME TypeInv, NEW w \in Writers, NEW l \in Leaves, leaf[l] # NoFile, leaf[l].by = w
  PROVE  leaf[l].call \in Int
<1>1. leaf[l] \in Files /\ w # Outside
  BY ConstantsAssumption DEF TypeInv, TypeOK
<1> QED
  BY <1>1 DEF Files

\* A step of a call: what it publishes is its own, and was decoded in time.
LEMMA StepBounds ==
  ASSUME TypeInv, OwnInv, DropInv, LoopsInv, BoundInv, NEW w \in Writers, CallStep(w),
         NEW l \in Leaves
  PROVE  Bounded(w, l)'
<1>1. /\ Step(w) /\ UNCHANGED <<job, asked, call, target>>
      /\ pc'[w] \in Undecoded => pc[w] \in Undecoded
      /\ call[w] \in Int
  BY StepShape DEF CallStep, TypeInv, TypeOK
<1>2. CASE leaf'[l] = leaf[l]
  BY <1>1, <1>2 DEF BoundInv, Bounded, Cancelled
<1>3. CASE leaf'[l] = NoFile
  BY <1>3 DEF Bounded
<1>4. CASE leaf'[l] # leaf[l] /\ leaf'[l] \in {TempFile(w), CopyFile(w)}
  <2>1. pc[w] \in Publishing /\ pc'[w] \notin Undecoded
    <3>1. pc[w] \in Publishing \cup {"unpublish"}
      BY <1>1, <1>4 DEF Publishing, Step, CreateParent, RejectLink, CheckFree, TakeSerial,
         CreateTemp, WriteTemp, Rename, HardLink, CreateOutput, CopyOutput, RemoveOutput,
         DropGuard, fsVars
    <3>2. pc[w] # "unpublish"
      <4>1. ASSUME pc[w] = "unpublish"
            PROVE  leaf'[l] \in {leaf[l], NoFile}
        BY <1>1, <4>1 DEF Step, CreateParent, RejectLink, CheckFree, TakeSerial,
           CreateTemp, WriteTemp, Rename, HardLink, CreateOutput, CopyOutput, RemoveOutput,
           DropGuard, TypeInv, TypeOK
      <4>2. TempFile(w) # NoFile /\ CopyFile(w) # NoFile
        BY <3>1, NameTypes, ConstantsAssumption DEF TypeInv, CallCounted, Publishing
      <4> QED
        BY <1>4, <4>1, <4>2
    <3> QED
      BY <1>1, <3>1, <3>2 DEF Publishing, Undecoded
  <2>2. Cancelled(w) => call[w] <= asked[w] + (IF job[w].loop = "streaming" THEN 1 ELSE 0)
    <3>1. asked[w] \in Int
      BY DEF LoopsInv, BatchTypeOK, NotAsked
    <3> QED
      BY <1>1, <2>1, <3>1 DEF LoopsInv, LoopInv, Spared
  <2>3. leaf'[l].call = call[w]
    BY <1>4 DEF TempFile, CopyFile
  <2> QED
    BY <1>1, <2>1, <2>2, <2>3 DEF Bounded, Cancelled
<1> QED
  BY <1>1, <1>2, <1>3, <1>4, StepLeaves

\* What a step that leaves a writer and a name alone leaves bounded.
LEMMA BoundStands ==
  ASSUME NEW w \in Writers, NEW l \in Leaves, Bounded(w, l), Untouched(w), leaf'[l] = leaf[l]
  PROVE  Bounded(w, l)'
BY DEF Bounded, Untouched, Cancelled

LEMMA NextBounds ==
  TypeInv /\ OwnInv /\ DropInv /\ LoopsInv /\ BoundInv /\ [BatchNext]_allVars => BoundInv'
<1> SUFFICES ASSUME TypeInv, OwnInv, DropInv, LoopsInv, BoundInv, [BatchNext]_allVars,
                    NEW w \in Writers, NEW l \in Leaves, leaf'[l] # NoFile, leaf'[l].by = w
             PROVE  Bounded(w, l)'
  BY DEF BoundInv, Bounded
<1>1. ASSUME NEW u \in Writers, BatchStep(u)
      PROVE  Bounded(w, l)'
  <2>1. CASE u # w
    <3>1. Untouched(w)
      BY <1>1, <2>1, Elsewhere DEF LoopsInv
    <3>2. leaf'[l] = leaf[l]
      BY <1>1, <2>1, OthersLeave
    <3> QED
      BY <3>1, <3>2, BoundStands DEF BoundInv
  <2>2. CASE CallStep(w)
    BY <2>2, StepBounds
  <2>3. CASE u = w /\ BeginEntry(w)
    <3>1. leaf'[l] = leaf[l] /\ job' = job /\ asked' = asked /\ ~Cancelled(w)
      BY <2>3 DEF BeginEntry, Begin, vars, fsVars
    <3>2. leaf[l].call \in Int /\ call[w] \in Int
      BY <3>1, CallIsNumber DEF TypeInv, TypeOK
    <3>3. \/ call'[w] = call[w] + 1
          \/ call'[w] = call[w] /\ pc'[w] = pc[w]
      BY <2>3 DEF BeginEntry, Begin, TypeInv, TypeOK, vars
    <3>4. /\ leaf[l].call <= call[w]
          /\ pc[w] \in Undecoded => leaf[l].call < call[w]
      BY <3>1 DEF BoundInv, Bounded
    <3> QED
      BY <3>1, <3>2, <3>3, <3>4 DEF Bounded, Cancelled
  <2>4. CASE u = w /\ ~CallStep(w) /\ ~BeginEntry(w)
    <3>1. UNCHANGED <<leaf, call, pc, job, asked>>
      BY <1>1, <2>4 DEF BatchStep, Preflight, StopForFlag, WalkFails, MakeFolder, Settle,
         Finish, vars
    <3> QED
      BY <3>1 DEF BoundInv, Bounded, Cancelled
  <2> QED
    BY <2>1, <2>2, <2>3, <2>4
<1>2. ASSUME NEW u \in Writers, Cancel(u)
      PROVE  Bounded(w, l)'
  <2>1. UNCHANGED <<leaf, call, pc, job>> /\ leaf[l].call \in Int /\ call[w] \in Int
    BY <1>2, CallIsNumber DEF Cancel, vars, TypeInv, TypeOK
  <2>2. \/ asked'[w] = asked[w]
        \/ asked'[w] = IF pc[w] \in Undecoded THEN call[w] - 1 ELSE call[w]
    BY <1>2 DEF Cancel, LoopsInv, BatchTypeOK
  <2>3. /\ leaf[l].call <= call[w]
        /\ pc[w] \in Undecoded => leaf[l].call < call[w]
        /\ Cancelled(w) =>
             leaf[l].call <= asked[w] + (IF job[w].loop = "streaming" THEN 1 ELSE 0)
    BY <2>1 DEF BoundInv, Bounded
  <2> QED
    BY <2>1, <2>2, <2>3 DEF Bounded, Cancelled
<1>3. ASSUME NEW p \in Procs, Death(p)
      PROVE  Bounded(w, l)'
  <2>1. UNCHANGED <<leaf, call, job, asked>> /\ pc'[w] \in {pc[w], "idle"}
    BY <1>3 DEF Death, Crash, fsVars, argVars
  <2> QED
    BY <2>1 DEF BoundInv, Bounded, Cancelled, Undecoded
<1>4. ASSUME NEW m \in Leaves, Others(m)
      PROVE  Bounded(w, l)'
  <2>1. Outside # w
    BY ConstantsAssumption
  <2>2. leaf'[l] = leaf[l]
    BY <1>4, <2>1 DEF Others, OutsideStep, OutsideCreate, OutsideRemove, TypeInv, TypeOK
  <2>3. Untouched(w)
    BY <1>4 DEF Untouched, Others, batchVars, OutsideStep, OutsideCreate, OutsideRemove, argVars
  <2> QED
    BY <2>2, <2>3, BoundStands DEF BoundInv
<1>5. CASE UNCHANGED allVars
  BY <1>5 DEF allVars, batchVars, vars, BoundInv, Bounded, Cancelled
<1> QED
  BY <1>1, <1>2, <1>3, <1>4, <1>5 DEF BatchNext

\* CancelPublishesNoMore: an entry that had not been decoded when cancellation
\* was asked for never shows in the destination, but for one of the streaming
\* loop: for any batches, names, failures and deaths, with or without hard links.
THEOREM CancelSpares == BatchSpec => []CancelPublishesNoMore
<1>1. BatchInit => BoundInv
  BY ConstantsAssumption DEF BatchInit, Init, BoundInv, Bounded, Existing
<1>2. BoundInv => CancelPublishesNoMore
  BY DEF BoundInv, Bounded, CancelPublishesNoMore
<1> QED
  BY <1>1, <1>2, BatchInvariant, NextBounds, PTL DEF BatchSpec

\* A step that leaves a batch alone leaves its account alone.
LEMMA AccountStands ==
  ASSUME NEW w \in Writers, Accounted, Untouched(w), NEW l \in Leaves,
         leaf'[l] = leaf[l], leaf[l] # NoFile, leaf[l].by = w
  PROVE  Given(w, l)' \/ InHand(w, l)'
BY DEF Untouched, Accounted, Given, InHand, Counted, Entries

\* A verdict is never taken back .
LEMMA CountStands ==
  ASSUME BatchTypeOK, NEW w \in Writers, BatchStep(w), NEW l \in Leaves, Counted(w, l)
  PROVE  Counted(w, l)'
<1>1. job' = job
  BY DEF BatchStep, Preflight, StopForFlag, WalkFails, MakeFolder, BeginEntry, CallStep,
     Settle, Finish
<1>2. CASE verdict' = verdict
  BY <1>1, <1>2 DEF Counted, Entries
<1>3. CASE \E v \in Verdicts : Judge(w, v)
  <2>1. /\ Len(verdict'[w]) = Len(verdict[w]) + 1 /\ verdict[w] \in Seq(Verdicts)
        /\ \A k \in 1..Len(verdict[w]) : verdict'[w][k] = verdict[w][k]
    BY <1>3, JudgeGrows DEF BatchTypeOK, Verdicts
  <2> QED
    BY <1>1, <2>1 DEF Counted, Entries
<1>4. Verdict(w) \in Verdicts
  BY DEF Verdict, Verdicts
<1> QED
  BY <1>2, <1>3, <1>4 DEF BatchStep, Preflight, StopForFlag, WalkFails, MakeFolder, BeginEntry,
     CallStep, Settle, SettleCore, SettleWindow, Finish, Verdicts

\* A call of its own in hand becomes an entry it counted, or the last one of
\* a cancelled batch.
LEMMA SettleCounts ==
  ASSUME TypeInv, ShownInv, BatchTypeOK, NEW w \in Writers, LoopInv(w), Settle(w),
         NEW l \in Leaves, leaf[l] # NoFile, leaf[l].by = w, InHand(w, l)
  PROVE  Given(w, l)'
<1>1. /\ phase[w] = "call" /\ pc[w] = "idle" /\ Len(verdict[w]) = at[w] - 1
      /\ at[w] \in Nat /\ call[w] > 0 /\ Entries(w)[at[w]] = l /\ verdict[w] \in Seq(Verdicts)
      /\ UNCHANGED <<vars, job, at, asked, cause>>
  BY DEF Settle, BatchTypeOK, LoopInv, Placed, InHand, Verdicts
<1>2. leaf[l] \in {TempFile(w), CopyFile(w)}
  <2>1. leaf[l] \in Files /\ w # Outside
    BY ConstantsAssumption DEF TypeInv, TypeOK
  <2>2. PICK n \in Calls, k \in {"temp", "copy"} : leaf[l] = [by |-> w, call |-> n, kind |-> k]
    BY <2>1 DEF Files
  <2> QED
    BY <2>2 DEF InHand, TempFile, CopyFile
<1>3. result[w] = "ok" /\ cause[w] = "none"
  <2>1. result[w] = "ok"
    BY <1>1, <1>2 DEF ShownInv, Shows, LoopInv, Calling
  <2> QED
    BY <1>1, <2>1 DEF LoopInv, Calling
<1>4. Verdict(w) = "ok"
  BY <1>3 DEF Verdict
<1>5. ASSUME NEW v \in Verdicts, Judge(w, v)
      PROVE  Len(verdict'[w]) = at[w] /\ verdict'[w][at[w]] = v
  BY <1>1, <1>5, JudgeGrows DEF BatchTypeOK, Verdicts
<1>6. CASE Judge(w, "ok")
  <2>1. Len(verdict'[w]) = at[w] /\ verdict'[w][at[w]] = "ok" /\ at[w] > 0
    BY <1>1, <1>5, <1>6 DEF Verdicts
  <2>2. Counted(w, l)'
    BY <1>1, <2>1 DEF Counted, Entries
  <2> QED
    BY <2>2 DEF Given
<1>7. CASE Judge(w, "uncounted") /\ End(w, "cancelled")
  <2>1. Len(verdict'[w]) = at[w] /\ at[w] > 0
    BY <1>1, <1>5, <1>7 DEF Verdicts
  <2>2. phase'[w] = "ended" /\ outcome'[w] = "cancelled"
    BY <1>7 DEF End, BatchTypeOK
  <2> QED
    BY <1>1, <2>1, <2>2 DEF Given, Entries
<1> QED
  BY <1>4, <1>6, <1>7 DEF Settle, SettleCore, SettleWindow

\* A step of a batch accounts for all it leaves.
LEMMA StepAccounts ==
  ASSUME TypeInv, OwnInv, ShownInv, LoopsInv, Accounted, NEW w \in Writers, BatchStep(w),
         NEW l \in Leaves, leaf'[l] # NoFile, leaf'[l].by = w
  PROVE  Given(w, l)' \/ InHand(w, l)'
<1> USE DEF LoopsInv
<1>1. phase[w] # "ended" /\ job' = job
  BY DEF BatchStep, Preflight, StopForFlag, WalkFails, MakeFolder, BeginEntry, CallStep,
     Settle, Finish
<1>2. CASE CallStep(w)
  <2>1. Step(w) /\ phase[w] = "call" /\ UNCHANGED <<phase, call, target>>
    BY <1>2 DEF CallStep, Step, CreateParent, RejectLink, CheckFree, TakeSerial, CreateTemp,
       WriteTemp, Rename, HardLink, CreateOutput, CopyOutput, RemoveOutput, DropGuard, argVars
  <2>2. CASE leaf'[l] = leaf[l]
    <3>1. CASE Given(w, l)
      BY <1>1, <1>2, <3>1, CountStands DEF Given
    <3>2. CASE InHand(w, l)
      BY <2>1, <2>2, <3>2 DEF InHand
    <3> QED
      BY <2>2, <3>1, <3>2 DEF Accounted
  <2>3. CASE l = target[w] /\ leaf'[l] \in {TempFile(w), CopyFile(w)}
    BY <2>1, <2>3 DEF InHand, TempFile, CopyFile
  <2> QED
    BY <2>1, <2>2, <2>3, StepLeaves
<1>3. CASE ~CallStep(w)
  <2>1. leaf'[l] = leaf[l]
    BY <1>3 DEF BatchStep, Preflight, StopForFlag, WalkFails, MakeFolder, BeginEntry, Begin,
       Settle, Finish, vars, fsVars
  <2>2. CASE Given(w, l)
    BY <1>1, <2>2, CountStands DEF Given
  <2>3. CASE InHand(w, l)
    <3>1. Settle(w)
      BY <1>3, <2>3 DEF InHand, BatchStep, Preflight, StopForFlag, WalkFails, MakeFolder,
         BeginEntry, Finish
    <3> QED
      BY <2>1, <2>3, <3>1, SettleCounts
  <2> QED
    BY <2>1, <2>2, <2>3 DEF Accounted
<1> QED
  BY <1>2, <1>3

LEMMA NextAccounts ==
  TypeInv /\ OwnInv /\ DropInv /\ ShownInv /\ LoopsInv /\ Accounted /\ [BatchNext]_allVars
    => Accounted'
<1> SUFFICES ASSUME TypeInv, OwnInv, DropInv, ShownInv, LoopsInv, Accounted,
                    [BatchNext]_allVars,
                    NEW w \in Writers, NEW l \in Leaves, leaf'[l] # NoFile, leaf'[l].by = w
             PROVE  Given(w, l)' \/ InHand(w, l)'
  BY DEF Accounted
<1>1. ASSUME NEW u \in Writers, BatchStep(u)
      PROVE  Given(w, l)' \/ InHand(w, l)'
  <2>1. CASE u = w
    BY <1>1, <2>1, StepAccounts
  <2>2. CASE u # w
    <3>1. Untouched(w)
      BY <1>1, <2>2, Elsewhere DEF LoopsInv
    <3>2. leaf'[l] = leaf[l]
      BY <1>1, <2>2, OthersLeave
    <3> QED
      BY <3>1, <3>2, AccountStands
  <2> QED
    BY <2>1, <2>2
<1>2. ASSUME NEW u \in Writers, Cancel(u)
      PROVE  Given(w, l)' \/ InHand(w, l)'
  BY <1>2 DEF Cancel, Accounted, Given, InHand, Counted, Entries, vars
<1>3. ASSUME NEW p \in Procs, Death(p)
      PROVE  Given(w, l)' \/ InHand(w, l)'
  <2>1. UNCHANGED <<leaf, call, target, job, at, verdict>>
    BY <1>3 DEF Death, Crash, fsVars, argVars
  <2>2. CASE ProcOf[w] = p /\ phase[w] \notin {"idle", "ended"}
    BY <1>3, <2>2 DEF Death, Given
  <2>3. CASE ~(ProcOf[w] = p /\ phase[w] \notin {"idle", "ended"})
    <3>1. phase'[w] = phase[w] /\ outcome'[w] = outcome[w]
      BY <1>3, <2>3 DEF Death
    <3> QED
      BY <2>1, <3>1 DEF Accounted, Given, InHand, Counted, Entries
  <2> QED
    BY <2>2, <2>3
<1>4. ASSUME NEW m \in Leaves, Others(m)
      PROVE  Given(w, l)' \/ InHand(w, l)'
  <2>1. Outside # w
    BY ConstantsAssumption
  <2>2. leaf'[l] = leaf[l]
    BY <1>4, <2>1 DEF Others, OutsideStep, OutsideCreate, OutsideRemove, TypeInv, TypeOK
  <2>3. Untouched(w)
    BY <1>4 DEF Untouched, Others, batchVars, OutsideStep, OutsideCreate, OutsideRemove, argVars
  <2> QED
    BY <2>2, <2>3, AccountStands
<1>5. CASE UNCHANGED allVars
  BY <1>5 DEF allVars, batchVars, vars, Accounted, Given, InHand, Counted, Entries
<1> QED
  BY <1>1, <1>2, <1>3, <1>4, <1>5 DEF BatchNext

\* ReportIsTrue: nothing a batch extracted is missing from its report, provided
\* the removal of a failed copy succeeds.
THEOREM NothingUnreported ==
  ASSUME ~CleanupFails
  PROVE  BatchSpec => []ReportIsTrue
<1>1. BatchSpec => []ShownInv
  <2>1. Spec => [](TypeInv /\ OwnInv /\ ShownInv)
    BY InitTypes, NextTypes, InitOwn, NextOwn, InitShown, NextShown, PTL DEF Spec
  <2> QED
    BY <2>1, BatchesAreCallers, PTL
<1>2. BatchInit => Accounted
  BY ConstantsAssumption DEF BatchInit, Init, Accounted, Existing
<1>3. Accounted => ReportIsTrue
  BY DEF Accounted, Given, InHand, Counted, ReportIsTrue
<1> QED
  BY <1>1, <1>2, <1>3, BatchInvariant, NextAccounts, PTL DEF BatchSpec
=============================================================================
