---------------------------- MODULE DragExportProofs ----------------------------
(***************************************************************************)
(* Proofs about DragExport, for any number of drags, targets, roots and    *)
(* messages: nothing is read before the drop and only once after it, and   *)
(* its files are there exactly as long as somebody holds the export.       *)
(***************************************************************************)
EXTENDS DragExport, SequenceTheorems, TLAPS

\* The one drag at work: the window waits while its backend runs or has reported;
\* on Windows the extraction follows.
OneAtWork ==
  /\ pc # "off" => slot = "waiting" /\ outcome[Current] = "none"
  /\ slot = "waiting" /\ pc = "off" => outcome[Current] # "none"
  /\ slot = "pending" => made < MaxDrags
  /\ slot = "waiting" => made # 0 /\ retained # <<>> /\ retained[Len(retained)] = made
  /\ job # 0 => job = made /\ slot = "free" /\ system = "windows"
  /\ slot = "waiting" /\ outcome[Current] = "extract" => system = "windows"
  /\ gone => slot = "free" /\ job = 0

\* Where each backend can be.
BackendsApart ==
  /\ system = "windows" => pc \in {"off", "events", "place"}
  /\ pc = "place" => system = "windows"
  /\ pc \in {"prepare", "write"} => export[Current].dropped
  /\ pc = "prepare" => export[Current].prepared = "no"

\* A drag is prepared at most once and after its drop.
Prepared(d) ==
  /\ d > made => /\ ~export[d].dropped /\ export[d].prepared = "no"
                 /\ dir[d] = "none" /\ reads[d] = 0 /\ outcome[d] = "none"
  /\ export[d].prepared = "no" /\ system # "windows" => reads[d] = 0
  /\ export[d].prepared = "no" => dir[d] = "none"
  /\ system = "windows" => export[d].prepared = "no"
  /\ system = "windows" /\ d = made /\ (slot = "waiting" \/ job = d) => reads[d] = 0
  /\ reads[d] <= 1
  /\ reads[d] = 1 \/ dir[d] # "none" => export[d].dropped

\* The files that are kept, and who holds them.
Staged(d) ==
  /\ promised[d] => system = "macos"
  /\ d \in Owned <=>
       ~gone /\ d <= made /\ (outcome[d] = "delivered" \/ (d = made /\ slot = "waiting"))
  /\ dir[d] = "kept" => d \in Owned \/ promised[d]
  /\ dir[d] = "kept" <=>
       /\ export[d].prepared = "ok"
       /\ \/ promised[d]
          \/ ~gone /\ (outcome[d] = "delivered" \/ (d = Current /\ slot = "waiting"))

\* The window holds each drag once.
HeldOnce ==
  \A i, j \in 1..Len(retained) : retained[i] = retained[j] => i = j

\* Paths are given for files that are there, after the drop, on Linux only.
Answering ==
  /\ pc # "off" /\ ~dropping => reader[made] = "none"
  /\ system = "linux" /\ pc # "off" /\ export[made].dropped => dropping
  /\ pc = "answer" => system = "linux" /\ dropping /\ export[made].prepared = "ok"

\* Who has paths, and that every drag but the one at work has ended.
Reading(d) ==
  /\ reader[d] # "none" => system = "linux" /\ export[d].prepared = "ok"
  /\ outcome[d] \in {"cancelled", "extract"} => reader[d] = "none"
  /\ d <= made /\ outcome[d] = "none" => d = made /\ slot = "waiting"

IInv == /\ TypeOK /\ OneAtWork /\ BackendsApart /\ Answering /\ HeldOnce
        /\ \A d \in Drags : Prepared(d) /\ Staged(d) /\ Reading(d)

LEMMA InitInv == Init => IInv
<1> SUFFICES ASSUME Init PROVE IInv
  OBVIOUS
<1>1. TypeOK
  <2>1. /\ retained \in Seq(Drags) /\ inbox \in Seq(Messages)
        /\ made \in 0..MaxDrags /\ job \in 0..MaxDrags /\ sent \in 0..MaxMessages
    BY DragAssumption DEF Init
  <2>2. export \in [Drags -> [dropped : BOOLEAN, prepared : {"no", "ok", "failed"},
                              cancelled : BOOLEAN]]
    BY DEF Init, Fresh
  <2> QED
    BY <2>1, <2>2 DEF Init, TypeOK, Outcomes
<1>2. OneAtWork /\ BackendsApart /\ Answering /\ HeldOnce
  BY DEF Init, OneAtWork, BackendsApart, Answering, HeldOnce
<1>3. ASSUME NEW d \in Drags PROVE Prepared(d) /\ Staged(d) /\ Reading(d)
  BY DEF Init, Prepared, Staged, Reading, Owned, Fresh, Drags
<1> QED
  BY <1>1, <1>2, <1>3 DEF IInv

\* The values of export.
Exports  == [dropped : BOOLEAN, prepared : {"no", "ok", "failed"}, cancelled : BOOLEAN]

\* One drag more at the end of what the window holds, or the last one less.
LEMMA OneMore ==
  ASSUME TypeOK, made < MaxDrags, retained' = Append(retained, made + 1)
  PROVE  /\ Len(retained') = Len(retained) + 1 /\ Len(retained) \in Nat
         /\ \A k \in 1..Len(retained) : retained'[k] = retained[k]
         /\ retained'[Len(retained) + 1] = made + 1 /\ retained' # <<>>
<1>1. retained \in Seq(Drags) /\ made + 1 \in Drags
  BY DragAssumption DEF TypeOK, Drags
<1>2. Append(retained, made + 1) # <<>>
  BY <1>1, AppendProperties, EmptySeq
<1> QED
  BY <1>1, <1>2, AppendProperties

LEMMA OneLess ==
  ASSUME TypeOK, retained # <<>>, retained' = SubSeq(retained, 1, Len(retained) - 1)
  PROVE  /\ Len(retained) \in Nat \ {0} /\ Len(retained') = Len(retained) - 1
         /\ \A k \in 1..(Len(retained) - 1) : retained'[k] = retained[k]
<1>1. retained \in Seq(Drags) /\ Len(retained) \in Nat \ {0}
  BY DEF TypeOK
<1>2. \A i \in 1..(Len(retained) - 1) : retained[i] \in Drags
  BY <1>1
<1>3. DEFINE n == Len(retained) - 1
<1>4. n \in Nat /\ n = Len(retained) - 1
  BY <1>1
<1> HIDE DEF n
<1>5. retained' = SubSeq(retained, 1, n)
  BY <1>4
<1>6. Len(SubSeq(retained, 1, n)) = n
  BY <1>1, <1>2, <1>4, SubSeqProperties
<1>7. ASSUME NEW k \in 1..n PROVE SubSeq(retained, 1, n)[k] = retained[k]
  BY <1>1, <1>2, <1>4, <1>7, SubSeqProperties
<1> QED
  BY <1>1, <1>4, <1>5, <1>6, <1>7

LEMMA TypeStep == IInv /\ [Next]_vars => TypeOK'
<1> SUFFICES ASSUME IInv, [Next]_vars PROVE TypeOK'
  OBVIOUS
<1> USE DEF Goto, Tell, Ask, Dropped, Heard, Xdnd, Promising, Placing, Given,
   windowVars, dragVars, xdndVars, promiseVars, Current
<1>t. TypeOK /\ OneAtWork
  BY DEF IInv
<1>o. \A h \in Outcomes : [outcome EXCEPT ![made] = h] \in [Drags -> Outcomes]
  BY <1>t DEF TypeOK, Outcomes
<1>e. \A e \in Exports : [export EXCEPT ![made] = e] \in [Drags -> Exports]
  BY <1>t DEF TypeOK, Exports
<1>x. export \in [Drags -> Exports] /\ outcome \in [Drags -> Outcomes]
  BY <1>t DEF TypeOK, Exports, Outcomes
<1>b. /\ \A e \in Exports : [e EXCEPT !.dropped = TRUE] \in Exports
      /\ \A e \in Exports : [e EXCEPT !.cancelled = TRUE] \in Exports
      /\ \A e \in Exports, p \in {"ok", "failed"} : [e EXCEPT !.prepared = p] \in Exports
      /\ \A e \in Exports, b \in BOOLEAN : [e EXCEPT !.cancelled = @ \/ b] \in Exports
      /\ \A e \in Exports, b \in BOOLEAN :
           [e EXCEPT !.prepared = "failed", !.cancelled = @ \/ b] \in Exports
  BY DEF Exports
<1>m. MaxDrags \in Nat \ {0} /\ MaxMessages \in Nat /\ (made # 0 => made \in Drags)
  BY <1>t, DragAssumption DEF TypeOK, Drags
<1> USE DEF TypeOK, OneAtWork
<1>1. CASE Prepare
  <2>1. reads' \in [Drags -> Nat]
    BY <1>t, <1>m, <1>1 DEF Prepare
  <2>2. dir' \in [Drags -> {"none", "kept", "removed"}]
    BY <1>t, <1>m, <1>1 DEF Prepare
  <2>3. export' \in [Drags -> Exports]
    <3>1. made \in Drags
      BY <1>m, <1>t, <1>1 DEF Prepare
    <3>2. [export[made] EXCEPT !.prepared = "ok"] \in Exports
      BY <1>b, <1>x, <1>t, <3>1 DEF TypeOK
    <3>3. [export[made] EXCEPT !.prepared = "failed",
               !.cancelled = @ \/ Promising] \in Exports
      <4>1. Promising \in BOOLEAN
        OBVIOUS
      <4> HIDE DEF Promising
      <4> QED
        BY <1>b, <1>x, <3>1, <4>1
    <3>4. \/ export' = export
         \/ export' = [export EXCEPT ![made] = [export[made] EXCEPT !.prepared = "ok"]]
         \/ export' = [export EXCEPT ![made] = [export[made] EXCEPT !.prepared = "failed",
               !.cancelled = @ \/ Promising]]
      <4> HIDE DEF Promising, TypeOK, OneAtWork
      <4> QED
        BY <1>1 DEF Prepare
    <3> QED
      BY <1>e, <1>x, <3>2, <3>3, <3>4
  <2>4. pc' \in {"off", "events", "look", "prepare", "answer", "write", "place"}
    BY <1>t, <1>m, <1>1 DEF Prepare
  <2>5. outcome' \in [Drags -> Outcomes]
    <3>1. \/ outcome' = outcome
          \/ \E h \in Outcomes : outcome' = [outcome EXCEPT ![made] = h]
      BY <1>1 DEF Prepare, Outcomes
    <3> QED
      BY <1>o, <1>x, <3>1
  <2> QED
    BY <1>t, <1>1, <2>1, <2>2, <2>3, <2>4, <2>5 DEF Prepare, Exports, Outcomes
<1>2. CASE Hear
  <2>1. inbox' \in Seq(Messages)
    BY <1>t, <1>m, <1>2 DEF Hear
  <2>2. sent' \in 0..MaxMessages
    BY <1>t, <1>m, <1>2 DEF Hear
  <2> QED
    BY <1>t, <1>2, <2>1, <2>2 DEF Hear
<1>3. CASE SelectionRequest
  <2>1. inbox' \in Seq(Messages)
    BY <1>t, <1>m, <1>3 DEF SelectionRequest
  <2>2. pc' \in {"off", "events", "look", "prepare", "answer", "write", "place"}
    BY <1>t, <1>m, <1>3 DEF SelectionRequest
  <2>3. outcome' \in [Drags -> Outcomes]
    <3>1. \/ outcome' = outcome
          \/ \E h \in Outcomes : outcome' = [outcome EXCEPT ![made] = h]
      BY <1>3 DEF SelectionRequest, Outcomes
    <3> QED
      BY <1>o, <1>x, <3>1
  <2> QED
    BY <1>t, <1>3, <2>1, <2>2, <2>3 DEF SelectionRequest, Exports, Outcomes
<1>4. CASE SelectionClear
  BY <1>t, <1>4 DEF SelectionClear, Outcomes
<1>5. CASE Status
  <2>a. inbox # <<>> /\ Head(inbox) \in Messages
    BY <1>t, <1>5 DEF Status
  <2>1. inbox' \in Seq(Messages)
    BY <1>t, <1>m, <1>5, <2>a DEF Status
  <2>2. accepted' \in BOOLEAN
    <3>1. Head(inbox).kind = "status" => Head(inbox).ok \in BOOLEAN
      BY <2>a, DragAssumption DEF Messages
    <3> QED
      BY <1>t, <1>5, <3>1 DEF Status
  <2>3. pc' \in {"off", "events", "look", "prepare", "answer", "write", "place"}
    BY <1>t, <1>m, <1>5, <2>a DEF Status
  <2> QED
    BY <1>t, <1>5, <2>1, <2>2, <2>3 DEF Status
<1>6. CASE Finished
  <2>a. inbox # <<>> /\ Head(inbox) \in Messages
    BY <1>t, <1>6 DEF Finished
  <2>1. inbox' \in Seq(Messages)
    BY <1>t, <1>m, <1>6, <2>a DEF Finished
  <2>2. pc' \in {"off", "events", "look", "prepare", "answer", "write", "place"}
    BY <1>t, <1>m, <1>6, <2>a DEF Finished
  <2>3. outcome' \in [Drags -> Outcomes]
    <3>1. \/ outcome' = outcome
          \/ \E h \in Outcomes : outcome' = [outcome EXCEPT ![made] = h]
      BY <1>6 DEF Finished, Outcomes
    <3> QED
      BY <1>o, <1>x, <3>1
  <2> QED
    BY <1>t, <1>6, <2>1, <2>2, <2>3 DEF Finished, Exports, Outcomes
<1>7. CASE Answer
  BY <1>t, <1>7 DEF Answer
<1>8. CASE NoEvents
  BY <1>t, <1>8 DEF NoEvents
<1>9. CASE Wait
  BY <1>t, <1>9 DEF Wait, Outcomes
<1>10. CASE Track
  BY <1>t, <1>10 DEF Track, Outcomes
<1>11. CASE Broken
  BY <1>t, <1>11 DEF Broken, Outcomes
<1>12. CASE SessionEnds
  BY <1>t, <1>12 DEF SessionEnds, Outcomes
<1>13. CASE WritePromise
  <2>1. root' \in Roots \cup {NoRoot}
    BY <1>t, <1>m, <1>13 DEF WritePromise
  <2>2. export' \in [Drags -> Exports]
    <3>1. made \in Drags
      BY <1>m, <1>t, <1>13 DEF WritePromise
    <3>2. [[export[made] EXCEPT !.dropped = TRUE] EXCEPT !.cancelled = @ \/ cancel] \in Exports
      BY <1>b, <1>x, <1>t, <3>1 DEF TypeOK
    <3>3. \/ export' = export
         \/ export' = [export EXCEPT ![made] = [[export[made] EXCEPT !.dropped = TRUE] EXCEPT !.cancelled = @ \/ cancel]]
      BY <1>13 DEF WritePromise
    <3> QED
      BY <1>e, <1>x, <3>2, <3>3
  <2>3. pc' \in {"off", "events", "look", "prepare", "answer", "write", "place"}
    BY <1>t, <1>m, <1>13 DEF WritePromise
  <2>4. outcome' \in [Drags -> Outcomes]
    <3>1. \/ outcome' = outcome
          \/ \E h \in Outcomes : outcome' = [outcome EXCEPT ![made] = h]
      BY <1>13 DEF WritePromise, Outcomes
    <3> QED
      BY <1>o, <1>x, <3>1
  <2> QED
    BY <1>t, <1>13, <2>1, <2>2, <2>3, <2>4 DEF WritePromise, Exports, Outcomes
<1>14. CASE CopyRoot
  <2>1. root' \in Roots \cup {NoRoot}
    BY <1>t, <1>m, <1>14 DEF CopyRoot
  <2>2. left' \in SUBSET Roots
    BY <1>t, <1>m, <1>14 DEF CopyRoot
  <2>3. export' \in [Drags -> Exports]
    <3>1. made \in Drags
      BY <1>m, <1>t, <1>14 DEF CopyRoot
    <3>2. [export[made] EXCEPT !.cancelled = TRUE] \in Exports
      BY <1>b, <1>x, <1>t, <3>1 DEF TypeOK
    <3>3. \/ export' = export
         \/ export' = [export EXCEPT ![made] = [export[made] EXCEPT !.cancelled = TRUE]]
      BY <1>14 DEF CopyRoot
    <3> QED
      BY <1>e, <1>x, <3>2, <3>3
  <2>4. pc' \in {"off", "events", "look", "prepare", "answer", "write", "place"}
    BY <1>t, <1>m, <1>14 DEF CopyRoot
  <2>5. outcome' \in [Drags -> Outcomes]
    <3>1. \/ outcome' = outcome
          \/ \E h \in Outcomes : outcome' = [outcome EXCEPT ![made] = h]
      BY <1>14 DEF CopyRoot, Outcomes
    <3> QED
      BY <1>o, <1>x, <3>1
  <2> QED
    BY <1>t, <1>14, <2>1, <2>2, <2>3, <2>4, <2>5 DEF CopyRoot, Exports, Outcomes
<1>15. CASE WaitForRelease
  BY <1>t, <1>15 DEF WaitForRelease, Outcomes
<1>16. CASE Place
  <2>1. export' \in [Drags -> Exports]
    <3>1. made \in Drags
      BY <1>m, <1>t, <1>16 DEF Place
    <3>2. [export[made] EXCEPT !.dropped = TRUE] \in Exports
      BY <1>b, <1>x, <1>t, <3>1 DEF TypeOK
    <3>3. \/ export' = export
         \/ export' = [export EXCEPT ![made] = [export[made] EXCEPT !.dropped = TRUE]]
      BY <1>16 DEF Place
    <3> QED
      BY <1>e, <1>x, <3>2, <3>3
  <2>2. pc' \in {"off", "events", "look", "prepare", "answer", "write", "place"}
    BY <1>t, <1>m, <1>16 DEF Place
  <2>3. outcome' \in [Drags -> Outcomes]
    <3>1. \/ outcome' = outcome
          \/ \E h \in Outcomes : outcome' = [outcome EXCEPT ![made] = h]
      BY <1>16 DEF Place, Outcomes
    <3> QED
      BY <1>o, <1>x, <3>1
  <2> QED
    BY <1>t, <1>16, <2>1, <2>2, <2>3 DEF Place, Exports, Outcomes
<1>17. CASE Request
  BY <1>t, <1>17 DEF Request
<1>18. CASE Start
  <2>a. slot = "pending" /\ made + 1 \in Drags /\ <<>> \in Seq(Messages)
    BY <1>t, <1>m, <1>18 DEF Start, Drags
  <2>1. made' \in 0..MaxDrags
    BY <1>t, <1>m, <1>18 DEF Start
  <2>2. retained' \in Seq(Drags)
    <3>1. Append(retained, made + 1) \in Seq(Drags)
      BY <1>t, <2>a
    <3> QED
      BY <1>t, <3>1, <1>18 DEF Start
  <2>3. pc' \in {"off", "events", "look", "prepare", "answer", "write", "place"}
    BY <1>t, <1>m, <1>18 DEF Start
  <2>4. left' \in SUBSET Roots
    BY <1>t, <1>m, <1>18 DEF Start
  <2>5. root' \in Roots \cup {NoRoot}
    BY <1>t, <1>m, <1>18 DEF Start
  <2>6. target' \in Targets \cup {Nowhere}
    BY <1>t, <1>m, <1>18 DEF Start
  <2>7. inbox' \in Seq(Messages)
    BY <1>t, <2>a, <1>18 DEF Start
  <2>8. sent' \in 0..MaxMessages
    BY <1>t, <1>m, <1>18 DEF Start
  <2> QED
    BY <1>t, <1>18, <2>1, <2>2, <2>3, <2>4, <2>5, <2>6, <2>7, <2>8 DEF Start
<1>19. CASE CancelAndExit
  BY <1>t, <1>19 DEF CancelAndExit
<1>20. CASE Poll
  <2>1. retained' \in Seq(Drags)
    <3>1. Len(retained) - 1 \in Nat
      BY <1>t, <1>20 DEF Poll
    <3>2. SubSeq(retained, 1, Len(retained) - 1) \in Seq(Drags)
      BY <1>t, <3>1, SubSeqProperties
    <3> QED
      BY <1>t, <1>20, <3>2 DEF Poll
  <2>2. dir' \in [Drags -> {"none", "kept", "removed"}]
    BY <1>t, <1>m, <1>20 DEF Poll, Release
  <2>3. job' \in 0..MaxDrags
    BY <1>t, <1>m, <1>20 DEF Poll
  <2> QED
    BY <1>t, <1>20, <2>1, <2>2, <2>3 DEF Poll
<1>21. CASE Extract
  <2>1. job' \in 0..MaxDrags
    BY <1>t, <1>m, <1>21 DEF Extract
  <2>2. reads' \in [Drags -> Nat]
    <3>1. reads \in [Drags -> Nat]
      BY <1>t
    <3> HIDE DEF TypeOK, OneAtWork
    <3> QED
      BY <1>21, <3>1 DEF Extract
  <2> QED
    BY <1>t, <1>21, <2>1, <2>2 DEF Extract
<1>22. CASE Exit
  <2>1. dir' \in [Drags -> {"none", "kept", "removed"}]
    BY <1>t, <1>m, <1>22 DEF Exit, Release
  <2>2. retained' \in Seq(Drags)
    BY <1>t, <1>m, <1>22 DEF Exit
  <2> QED
    BY <1>t, <1>22, <2>1, <2>2 DEF Exit
<1>23. CASE TargetReads
  BY <1>t, <1>23 DEF TargetReads
<1>24. CASE Time
  BY <1>t, <1>24 DEF Time
<1>25. CASE UNCHANGED vars
  BY <1>t, <1>25 DEF vars
<1>26. CASE AppKitLetsGo
  <2>1. PICK d \in Drags :
          /\ promised' = [promised EXCEPT ![d] = FALSE]
          /\ dir' = [dir EXCEPT ![d] = IF d \notin Owned /\ dir[d] = "kept"
                                       THEN "removed" ELSE dir[d]]
          /\ \/ UNCHANGED <<pc, outcome>>
             \/ pc' = "off" /\ outcome' = [outcome EXCEPT ![made] = "failed"]
    BY <1>26 DEF AppKitLetsGo
  <2>2. outcome' \in [Drags -> Outcomes]
    BY <1>o, <1>x, <2>1 DEF Outcomes
  <2>3. dir' \in [Drags -> {"none", "kept", "removed"}] /\ promised' \in [Drags -> BOOLEAN]
    BY <1>t, <2>1
  <2> QED
    BY <1>t, <1>26, <2>1, <2>2, <2>3 DEF AppKitLetsGo
<1> QED
  BY <1>1, <1>2, <1>3, <1>4, <1>5, <1>6, <1>7, <1>8, <1>9, <1>10, <1>11, <1>12,
     <1>13, <1>14, <1>15, <1>16, <1>17, <1>18, <1>19, <1>20, <1>21, <1>22, <1>23,
     <1>24, <1>25, <1>26 DEF Next, Backend, Linux, MacOS, Windows, Window

LEMMA WorkStep == IInv /\ [Next]_vars => OneAtWork'
<1> SUFFICES ASSUME IInv, [Next]_vars PROVE OneAtWork'
  OBVIOUS
<1> USE DEF Goto, Tell, Ask, Dropped, Heard, Xdnd, Promising, Placing, Given,
   windowVars, dragVars, xdndVars, promiseVars, Current, OneAtWork
<1>t. TypeOK /\ OneAtWork
  BY DEF IInv
<1>p. slot = "pending" => outcome[made + 1] = "none"
  <2>1. ASSUME slot = "pending" PROVE made + 1 \in Drags /\ made + 1 > made
    BY <1>t, <2>1, DragAssumption DEF TypeOK, OneAtWork, Drags
  <2> QED
    BY <2>1 DEF IInv, Prepared
<1> USE DEF TypeOK
<1>1. CASE Prepare
  BY <1>t, <1>1 DEF Prepare
<1>2. CASE Hear
  BY <1>t, <1>2 DEF Hear
<1>3. CASE SelectionRequest
  BY <1>t, <1>3 DEF SelectionRequest
<1>4. CASE SelectionClear
  BY <1>t, <1>4 DEF SelectionClear
<1>5. CASE Status
  BY <1>t, <1>5 DEF Status
<1>6. CASE Finished
  BY <1>t, <1>6 DEF Finished
<1>7. CASE Answer
  BY <1>t, <1>7 DEF Answer
<1>8. CASE NoEvents
  BY <1>t, <1>8 DEF NoEvents
<1>9. CASE Wait
  BY <1>t, <1>9 DEF Wait
<1>10. CASE Track
  BY <1>t, <1>10 DEF Track
<1>11. CASE Broken
  BY <1>t, <1>11 DEF Broken
<1>12. CASE SessionEnds
  BY <1>t, <1>12 DEF SessionEnds
<1>13. CASE WritePromise
  BY <1>t, <1>13 DEF WritePromise
<1>14. CASE CopyRoot
  BY <1>t, <1>14 DEF CopyRoot
<1>15. CASE WaitForRelease
  BY <1>t, <1>15 DEF WaitForRelease
<1>16. CASE Place
  BY <1>t, <1>16 DEF Place
<1>17. CASE Request
  BY <1>t, <1>17 DEF Request
<1>18. CASE Start
  <2>1. CASE slot' = "free" /\ UNCHANGED <<retained, made, pc>>
    BY <1>t, <1>18, <2>1 DEF Start
  <2>2. CASE slot' = "waiting"
    <3>1. slot = "pending" /\ made' = made + 1 /\ retained' = Append(retained, made + 1)
          /\ pc' = "events" /\ UNCHANGED <<job, gone, outcome>>
      BY <1>18, <2>2 DEF Start
    <3>2. Len(retained') = Len(retained) + 1 /\ retained'[Len(retained) + 1] = made + 1
          /\ retained' # <<>>
      <4>1. made < MaxDrags
        BY <1>t, <3>1, <1>18 DEF Start
      <4> HIDE DEF TypeOK, OneAtWork
      <4> QED
        BY <1>t, <3>1, <4>1, OneMore
    <3>3. outcome[made + 1] = "none"
      BY <1>p, <3>1
    <3> QED
      BY <1>t, <2>2, <3>1, <3>2, <3>3
  <2> QED
    BY <1>18, <2>1, <2>2 DEF Start
<1>19. CASE CancelAndExit
  BY <1>t, <1>19 DEF CancelAndExit
<1>20. CASE Poll
  BY <1>t, <1>20 DEF Poll
<1>21. CASE Extract
  BY <1>t, <1>21 DEF Extract
<1>22. CASE Exit
  BY <1>t, <1>22 DEF Exit
<1>23. CASE TargetReads
  BY <1>t, <1>23 DEF TargetReads
<1>24. CASE Time
  BY <1>t, <1>24 DEF Time
<1>25. CASE UNCHANGED vars
  BY <1>t, <1>25 DEF vars
<1>26. CASE AppKitLetsGo
  BY <1>t, <1>26 DEF AppKitLetsGo
<1> QED
  BY <1>1, <1>2, <1>3, <1>4, <1>5, <1>6, <1>7, <1>8, <1>9, <1>10, <1>11, <1>12,
     <1>13, <1>14, <1>15, <1>16, <1>17, <1>18, <1>19, <1>20, <1>21, <1>22, <1>23,
     <1>24, <1>25, <1>26 DEF Next, Backend, Linux, MacOS, Windows, Window

LEMMA ApartStep == IInv /\ [Next]_vars => BackendsApart'
<1> SUFFICES ASSUME IInv, [Next]_vars PROVE BackendsApart'
  OBVIOUS
<1> USE DEF Goto, Tell, Ask, Dropped, Heard, Xdnd, Promising, Placing, Given,
   windowVars, dragVars, xdndVars, promiseVars, Current, OneAtWork, BackendsApart
<1>t. TypeOK /\ OneAtWork /\ BackendsApart
  BY DEF IInv
<1> USE DEF TypeOK
<1>1. CASE Prepare
  <2>1. made \in Drags /\ made' = made /\ system' = system
    BY <1>t, <1>1 DEF Prepare, Drags
  <2>2. export'[made].dropped = export[made].dropped
    <3>1. export \in [Drags -> [dropped : BOOLEAN, prepared : {"no", "ok", "failed"},
                               cancelled : BOOLEAN]]
      BY <1>t
    <3> HIDE DEF TypeOK, Promising, OneAtWork, BackendsApart
    <3> QED
      BY <1>1, <2>1, <3>1 DEF Prepare
  <2>3. pc' \in {"off", "answer", "write"} /\ pc = "prepare"
    BY <1>1 DEF Prepare
  <2> QED
    BY <1>t, <2>1, <2>2, <2>3
<1>2. CASE Hear
  BY <1>t, <1>2 DEF Hear
<1>3. CASE SelectionRequest
  BY <1>t, <1>3 DEF SelectionRequest
<1>4. CASE SelectionClear
  BY <1>t, <1>4 DEF SelectionClear
<1>5. CASE Status
  BY <1>t, <1>5 DEF Status
<1>6. CASE Finished
  BY <1>t, <1>6 DEF Finished
<1>7. CASE Answer
  BY <1>t, <1>7 DEF Answer
<1>8. CASE NoEvents
  BY <1>t, <1>8 DEF NoEvents
<1>9. CASE Wait
  BY <1>t, <1>9 DEF Wait
<1>10. CASE Track
  BY <1>t, <1>10 DEF Track
<1>11. CASE Broken
  BY <1>t, <1>11 DEF Broken
<1>12. CASE SessionEnds
  BY <1>t, <1>12 DEF SessionEnds
<1>13. CASE WritePromise
  BY <1>t, <1>13 DEF WritePromise
<1>14. CASE CopyRoot
  BY <1>t, <1>14 DEF CopyRoot
<1>15. CASE WaitForRelease
  BY <1>t, <1>15 DEF WaitForRelease
<1>16. CASE Place
  BY <1>t, <1>16 DEF Place
<1>17. CASE Request
  BY <1>t, <1>17 DEF Request
<1>18. CASE Start
  BY <1>t, <1>18 DEF Start
<1>19. CASE CancelAndExit
  BY <1>t, <1>19 DEF CancelAndExit
<1>20. CASE Poll
  BY <1>t, <1>20 DEF Poll
<1>21. CASE Extract
  BY <1>t, <1>21 DEF Extract
<1>22. CASE Exit
  BY <1>t, <1>22 DEF Exit
<1>23. CASE TargetReads
  BY <1>t, <1>23 DEF TargetReads
<1>24. CASE Time
  BY <1>t, <1>24 DEF Time
<1>25. CASE UNCHANGED vars
  BY <1>t, <1>25 DEF vars
<1>26. CASE AppKitLetsGo
  BY <1>t, <1>26 DEF AppKitLetsGo
<1> QED
  BY <1>1, <1>2, <1>3, <1>4, <1>5, <1>6, <1>7, <1>8, <1>9, <1>10, <1>11, <1>12,
     <1>13, <1>14, <1>15, <1>16, <1>17, <1>18, <1>19, <1>20, <1>21, <1>22, <1>23,
     <1>24, <1>25, <1>26 DEF Next, Backend, Linux, MacOS, Windows, Window

\* A step of the backend, but for the preparation, tells what became of the current
\* drag and may note its drop.
BackendStep ==
  /\ slot = "waiting"
  /\ UNCHANGED <<system, slot, retained, gone, job, made, dir, reads, promised>>
  /\ \A d \in Drags : d # made => export'[d] = export[d] /\ outcome'[d] = outcome[d]
  /\ export'[made].prepared = export[made].prepared
  /\ export[made].dropped => export'[made].dropped

LEMMA BackendsTell ==
  ASSUME IInv, Linux \/ MacOS \/ Windows
  PROVE  BackendStep
<1> USE DEF BackendStep, Current, Goto, Tell, Ask, Dropped, Heard, Xdnd, Promising,
   Placing, Given, windowVars, dragVars, xdndVars, promiseVars
<1>t. /\ pc # "off" => slot = "waiting"
      /\ export \in [Drags -> [dropped : BOOLEAN, prepared : {"no", "ok", "failed"},
                               cancelled : BOOLEAN]]
      /\ outcome \in [Drags -> Outcomes]
  BY DEF IInv, TypeOK, OneAtWork
<1>1. CASE SelectionRequest
  BY <1>t, <1>1 DEF SelectionRequest
<1>2. CASE SelectionClear
  BY <1>t, <1>2 DEF SelectionClear
<1>3. CASE Status
  BY <1>t, <1>3 DEF Status
<1>4. CASE Finished
  BY <1>t, <1>4 DEF Finished
<1>5. CASE Answer
  BY <1>t, <1>5 DEF Answer
<1>6. CASE NoEvents
  BY <1>t, <1>6 DEF NoEvents
<1>7. CASE Wait
  BY <1>t, <1>7 DEF Wait
<1>8. CASE Track
  BY <1>t, <1>8 DEF Track
<1>9. CASE Broken
  BY <1>t, <1>9 DEF Broken
<1>10. CASE SessionEnds
  BY <1>t, <1>10 DEF SessionEnds
<1>11. CASE WritePromise
  BY <1>t, <1>11 DEF WritePromise
<1>12. CASE CopyRoot
  BY <1>t, <1>12 DEF CopyRoot
<1>13. CASE WaitForRelease
  BY <1>t, <1>13 DEF WaitForRelease
<1>14. CASE Place
  BY <1>t, <1>14 DEF Place
<1> QED
  BY <1>1, <1>2, <1>3, <1>4, <1>5, <1>6, <1>7, <1>8, <1>9, <1>10, <1>11, <1>12,
     <1>13, <1>14 DEF Linux, MacOS, Windows

LEMMA TellingKeeps ==
  ASSUME IInv, BackendStep, NEW d \in Drags
  PROVE  Prepared(d)' /\ Staged(d)'
<1>1. TypeOK /\ OneAtWork /\ Prepared(d) /\ Staged(d)
  BY DEF IInv
<1>2. Prepared(d)'
  <2>1. CASE d = made
    BY <1>1, <2>1 DEF Prepared, BackendStep, TypeOK
  <2>2. CASE d # made
    BY <1>1, <2>2 DEF Prepared, BackendStep
  <2> QED
    BY <2>1, <2>2
<1>3. Staged(d)'
  BY <1>1 DEF Staged, BackendStep, TypeOK, OneAtWork, Owned, Current
<1> QED
  BY <1>2, <1>3

\* The preparation is the one extraction of the current drag.
LEMMA PrepareKeeps ==
  ASSUME IInv, Prepare, NEW d \in Drags
  PROVE  Prepared(d)' /\ Staged(d)'
<1>1. TypeOK /\ OneAtWork /\ BackendsApart /\ Prepared(d) /\ Staged(d)
  BY DEF IInv
<1>2. /\ pc = "prepare" /\ made \in Drags /\ slot = "waiting" /\ ~gone
      /\ system # "windows"
      /\ UNCHANGED <<system, slot, retained, gone, job, made, promised>>
      /\ \A e \in Drags : e # made =>
           export'[e] = export[e] /\ outcome'[e] = outcome[e] /\ dir'[e] = dir[e]
           /\ reads'[e] = reads[e]
  <2>1. pc = "prepare" /\ UNCHANGED <<system, slot, retained, gone, job, made, promised>>
    BY DEF Prepare, windowVars, promiseVars
  <2>2. made \in Drags /\ slot = "waiting" /\ ~gone /\ system # "windows"
    BY <1>1, <2>1 DEF TypeOK, OneAtWork, BackendsApart, Drags
  <2>3. ASSUME NEW e \in Drags, e # made
        PROVE  export'[e] = export[e] /\ outcome'[e] = outcome[e] /\ dir'[e] = dir[e]
               /\ reads'[e] = reads[e]
    BY <1>1, <2>2, <2>3 DEF Prepare, TypeOK, Goto, Tell, Current, Promising
  <2> QED
    BY <2>1, <2>2, <2>3
<1>3. CASE d # made
  BY <1>1, <1>2, <1>3 DEF Prepared, Staged, Owned, Current
<1>4. CASE d = made
  <2>1. export[d].dropped /\ export[d].prepared = "no" /\ reads[d] = 0 /\ dir[d] = "none"
    BY <1>1, <1>2, <1>4 DEF BackendsApart, Prepared, Current
  <2>2. /\ reads'[d] = 1 /\ export'[d].dropped
        /\ \/ dir'[d] = "kept" /\ export'[d].prepared = "ok"
           \/ dir'[d] = "removed" /\ export'[d].prepared = "failed"
    <3>1. export \in [Drags -> [dropped : BOOLEAN, prepared : {"no", "ok", "failed"},
                               cancelled : BOOLEAN]]
          /\ dir \in [Drags -> {"none", "kept", "removed"}] /\ reads \in [Drags -> Nat]
      BY <1>1 DEF TypeOK
    <3>2. reads'[d] = 1
      BY <1>2, <1>4, <2>1, <3>1 DEF Prepare, Current
    <3>3. CASE dir' = [dir EXCEPT ![made] = "kept"]
                 /\ export' = [export EXCEPT ![made].prepared = "ok"]
      BY <1>2, <1>4, <2>1, <3>1, <3>2, <3>3
    <3>4. ASSUME NEW b \in BOOLEAN, dir' = [dir EXCEPT ![made] = "removed"],
                 export' = [export EXCEPT ![made] = [export[made] EXCEPT
                              !.prepared = "failed", !.cancelled = b]]
          PROVE  /\ dir'[d] = "removed" /\ export'[d].dropped
                 /\ export'[d].prepared = "failed"
      BY <1>2, <1>4, <2>1, <3>1, <3>4
    <3>5. (export[made].cancelled \/ Promising) \in BOOLEAN
      OBVIOUS
    <3> HIDE DEF Promising
    <3> QED
      BY <3>2, <3>3, <3>4, <3>5 DEF Prepare, Current
  <2>3. d \in Owned
    BY <1>1, <1>2, <1>4 DEF OneAtWork, Owned, TypeOK
  <2> QED
    BY <1>1, <1>2, <1>4, <2>1, <2>2, <2>3 DEF Prepared, Staged, Owned, Current, Drags
<1> QED
  BY <1>3, <1>4

LEMMA RequestKeeps ==
  ASSUME IInv, Request \/ CancelAndExit, NEW d \in Drags
  PROVE  Prepared(d)' /\ Staged(d)'
<1>1. TypeOK /\ OneAtWork /\ Prepared(d) /\ Staged(d)
  BY DEF IInv
<1>2. UNCHANGED <<system, retained, gone, job, made, dir, reads, outcome, promised>>
      /\ (slot' = "waiting" <=> slot = "waiting")
  BY DEF Request, CancelAndExit, dragVars, promiseVars
<1>3. export'[d].dropped = export[d].dropped /\ export'[d].prepared = export[d].prepared
  <2>1. export \in [Drags -> [dropped : BOOLEAN, prepared : {"no", "ok", "failed"},
                             cancelled : BOOLEAN]]
    BY <1>1 DEF TypeOK
  <2>2. CASE export' = export
    BY <2>2
  <2>3. CASE export' = [export EXCEPT ![retained[Len(retained)]].cancelled = TRUE]
    BY <2>1, <2>3
  <2> QED
    BY <2>2, <2>3 DEF Request, CancelAndExit, dragVars
<1> QED
  BY <1>1, <1>2, <1>3 DEF Prepared, Staged, Owned, Current

\* A new drag starts where nothing is known of its number.
LEMMA StartKeeps ==
  ASSUME IInv, Start, NEW d \in Drags
  PROVE  Prepared(d)' /\ Staged(d)'
<1>1. TypeOK /\ OneAtWork /\ Prepared(d) /\ Staged(d)
  BY DEF IInv
<1>2. slot = "pending" /\ UNCHANGED <<system, gone, job, dir, reads, outcome, export>>
      /\ job = 0
  BY <1>1 DEF Start, OneAtWork, dragVars
<1>3. CASE slot' = "free" /\ UNCHANGED <<made, retained, promised>>
  BY <1>1, <1>2, <1>3 DEF Prepared, Staged, Owned, Current
<1>4. CASE /\ slot' = "waiting" /\ made' = made + 1 /\ retained' = Append(retained, made + 1)
           /\ promised' = [promised EXCEPT ![made'] = Promising]
  <2>1. Prepared(d)'
    BY <1>1, <1>2, <1>4 DEF Prepared, TypeOK, Drags
  <2>2. d \in Owned' <=> d \in Owned \/ d = made'
    <3>1. Len(retained') = Len(retained) + 1 /\ Len(retained) \in Nat
          /\ \A k \in 1..Len(retained) : retained'[k] = retained[k]
          /\ retained'[Len(retained) + 1] = made'
      BY <1>1, <1>2, <1>4, OneMore DEF OneAtWork
    <3>2. \A k \in 1..(Len(retained) + 1) : k \in 1..Len(retained) \/ k = Len(retained) + 1
      BY <3>1
    <3>3. \A k \in 1..Len(retained) : k \in 1..Len(retained')
      BY <3>1
    <3>4. Len(retained) + 1 \in 1..Len(retained')
      BY <3>1
    <3> QED
      <4>1. ASSUME NEW k \in 1..Len(retained'), retained'[k] = d
            PROVE  d \in Owned \/ d = made'
        BY <1>4, <3>1, <3>2, <4>1 DEF Owned
      <4>2. ASSUME NEW k \in 1..Len(retained), retained[k] = d
            PROVE  d \in Owned'
        BY <3>1, <3>3, <4>2 DEF Owned
      <4>3. d = made' => d \in Owned'
        BY <1>4, <3>1, <3>4 DEF Owned
      <4> QED
        BY <4>1, <4>2, <4>3 DEF Owned
  <2>3. /\ d = made' => export[d].prepared = "no" /\ dir[d] = "none"
        /\ d # made' => promised'[d] = promised[d]
        /\ d = made' => promised'[d] = Promising
        /\ made \in Nat /\ ~gone
    BY <1>1, <1>2, <1>4 DEF Prepared, TypeOK, OneAtWork
  <2>4. CASE d = made'
    <3>1. /\ d \in Owned' /\ slot' = "waiting" /\ ~gone' /\ made' \in Nat
          /\ dir'[d] = "none" /\ export'[d].prepared = "no"
      BY <1>2, <1>4, <2>2, <2>3, <2>4
    <3>2. d = Current' /\ d <= made'
      BY <2>4, <3>1 DEF Current
    <3>3. promised'[d] => system' = "macos"
      BY <1>2, <2>3, <2>4 DEF Promising
    <3> QED
      BY <2>1, <3>1, <3>2, <3>3 DEF Staged, Current
  <2>5. CASE d # made'
    <3>1. /\ d \in Owned' <=> d \in Owned
          /\ UNCHANGED <<gone, outcome, dir, export, system>> /\ promised'[d] = promised[d]
          /\ d # Current' /\ slot # "waiting" /\ (d <= made' <=> d <= made)
      BY <1>1, <1>2, <1>4, <2>2, <2>3, <2>5 DEF Current, Drags
    <3> QED
      BY <1>1, <2>1, <2>5, <3>1 DEF Staged, Current
  <2> QED
    BY <2>4, <2>5
<1> QED
  BY <1>3, <1>4 DEF Start, promiseVars

\* The window lets go of a drag that was not delivered.
LEMMA PollKeeps ==
  ASSUME IInv, Poll, NEW d \in Drags
  PROVE  Prepared(d)' /\ Staged(d)'
<1>1. TypeOK /\ OneAtWork /\ HeldOnce /\ Prepared(d) /\ Staged(d)
  BY DEF IInv
<1>2. /\ slot = "waiting" /\ slot' = "free" /\ ~gone
      /\ UNCHANGED <<system, gone, made, export, reads, outcome, promised>>
      /\ dir'[d] = dir[d] \/ (d = made /\ dir[d] = "kept" /\ dir'[d] = "removed")
      /\ job' \in {0, made}
  BY <1>1 DEF Poll, Release, OneAtWork, TypeOK, Current, promiseVars
<1>3. Prepared(d)'
  BY <1>1, <1>2 DEF Prepared, TypeOK
<1>4. dir'[d] = "kept" <=>
        dir[d] = "kept" /\ (d = made => outcome[d] = "delivered" \/ promised[d])
  BY <1>1, <1>2 DEF Poll, Release, TypeOK, Current
<1>5. d \in Owned' <=> d \in Owned /\ (d = made => outcome[d] = "delivered")
  <2>1. CASE outcome[made] = "delivered"
    BY <1>1, <1>2, <2>1 DEF Poll, Owned, Current
  <2>2. CASE outcome[made] # "delivered"
    <3>1. /\ retained' = SubSeq(retained, 1, Len(retained) - 1)
          /\ Len(retained) \in Nat \ {0} /\ retained[Len(retained)] = made
      BY <1>1, <1>2, <2>2 DEF Poll, Current, OneAtWork, TypeOK
    <3>2. /\ Len(retained') = Len(retained) - 1
          /\ \A k \in 1..(Len(retained) - 1) : retained'[k] = retained[k]
      BY <1>1, <1>2, <3>1, OneLess DEF OneAtWork
    <3>3. ASSUME NEW k \in 1..Len(retained), retained[k] = d
          PROVE  k \in 1..(Len(retained) - 1) <=> d # made
      BY <1>1, <3>1, <3>3 DEF HeldOnce
    <3>4. ASSUME NEW k \in 1..(Len(retained) - 1)
          PROVE  k \in 1..Len(retained)
      BY <3>1, <3>4
    <3> QED
      BY <2>2, <3>2, <3>3, <3>4 DEF Owned
  <2> QED
    BY <2>1, <2>2
<1> QED
  BY <1>1, <1>2, <1>3, <1>4, <1>5 DEF Staged, Current

\* AppKit lets go of one drag, which may be the last that does.
LEMMA LettingGoKeeps ==
  ASSUME IInv, AppKitLetsGo, NEW d \in Drags
  PROVE  Prepared(d)' /\ Staged(d)'
<1>1. TypeOK /\ OneAtWork /\ Prepared(d) /\ Staged(d)
  BY DEF IInv
<1>2. PICK c \in Drags :
        /\ promised[c] /\ promised' = [promised EXCEPT ![c] = FALSE]
        /\ dir' = [dir EXCEPT ![c] = IF c \notin Owned /\ dir[c] = "kept"
                                     THEN "removed" ELSE dir[c]]
        /\ \/ UNCHANGED <<pc, outcome>>
           \/ pc # "off" /\ outcome' = [outcome EXCEPT ![made] = "failed"]
  BY DEF AppKitLetsGo, Tell, Current
<1>3. UNCHANGED <<system, slot, retained, gone, job, made, export, reads>> /\ ~gone
  BY DEF AppKitLetsGo, windowVars
<1>4. Owned' = Owned
  BY <1>3 DEF Owned
<1>5. /\ d # made => outcome'[d] = outcome[d]
      /\ outcome'[d] = outcome[d] \/ (d = made /\ slot = "waiting" /\ outcome[d] = "none")
      /\ dir'[d] = dir[d] \/ (d = c /\ d \notin Owned /\ dir[d] = "kept" /\ dir'[d] = "removed")
      /\ d # c => promised'[d] = promised[d]
      /\ d # c => dir'[d] = dir[d]
      /\ d = c => promised[d] /\ ~promised'[d]
      /\ d = c /\ d \notin Owned => dir'[d] # "kept"
      /\ d = c /\ d \in Owned => dir'[d] = dir[d]
      /\ outcome'[d] # "delivered" \/ outcome'[d] = outcome[d]
      /\ (d # made \/ slot # "waiting") => outcome'[d] = outcome[d]
  <2>1. /\ promised \in [Drags -> BOOLEAN] /\ dir \in [Drags -> {"none", "kept", "removed"}]
        /\ outcome \in [Drags -> Outcomes] /\ (pc # "off" => slot = "waiting" /\ outcome[made] = "none")
    BY <1>1 DEF TypeOK, OneAtWork, Current
  <2>2. \/ outcome'[d] = outcome[d]
        \/ d = made /\ outcome'[d] = "failed" /\ slot = "waiting" /\ outcome[d] = "none"
    BY <1>2, <2>1
  <2>3. CASE d = c
    BY <1>2, <2>1, <2>2, <2>3
  <2>4. CASE d # c
    BY <1>2, <2>1, <2>2, <2>4
  <2> QED
    BY <2>3, <2>4
<1>6. Prepared(d)'
  <2>1. d > made => outcome'[d] = outcome[d]
    BY <1>1, <1>5 DEF TypeOK, Drags
  <2> QED
    BY <1>1, <1>3, <1>5, <2>1 DEF Prepared
<1>7. CASE d # c
  BY <1>1, <1>3, <1>4, <1>5, <1>6, <1>7 DEF Staged, Current
<1>8. CASE d = c /\ d \in Owned
  BY <1>1, <1>3, <1>4, <1>5, <1>6, <1>8 DEF Staged, Current, Prepared
<1>9. CASE d = c /\ d \notin Owned
  <2>1. dir'[d] # "kept"
    BY <1>1, <1>5, <1>9 DEF TypeOK
  <2>2. export[d].prepared = "ok" /\ ~gone =>
          outcome[d] # "delivered" /\ ~(d = made /\ slot = "waiting")
    BY <1>1, <1>9 DEF Staged, Prepared, TypeOK, Drags
  <2> QED
    BY <1>1, <1>3, <1>4, <1>5, <1>6, <1>9, <2>1, <2>2 DEF Staged, Current
<1> QED
  BY <1>7, <1>8, <1>9

LEMMA ExtractKeeps ==
  ASSUME IInv, Extract, NEW d \in Drags
  PROVE  Prepared(d)' /\ Staged(d)'
<1>1. TypeOK /\ OneAtWork /\ Prepared(d) /\ Staged(d)
  BY DEF IInv
<1>2. /\ job # 0 /\ job' = 0 /\ job = made /\ slot = "free"
      /\ UNCHANGED <<system, slot, retained, gone, made, export, dir, outcome, promised>>
  BY <1>1 DEF Extract, OneAtWork, promiseVars
<1>3. reads'[d] = reads[d] \/ (d = job /\ export[d].dropped /\ reads'[d] = reads[d] + 1)
  BY <1>1 DEF Extract, TypeOK
<1>4. Prepared(d)'
  <2>1. CASE reads'[d] = reads[d]
    BY <1>1, <1>2, <2>1 DEF Prepared
  <2>2. CASE d = made /\ reads'[d] = reads[d] + 1 /\ export[d].dropped
    <3>1. reads[d] = 0 /\ system = "windows"
      BY <1>1, <1>2, <2>2 DEF Prepared, OneAtWork
    <3> QED
      BY <1>1, <1>2, <2>2, <3>1 DEF Prepared
  <2> QED
    BY <1>2, <1>3, <2>1, <2>2
<1> QED
  BY <1>1, <1>2, <1>4 DEF Staged, Owned, Current

LEMMA ExitKeeps ==
  ASSUME IInv, Exit, NEW d \in Drags
  PROVE  Prepared(d)' /\ Staged(d)'
<1>1. TypeOK /\ OneAtWork /\ Prepared(d) /\ Staged(d)
  BY DEF IInv
<1>2. /\ slot # "waiting" /\ slot' = "free" /\ job = 0 /\ gone' /\ retained' = <<>>
      /\ UNCHANGED <<system, job, made, export, reads, outcome, promised>>
  BY DEF Exit, promiseVars
<1>3. /\ dir'[d] = dir[d] \/ (dir[d] = "kept" /\ dir'[d] = "removed")
      /\ dir'[d] = "kept" <=> dir[d] = "kept" /\ promised[d]
  BY <1>1 DEF Exit, Release, TypeOK, Staged
<1>4. Owned' = {}
  BY <1>2 DEF Owned
<1> QED
  BY <1>1, <1>2, <1>3, <1>4 DEF Prepared, Staged

LEMMA AnswerStep == IInv /\ [Next]_vars => Answering'
<1> SUFFICES ASSUME IInv, [Next]_vars PROVE Answering'
  OBVIOUS
<1> USE DEF Goto, Tell, Ask, Dropped, Heard, Xdnd, Promising, Placing, Given,
   windowVars, dragVars, xdndVars, promiseVars, Current, OneAtWork, BackendsApart, Answering
<1>t. TypeOK /\ OneAtWork /\ BackendsApart /\ Answering
  BY DEF IInv
<1>r. \A d \in Drags : reader[d] # "none" => system = "linux"
  BY DEF IInv, Reading
<1> USE DEF TypeOK
<1>1. CASE Prepare
  BY <1>t, <1>1 DEF Prepare
<1>2. CASE Hear
  BY <1>t, <1>2 DEF Hear
<1>3. CASE SelectionRequest
  BY <1>t, <1>3 DEF SelectionRequest
<1>4. CASE SelectionClear
  BY <1>t, <1>4 DEF SelectionClear
<1>5. CASE Status
  BY <1>t, <1>5 DEF Status
<1>6. CASE Finished
  BY <1>t, <1>6 DEF Finished
<1>7. CASE Answer
  BY <1>t, <1>7 DEF Answer
<1>8. CASE NoEvents
  BY <1>t, <1>8 DEF NoEvents
<1>9. CASE Wait
  BY <1>t, <1>9 DEF Wait
<1>10. CASE Track
  BY <1>t, <1>10 DEF Track
<1>11. CASE Broken
  BY <1>t, <1>11 DEF Broken
<1>12. CASE SessionEnds
  BY <1>t, <1>12 DEF SessionEnds
<1>13. CASE WritePromise
  BY <1>t, <1>13 DEF WritePromise
<1>14. CASE CopyRoot
  BY <1>t, <1>14 DEF CopyRoot
<1>15. CASE WaitForRelease
  BY <1>t, <1>15 DEF WaitForRelease
<1>16. CASE Place
  BY <1>t, <1>16 DEF Place
<1>17. CASE Request
  BY <1>t, <1>17 DEF Request
<1>18. CASE Start
  <2>1. slot = "pending" => reader[made + 1] = "none" /\ ~export[made + 1].dropped
    <3>1. ASSUME slot = "pending" PROVE made + 1 \in Drags /\ made + 1 > made
      BY <1>t, <3>1, DragAssumption DEF Drags
    <3> QED
      BY <3>1 DEF IInv, Prepared, Reading
  <2> QED
    BY <1>t, <1>18, <2>1 DEF Start
<1>19. CASE CancelAndExit
  BY <1>t, <1>19 DEF CancelAndExit
<1>20. CASE Poll
  BY <1>t, <1>20 DEF Poll
<1>21. CASE Extract
  BY <1>t, <1>21 DEF Extract
<1>22. CASE Exit
  BY <1>t, <1>22 DEF Exit
<1>23. CASE TargetReads
  BY <1>t, <1>23 DEF TargetReads
<1>24. CASE Time
  BY <1>t, <1>24 DEF Time
<1>25. CASE UNCHANGED vars
  BY <1>t, <1>25 DEF vars
<1>26. CASE AppKitLetsGo
  BY <1>t, <1>26 DEF AppKitLetsGo
<1> QED
  BY <1>1, <1>2, <1>3, <1>4, <1>5, <1>6, <1>7, <1>8, <1>9, <1>10, <1>11, <1>12,
     <1>13, <1>14, <1>15, <1>16, <1>17, <1>18, <1>19, <1>20, <1>21, <1>22, <1>23,
     <1>24, <1>25, <1>26 DEF Next, Backend, Linux, MacOS, Windows, Window

LEMMA HeldStep == IInv /\ [Next]_vars => HeldOnce'
<1> SUFFICES ASSUME IInv, [Next]_vars PROVE HeldOnce'
  OBVIOUS
<1>1. TypeOK /\ OneAtWork /\ HeldOnce /\ made \in Nat
  BY DEF IInv, TypeOK
<1>2. CASE retained' = retained \/ retained' = <<>>
  BY <1>1, <1>2 DEF HeldOnce
<1>3. CASE Start /\ retained' = Append(retained, made + 1)
  <2>1. \A k \in 1..Len(retained) : retained[k] <= made
    <3>1. \A k \in 1..Len(retained) : retained[k] \in Drags /\ retained[k] \in Owned
      BY <1>1 DEF TypeOK, Owned
    <3> QED
      BY <3>1 DEF IInv, Staged
  <2>2. /\ Len(retained') = Len(retained) + 1 /\ Len(retained) \in Nat
        /\ \A k \in 1..Len(retained) : retained'[k] = retained[k]
        /\ retained'[Len(retained) + 1] = made + 1
    <3>1. made < MaxDrags
      BY <1>1, <1>3 DEF Start, OneAtWork
    <3> QED
      BY <1>1, <1>3, <3>1, OneMore
  <2>3. \A k \in 1..(Len(retained) + 1) : k \in 1..Len(retained) \/ k = Len(retained) + 1
    BY <2>2
  <2> QED
    BY <1>1, <2>1, <2>2, <2>3 DEF HeldOnce
<1>4. CASE retained' = SubSeq(retained, 1, Len(retained) - 1) /\ Poll
  <2>1. retained # <<>>
    BY <1>1, <1>4 DEF Poll, OneAtWork
  <2>2. /\ Len(retained) \in Nat \ {0} /\ Len(retained') = Len(retained) - 1
        /\ \A k \in 1..(Len(retained) - 1) : retained'[k] = retained[k]
    BY <1>1, <1>4, <2>1, OneLess
  <2>3. \A k \in 1..(Len(retained) - 1) : k \in 1..Len(retained)
    BY <2>2
  <2> QED
    BY <1>1, <2>2, <2>3 DEF HeldOnce
<1>5. CASE ~(Start \/ Poll \/ Exit)
  BY <1>2, <1>5 DEF Next, Backend, Linux, MacOS, Windows, Window, Prepare, Hear,
     SelectionRequest, SelectionClear, Status, Finished, Answer, NoEvents, Wait, Track, Broken,
     SessionEnds, WritePromise, CopyRoot, WaitForRelease, Place, Request, CancelAndExit,
     Extract, TargetReads, Time, AppKitLetsGo, Heard, vars, windowVars
<1>6. CASE Start
  BY <1>2, <1>3, <1>6 DEF Start
<1>7. CASE Poll
  BY <1>2, <1>4, <1>7 DEF Poll
<1>8. CASE Exit
  BY <1>2, <1>8 DEF Exit
<1> QED
  BY <1>5, <1>6, <1>7, <1>8

LEMMA ReadingStep == IInv /\ [Next]_vars => \A d \in Drags : Reading(d)'
<1> SUFFICES ASSUME IInv, [Next]_vars, NEW d \in Drags PROVE Reading(d)'
  OBVIOUS
<1> USE DEF Goto, Tell, Ask, Dropped, Heard, Xdnd, Promising, Placing, Given,
   windowVars, dragVars, xdndVars, promiseVars, Current, OneAtWork, BackendsApart, Answering, Reading
<1>t. TypeOK /\ OneAtWork /\ BackendsApart /\ Answering /\ Reading(d) /\ Prepared(d)
  BY DEF IInv
<1> USE DEF TypeOK, Drags
<1>1. CASE Prepare
  BY <1>t, <1>1 DEF Prepare
<1>2. CASE Hear
  BY <1>t, <1>2 DEF Hear
<1>3. CASE SelectionRequest
  BY <1>t, <1>3 DEF SelectionRequest
<1>4. CASE SelectionClear
  BY <1>t, <1>4 DEF SelectionClear
<1>5. CASE Status
  BY <1>t, <1>5 DEF Status
<1>6. CASE Finished
  BY <1>t, <1>6 DEF Finished
<1>7. CASE Answer
  BY <1>t, <1>7 DEF Answer
<1>8. CASE NoEvents
  BY <1>t, <1>8 DEF NoEvents
<1>9. CASE Wait
  BY <1>t, <1>9 DEF Wait
<1>10. CASE Track
  BY <1>t, <1>10 DEF Track
<1>11. CASE Broken
  BY <1>t, <1>11 DEF Broken
<1>12. CASE SessionEnds
  BY <1>t, <1>12 DEF SessionEnds
<1>13. CASE WritePromise
  BY <1>t, <1>13 DEF WritePromise
<1>14. CASE CopyRoot
  BY <1>t, <1>14 DEF CopyRoot
<1>15. CASE WaitForRelease
  BY <1>t, <1>15 DEF WaitForRelease
<1>16. CASE Place
  BY <1>t, <1>16 DEF Place
<1>17. CASE Request
  BY <1>t, <1>17 DEF Request
<1>18. CASE Start
  BY <1>t, <1>18 DEF Start
<1>19. CASE CancelAndExit
  BY <1>t, <1>19 DEF CancelAndExit
<1>20. CASE Poll
  BY <1>t, <1>20 DEF Poll
<1>21. CASE Extract
  BY <1>t, <1>21 DEF Extract
<1>22. CASE Exit
  BY <1>t, <1>22 DEF Exit
<1>23. CASE TargetReads
  BY <1>t, <1>23 DEF TargetReads
<1>24. CASE Time
  BY <1>t, <1>24 DEF Time
<1>25. CASE UNCHANGED vars
  BY <1>t, <1>25 DEF vars
<1>26. CASE AppKitLetsGo
  BY <1>t, <1>26 DEF AppKitLetsGo
<1> QED
  BY <1>1, <1>2, <1>3, <1>4, <1>5, <1>6, <1>7, <1>8, <1>9, <1>10, <1>11, <1>12,
     <1>13, <1>14, <1>15, <1>16, <1>17, <1>18, <1>19, <1>20, <1>21, <1>22, <1>23,
     <1>24, <1>25, <1>26 DEF Next, Backend, Linux, MacOS, Windows, Window

LEMMA StepInv == IInv /\ [Next]_vars => IInv'
<1> SUFFICES ASSUME IInv, [Next]_vars PROVE IInv'
  OBVIOUS
<1>1. ASSUME NEW d \in Drags PROVE Prepared(d)' /\ Staged(d)'
  <2>1. CASE Linux \/ MacOS \/ Windows
    BY <2>1, BackendsTell, TellingKeeps
  <2>2. CASE Hear \/ TargetReads \/ Time \/ UNCHANGED vars
    <3>1. UNCHANGED <<system, slot, retained, gone, job, made, dir, reads, export, outcome,
                      promised>>
      BY <2>2 DEF Hear, TargetReads, Time, vars, windowVars, dragVars, promiseVars
    <3> QED
      BY <3>1 DEF IInv, Prepared, Staged, Owned, Current
  <2> QED
    BY <2>1, <2>2, PrepareKeeps, RequestKeeps, StartKeeps, PollKeeps, ExtractKeeps,
       ExitKeeps, LettingGoKeeps
       DEF Next, Backend, Window
<1> QED
  BY <1>1, TypeStep, WorkStep, ApartStep, AnswerStep, HeldStep, ReadingStep DEF IInv

\* The variables range over the values the module names.
THEOREM DragTyping == Spec => []TypeOK
<1>1. IInv => TypeOK
  BY DEF IInv
<1> QED
  BY <1>1, InitInv, StepInv, PTL DEF Spec

\* No archive is read and no file made before the drop, and once only after it.
THEOREM ReadsOnceAfterTheDrop == Spec => []ReadOnceAfterDrop
<1>1. IInv => ReadOnceAfterDrop
  BY DEF IInv, ReadOnceAfterDrop, Prepared
<1> QED
  BY <1>1, InitInv, StepInv, PTL DEF Spec

\* The files of a drag are there exactly while the window waits for it, has it
\* delivered or AppKit holds its promises; they vanish under a target that has their
\* paths only in the named cases.
THEOREM DeliveredIsKept == Spec => []StagingFollowsDelivery
<1>1. IInv => StagingFollowsDelivery
  <2> SUFFICES ASSUME IInv, NEW d \in Drags
               PROVE  /\ dir[d] = "kept" <=>
                           /\ export[d].prepared = "ok"
                           /\ \/ promised[d]
                              \/ /\ ~gone
                                 /\ outcome[d] = "delivered" \/ (d = Current /\ slot = "waiting")
                      /\ reader[d] = "paths" /\ dir[d] = "removed" =>
                           gone \/ outcome[d] \in {"refused", "timeout", "taken", "broken",
                                                   "failed"}
    BY DEF StagingFollowsDelivery
  <2>1. TypeOK /\ Prepared(d) /\ Staged(d) /\ Reading(d)
    BY DEF IInv
  <2>2. ASSUME reader[d] = "paths", dir[d] = "removed", ~gone
        PROVE  outcome[d] \in {"refused", "timeout", "taken", "broken", "failed"}
    <3>1. export[d].prepared = "ok" /\ outcome[d] \in Outcomes \ {"cancelled", "extract"}
      BY <2>1, <2>2 DEF Reading, TypeOK
    <3>2. outcome[d] # "delivered" /\ ~(d = made /\ slot = "waiting") /\ d <= made
      BY <2>1, <2>2, <3>1 DEF Staged, Prepared, Current, TypeOK, Drags
    <3> QED
      BY <2>1, <3>1, <3>2 DEF Reading, Outcomes
  <2> QED
    BY <2>1, <2>2 DEF Staged
<1> QED
  BY <1>1, InitInv, StepInv, PTL DEF Spec
================================================================================
